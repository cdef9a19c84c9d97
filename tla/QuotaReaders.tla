---------------------------- MODULE QuotaReaders ----------------------------
(***************************************************************************)
(* How a provider's quota answer becomes groups (src/quota.go,             *)
(* src/quotashape.go).  fetchQuota chooses a reader by provider: Claude,   *)
(* and Codex where rules are configured, go through applyQuotaRules, a     *)
(* pass over a list of rules; Codex has two windows of its own otherwise,  *)
(* Copilot one number; Antigravity's per-model quota is folded into        *)
(* families by groupAntigravityModels.                                     *)
(*                                                                         *)
(* A rule locates its windows, in the answer's array or in one of its      *)
(* fields, and gives each an id by a template that may take the name the   *)
(* window carries.  A percentage is a whole number, or None where the      *)
(* answer has null, nothing or no number.  Antigravity lists its models in *)
(* another order on every call, and may list an id again, so its entries   *)
(* are numbered and the step that folds one takes any that is left.  A     *)
(* step is a round of a reader's loop.                                     *)
(***************************************************************************)
EXTENDS Integers, FiniteSets, FiniteSetsExt, SequencesExt

CONSTANTS
  None,
  Percent,   \* percentages a provider may report
  Kind,      \* the values of the field a rule's Where filters on
  Field,     \* the flat fields
  Name,      \* the names windows carry and rules fall back to, "" among them
  Template,  \* the ids of rules, with {name} in them or without
  Expand,    \* expandName for ids: [Template \X Name -> STRING]
  Rules,     \* the rules, in order
  Payloads,  \* answers read by the rules
  Model,     \* model ids, as positions in alphabetical order
  Family,    \* families, in antigravityGroupOrder: <<"pro", ...>>
  FamilyOf,  \* categorizeAntigravityModel: [Model -> family]
  Time,      \* reset times
  Listings,  \* Antigravity's answers: [set of entries -> quota]
  Bodies,    \* Codex's answers
  Snapshots  \* Copilot's answers

Window == [kind : Kind \cup {None}, percent : Percent \cup {None},
           name : Name \cup {None}]

\* array: its windows are the array's, those whose kind is in where, or all
\* when where is None.  reads: it takes the window's name (NameFrom).
Rule == [array : BOOLEAN, where : SUBSET Kind \cup {None},
         field : Field \cup {None}, id : Template, reads : BOOLEAN,
         fallback : Name, means : {"used", "remaining"}]

ASSUME RuleAssumption ==
  /\ Rules \in Seq(Rule)
  /\ Percent \subseteq Int /\ None \notin Percent
  /\ Expand \in [Template \X Name -> STRING]
  /\ None \notin Name \cup Window
  /\ \A p \in Payloads :
       /\ p.array \in Seq(Window)
       /\ p.fields \in [Field -> Window \cup {None}]

Quota == [model : Model, fraction : Percent, reset : Time \cup {None}]

\* The models of a family are the numbers of their entries.
FamilyGroup == [models : Seq(Nat), remaining : 0..100,
                reset : Time \cup {None}]

ASSUME ListingAssumption ==
  /\ Model \subseteq Nat /\ Time \subseteq Nat
  /\ None \notin Nat /\ None \notin FamilyGroup
  /\ Family \in Seq(ToSet(Family)) /\ FamilyOf \in [Model -> ToSet(Family)]
  /\ \A l \in Listings : /\ DOMAIN l \subseteq Nat /\ IsFiniteSet(DOMAIN l)
                           /\ \A e \in DOMAIN l : l[e] \in Quota

\* A body as the built-in reader sees it, if it has the types that reader
\* expects, and as the configured rules see it.
Body == [typed : BOOLEAN, windows : Seq(Percent \cup {None}), generic : Payloads]

Snapshot == [unlimited : BOOLEAN, percent : Percent \cup {None},
             remaining : Percent \cup {None}, entitlement : Percent \cup {None}]

ASSUME CodexCopilotAssumption ==
  /\ Bodies \subseteq Body /\ \A b \in Bodies : Len(b.windows) \in {0, 2}
  /\ Snapshots \subseteq Snapshot

VARIABLES
  reader,   \* the reader at work: "rules", "families", "codex" or "copilot"
  ruled,    \* codex: quota_windows has rules for it, and Rules are they
  answer,   \* what the provider answered
  next,     \* rules: the rule to apply; families: the one to report;
            \* codex and copilot: 1 once read
  at,       \* rules: the window to apply it to
  left,     \* families: the entries not folded yet
  grouped,  \* families: per family, the group so far or None
  groups    \* what the reader returns, as far as it is known

vars == <<reader, ruled, answer, next, at, left, grouped, groups>>

\* A group also carries the window it was read from, for the properties.
RuleGroup == [id : STRING, remaining : 0..100, of : Window]

\* A Codex window's number is its slot, Copilot's is 0.
SlotGroup == [slot : 0..2, remaining : 0..100]

RulesTypes ==
  /\ reader = "rules" /\ next \in 1..Len(Rules) + 1 /\ at \in Nat \ {0}
  /\ answer \in Payloads \cup Bodies
  /\ groups \in Seq(RuleGroup)

FamilyTypes ==
  /\ reader = "families" /\ next \in 1..Len(Family) + 1
  /\ answer \in Listings /\ left \subseteq DOMAIN answer
  /\ grouped \in [ToSet(Family) -> FamilyGroup \cup {None}]
  /\ groups \in Seq(FamilyGroup)

SlotTypes ==
  /\ reader \in {"codex", "copilot"} /\ next \in 0..1
  /\ answer \in IF reader = "codex" THEN Bodies ELSE Snapshots
  /\ groups \in Seq(SlotGroup)

TypeOK == RulesTypes \/ FamilyTypes \/ SlotTypes

-----------------------------------------------------------------------------
\* Deviation: a percentage out of range is passed on.
Clamp_Identity(p) == p

\* clampFraction, on whole percents.
Clamp(p) == IF p < 0 THEN 0 ELSE IF p > 100 THEN 100 ELSE p

-----------------------------------------------------------------------------
(* applyQuotaRules *)

Remaining(rule, w) ==
  Clamp(IF rule.means = "remaining" THEN w.percent ELSE 100 - w.percent)

NameOf(rule, w) ==
  IF rule.reads /\ w.name \notin {None, ""} THEN w.name ELSE rule.fallback

IdOf(rule, w) == Expand[<<rule.id, NameOf(rule, w)>>]

\* Deviation: a later window with the same id takes the group over.
Emit_LastWins(out, rule, w) ==
  IF w.percent = None THEN out
  ELSE Append(SelectSeq(out, LAMBDA g : g.id # IdOf(rule, w)),
              [id |-> IdOf(rule, w), remaining |-> Remaining(rule, w), of |-> w])

\* emit: a window without a number is left out, and so is one whose id is
\* empty or was claimed before.
Emit(out, rule, w) ==
  IF \/ w.percent = None \/ IdOf(rule, w) = ""
     \/ \E i \in DOMAIN out : out[i].id = IdOf(rule, w)
    THEN out
    ELSE Append(out, [id |-> IdOf(rule, w), remaining |-> Remaining(rule, w),
                      of |-> w])

\* The windows a rule looks at: none where it says neither.
WindowsOf(p, rule) ==
  IF rule.array THEN p.array
  ELSE IF rule.field = None \/ p.fields[rule.field] = None THEN <<>>
  ELSE <<p.fields[rule.field]>>

\* ruleMatches: only a rule over an array filters, and only if it has a where;
\* an entry without the field it filters on does not match.
Matches(rule, w) ==
  rule.array /\ rule.where # None => w.kind \in rule.where

\* What the rules are applied to: Codex's body where they are configured.
RuleInput == IF answer \in Bodies THEN answer.generic ELSE answer

WindowsAt(i) == WindowsOf(RuleInput, Rules[i])

StartRules ==
  /\ reader = "rules" /\ ruled = FALSE /\ answer \in Payloads
  /\ next = 1 /\ left = {}

ReadWindow ==
  /\ reader = "rules" /\ next <= Len(Rules) /\ at <= Len(WindowsAt(next))
  /\ at' = at + 1
  /\ LET rule == Rules[next]  w == WindowsAt(next)[at]
     IN groups' = IF Matches(rule, w) THEN Emit(groups, rule, w) ELSE groups
  /\ UNCHANGED <<reader, ruled, answer, next, left, grouped>>

NextRule ==
  /\ reader = "rules" /\ next <= Len(Rules) /\ at > Len(WindowsAt(next))
  /\ next' = next + 1
  /\ at' = 1
  /\ UNCHANGED <<reader, ruled, answer, left, grouped, groups>>

-----------------------------------------------------------------------------
(* fetchCodexQuota and fetchCopilotQuota *)

StartCodex ==
  /\ reader = "codex" /\ ruled \in BOOLEAN /\ answer \in Bodies
  /\ next = 0 /\ left = {}

SlotOf(windows, i) ==
  IF i \in DOMAIN windows /\ windows[i] # None
    THEN <<[slot |-> i, remaining |-> Clamp(100 - windows[i])]>> ELSE <<>>

\* Deviation: a window without a number counts as unused.
CodexGroups_NullIsFull(windows) ==
  [i \in DOMAIN windows |->
     [slot |-> i, remaining |->
        IF windows[i] = None THEN 100 ELSE Clamp(100 - windows[i])]]

\* A window the account does not have is left out.
CodexGroups(windows) == SlotOf(windows, 1) \o SlotOf(windows, 2)

\* The body is decoded as the built-in reader expects it before the rules are
\* looked for.
ReadCodex ==
  /\ reader = "codex" /\ next = 0
  /\ next' = 1
  /\ IF answer.typed /\ ruled
       THEN reader' = "rules" /\ UNCHANGED groups
       ELSE /\ groups' = IF answer.typed THEN CodexGroups(answer.windows) ELSE <<>>
            /\ UNCHANGED reader
  /\ UNCHANGED <<ruled, answer, at, left, grouped>>

StartCopilot ==
  /\ reader = "copilot" /\ ruled = FALSE /\ answer \in Snapshots
  /\ next = 0 /\ left = {}

\* A snapshot that says nothing leaves the fraction at its zero value.
Premium(a) ==
  IF a.unlimited THEN 100
  ELSE IF a.percent # None THEN Clamp(a.percent)
  ELSE IF a.remaining # None /\ a.entitlement # None /\ a.entitlement > 0
         THEN Clamp((100 * a.remaining) \div a.entitlement)
  ELSE 0

ReadCopilot ==
  /\ reader = "copilot" /\ next = 0
  /\ next' = 1
  /\ groups' = <<[slot |-> 0, remaining |-> Premium(answer)]>>
  /\ UNCHANGED <<reader, ruled, answer, at, left, grouped>>

-----------------------------------------------------------------------------
(* groupAntigravityModels *)

NewGroup == [models |-> <<>>, remaining |-> 100, reset |-> None]

\* Deviation: the time that was read last stands.
Earlier_Last(old, new) == IF new = None THEN old ELSE new

\* The earliest time given; no time never replaces one.
Earlier(old, new) ==
  IF new # None /\ (old = None \/ new < old) THEN new ELSE old

Include(g, e, q) ==
  [models |-> Append(g.models, e),
   remaining |-> IF Clamp(q.fraction) < g.remaining THEN Clamp(q.fraction)
                                                    ELSE g.remaining,
   reset |-> Earlier(g.reset, q.reset)]

StartFamilies ==
  /\ reader = "families" /\ ruled = FALSE /\ answer \in Listings
  /\ next = 1 /\ left = DOMAIN answer

Take(e) ==
  /\ reader = "families" /\ e \in left
  /\ left' = left \ {e}
  /\ grouped' = [grouped EXCEPT ![FamilyOf[answer[e].model]] =
       Include(IF @ = None THEN NewGroup ELSE @, e, answer[e])]
  /\ UNCHANGED <<reader, ruled, answer, next, at, groups>>

\* What sorting may leave of entries: those of one model in any order, for
\* the sort is not stable.
Ordered(es) ==
  {s \in [1..Cardinality(es) -> es] :
     \A i, j \in DOMAIN s :
       i < j => s[i] # s[j] /\ answer[s[i]].model <= answer[s[j]].model}

\* The families in their fixed order, each with its models sorted.
ReportFamily ==
  /\ reader = "families" /\ left = {} /\ next <= Len(Family)
  /\ next' = next + 1
  /\ LET g == grouped[Family[next]] IN
     IF g = None THEN UNCHANGED groups
     ELSE \E s \in Ordered(ToSet(g.models)) :
            groups' = Append(groups, [g EXCEPT !.models = s])
  /\ UNCHANGED <<reader, ruled, answer, at, left, grouped>>

-----------------------------------------------------------------------------
\* fetchQuota chooses the reader, nothing is read yet.
Init ==
  /\ StartRules \/ StartFamilies \/ StartCodex \/ StartCopilot
  /\ at = 1 /\ grouped = [f \in ToSet(Family) |-> None] /\ groups = <<>>

Next == ReadWindow \/ NextRule \/ ReadCodex \/ ReadCopilot
          \/ (\E e \in left : Take(e)) \/ ReportFamily

Spec == Init /\ [][Next]_vars

-----------------------------------------------------------------------------
(* Properties *)

\* The id rule i gives its window j, which is readable when it has a number
\* and an id.
ClaimAt(i, j) == IdOf(Rules[i], WindowsAt(i)[j])

Readable(i, j) == /\ Matches(Rules[i], WindowsAt(i)[j])
                  /\ WindowsAt(i)[j].percent # None
                  /\ ClaimAt(i, j) # ""

Passed(i, j) == Readable(i, j) /\ (i < next \/ (i = next /\ j < at))

\* Window j of rule i is the first one that claims its id.
ClaimsFirst(i, j) ==
  \A k \in DOMAIN Rules : \A l \in DOMAIN WindowsAt(k) :
    Readable(k, l) /\ ClaimAt(k, l) = ClaimAt(i, j)
      => i < k \/ (i = k /\ j <= l)

\* quotashape.go:103, 131: every id some rule finds a number for is reported
\* once, by the first rule that claims it, so that the older flat fields are a
\* fallback for the newer array and never a duplicate of it; a window whose id
\* comes to nothing is not reported.
FirstRuleWins ==
  reader = "rules" =>
    /\ \A i \in DOMAIN Rules : \A j \in DOMAIN WindowsAt(i) :
         Passed(i, j) => \E g \in DOMAIN groups : groups[g].id = ClaimAt(i, j)
    /\ \A g, h \in DOMAIN groups : groups[g].id = groups[h].id => g = h
    /\ \A g \in DOMAIN groups :
         \E i \in DOMAIN Rules : \E j \in DOMAIN WindowsAt(i) :
           /\ Passed(i, j) /\ ClaimsFirst(i, j)
           /\ groups[g].id = ClaimAt(i, j) /\ groups[g].of = WindowsAt(i)[j]

Members(f) == {e \in DOMAIN answer : FamilyOf[answer[e].model] = f}

FamiliesShown == {i \in DOMAIN Family : Members(Family[i]) # {}}

\* quota.go:583-593, 622: whatever order the models come in, the document
\* shows the families that have models in the fixed order, each with all its
\* entries sorted by model, the least fraction any of them has left and the
\* earliest reset time any of them gives.
GroupsIgnoreOrder ==
  reader = "families" /\ next > Len(Family) =>
    /\ Len(groups) = Cardinality(FamiliesShown)
    /\ \A i \in FamiliesShown :
         LET g == groups[Cardinality({j \in FamiliesShown : j <= i})]
             es == Members(Family[i])
             resets == {answer[e].reset : e \in es} \ {None}
         IN /\ g.models \in Ordered(es)
            /\ g.remaining = Min({Clamp(answer[e].fraction) : e \in es})
            /\ g.reset = IF resets = {} THEN None ELSE Min(resets)

\* README.md:155, quota.go:260, 323: whichever reader reads it, a quota is
\* shown as untouched only when the provider said so: by a number that comes
\* to that, or by calling it unlimited.
FullIsReported ==
  \A k \in DOMAIN groups :
    LET g == groups[k] IN
    g.remaining = 100 =>
      CASE reader = "rules" ->
             \E i \in DOMAIN Rules : \E j \in DOMAIN WindowsAt(i) :
               /\ g.of = WindowsAt(i)[j] /\ Readable(i, j)
               /\ Remaining(Rules[i], g.of) = 100
        [] reader = "codex" ->
             answer.windows[g.slot] # None /\ answer.windows[g.slot] <= 0
        [] reader = "copilot" ->
             \/ answer.unlimited
             \/ answer.percent # None /\ answer.percent >= 100
             \/ /\ None \notin {answer.remaining, answer.entitlement}
                /\ answer.remaining >= answer.entitlement
        [] OTHER -> \A e \in ToSet(g.models) : answer[e].fraction >= 100

-----------------------------------------------------------------------------
(* Claims of the source that a behaviour refutes *)

\* quota.go:297: configured rules take over when a deployment has to describe
\* a payload this build does not know about: what they find is what is shown.
RulesTakeOver ==
  ruled /\ next > (IF reader = "rules" THEN Len(Rules) ELSE 0) =>
    ((\E i \in DOMAIN Rules : \E j \in DOMAIN WindowsAt(i) : Readable(i, j))
       => groups # <<>>)

\* quota.go:545-547: model entries are kept in payload order within each
\* group.
ModelsKeepPayloadOrder ==
  reader = "families" =>
    \A k \in DOMAIN groups : \E f \in ToSet(Family) :
      grouped[f] # None /\ groups[k].models = grouped[f].models
=============================================================================
