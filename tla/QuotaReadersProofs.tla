------------------------- MODULE QuotaReadersProofs -------------------------
(***************************************************************************)
(* Proofs about QuotaReaders, for every rule list, every answer and every  *)
(* order a provider's models come in.                                      *)
(***************************************************************************)
EXTENDS QuotaReaders, FiniteSetTheorems, SequenceTheorems, TLAPS

-----------------------------------------------------------------------------
(* The readers that take one step *)

\* A window's number is shown as untouched only when it comes to that.
CodexHonest(windows, g) ==
  g.remaining = 100 => windows[g.slot] # None /\ windows[g.slot] <= 0

CopilotHonest(a, g) ==
  g.remaining = 100 =>
    \/ a.unlimited
    \/ a.percent # None /\ a.percent >= 100
    \/ None \notin {a.remaining, a.entitlement} /\ a.remaining >= a.entitlement

SlotInv ==
  reader \in {"codex", "copilot"} =>
    /\ SlotTypes
    /\ next = 0 => groups = <<>> /\ at = 1
    /\ \A k \in DOMAIN groups :
         IF reader = "codex" THEN CodexHonest(answer.windows, groups[k])
                             ELSE CopilotHonest(answer, groups[k])

LEMMA ClampRange ==
  ASSUME NEW p \in Int
  PROVE  Clamp(p) \in 0..100 /\ (Clamp(p) = 100 <=> p >= 100)
BY DEF Clamp

\* A percentage is a number or missing, never both.
LEMMA PercentsAre == Percent \subseteq Int /\ None \notin Percent
BY RuleAssumption

LEMMA SlotIs ==
  ASSUME NEW windows \in Seq(Percent \cup {None}), NEW i \in {1, 2}
  PROVE  /\ SlotOf(windows, i) \in Seq(SlotGroup)
         /\ \A k \in DOMAIN SlotOf(windows, i) :
              CodexHonest(windows, SlotOf(windows, i)[k])
<1>1. CASE i \in DOMAIN windows /\ windows[i] # None
  <2>1. PICK g : g = [slot |-> i, remaining |-> Clamp(100 - windows[i])]
    OBVIOUS
  <2>2. windows[i] \in Int
    <3>1. windows[i] \in Percent \cup {None}
      BY <1>1
    <3> QED
      BY <1>1, <3>1, PercentsAre
  <2>3. /\ Clamp(100 - windows[i]) \in 0..100
        /\ Clamp(100 - windows[i]) = 100 => windows[i] <= 0
    <3>1. PICK p : p = 100 - windows[i]
      OBVIOUS
    <3>2. p \in Int
      BY <2>2, <3>1
    <3> QED
      BY <2>2, <3>1, <3>2, ClampRange
  <2>4. g \in SlotGroup /\ CodexHonest(windows, g)
    BY <1>1, <2>1, <2>3 DEF SlotGroup, CodexHonest
  <2>5. SlotOf(windows, i) = <<g>>
    BY <1>1, <2>1 DEF SlotOf
  <2> QED
    BY <2>4, <2>5
<1>2. CASE ~(i \in DOMAIN windows /\ windows[i] # None)
  <2>1. SlotOf(windows, i) = <<>>
    BY <1>2 DEF SlotOf
  <2> QED
    BY <2>1
<1> QED
  BY <1>1, <1>2

LEMMA CodexIs ==
  ASSUME NEW windows \in Seq(Percent \cup {None})
  PROVE  /\ CodexGroups(windows) \in Seq(SlotGroup)
         /\ \A k \in DOMAIN CodexGroups(windows) :
              CodexHonest(windows, CodexGroups(windows)[k])
<1>1. PICK s, t : s = SlotOf(windows, 1) /\ t = SlotOf(windows, 2)
  OBVIOUS
<1>2. /\ s \in Seq(SlotGroup) /\ t \in Seq(SlotGroup)
      /\ \A k \in DOMAIN s : CodexHonest(windows, s[k])
      /\ \A k \in DOMAIN t : CodexHonest(windows, t[k])
  BY <1>1, SlotIs
<1>3. PICK c : c = s \o t
  OBVIOUS
<1>4. /\ c \in Seq(SlotGroup)
      /\ \A k \in DOMAIN c : \/ k \in DOMAIN s /\ c[k] = s[k]
                             \/ k - Len(s) \in DOMAIN t /\ c[k] = t[k - Len(s)]
  <2>1. /\ c \in Seq(SlotGroup) /\ Len(c) = Len(s) + Len(t)
        /\ \A k \in 1..Len(s) + Len(t) :
             c[k] = IF k <= Len(s) THEN s[k] ELSE t[k - Len(s)]
    BY <1>2, <1>3, ConcatProperties
  <2>2. /\ DOMAIN c = 1..Len(c) /\ DOMAIN s = 1..Len(s) /\ DOMAIN t = 1..Len(t)
        /\ Len(s) \in Nat /\ Len(t) \in Nat
    BY <1>2, <2>1
  <2> QED
    BY <2>1, <2>2
<1>5. CodexGroups(windows) = c
  BY <1>1, <1>3 DEF CodexGroups
<1>6. ASSUME NEW k \in DOMAIN c PROVE CodexHonest(windows, c[k])
  BY <1>2, <1>4
<1> QED
  BY <1>4, <1>5, <1>6

\* Dividing what is left of an entitlement by it comes to the whole only when
\* nothing of it is used.
LEMMA WholeQuotient ==
  ASSUME NEW r \in Int, NEW e \in Int, e > 0, (100 * r) \div e >= 100
  PROVE  r >= e
<1>1. PICK q \in Int : q = (100 * r) \div e
  OBVIOUS
<1>2. e * q <= 100 * r
  BY <1>1
<1>3. e * 100 <= e * q
  BY <1>1
<1> QED
  BY <1>2, <1>3

LEMMA PremiumIs ==
  ASSUME NEW a \in Snapshots
  PROVE  /\ Premium(a) \in 0..100
         /\ Premium(a) = 100 =>
              \/ a.unlimited
              \/ a.percent # None /\ a.percent >= 100
              \/ /\ None \notin {a.remaining, a.entitlement}
                 /\ a.remaining >= a.entitlement
<1>1. /\ a.unlimited \in BOOLEAN
      /\ a.percent # None => a.percent \in Int
      /\ a.remaining # None => a.remaining \in Int
      /\ a.entitlement # None => a.entitlement \in Int
  BY CodexCopilotAssumption, PercentsAre DEF Snapshot
<1>2. CASE a.unlimited
  BY <1>2 DEF Premium
<1>3. CASE ~a.unlimited /\ a.percent # None
  <2>1. Premium(a) = Clamp(a.percent)
    BY <1>3 DEF Premium
  <2> QED
    BY <1>1, <1>3, <2>1, ClampRange
<1>4. CASE /\ ~a.unlimited /\ a.percent = None
           /\ a.remaining # None /\ a.entitlement # None /\ a.entitlement > 0
  <2>1. PICK r, e : r = a.remaining /\ e = a.entitlement
    OBVIOUS
  <2>2. r \in Int /\ e \in Int /\ e > 0
    BY <1>1, <1>4, <2>1
  <2>3. PICK q : q = (100 * r) \div e
    OBVIOUS
  <2>4. q \in Int
    BY <2>2, <2>3
  <2>5. Premium(a) = Clamp(q)
    BY <1>4, <2>1, <2>3 DEF Premium
  <2>6. q >= 100 => r >= e
    BY <2>2, <2>3, WholeQuotient
  <2> QED
    BY <1>4, <2>1, <2>4, <2>5, <2>6, ClampRange
<1>5. CASE /\ ~a.unlimited /\ a.percent = None
           /\ ~(a.remaining # None /\ a.entitlement # None /\ a.entitlement > 0)
  <2>1. Premium(a) = 0
    BY <1>5 DEF Premium
  <2> QED
    BY <2>1
<1> QED
  BY <1>1, <1>2, <1>3, <1>4, <1>5

LEMMA InitSlots == Init => SlotInv
<1> SUFFICES ASSUME Init, reader \in {"codex", "copilot"}
             PROVE  /\ SlotTypes
                    /\ groups = <<>> /\ at = 1
  BY DEF SlotInv, Init
<1>1. /\ StartCodex \/ StartCopilot
      /\ groups = <<>> /\ at = 1
  BY DEF Init, StartRules, StartFamilies
<1> QED
  BY <1>1 DEF SlotTypes, StartCodex, StartCopilot

LEMMA NextSlots == SlotInv /\ [Next]_vars => SlotInv'
<1> SUFFICES ASSUME SlotInv, [Next]_vars, reader' \in {"codex", "copilot"}
             PROVE  /\ SlotTypes'
                    /\ next' = 0 => groups' = <<>> /\ at' = 1
                    /\ \A k \in DOMAIN groups' :
                         IF reader' = "codex"
                           THEN CodexHonest(answer'.windows, groups'[k])
                           ELSE CopilotHonest(answer', groups'[k])
  BY DEF SlotInv
<1>1. CASE ReadCodex
  <2>1. /\ reader = "codex" /\ next = 0 /\ next' = 1 /\ reader' = reader
        /\ groups' = IF answer.typed THEN CodexGroups(answer.windows) ELSE <<>>
        /\ UNCHANGED <<answer, at>>
    BY <1>1 DEF ReadCodex
  <2>2. answer \in Bodies /\ SlotTypes
    BY <2>1 DEF SlotInv, SlotTypes
  <2>3. PICK windows : windows = answer.windows
    OBVIOUS
  <2>4. windows \in Seq(Percent \cup {None})
    BY <2>2, <2>3, CodexCopilotAssumption DEF Body
  <2>5. /\ groups' \in Seq(SlotGroup)
        /\ \A k \in DOMAIN groups' : CodexHonest(windows, groups'[k])
    <3>1. CASE answer.typed
      <4>1. groups' = CodexGroups(windows)
        BY <2>1, <2>3, <3>1
      <4> QED
        BY <2>4, <4>1, CodexIs
    <3>2. CASE ~answer.typed
      <4>1. groups' = <<>>
        BY <2>1, <3>2
      <4> QED
        BY <4>1
    <3> QED
      BY <3>1, <3>2
  <2> QED
    BY <2>1, <2>2, <2>3, <2>5 DEF SlotTypes
<1>2. CASE ReadCopilot
  <2>1. /\ reader = "copilot" /\ reader' = "copilot" /\ next' = 1
        /\ groups' = <<[slot |-> 0, remaining |-> Premium(answer)]>>
        /\ UNCHANGED <<answer, at>>
    BY <1>2 DEF ReadCopilot
  <2>2. answer \in Snapshots
    BY <2>1 DEF SlotInv, SlotTypes
  <2>3. PICK g : g = [slot |-> 0, remaining |-> Premium(answer)]
    OBVIOUS
  <2>4. g \in SlotGroup /\ CopilotHonest(answer, g)
    BY <2>2, <2>3, PremiumIs DEF SlotGroup, CopilotHonest
  <2>5. groups' \in Seq(SlotGroup) /\ \A k \in DOMAIN groups' : groups'[k] = g
    BY <2>1, <2>3, <2>4
  <2> QED
    BY <2>1, <2>2, <2>4, <2>5 DEF SlotTypes
<1>3. CASE \/ ReadWindow \/ NextRule \/ ReportFamily
          \/ \E e \in left : Take(e)
  BY <1>3 DEF ReadWindow, NextRule, Take, ReportFamily
<1>4. CASE UNCHANGED vars
  BY <1>4 DEF SlotInv, SlotTypes, vars
<1> QED
  BY <1>1, <1>2, <1>3, <1>4 DEF Next

-----------------------------------------------------------------------------
(* The reader of rules *)

\* The group is what the first window that claims its id makes of it.
IsClaim(g, i, j) ==
  /\ g.id = ClaimAt(i, j) /\ g.of = WindowsAt(i)[j]
  /\ g.remaining = Remaining(Rules[i], WindowsAt(i)[j])

IsClaimed(g) ==
  \E i \in DOMAIN Rules : \E j \in DOMAIN WindowsAt(i) :
    Passed(i, j) /\ ClaimsFirst(i, j) /\ IsClaim(g, i, j)

RulesInv ==
  reader = "rules" =>
    /\ RulesTypes
    /\ \A i \in DOMAIN Rules : \A j \in DOMAIN WindowsAt(i) :
         Passed(i, j) => \E g \in DOMAIN groups : groups[g].id = ClaimAt(i, j)
    /\ \A g, h \in DOMAIN groups : groups[g].id = groups[h].id => g = h
    /\ \A g \in DOMAIN groups : IsClaimed(groups[g])

LEMMA RuleWindows ==
  ASSUME answer \in Payloads \cup Bodies
  PROVE  /\ DOMAIN Rules = 1..Len(Rules) /\ Len(Rules) \in Nat
         /\ \A i \in DOMAIN Rules : WindowsAt(i) \in Seq(Window)
<1>1. DOMAIN Rules = 1..Len(Rules) /\ Len(Rules) \in Nat
  BY RuleAssumption
<1>2. ASSUME NEW i \in DOMAIN Rules PROVE WindowsAt(i) \in Seq(Window)
  <2>1. PICK p, r : p = RuleInput /\ r = Rules[i]
    OBVIOUS
  <2>2. p \in Payloads
    BY <2>1, CodexCopilotAssumption DEF RuleInput, Body
  <2>3. p.array \in Seq(Window) /\ p.fields \in [Field -> Window \cup {None}]
    BY <2>2, RuleAssumption
  <2>4. r \in Rule
    BY <1>2, <2>1, RuleAssumption
  <2>5. WindowsOf(p, r) \in Seq(Window)
    <3>1. CASE r.array
      BY <2>3, <3>1 DEF WindowsOf
    <3>2. CASE ~r.array /\ r.field = None
      <4>1. WindowsOf(p, r) = <<>>
        BY <3>2 DEF WindowsOf
      <4> QED
        BY <4>1
    <3>3. CASE ~r.array /\ r.field # None
      <4>1. r.field \in Field
        BY <2>4, <3>3 DEF Rule
      <4>2. PICK w : w = p.fields[r.field]
        OBVIOUS
      <4>3. w \in Window \cup {None}
        BY <2>3, <4>1, <4>2
      <4>4. WindowsOf(p, r) = IF w = None THEN <<>> ELSE <<w>>
        BY <3>3, <4>2 DEF WindowsOf
      <4> QED
        BY <4>3, <4>4
    <3> QED
      BY <3>1, <3>2, <3>3
  <2> QED
    BY <2>1, <2>5 DEF WindowsAt
<1> QED
  BY <1>1, <1>2

\* The group a rule makes of a window it finds a number in.
LEMMA ClaimIs ==
  ASSUME NEW rule \in Rule, NEW w \in Window, w.percent # None
  PROVE  /\ IdOf(rule, w) \in STRING
         /\ Remaining(rule, w) \in 0..100
<1>1. IdOf(rule, w) \in STRING
  <2>1. PICK t, n : t = rule.id /\ n = NameOf(rule, w)
    OBVIOUS
  <2>2. t \in Template
    BY <2>1 DEF Rule
  <2>3. n \in Name
    BY <2>1 DEF NameOf, Window, Rule
  <2>4. Expand[<<t, n>>] \in STRING
    BY <2>2, <2>3, RuleAssumption
  <2> QED
    BY <2>1, <2>4 DEF IdOf
<1>2. Remaining(rule, w) \in 0..100
  <2>1. w.percent \in Int
    BY PercentsAre DEF Window
  <2>2. PICK p : p = IF rule.means = "remaining" THEN w.percent ELSE 100 - w.percent
    OBVIOUS
  <2>3. p \in Int
    BY <2>1, <2>2
  <2> QED
    BY <2>2, <2>3, ClampRange DEF Remaining
<1> QED
  BY <1>1, <1>2

\* What the rules find in an answer does not change.
LEMMA AnswerDecides ==
  ASSUME answer' = answer
  PROVE  \A i : /\ WindowsAt(i)' = WindowsAt(i)
                /\ \A j : /\ Readable(i, j)' = Readable(i, j)
                          /\ ClaimAt(i, j)' = ClaimAt(i, j)
                          /\ ClaimsFirst(i, j)' = ClaimsFirst(i, j)
                          /\ \A g : IsClaim(g, i, j)' = IsClaim(g, i, j)
<1>1. \A i : WindowsAt(i)' = WindowsAt(i)
  BY DEF WindowsAt, RuleInput
<1>2. \A i, j : /\ Readable(i, j)' = Readable(i, j)
                /\ ClaimAt(i, j)' = ClaimAt(i, j)
                /\ \A g : IsClaim(g, i, j)' = IsClaim(g, i, j)
  BY <1>1 DEF Readable, ClaimAt, IsClaim
<1>3. \A i, j : ClaimsFirst(i, j)' = ClaimsFirst(i, j)
  BY <1>1, <1>2 DEF ClaimsFirst
<1> QED
  BY <1>1, <1>2, <1>3

LEMMA InitRules == Init => RulesInv
<1> SUFFICES ASSUME Init, reader = "rules" PROVE RulesInv
  BY DEF RulesInv
<1>1. /\ next = 1 /\ answer \in Payloads /\ at = 1 /\ groups = <<>>
  BY DEF Init, StartRules, StartFamilies, StartCodex, StartCopilot
<1>2. RulesTypes
  BY <1>1, RuleWindows DEF RulesTypes
<1>3. ASSUME NEW i \in DOMAIN Rules, NEW j \in DOMAIN WindowsAt(i)
      PROVE  ~Passed(i, j)
  <2>1. WindowsAt(i) \in Seq(Window) /\ i \in 1..Len(Rules)
    BY <1>1, RuleWindows
  <2>2. i \in Int /\ i >= 1 /\ j \in Int /\ j >= 1
    BY <2>1, RuleWindows, <1>1
  <2> QED
    BY <1>1, <2>2 DEF Passed
<1> QED
  BY <1>1, <1>2, <1>3 DEF RulesInv

\* A window is passed in a round of the loop once it is read.
LEMMA ReadPasses ==
  ASSUME reader = "rules", RulesTypes, next <= Len(Rules),
         at <= Len(WindowsAt(next)), at' = at + 1, UNCHANGED <<answer, next>>
  PROVE  /\ next \in DOMAIN Rules /\ at \in DOMAIN WindowsAt(next)
         /\ \A i \in DOMAIN Rules : \A j \in DOMAIN WindowsAt(i) :
              Passed(i, j)'
                <=> (Passed(i, j) \/ (i = next /\ j = at /\ Readable(i, j)))
<1>1. /\ answer \in Payloads \cup Bodies
      /\ next \in 1..Len(Rules) + 1 /\ at \in Nat \ {0}
  BY DEF RulesTypes
<1>2. next \in DOMAIN Rules
  BY <1>1, RuleWindows
<1>3. at \in DOMAIN WindowsAt(next)
  <2>1. WindowsAt(next) \in Seq(Window)
    BY <1>1, <1>2, RuleWindows
  <2> QED
    BY <1>1, <2>1
<1>4. ASSUME NEW i \in DOMAIN Rules, NEW j \in DOMAIN WindowsAt(i)
      PROVE  Passed(i, j)'
               <=> (Passed(i, j) \/ (i = next /\ j = at /\ Readable(i, j)))
  <2>1. WindowsAt(i) \in Seq(Window)
    BY <1>1, RuleWindows
  <2>2. j \in Int
    BY <2>1
  <2>3. j < at + 1 <=> j < at \/ j = at
    BY <1>1, <2>2
  <2>4. Readable(i, j)' = Readable(i, j)
    BY AnswerDecides
  <2>5. Passed(i, j)' <=> Readable(i, j)' /\ (i < next \/ (i = next /\ j < at + 1))
    BY DEF Passed
  <2> QED
    BY <2>3, <2>4, <2>5 DEF Passed
<1> QED
  BY <1>2, <1>3, <1>4

LEMMA ReadKeepsRules == RulesInv /\ ReadWindow => RulesInv'
<1> SUFFICES ASSUME RulesInv, ReadWindow PROVE RulesInv'
  OBVIOUS
<1>1. PICK i, a : i = next /\ a = at
  OBVIOUS
<1>2. PICK rule, w : rule = Rules[i] /\ w = WindowsAt(i)[a]
  OBVIOUS
<1>3. /\ reader = "rules" /\ next <= Len(Rules) /\ at <= Len(WindowsAt(next))
      /\ at' = at + 1 /\ UNCHANGED <<reader, answer, next>>
      /\ groups' = IF Matches(rule, w) THEN Emit(groups, rule, w) ELSE groups
  BY <1>1, <1>2 DEF ReadWindow
<1>4. /\ RulesTypes
      /\ \A k \in DOMAIN Rules : \A l \in DOMAIN WindowsAt(k) :
           Passed(k, l) => \E g \in DOMAIN groups : groups[g].id = ClaimAt(k, l)
      /\ \A g, h \in DOMAIN groups : groups[g].id = groups[h].id => g = h
      /\ \A g \in DOMAIN groups : IsClaimed(groups[g])
  BY <1>3 DEF RulesInv
<1>5. /\ i \in DOMAIN Rules /\ a \in DOMAIN WindowsAt(i)
      /\ \A k \in DOMAIN Rules : \A l \in DOMAIN WindowsAt(k) :
           Passed(k, l)'
             <=> (Passed(k, l) \/ (k = i /\ l = a /\ Readable(k, l)))
  BY <1>1, <1>3, <1>4, ReadPasses
<1>6. /\ Readable(i, a)
           <=> Matches(rule, w) /\ w.percent # None /\ IdOf(rule, w) # ""
      /\ ClaimAt(i, a) = IdOf(rule, w)
  BY <1>2 DEF Readable, ClaimAt
<1>7. \A k : WindowsAt(k)' = WindowsAt(k)
  BY <1>3, AnswerDecides
<1>8. /\ next' \in 1..Len(Rules) + 1 /\ at' \in Nat \ {0}
      /\ answer' \in Payloads \cup Bodies /\ groups \in Seq(RuleGroup)
  BY <1>3, <1>4 DEF RulesTypes
<1>9. ASSUME NEW g, IsClaimed(g) PROVE IsClaimed(g)'
  <2>0. PICK k \in DOMAIN Rules : \E l \in DOMAIN WindowsAt(k) :
          Passed(k, l) /\ ClaimsFirst(k, l) /\ IsClaim(g, k, l)
    BY <1>9 DEF IsClaimed
  <2>1. PICK l \in DOMAIN WindowsAt(k) :
          Passed(k, l) /\ ClaimsFirst(k, l) /\ IsClaim(g, k, l)
    BY <2>0
  <2>2. Passed(k, l)' /\ ClaimsFirst(k, l)' /\ IsClaim(g, k, l)'
    BY <1>3, <1>5, <2>1, AnswerDecides
  <2>3. l \in DOMAIN WindowsAt(k)'
    BY <1>7, <2>1
  <2> QED
    BY <2>1, <2>2, <2>3 DEF IsClaimed
<1>10. CASE groups' = groups /\ (Readable(i, a) =>
              \E g \in DOMAIN groups : groups[g].id = ClaimAt(i, a))
  <2>1. \A k \in DOMAIN Rules : \A l \in DOMAIN WindowsAt(k) :
          Passed(k, l)' => \E g \in DOMAIN groups : groups[g].id = ClaimAt(k, l)
    BY <1>4, <1>5, <1>10
  <2>2. RulesTypes'
    BY <1>3, <1>8, <1>10 DEF RulesTypes
  <2>3. \A k, l : ClaimAt(k, l)' = ClaimAt(k, l)
    BY <1>3, AnswerDecides
  <2>4. (\A g \in DOMAIN groups : IsClaimed(groups[g]))'
    <3>1. PICK out : out = groups
      OBVIOUS
    <3>2. \A g \in DOMAIN out : IsClaimed(out[g])'
      BY <1>4, <1>9, <3>1
    <3> QED
      BY <1>10, <3>1, <3>2
  <2> QED
    BY <1>4, <1>7, <1>10, <2>1, <2>2, <2>3, <2>4 DEF RulesInv
<1>11. CASE /\ Readable(i, a)
            /\ ~\E g \in DOMAIN groups : groups[g].id = ClaimAt(i, a)
  <2>1. PICK new : new = [id |-> IdOf(rule, w), remaining |-> Remaining(rule, w),
                          of |-> w]
    OBVIOUS
  <2>2. groups' = Append(groups, new)
    BY <1>3, <1>6, <1>11, <2>1 DEF Emit
  <2>3. /\ new \in RuleGroup
        /\ IsClaim(new, i, a)
    <3>1. rule \in Rule /\ w \in Window
      <4>1. WindowsAt(i) \in Seq(Window)
        BY <1>4, <1>5, RuleWindows DEF RulesTypes
      <4> QED
        BY <1>2, <1>5, <4>1, RuleAssumption
    <3>2. new \in RuleGroup
      BY <1>6, <1>11, <2>1, <3>1, ClaimIs DEF RuleGroup
    <3> QED
      BY <1>2, <1>6, <2>1, <3>2 DEF IsClaim
  <2>4. PICK n : n = Len(groups)
    OBVIOUS
  <2>5. /\ n \in Nat /\ groups' \in Seq(RuleGroup)
        /\ DOMAIN groups = 1..n /\ DOMAIN groups' = 1..(n + 1)
        /\ groups'[n + 1] = new /\ \A g \in 1..n : groups'[g] = groups[g]
    BY <1>8, <2>2, <2>3, <2>4
  <2>6. \A g \in DOMAIN groups' : g \in DOMAIN groups \/ g = n + 1
    BY <2>5
  <2>7. new.id = ClaimAt(i, a)
    BY <2>3 DEF IsClaim
  <2>8. ClaimsFirst(i, a)
    <3> SUFFICES ASSUME NEW k \in DOMAIN Rules, NEW l \in DOMAIN WindowsAt(k),
                        Readable(k, l), ClaimAt(k, l) = ClaimAt(i, a)
                 PROVE  i < k \/ (i = k /\ a <= l)
      BY DEF ClaimsFirst
    <3>1. ~Passed(k, l)
      BY <1>4, <1>11
    <3>2. ~(k < i \/ (k = i /\ l < a))
      BY <1>1, <3>1 DEF Passed
    <3>3. /\ k \in Int /\ i \in Int
      BY <1>4, <1>5, RuleWindows DEF RulesTypes
    <3>4. l \in Int /\ a \in Int
      <4>1. WindowsAt(k) \in Seq(Window) /\ WindowsAt(i) \in Seq(Window)
        BY <1>4, <1>5, RuleWindows DEF RulesTypes
      <4> QED
        BY <1>5, <4>1
    <3> QED
      BY <3>2, <3>3, <3>4
  <2>9. IsClaimed(new)'
    <3>1. Passed(i, a)' /\ ClaimsFirst(i, a)' /\ IsClaim(new, i, a)'
      BY <1>3, <1>5, <1>11, <2>3, <2>8, AnswerDecides
    <3>2. a \in DOMAIN WindowsAt(i)'
      BY <1>5, <1>7
    <3> QED
      BY <1>5, <3>1, <3>2 DEF IsClaimed
  <2>10. ASSUME NEW k \in DOMAIN Rules, NEW l \in DOMAIN WindowsAt(k), Passed(k, l)'
         PROVE  \E g \in DOMAIN groups' : groups'[g].id = ClaimAt(k, l)
    <3>1. CASE Passed(k, l)
      <4>1. PICK g \in DOMAIN groups : groups[g].id = ClaimAt(k, l)
        BY <1>4, <3>1
      <4>2. g \in DOMAIN groups' /\ groups'[g] = groups[g]
        BY <2>5, <4>1
      <4> QED
        BY <4>1, <4>2
    <3>2. CASE k = i /\ l = a
      <4>1. n + 1 \in DOMAIN groups'
        BY <2>5
      <4> QED
        BY <2>5, <2>7, <3>2, <4>1
    <3> QED
      BY <1>5, <2>10, <3>1, <3>2
  <2>11. \A g, h \in DOMAIN groups' : groups'[g].id = groups'[h].id => g = h
    BY <1>4, <1>11, <2>5, <2>6, <2>7
  <2>12. (\A g \in DOMAIN groups : IsClaimed(groups[g]))'
    <3>1. PICK out : out = groups'
      OBVIOUS
    <3>2. ASSUME NEW g \in DOMAIN out PROVE IsClaimed(out[g])'
      <4>1. out[g] = new \/ (g \in DOMAIN groups /\ out[g] = groups[g])
        BY <2>5, <2>6, <3>1
      <4>2. IsClaimed(out[g]) \/ out[g] = new
        BY <1>4, <4>1
      <4> QED
        BY <1>9, <2>9, <4>2
    <3> QED
      BY <3>1, <3>2
  <2>13. \A k, l : ClaimAt(k, l)' = ClaimAt(k, l)
    BY <1>3, AnswerDecides
  <2>14. RulesTypes'
    BY <1>3, <1>8, <2>5 DEF RulesTypes
  <2> QED
    BY <1>7, <2>10, <2>11, <2>12, <2>13, <2>14 DEF RulesInv
<1>12. /\ ~Readable(i, a) => groups' = groups
       /\ (\E g \in DOMAIN groups : groups[g].id = ClaimAt(i, a)) => groups' = groups
  BY <1>3, <1>6 DEF Emit
<1> QED
  BY <1>10, <1>11, <1>12

LEMMA SkipKeepsRules == RulesInv /\ NextRule => RulesInv'
<1> SUFFICES ASSUME RulesInv, NextRule PROVE RulesInv'
  OBVIOUS
<1>1. /\ reader = "rules" /\ next <= Len(Rules) /\ at > Len(WindowsAt(next))
      /\ next' = next + 1 /\ at' = 1 /\ UNCHANGED <<reader, answer, groups>>
  BY DEF NextRule
<1>2. /\ RulesTypes /\ next \in 1..Len(Rules) + 1 /\ at \in Nat \ {0}
      /\ answer \in Payloads \cup Bodies /\ next \in DOMAIN Rules
  BY <1>1, RuleWindows DEF RulesInv, RulesTypes
<1>3. ASSUME NEW i \in DOMAIN Rules, NEW j \in DOMAIN WindowsAt(i)
      PROVE  Passed(i, j)' <=> Passed(i, j)
  <2>1. WindowsAt(i) \in Seq(Window) /\ i \in Int
    BY <1>2, RuleWindows
  <2>2. j \in 1..Len(WindowsAt(i)) /\ Len(WindowsAt(i)) \in Nat
    BY <2>1
  <2>3. Passed(i, j)' <=> Readable(i, j)' /\ (i < next + 1 \/ (i = next + 1 /\ j < 1))
    BY <1>1 DEF Passed
  <2>4. i < next + 1 <=> (i < next \/ i = next)
    BY <1>2, <2>1
  <2>5. ~(j < 1) /\ (i = next => j < at)
    BY <1>1, <1>2, <2>2
  <2>6. Readable(i, j)' = Readable(i, j)
    BY <1>1, AnswerDecides
  <2> QED
    BY <2>3, <2>4, <2>5, <2>6 DEF Passed
<1>4. /\ \A i : WindowsAt(i)' = WindowsAt(i)
      /\ \A i, j : ClaimAt(i, j)' = ClaimAt(i, j)
  BY <1>1, AnswerDecides
<1>5. ASSUME NEW g, IsClaimed(g) PROVE IsClaimed(g)'
  <2>1. PICK k \in DOMAIN Rules : \E l \in DOMAIN WindowsAt(k) :
          Passed(k, l) /\ ClaimsFirst(k, l) /\ IsClaim(g, k, l)
    BY <1>5 DEF IsClaimed
  <2>2. PICK l \in DOMAIN WindowsAt(k) :
          Passed(k, l) /\ ClaimsFirst(k, l) /\ IsClaim(g, k, l)
    BY <2>1
  <2>3. Passed(k, l)' /\ ClaimsFirst(k, l)' /\ IsClaim(g, k, l)'
    BY <1>1, <1>3, <2>2, AnswerDecides
  <2>4. l \in DOMAIN WindowsAt(k)'
    BY <1>4, <2>2
  <2> QED
    BY <2>1, <2>3, <2>4 DEF IsClaimed
<1>6. (\A g \in DOMAIN groups : IsClaimed(groups[g]))'
  <2>1. PICK out : out = groups
    OBVIOUS
  <2>2. \A g \in DOMAIN out : IsClaimed(out[g])'
    BY <1>1, <1>5, <2>1 DEF RulesInv
  <2> QED
    BY <1>1, <2>1, <2>2
<1>7. RulesTypes'
  <2>1. next + 1 \in 1..Len(Rules) + 1
    BY <1>1, <1>2, RuleWindows
  <2> QED
    BY <1>1, <1>2, <2>1 DEF RulesTypes
<1>8. \A i \in DOMAIN Rules : \A j \in DOMAIN WindowsAt(i) :
        Passed(i, j)' => \E g \in DOMAIN groups : groups[g].id = ClaimAt(i, j)
  BY <1>1, <1>3 DEF RulesInv
<1>9. \A g, h \in DOMAIN groups : groups[g].id = groups[h].id => g = h
  BY <1>1 DEF RulesInv
<1> QED
  BY <1>1, <1>4, <1>6, <1>7, <1>8, <1>9 DEF RulesInv

LEMMA NextRules == SlotInv /\ RulesInv /\ [Next]_vars => RulesInv'
<1> SUFFICES ASSUME SlotInv, RulesInv, [Next]_vars PROVE RulesInv'
  OBVIOUS
<1>1. CASE ReadWindow
  BY <1>1, ReadKeepsRules
<1>2. CASE NextRule
  BY <1>2, SkipKeepsRules
<1>3. CASE ReadCodex /\ reader' = "rules"
  <2>1. /\ answer' \in Bodies /\ groups' = <<>> /\ next' = 1 /\ at' = 1
    BY <1>3 DEF ReadCodex, SlotInv, SlotTypes
  <2>2. RulesTypes'
    <3>1. 1 \in 1..Len(Rules) + 1
      BY RuleAssumption
    <3> QED
      BY <1>3, <2>1, <3>1 DEF RulesTypes
  <2>3. ASSUME NEW i \in DOMAIN Rules, NEW j \in DOMAIN WindowsAt(i)
        PROVE  ~Passed(i, j)'
    <3>1. answer \in Payloads \cup Bodies
      BY <1>3, <2>1 DEF ReadCodex
    <3>2. WindowsAt(i) \in Seq(Window) /\ i \in 1..Len(Rules)
      BY <3>1, RuleWindows
    <3>3. i \in Int /\ i >= 1 /\ j \in Int /\ j >= 1
      BY <3>1, <3>2, RuleWindows
    <3> QED
      BY <2>1, <3>3 DEF Passed
  <2>4. \A i : WindowsAt(i)' = WindowsAt(i)
    BY <1>3, AnswerDecides DEF ReadCodex
  <2> QED
    BY <2>1, <2>2, <2>3, <2>4 DEF RulesInv
<1>4. CASE reader' # "rules"
  BY <1>4 DEF RulesInv
<1>5. CASE (ReadCopilot \/ ReportFamily \/ \E e \in left : Take(e))
  BY <1>4, <1>5 DEF ReadCopilot, ReportFamily, Take
<1>6. CASE UNCHANGED vars
  <2>1. /\ UNCHANGED <<reader, answer, next, at, groups>>
        /\ \A i : WindowsAt(i)' = WindowsAt(i)
        /\ \A i, j : Passed(i, j)' = Passed(i, j) /\ ClaimAt(i, j)' = ClaimAt(i, j)
        /\ \A i, j : ClaimsFirst(i, j)' = ClaimsFirst(i, j)
        /\ \A g, i, j : IsClaim(g, i, j)' = IsClaim(g, i, j)
    BY <1>6, AnswerDecides DEF vars, Passed
  <2>2. \A g : IsClaimed(g)' = IsClaimed(g)
    BY <2>1 DEF IsClaimed
  <2>3. RulesTypes => RulesTypes'
    BY <2>1 DEF RulesTypes
  <2> QED
    BY <2>1, <2>2, <2>3 DEF RulesInv
<1> QED
  BY <1>1, <1>2, <1>3, <1>4, <1>5, <1>6 DEF Next

-----------------------------------------------------------------------------
(* The reader of families *)

\* The least fraction of the entries ms, and the earliest time they give.
Folds(remaining, reset, ms) ==
  /\ \A m \in ms : remaining <= Clamp(answer[m].fraction)
  /\ \E m \in ms : remaining = Clamp(answer[m].fraction)
  /\ \A m \in ms : answer[m].reset # None =>
       reset # None /\ reset <= answer[m].reset
  /\ reset # None => \E m \in ms : answer[m].reset = reset

TakenOf(f) == Members(f) \ left

GroupFits(g, ms) ==
  IF ms = {} THEN g = None
  ELSE g \in FamilyGroup /\ ToSet(g.models) = ms /\ Folds(g.remaining, g.reset, ms)

\* The positions of S a loop has passed when it is about to look at n.
To(S, n) == {i \in S : i < n}

Place(i) == Cardinality({j \in FamiliesShown : j <= i})

ReportFits(g, ms) ==
  g \in FamilyGroup /\ g.models \in Ordered(ms) /\ Folds(g.remaining, g.reset, ms)

ReportedTo(n) ==
  /\ Len(groups) = Cardinality(To(FamiliesShown, n))
  /\ \A i \in To(FamiliesShown, n) :
       ReportFits(groups[Place(i)], Members(Family[i]))
  /\ \A k \in DOMAIN groups : \E f : ReportFits(groups[k], Members(f))

FamilyInv ==
  reader = "families" =>
    /\ FamilyTypes
    /\ left # {} => next = 1
    /\ \A f \in ToSet(Family) : GroupFits(grouped[f], TakenOf(f))
    /\ ReportedTo(next)

LEMMA ListingIs ==
  ASSUME answer \in Listings
  PROVE  /\ DOMAIN answer \subseteq Nat
         /\ IsFiniteSet(DOMAIN answer)
         /\ \A m \in DOMAIN answer :
              /\ answer[m].fraction \in Int /\ Clamp(answer[m].fraction) \in 0..100
              /\ Clamp(answer[m].fraction) = 100 <=> answer[m].fraction >= 100
              /\ answer[m].reset \in Time \cup {None}
              /\ FamilyOf[answer[m].model] \in ToSet(Family)
<1>1. /\ DOMAIN answer \subseteq Nat
      /\ IsFiniteSet(DOMAIN answer)
      /\ \A m \in DOMAIN answer : answer[m] \in Quota
  BY ListingAssumption
<1>2. ASSUME NEW m \in DOMAIN answer
      PROVE  /\ answer[m].fraction \in Int /\ Clamp(answer[m].fraction) \in 0..100
             /\ Clamp(answer[m].fraction) = 100 <=> answer[m].fraction >= 100
             /\ answer[m].reset \in Time \cup {None}
  <2>1. answer[m].fraction \in Percent /\ answer[m].reset \in Time \cup {None}
    BY <1>1 DEF Quota
  <2>2. answer[m].fraction \in Int
    BY <2>1, PercentsAre
  <2> QED
    BY <2>1, <2>2, ClampRange
<1>3. ASSUME NEW m \in DOMAIN answer PROVE FamilyOf[answer[m].model] \in ToSet(Family)
  <2>1. answer[m].model \in Model
    BY <1>1 DEF Quota
  <2> QED
    BY <2>1, ListingAssumption
<1> QED
  BY <1>1, <1>2, <1>3

LEMMA EarlierIs ==
  ASSUME NEW old \in Time \cup {None}, NEW new \in Time \cup {None}
  PROVE  /\ Earlier(old, new) \in Time \cup {None}
         /\ Earlier(old, new) \in {old, new}
         /\ old # None => Earlier(old, new) # None /\ Earlier(old, new) <= old
         /\ new # None => Earlier(old, new) # None /\ Earlier(old, new) <= new
<1>1. /\ old # None => old \in Int
      /\ new # None => new \in Int
  BY ListingAssumption
<1>2. Earlier(old, new) = IF new # None /\ (old = None \/ new < old) THEN new ELSE old
  BY DEF Earlier
<1>3. CASE new # None /\ (old = None \/ new < old)
  <2>1. Earlier(old, new) = new
    BY <1>2, <1>3
  <2>2. new \in Int /\ (old # None => old \in Int /\ new < old)
    BY <1>1, <1>3
  <2>3. new <= new /\ (old # None => new <= old)
    BY <2>2
  <2> QED
    BY <1>3, <2>1, <2>3
<1>4. CASE ~(new # None /\ (old = None \/ new < old))
  <2>1. Earlier(old, new) = old
    BY <1>2, <1>4
  <2>2. new # None => old # None /\ ~(new < old)
    BY <1>4
  <2>3. new # None => old <= new
    BY <1>1, <2>2
  <2>4. old # None => old <= old
    BY <1>1
  <2> QED
    BY <2>1, <2>2, <2>3, <2>4
<1> QED
  BY <1>3, <1>4

\* Folding an entry into a group that fits some entries makes it fit one more.
LEMMA IncludeFits ==
  ASSUME answer \in Listings, NEW ms \in SUBSET DOMAIN answer,
         NEW m \in DOMAIN answer, NEW g, GroupFits(g, ms)
  PROVE  GroupFits(Include(IF g = None THEN NewGroup ELSE g, m, answer[m]),
                   ms \cup {m})
<1>1. PICK old : old = IF g = None THEN NewGroup ELSE g
  OBVIOUS
<1>2. PICK c, r : c = Clamp(answer[m].fraction) /\ r = answer[m].reset
  OBVIOUS
<1>3. PICK new : new = Include(old, m, answer[m])
  OBVIOUS
<1>4. /\ new.models = Append(old.models, m)
      /\ new.remaining = IF c < old.remaining THEN c ELSE old.remaining
      /\ new.reset = Earlier(old.reset, r)
      /\ new = [models |-> new.models, remaining |-> new.remaining,
                reset |-> new.reset]
  BY <1>2, <1>3 DEF Include
<1>5. /\ c \in 0..100 /\ r \in Time \cup {None} /\ m \in Nat
      /\ \A k \in DOMAIN answer : Clamp(answer[k].fraction) \in 0..100
  BY <1>2, ListingIs
<1>6. /\ old \in FamilyGroup /\ ToSet(old.models) = ms
      /\ ms = {} => old = NewGroup
      /\ ms # {} => Folds(old.remaining, old.reset, ms)
  <2>1. CASE ms = {}
    <3>1. old = NewGroup
      BY <1>1, <2>1 DEF GroupFits
    <3>2. ToSet(<<>>) = {}
      BY DEF ToSet
    <3>3. <<>> \in Seq(Nat)
      OBVIOUS
    <3> QED
      BY <2>1, <3>1, <3>2, <3>3 DEF NewGroup, FamilyGroup
  <2>2. CASE ms # {}
    <3>1. /\ g \in FamilyGroup /\ ToSet(g.models) = ms
          /\ Folds(g.remaining, g.reset, ms)
      BY <2>2 DEF GroupFits
    <3>2. old = g
      BY <1>1, <3>1, ListingAssumption
    <3> QED
      BY <2>2, <3>1, <3>2
  <2> QED
    BY <2>1, <2>2
<1>7. /\ old.models \in Seq(Nat) /\ old.remaining \in 0..100
      /\ old.reset \in Time \cup {None}
  BY <1>6 DEF FamilyGroup
<1>8. ToSet(new.models) = ms \cup {m}
  <2>1. PICK s : s = old.models
    OBVIOUS
  <2>2. s \in Seq(Nat) /\ new.models = Append(s, m)
    BY <1>4, <1>7, <2>1
  <2>3. ToSet(Append(s, m)) = ToSet(s) \cup {m}
    <3>1. PICK t, n : t = Append(s, m) /\ n = Len(s)
      OBVIOUS
    <3>2. /\ n \in Nat /\ DOMAIN s = 1..n /\ DOMAIN t = 1..(n + 1)
          /\ t[n + 1] = m /\ \A i \in 1..n : t[i] = s[i]
      BY <1>5, <2>2, <3>1
    <3>3. \A i \in 1..(n + 1) : i \in 1..n \/ i = n + 1
      BY <3>2
    <3>4. \A i \in 1..n : i \in 1..(n + 1)
      BY <3>2
    <3>5. n + 1 \in 1..(n + 1)
      BY <3>2
    <3> QED
      BY <3>1, <3>2, <3>3, <3>4, <3>5 DEF ToSet
  <2> QED
    BY <1>6, <2>1, <2>2, <2>3
<1>9. new \in FamilyGroup
  <2>1. new.models \in Seq(Nat)
    BY <1>4, <1>5, <1>7
  <2>2. new.remaining \in 0..100
    BY <1>4, <1>5, <1>7
  <2>3. new.reset \in Time \cup {None}
    BY <1>4, <1>5, <1>7, EarlierIs
  <2> QED
    BY <1>4, <2>1, <2>2, <2>3 DEF FamilyGroup
<1>10. Folds(new.remaining, new.reset, ms \cup {m})
  <2>1. /\ new.remaining <= c /\ new.remaining <= old.remaining
        /\ new.remaining \in {c, old.remaining}
        /\ old.remaining = 100 /\ new.remaining # c => c = 100
    <3>1. PICK d, n : d = old.remaining /\ n = new.remaining
      OBVIOUS
    <3>2. c \in 0..100 /\ d \in 0..100 /\ n = IF c < d THEN c ELSE d
      BY <1>4, <1>5, <1>7, <3>1
    <3>3. n <= c /\ n <= d /\ n \in {c, d} /\ (d = 100 /\ n # c => c = 100)
      BY <3>2
    <3> QED
      BY <3>1, <3>3
  <2>2. ASSUME NEW k \in ms \cup {m}
        PROVE  new.remaining <= Clamp(answer[k].fraction)
    <3>1. CASE k = m
      BY <1>2, <2>1, <3>1
    <3>2. CASE k \in ms
      <4>1. PICK d, nr, dr : /\ d = Clamp(answer[k].fraction)
                             /\ nr = new.remaining /\ dr = old.remaining
        OBVIOUS
      <4>2. dr <= d /\ nr <= dr
        BY <1>6, <2>1, <3>2, <4>1 DEF Folds
      <4>3. d \in 0..100 /\ nr \in 0..100 /\ dr \in 0..100
        <5>1. k \in DOMAIN answer
          BY <3>2
        <5>2. new.remaining \in 0..100
          BY <1>9 DEF FamilyGroup
        <5> QED
          BY <1>5, <1>7, <4>1, <5>1, <5>2
      <4> QED
        BY <4>1, <4>2, <4>3
    <3> QED
      BY <3>1, <3>2
  <2>3. \E k \in ms \cup {m} : new.remaining = Clamp(answer[k].fraction)
    <3>1. CASE new.remaining = c
      BY <1>2, <3>1
    <3>2. CASE new.remaining # c /\ ms = {}
      <4>1. old.remaining = 100
        BY <1>6, <3>2 DEF NewGroup
      <4>2. c = 100 /\ new.remaining = 100
        BY <2>1, <3>2, <4>1
      <4> QED
        BY <3>2, <4>2
    <3>3. CASE new.remaining # c /\ ms # {}
      <4>1. new.remaining = old.remaining
        BY <2>1, <3>3
      <4>2. \E k \in ms : old.remaining = Clamp(answer[k].fraction)
        BY <1>6, <3>3 DEF Folds
      <4> QED
        BY <4>1, <4>2
    <3> QED
      BY <3>1, <3>2, <3>3
  <2>4. /\ new.reset \in {old.reset, r}
        /\ old.reset # None => new.reset # None /\ new.reset <= old.reset
        /\ r # None => new.reset # None /\ new.reset <= r
        /\ new.reset \in Time \cup {None}
    <3>1. PICK o, n : o = old.reset /\ n = new.reset
      OBVIOUS
    <3>2. o \in Time \cup {None} /\ r \in Time \cup {None} /\ n = Earlier(o, r)
      BY <1>4, <1>5, <1>7, <3>1
    <3>3. /\ n \in {o, r} /\ n \in Time \cup {None}
          /\ o # None => n # None /\ n <= o
          /\ r # None => n # None /\ n <= r
      BY <3>2, EarlierIs
    <3> QED
      BY <3>1, <3>3
  <2>5. ASSUME NEW k \in ms \cup {m}, answer[k].reset # None
        PROVE  new.reset # None /\ new.reset <= answer[k].reset
    <3>1. CASE k = m
      BY <1>2, <2>4, <2>5, <3>1
    <3>2. CASE k \in ms
      <4>1. PICK d, nr, dr : d = answer[k].reset /\ nr = new.reset /\ dr = old.reset
        OBVIOUS
      <4>2. dr # None /\ dr <= d
        BY <1>6, <2>5, <3>2, <4>1 DEF Folds
      <4>3. nr # None /\ nr <= dr
        BY <2>4, <4>1, <4>2
      <4>4. d \in Int /\ nr \in Int /\ dr \in Int
        <5>1. d \in Time \cup {None}
          BY <3>2, <4>1, ListingIs
        <5>2. dr \in Time \cup {None} /\ nr \in Time \cup {None}
          BY <1>7, <2>4, <4>1
        <5>3. d # None
          BY <2>5, <4>1
        <5>4. d \in Time /\ dr \in Time /\ nr \in Time
          BY <4>2, <4>3, <5>1, <5>2, <5>3
        <5> QED
          BY <5>4, ListingAssumption
      <4> QED
        BY <4>1, <4>2, <4>3, <4>4
    <3> QED
      BY <3>1, <3>2
  <2>6. ASSUME new.reset # None
        PROVE  \E k \in ms \cup {m} : answer[k].reset = new.reset
    <3>1. CASE new.reset = r
      BY <1>2, <3>1
    <3>2. CASE new.reset = old.reset
      <4>1. ms # {}
        BY <1>6, <2>6, <3>2 DEF NewGroup
      <4>2. \E k \in ms : answer[k].reset = old.reset
        BY <1>6, <2>6, <3>2, <4>1 DEF Folds
      <4> QED
        BY <3>2, <4>2
    <3> QED
      BY <2>4, <3>1, <3>2
  <2> QED
    BY <2>2, <2>3, <2>5, <2>6 DEF Folds
<1>11. ms \cup {m} # {}
  OBVIOUS
<1> QED
  BY <1>1, <1>3, <1>8, <1>9, <1>10, <1>11 DEF GroupFits

PassesRightly(k, S, n) ==
  /\ IsFiniteSet(S) /\ IsFiniteSet(To(S, n))
  /\ Cardinality(S) \in Nat /\ Cardinality(To(S, n)) \in Nat
  /\ To(S, 1) = {} /\ Cardinality(To(S, 1)) = 0
  /\ To(S, k + 1) = S
  /\ To(S, n + 1) = IF n \in S THEN To(S, n) \cup {n} ELSE To(S, n)
  /\ n \notin To(S, n)
  /\ Cardinality(To(S, n + 1)) = IF n \in S THEN Cardinality(To(S, n)) + 1
                                 ELSE Cardinality(To(S, n))

LEMMA PositionsPassed ==
  ASSUME NEW k \in Nat, NEW S \in SUBSET (1..k), NEW n \in Nat
  PROVE  PassesRightly(k, S, n)
<1>1. IsFiniteSet(S) /\ IsFiniteSet(To(S, n))
  <2>1. IsFiniteSet(1..k)
    BY FS_Interval
  <2>2. To(S, n) \in SUBSET (1..k)
    BY DEF To
  <2> QED
    BY <2>1, <2>2, FS_Subset
<1>2. Cardinality(S) \in Nat /\ Cardinality(To(S, n)) \in Nat
  BY <1>1, FS_CardinalityType
<1>3. To(S, 1) = {} /\ To(S, k + 1) = S /\ n \notin To(S, n)
  <2>1. \A i \in S : i \in Int /\ 1 <= i /\ i <= k
    OBVIOUS
  <2>2. \A i \in S : ~(i < 1) /\ i < k + 1
    BY <2>1
  <2>3. ~(n < n)
    OBVIOUS
  <2> QED
    BY <2>2, <2>3 DEF To
<1>4. Cardinality(To(S, 1)) = 0
  BY <1>3, FS_EmptySet
<1>5. To(S, n + 1) = IF n \in S THEN To(S, n) \cup {n} ELSE To(S, n)
  <2>1. \A i \in S : i \in Int
    OBVIOUS
  <2>2. \A i \in S : i < n + 1 <=> i < n \/ i = n
    BY <2>1
  <2> QED
    BY <2>2 DEF To
<1>6. Cardinality(To(S, n) \cup {n}) = Cardinality(To(S, n)) + 1
  BY <1>1, <1>3, FS_AddElement
<1> QED
  BY <1>1, <1>2, <1>3, <1>4, <1>5, <1>6 DEF PassesRightly

LEMMA ShownIs ==
  /\ Len(Family) \in Nat /\ DOMAIN Family = 1..Len(Family)
  /\ FamiliesShown \in SUBSET (1..Len(Family))
  /\ answer' = answer => /\ FamiliesShown' = FamiliesShown
                         /\ \A i : Place(i)' = Place(i)
                         /\ \A f : Members(f)' = Members(f)
                         /\ \A g, ms : ReportFits(g, ms)' = ReportFits(g, ms)
                         /\ \A g, ms : GroupFits(g, ms)' = GroupFits(g, ms)
<1>1. Len(Family) \in Nat /\ DOMAIN Family = 1..Len(Family)
  BY ListingAssumption
<1>2. FamiliesShown \in SUBSET (1..Len(Family))
  BY <1>1 DEF FamiliesShown
<1>3. ASSUME answer' = answer
      PROVE  /\ FamiliesShown' = FamiliesShown
             /\ \A i : Place(i)' = Place(i)
             /\ \A f : Members(f)' = Members(f)
             /\ \A remaining, reset, ms :
                  Folds(remaining, reset, ms)' = Folds(remaining, reset, ms)
  <2>1. \A f : Members(f)' = Members(f)
    BY <1>3 DEF Members
  <2>2. FamiliesShown' = FamiliesShown
    BY <2>1 DEF FamiliesShown
  <2> QED
    BY <1>3, <2>1, <2>2 DEF Place, Folds
<1>4. ASSUME answer' = answer
      PROVE  \A es : Ordered(es)' = Ordered(es)
  BY <1>4 DEF Ordered
<1> QED
  BY <1>1, <1>2, <1>3, <1>4 DEF ReportFits, GroupFits

\* One round of the loop over the families, over one with models or without.
LEMMA ReportGrows ==
  ASSUME answer' = answer, NEW n \in 1..Len(Family), ReportedTo(n),
         groups \in Seq(FamilyGroup),
         IF n \in FamiliesShown
           THEN \E g \in FamilyGroup : /\ ReportFits(g, Members(Family[n]))
                                       /\ groups' = Append(groups, g)
           ELSE groups' = groups
  PROVE  ReportedTo(n + 1)' /\ groups' \in Seq(FamilyGroup)
<1>1. PICK k, S : k = Len(Family) /\ S = FamiliesShown
  OBVIOUS
<1>2. k \in Nat /\ S \in SUBSET (1..k) /\ n \in 1..k /\ n \in Nat
  BY <1>1, ShownIs
<1>3. /\ \A i : Place(i)' = Place(i)
      /\ FamiliesShown' = FamiliesShown
      /\ \A f : Members(f)' = Members(f)
      /\ \A g, ms : ReportFits(g, ms)' = ReportFits(g, ms)
  BY ShownIs
<1>4. /\ IsFiniteSet(To(S, n)) /\ Cardinality(To(S, n)) \in Nat
      /\ To(S, n + 1) = IF n \in S THEN To(S, n) \cup {n} ELSE To(S, n)
      /\ Cardinality(To(S, n + 1)) = IF n \in S
           THEN Cardinality(To(S, n)) + 1 ELSE Cardinality(To(S, n))
  <2>1. PassesRightly(k, S, n)
    BY <1>2, PositionsPassed
  <2> QED
    BY <2>1 DEF PassesRightly
<1>5. /\ Len(groups) = Cardinality(To(S, n))
      /\ \A i \in To(S, n) : ReportFits(groups[Place(i)], Members(Family[i]))
      /\ \A j \in DOMAIN groups : \E f : ReportFits(groups[j], Members(f))
  BY <1>1 DEF ReportedTo
<1>6. CASE n \notin S
  <2>1. groups' = groups /\ To(S, n + 1) = To(S, n)
    BY <1>1, <1>4, <1>6
  <2>2. \A i \in To(S, n) : ReportFits(groups'[Place(i)], Members(Family[i]))
    BY <1>5, <2>1
  <2>3. Len(groups') = Cardinality(To(S, n + 1))
    BY <1>5, <2>1
  <2> QED
    BY <1>1, <1>3, <1>5, <2>1, <2>2, <2>3 DEF ReportedTo
<1>7. CASE n \in S
  <2>1. PICK g \in FamilyGroup : /\ ReportFits(g, Members(Family[n]))
                                /\ groups' = Append(groups, g)
    BY <1>1, <1>7
  <2>2. PICK len : len = Cardinality(To(S, n))
    OBVIOUS
  <2>3. /\ len \in Nat /\ Len(groups) = len
        /\ To(S, n + 1) = To(S, n) \cup {n}
        /\ Cardinality(To(S, n + 1)) = len + 1
    BY <1>4, <1>5, <1>7, <2>2
  <2>4. /\ Len(groups') = len + 1 /\ groups'[len + 1] = g
        /\ groups' \in Seq(FamilyGroup)
        /\ \A i \in 1..len : groups'[i] = groups[i]
    BY <2>1, <2>3
  <2>5. Place(n) = len + 1
    <3>1. {j \in S : j <= n} = To(S, n + 1)
      <4>1. \A j \in S : j \in Int
        BY <1>2
      <4>2. \A j \in S : j <= n <=> j < n + 1
        BY <1>2, <4>1
      <4> QED
        BY <4>2 DEF To
    <3> QED
      BY <1>1, <2>3, <3>1 DEF Place
  <2>6. ASSUME NEW i \in To(S, n)
        PROVE  Place(i) \in 1..len
    <3>1. PICK P : P = {j \in S : j <= i}
      OBVIOUS
    <3>2. i \in S /\ i < n /\ i \in Int
      BY <1>2 DEF To
    <3>3. P \in SUBSET To(S, n)
      <4>1. \A j \in S : j \in Int
        BY <1>2
      <4>2. \A j \in S : j <= i => j < n
        BY <1>2, <3>2, <4>1
      <4> QED
        BY <3>1, <4>2 DEF To
    <3>4. i \in P
      BY <3>1, <3>2
    <3>5. /\ IsFiniteSet(P) /\ Cardinality(P) \in Nat
          /\ Cardinality(P) <= len /\ Cardinality(P) # 0
      BY <1>4, <2>2, <3>3, <3>4, FS_Subset, FS_CardinalityType, FS_EmptySet
    <3>6. Place(i) = Cardinality(P)
      BY <1>1, <3>1 DEF Place
    <3> QED
      BY <2>3, <3>5, <3>6
  <2>7. ASSUME NEW i \in To(S, n + 1)
        PROVE  ReportFits(groups'[Place(i)], Members(Family[i]))
    <3>1. CASE i = n
      BY <2>1, <2>4, <2>5, <3>1
    <3>2. CASE i \in To(S, n)
      <4>1. groups'[Place(i)] = groups[Place(i)]
        BY <2>4, <2>6, <3>2
      <4> QED
        BY <1>5, <3>2, <4>1
    <3> QED
      BY <2>3, <3>1, <3>2
  <2>8. ASSUME NEW j \in DOMAIN groups'
        PROVE  \E f : ReportFits(groups'[j], Members(f))
    <3>1. j \in 1..(len + 1) /\ DOMAIN groups = 1..len
      BY <2>3, <2>4
    <3>2. CASE j = len + 1
      BY <2>1, <2>4, <3>2
    <3>3. CASE j \in 1..len
      BY <1>5, <2>4, <3>1, <3>3
    <3> QED
      BY <2>3, <3>1, <3>2, <3>3
  <2> QED
    BY <1>1, <1>3, <2>3, <2>4, <2>7, <2>8 DEF ReportedTo
<1> QED
  BY <1>6, <1>7

LEMMA InitFamilies == Init => FamilyInv
<1> SUFFICES ASSUME Init, reader = "families" PROVE FamilyInv
  BY DEF FamilyInv
<1>1. /\ answer \in Listings /\ next = 1 /\ left = DOMAIN answer
      /\ grouped = [f \in ToSet(Family) |-> None] /\ groups = <<>>
  BY DEF Init, StartRules, StartFamilies, StartCodex, StartCopilot
<1>2. FamilyTypes
  <2>1. 1 \in 1..Len(Family) + 1
    BY ShownIs
  <2> QED
    BY <1>1, <2>1 DEF FamilyTypes
<1>3. \A f \in ToSet(Family) : GroupFits(grouped[f], TakenOf(f))
  BY <1>1 DEF GroupFits, TakenOf, Members
<1>4. ReportedTo(1)
  <2>1. PICK S : S = FamiliesShown
    OBVIOUS
  <2>2. To(S, 1) = {} /\ Cardinality(To(S, 1)) = 0
    <3>1. PassesRightly(Len(Family), S, 1)
      BY <2>1, ShownIs, PositionsPassed
    <3> QED
      BY <3>1 DEF PassesRightly
  <2>3. Len(groups) = 0 /\ DOMAIN groups = {}
    BY <1>1
  <2> QED
    BY <2>1, <2>2, <2>3 DEF ReportedTo
<1> QED
  BY <1>1, <1>2, <1>3, <1>4 DEF FamilyInv

\* What is reported stays as it is.
LEMMA ReportStays ==
  ASSUME UNCHANGED <<answer, groups>>, NEW n, ReportedTo(n)
  PROVE  ReportedTo(n)'
<1>1. PICK S, out : S = FamiliesShown /\ out = groups
  OBVIOUS
<1>2. /\ FamiliesShown' = S /\ groups' = out
      /\ \A i : Place(i)' = Place(i)
      /\ \A f : Members(f)' = Members(f)
      /\ \A g, ms : ReportFits(g, ms)' = ReportFits(g, ms)
  BY <1>1, ShownIs
<1>3. /\ Len(out) = Cardinality(To(S, n))
      /\ \A i \in To(S, n) : ReportFits(out[Place(i)], Members(Family[i]))
      /\ \A j \in DOMAIN out : \E f : ReportFits(out[j], Members(f))
  BY <1>1 DEF ReportedTo
<1> QED
  BY <1>2, <1>3 DEF ReportedTo

LEMMA TakeKeepsFamilies ==
  ASSUME FamilyInv, NEW m \in left, Take(m)
  PROVE  FamilyInv'
<1>1. PICK fam : fam = FamilyOf[answer[m].model]
  OBVIOUS
<1>2. PICK old : old = grouped[fam]
  OBVIOUS
<1>3. PICK new : new = Include(IF old = None THEN NewGroup ELSE old, m, answer[m])
  OBVIOUS
<1>4. /\ reader = "families" /\ m \in left /\ left' = left \ {m}
      /\ grouped' = [grouped EXCEPT ![fam] = new]
      /\ UNCHANGED <<reader, answer, next, groups>>
  BY <1>1, <1>2, <1>3 DEF Take
<1>5. /\ FamilyTypes /\ next = 1 /\ ReportedTo(1)
      /\ \A f \in ToSet(Family) : GroupFits(grouped[f], TakenOf(f))
  BY <1>4 DEF FamilyInv
<1>6. /\ answer \in Listings /\ left \subseteq DOMAIN answer /\ m \in DOMAIN answer
      /\ grouped \in [ToSet(Family) -> FamilyGroup \cup {None}]
  BY <1>4, <1>5 DEF FamilyTypes
<1>7. fam \in ToSet(Family)
  BY <1>1, <1>6, ListingIs
<1>8. GroupFits(new, TakenOf(fam) \cup {m})
  <2>1. GroupFits(old, TakenOf(fam))
    BY <1>2, <1>5, <1>7
  <2>2. TakenOf(fam) \in SUBSET DOMAIN answer
    BY DEF TakenOf, Members
  <2> QED
    BY <1>3, <1>6, <2>1, <2>2, IncludeFits
<1>9. \A f : TakenOf(f)' = IF f = fam THEN TakenOf(f) \cup {m} ELSE TakenOf(f)
  <2>1. \A f : Members(f)' = Members(f)
    BY <1>4, ShownIs
  <2>2. \A f : m \in Members(f) <=> f = fam
    BY <1>1, <1>6 DEF Members
  <2> QED
    BY <1>4, <2>1, <2>2 DEF TakenOf
<1>10. \A g, ms : GroupFits(g, ms)' = GroupFits(g, ms)
  BY <1>4, ShownIs
<1>11. (\A f \in ToSet(Family) : GroupFits(grouped[f], TakenOf(f)))'
  <2>1. PICK after, T : after = grouped' /\ T = [f \in ToSet(Family) |-> TakenOf(f)']
    OBVIOUS
  <2>2. \A f \in ToSet(Family) : GroupFits(after[f], T[f])
    BY <1>4, <1>5, <1>6, <1>7, <1>8, <1>9, <2>1
  <2> QED
    BY <1>10, <2>1, <2>2
<1>12. new \in FamilyGroup
  BY <1>8 DEF GroupFits
<1>13. FamilyTypes'
  <2>1. grouped' \in [ToSet(Family) -> FamilyGroup \cup {None}]
    BY <1>4, <1>6, <1>12
  <2> QED
    BY <1>4, <1>5, <1>6, <2>1 DEF FamilyTypes
<1>14. ReportedTo(1)'
  BY <1>4, <1>5, ReportStays
<1> QED
  BY <1>4, <1>5, <1>11, <1>13, <1>14 DEF FamilyInv

LEMMA ReportKeepsFamilies == FamilyInv /\ ReportFamily => FamilyInv'
<1> SUFFICES ASSUME FamilyInv, ReportFamily PROVE FamilyInv'
  OBVIOUS
<1>1. PICK n, f, g : n = next /\ f = Family[n] /\ g = grouped[f]
  OBVIOUS
<1>2. /\ reader = "families" /\ left = {} /\ n <= Len(Family) /\ next' = n + 1
      /\ UNCHANGED <<reader, answer, left, grouped>>
      /\ IF g = None THEN groups' = groups
         ELSE \E s \in Ordered(ToSet(g.models)) :
                groups' = Append(groups, [g EXCEPT !.models = s])
  BY <1>1 DEF ReportFamily
<1>3. /\ FamilyTypes /\ ReportedTo(n)
      /\ \A h \in ToSet(Family) : GroupFits(grouped[h], TakenOf(h))
  BY <1>1, <1>2 DEF FamilyInv
<1>4. /\ answer \in Listings /\ groups \in Seq(FamilyGroup)
      /\ n \in 1..Len(Family) + 1
  BY <1>1, <1>3 DEF FamilyTypes
<1>5. n \in 1..Len(Family) /\ n \in DOMAIN Family /\ n + 1 \in 1..Len(Family) + 1
  BY <1>2, <1>4, ShownIs
<1>6. f \in ToSet(Family)
  BY <1>1, <1>5 DEF ToSet
<1>7. GroupFits(g, Members(f))
  <2>1. TakenOf(f) = Members(f)
    BY <1>2 DEF TakenOf
  <2> QED
    BY <1>1, <1>3, <1>6, <2>1
<1>8. n \in FamiliesShown <=> Members(f) # {}
  BY <1>1, <1>5 DEF FamiliesShown
<1>9. IF n \in FamiliesShown
        THEN \E r \in FamilyGroup : /\ ReportFits(r, Members(Family[n]))
                                    /\ groups' = Append(groups, r)
        ELSE groups' = groups
  <2>1. CASE Members(f) = {}
    BY <1>2, <1>7, <1>8, <2>1 DEF GroupFits
  <2>2. CASE Members(f) # {}
    <3>1. /\ g \in FamilyGroup /\ ToSet(g.models) = Members(f)
          /\ Folds(g.remaining, g.reset, Members(f)) /\ g # None
      BY <1>7, <2>2, ListingAssumption DEF GroupFits
    <3>2. PICK s \in Ordered(Members(f)) :
            groups' = Append(groups, [g EXCEPT !.models = s])
      BY <1>2, <3>1
    <3>3. s \in Seq(Nat)
      <4>1. PICK ms, c : ms = Members(f) /\ c = Cardinality(ms)
        OBVIOUS
      <4>2. ms \subseteq Nat /\ c \in Nat
        <5>1. Members(f) \subseteq DOMAIN answer
          BY DEF Members
        <5> QED
          BY <1>4, <4>1, <5>1, ListingIs, FS_Subset, FS_CardinalityType
      <4>3. s \in [1..c -> ms]
        BY <3>2, <4>1 DEF Ordered
      <4>4. s \in [1..c -> Nat]
        BY <4>2, <4>3
      <4> QED
        BY <4>2, <4>4
    <3>4. PICK r : r = [g EXCEPT !.models = s]
      OBVIOUS
    <3>5. /\ r \in FamilyGroup /\ r.models = s
          /\ r.remaining = g.remaining /\ r.reset = g.reset
      BY <3>1, <3>3, <3>4 DEF FamilyGroup
    <3>6. ReportFits(r, Members(f))
      BY <3>1, <3>2, <3>5 DEF ReportFits
    <3> QED
      BY <1>1, <1>8, <2>2, <3>2, <3>4, <3>5, <3>6
  <2> QED
    BY <2>1, <2>2
<1>10. ReportedTo(n + 1)' /\ groups' \in Seq(FamilyGroup)
  BY <1>2, <1>3, <1>4, <1>5, <1>9, ReportGrows
<1>11. FamilyTypes'
  BY <1>2, <1>3, <1>5, <1>10 DEF FamilyTypes
<1>12. (\A h \in ToSet(Family) : GroupFits(grouped[h], TakenOf(h)))'
  <2>1. PICK gs, T : gs = grouped /\ T = [h \in ToSet(Family) |-> TakenOf(h)]
    OBVIOUS
  <2>2. \A h : TakenOf(h)' = TakenOf(h)
    BY <1>2, ShownIs DEF TakenOf
  <2>3. \A h \in ToSet(Family) : GroupFits(gs[h], T[h])'
    BY <1>2, <1>3, <2>1, ShownIs
  <2> QED
    BY <1>2, <2>1, <2>2, <2>3
<1> QED
  BY <1>2, <1>10, <1>11, <1>12 DEF FamilyInv

LEMMA NextFamilies == FamilyInv /\ [Next]_vars => FamilyInv'
<1> SUFFICES ASSUME FamilyInv, [Next]_vars PROVE FamilyInv'
  OBVIOUS
<1>1. CASE \E e \in left : Take(e)
  BY <1>1, TakeKeepsFamilies
<1>2. CASE ReportFamily
  BY <1>2, ReportKeepsFamilies
<1>3. CASE ReadWindow \/ NextRule \/ ReadCodex \/ ReadCopilot
  <2>1. reader' # "families"
    BY <1>3 DEF ReadWindow, NextRule, ReadCodex, ReadCopilot
  <2> QED
    BY <2>1 DEF FamilyInv
<1>4. CASE UNCHANGED vars
  <2> SUFFICES ASSUME reader = "families" PROVE FamilyInv'
    BY <1>4 DEF FamilyInv, vars
  <2>1. UNCHANGED <<reader, answer, next, left, grouped, groups>>
    BY <1>4 DEF vars
  <2>2. PICK n, gs, T : /\ n = next /\ gs = grouped
                        /\ T = [h \in ToSet(Family) |-> TakenOf(h)]
    OBVIOUS
  <2>3. ReportedTo(n)'
    BY <2>1, <2>2, ReportStays DEF FamilyInv
  <2>4. FamilyTypes'
    BY <2>1 DEF FamilyInv, FamilyTypes
  <2>5. \A h : TakenOf(h)' = TakenOf(h)
    BY <2>1, ShownIs DEF TakenOf
  <2>6. \A h \in ToSet(Family) : GroupFits(gs[h], T[h])'
    BY <2>1, <2>2, ShownIs DEF FamilyInv
  <2>7. (\A h \in ToSet(Family) : GroupFits(grouped[h], TakenOf(h)))'
    BY <2>1, <2>2, <2>5, <2>6
  <2>8. left' # {} => next' = 1
    BY <2>1 DEF FamilyInv
  <2> QED
    BY <2>1, <2>2, <2>3, <2>4, <2>7, <2>8 DEF FamilyInv
<1> QED
  BY <1>1, <1>2, <1>3, <1>4 DEF Next

-----------------------------------------------------------------------------
(* Every reader *)

ReaderInv ==
  /\ reader \in {"rules", "families", "codex", "copilot"}
  /\ SlotInv /\ RulesInv /\ FamilyInv

LEMMA ReaderHolds == Spec => []ReaderInv
<1>1. Init => ReaderInv
  <2>1. Init => reader \in {"rules", "families", "codex", "copilot"}
    BY DEF Init, StartRules, StartFamilies, StartCodex, StartCopilot
  <2> QED
    BY <2>1, InitSlots, InitRules, InitFamilies DEF ReaderInv
<1>2. ReaderInv /\ [Next]_vars => ReaderInv'
  <2> SUFFICES ASSUME ReaderInv, [Next]_vars PROVE ReaderInv'
    OBVIOUS
  <2>1. reader' \in {"rules", reader}
    BY DEF Next, vars, ReadWindow, NextRule, ReadCodex, ReadCopilot, Take,
      ReportFamily
  <2> QED
    BY <2>1, NextSlots, NextRules, NextFamilies DEF ReaderInv
<1> QED
  BY <1>1, <1>2, PTL DEF Spec

\* The types are kept: whatever a provider reports, a fraction that is shown
\* lies between none and all (clampFraction).
THEOREM TypesHold == Spec => []TypeOK
<1>1. ReaderInv => TypeOK
  BY DEF ReaderInv, SlotInv, RulesInv, FamilyInv, TypeOK
<1> QED
  BY <1>1, ReaderHolds, PTL

\* Of all the rules that find a number under an id, the first one is reported,
\* and no other (applyQuotaRules).
THEOREM FirstRuleHolds == Spec => []FirstRuleWins
<1>1. ReaderInv => FirstRuleWins
  <2> SUFFICES ASSUME ReaderInv, reader = "rules" PROVE FirstRuleWins
    BY DEF FirstRuleWins
  <2>1. /\ \A i \in DOMAIN Rules : \A j \in DOMAIN WindowsAt(i) :
             Passed(i, j) => \E g \in DOMAIN groups : groups[g].id = ClaimAt(i, j)
        /\ \A g, h \in DOMAIN groups : groups[g].id = groups[h].id => g = h
        /\ \A g \in DOMAIN groups : IsClaimed(groups[g])
    BY DEF ReaderInv, RulesInv
  <2>2. ASSUME NEW g \in DOMAIN groups
        PROVE  \E i \in DOMAIN Rules : \E j \in DOMAIN WindowsAt(i) :
                 /\ Passed(i, j) /\ ClaimsFirst(i, j)
                 /\ groups[g].id = ClaimAt(i, j) /\ groups[g].of = WindowsAt(i)[j]
    BY <2>1 DEF IsClaimed, IsClaim
  <2> QED
    BY <2>1, <2>2 DEF FirstRuleWins
<1> QED
  BY <1>1, ReaderHolds, PTL

LEMMA MinIs ==
  ASSUME NEW S, S \subseteq Int, NEW x \in S, \A y \in S : x <= y
  PROVE  Min(S) = x
<1>1. PICK m : m = Min(S)
  OBVIOUS
<1>2. m \in S /\ \A y \in S : m <= y
  BY <1>1 DEF Min
<1>3. m <= x /\ x <= m /\ m \in Int /\ x \in Int
  BY <1>2
<1> QED
  BY <1>1, <1>3

\* A group that folds some models shows the least fraction and the earliest
\* time of theirs.
LEMMA FoldsAreMin ==
  ASSUME answer \in Listings, NEW ms \in SUBSET DOMAIN answer,
         NEW fraction, NEW reset \in Time \cup {None}, Folds(fraction, reset, ms)
  PROVE  LET resets == {answer[m].reset : m \in ms} \ {None}
         IN /\ fraction = Min({Clamp(answer[m].fraction) : m \in ms})
            /\ reset = IF resets = {} THEN None ELSE Min(resets)
<1>1. fraction = Min({Clamp(answer[m].fraction) : m \in ms})
  <2>1. PICK S : S = {Clamp(answer[m].fraction) : m \in ms}
    OBVIOUS
  <2>2. S \subseteq Int
    BY <2>1, ListingIs
  <2>3. fraction \in S /\ \A y \in S : fraction <= y
    BY <2>1 DEF Folds
  <2> QED
    BY <2>1, <2>2, <2>3, MinIs
<1>2. PICK R : R = {answer[m].reset : m \in ms} \ {None}
  OBVIOUS
<1>3. R \subseteq Time /\ Time \subseteq Int
  BY <1>2, ListingIs, ListingAssumption
<1>4. reset = IF R = {} THEN None ELSE Min(R)
  <2>1. CASE reset = None
    <3>1. R = {}
      BY <1>2, <2>1 DEF Folds
    <3> QED
      BY <2>1, <3>1
  <2>2. CASE reset # None
    <3>1. reset \in R
      BY <1>2, <2>2 DEF Folds
    <3>2. \A y \in R : reset <= y
      BY <1>2 DEF Folds
    <3>3. Min(R) = reset
      BY <1>3, <3>1, <3>2, MinIs
    <3> QED
      BY <3>1, <3>3
  <2> QED
    BY <2>1, <2>2
<1> QED
  BY <1>1, <1>2, <1>4

\* The families shown, their order, and what each shows depend on what models
\* the provider lists and not on the order it lists them in
\* (groupAntigravityModels).
THEOREM GroupsHold == Spec => []GroupsIgnoreOrder
<1>1. ReaderInv => GroupsIgnoreOrder
  <2> SUFFICES ASSUME ReaderInv, reader = "families", next > Len(Family)
               PROVE  /\ Len(groups) = Cardinality(FamiliesShown)
                      /\ \A i \in FamiliesShown :
                           LET g == groups[Place(i)]
                               ms == Members(Family[i])
                               resets == {answer[m].reset : m \in ms} \ {None}
                           IN /\ g.models \in Ordered(ms)
                              /\ g.remaining = Min({Clamp(answer[m].fraction) : m \in ms})
                              /\ g.reset = IF resets = {} THEN None ELSE Min(resets)
    BY DEF GroupsIgnoreOrder, Place
  <2>1. PICK k, S : k = Len(Family) /\ S = FamiliesShown
    OBVIOUS
  <2>2. k \in Nat /\ S \in SUBSET (1..k)
    BY <2>1, ShownIs
  <2>3. answer \in Listings /\ ReportedTo(k + 1)
    <3>1. FamilyTypes /\ ReportedTo(next)
      BY DEF ReaderInv, FamilyInv
    <3>2. next = k + 1 /\ answer \in Listings
      BY <2>1, <2>2, <3>1 DEF FamilyTypes
    <3> QED
      BY <3>1, <3>2
  <2>4. To(S, k + 1) = S
    <3>1. PassesRightly(k, S, 1)
      BY <2>2, PositionsPassed
    <3> QED
      BY <3>1 DEF PassesRightly
  <2>5. /\ Len(groups) = Cardinality(S)
        /\ \A i \in S : ReportFits(groups[Place(i)], Members(Family[i]))
    BY <2>1, <2>3, <2>4 DEF ReportedTo
  <2>6. ASSUME NEW i \in S
        PROVE  LET g == groups[Place(i)]
                   ms == Members(Family[i])
                   resets == {answer[m].reset : m \in ms} \ {None}
               IN /\ g.models \in Ordered(ms)
                  /\ g.remaining = Min({Clamp(answer[m].fraction) : m \in ms})
                  /\ g.reset = IF resets = {} THEN None ELSE Min(resets)
    <3>1. PICK g, ms : g = groups[Place(i)] /\ ms = Members(Family[i])
      OBVIOUS
    <3>2. /\ g \in FamilyGroup /\ g.models \in Ordered(ms)
          /\ Folds(g.remaining, g.reset, ms)
      BY <2>5, <3>1 DEF ReportFits
    <3>3. PICK fraction, reset : fraction = g.remaining /\ reset = g.reset
      OBVIOUS
    <3>4. reset \in Time \cup {None} /\ ms \in SUBSET DOMAIN answer
      BY <3>1, <3>2, <3>3 DEF FamilyGroup, Members
    <3>5. LET resets == {answer[m].reset : m \in ms} \ {None}
          IN /\ fraction = Min({Clamp(answer[m].fraction) : m \in ms})
             /\ reset = IF resets = {} THEN None ELSE Min(resets)
      BY <2>3, <3>2, <3>3, <3>4, FoldsAreMin
    <3> QED
      BY <3>1, <3>2, <3>3, <3>5
  <2> QED
    BY <2>1, <2>5, <2>6
<1> QED
  BY <1>1, ReaderHolds, PTL

\* A quota that is shown as untouched was reported as such, by every reader
\* (applyQuotaRules, fetchCodexQuota, fetchCopilotQuota,
\* groupAntigravityModels).
THEOREM FullHolds == Spec => []FullIsReported
<1>1. ReaderInv => FullIsReported
  <2> SUFFICES ASSUME ReaderInv, NEW k \in DOMAIN groups,
                      groups[k].remaining = 100
               PROVE  LET g == groups[k] IN
                      CASE reader = "rules" ->
                             \E i \in DOMAIN Rules : \E j \in DOMAIN WindowsAt(i) :
                               /\ g.of = WindowsAt(i)[j] /\ Readable(i, j)
                               /\ Remaining(Rules[i], g.of) = 100
                        [] reader = "codex" ->
                             answer.windows[g.slot] # None /\ answer.windows[g.slot] <= 0
                        [] reader = "copilot" ->
                             \/ answer.unlimited
                             \/ answer.percent # None /\ answer.percent >= 100
                             \/ /\ None \notin {answer.remaining, answer.entitlement}
                                /\ answer.remaining >= answer.entitlement
                        [] OTHER -> \A m \in ToSet(g.models) : answer[m].fraction >= 100
    BY DEF FullIsReported
  <2>1. PICK g : g = groups[k]
    OBVIOUS
  <2>2. CASE reader = "rules"
    <3>1. IsClaimed(g)
      BY <2>1, <2>2 DEF ReaderInv, RulesInv
    <3>2. \E i \in DOMAIN Rules : \E j \in DOMAIN WindowsAt(i) :
            /\ g.of = WindowsAt(i)[j] /\ Readable(i, j)
            /\ Remaining(Rules[i], g.of) = 100
      BY <2>1, <3>1 DEF IsClaimed, IsClaim, Passed
    <3> QED
      BY <2>1, <2>2, <3>2
  <2>3. CASE reader = "codex"
    <3>1. CodexHonest(answer.windows, g)
      BY <2>1, <2>3 DEF ReaderInv, SlotInv
    <3> QED
      BY <2>1, <2>3, <3>1 DEF CodexHonest
  <2>4. CASE reader = "copilot"
    <3>1. CopilotHonest(answer, g)
      BY <2>1, <2>4 DEF ReaderInv, SlotInv
    <3> QED
      BY <2>1, <2>4, <3>1 DEF CopilotHonest
  <2>5. CASE reader = "families"
    <3>1. answer \in Listings /\ ReportedTo(next)
      BY <2>5 DEF ReaderInv, FamilyInv, FamilyTypes
    <3>2. PICK f : ReportFits(g, Members(f))
      BY <2>1, <3>1 DEF ReportedTo
    <3>3. /\ g.models \in [1..Cardinality(Members(f)) -> Members(f)]
          /\ \A m \in Members(f) : g.remaining <= Clamp(answer[m].fraction)
      BY <3>2 DEF ReportFits, Ordered, Folds
    <3>4. ASSUME NEW m \in ToSet(g.models) PROVE answer[m].fraction >= 100
      <4>1. m \in Members(f) /\ m \in DOMAIN answer
        <5>1. PICK s, ms : s = g.models /\ ms = Members(f)
          OBVIOUS
        <5>2. \A i \in DOMAIN s : s[i] \in ms
          <6>1. PICK c : c = Cardinality(Members(f))
            OBVIOUS
          <6>2. s \in [1..c -> ms]
            BY <3>3, <5>1, <6>1
          <6> QED
            BY <6>2
        <5>3. m \in ms
          BY <5>1, <5>2 DEF ToSet
        <5> QED
          BY <5>1, <5>3 DEF Members
      <4>2. PICK c : c = Clamp(answer[m].fraction)
        OBVIOUS
      <4>3. c \in 0..100 /\ 100 <= c
        BY <2>1, <3>1, <3>3, <4>1, <4>2, ListingIs
      <4>4. c = 100
        BY <4>3
      <4> QED
        BY <3>1, <4>1, <4>2, <4>4, ListingIs
    <3> QED
      BY <2>1, <2>5, <3>4
  <2> QED
    BY <2>2, <2>3, <2>4, <2>5 DEF ReaderInv
<1> QED
  BY <1>1, ReaderHolds, PTL
=============================================================================
