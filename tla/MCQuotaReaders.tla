--------------------------- MODULE MCQuotaReaders ---------------------------
(***************************************************************************)
(* QuotaReaders with rules like the built-in ones for Claude, the last of  *)
(* which reads headroom instead of usage, as a configured rule may, and    *)
(* with two entries of one Antigravity family, of one model or of two, and *)
(* one entry of another.                                                   *)
(***************************************************************************)
EXTENDS QuotaReaders, TLC

\* One percentage below and one above the range.
Percents == {-5, 40, 130}

\* slugify leaves nothing of the last but one.
Slugs == "Opus" :> "opus" @@ "Fable 5" :> "fable-5" @@ "Fable-5" :> "fable-5"
           @@ "Scoped" :> "scoped" @@ "***" :> "" @@ "" :> ""

Fixed == {"five-hour", "seven-day-opus"}
Templates == Fixed \cup {"seven-day-{name}", "{name}"}

Expansions ==
  [tn \in Fixed \X DOMAIN Slugs |-> tn[1]]
    @@ [tn \in {"seven-day-{name}"} \X DOMAIN Slugs |-> "seven-day-" \o Slugs[tn[2]]]
    @@ [tn \in {"{name}"} \X DOMAIN Slugs |-> Slugs[tn[2]]]

Nowhere == [array |-> FALSE, where |-> None, field |-> None, id |-> "five-hour",
            reads |-> FALSE, fallback |-> "", means |-> "used"]

\* A window named "Opus" and the flat opus field claim the same id.  One rule
\* looks nowhere, and one takes every entry of the array and may give it no
\* id at all, as configured ones may.
ClaudeRules ==
  << [Nowhere EXCEPT !.array = TRUE, !.where = {"session"}],
     [Nowhere EXCEPT !.array = TRUE, !.where = {"weekly_scoped"},
        !.id = "seven-day-{name}", !.reads = TRUE, !.fallback = "Scoped"],
     Nowhere,
     [Nowhere EXCEPT !.array = TRUE, !.id = "{name}", !.reads = TRUE],
     [Nowhere EXCEPT !.field = "five_hour"],
     [Nowhere EXCEPT !.field = "seven_day_opus", !.id = "seven-day-opus",
        !.means = "remaining"] >>

W(kind, percent, name) == [kind |-> kind, percent |-> percent, name |-> name]

ArrayWindows ==
  {W("session", p, None) : p \in Percent \cup {None}}
    \cup {W("weekly_scoped", 40, n) : n \in {"Fable 5", "Fable-5", "Opus", "***", None}}
    \cup {W(None, 40, None)}

FlatWindows == {W(None, p, None) : p \in Percent \cup {None}} \cup {None}

Answers ==
  {[array |-> a, fields |-> "five_hour" :> f @@ "seven_day_opus" :> o] :
     a \in UNION {[1..n -> ArrayWindows] : n \in 0..2},
     f \in FlatWindows, o \in {None, W(None, 130, None)}}

Families == <<"pro", "flash", "thinking", "other">>

FamilyOfModel == [m \in Model |-> IF m = 2 THEN "other" ELSE "flash"]

\* Two entries or three, whose models are those of ids.
ListingsOf(ids) ==
  {[e \in DOMAIN q |-> [model |-> ids[e], fraction |-> q[e][1], reset |-> q[e][2]]] :
     q \in UNION {[s -> Percent \X (Time \cup {None})] : s \in {{1, 2, 3}, {1, 3}}}}

ModelListings == ListingsOf(<<1, 2, 3>>)
RepeatedListings == ModelListings \cup ListingsOf(<<1, 2, 1>>)

OneWindow == [array |-> <<W("session", 40, None)>>,
              fields |-> "five_hour" :> None @@ "seven_day_opus" :> None]
NoWindow  == [OneWindow EXCEPT !.array = <<>>]

CodexBodies ==
  {[typed |-> TRUE, windows |-> ws, generic |-> g] :
     ws \in {<<>>} \cup [1..2 -> Percent \cup {None}], g \in {OneWindow, NoWindow}}
    \cup {[typed |-> FALSE, windows |-> <<>>, generic |-> g] :
            g \in {OneWindow, NoWindow}}

CopilotSnapshots ==
  [unlimited : BOOLEAN, percent : Percent \cup {None},
   remaining : Percent \cup {None}, entitlement : Percent \cup {None}]
=============================================================================
