---------------------------- MODULE UsageRecords ----------------------------
(***************************************************************************)
(* The usage.handle method (src/main.go), which counts tokens per provider *)
(* and model (src/tokenstats.go) and remembers the model of the newest     *)
(* request of every credential (src/lastmodel.go).                         *)
(*                                                                         *)
(* The host dispatches records asynchronously: every record is handled by  *)
(* a goroutine of its own, in any order, and the two tables are updated    *)
(* one after the other under two different locks.  Record is the set of    *)
(* deliveries the host may make; two of them may be alike, which is a      *)
(* record delivered twice.                                                 *)
(***************************************************************************)
EXTENDS Integers, FiniteSets, FiniteSetsExt

CONSTANTS
  Record,      \* deliveries
  RawProvider, \* provider names the host uses
  Normalize,   \* normalizeProvider, on those names
  Provider,    \* the names it returns
  Auth,        \* credentials (auth indices)
  Model,       \* model ids
  Blank,       \* the empty string
  None,        \* "no entry"
  RecordOf,    \* what each delivery carries
  FollowUp,    \* deliveries about a request another delivery is about
  MaxTime      \* bound on the clock

Counter == {"input", "output", "reasoning", "cached", "total"}
Detail == [Counter -> Nat]
Totals == Detail

\* A requestedAt of 0 is a record without a request time.
Payload == [provider : RawProvider, model : Model \cup {Blank},
            auth : Auth \cup {Blank}, requestedAt : Nat, detail : Detail]

ASSUME RecordAssumption ==
  /\ IsFiniteSet(Record)
  /\ RecordOf \in [Record -> Payload]
  /\ Normalize \in [RawProvider -> Provider \cup {Blank}]
  /\ Blank \notin Provider /\ Blank \notin Model /\ Blank \notin Auth
  /\ FollowUp \subseteq Record /\ MaxTime \in Nat \ {0}

VARIABLES
  now,         \* the clock, as far as request times tell it apart
  tokenStats,  \* counters per provider and model, None where there is no row
  lastModels,  \* newest request per credential, or None
  pc,          \* where the goroutine of each delivery is
  at           \* the request time it works with

vars == <<now, tokenStats, lastModels, pc, at>>

LastModelEntry == [model : Model, requestedAt : Nat]

ASSUME NoneAssumption == None \notin Totals /\ None \notin LastModelEntry

TypeOK ==
  /\ now \in Nat
  /\ tokenStats \in [Provider \X Model -> Totals \cup {None}]
  /\ lastModels \in [Auth -> LastModelEntry \cup {None}]
  /\ pc \in [Record -> {"sent", "counted", "timed", "handled"}]
  /\ at \in [Record -> Nat]

-----------------------------------------------------------------------------
Zero == [c \in Counter |-> 0]

\* What one record adds.  Reasoning tokens are part of the output, so input
\* plus output stands in for a total the host does not send.
Contribution(d) ==
  [d EXCEPT !["total"] =
     IF d["total"] > 0 THEN d["total"] ELSE d["input"] + d["output"]]

Plus(t, d) == [c \in Counter |-> t[c] + d[c]]

\* Deviation: the first record only creates the row.
AddTo_NewRowIsEmpty(row, d) ==
  IF row = None THEN Zero ELSE Plus(row, Contribution(d))

\* Deviation: a record replaces the counters of its row.
AddTo_Replaces(row, d) == Contribution(d)

AddTo(row, d) == Plus(IF row = None THEN Zero ELSE row, Contribution(d))

Row(p) == <<Normalize[p.provider], p.model>>

\* Deviation: a record whose host sends no total is not counted.
Counted_WithTotalOnly(p) ==
  /\ Normalize[p.provider] # Blank /\ p.model # Blank
  /\ p.detail["total"] > 0

Counted(p) == Normalize[p.provider] # Blank /\ p.model # Blank

\* Deviation: records are taken in the order they arrive in.
Supersedes_LastArrival(current, t) == TRUE

\* Deviation: a record with the time of the one remembered replaces it.
Supersedes_SameTime(current, t) == current # None => t >= current.requestedAt

\* Only a strictly newer request replaces the one remembered.
Supersedes(current, t) == current # None => t > current.requestedAt

-----------------------------------------------------------------------------
Init ==
  /\ now = 1
  /\ tokenStats = [k \in Provider \X Model |-> None]
  /\ lastModels = [a \in Auth |-> None]
  /\ pc = [d \in Record |-> "sent"]
  /\ at = [d \in Record |-> 0]

\* recordTokenUsage, one critical section.
RecordTokenUsage(d) ==
  LET p == RecordOf[d] IN
  /\ pc[d] = "sent"
  /\ p.requestedAt <= now
  /\ tokenStats' = IF Counted(p)
       THEN [tokenStats EXCEPT ![Row(p)] = AddTo(@, p.detail)]
       ELSE tokenStats
  /\ pc' = [pc EXCEPT ![d] = "counted"]
  /\ UNCHANGED <<now, lastModels, at>>

\* Deviation: a record without a model is not turned away.
ReadRequestTime_NoModelCheck(d) ==
  LET p == RecordOf[d] IN
  /\ pc[d] = "counted"
  /\ IF p.auth = Blank
       THEN /\ pc' = [pc EXCEPT ![d] = "handled"]
            /\ UNCHANGED at
       ELSE /\ pc' = [pc EXCEPT ![d] = "timed"]
            /\ at' = [at EXCEPT ![d] =
                        IF p.requestedAt = 0 THEN now ELSE p.requestedAt]
  /\ UNCHANGED <<now, tokenStats, lastModels>>

\* recordLastModel up to its lock: a record without a credential or a model is
\* done with, one without a time is taken to be of this moment.
ReadRequestTime(d) ==
  LET p == RecordOf[d] IN
  /\ pc[d] = "counted"
  /\ IF p.auth = Blank \/ p.model = Blank
       THEN /\ pc' = [pc EXCEPT ![d] = "handled"]
            /\ UNCHANGED at
       ELSE /\ pc' = [pc EXCEPT ![d] = "timed"]
            /\ at' = [at EXCEPT ![d] =
                        IF p.requestedAt = 0 THEN now ELSE p.requestedAt]
  /\ UNCHANGED <<now, tokenStats, lastModels>>

\* recordLastModel, its critical section.
RecordLastModel(d) ==
  LET p == RecordOf[d] IN
  /\ pc[d] = "timed"
  /\ lastModels' = IF Supersedes(lastModels[p.auth], at[d])
       THEN [lastModels EXCEPT ![p.auth] =
               [model |-> p.model, requestedAt |-> at[d]]]
       ELSE lastModels
  /\ pc' = [pc EXCEPT ![d] = "handled"]
  /\ UNCHANGED <<now, tokenStats, at>>

Tick == /\ now < MaxTime
        /\ now' = now + 1
        /\ UNCHANGED <<tokenStats, lastModels, pc, at>>

Handle(d) == RecordTokenUsage(d) \/ ReadRequestTime(d) \/ RecordLastModel(d)

Next == Tick \/ \E d \in Record : Handle(d)

Spec == Init /\ [][Next]_vars

\* lastModelFor, as buildUsage reads it.
LastModelFor(a) ==
  IF a = Blank \/ lastModels[a] = None THEN Blank ELSE lastModels[a].model

\* tokenModelSnapshot: the rows a document lists.
TokenModelSnapshot == {k \in Provider \X Model : tokenStats[k] # None}

-----------------------------------------------------------------------------
(* Properties *)

Recorded(a) ==
  {d \in Record : pc[d] = "handled" /\ RecordOf[d].auth = a
                    /\ RecordOf[d].model # Blank}

Asked(d) == [model |-> RecordOf[d].model, requestedAt |-> at[d]]

\* The register implements the abstract one: whatever order records arrive
\* and interleave in, it names the newest request handled, and gives it up
\* for a strictly newer one only.
Newest == INSTANCE NewestRequest WITH
            Time <- 0..MaxTime,
            seen <- [a \in Auth |-> {Asked(d) : d \in Recorded(a)}],
            newest <- lastModels

NewestRequestWins == Newest!Spec

\* The invariant of the abstract register, read on the code's state.
NamesTheNewest == Newest!NamesTheNewest

\* The records counted so far that belong to a row.
CountedOn(k) ==
  {d \in Record : /\ pc[d] # "sent" /\ Counted(RecordOf[d])
                  /\ Row(RecordOf[d]) = k}

\* What records add to a counter between them.
Total(records, c) ==
  MapThenSumSet(LAMBDA d : Contribution(RecordOf[d].detail)[c], records)

\* The counters lose nothing and count nothing twice: each row is the sum of
\* what the records counted so far contribute, delivered once or repeatedly.
CountersAddUp ==
  \A k \in Provider \X Model :
    IF CountedOn(k) = {} THEN tokenStats[k] = None
    ELSE /\ tokenStats[k] # None
         /\ \A c \in Counter : tokenStats[k][c] = Total(CountedOn(k), c)

\* Two snapshots a client takes can be subtracted: no row disappears and no
\* counter goes down between them.
CountersNeverFall ==
  [][\A k \in Provider \X Model :
       tokenStats[k] # None =>
         /\ tokenStats'[k] # None
         /\ \A c \in Counter : tokenStats'[k][c] >= tokenStats[k][c]]_vars

\* A model is only ever named as a credential's last one when the counters
\* already have a row for it, provided some record said which provider served
\* it: a client that joins the two sections never meets a missing row.
LastModelIsCounted ==
  \A a \in Auth :
    LET m == LastModelFor(a) IN
    m # Blank =>
      \/ \E k \in TokenModelSnapshot : k[2] = m
      \/ \E d \in Recorded(a) : /\ RecordOf[d].model = m
                                /\ Normalize[RecordOf[d].provider] = Blank

\* lastmodel_test.go:45: with a record of a request and a follow-up record of
\* the same request handled, the request's own model must stay.
RequestModelStays ==
  \A d, f \in Record :
    /\ pc[d] = "handled" /\ pc[f] = "handled"
    /\ f \in FollowUp /\ d \notin FollowUp
    /\ RecordOf[d].auth = RecordOf[f].auth
    /\ at[d] = at[f] /\ RecordOf[d].auth \in Auth
    => lastModels[RecordOf[d].auth] # Asked(f)
=============================================================================
