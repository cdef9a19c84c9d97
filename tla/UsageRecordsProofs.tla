------------------------- MODULE UsageRecordsProofs -------------------------
(***************************************************************************)
(* Proofs about UsageRecords, for every set of deliveries, credentials,    *)
(* models and providers.                                                   *)
(***************************************************************************)
EXTENDS UsageRecords, FiniteSetTheorems, TLAPS

\* What the goroutine of a delivery may rely on between its critical
\* sections: the record names a credential and a model, and its time has
\* passed.
CallShape ==
  /\ now <= MaxTime
  /\ \A d \in Record : pc[d] # "sent" => RecordOf[d].requestedAt <= now
  /\ \A d \in Record :
       pc[d] = "timed" => /\ RecordOf[d].auth \in Auth
                          /\ RecordOf[d].model \in Model
                          /\ at[d] \in 0..MaxTime

Inv == TypeOK /\ CallShape

-----------------------------------------------------------------------------
(* Types *)

\* A record's contribution is a detail like the one it carries.
LEMMA ContributionTypes ==
  ASSUME NEW d \in Detail
  PROVE  Contribution(d) \in Detail
BY DEF Contribution, Detail, Counter

\* Adding to a row yields a row none of whose counters fell.
LEMMA AddToTypes ==
  ASSUME NEW row \in Totals \cup {None}, NEW d \in Detail
  PROVE  /\ AddTo(row, d) \in Totals
         /\ row # None => \A c \in Counter : AddTo(row, d)[c] >= row[c]
<1>1. Contribution(d) \in [Counter -> Nat]
  BY ContributionTypes DEF Detail
<1>2. CASE row = None
  BY <1>1, <1>2 DEF AddTo, Plus, Zero, Totals, Detail
<1>3. CASE row # None
  <2>1. row \in [Counter -> Nat]
    BY <1>3 DEF Totals, Detail
  <2> QED
    BY <1>1, <1>3, <2>1 DEF AddTo, Plus, Totals, Detail
<1> QED
  BY <1>2, <1>3

\* A delivery's payload is what RecordAssumption says.
LEMMA PayloadTypes ==
  ASSUME NEW d \in Record
  PROVE  /\ RecordOf[d].provider \in RawProvider
         /\ RecordOf[d].model \in Model \cup {Blank}
         /\ RecordOf[d].auth \in Auth \cup {Blank}
         /\ RecordOf[d].requestedAt \in Nat
         /\ RecordOf[d].detail \in Detail
<1>1. RecordOf[d] \in Payload
  BY RecordAssumption
<1> QED
  BY <1>1 DEF Payload

\* A record that is counted has a row.
LEMMA RowTypes ==
  ASSUME NEW d \in Record, Counted(RecordOf[d])
  PROVE  Row(RecordOf[d]) \in Provider \X Model
BY PayloadTypes, RecordAssumption DEF Counted, Row

\* The invariant holds at first.
LEMMA InitInv == Init => Inv
BY RecordAssumption DEF Init, Inv, TypeOK, CallShape

\* recordTokenUsage keeps the invariant.
LEMMA CountInv ==
  ASSUME Inv, NEW d \in Record, RecordTokenUsage(d)
  PROVE  Inv'
<1>1. tokenStats' \in [Provider \X Model -> Totals \cup {None}]
  <2>1. CASE Counted(RecordOf[d])
    <3>1. Row(RecordOf[d]) \in Provider \X Model
      BY <2>1, RowTypes
    <3>2. AddTo(tokenStats[Row(RecordOf[d])], RecordOf[d].detail) \in Totals
      BY <3>1, AddToTypes, PayloadTypes DEF Inv, TypeOK
    <3> QED
      BY <2>1, <3>1, <3>2 DEF RecordTokenUsage, Inv, TypeOK
  <2>2. CASE ~Counted(RecordOf[d])
    BY <2>2 DEF RecordTokenUsage, Inv, TypeOK
  <2> QED
    BY <2>1, <2>2
<1>2. pc' \in [Record -> {"sent", "counted", "timed", "handled"}]
  BY DEF RecordTokenUsage, Inv, TypeOK
<1>3. CallShape'
  BY DEF RecordTokenUsage, Inv, TypeOK, CallShape
<1> QED
  BY <1>1, <1>2, <1>3 DEF RecordTokenUsage, Inv, TypeOK

\* recordLastModel up to its lock keeps the invariant.
LEMMA TimeInv ==
  ASSUME Inv, NEW d \in Record, ReadRequestTime(d)
  PROVE  Inv'
<1>1. now \in 0..MaxTime /\ RecordOf[d].requestedAt <= now
  BY RecordAssumption DEF ReadRequestTime, Inv, TypeOK, CallShape
<1>2. CASE RecordOf[d].auth = Blank \/ RecordOf[d].model = Blank
  BY <1>2 DEF ReadRequestTime, Inv, TypeOK, CallShape
<1>3. CASE ~(RecordOf[d].auth = Blank \/ RecordOf[d].model = Blank)
  <2> DEFINE t == IF RecordOf[d].requestedAt = 0 THEN now
                  ELSE RecordOf[d].requestedAt
  <2>1. t \in 0..MaxTime /\ t \in Nat
    BY <1>1, PayloadTypes, RecordAssumption
  <2>2. /\ pc[d] = "counted"
        /\ pc' = [pc EXCEPT ![d] = "timed"]
        /\ at' = [at EXCEPT ![d] = t]
        /\ UNCHANGED <<now, tokenStats, lastModels>>
    BY <1>3 DEF ReadRequestTime
  <2>3. RecordOf[d].auth \in Auth /\ RecordOf[d].model \in Model
    BY <1>3, PayloadTypes
  <2> HIDE DEF t
  <2> QED
    BY <2>1, <2>2, <2>3 DEF Inv, TypeOK, CallShape
<1> QED
  BY <1>2, <1>3

\* The critical section of recordLastModel keeps the invariant.
LEMMA LastModelInv ==
  ASSUME Inv, NEW d \in Record, RecordLastModel(d)
  PROVE  Inv'
<1>1. RecordOf[d].auth \in Auth /\ RecordOf[d].model \in Model /\ at[d] \in Nat
  BY DEF RecordLastModel, Inv, TypeOK, CallShape
<1>2. [model |-> RecordOf[d].model, requestedAt |-> at[d]] \in LastModelEntry
  BY <1>1 DEF LastModelEntry
<1>3. lastModels' \in [Auth -> LastModelEntry \cup {None}]
  BY <1>1, <1>2 DEF RecordLastModel, Inv, TypeOK
<1>4. pc' \in [Record -> {"sent", "counted", "timed", "handled"}]
  BY DEF RecordLastModel, Inv, TypeOK
<1>5. CallShape'
  BY DEF RecordLastModel, Inv, TypeOK, CallShape
<1> QED
  BY <1>3, <1>4, <1>5 DEF RecordLastModel, Inv, TypeOK

\* Every step keeps the invariant.
LEMMA StepInv == Inv /\ [Next]_vars => Inv'
<1> SUFFICES ASSUME Inv, [Next]_vars PROVE Inv'
  OBVIOUS
<1>1. CASE Tick
  <2>1. now' = now + 1 /\ now' <= MaxTime /\ UNCHANGED <<tokenStats, lastModels, pc, at>>
    BY <1>1, RecordAssumption DEF Tick, Inv, TypeOK
  <2>2. \A d \in Record : RecordOf[d].requestedAt \in Nat
    BY PayloadTypes
  <2> QED
    BY <2>1, <2>2 DEF Inv, TypeOK, CallShape
<1>2. CASE \E d \in Record : Handle(d)
  BY <1>2, CountInv, TimeInv, LastModelInv DEF Handle
<1>3. CASE UNCHANGED vars
  BY <1>3 DEF vars, Inv, TypeOK, CallShape
<1> QED
  BY <1>1, <1>2, <1>3 DEF Next

\* Both tables and the goroutines always hold values of their types.
THEOREM TypesHold == Spec => []TypeOK
<1>1. Inv => TypeOK
  BY DEF Inv
<1> QED
  BY <1>1, InitInv, StepInv, PTL DEF Spec

-----------------------------------------------------------------------------
(* The counters *)

\* A step never takes a row away or lowers a counter.
LEMMA StepCounts ==
  ASSUME Inv, Next, NEW k \in Provider \X Model, tokenStats[k] # None
  PROVE  /\ tokenStats'[k] # None
         /\ \A c \in Counter : tokenStats'[k][c] >= tokenStats[k][c]
<1>0. tokenStats[k] \in [Counter -> Nat]
  BY DEF Inv, TypeOK, Totals, Detail
<1>1. CASE tokenStats' = tokenStats
  BY <1>0, <1>1
<1>2. ASSUME NEW d \in Record, RecordTokenUsage(d), Counted(RecordOf[d])
      PROVE  /\ tokenStats'[k] # None
             /\ \A c \in Counter : tokenStats'[k][c] >= tokenStats[k][c]
  <2>1. tokenStats' =
          [tokenStats EXCEPT ![Row(RecordOf[d])] = AddTo(@, RecordOf[d].detail)]
    BY <1>2 DEF RecordTokenUsage
  <2>2. CASE k = Row(RecordOf[d])
    <3>1. tokenStats'[k] = AddTo(tokenStats[k], RecordOf[d].detail)
      BY <2>1, <2>2 DEF Inv, TypeOK
    <3>2. /\ AddTo(tokenStats[k], RecordOf[d].detail) \in Totals
          /\ \A c \in Counter :
               AddTo(tokenStats[k], RecordOf[d].detail)[c] >= tokenStats[k][c]
      BY AddToTypes, PayloadTypes DEF Inv, TypeOK
    <3> QED
      BY <3>1, <3>2, NoneAssumption
  <2>3. CASE k # Row(RecordOf[d])
    <3>1. tokenStats'[k] = tokenStats[k]
      BY <2>1, <2>3 DEF Inv, TypeOK
    <3> QED
      BY <3>1, <1>0
  <2> QED
    BY <2>2, <2>3
<1> QED
  BY <1>1, <1>2
  DEF Next, Tick, Handle, RecordTokenUsage, ReadRequestTime, RecordLastModel

\* Two snapshots of the counters can be subtracted, whatever is delivered in
\* between: no row disappears and no counter falls.
THEOREM SnapshotsSubtract == Spec => CountersNeverFall
<1>1. Inv /\ [Next]_vars =>
        [\A k \in Provider \X Model :
           tokenStats[k] # None =>
             /\ tokenStats'[k] # None
             /\ \A c \in Counter : tokenStats'[k][c] >= tokenStats[k][c]]_vars
  BY StepCounts
<1> QED
  BY <1>1, InitInv, StepInv, PTL DEF Spec, CountersNeverFall

-----------------------------------------------------------------------------
(* The register implements NewestRequest *)

\* No credential has a request that was seen at first.
LEMMA InitRefines == Init => Newest!Init
BY DEF Init, Newest!Init, Recorded

\* Counting a record and reading its time is nothing to the register.
LEMMA OthersStutter ==
  ASSUME Inv, NEW d \in Record, RecordTokenUsage(d) \/ ReadRequestTime(d)
  PROVE  \A a \in Auth : /\ {Asked(e) : e \in Recorded(a)}'
                              = {Asked(e) : e \in Recorded(a)}
                         /\ lastModels' = lastModels
<1>1. /\ pc[d] \in {"sent", "counted"} /\ lastModels' = lastModels
      /\ \A e \in Record : e # d => pc'[e] = pc[e] /\ at'[e] = at[e]
  BY DEF RecordTokenUsage, ReadRequestTime, Inv, TypeOK
<1>2. pc'[d] = "handled"
        => RecordOf[d].auth = Blank \/ RecordOf[d].model = Blank
  BY DEF RecordTokenUsage, ReadRequestTime, Inv, TypeOK
<1>3. ASSUME NEW a \in Auth
      PROVE  /\ Recorded(a)' = Recorded(a)
             /\ \A e \in Recorded(a) : Asked(e)' = Asked(e)
  <2>1. d \notin Recorded(a) /\ ~(pc'[d] = "handled" /\ RecordOf[d].auth = a
                                    /\ RecordOf[d].model # Blank)
    BY <1>1, <1>2, RecordAssumption DEF Recorded
  <2> QED
    BY <1>1, <2>1 DEF Recorded, Asked
<1> QED
  BY <1>1, <1>3

\* Registering a record is observing its request.
LEMMA LastModelObserves ==
  ASSUME Inv, NEW d \in Record, RecordLastModel(d)
  PROVE  Newest!Next
<1> DEFINE a == RecordOf[d].auth
           x == Asked(d)
<1>1. /\ pc[d] = "timed" /\ pc' = [pc EXCEPT ![d] = "handled"] /\ at' = at
      /\ a \in Auth /\ RecordOf[d].model \in Model /\ at[d] \in 0..MaxTime
  BY DEF RecordLastModel, Inv, CallShape
<1>2. x \in Newest!Seen
  BY <1>1 DEF Newest!Seen, Asked
<1>3. \A e \in Record : Asked(e)' = Asked(e)
  BY <1>1 DEF Asked
<1>4. Recorded(a)' = Recorded(a) \cup {d}
  BY <1>1, RecordAssumption DEF Recorded, Inv, TypeOK
<1>5. \A b \in Auth : b # a => Recorded(b)' = Recorded(b)
  BY <1>1 DEF Recorded, Inv, TypeOK
<1>6. [b \in Auth |-> {Asked(e) : e \in Recorded(b)}]'
        = [[b \in Auth |-> {Asked(e) : e \in Recorded(b)}]
             EXCEPT ![a] = @ \cup {x}]
  <2>1. {Asked(e) : e \in Recorded(a)}' = {Asked(e) : e \in Recorded(a)} \cup {x}
    BY <1>3, <1>4 DEF Recorded
  <2>2. \A b \in Auth : b # a =>
          {Asked(e) : e \in Recorded(b)}' = {Asked(e) : e \in Recorded(b)}
    BY <1>3, <1>5 DEF Recorded
  <2> QED
    BY <1>1, <2>1, <2>2
<1>7. lastModels' = [lastModels EXCEPT ![a] =
        IF @ # None /\ x.requestedAt <= @.requestedAt THEN @ ELSE x]
  <2>1. lastModels[a] # None => lastModels[a].requestedAt \in Nat
    BY <1>1 DEF Inv, TypeOK, LastModelEntry
  <2>2. Supersedes(lastModels[a], at[d])
          <=> ~(lastModels[a] # None
                  /\ x.requestedAt <= lastModels[a].requestedAt)
    BY <1>1, <2>1 DEF Supersedes, Asked
  <2>3. x = [model |-> RecordOf[d].model, requestedAt |-> at[d]]
    BY DEF Asked
  <2>4. lastModels = [lastModels EXCEPT ![a] = @]
    BY DEF Inv, TypeOK
  <2> QED
    BY <2>2, <2>3, <2>4 DEF RecordLastModel
<1> QED
  BY <1>1, <1>2, <1>6, <1>7 DEF Newest!Next, Newest!Observe

\* Every step is a step of the abstract register or nothing to it.
LEMMA StepRefines ==
  Inv /\ [Next]_vars
    => [Newest!Next]_<<[a \in Auth |-> {Asked(d) : d \in Recorded(a)}], lastModels>>
<1> SUFFICES ASSUME Inv, [Next]_vars
    PROVE [Newest!Next]_<<[a \in Auth |-> {Asked(d) : d \in Recorded(a)}], lastModels>>
  OBVIOUS
<1>1. ASSUME NEW d \in Record, Handle(d)
      PROVE [Newest!Next]_<<[a \in Auth |-> {Asked(e) : e \in Recorded(a)}], lastModels>>
  <2>1. CASE RecordLastModel(d)
    BY <2>1, LastModelObserves
  <2>2. CASE RecordTokenUsage(d) \/ ReadRequestTime(d)
    <3>1. \A a \in Auth : {Asked(e) : e \in Recorded(a)}'
                              = {Asked(e) : e \in Recorded(a)}
      BY <2>2, OthersStutter
    <3>2. lastModels' = lastModels
      BY <2>2 DEF RecordTokenUsage, ReadRequestTime
    <3> QED
      BY <3>1, <3>2
  <2> QED
    BY <1>1, <2>1, <2>2 DEF Handle
<1>2. CASE Tick \/ UNCHANGED vars
  <2>1. UNCHANGED <<lastModels, pc, at>>
    BY <1>2 DEF Tick, vars
  <2> QED
    BY <2>1 DEF Recorded, Asked
<1> QED
  BY <1>1, <1>2 DEF Next

\* However the records of the requests are ordered, repeated and interleaved,
\* the register behaves as NewestRequest.
THEOREM RegisterImplementsNewest == Spec => NewestRequestWins
BY InitInv, StepInv, InitRefines, StepRefines, PTL
DEF Spec, NewestRequestWins, Newest!Spec

\* One step of the abstract register keeps its promise.
LEMMA ObserveKeepsPromise ==
  ASSUME Inv, NamesTheNewest, Newest!Next
  PROVE  NamesTheNewest'
<1> DEFINE seen == [a \in Auth |-> {Asked(d) : d \in Recorded(a)}]
<1>1. PICK a \in Auth, x \in Newest!Seen : Newest!Observe(a, x)
  BY DEF Newest!Next
<1>2. /\ seen' = [seen EXCEPT ![a] = @ \cup {x}]
      /\ lastModels' = [lastModels EXCEPT ![a] =
           IF @ # None /\ x.requestedAt <= @.requestedAt THEN @ ELSE x]
  BY <1>1 DEF Newest!Observe
<1>3. \A b \in Auth : \A y \in seen[b] : y.requestedAt \in Nat /\ y # None
  <2>1. ASSUME NEW b \in Auth, NEW d \in Recorded(b)
        PROVE  Asked(d).requestedAt \in Nat /\ Asked(d) \in LastModelEntry
    BY PayloadTypes DEF Asked, Recorded, LastModelEntry, Inv, TypeOK
  <2> QED
    BY <2>1, NoneAssumption
<1>4. x.requestedAt \in Nat /\ x # None
  BY RecordAssumption, NoneAssumption DEF Newest!Seen, LastModelEntry
<1>5. \A b \in Auth :
        IF seen[b] = {} THEN lastModels[b] = None
        ELSE /\ lastModels[b] \in seen[b]
             /\ \A y \in seen[b] : y.requestedAt <= lastModels[b].requestedAt
  BY DEF NamesTheNewest, Newest!NamesTheNewest
<1>6. lastModels \in [Auth -> LastModelEntry \cup {None}]
  BY DEF Inv, TypeOK
<1>7. \A b \in Auth : seen'[b] = IF b = a THEN seen[b] \cup {x} ELSE seen[b]
  BY <1>2
<1>8. \A b \in Auth : b # a => lastModels'[b] = lastModels[b]
  BY <1>2, <1>6
<1>9. lastModels'[a] = IF lastModels[a] # None
                            /\ x.requestedAt <= lastModels[a].requestedAt
                         THEN lastModels[a] ELSE x
  BY <1>2, <1>6
<1> HIDE DEF seen
<1>10. ASSUME NEW b \in Auth
       PROVE  IF seen'[b] = {} THEN lastModels'[b] = None
              ELSE /\ lastModels'[b] \in seen'[b]
                   /\ \A y \in seen'[b] :
                        y.requestedAt <= lastModels'[b].requestedAt
  <2>1. CASE b # a
    BY <1>5, <1>7, <1>8, <2>1
  <2>2. CASE b = a
    <3>1. CASE seen[a] = {}
      <4>1. lastModels[a] = None
        BY <1>5, <3>1
      <4>2. seen'[a] = {x} /\ lastModels'[a] = x
        BY <1>7, <1>9, <3>1, <4>1
      <4> QED
        BY <1>4, <2>2, <4>2
    <3>2. CASE seen[a] # {}
      <4>1. /\ lastModels[a] \in seen[a]
            /\ \A y \in seen[a] : y.requestedAt <= lastModels[a].requestedAt
        BY <1>5, <3>2
      <4>2. /\ lastModels[a] # None /\ lastModels[a].requestedAt \in Nat
            /\ \A y \in seen[a] : y.requestedAt \in Nat
        BY <1>3, <4>1
      <4>3. seen'[a] = seen[a] \cup {x}
        BY <1>7
      <4>4. CASE x.requestedAt <= lastModels[a].requestedAt
        <5>1. lastModels'[a] = lastModels[a]
          BY <1>9, <4>2, <4>4
        <5> QED
          BY <2>2, <4>1, <4>3, <4>4, <5>1
      <4>5. CASE ~(x.requestedAt <= lastModels[a].requestedAt)
        <5>1. lastModels'[a] = x
          BY <1>9, <4>5
        <5>2. \A y \in seen[a] : y.requestedAt <= x.requestedAt
          BY <1>4, <4>1, <4>2, <4>5
        <5> QED
          BY <1>4, <2>2, <4>3, <5>1, <5>2
      <4> QED
        BY <4>4, <4>5
    <3> QED
      BY <3>1, <3>2
  <2> QED
    BY <2>1, <2>2
<1> QED
  BY <1>10 DEF seen, NamesTheNewest, Newest!NamesTheNewest

\* The register always names a request handled that no request handled is
\* newer than, however late and in whatever order their records arrived.
THEOREM RegisterNamesTheNewest == Spec => []NamesTheNewest
<1>1. Init => NamesTheNewest
  BY DEF Init, NamesTheNewest, Newest!NamesTheNewest, Recorded
<1>2. Inv /\ NamesTheNewest /\ [Next]_vars => NamesTheNewest'
  <2> SUFFICES ASSUME Inv, NamesTheNewest, [Next]_vars PROVE NamesTheNewest'
    OBVIOUS
  <2>1. CASE Newest!Next
    BY <2>1, ObserveKeepsPromise
  <2>2. CASE UNCHANGED <<[a \in Auth |-> {Asked(d) : d \in Recorded(a)}], lastModels>>
    <3>1. \A a \in Auth : {Asked(d) : d \in Recorded(a)}'
                            = {Asked(d) : d \in Recorded(a)}
      BY <2>2
    <3> QED
      BY <2>2, <3>1 DEF NamesTheNewest, Newest!NamesTheNewest
  <2> QED
    BY <2>1, <2>2, StepRefines
<1> QED
  BY <1>1, <1>2, InitInv, StepInv, PTL DEF Spec

-----------------------------------------------------------------------------
(* The two tables together *)

\* A record that was counted has its row.
RowsExist ==
  \A d \in Record : pc[d] # "sent" /\ Counted(RecordOf[d])
                      => tokenStats[Row(RecordOf[d])] # None

\* A record gets its row in the critical section that marks it counted, and
\* rows stay.
LEMMA StepRows == Inv /\ RowsExist /\ [Next]_vars => RowsExist'
<1> SUFFICES ASSUME Inv, RowsExist, [Next]_vars, NEW e \in Record,
                    pc'[e] # "sent", Counted(RecordOf[e])
             PROVE  tokenStats'[Row(RecordOf[e])] # None
  BY DEF RowsExist
<1>1. Row(RecordOf[e]) \in Provider \X Model
  BY RowTypes
<1>2. CASE pc[e] # "sent"
  <2>1. tokenStats[Row(RecordOf[e])] # None
    BY <1>2 DEF RowsExist
  <2>2. CASE Next
    BY <1>1, <2>1, <2>2, StepCounts
  <2> QED
    BY <2>1, <2>2 DEF vars
<1>3. CASE pc[e] = "sent"
  <2>1. PICK d \in Record : RecordTokenUsage(d) /\ e = d
    BY <1>3 DEF Inv, TypeOK, vars, Next, Tick, Handle, RecordTokenUsage,
                ReadRequestTime, RecordLastModel
  <2>2. tokenStats' = [tokenStats EXCEPT
          ![Row(RecordOf[e])] = AddTo(@, RecordOf[e].detail)]
    BY <2>1 DEF RecordTokenUsage
  <2>3. tokenStats'[Row(RecordOf[e])]
          = AddTo(tokenStats[Row(RecordOf[e])], RecordOf[e].detail)
    BY <1>1, <2>2 DEF Inv, TypeOK
  <2>4. AddTo(tokenStats[Row(RecordOf[e])], RecordOf[e].detail) \in Totals
    BY <1>1, AddToTypes, PayloadTypes DEF Inv, TypeOK
  <2> QED
    BY <2>3, <2>4, NoneAssumption
<1> QED
  BY <1>2, <1>3

\* A client that joins the two sections never meets a missing row: records are
\* counted before they are registered, each under its own lock.
THEOREM NamedModelsHaveRows == Spec => []LastModelIsCounted
<1>1. Init => RowsExist
  BY DEF Init, RowsExist
<1>2. Inv /\ RowsExist /\ NamesTheNewest => LastModelIsCounted
  <2> SUFFICES ASSUME Inv, RowsExist, NamesTheNewest, NEW a \in Auth,
                      LastModelFor(a) # Blank
               PROVE  \/ \E k \in TokenModelSnapshot : k[2] = LastModelFor(a)
                      \/ \E d \in Recorded(a) :
                           /\ RecordOf[d].model = LastModelFor(a)
                           /\ Normalize[RecordOf[d].provider] = Blank
    BY DEF LastModelIsCounted
  <2>1. lastModels[a] # None /\ LastModelFor(a) = lastModels[a].model
    BY DEF LastModelFor
  <2>2. PICK d \in Recorded(a) : lastModels[a] = Asked(d)
    BY <2>1 DEF NamesTheNewest, Newest!NamesTheNewest
  <2>3. /\ d \in Record /\ pc[d] = "handled" /\ RecordOf[d].model # Blank
        /\ RecordOf[d].model = LastModelFor(a)
    BY <2>1, <2>2 DEF Recorded, Asked
  <2>4. CASE Normalize[RecordOf[d].provider] # Blank
    <3>1. Counted(RecordOf[d])
      BY <2>3, <2>4 DEF Counted
    <3>2. Row(RecordOf[d]) \in Provider \X Model
          /\ tokenStats[Row(RecordOf[d])] # None
      BY <2>3, <3>1, RowTypes DEF RowsExist
    <3>3. Row(RecordOf[d])[2] = LastModelFor(a)
      BY <2>3 DEF Row
    <3> QED
      BY <3>2, <3>3 DEF TokenModelSnapshot
  <2> QED
    BY <2>3, <2>4
<1> QED
  BY <1>1, <1>2, InitInv, StepInv, StepRows, RegisterNamesTheNewest, PTL DEF Spec

-----------------------------------------------------------------------------
(* Sums *)

\* H is the sum of w over the subsets of R, whatever order they are summed in.
IsSum(H, w, R) ==
  /\ H \in [SUBSET R -> Nat] /\ H[{}] = 0
  /\ \A s \in SUBSET R : \A x \in R \ s : H[s \cup {x}] = H[s] + w[x]

\* What is true of every set of subsets that has a member is that one of them
\* has no strict subset among the others.
LEMMA SmallestSubset ==
  ASSUME NEW R, IsFiniteSet(R), NEW T, T \subseteq SUBSET R, T # {}
  PROVE  \E S \in T : \A s \in T : ~ (s \subseteq S /\ s # S)
<1>1. FiniteSubsetsOf(R) = SUBSET R
  BY FS_FiniteSubsetsOfFinite
<1>2. IsWellFoundedOn(StrictSubsetOrdering(R), SUBSET R)
  BY <1>1, FS_StrictSubsetOrderingWellFounded
<1>3. PICK S \in T : \A s \in T : ~ (<<s, S>> \in StrictSubsetOrdering(R))
  BY <1>2, WFMin
<1>4. ASSUME NEW s \in T, s \subseteq S, s # S PROVE FALSE
  BY <1>3, <1>4 DEF StrictSubsetOrdering
<1> QED
  BY <1>4

\* A finite set can be summed over.
LEMMA SumExists ==
  ASSUME NEW R, IsFiniteSet(R), NEW w \in [R -> Nat]
  PROVE  \E H : IsSum(H, w, R)
<1> DEFINE T == {S \in SUBSET R : ~ \E H : IsSum(H, w, S)}
<1> SUFFICES ASSUME T # {} PROVE FALSE
  <2>1. R \in SUBSET R
    OBVIOUS
  <2> QED
    BY <2>1
<1>1. PICK S \in T : \A s \in T : ~ (s \subseteq S /\ s # S)
  <2>1. T \subseteq SUBSET R
    OBVIOUS
  <2> HIDE DEF T
  <2> QED
    BY <2>1, SmallestSubset
<1>2. S \subseteq R /\ ~ \E H : IsSum(H, w, S)
  OBVIOUS
<1>3. CASE S = {}
  <2>1. PICK H : H = [s \in SUBSET S |-> 0]
    OBVIOUS
  <2>2. IsSum(H, w, S)
    BY <1>3, <2>1 DEF IsSum
  <2> QED
    BY <1>2, <2>2
<1>4. CASE S # {}
  <2>1. PICK x \in S : TRUE
    BY <1>4
  <2>2. S \ {x} \subseteq S /\ S \ {x} # S /\ S \ {x} \in SUBSET R
    BY <1>2, <2>1
  <2>3. PICK H : IsSum(H, w, S \ {x})
    BY <1>1, <2>2
  <2>4. PICK K : K = [s \in SUBSET S |-> IF x \in s THEN H[s \ {x}] + w[x]
                                                   ELSE H[s]]
    OBVIOUS
  <2>5. /\ H \in [SUBSET (S \ {x}) -> Nat] /\ H[{}] = 0
        /\ \A s \in SUBSET (S \ {x}) : \A y \in (S \ {x}) \ s :
             H[s \cup {y}] = H[s] + w[y]
    BY <2>3 DEF IsSum
  <2>6. \A y \in S : w[y] \in Nat
    BY <1>2
  <2>7. K \in [SUBSET S -> Nat]
    <3>1. ASSUME NEW s \in SUBSET S
          PROVE  /\ x \in s => H[s \ {x}] + w[x] \in Nat
                 /\ x \notin s => H[s] \in Nat
      <4>1. CASE x \in s
        <5>1. s \ {x} \in SUBSET (S \ {x})
          OBVIOUS
        <5>2. H[s \ {x}] \in Nat /\ w[x] \in Nat
          BY <2>5, <2>6, <5>1
        <5> QED
          BY <4>1, <5>2
      <4>2. CASE x \notin s
        BY <2>5, <4>2
      <4> QED
        BY <4>1, <4>2
    <3> QED
      BY <2>4, <3>1
  <2>8. K[{}] = 0
    BY <2>4, <2>5
  <2>9. ASSUME NEW s \in SUBSET S, NEW y \in S \ s
        PROVE  K[s \cup {y}] = K[s] + w[y]
    <3>1. s \cup {y} \in SUBSET S
      OBVIOUS
    <3>2. CASE y = x
      <4>1. (s \cup {y}) \ {x} = s /\ x \notin s /\ x \in s \cup {y}
        BY <3>2
      <4> QED
        BY <2>4, <3>1, <3>2, <4>1
    <3>3. CASE y # x /\ x \notin s
      <4>1. x \notin s \cup {y} /\ s \in SUBSET (S \ {x}) /\ y \in (S \ {x}) \ s
        BY <3>3
      <4> QED
        BY <2>4, <2>5, <3>1, <3>3, <4>1
    <3>4. CASE y # x /\ x \in s
      <4>1. PICK r : r = s \ {x}
        OBVIOUS
      <4>2. /\ r \in SUBSET (S \ {x}) /\ y \in (S \ {x}) \ r
            /\ (s \cup {y}) \ {x} = r \cup {y} /\ x \in s \cup {y}
        BY <3>4, <4>1
      <4>3. H[r \cup {y}] = H[r] + w[y]
        BY <2>5, <4>2
      <4>4. K[s \cup {y}] = H[r \cup {y}] + w[x] /\ K[s] = H[r] + w[x]
        BY <2>4, <3>1, <3>4, <4>1, <4>2
      <4>5. H[r] \in Nat /\ w[x] \in Nat /\ w[y] \in Nat
        BY <2>5, <2>6, <4>2
      <4> QED
        BY <4>3, <4>4, <4>5
    <3> QED
      BY <3>2, <3>3, <3>4
  <2>10. IsSum(K, w, S)
    BY <2>7, <2>8, <2>9 DEF IsSum
  <2> QED
    BY <1>2, <2>10
<1> QED
  BY <1>3, <1>4

\* What each record adds to a counter.
Weight(c) == [d \in Record |-> Contribution(RecordOf[d].detail)[c]]

LEMMA WeightTypes ==
  ASSUME NEW c \in Counter
  PROVE  Weight(c) \in [Record -> Nat]
<1>1. ASSUME NEW d \in Record PROVE Contribution(RecordOf[d].detail)[c] \in Nat
  <2>1. Contribution(RecordOf[d].detail) \in [Counter -> Nat]
    BY PayloadTypes, ContributionTypes DEF Detail
  <2> QED
    BY <2>1
<1> QED
  BY <1>1 DEF Weight

\* The library's fold computes the sum, in the order its CHOOSE picks.
LEMMA TotalIsSum ==
  ASSUME NEW c \in Counter, NEW H, IsSum(H, Weight(c), Record),
         NEW S \in SUBSET Record
  PROVE  Total(S, c) = H[S]
<1>1. PICK w : w = Weight(c)
  OBVIOUS
<1>2. /\ H \in [SUBSET Record -> Nat] /\ H[{}] = 0
      /\ \A s \in SUBSET Record : \A x \in Record \ s :
           H[s \cup {x}] = H[s] + w[x]
      /\ w \in [Record -> Nat]
      /\ \A d \in Record : w[d] = Contribution(RecordOf[d].detail)[c]
  BY <1>1, WeightTypes DEF IsSum, Weight
<1> DEFINE Least(s) == CHOOSE x \in s : TRUE
           Folds(f) == f = [s \in SUBSET S |->
                              IF s = {} THEN 0
                              ELSE Contribution(RecordOf[Least(s)].detail)[c]
                                     + f[s \ {Least(s)}]]
<1>3. Total(S, c) = (CHOOSE f : Folds(f))[S]
  BY DEF Total, MapThenSumSet, MapThenFoldSet
<1>4. ASSUME NEW s \in SUBSET S, s # {}
      PROVE  /\ Least(s) \in s /\ s \ {Least(s)} \in SUBSET S
             /\ H[s] = Contribution(RecordOf[Least(s)].detail)[c]
                         + H[s \ {Least(s)}]
  <2>1. PICK x : x = Least(s)
    OBVIOUS
  <2>2. x \in s
    BY <1>4, <2>1
  <2>3. (s \ {x}) \cup {x} = s /\ s \ {x} \in SUBSET Record /\ x \in Record \ (s \ {x})
    BY <2>2
  <2>4. H[s] = H[s \ {x}] + w[x] /\ H[s \ {x}] \in Nat /\ w[x] \in Nat
    BY <1>2, <2>3
  <2>5. H[s] = w[x] + H[s \ {x}]
    BY <2>4
  <2> QED
    BY <1>2, <2>1, <2>2, <2>3, <2>5
<1>5. \E f : Folds(f)
  <2>1. PICK f : f = [s \in SUBSET S |-> H[s]]
    OBVIOUS
  <2>2. \A s \in SUBSET S : s # {} =>
          f[s] = Contribution(RecordOf[Least(s)].detail)[c] + f[s \ {Least(s)}]
    BY <1>4, <2>1
  <2>3. {} \in SUBSET S /\ f[{}] = 0
    BY <1>2, <2>1
  <2> HIDE DEF Least
  <2>4. Folds(f)
    BY <2>1, <2>2, <2>3
  <2> QED
    BY <2>4
<1>6. PICK f : f = (CHOOSE g : Folds(g)) /\ Folds(f)
  <2> HIDE DEF Folds
  <2> QED
    BY <1>5
<1>7. f[S] = H[S]
  <2> DEFINE T == {s \in SUBSET S : f[s] # H[s]}
  <2> SUFFICES ASSUME T # {} PROVE FALSE
    <3>1. S \in SUBSET S
      OBVIOUS
    <3> QED
      BY <3>1
  <2>1. PICK s \in T : \A r \in T : ~ (r \subseteq s /\ r # s)
    <3>1. T \subseteq SUBSET Record
      OBVIOUS
    <3> HIDE DEF T
    <3> QED
      BY <3>1, SmallestSubset, RecordAssumption
  <2>2. s \in SUBSET S /\ f[s] # H[s]
    OBVIOUS
  <2> HIDE DEF Least
  <2>3. s # {}
    BY <1>2, <1>6, <2>2
  <2>4. /\ Least(s) \in s /\ s \ {Least(s)} \in SUBSET S
        /\ H[s] = Contribution(RecordOf[Least(s)].detail)[c]
                    + H[s \ {Least(s)}]
    BY <1>4, <2>2, <2>3
  <2>5. f[s] = Contribution(RecordOf[Least(s)].detail)[c] + f[s \ {Least(s)}]
    BY <1>6, <2>2, <2>3
  <2>6. s \ {Least(s)} \notin T
    BY <2>1, <2>4
  <2>7. f[s \ {Least(s)}] = H[s \ {Least(s)}]
    BY <2>4, <2>6
  <2> QED
    BY <2>2, <2>4, <2>5, <2>7
<1> QED
  BY <1>3, <1>6, <1>7

\* One more record adds what it contributes.
LEMMA TotalAdds ==
  ASSUME NEW c \in Counter
  PROVE  /\ Total({}, c) = 0
         /\ \A S \in SUBSET Record : Total(S, c) \in Nat
         /\ \A S \in SUBSET Record : \A d \in Record \ S :
              Total(S \cup {d}, c)
                = Total(S, c) + Contribution(RecordOf[d].detail)[c]
<1>1. PICK H : IsSum(H, Weight(c), Record)
  BY SumExists, WeightTypes, RecordAssumption
<1>2. \A S \in SUBSET Record : Total(S, c) = H[S]
  BY <1>1, TotalIsSum
<1>3. /\ H \in [SUBSET Record -> Nat] /\ H[{}] = 0 /\ {} \in SUBSET Record
      /\ \A S \in SUBSET Record : \A d \in Record \ S :
           H[S \cup {d}] = H[S] + Contribution(RecordOf[d].detail)[c]
  BY <1>1 DEF IsSum, Weight
<1>4. \A S \in SUBSET Record : \A d \in Record \ S : S \cup {d} \in SUBSET Record
  OBVIOUS
<1> QED
  BY <1>2, <1>3, <1>4

-----------------------------------------------------------------------------
(* The counters add up *)

RowAddsUp(k) ==
  IF CountedOn(k) = {} THEN tokenStats[k] = None
  ELSE /\ tokenStats[k] # None
       /\ \A c \in Counter : tokenStats[k][c] = Total(CountedOn(k), c)

\* A record that is counted is new to its row and to no other.
LEMMA CountAddsUp ==
  ASSUME Inv, NEW d \in Record, RecordTokenUsage(d),
         NEW k \in Provider \X Model, RowAddsUp(k)
  PROVE  RowAddsUp(k)'
<1>1. /\ pc[d] = "sent" /\ pc' = [pc EXCEPT ![d] = "counted"]
      /\ pc \in [Record -> {"sent", "counted", "timed", "handled"}]
      /\ tokenStats \in [Provider \X Model -> Totals \cup {None}]
  BY DEF RecordTokenUsage, Inv, TypeOK
<1>2. CASE Counted(RecordOf[d]) /\ Row(RecordOf[d]) = k
  <2>1. CountedOn(k)' = CountedOn(k) \cup {d} /\ d \notin CountedOn(k)
    BY <1>1, <1>2 DEF CountedOn
  <2>2. CountedOn(k) \in SUBSET Record
    BY DEF CountedOn
  <2>3. tokenStats'[k] = AddTo(tokenStats[k], RecordOf[d].detail)
    BY <1>1, <1>2 DEF RecordTokenUsage
  <2>4. tokenStats'[k] # None
    <3>1. AddTo(tokenStats[k], RecordOf[d].detail) \in Totals
      BY <1>1, AddToTypes, PayloadTypes
    <3> QED
      BY <2>3, <3>1, NoneAssumption
  <2>5. ASSUME NEW c \in Counter
        PROVE  tokenStats'[k][c] = Total(CountedOn(k)', c)
    <3>1. PICK n : n = Contribution(RecordOf[d].detail)[c]
      OBVIOUS
    <3>2. Contribution(RecordOf[d].detail) \in [Counter -> Nat]
      BY PayloadTypes, ContributionTypes DEF Detail
    <3>3. n \in Nat
      BY <3>1, <3>2
    <3>4. Total(CountedOn(k)', c) = Total(CountedOn(k), c) + n
      BY <2>1, <2>2, <3>1, TotalAdds
    <3>5. CASE CountedOn(k) = {}
      <4>1. tokenStats[k] = None
        BY <3>5 DEF RowAddsUp
      <4>2. tokenStats'[k][c] = 0 + n
        BY <2>3, <3>1, <4>1 DEF AddTo, Plus, Zero
      <4>3. Total(CountedOn(k), c) = 0
        BY <3>5, TotalAdds
      <4> QED
        BY <3>4, <4>2, <4>3
    <3>6. CASE CountedOn(k) # {}
      <4>1. tokenStats[k] # None /\ tokenStats[k][c] = Total(CountedOn(k), c)
        BY <3>6 DEF RowAddsUp
      <4>2. tokenStats'[k][c] = tokenStats[k][c] + n
        BY <2>3, <3>1, <4>1 DEF AddTo, Plus
      <4> QED
        BY <3>4, <4>1, <4>2
    <3> QED
      BY <3>5, <3>6
  <2> QED
    BY <2>1, <2>4, <2>5 DEF RowAddsUp
<1>3. CASE ~(Counted(RecordOf[d]) /\ Row(RecordOf[d]) = k)
  <2>1. CountedOn(k)' = CountedOn(k)
    BY <1>1, <1>3 DEF CountedOn
  <2>2. tokenStats'[k] = tokenStats[k]
    BY <1>1, <1>3 DEF RecordTokenUsage
  <2> QED
    BY <2>1, <2>2 DEF RowAddsUp
<1> QED
  BY <1>2, <1>3

\* Whatever the records carry, in whatever order and however often they are
\* delivered, each row is the sum of what the records counted on it contribute.
THEOREM CountersHold == Spec => []CountersAddUp
<1>1. Init => CountersAddUp
  <2> SUFFICES ASSUME Init, NEW k \in Provider \X Model PROVE RowAddsUp(k)
    BY DEF CountersAddUp, RowAddsUp
  <2>1. CountedOn(k) = {} /\ tokenStats[k] = None
    BY DEF Init, CountedOn
  <2> QED
    BY <2>1 DEF RowAddsUp
<1>2. Inv /\ CountersAddUp /\ [Next]_vars => CountersAddUp'
  <2> SUFFICES ASSUME Inv, CountersAddUp, [Next]_vars,
                      NEW k \in Provider \X Model
               PROVE  RowAddsUp(k)'
    BY DEF CountersAddUp, RowAddsUp
  <2>1. RowAddsUp(k)
    BY DEF CountersAddUp, RowAddsUp
  <2>2. CASE \E d \in Record : RecordTokenUsage(d)
    BY <2>1, <2>2, CountAddsUp
  <2>3. CASE \E d \in Record : ReadRequestTime(d) \/ RecordLastModel(d)
    <3>1. tokenStats' = tokenStats
          /\ \A e \in Record : pc'[e] = "sent" <=> pc[e] = "sent"
      BY <2>3 DEF ReadRequestTime, RecordLastModel, Inv, TypeOK
    <3>2. CountedOn(k)' = CountedOn(k)
      BY <3>1 DEF CountedOn
    <3> QED
      BY <2>1, <3>1, <3>2 DEF RowAddsUp
  <2>4. CASE Tick \/ UNCHANGED vars
    <3>1. tokenStats' = tokenStats /\ pc' = pc
      BY <2>4 DEF Tick, vars
    <3>2. CountedOn(k)' = CountedOn(k)
      BY <3>1 DEF CountedOn
    <3> QED
      BY <2>1, <3>1, <3>2 DEF RowAddsUp
  <2> QED
    BY <2>2, <2>3, <2>4 DEF Next, Handle
<1> QED
  BY <1>1, <1>2, InitInv, StepInv, PTL DEF Spec
=============================================================================
