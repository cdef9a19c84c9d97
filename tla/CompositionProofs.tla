------------------------- MODULE CompositionProofs -------------------------
(***************************************************************************)
(* Proofs about the two modules built on ResourceHandler, for every value  *)
(* of their constants: what is proved of the request path holds in both.   *)
(*                                                                         *)
(* KeySelection: what is in force, and whom it refuses, follows the        *)
(* operator's last block, whatever the operator saves.                     *)
(*                                                                         *)
(* ServedDocument: shaping the answers and handling usage records disturbs *)
(* nothing of the request path, and callers are shown what they asked for. *)
(* No proof about it cites an assumption of KeySelection, nor the other    *)
(* way round.                                                              *)
(***************************************************************************)
EXTENDS KeySelection, ServedDocument, ResourceHandlerProofs

-----------------------------------------------------------------------------
(* KeySelection *)

\* A block that parses is one of the configurations of ResourceHandler.
LEMMA ParsedIsConfig ==
  ASSUME NEW b \in Block, Parses(b)
  PROVE  Parse(b) \in Config
BY ParseAssumption

\* Putting a parsed block in force admits exactly the keys it chooses.
LEMMA ParseAdmitsChosen ==
  ASSUME NEW b \in Block, Parses(b), NEW k \in Key
  PROVE  Accepts(FALSE, Parse(b), k) <=> Chosen(b, k)
<1>1. /\ Parse(b) \in Config
      /\ AllowAll[Parse(b)] = Parse(b).allowAll
      /\ Ticked[Parse(b)] = Parse(b).selected
  BY ParseAssumption
<1>2. KeyField[k] \in Field /\ k # None
  BY MaskAssumption
<1>3. b.allow \in {TRUE, FALSE, None} /\ None # FALSE
  BY BlockAssumption
<1>4. Parse(b).allowAll <=> b.allow # FALSE
  <2>1. CASE b.allow = None
    BY <2>1, <1>3 DEF Parse
  <2>2. CASE b.allow = TRUE
    BY <2>2, <1>3 DEF Parse
  <2>3. CASE b.allow = FALSE
    BY <2>3, <1>3 DEF Parse
  <2> QED
    BY <2>1, <2>2, <2>3, <1>3
<1>5. KeyField[k] \in Parse(b).selected <=> b.boxes[KeyField[k]] = "on"
  BY <1>2 DEF Parse, Selected
<1> QED
  BY <1>1, <1>2, <1>4, <1>5 DEF Accepts, Admits, Chosen

-----------------------------------------------------------------------------
(* Refinement *)

\* A step of KeySelection is a step of ResourceHandler or changes nothing of it.
LEMMA SelectionStep == [SelectionNext]_<<vars, operator>> => [Next]_vars
<1> SUFFICES ASSUME [SelectionNext]_<<vars, operator>> PROVE [Next]_vars
  OBVIOUS
<1>1. CASE \E b \in Block : Deliver(b)
  BY <1>1, ParsedIsConfig DEF Deliver, Next, Environment
<1>2. CASE DeclareBoxes
  BY <1>2 DEF DeclareBoxes
<1>3. CASE \E r \in Request : Serve(r)
  BY <1>3 DEF Serve, Next
<1>4. CASE \E r \in Request : \E q \in ClientRequest : CallArrives(r, q)
  BY <1>4 DEF CallArrives, Next, Environment
<1>5. CASE \E keys \in ProxyKeyLists : Rotate(keys)
  BY <1>5 DEF Rotate, Next, Environment
<1>6. CASE Tick /\ UNCHANGED operator
  BY <1>6 DEF Next, Environment
<1>7. CASE UNCHANGED <<vars, operator>>
  BY <1>7
<1> QED
  BY <1>1, <1>2, <1>3, <1>4, <1>5, <1>6, <1>7 DEF SelectionNext

\* Whatever blocks the operator saves, the request path behaves as
\* ResourceHandler says.
THEOREM SelectionImplementsHandler == SelectionSpec => Spec
<1>1. SelectionInit => Init
  BY DEF SelectionInit
<1> QED
  BY <1>1, SelectionStep, PTL DEF SelectionSpec, Spec

\* No call gets past authorization unless, while it ran, the proxy accepted
\* its key and a valid configuration admitted it (main.go:343-366).
THEOREM SelectionIsAuthorized == SelectionSpec => []AuthorizedService
BY SelectionImplementsHandler, ServiceIsAuthorized

-----------------------------------------------------------------------------
(* What is in force, and whom it refuses *)

\* A call whose key is barred now is marked, and so is one that works with a
\* configuration that does not admit its key or was refused.
CallBarred(r) ==
  /\ InFlight(r) /\ Barred(req[r].token, proxyKeys, block) => barred[r]
  /\ pc[r] = "keys" /\ (req[r].token = None \/ ~Admits(cfg[r], req[r].token))
       => barred[r]
  /\ resp[r].status = 401 => barred[r]

BarredInv ==
  /\ TypeOK /\ BlockInForce
  /\ block \in Block /\ barred \in [Request -> BOOLEAN]
  /\ \A r \in Request : CallBarred(r)

\* The first block is in force before any call arrives.
LEMMA InitBarred == SelectionInit => BarredInv
<1> SUFFICES ASSUME SelectionInit PROVE BarredInv
  OBVIOUS
<1>1. TypeOK
  BY InitTypes DEF SelectionInit
<1>2. block \in Block
  BY DEF SelectionInit
<1>3. BlockInForce
  <2>1. CASE Parses(block)
    <3>1. config = Parse(block) /\ ~configErr
      BY <2>1 DEF SelectionInit
    <3>2. ASSUME NEW k \in Key
          PROVE  Accepts(configErr, config, k) <=> Accepts(FALSE, Parse(block), k)
      BY <3>1 DEF Accepts
    <3> QED
      BY <3>2, <2>1, <1>2, ParseAdmitsChosen DEF BlockInForce
  <2>2. CASE ~Parses(block)
    BY <2>2 DEF SelectionInit, BlockInForce, Accepts, Chosen
  <2> QED
    BY <2>1, <2>2
<1>4. ASSUME NEW r \in Request PROVE CallBarred(r)
  <2>1. pc[r] = "idle" /\ resp[r].status = 0
    BY DEF SelectionInit, Init, NoResponse
  <2> QED
    BY <2>1 DEF CallBarred, InFlight, Working, Serving
<1> QED
  BY <1>1, <1>2, <1>3, <1>4 DEF BarredInv, SelectionInit

\* A delivery puts its block in force, or refuses everybody.
LEMMA DeliverInForce ==
  ASSUME NEW b \in Block, Deliver(b)
  PROVE  BlockInForce'
<1>1. block' = b
  BY DEF Deliver
<1>2. CASE Parses(b)
  <2>1. config' = Parse(b) /\ configErr' = FALSE
    BY <1>2 DEF Deliver, Reconfigure
  <2> QED
    BY <2>1, <1>1, <1>2, ParseAdmitsChosen DEF BlockInForce
<1>3. CASE ~Parses(b)
  <2>1. configErr' = TRUE
    BY <1>3 DEF Deliver, RejectConfig
  <2> QED
    BY <2>1, <1>1, <1>3 DEF BlockInForce, Accepts, Chosen
<1> QED
  BY <1>2, <1>3

\* A delivery or a rotation marks the calls it bars, and moves no call.
LEMMA OperatorMarks ==
  ASSUME BarredInv, NEW r \in Request,
         UNCHANGED <<pc, req, cfg, resp>>,
         barred' = NowBarred(proxyKeys', block')
  PROVE  CallBarred(r)'
<1>1. barred'[r] = (barred[r] \/ (InFlight(r) /\ Barred(req[r].token, proxyKeys', block')))
  BY DEF NowBarred
<1>2. CallBarred(r)
  BY DEF BarredInv
<1> QED
  BY <1>1, <1>2 DEF CallBarred, InFlight

\* A step of a call keeps it marked as it should be.
LEMMA HandleBarred ==
  ASSUME BarredInv, NEW r \in Request, Serve(r), NEW s \in Request
  PROVE  CallBarred(s)'
<1>1. UNCHANGED <<config, configErr, proxyKeys, req, block, barred>> /\ Handle(r)
  BY HandleFrame DEF Serve, operator
<1>2. CallBarred(s) /\ TypeOK /\ BlockInForce
  BY DEF BarredInv
<1>3. CASE s # r
  <2>1. pc'[s] = pc[s] /\ cfg'[s] = cfg[s] /\ resp'[s] = resp[s]
    BY <1>1, <1>2, <1>3, OtherCalls
  <2> QED
    BY <2>1, <1>1, <1>2 DEF CallBarred, InFlight
<1>4. CASE s = r
  <2>1. CASE ReadConfig(r)
    <3>1. /\ ~configErr /\ pc[r] = "received"
          /\ pc' = [pc EXCEPT ![r] = "keys"] /\ cfg' = [cfg EXCEPT ![r] = config]
          /\ resp' = resp
      BY <2>1 DEF ReadConfig, Go
    <3>2. pc'[r] = "keys" /\ cfg'[r] = config
      BY <3>1, <1>2 DEF TypeOK, LocalTypes
    <3>3. req[r].token \in Key \cup {None}
      BY <1>2 DEF TypeOK, LocalTypes
    <3>4. req[r].token = None \/ ~Admits(config, req[r].token)
            => Barred(req[r].token, proxyKeys, block)
      BY <3>1, <3>3, <1>2 DEF BlockInForce, Accepts, Barred, Chosen
    <3> QED
      BY <3>1, <3>2, <3>4, <1>1, <1>2, <1>4 DEF CallBarred, InFlight, Working
  <2>2. CASE Unauthorized(r)
    <3>1. pc[r] = "keys" /\ ~Authenticated(r)
      BY <2>2 DEF Unauthorized
    <3>2. barred[r]
      BY <3>1, <1>2, <1>4 DEF Authenticated, CallBarred, Barred, InFlight, Working
    <3> QED
      BY <3>2, <1>1, <1>4 DEF CallBarred
  <2>3. CASE ~ReadConfig(r) /\ ~Unauthorized(r)
    <3>1. pc'[r] # "keys" /\ InFlight(r)
      BY <2>3, <1>1, <1>2
      DEF TypeOK, LocalTypes, Handle, ServePanel, RefuseInvalidConfig,
          KeysUnavailable, NotFound, Dispatch, Capabilities, StampRefresh,
          PermitRefresh, RefuseRefresh, DropEntry, ServeCached, StartBuild,
          BuildFails, ReadUpstream, StampStore, PutDocument, Reply, Answer, Go,
          InFlight, Working, Serving
    <3>2. resp'[r].status = 401 => resp[r].status = 401
      BY <2>3, <1>1, <1>2
      DEF TypeOK, LocalTypes, Handle, ServePanel, RefuseInvalidConfig,
          KeysUnavailable, NotFound, Dispatch, Capabilities, StampRefresh,
          PermitRefresh, RefuseRefresh, DropEntry, ServeCached, StartBuild,
          BuildFails, ReadUpstream, StampStore, PutDocument, Reply, Answer
    <3> QED
      BY <3>1, <3>2, <1>1, <1>2, <1>4 DEF CallBarred, InFlight
  <2> QED
    BY <2>1, <2>2, <2>3
<1> QED
  BY <1>3, <1>4

\* A new call is marked when its key is barred as it arrives.
LEMMA CallMarks ==
  ASSUME BarredInv, NEW r \in Request, NEW q \in ClientRequest, CallArrives(r, q),
         NEW s \in Request
  PROVE  CallBarred(s)'
<1>1. /\ pc' = [pc EXCEPT ![r] = "received"] /\ req' = [req EXCEPT ![r] = q]
      /\ resp' = [resp EXCEPT ![r] = NoResponse]
      /\ barred' = [barred EXCEPT ![r] = Barred(q.token, proxyKeys, block)]
      /\ UNCHANGED <<proxyKeys, cfg, block>>
  BY DEF CallArrives, Arrive, Go, shared
<1>2. CallBarred(s) /\ TypeOK /\ barred \in [Request -> BOOLEAN]
  BY DEF BarredInv
<1>3. CASE s = r
  BY <1>1, <1>2, <1>3 DEF TypeOK, LocalTypes, CallBarred, InFlight, NoResponse
<1>4. CASE s # r
  BY <1>1, <1>2, <1>4 DEF TypeOK, LocalTypes, CallBarred, InFlight
<1> QED
  BY <1>3, <1>4

\* Every step keeps the invariant.
LEMMA StepBarred ==
  BarredInv /\ [SelectionNext]_<<vars, operator>> => BarredInv'
<1> SUFFICES ASSUME BarredInv, [SelectionNext]_<<vars, operator>>
             PROVE  BarredInv'
  OBVIOUS
<1>1. TypeOK'
  BY SelectionStep, StepTypes DEF BarredInv
<1>2. CASE \E b \in Block : Deliver(b)
  <2> PICK b \in Block : Deliver(b)
    BY <1>2
  <2>1. UNCHANGED <<pc, req, cfg, resp, proxyKeys>>
    BY DEF Deliver, Reconfigure, RejectConfig, local
  <2>2. block' = b /\ barred' = NowBarred(proxyKeys', block')
    BY <2>1 DEF Deliver
  <2>3. \A r \in Request : CallBarred(r)'
    BY <2>1, <2>2, OperatorMarks
  <2>4. barred' \in [Request -> BOOLEAN]
    BY <2>2 DEF NowBarred, BarredInv
  <2> QED
    BY <1>1, <2>2, <2>3, <2>4, DeliverInForce DEF BarredInv
<1>3. CASE DeclareBoxes
  BY <1>3, <1>1 DEF BarredInv, DeclareBoxes, vars, shared, local, CallBarred,
                    BlockInForce, InFlight
<1>4. CASE \E r \in Request : Serve(r)
  <2> PICK r \in Request : Serve(r)
    BY <1>4
  <2>1. UNCHANGED <<config, configErr, block, barred>>
    BY HandleFrame DEF Serve, operator
  <2> QED
    BY <2>1, <1>1, HandleBarred DEF BarredInv, BlockInForce
<1>5. CASE \E r \in Request : \E q \in ClientRequest : CallArrives(r, q)
  <2> PICK r \in Request, q \in ClientRequest : CallArrives(r, q)
    BY <1>5
  <2>1. UNCHANGED <<config, configErr, block>>
    BY DEF CallArrives, Arrive, shared
  <2>2. barred' \in [Request -> BOOLEAN]
    BY DEF CallArrives, BarredInv, Barred, Chosen, Parses
  <2> QED
    BY <2>1, <2>2, <1>1, CallMarks DEF BarredInv, BlockInForce
<1>6. CASE \E keys \in ProxyKeyLists : Rotate(keys)
  <2> PICK keys \in ProxyKeyLists : Rotate(keys)
    BY <1>6
  <2>1. UNCHANGED <<pc, req, cfg, resp, block, config, configErr>>
    BY DEF Rotate, RotateKeys, local
  <2>2. barred' = NowBarred(proxyKeys', block')
    BY <2>1 DEF Rotate, RotateKeys
  <2>3. \A r \in Request : CallBarred(r)'
    BY <2>1, <2>2, OperatorMarks
  <2>4. barred' \in [Request -> BOOLEAN]
    BY <2>2 DEF NowBarred, BarredInv
  <2> QED
    BY <1>1, <2>1, <2>3, <2>4 DEF BarredInv, BlockInForce
<1>7. CASE Tick /\ UNCHANGED operator
  BY <1>7, <1>1 DEF BarredInv, Tick, operator, local, CallBarred, BlockInForce,
                    InFlight
<1>8. CASE UNCHANGED <<vars, operator>>
  BY <1>8, <1>1 DEF BarredInv, operator, vars, shared, local, CallBarred,
                    BlockInForce, InFlight
<1> QED
  BY <1>2, <1>3, <1>4, <1>5, <1>6, <1>7, <1>8 DEF SelectionNext

\* Whatever was in force before and whichever calls run, the keys let in are
\* those the block delivered last chooses, none when it is broken
\* (applyLifecycleConfig, main.go:251).
THEOREM LastBlockIsInForce == SelectionSpec => []BlockInForce
<1>1. BarredInv => BlockInForce
  BY DEF BarredInv
<1> QED
  BY <1>1, InitBarred, StepBarred, PTL DEF SelectionSpec

\* A call is refused as unauthorized only when, at some moment of it, the
\* proxy did not accept its key or the operator had not chosen it
\* (authenticate, auth.go:35).
THEOREM RefusedOnlyWhenBarred == SelectionSpec => []RefusedWasBarred
<1>1. BarredInv => RefusedWasBarred
  BY DEF BarredInv, CallBarred, RefusedWasBarred
<1> QED
  BY <1>1, InitBarred, StepBarred, PTL DEF SelectionSpec

-----------------------------------------------------------------------------
(* Types *)

\* The boxes declared are named by keys the proxy accepts.
LEMMA BoxesAreFields ==
  ASSUME TypeOK, DeclareBoxes
  PROVE  form' \subseteq Field
<1>1. proxyKeys \subseteq Key
  BY DEF TypeOK, SharedTypes
<1> QED
  BY <1>1, MaskAssumption DEF DeclareBoxes

\* The operator's variables always hold values of their types: whichever list
\* of keys is read, the boxes a registration declares are among the fields.
THEOREM SelectionTypesHold == SelectionSpec => []SelectionTypes
<1>1. SelectionInit => SelectionTypes
  BY DEF SelectionInit, SelectionTypes
<1>2. BarredInv /\ SelectionTypes /\ BarredInv'
        /\ [SelectionNext]_<<vars, operator>> => SelectionTypes'
  <2> SUFFICES ASSUME BarredInv, SelectionTypes, BarredInv',
                      [SelectionNext]_<<vars, operator>>
               PROVE  SelectionTypes'
    OBVIOUS
  <2>1. block' \in Block /\ barred' \in [Request -> BOOLEAN]
    BY DEF BarredInv
  <2>2. lifecycle' \in {"idle", "register"} /\ form' \subseteq Field
    BY BoxesAreFields
    DEF BarredInv, SelectionTypes, SelectionNext, Deliver, DeclareBoxes, Serve,
        CallArrives, Rotate, operator
  <2> QED
    BY <2>1, <2>2 DEF SelectionTypes
<1> QED
  BY <1>1, <1>2, InitBarred, StepBarred, PTL DEF SelectionSpec

-----------------------------------------------------------------------------
(* ServedDocument *)

\* A step of ServedDocument is a step of ResourceHandler or changes nothing
\* of it.
LEMMA ServedStep == [ServedNext]_<<vars, served>> => [Next]_vars
<1> SUFFICES ASSUME [ServedNext]_<<vars, served>> PROVE [Next]_vars
  OBVIOUS
<1>1. CASE \E n \in Record : CountRecord(n) \/ RegisterRecord(n)
  BY <1>1 DEF CountRecord, RegisterRecord
<1>2. ASSUME NEW r \in Request, NEW c \in Call, ArriveWith(r, c) PROVE Next
  <2>1. c[1] \in ClientRequest
    BY ServedAssumption
  <2> QED
    BY <1>2, <2>1 DEF ArriveWith, Next, Environment
<1>3. CASE \E r \in Request : HandleStep(r)
  BY <1>3 DEF HandleStep, Next
<1>4. CASE \E r \in Request : ReadLastModel(r) \/ Shape(r)
  BY <1>4 DEF ReadLastModel, Shape
<1>5. CASE Outside
  BY <1>5 DEF Outside, Next, Environment
<1>6. CASE UNCHANGED <<vars, served>>
  BY <1>6
<1> QED
  BY <1>1, <1>2, <1>3, <1>4, <1>5, <1>6 DEF ServedNext

\* What is shown to the callers, and what the records change meanwhile, leaves
\* the request path as ResourceHandler has it (handleUsage shapes the answer
\* after the cache was read or written, main.go:467-485).
THEOREM ServedImplementsHandler == ServedSpec => Spec
<1>1. ServedInit => Init
  BY DEF ServedInit
<1> QED
  BY <1>1, ServedStep, PTL DEF ServedSpec, Spec

\* So the documents shown were not cached before the configuration their
\* reader works with was put in force.
THEOREM ServedAfterReconfigure == ServedSpec => []NoPreReconfigureDocument
BY ServedImplementsHandler, NothingFromBeforeReconfigure

\* Nor is the data behind an answer older than its lifetime and one build.
THEOREM ServedDataStaysRecent == ServedSpec => []ServedDataAge
BY ServedImplementsHandler, ServedDataIsRecent

-----------------------------------------------------------------------------
(* What a step of a call stores and answers with *)

\* The entry that put number puts + 1 stores for the call.
NewDocument(r) ==
  NewEntry([doc |-> doc[r], no |-> puts + 1, heldIn |-> epoch], stamp[r],
           TTL(cfg[r], req[r].route))

\* Only the call's own document enters the caches, under the route asked for.
LEMMA HandleStores ==
  ASSUME TypeOK, NEW r \in Request, Handle(r),
         NEW e \in 0..MaxReconfigure, NEW k \in DocKey
  PROVE  \/ caches'[e][k] \in {caches[e][k], None}
         \/ /\ PutDocument(r) /\ k = req[r].route
            /\ caches'[e][k] = NewDocument(r)
<1>1. CASE DropEntry(r)
  <2>1. PICK f \in Loaded(r) :
          caches' = [caches EXCEPT ![f] = Invalidate(@, req[r].route)]
    BY <1>1 DEF DropEntry
  <2>2. f \in 0..MaxReconfigure
    BY LoadedCaches
  <2> QED
    BY <2>1, <2>2 DEF Invalidate, TypeOK, SharedTypes
<1>2. CASE PutDocument(r)
  <2>1. caches' = [caches EXCEPT ![ptr[r]] =
                     Store(@, req[r].route, NewDocument(r))]
    BY <1>2 DEF PutDocument, NewDocument
  <2> QED
    BY <1>2, <2>1 DEF Store, TypeOK, SharedTypes
<1>3. CASE ~DropEntry(r) /\ ~PutDocument(r)
  BY <1>3, HandleKeepsCaches
<1> QED
  BY <1>1, <1>2, <1>3

\* A call without a cached document to serve and none of its own answers with
\* none.
LEMMA HandleAnswersNone ==
  ASSUME TypeOK, NEW r \in Request, CallBound(r), Handle(r), ~ServeCached(r),
         ~PutDocument(r)
  PROVE  resp'[r].entry = None
BY DEF TypeOK, LocalTypes, CallBound, Working, Serving, Handle,
     ServePanel, RefuseInvalidConfig, ReadConfig, KeysUnavailable,
     Unauthorized, NotFound, Dispatch, Capabilities, StampRefresh,
     PermitRefresh, RefuseRefresh, DropEntry, StartBuild,
     BuildFails, ReadUpstream, StampStore, Reply, Answer, Go,
     LoadPointer

\* A call answers with what some cache holds under its route or with its own
\* document.
LEMMA HandleAnswers ==
  ASSUME TypeOK, NEW r \in Request, CallBound(r), Handle(r),
         resp'[r].entry # None
  PROVE  /\ req[r].route \in DocKey /\ pc'[r] = "done"
         /\ \/ PutDocument(r) /\ resp'[r].entry = NewDocument(r)
            \/ /\ ~PutDocument(r)
               /\ \E e \in 0..MaxReconfigure :
                    /\ caches[e][req[r].route] # None
                    /\ resp'[r].entry = caches[e][req[r].route]
<1>1. CASE PutDocument(r)
  <2>1. Answer(r, 200, NewDocument(r), stamp[r]) /\ pc[r] = "store"
    BY <1>1 DEF PutDocument, NewDocument
  <2> QED
    BY <1>1, <2>1
    DEF Answer, Go, TypeOK, LocalTypes, CallShape, Serving
<1>2. CASE ServeCached(r)
  <2>1. PICK e \in Loaded(r) :
          /\ caches[e][req[r].route] # None
          /\ Answer(r, 200, caches[e][req[r].route], now)
    BY <1>2 DEF ServeCached, Fresh
  <2>2. e \in 0..MaxReconfigure
    BY LoadedCaches
  <2>3. ~PutDocument(r) /\ req[r].route \in DocKey
    BY <1>2 DEF ServeCached, PutDocument, TypeOK, CallShape, Serving
  <2> QED
    BY <2>1, <2>2, <2>3 DEF Answer, Go, TypeOK, LocalTypes
<1> QED
  BY <1>1, <1>2, HandleAnswersNone

\* A put is counted, and nothing else is.
LEMMA HandlePuts ==
  ASSUME TypeOK, NEW r \in Request, Handle(r)
  PROVE  puts' = IF PutDocument(r) THEN puts + 1 ELSE puts
<1>1. CASE PutDocument(r)
  BY <1>1 DEF PutDocument
<1>2. CASE DropEntry(r)
  <2>1. pc[r] = "invalidate" /\ puts' = puts
    BY <1>2 DEF DropEntry, ghosts
  <2> QED
    BY <2>1 DEF PutDocument
<1> QED
  BY <1>1, <1>2, HandleKeepsCaches

\* Only a call that has not been answered takes a step.
LEMMA HandleWorks ==
  ASSUME NEW r \in Request, Handle(r)
  PROVE  pc[r] \in Working
BY DEF Working, Serving, Handle,
     ServePanel, RefuseInvalidConfig, ReadConfig, KeysUnavailable,
     Unauthorized, NotFound, Dispatch, Capabilities, StampRefresh,
     PermitRefresh, RefuseRefresh, DropEntry, ServeCached, StartBuild,
     BuildFails, ReadUpstream, StampStore, PutDocument

\* A call stores what it has just rendered.
LEMMA StoredAfterRendering ==
  ASSUME TypeOK, NEW r \in Request, Handle(r), pc'[r] = "store"
  PROVE  pc[r] = "render" /\ UNCHANGED <<cfg, doc, readEpoch>>
BY DEF TypeOK, LocalTypes, Handle,
     ServePanel, RefuseInvalidConfig, ReadConfig, KeysUnavailable,
     Unauthorized, NotFound, Dispatch, Capabilities, StampRefresh,
     PermitRefresh, RefuseRefresh, DropEntry, ServeCached, StartBuild,
     BuildFails, ReadUpstream, StampStore, PutDocument, Reply, Answer, Go,
     LoadPointer, ghosts

-----------------------------------------------------------------------------
(* The documents and the records behind them *)

\* The documents that can be cached.
Bytes == [{"lastModel"} -> Nat] \cup {NoSections} \cup Catalogues

ServedTypes ==
  /\ header \in [Request -> Header \cup {None}]
  /\ named \in [Request -> Nat \cup {None}]
  /\ contents \in Seq(Bytes) /\ Len(contents) = puts
  /\ ttl \in [Request -> Nat]
  /\ DOMAIN shown = Request
  /\ floor \in [Request -> SUBSET Nat]

\* The records that may be registered.
Registrable == counted \cup Uncounted

\* A record with a provider is counted before it is registered, one of the
\* registered ones is the newest, and whatever was read came from the two.
RecordsInv ==
  /\ registered \subseteq Registrable /\ counted \subseteq Nat
  /\ registered # {} => \E n \in registered : \A m \in registered : n >= m
  /\ \A r \in Request : /\ named[r] \in {None, 0} \cup Registrable
                        /\ floor[r] \subseteq counted

\* Records are numbers, those without a provider too.
LEMMA UncountedAreNumbers == Uncounted \subseteq Nat
BY ServedAssumption

\* A document cached under a route has the sections of that route.
BytesFit(bytes, route) ==
  IF route = "usage"
    THEN /\ DOMAIN bytes \subseteq {"lastModel"}
         /\ "lastModel" \in DOMAIN bytes => bytes["lastModel"] \in Registrable
    ELSE "catalog" \in DOMAIN bytes /\ DOMAIN bytes \subseteq DiscoverySection

EntryFits(entry, route) ==
  /\ entry.value.no \in 1..puts
  /\ BytesFit(contents[entry.value.no], route)

CachedFits ==
  \A e \in 0..MaxReconfigure, k \in DocKey :
    caches[e][k] # None => EntryFits(caches[e][k], k)

\* The rows of a document, if it has any.
RowsOf(d) == IF "models" \in DOMAIN d THEN d["models"] ELSE {}

\* A v2 usage document adds the caller's hint, the cache's word and the rows
\* counted to what the bytes have.
UsageFits(d, hint, cache, rows) ==
  /\ {"client", "cache"} \subseteq DOMAIN d
  /\ DOMAIN d \subseteq {"client", "models", "cache", "lastModel"}
  /\ d["client"] = hint /\ d["cache"] = cache
  /\ "models" \in DOMAIN d => d["models"] # {}
  /\ rows \subseteq RowsOf(d)
  /\ "lastModel" \in DOMAIN d => d["lastModel"] \in RowsOf(d) \cup Uncounted

\* Nothing the document was built with is lost or changed.
HasSections(d, bytes) ==
  \A s \in DOMAIN bytes : s \in DOMAIN d /\ d[s] = bytes[s]

\* The document shown has what the caller's contract gives it.
ShownFits(r) ==
  LET d == shown[r]
      bytes == contents[resp[r].entry.value.no]
  IN
  IF ContractFrom(header[r]) = 1 THEN DOMAIN d = {}
  ELSE /\ HasSections(d, bytes)
       /\ IF req[r].route = "usage"
            THEN /\ UsageFits(d, MaskKey[req[r].token],
                       [updatedAt |-> resp[r].entry.storedAt, ttl |-> ttl[r]],
                       floor[r])
                 /\ RowsOf(d) \subseteq counted
            ELSE "catalog" \in DOMAIN d /\ DOMAIN d \subseteq DiscoverySection

CallServed(r) ==
  /\ pc[r] = "store" /\ req[r].route = "usage" => named[r] # None
  /\ resp[r].entry # None =>
       req[r].route \in DocKey /\ EntryFits(resp[r].entry, req[r].route)
  /\ shown[r] # None =>
       pc[r] = "done" /\ resp[r].entry # None /\ ShownFits(r)

ServedInv ==
  /\ AgeInv /\ ServedTypes /\ RecordsInv /\ CachedFits
  /\ \A r \in Request : CallServed(r)

\* Records and documents are only added, so what fitted still does.
LEMMA FitsKept ==
  ASSUME puts \in Nat, puts' \in Nat, puts <= puts', counted \subseteq counted',
         \A n \in 1..puts : contents'[n] = contents[n],
         NEW entry, NEW route, EntryFits(entry, route)
  PROVE  /\ EntryFits(entry, route)'
         /\ contents'[entry.value.no] = contents[entry.value.no]
<1>1. entry.value.no \in 1..puts /\ entry.value.no \in 1..puts'
  BY DEF EntryFits
<1>2. contents'[entry.value.no] = contents[entry.value.no]
  BY <1>1
<1>3. Registrable \subseteq Registrable'
  BY DEF Registrable
<1> QED
  BY <1>1, <1>2, <1>3 DEF EntryFits, BytesFit

\* The last model is a registered record, if there is any.
LEMMA LastModelRegistered ==
  ASSUME RecordsInv
  PROVE  LastModel \in {0} \cup registered
BY DEF RecordsInv, LastModel

\* What a call builds fits the route it was asked for.
LEMMA BuiltFits ==
  ASSUME ServedInv, NEW r \in Request, PutDocument(r),
         NEW document, document \in Built(r)
  PROVE  document \in Bytes /\ BytesFit(document, req[r].route)
<1>1. CASE req[r].route # "usage"
  <2>1. document \in Catalogues
    BY <1>1 DEF Built
  <2>2. PICK found \in SUBSET OptionalSection :
          document = [s \in {"catalog"} \cup found |-> TRUE]
    BY <2>1 DEF Catalogues
  <2> QED
    BY <1>1, <2>1, <2>2 DEF Bytes, BytesFit, DiscoverySection
<1>2. CASE req[r].route = "usage"
  <2>1. named[r] # None /\ document = UsageBytes(r)
    BY <1>2 DEF ServedInv, CallServed, PutDocument, Built
  <2>2. named[r] \in {0} \cup Registrable /\ counted \subseteq Nat
    BY <2>1 DEF ServedInv, RecordsInv
  <2>3. CASE named[r] = 0
    BY <1>2, <2>1, <2>3 DEF UsageBytes, Bytes, BytesFit, NoSections
  <2>4. CASE named[r] # 0
    <3>1. document = [s \in {"lastModel"} |-> named[r]]
      BY <2>1, <2>4 DEF UsageBytes
    <3>2. named[r] \in Registrable /\ named[r] \in Nat
      BY <2>2, <2>4, UncountedAreNumbers DEF Registrable
    <3> QED
      BY <1>2, <3>1, <3>2 DEF Bytes, BytesFit
  <2> QED
    BY <2>3, <2>4
<1> QED
  BY <1>1, <1>2

-----------------------------------------------------------------------------
(* The steps of ServedDocument *)

\* A step that leaves the request path, the documents and the answers alone
\* and loses no record keeps the documents and the answers fitting.
LEMMA RecordsKeepFits ==
  ASSUME ServedInv, UNCHANGED <<vars, header, contents, ttl, shown, floor>>,
         counted \subseteq counted'
  PROVE  /\ CachedFits'
         /\ \A r \in Request :
              (pc[r] = "store" /\ req[r].route = "usage" => named'[r] # None)
                => CallServed(r)'
<1>1. UNCHANGED <<pc, req, resp, caches, puts>>
  BY DEF vars, shared, local, ghosts
<1>2. puts \in Nat
  BY DEF ServedInv, AgeInv, CacheInv, TypeOK, HistoryTypes
<1>3. ASSUME NEW entry, NEW k, EntryFits(entry, k) PROVE EntryFits(entry, k)'
  BY <1>1, <1>2, <1>3, FitsKept
<1>4. CachedFits'
  BY <1>1, <1>3 DEF ServedInv, CachedFits
<1>5. ASSUME NEW r \in Request,
             pc[r] = "store" /\ req[r].route = "usage" => named'[r] # None
      PROVE  CallServed(r)'
  <2>1. CallServed(r)
    BY DEF ServedInv
  <2>2. resp[r].entry # None =>
          contents'[resp[r].entry.value.no] = contents[resp[r].entry.value.no]
    OBVIOUS
  <2>3. ShownFits(r) => ShownFits(r)'
    BY <1>1 DEF ShownFits
  <2> QED
    BY <1>1, <1>3, <1>5, <2>1, <2>3 DEF CallServed
<1> QED
  BY <1>4, <1>5

\* Counting a record and registering it keep the invariant.
LEMMA RecordStep ==
  ASSUME ServedInv, NEW n \in Record, CountRecord(n) \/ RegisterRecord(n)
  PROVE  ServedInv'
<1> USE DEF CountRecord, RegisterRecord
<1>1. /\ UNCHANGED <<vars, header, named, contents, ttl, shown, floor>>
      /\ counted \subseteq counted'
  OBVIOUS
<1>2. AgeInv' /\ ServedTypes'
  <2>1. [Next]_vars
    BY <1>1
  <2>2. puts' = puts
    BY <1>1 DEF vars, ghosts
  <2> QED
    BY <1>1, <2>1, <2>2, StepAge DEF ServedInv, ServedTypes
<1>3. RecordsInv'
  <2>1. n \in Nat
    BY ServedAssumption
  <2>2. registered' \subseteq Registrable' /\ counted' \subseteq Nat
    BY <2>1 DEF ServedInv, RecordsInv, Registrable
  <2>3. registered' # {} =>
          \E m \in registered' : \A l \in registered' : m >= l
    <3>1. CASE registered' = registered
      BY <3>1 DEF ServedInv, RecordsInv
    <3>2. CASE registered' = registered \cup {n}
      <4>1. CASE registered = {}
        BY <2>1, <3>2, <4>1
      <4>2. CASE registered # {}
        <5>1. PICK m \in registered : \A l \in registered : m >= l
          BY <4>2 DEF ServedInv, RecordsInv
        <5>2. m \in Nat /\ registered \subseteq Nat
          BY <5>1, UncountedAreNumbers DEF ServedInv, RecordsInv, Registrable
        <5>3. CASE m >= n
          BY <3>2, <5>1, <5>3
        <5>4. CASE n >= m
          BY <2>1, <3>2, <5>1, <5>2, <5>4
        <5> QED
          BY <2>1, <5>2, <5>3, <5>4
      <4> QED
        BY <4>1, <4>2
    <3> QED
      BY <3>1, <3>2
  <2> QED
    BY <1>1, <2>2, <2>3 DEF ServedInv, RecordsInv, Registrable
<1>4. CachedFits' /\ \A r \in Request : CallServed(r)'
  BY <1>1, RecordsKeepFits DEF ServedInv, CallServed
<1> QED
  BY <1>2, <1>3, <1>4 DEF ServedInv

\* So does reading the last model for a build.
LEMMA ReadLastModelStep ==
  ASSUME ServedInv, NEW r \in Request, ReadLastModel(r)
  PROVE  ServedInv'
<1> USE DEF ReadLastModel
<1>1. /\ UNCHANGED <<vars, header, counted, registered, contents, ttl, shown,
                     floor>>
      /\ named' = [named EXCEPT ![r] = LastModel]
  OBVIOUS
<1>2. LastModel \in {0} \cup registered
  BY LastModelRegistered DEF ServedInv
<1>3. LastModel \in {0} \cup Registrable /\ LastModel \in Nat
  <2>1. registered \subseteq Registrable /\ counted \subseteq Nat
    BY DEF ServedInv, RecordsInv
  <2>2. Registrable \subseteq Nat
    BY <2>1, UncountedAreNumbers DEF Registrable
  <2> QED
    BY <1>2, <2>1, <2>2
<1>4. AgeInv' /\ ServedTypes'
  <2>1. [Next]_vars
    BY <1>1
  <2>2. puts' = puts
    BY <1>1 DEF vars, ghosts
  <2> QED
    BY <1>1, <1>3, <2>1, <2>2, StepAge DEF ServedInv, ServedTypes
<1>5. RecordsInv'
  BY <1>1, <1>3 DEF ServedInv, RecordsInv, ServedTypes, Registrable
<1>6. \A s \in Request : named'[s] = named[s] \/ named'[s] # None
  BY <1>1, <1>3, NoneAssumption DEF ServedInv, ServedTypes
<1>7. CachedFits' /\ \A s \in Request : CallServed(s)'
  BY <1>1, <1>6, RecordsKeepFits DEF ServedInv, CallServed
<1> QED
  BY <1>4, <1>5, <1>7 DEF ServedInv

\* What Shape shows fits the caller.
LEMMA ShapeFits ==
  ASSUME ServedInv, NEW r \in Request, Shape(r)
  PROVE  ShownFits(r)'
<1> DEFINE entry == resp[r].entry
           bytes == contents[entry.value.no]
           contract == ContractFrom(header[r])
           hint == MaskKey[req[r].token]
           cache == [updatedAt |-> entry.storedAt, ttl |-> ttl[r]]
<1>1. /\ entry # None
      /\ shown'[r] = IF req[r].route = "usage"
           THEN ShapeForContract(bytes, contract, hint, counted, entry.storedAt,
                                 ttl[r])
           ELSE ShapeDiscovery(bytes, contract)
  BY DEF Shape, ServedInv, ServedTypes
<1>2. UNCHANGED <<req, resp, header, counted, contents, ttl, floor>>
  BY DEF Shape, vars, local
<1>3. req[r].route \in DocKey /\ BytesFit(bytes, req[r].route)
  BY <1>1 DEF ServedInv, CallServed, EntryFits
<1>4. contract \in {1, 2}
  <2>1. header[r] \in Int \cup {None}
    BY ServedAssumption DEF ServedInv, ServedTypes
  <2> DEFINE h == header[r]
  <2>2. CASE h = None
    BY <2>2 DEF ContractFrom
  <2>3. CASE h # None
    <3>1. h \in Int
      BY <2>1, <2>3
    <3> HIDE DEF h
    <3>2. ContractFrom(h) \in {1, 2}
      BY <2>3, <3>1 DEF ContractFrom
    <3> QED
      BY <3>2 DEF h
  <2> QED
    BY <2>2, <2>3
<1>5. floor[r] \subseteq counted
  BY DEF ServedInv, RecordsInv
<1> DEFINE d == shown'[r]
<1>6. SUFFICES IF contract = 1 THEN DOMAIN d = {}
               ELSE /\ HasSections(d, bytes)
                    /\ IF req[r].route = "usage"
                         THEN /\ UsageFits(d, hint, cache, floor[r])
                              /\ RowsOf(d) \subseteq counted
                         ELSE /\ "catalog" \in DOMAIN d
                              /\ DOMAIN d \subseteq DiscoverySection
  BY <1>2 DEF ShownFits
<1> HIDE DEF bytes, contract, hint, cache, d
<1>7. CASE req[r].route = "usage"
  <2>1. d = ShapeForContract(bytes, contract, hint, counted, entry.storedAt,
                             ttl[r])
    BY <1>1, <1>7 DEF d
  <2>2. /\ DOMAIN bytes \subseteq {"lastModel"}
        /\ "lastModel" \in DOMAIN bytes => bytes["lastModel"] \in Registrable
    BY <1>3, <1>7 DEF BytesFit
  <2>3. CASE contract = 1
    BY <2>1, <2>2, <2>3 DEF ShapeForContract, Without
  <2>4. CASE contract = 2
    <3> DEFINE M == IF counted = {} THEN {} ELSE {"models"}
    <3>1. d = [s \in DOMAIN bytes \cup {"client", "cache"} \cup M |->
                 CASE s = "client" -> hint
                   [] s = "models" -> counted
                   [] s = "cache"  -> cache
                   [] OTHER        -> bytes[s]]
      BY <2>1, <2>4 DEF ShapeForContract, cache
    <3>2. DOMAIN d = DOMAIN bytes \cup {"client", "cache"} \cup M
      BY <3>1
    <3>3. d["client"] = hint /\ d["cache"] = cache
      BY <3>1
    <3>4. "models" \in DOMAIN d => counted # {} /\ d["models"] = counted
      BY <2>2, <3>1, <3>2
    <3>5. \A s \in DOMAIN bytes : s \in DOMAIN d /\ d[s] = bytes[s]
      BY <2>2, <3>1
    <3>6. RowsOf(d) = counted
      BY <3>2, <3>4 DEF RowsOf
    <3>7. "lastModel" \in DOMAIN d => d["lastModel"] \in counted \cup Uncounted
      BY <2>2, <3>2, <3>5 DEF Registrable
    <3>8. UsageFits(d, hint, cache, floor[r])
      BY <1>5, <2>2, <3>2, <3>3, <3>4, <3>6, <3>7 DEF UsageFits
    <3> QED
      BY <1>7, <2>4, <3>5, <3>6, <3>8 DEF HasSections
  <2> QED
    BY <1>4, <2>3, <2>4
<1>8. CASE req[r].route # "usage"
  <2>1. d = ShapeDiscovery(bytes, contract)
    BY <1>1, <1>8 DEF d
  <2>2. "catalog" \in DOMAIN bytes /\ DOMAIN bytes \subseteq DiscoverySection
    BY <1>3, <1>8 DEF BytesFit
  <2>3. CASE contract = 1
    BY <2>1, <2>2, <2>3 DEF ShapeDiscovery, Without
  <2>4. CASE contract = 2
    <3>1. d = bytes
      BY <2>1, <2>4 DEF ShapeDiscovery
    <3> QED
      BY <1>8, <2>2, <2>4, <3>1 DEF HasSections
  <2> QED
    BY <1>4, <2>3, <2>4
<1> QED
  BY <1>7, <1>8

\* Shaping an answer keeps the invariant.
LEMMA ShapeStep ==
  ASSUME ServedInv, NEW r \in Request, Shape(r)
  PROVE  ServedInv'
<1>1. UNCHANGED <<vars, header, counted, registered, named, contents, ttl,
                  floor>>
  BY DEF Shape
<1>2. UNCHANGED <<pc, req, resp, caches, puts>>
  BY <1>1 DEF vars, shared, local, ghosts
<1>3. AgeInv'
  BY <1>1, StepAge DEF ServedInv
<1>4. /\ DOMAIN shown' = Request
      /\ \A s \in Request : s # r => shown'[s] = shown[s]
  BY DEF Shape, ServedInv, ServedTypes
<1>5. ServedTypes' /\ RecordsInv' /\ CachedFits'
  BY <1>1, <1>2, <1>4
  DEF ServedInv, ServedTypes, RecordsInv, CachedFits, EntryFits, BytesFit,
      Registrable
<1>6. ASSUME NEW s \in Request PROVE CallServed(s)'
  <2>1. CallServed(s)
    BY DEF ServedInv
  <2>2. resp[s].entry # None =>
          req[s].route \in DocKey /\ EntryFits(resp[s].entry, req[s].route)'
    BY <1>1, <1>2, <2>1 DEF CallServed, EntryFits, BytesFit, Registrable
  <2>3. shown'[s] # None =>
          pc[s] = "done" /\ resp[s].entry # None /\ ShownFits(s)'
    <3>1. CASE s = r
      BY <3>1, ShapeFits DEF Shape
    <3>2. CASE s # r
      <4>1. shown'[s] = shown[s]
        BY <1>4, <3>2
      <4>2. ShownFits(s) => ShownFits(s)'
        BY <1>1, <1>2, <4>1 DEF ShownFits
      <4> QED
        BY <2>1, <4>1, <4>2 DEF CallServed
    <3> QED
      BY <3>1, <3>2
  <2> QED
    BY <1>1, <1>2, <2>1, <2>2, <2>3 DEF CallServed
<1> QED
  BY <1>3, <1>5, <1>6 DEF ServedInv

\* A call that arrives has been shown nothing yet, and what was shown before it
\* came out of the counters.
LEMMA ArriveStep ==
  ASSUME ServedInv, NEW r \in Request, NEW c \in Call, ArriveWith(r, c)
  PROVE  ServedInv'
<1>1. c[1] \in ClientRequest /\ c[2] \in Header
  BY ServedAssumption
<1>2. Arrive(r, c[1])
  BY DEF ArriveWith
<1>3. UNCHANGED <<caches, puts, counted, registered, contents, ttl>>
  BY DEF ArriveWith, Arrive, shared
<1>4. AgeInv'
  BY <1>1, <1>2, StepAge DEF ServedInv, Next, Environment
<1>5. /\ pc'[r] = "received" /\ resp'[r].entry = None /\ shown'[r] = None
      /\ DOMAIN shown' = Request
      /\ \A s \in Request : s # r =>
           /\ pc'[s] = pc[s] /\ req'[s] = req[s] /\ resp'[s] = resp[s]
           /\ header'[s] = header[s] /\ named'[s] = named[s]
           /\ shown'[s] = shown[s] /\ floor'[s] = floor[s]
  BY DEF ArriveWith, Arrive, Go, NoResponse, ServedInv, AgeInv, CacheInv,
     TypeOK, LocalTypes, ServedTypes
<1>6. ASSUME NEW s \in Request, shown[s] # None PROVE Rows(s) \subseteq counted
  <2>1. ShownFits(s)
    BY <1>6 DEF ServedInv, CallServed
  <2>2. RowsOf(shown[s]) \subseteq counted
    BY <2>1 DEF ShownFits, RowsOf, DiscoverySection, OptionalSection
  <2> QED
    BY <2>2 DEF Rows, RowsOf
<1>7. RowsShown \subseteq counted
  BY <1>6 DEF RowsShown
<1>8. /\ floor'[r] = RowsShown \cup floor[r]
      /\ floor'[r] \subseteq counted
  BY <1>7 DEF ArriveWith, ServedInv, ServedTypes, RecordsInv
<1>9. ServedTypes'
  <2>1. floor' \in [Request -> SUBSET Nat]
    BY <1>8 DEF ArriveWith, ServedInv, ServedTypes, RecordsInv
  <2>2. header' \in [Request -> Header \cup {None}]
        /\ named' \in [Request -> Nat \cup {None}]
    BY <1>1 DEF ArriveWith, ServedInv, ServedTypes
  <2> QED
    BY <1>3, <1>5, <2>1, <2>2 DEF ServedInv, ServedTypes
<1>10. RecordsInv'
  <2>1. named'[r] = None
    BY DEF ArriveWith, ServedInv, ServedTypes
  <2> QED
    BY <1>3, <1>5, <1>8, <2>1 DEF ServedInv, RecordsInv, Registrable
<1>11. CachedFits'
  BY <1>3 DEF ServedInv, CachedFits, EntryFits, BytesFit, Registrable
<1>12. ASSUME NEW s \in Request PROVE CallServed(s)'
  <2>1. CASE s = r
    BY <1>5, <2>1 DEF CallServed
  <2>2. CASE s # r
    <3>1. CallServed(s)
      BY DEF ServedInv
    <3>2. ShownFits(s) => ShownFits(s)'
      BY <1>3, <1>5, <2>2 DEF ShownFits
    <3> QED
      BY <1>3, <1>5, <2>2, <3>1, <3>2
      DEF CallServed, EntryFits, BytesFit, Registrable
  <2> QED
    BY <2>1, <2>2
<1> QED
  BY <1>4, <1>9, <1>10, <1>11, <1>12 DEF ServedInv

\* A step of a call appends the document it stores.
LEMMA HandleContents ==
  ASSUME ServedInv, NEW r \in Request, HandleStep(r)
  PROVE  /\ contents' \in Seq(Bytes) /\ Len(contents') = puts'
         /\ puts \in Nat /\ puts' \in Nat /\ puts <= puts'
         /\ \A n \in 1..puts : contents'[n] = contents[n]
         /\ PutDocument(r) =>
              puts' = puts + 1 /\ contents'[puts + 1] \in Built(r)
<1>1. puts \in Nat /\ contents \in Seq(Bytes) /\ Len(contents) = puts
  BY DEF ServedInv, ServedTypes, AgeInv, CacheInv, TypeOK, HistoryTypes
<1>2. /\ Handle(r)
      /\ puts' = puts => contents' = contents
      /\ puts' # puts => \E document \in Built(r) :
                           contents' = Append(contents, document)
  BY DEF HandleStep
<1>3. puts' = IF PutDocument(r) THEN puts + 1 ELSE puts
  BY <1>2, HandlePuts DEF ServedInv, AgeInv, CacheInv
<1>4. CASE PutDocument(r)
  <2>1. puts' = puts + 1
    BY <1>3, <1>4
  <2>2. PICK document \in Built(r) : contents' = Append(contents, document)
    BY <1>1, <1>2, <2>1
  <2>3. document \in Bytes
    BY <1>4, BuiltFits
  <2> QED
    BY <1>1, <2>1, <2>2, <2>3
<1>5. CASE ~PutDocument(r)
  BY <1>1, <1>2, <1>3, <1>5
<1> QED
  BY <1>4, <1>5

\* A step of a call keeps the invariant.
LEMMA HandleServed ==
  ASSUME ServedInv, NEW r \in Request, HandleStep(r)
  PROVE  ServedInv'
<1>1. /\ Handle(r) /\ TypeOK /\ CallBound(r) /\ CallServed(r)
      /\ UNCHANGED <<header, counted, registered, named, shown, floor>>
      /\ UNCHANGED req
  BY HandleFrame DEF HandleStep, ServedInv, AgeInv, CacheInv
<1>2. AgeInv'
  BY <1>1, StepAge DEF ServedInv, Next
<1>3. ASSUME NEW entry, NEW k, EntryFits(entry, k) PROVE EntryFits(entry, k)'
  BY <1>1, <1>3, HandleContents, FitsKept
<1>4. ASSUME PutDocument(r), NEW d, d = NewDocument(r)
      PROVE  EntryFits(d, req[r].route)'
  <2>1. /\ puts \in Nat /\ puts' = puts + 1
        /\ contents'[puts + 1] \in Built(r)
    BY <1>4, HandleContents
  <2>2. BytesFit(contents'[puts + 1], req[r].route)
    BY <1>4, <2>1, BuiltFits
  <2>3. d.value.no = puts + 1
    BY <1>4 DEF NewDocument, NewEntry
  <2>4. d.value.no = puts + 1 /\ (puts + 1) \in 1..puts'
        /\ BytesFit(contents'[puts + 1], req[r].route)
    BY <2>1, <2>2, <2>3
  <2> QED
    BY <1>1, <2>4 DEF EntryFits, BytesFit, Registrable
<1>5. ServedTypes'
  <2>1. TTL(cfg[r], req[r].route) \in Nat
    BY <1>1, ConfigAssumption DEF TypeOK, LocalTypes, TTL
  <2>2. ttl' \in [Request -> Nat]
    BY <2>1 DEF HandleStep, ServedInv, ServedTypes
  <2> QED
    BY <1>1, <2>2, HandleContents DEF ServedInv, ServedTypes
<1>6. RecordsInv'
  BY <1>1 DEF ServedInv, RecordsInv, Registrable
<1>7. CachedFits'
  <2> SUFFICES ASSUME NEW e \in 0..MaxReconfigure, NEW k \in DocKey,
                      caches'[e][k] # None
               PROVE  EntryFits(caches[e][k], k)'
    BY DEF CachedFits
  <2>1. CASE caches'[e][k] = caches[e][k]
    <3>1. EntryFits(caches[e][k], k)
      BY <2>1 DEF ServedInv, CachedFits
    <3> QED
      BY <2>1, <3>1, <1>3 DEF EntryFits
  <2>2. CASE caches'[e][k] = NewDocument(r) /\ PutDocument(r)
             /\ k = req[r].route
    BY <1>1, <1>4, <2>2 DEF EntryFits
  <2> QED
    BY <1>1, <2>1, <2>2, HandleStores
<1>8. CallServed(r)'
  <2>1. pc'[r] = "store" /\ req[r].route = "usage" => named[r] # None
    BY <1>1, StoredAfterRendering DEF HandleStep
  <2>2. resp'[r].entry # None =>
          req[r].route \in DocKey /\ EntryFits(resp[r].entry, req[r].route)'
    <3> SUFFICES ASSUME resp'[r].entry # None
                 PROVE  /\ req[r].route \in DocKey
                        /\ EntryFits(resp[r].entry, req[r].route)'
      OBVIOUS
    <3>1. CASE PutDocument(r) /\ resp'[r].entry = NewDocument(r)
      BY <1>1, <1>4, <3>1, HandleAnswers DEF EntryFits
    <3>2. CASE \E e \in 0..MaxReconfigure :
                 /\ caches[e][req[r].route] # None
                 /\ resp'[r].entry = caches[e][req[r].route]
      <4>1. req[r].route \in DocKey
        BY <1>1, HandleAnswers
      <4>2. PICK e \in 0..MaxReconfigure :
              /\ caches[e][req[r].route] # None
              /\ resp'[r].entry = caches[e][req[r].route]
        BY <3>2
      <4>3. EntryFits(caches[e][req[r].route], req[r].route)
        BY <4>1, <4>2 DEF ServedInv, CachedFits
      <4> QED
        BY <1>1, <1>3, <4>1, <4>2, <4>3 DEF EntryFits
    <3> QED
      BY <1>1, <3>1, <3>2, HandleAnswers
  <2>3. shown'[r] = None
    BY <1>1, HandleWorks DEF CallServed, Working, Serving
  <2> QED
    BY <1>1, <2>1, <2>2, <2>3 DEF CallServed
<1>9. ASSUME NEW s \in Request, s # r PROVE CallServed(s)'
  <2>1. CallServed(s) /\ pc'[s] = pc[s] /\ resp'[s] = resp[s]
        /\ req'[s] = req[s] /\ ttl'[s] = ttl[s]
    BY <1>1, <1>9, OtherCalls DEF HandleStep, ServedInv, ServedTypes
  <2>2. resp[s].entry # None => EntryFits(resp[s].entry, req[s].route)
    BY <2>1 DEF CallServed
  <2>3. resp[s].entry # None => EntryFits(resp[s].entry, req[s].route)'
    BY <1>3, <2>1, <2>2 DEF EntryFits
  <2>4. resp[s].entry # None =>
          contents'[resp[s].entry.value.no] = contents[resp[s].entry.value.no]
    BY <1>1, <2>2, HandleContents, FitsKept
  <2>5. shown[s] # None => resp[s].entry # None /\ ShownFits(s)
    BY <2>1 DEF CallServed
  <2>6. shown[s] # None => ShownFits(s)'
    BY <1>1, <2>1, <2>4, <2>5 DEF ShownFits
  <2> QED
    BY <1>1, <2>1, <2>3, <2>6 DEF CallServed
<1> QED
  BY <1>2, <1>5, <1>6, <1>7, <1>8, <1>9 DEF ServedInv

\* So does the environment.
LEMMA OutsideServed ==
  ASSUME ServedInv, Outside
  PROVE  ServedInv'
<1>1. /\ Environment /\ TypeOK
      /\ UNCHANGED <<counted, registered, header, named, contents, ttl, shown,
                     floor>>
  BY DEF Outside, KeepRecords, Environment, ServedInv, AgeInv, CacheInv
<1>2. UNCHANGED <<pc, req, resp, puts>>
  BY DEF Outside, Reconfigure, RotateKeys, Tick, local, ghosts
<1>3. AgeInv'
  BY <1>1, StepAge DEF ServedInv, Next
<1>4. ServedTypes' /\ RecordsInv'
  BY <1>1, <1>2 DEF ServedInv, ServedTypes, RecordsInv, Registrable
<1>5. \A e \in 0..MaxReconfigure, k \in DocKey :
        caches'[e][k] \in {caches[e][k], None}
  BY <1>1, EnvironmentCaches
<1>6. CachedFits'
  BY <1>1, <1>2, <1>5
  DEF ServedInv, CachedFits, EntryFits, BytesFit, Registrable
<1>7. ASSUME NEW r \in Request PROVE CallServed(r)'
  BY <1>1, <1>2
  DEF ServedInv, CallServed, ShownFits, EntryFits, BytesFit, Registrable
<1> QED
  BY <1>3, <1>4, <1>6, <1>7 DEF ServedInv

LEMMA ServedStart == ServedInit => ServedInv
<1> SUFFICES ASSUME ServedInit PROVE ServedInv
  OBVIOUS
<1>1. AgeInv
  BY InitAge DEF ServedInit
<1>2. ServedTypes
  BY DEF ServedInit, Init, ServedTypes
<1>3. RecordsInv
  BY DEF ServedInit, RecordsInv
<1>4. CachedFits
  BY DEF ServedInit, Init, EmptyCache, CachedFits
<1>5. \A r \in Request :
        pc[r] = "idle" /\ resp[r].entry = None /\ shown[r] = None
  BY DEF ServedInit, Init, NoResponse
<1> QED
  BY <1>1, <1>2, <1>3, <1>4, <1>5 DEF ServedInv, CallServed

LEMMA ServedKeeps == ServedInv /\ [ServedNext]_<<vars, served>> => ServedInv'
<1> SUFFICES ASSUME ServedInv, [ServedNext]_<<vars, served>> PROVE ServedInv'
  OBVIOUS
<1>1. CASE \E n \in Record : CountRecord(n) \/ RegisterRecord(n)
  BY <1>1, RecordStep
<1>2. CASE \E r \in Request, c \in Call : ArriveWith(r, c)
  BY <1>2, ArriveStep
<1>3. CASE \E r \in Request : HandleStep(r)
  BY <1>3, HandleServed
<1>4. CASE \E r \in Request : ReadLastModel(r) \/ Shape(r)
  BY <1>4, ReadLastModelStep, ShapeStep
<1>5. CASE Outside
  BY <1>5, OutsideServed
<1>6. CASE UNCHANGED <<vars, served>>
  <2>1. AgeInv'
    BY <1>6, StepAge DEF ServedInv
  <2>2. ServedTypes' /\ RecordsInv' /\ CachedFits'
    BY <1>6 DEF ServedInv, ServedTypes, RecordsInv, CachedFits, EntryFits,
       BytesFit, Registrable, served, vars, shared, local, ghosts
  <2>3. ASSUME NEW r \in Request PROVE CallServed(r)'
    BY <1>6 DEF ServedInv, CallServed, ShownFits, EntryFits, BytesFit,
       Registrable, served, vars, shared, local, ghosts
  <2> QED
    BY <2>1, <2>2, <2>3 DEF ServedInv
<1> QED
  BY <1>1, <1>2, <1>3, <1>4, <1>5, <1>6 DEF ServedNext

-----------------------------------------------------------------------------
(* What the callers are shown *)

\* The cached bytes are the same for every caller, and each caller is shown
\* what its contract has: nothing beyond v1 below it; in v2 all the build put
\* into the document, with the caller's own hint and the rows there are.
THEOREM ShownAsAsked == ServedSpec => []ShapedForTheCaller
<1>1. ServedInv => ShapedForTheCaller
  <2> SUFFICES ASSUME ServedInv, NEW r \in Request, shown[r] # None
               PROVE  LET sections == DOMAIN shown[r]
                          bytes == contents[resp[r].entry.value.no]
                      IN
    IF ContractFrom(header[r]) = 1 THEN sections = {}
    ELSE /\ \A s \in DOMAIN bytes : s \in sections /\ shown[r][s] = bytes[s]
         /\ IF req[r].route = "usage"
              THEN /\ {"client", "cache"} \subseteq sections
                   /\ sections \ {"client", "cache"}
                        \subseteq {"lastModel", "models"}
                   /\ shown[r]["client"] = MaskKey[req[r].token]
                   /\ "models" \in sections => shown[r]["models"] # {}
              ELSE /\ "catalog" \in sections
                   /\ sections \subseteq DiscoverySection
    BY DEF ShapedForTheCaller
  <2>1. ShownFits(r)
    BY DEF ServedInv, CallServed
  <2> QED
    BY <2>1 DEF ShownFits, UsageFits, HasSections
<1> QED
  BY <1>1, ServedStart, ServedKeeps, PTL DEF ServedSpec

\* A credential's last model has a row in the counters shown beside it, unless
\* its record named no provider.
THEOREM LastModelIsListed == ServedSpec => []LastModelHasRow
<1>1. ServedInv => LastModelHasRow
  <2> SUFFICES ASSUME ServedInv, NEW r \in Request, shown[r] # None,
                      "lastModel" \in DOMAIN shown[r]
               PROVE  shown[r]["lastModel"] \in Rows(r) \cup Uncounted
    BY DEF LastModelHasRow
  <2>1. ShownFits(r)
    BY DEF ServedInv, CallServed
  <2> QED
    BY <2>1
    DEF ShownFits, UsageFits, Rows, RowsOf, DiscoverySection, OptionalSection
<1> QED
  BY <1>1, ServedStart, ServedKeeps, PTL DEF ServedSpec

\* Of two answers, one complete before the other was asked for, the later one
\* has every row of the earlier one.
THEOREM LaterHasEveryRow == ServedSpec => []RowsOnlyGrow
<1>1. ServedInv => RowsOnlyGrow
  <2> SUFFICES ASSUME ServedInv, NEW r \in Request, shown[r] # None,
                      "cache" \in DOMAIN shown[r]
               PROVE  floor[r] \subseteq Rows(r)
    BY DEF RowsOnlyGrow
  <2>1. ShownFits(r)
    BY DEF ServedInv, CallServed
  <2> QED
    BY <2>1
    DEF ShownFits, UsageFits, Rows, RowsOf, DiscoverySection, OptionalSection
<1> QED
  BY <1>1, ServedStart, ServedKeeps, PTL DEF ServedSpec

-----------------------------------------------------------------------------
(* The provenance a document claims *)

\* An entry lives as long as the configuration it was built under says.
Lifetime(past, entry, route) ==
  /\ entry.value.doc.builtUnder <= epoch
  /\ entry.expiresAt =
       entry.storedAt + TTL(past[entry.value.doc.builtUnder], route)

\* The configurations put in force so far, by epoch, explain what every call
\* works with and how long every entry lives.
CallHistory(past, r) ==
  /\ readEpoch[r] <= epoch
  /\ pc[r] \in Working \ {"received"} => cfg[r] = past[readEpoch[r]]
  /\ pc[r] \in {"render", "store"} => doc[r].builtUnder = readEpoch[r]
  /\ resp[r].entry # None =>
       /\ Lifetime(past, resp[r].entry, req[r].route)
       /\ ttl[r] = TTL(past[readEpoch[r]], req[r].route)

History(past) ==
  /\ past \in [0..MaxReconfigure -> Config]
  /\ past[epoch] = config
  /\ \A r \in Request : CallHistory(past, r)
  /\ \A e \in 0..MaxReconfigure, k \in DocKey :
       caches[e][k] # None => Lifetime(past, caches[e][k], k)

ProvenanceInv == ServedInv /\ \E past : History(past)

\* A step of a call changes what the call works with in three places: it reads
\* its configuration, it takes in what it read upstream, and it answers.
LEMMA HandleConfig ==
  ASSUME TypeOK, NEW r \in Request, CallBound(r), Handle(r)
  PROVE  /\ \/ /\ pc[r] \in Working \ {"received"}
               /\ cfg'[r] = cfg[r] \/ pc'[r] = "done"
               /\ readEpoch'[r] = readEpoch[r]
            \/ /\ cfg'[r] = config /\ readEpoch'[r] = epoch
               /\ pc'[r] = "keys" /\ resp'[r].entry = None
            \/ /\ pc'[r] = "done" /\ resp'[r].entry = None
               /\ readEpoch'[r] = readEpoch[r]
         /\ pc'[r] = "render" => doc'[r].builtUnder = readEpoch'[r]
<1> USE DEF TypeOK, LocalTypes, HistoryTypes, CallBound, Working, Serving,
            Reply, Answer, Go, LoadPointer, ghosts
<1>1. CASE ServePanel(r)
  BY <1>1 DEF ServePanel
<1>2. CASE RefuseInvalidConfig(r)
  BY <1>2 DEF RefuseInvalidConfig
<1>3. CASE ReadConfig(r)
  BY <1>3 DEF ReadConfig
<1>4. CASE KeysUnavailable(r)
  BY <1>4 DEF KeysUnavailable
<1>5. CASE Unauthorized(r)
  BY <1>5 DEF Unauthorized
<1>6. CASE NotFound(r)
  BY <1>6 DEF NotFound
<1>7. CASE Dispatch(r)
  BY <1>7 DEF Dispatch
<1>8. CASE Capabilities(r)
  BY <1>8 DEF Capabilities
<1>9. CASE StampRefresh(r)
  BY <1>9 DEF StampRefresh
<1>10. CASE PermitRefresh(r)
  BY <1>10 DEF PermitRefresh
<1>11. CASE RefuseRefresh(r)
  BY <1>11 DEF RefuseRefresh
<1>12. CASE DropEntry(r)
  BY <1>12 DEF DropEntry
<1>13. CASE ServeCached(r)
  BY <1>13 DEF ServeCached
<1>14. CASE StartBuild(r)
  BY <1>14 DEF StartBuild
<1>15. CASE BuildFails(r)
  BY <1>15 DEF BuildFails
<1>16. CASE ReadUpstream(r)
  BY <1>16 DEF ReadUpstream
<1>17. CASE StampStore(r)
  BY <1>17 DEF StampStore
<1>18. CASE PutDocument(r)
  BY <1>18 DEF PutDocument
<1> QED
  BY <1>1, <1>2, <1>3, <1>4, <1>5, <1>6, <1>7, <1>8, <1>9, <1>10, <1>11,
     <1>12, <1>13, <1>14, <1>15, <1>16, <1>17, <1>18 DEF Handle

\* A step of a call keeps the history: what it stores lives as long as the
\* configuration says that the call, and so its document, was built under.
LEMMA HandleHistory ==
  ASSUME ServedInv, NEW past, History(past), NEW r \in Request, HandleStep(r)
  PROVE  History(past)'
<1>1. /\ Handle(r) /\ TypeOK /\ CallBound(r) /\ CallHistory(past, r)
      /\ past \in [0..MaxReconfigure -> Config] /\ past[epoch] = config
      /\ UNCHANGED <<config, epoch, req>>
  BY HandleFrame DEF HandleStep, ServedInv, AgeInv, CacheInv, History
<1>2. ASSUME NEW entry, NEW k, Lifetime(past, entry, k)
      PROVE  Lifetime(past, entry, k)'
  BY <1>1, <1>2 DEF Lifetime
<1>3. ASSUME PutDocument(r), NEW entry, entry = NewDocument(r)
      PROVE  Lifetime(past, entry, req[r].route)'
  <2>1. /\ entry.value.doc = doc[r]
        /\ entry.expiresAt = entry.storedAt + TTL(cfg[r], req[r].route)
    BY <1>3 DEF NewDocument, NewEntry
  <2>2. /\ doc[r].builtUnder = readEpoch[r] /\ cfg[r] = past[readEpoch[r]]
        /\ readEpoch[r] <= epoch
    BY <1>1, <1>3 DEF CallHistory, PutDocument, Working, Serving
  <2> QED
    BY <1>1, <2>1, <2>2 DEF Lifetime
<1>4. \A e \in 0..MaxReconfigure, k \in DocKey :
        caches'[e][k] # None => Lifetime(past, caches[e][k], k)'
  <2> SUFFICES ASSUME NEW e \in 0..MaxReconfigure, NEW k \in DocKey,
                      caches'[e][k] # None
               PROVE  Lifetime(past, caches[e][k], k)'
    OBVIOUS
  <2>1. CASE caches'[e][k] = caches[e][k]
    <3>1. Lifetime(past, caches[e][k], k)
      BY <2>1 DEF History
    <3> QED
      BY <1>1, <2>1, <3>1 DEF Lifetime
  <2>2. CASE /\ PutDocument(r) /\ k = req[r].route
             /\ caches'[e][k] = NewDocument(r)
    BY <1>1, <1>3, <2>2 DEF Lifetime
  <2> QED
    BY <1>1, <2>1, <2>2, HandleStores
<1>5. CallHistory(past, r)'
  <2>1. epoch \in Nat /\ readEpoch[r] <= epoch
    BY <1>1, BoundAssumption DEF TypeOK, SharedTypes, CallHistory
  <2>2. readEpoch'[r] <= epoch
    BY <1>1, <2>1, HandleConfig
  <2>3. pc'[r] \in Working \ {"received"} => cfg'[r] = past[readEpoch'[r]]
    BY <1>1, HandleConfig DEF CallHistory, Working, Serving
  <2>4. pc'[r] \in {"render", "store"} => doc'[r].builtUnder = readEpoch'[r]
    BY <1>1, HandleConfig, StoredAfterRendering DEF CallHistory
  <2>5. ASSUME resp'[r].entry # None
        PROVE  /\ Lifetime(past, resp[r].entry, req[r].route)'
               /\ ttl'[r] = TTL(past[readEpoch'[r]], req[r].route)
    <3>1. Lifetime(past, resp[r].entry, req[r].route)'
      <4>1. CASE PutDocument(r) /\ resp'[r].entry = NewDocument(r)
        BY <1>1, <1>3, <4>1 DEF Lifetime
      <4>2. CASE \E e \in 0..MaxReconfigure :
                   /\ caches[e][req[r].route] # None
                   /\ resp'[r].entry = caches[e][req[r].route]
        <5>1. req[r].route \in DocKey
          BY <1>1, <2>5, HandleAnswers
        <5>2. PICK e \in 0..MaxReconfigure :
                /\ caches[e][req[r].route] # None
                /\ resp'[r].entry = caches[e][req[r].route]
          BY <4>2
        <5>3. Lifetime(past, caches[e][req[r].route], req[r].route)
          BY <5>1, <5>2 DEF History
        <5> QED
          BY <1>1, <5>2, <5>3 DEF Lifetime
      <4> QED
        BY <1>1, <2>5, <4>1, <4>2, HandleAnswers
    <3>2. ttl'[r] = TTL(cfg[r], req[r].route)
      BY <2>5 DEF HandleStep, ServedInv, ServedTypes
    <3>3. /\ pc[r] \in Working \ {"received"}
          /\ readEpoch'[r] = readEpoch[r]
      BY <1>1, <2>5, HandleConfig
    <3>4. cfg[r] = past[readEpoch[r]]
      BY <1>1, <3>3 DEF CallHistory
    <3> QED
      BY <3>1, <3>2, <3>3, <3>4
  <2>6. epoch' = epoch /\ req' = req
    BY <1>1
  <2>7. ttl'[r] = TTL(past[readEpoch'[r]], req[r].route)
          => ttl'[r] = TTL(past[readEpoch'[r]], req'[r].route)
    BY <2>6
  <2> QED
    BY <2>2, <2>3, <2>4, <2>5, <2>6, <2>7 DEF CallHistory, TTL
<1>6. ASSUME NEW s \in Request, s # r PROVE CallHistory(past, s)'
  <2>1. /\ CallHistory(past, s) /\ req'[s] = req[s] /\ ttl'[s] = ttl[s]
    BY <1>1, <1>6 DEF History, HandleStep, ServedInv, ServedTypes
  <2>2. /\ pc'[s] = pc[s] /\ cfg'[s] = cfg[s] /\ doc'[s] = doc[s]
        /\ resp'[s] = resp[s] /\ readEpoch'[s] = readEpoch[s]
    BY <1>1, <1>6, OtherCalls
  <2> QED
    BY <1>1, <2>1, <2>2 DEF CallHistory, Lifetime, TTL
<1> QED
  BY <1>1, <1>4, <1>5, <1>6 DEF History

\* A new configuration extends the history by one epoch.
LEMMA ReconfigureHistory ==
  ASSUME ServedInv, NEW past, History(past), NEW c \in Config, Reconfigure(c),
         UNCHANGED ttl
  PROVE  \E p : History(p)'
<1>7. PICK p : p = [past EXCEPT ![epoch + 1] = c]
  OBVIOUS
<1>1. /\ past \in [0..MaxReconfigure -> Config] /\ TypeOK
      /\ epoch \in Nat /\ epoch + 1 \in 0..MaxReconfigure
      /\ epoch' = epoch + 1 /\ config' = c
      /\ UNCHANGED <<pc, req, cfg, doc, resp, readEpoch, ttl>>
  BY BoundAssumption
  DEF History, ServedInv, AgeInv, CacheInv, TypeOK, SharedTypes, Reconfigure,
      local
<1>2. p \in [0..MaxReconfigure -> Config] /\ p[epoch + 1] = c
  BY <1>1, <1>7
<1>3. \A n \in Nat : n <= epoch => p[n] = past[n]
  BY <1>1, <1>7
<1>4. ASSUME NEW entry \in Entry, NEW k, Lifetime(past, entry, k)
      PROVE  Lifetime(p, entry, k)'
  <2>1. entry.value.doc.builtUnder \in Nat
    BY DEF Entry, Stored, Doc
  <2>2. p[entry.value.doc.builtUnder] = past[entry.value.doc.builtUnder]
    BY <1>3, <1>4, <2>1 DEF Lifetime
  <2> QED
    BY <1>1, <1>4, <2>1, <2>2 DEF Lifetime
<1>5. ASSUME NEW r \in Request PROVE CallHistory(p, r)'
  <2>1. /\ CallHistory(past, r) /\ readEpoch[r] \in Nat
        /\ resp[r].entry \in Entry \cup {None}
    BY <1>1
    DEF History, TypeOK, HistoryTypes, LocalTypes, Response
  <2>2. p[readEpoch[r]] = past[readEpoch[r]]
    BY <1>3, <2>1 DEF CallHistory
  <2>3. resp[r].entry # None => Lifetime(p, resp[r].entry, req[r].route)'
    <3>1. resp[r].entry # None =>
            Lifetime(past, resp[r].entry, req[r].route)
      BY <2>1 DEF CallHistory
    <3> QED
      BY <1>1, <1>4, <2>1, <3>1 DEF Lifetime
  <2> QED
    BY <1>1, <2>1, <2>2, <2>3 DEF CallHistory, TTL
<1>6. ASSUME NEW e \in 0..MaxReconfigure, NEW k \in DocKey,
             caches'[e][k] # None
      PROVE  Lifetime(p, caches[e][k], k)'
  <2>1. caches'[e][k] = caches[e][k]
    BY <1>6 DEF Reconfigure, EmptyCache, ServedInv, AgeInv, CacheInv, TypeOK,
       SharedTypes
  <2>2. caches[e] \in [DocKey -> Entry \cup {None}]
    BY <1>1 DEF TypeOK, SharedTypes
  <2>3. Lifetime(past, caches[e][k], k) /\ caches[e][k] \in Entry
    BY <1>6, <2>1, <2>2 DEF History
  <2> QED
    BY <1>1, <1>4, <2>1, <2>3 DEF Lifetime
<1> QED
  BY <1>1, <1>2, <1>5, <1>6 DEF History

\* A step that changes neither the calls nor the caches, and not the
\* configuration, keeps the history.
LEMMA QuietHistory ==
  ASSUME NEW past, History(past),
         UNCHANGED <<config, epoch, caches, pc, req, cfg, doc, resp, readEpoch,
                     ttl>>
  PROVE  History(past)'
BY DEF History, CallHistory, Lifetime, TTL

\* A call that arrives has read no configuration.
LEMMA ArriveHistory ==
  ASSUME ServedInv, NEW past, History(past), NEW r \in Request, NEW c \in Call,
         ArriveWith(r, c)
  PROVE  History(past)'
<1>1. /\ UNCHANGED <<config, epoch, caches, cfg, doc, ttl>>
      /\ TypeOK /\ epoch \in Nat
  BY BoundAssumption
  DEF ArriveWith, Arrive, shared, ServedInv, AgeInv, CacheInv, TypeOK,
      SharedTypes
<1>2. /\ pc'[r] = "received" /\ resp'[r].entry = None /\ readEpoch'[r] = 0
      /\ \A s \in Request : s # r =>
           /\ pc'[s] = pc[s] /\ req'[s] = req[s] /\ resp'[s] = resp[s]
           /\ readEpoch'[s] = readEpoch[s]
  BY <1>1
  DEF ArriveWith, Arrive, Go, NoResponse, TypeOK, LocalTypes, HistoryTypes
<1>3. CallHistory(past, r)'
  BY <1>1, <1>2 DEF CallHistory
<1>4. ASSUME NEW s \in Request, s # r PROVE CallHistory(past, s)'
  <2>1. CallHistory(past, s)
    BY DEF History
  <2>2. /\ pc'[s] = pc[s] /\ req'[s] = req[s] /\ resp'[s] = resp[s]
        /\ readEpoch'[s] = readEpoch[s]
    BY <1>2, <1>4
  <2> QED
    BY <1>1, <2>1, <2>2 DEF CallHistory, Lifetime, TTL
<1> QED
  BY <1>1, <1>3, <1>4 DEF History, Lifetime

\* Initially only the default configuration has been in force.
LEMMA ProvenanceStart == ServedInit => ProvenanceInv
<1> SUFFICES ASSUME ServedInit PROVE ProvenanceInv
  OBVIOUS
<1> DEFINE past == [n \in 0..MaxReconfigure |-> DefaultConfig]
<1>1. /\ past \in [0..MaxReconfigure -> Config] /\ past[0] = DefaultConfig
  BY ConfigAssumption, BoundAssumption
<1>2. /\ epoch = 0 /\ config = DefaultConfig
      /\ \A r \in Request :
           pc[r] = "idle" /\ resp[r].entry = None /\ readEpoch[r] = 0
      /\ \A e \in 0..MaxReconfigure, k \in DocKey : caches[e][k] = None
  BY DEF ServedInit, Init, EmptyCache, NoResponse
<1> HIDE DEF past
<1>3. History(past)
  BY <1>1, <1>2 DEF History, CallHistory, Working, Serving
<1> QED
  BY <1>3, ServedStart DEF ProvenanceInv

LEMMA ProvenanceKept ==
  ProvenanceInv /\ [ServedNext]_<<vars, served>> => ProvenanceInv'
<1> SUFFICES ASSUME ProvenanceInv, [ServedNext]_<<vars, served>>
             PROVE  ProvenanceInv'
  OBVIOUS
<1>1. ServedInv /\ ServedInv'
  BY ServedKeeps DEF ProvenanceInv
<1>2. PICK past : History(past)
  BY DEF ProvenanceInv
<1>9. ASSUME UNCHANGED <<config, epoch, caches, pc, req, cfg, doc, resp,
                         readEpoch, ttl>>
      PROVE  ProvenanceInv'
  <2>1. History(past)'
    BY <1>2, <1>9, QuietHistory
  <2> QED
    BY <1>1, <2>1 DEF ProvenanceInv
<1>10. ASSUME UNCHANGED <<vars, ttl>> PROVE ProvenanceInv'
  BY <1>9, <1>10 DEF vars, shared, local, ghosts
<1>3. CASE \E n \in Record : CountRecord(n) \/ RegisterRecord(n)
  BY <1>3, <1>10 DEF CountRecord, RegisterRecord
<1>4. CASE \E r \in Request, c \in Call : ArriveWith(r, c)
  BY <1>1, <1>2, <1>4, ArriveHistory DEF ProvenanceInv
<1>5. CASE \E r \in Request : HandleStep(r)
  BY <1>1, <1>2, <1>5, HandleHistory DEF ProvenanceInv
<1>6. CASE \E r \in Request : ReadLastModel(r) \/ Shape(r)
  BY <1>6, <1>10 DEF ReadLastModel, Shape
<1>7. CASE Outside
  <2>1. UNCHANGED ttl
    BY <1>7 DEF Outside
  <2>2. CASE \E c \in Config : Reconfigure(c)
    BY <1>1, <1>2, <2>1, <2>2, ReconfigureHistory DEF ProvenanceInv
  <2>3. CASE (\E keys \in ProxyKeyLists : RotateKeys(keys)) \/ Tick
    BY <1>9, <2>1, <2>3 DEF RotateKeys, Tick, local, ghosts
  <2> QED
    BY <1>7, <2>2, <2>3 DEF Outside
<1>8. CASE UNCHANGED <<vars, served>>
  BY <1>8, <1>10 DEF served
<1> QED
  BY <1>3, <1>4, <1>5, <1>6, <1>7, <1>8 DEF ServedNext

\* A usage document that names its time and its lifetime names them truthfully:
\* it was served within that lifetime of being stored, unless another
\* configuration built it, and what it says was read within one build of it.
THEOREM ProvenanceHolds == ServedSpec => []ProvenanceIsHonest
<1>1. ProvenanceInv => ProvenanceIsHonest
  <2> SUFFICES ASSUME ProvenanceInv, NEW r \in Request, shown[r] # None,
                      "cache" \in DOMAIN shown[r],
                      resp[r].entry.value.doc.builtUnder = readEpoch[r]
               PROVE  LET cache == shown[r]["cache"]
                          built == resp[r].entry.value.doc
                      IN /\ resp[r].at - cache.updatedAt <= cache.ttl
                         /\ cache.updatedAt - built.readAt \in 0..BuildDeadline
    BY DEF ProvenanceIsHonest
  <2> DEFINE entry == resp[r].entry
  <2>1. CallServed(r) /\ CallAge(r) /\ TypeOK
    BY DEF ProvenanceInv, ServedInv, AgeInv, CacheInv
  <2>2. entry # None /\ ShownFits(r)
    BY <2>1 DEF CallServed
  <2>3. shown[r]["cache"] = [updatedAt |-> entry.storedAt, ttl |-> ttl[r]]
    BY <2>2 DEF ShownFits, UsageFits, DiscoverySection, OptionalSection
  <2>4. resp[r].at \in Nat /\ entry \in Entry
    BY <2>1, <2>2 DEF TypeOK, LocalTypes, Response
  <2>5. /\ entry.storedAt \in Nat /\ entry.expiresAt \in Nat
        /\ entry.value.doc.readAt \in Nat
    BY <2>4 DEF Entry, Stored, Doc
  <2>6. EntryAge(entry) /\ resp[r].at <= entry.expiresAt
    BY <2>1, <2>2 DEF CallAge
  <2>7. PICK past : CallHistory(past, r)
    BY DEF ProvenanceInv, History
  <2>8. entry.expiresAt = entry.storedAt + ttl[r]
    BY <2>2, <2>7 DEF CallHistory, Lifetime
  <2>9. ttl[r] \in Nat /\ BuildDeadline \in Nat
    BY BoundAssumption DEF ProvenanceInv, ServedInv, ServedTypes
  <2> HIDE DEF entry
  <2>10. /\ resp[r].at - entry.storedAt <= ttl[r]
         /\ entry.storedAt - entry.value.doc.readAt \in 0..BuildDeadline
    BY <2>4, <2>5, <2>6, <2>8, <2>9 DEF EntryAge
  <2> QED
    BY <2>3, <2>10 DEF entry
<1> QED
  BY <1>1, ProvenanceStart, ProvenanceKept, PTL DEF ServedSpec
=============================================================================
