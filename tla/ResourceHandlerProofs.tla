----------------------- MODULE ResourceHandlerProofs -----------------------
(***************************************************************************)
(* Proofs about ResourceHandler, for every set of calls, keys and          *)
(* configurations and every bound.                                         *)
(***************************************************************************)
EXTENDS ResourceHandler, TLAPS

-----------------------------------------------------------------------------
(* Types *)

\* Whatever cache the pointer named, it is one of those that may exist.
LEMMA LoadedCaches ==
  ASSUME TypeOK, NEW r \in Request
  PROVE  Loaded(r) \subseteq 0..MaxReconfigure
BY BoundAssumption DEF Loaded, TypeOK, SharedTypes, LocalTypes

\* An answer leaves every local variable well typed, and its call done.
LEMMA AnswerTypes ==
  ASSUME TypeOK, NEW r \in Request, NEW status \in Status,
         NEW entry \in Entry \cup {None}, NEW t \in Nat,
         Answer(r, status, entry, t)
  PROVE  LocalTypes' /\ CallShape' /\ arrivals' = arrivals
<1>1. [status |-> status, entry |-> entry, at |-> t] \in Response
  BY DEF Response
<1>2. 0 \in 0..MaxReconfigure /\ DefaultConfig \in Config
  BY BoundAssumption, ConfigAssumption
<1>3. LocalTypes'
  BY <1>1, <1>2 DEF Answer, Go, TypeOK, LocalTypes
<1>4. CallShape'
  BY DEF Answer, Go, TypeOK, LocalTypes, CallShape, Serving
<1> QED
  BY <1>3, <1>4 DEF Answer

\* An answer that changes nothing else keeps the types.
LEMMA AnswerKeepsTypes ==
  ASSUME TypeOK, NEW r \in Request, NEW status \in Status,
         NEW entry \in Entry \cup {None}, NEW t \in Nat,
         Answer(r, status, entry, t), UNCHANGED <<shared, ghosts>>
  PROVE  TypeOK'
BY AnswerTypes DEF TypeOK, SharedTypes, HistoryTypes, shared, ghosts

\* In particular a reply without a document.
LEMMA ReplyTypes ==
  ASSUME TypeOK, NEW r \in Request, NEW status \in Status, Reply(r, status)
  PROVE  TypeOK'
BY AnswerKeepsTypes DEF Reply, Status

\* Every step of a call keeps the types.
LEMMA HandleTypes ==
  ASSUME TypeOK, NEW r \in Request, Handle(r)
  PROVE  TypeOK'
<1> USE DEF Go, LoadPointer, shared, ghosts
<1>1. CASE ServePanel(r)
  BY <1>1, ReplyTypes DEF ServePanel, Status
<1>2. CASE RefuseInvalidConfig(r)
  BY <1>2, ReplyTypes DEF RefuseInvalidConfig, Status
<1>3. CASE ReadConfig(r)
  <2>1. SharedTypes'
    BY <1>3 DEF ReadConfig, TypeOK, SharedTypes
  <2>2. LocalTypes'
    BY <1>3 DEF ReadConfig, TypeOK, SharedTypes, LocalTypes, Working, Serving
  <2>3. HistoryTypes'
    BY <1>3 DEF ReadConfig, TypeOK, SharedTypes, HistoryTypes
  <2>4. CallShape'
    BY <1>3 DEF ReadConfig, TypeOK, SharedTypes, LocalTypes, Working, Serving, CallShape
  <2> QED
    BY <2>1, <2>2, <2>3, <2>4 DEF TypeOK
<1>4. CASE KeysUnavailable(r)
  BY <1>4, ReplyTypes DEF KeysUnavailable, Status
<1>5. CASE Unauthorized(r)
  BY <1>5, ReplyTypes DEF Unauthorized, Status
<1>6. CASE NotFound(r)
  BY <1>6, ReplyTypes DEF NotFound, Status
<1>7. CASE Dispatch(r)
  <2>1. SharedTypes'
    BY <1>7 DEF Dispatch, TypeOK, SharedTypes
  <2>2. req[r].token \in Key
    BY <1>7 DEF Dispatch, TypeOK, LocalTypes, Authenticated
  <2>3. PICK where \in {"capabilities", "stamp", "invalidate", "lookup"} :
          /\ pc' = [pc EXCEPT ![r] = where]
          /\ where # "capabilities" => req[r].route \in DocKey
    BY <1>7 DEF Dispatch, DocKey
  <2>4. UNCHANGED <<req, cfg, stamp, began, doc, resp>>
    BY <1>7 DEF Dispatch
  <2>5. ptr' \in [Request -> 0..MaxReconfigure]
    BY <1>7 DEF Dispatch, TypeOK, SharedTypes, LocalTypes
  <2>6. LocalTypes'
    BY <2>3, <2>4, <2>5 DEF TypeOK, LocalTypes, Working, Serving
  <2>7. HistoryTypes'
    BY <1>7 DEF Dispatch, TypeOK, SharedTypes, HistoryTypes
  <2>8. CallShape'
    BY <2>2, <2>3, <2>4 DEF TypeOK, LocalTypes, CallShape, Serving
  <2> QED
    BY <2>1, <2>6, <2>7, <2>8 DEF TypeOK
<1>8. CASE Capabilities(r)
  BY <1>8, ReplyTypes DEF Capabilities, Status
<1>9. CASE StampRefresh(r)
  <2>1. SharedTypes'
    BY <1>9 DEF StampRefresh, TypeOK, SharedTypes
  <2>2. LocalTypes'
    BY <1>9 DEF StampRefresh, TypeOK, SharedTypes, LocalTypes, Working, Serving
  <2>3. HistoryTypes'
    BY <1>9 DEF StampRefresh, TypeOK, SharedTypes, HistoryTypes
  <2>4. CallShape'
    BY <1>9 DEF StampRefresh, TypeOK, SharedTypes, LocalTypes, Working, Serving, CallShape
  <2> QED
    BY <2>1, <2>2, <2>3, <2>4 DEF TypeOK
<1>10. CASE PermitRefresh(r)
  <2> DEFINE h == MaskKey[req[r].token]
  <2>1. h \in Hint
    BY <1>10, MaskAssumption DEF PermitRefresh, TypeOK, CallShape, Serving
  <2>2. stamp[r] \in Nat
    BY DEF TypeOK, LocalTypes
  <2>3. /\ last' = [last EXCEPT ![h] = stamp[r]]
        /\ grants' = [grants EXCEPT ![h] = grants[h] + 1]
    BY <1>10 DEF PermitRefresh, RecordPermit
  <2> HIDE DEF h
  <2>4. last' \in [Hint -> Nat \cup {None}]
    BY <2>2, <2>3 DEF TypeOK, SharedTypes
  <2>9. grants[h] + 1 \in Nat
    BY <2>1 DEF TypeOK, HistoryTypes
  <2> DEFINE n == grants[h] + 1
  <2> HIDE DEF n
  <2>11. grants' = [grants EXCEPT ![h] = n] /\ n \in Nat
    BY <2>3, <2>9 DEF n
  <2>10. grants' \in [Hint -> Nat]
    BY <2>11 DEF TypeOK, HistoryTypes
  <2>5. SharedTypes'
    BY <1>10, <2>4 DEF PermitRefresh, TypeOK, SharedTypes
  <2>6. LocalTypes'
    BY <1>10 DEF PermitRefresh, TypeOK, SharedTypes, LocalTypes, Working,
                 Serving
  <2>7. HistoryTypes'
    BY <1>10, <2>10 DEF PermitRefresh, TypeOK, HistoryTypes
  <2>8. CallShape'
    BY <1>10 DEF PermitRefresh, TypeOK, LocalTypes, Serving, CallShape
  <2> QED
    BY <2>5, <2>6, <2>7, <2>8 DEF TypeOK
<1>11. CASE RefuseRefresh(r)
  <2>1. SharedTypes'
    BY <1>11 DEF RefuseRefresh, TypeOK, SharedTypes
  <2>2. LocalTypes'
    BY <1>11 DEF RefuseRefresh, TypeOK, SharedTypes, LocalTypes, Working, Serving
  <2>3. HistoryTypes'
    BY <1>11 DEF RefuseRefresh, TypeOK, SharedTypes, HistoryTypes
  <2>4. CallShape'
    BY <1>11 DEF RefuseRefresh, TypeOK, SharedTypes, LocalTypes, Working, Serving, CallShape
  <2> QED
    BY <2>1, <2>2, <2>3, <2>4 DEF TypeOK
<1>12. CASE DropEntry(r)
  <2>1. PICK e \in Loaded(r) :
          caches' = [caches EXCEPT ![e] = Invalidate(@, req[r].route)]
    BY <1>12 DEF DropEntry
  <2>2. e \in 0..MaxReconfigure
    BY LoadedCaches
  <2>3. caches[e] \in [DocKey -> Entry \cup {None}]
    BY <2>2 DEF TypeOK, SharedTypes
  <2>4. Invalidate(caches[e], req[r].route) \in [DocKey -> Entry \cup {None}]
    BY <2>3 DEF Invalidate
  <2>5. caches' \in [0..MaxReconfigure -> [DocKey -> Entry \cup {None}]]
    BY <2>1, <2>2, <2>4 DEF TypeOK, SharedTypes
  <2>6. SharedTypes'
    BY <1>12, <2>5 DEF DropEntry, TypeOK, SharedTypes
  <2>7. LocalTypes'
    BY <1>12 DEF DropEntry, TypeOK, SharedTypes, LocalTypes, Working, Serving
  <2>8. HistoryTypes'
    BY <1>12 DEF DropEntry, TypeOK, HistoryTypes
  <2>9. CallShape'
    BY <1>12 DEF DropEntry, TypeOK, LocalTypes, Serving, CallShape
  <2> QED
    BY <2>6, <2>7, <2>8, <2>9 DEF TypeOK
<1>13. CASE ServeCached(r)
  <2>1. PICK e \in Loaded(r) :
          Answer(r, 200, caches[e][req[r].route], now)
    BY <1>13 DEF ServeCached
  <2>2. e \in 0..MaxReconfigure
    BY LoadedCaches
  <2>6. req[r].route \in DocKey
    BY <1>13 DEF ServeCached, TypeOK, CallShape, Serving
  <2>7. caches[e] \in [DocKey -> Entry \cup {None}]
    BY <2>2 DEF TypeOK, SharedTypes
  <2>3. caches[e][req[r].route] \in Entry \cup {None}
    BY <2>6, <2>7
  <2>4. now \in Nat /\ 200 \in Status
    BY DEF TypeOK, SharedTypes, Status
  <2>5. UNCHANGED <<shared, ghosts>>
    BY <1>13 DEF ServeCached
  <2> QED
    BY <2>1, <2>3, <2>4, <2>5, AnswerKeepsTypes
<1>14. CASE StartBuild(r)
  <2>1. SharedTypes'
    BY <1>14 DEF StartBuild, TypeOK, SharedTypes
  <2>2. LocalTypes'
    BY <1>14 DEF StartBuild, TypeOK, SharedTypes, LocalTypes, Working, Serving
  <2>3. HistoryTypes'
    BY <1>14 DEF StartBuild, TypeOK, SharedTypes, HistoryTypes
  <2>4. CallShape'
    BY <1>14 DEF StartBuild, TypeOK, SharedTypes, LocalTypes, Working, Serving, CallShape
  <2> QED
    BY <2>1, <2>2, <2>3, <2>4 DEF TypeOK
<1>15. CASE BuildFails(r)
  BY <1>15, ReplyTypes DEF BuildFails, Status
<1>16. CASE ReadUpstream(r)
  <2>1. SharedTypes'
    BY <1>16 DEF ReadUpstream, TypeOK, SharedTypes
  <2>2. [builtUnder |-> readEpoch[r], readAt |-> now] \in Doc
    BY DEF TypeOK, SharedTypes, HistoryTypes, Doc
  <2>3. LocalTypes'
    BY <1>16, <2>2 DEF ReadUpstream, TypeOK, SharedTypes, LocalTypes, Working,
                       Serving
  <2>4. HistoryTypes'
    BY <1>16 DEF ReadUpstream, TypeOK, HistoryTypes
  <2>5. CallShape'
    BY <1>16, <2>2 DEF ReadUpstream, TypeOK, LocalTypes, CallShape, Serving
  <2> QED
    BY <2>1, <2>3, <2>4, <2>5 DEF TypeOK
<1>17. CASE StampStore(r)
  <2>1. SharedTypes'
    BY <1>17 DEF StampStore, TypeOK, SharedTypes, Loaded
  <2>2. LocalTypes'
    BY <1>17, LoadedCaches
    DEF StampStore, TypeOK, SharedTypes, LocalTypes, Working,
                 Serving
  <2>3. HistoryTypes'
    BY <1>17 DEF StampStore, TypeOK, SharedTypes, HistoryTypes, Loaded
  <2>4. CallShape'
    BY <1>17, LoadedCaches
    DEF StampStore, TypeOK, SharedTypes, LocalTypes, Working, Serving, CallShape, Loaded
  <2> QED
    BY <2>1, <2>2, <2>3, <2>4 DEF TypeOK
<1>18. CASE PutDocument(r)
  <2> DEFINE value == [doc |-> doc[r], no |-> puts + 1, heldIn |-> epoch]
             entry == NewEntry(value, stamp[r], TTL(cfg[r], req[r].route))
             e == ptr[r]
  <2>1. value \in Stored
    BY <1>18 DEF PutDocument, TypeOK, SharedTypes, HistoryTypes, CallShape,
                 Stored
  <2>2. TTL(cfg[r], req[r].route) \in Nat
    BY ConfigAssumption DEF TypeOK, LocalTypes, TTL
  <2>3. stamp[r] \in Nat /\ e \in 0..MaxReconfigure
    BY DEF TypeOK, LocalTypes
  <2>4. entry \in Entry
    BY <2>1, <2>2, <2>3 DEF Entry, NewEntry
  <2>5. /\ caches' = [caches EXCEPT ![e] = Store(@, req[r].route, entry)]
        /\ Answer(r, 200, entry, stamp[r])
    BY <1>18 DEF PutDocument
  <2>6. caches[e] \in [DocKey -> Entry \cup {None}]
    BY <2>3 DEF TypeOK, SharedTypes
  <2> HIDE DEF entry, e
  <2>7. Store(caches[e], req[r].route, entry)
          \in [DocKey -> Entry \cup {None}]
    BY <2>4, <2>6 DEF Store
  <2>8. caches' \in [0..MaxReconfigure -> [DocKey -> Entry \cup {None}]]
    BY <2>3, <2>5, <2>7 DEF TypeOK, SharedTypes
  <2>9. SharedTypes'
    BY <1>18, <2>8 DEF PutDocument, TypeOK, SharedTypes
  <2>10. 200 \in Status
    BY DEF Status
  <2>11. LocalTypes' /\ CallShape' /\ arrivals' = arrivals
    BY <2>3, <2>4, <2>5, <2>10, AnswerTypes
  <2>12. HistoryTypes'
    BY <1>18, <2>11 DEF PutDocument, TypeOK, HistoryTypes
  <2> QED
    BY <2>9, <2>11, <2>12 DEF TypeOK
<1> QED
  BY <1>1, <1>2, <1>3, <1>4, <1>5, <1>6, <1>7, <1>8, <1>9, <1>10, <1>11, <1>12, <1>13, <1>14, <1>15, <1>16, <1>17, <1>18 DEF Handle

\* Everything else that can happen keeps the types too.
LEMMA EnvironmentTypes ==
  ASSUME TypeOK, Environment
  PROVE  TypeOK'
<1>1. CASE \E r \in Request, q \in ClientRequest : Arrive(r, q)
  <2>1. PICK r \in Request, q \in ClientRequest : Arrive(r, q)
    BY <1>1
  <2>2. q \in [route : Route, token : Key \cup {None}, refresh : BOOLEAN]
    BY EnvironmentAssumption
  <2>3. SharedTypes'
    BY <2>1 DEF Arrive, TypeOK, SharedTypes, shared
  <2>4. NoResponse \in Response
    BY DEF NoResponse, Response, Status
  <2>5. LocalTypes'
    BY <2>1, <2>2, <2>4 DEF Arrive, Go, TypeOK, LocalTypes, Working
  <2>6. (q.token \in proxyKeys) \in BOOLEAN
        /\ Accepts(configErr, config, q.token) \in BOOLEAN
    BY DEF Accepts
  <2>7. HistoryTypes'
    BY <2>1, <2>6 DEF Arrive, TypeOK, HistoryTypes
  <2>8. CallShape'
    BY <2>1 DEF Arrive, Go, TypeOK, LocalTypes, CallShape, Serving
  <2> QED
    BY <2>3, <2>5, <2>7, <2>8 DEF TypeOK
<1>2. CASE \E c \in Config : Reconfigure(c)
  <2>1. PICK c \in Config : Reconfigure(c)
    BY <1>2
  <2>2. epoch + 1 \in 0..MaxReconfigure
    BY <2>1, BoundAssumption DEF Reconfigure, TypeOK, SharedTypes
  <2>3. EmptyCache(DocKey) \in [DocKey -> Entry \cup {None}]
    BY DEF EmptyCache
  <2>4. SharedTypes'
    BY <2>1, <2>2, <2>3 DEF Reconfigure, TypeOK, SharedTypes
  <2>5. LocalTypes' /\ CallShape'
    BY <2>1 DEF Reconfigure, TypeOK, LocalTypes, CallShape, local
  <2>6. HistoryTypes'
    BY <2>1 DEF Reconfigure, TypeOK, HistoryTypes
  <2> QED
    BY <2>4, <2>5, <2>6 DEF TypeOK
<1>3. CASE RejectConfig
  BY <1>3, ConfigAssumption DEF RejectConfig, TypeOK, SharedTypes,
     LocalTypes, HistoryTypes, CallShape, local, ghosts
<1>4. CASE \E keys \in ProxyKeyLists : RotateKeys(keys)
  BY <1>4, EnvironmentAssumption DEF RotateKeys, TypeOK, SharedTypes,
     LocalTypes, HistoryTypes, CallShape, local
<1>5. CASE Tick
  BY <1>5 DEF Tick, TypeOK, SharedTypes, LocalTypes, HistoryTypes, CallShape,
     local, ghosts
<1> QED
  BY <1>1, <1>2, <1>3, <1>4, <1>5 DEF Environment

\* The initial states are well typed.
LEMMA InitTypes == Init => TypeOK
<1> SUFFICES ASSUME Init PROVE TypeOK
  OBVIOUS
<1>1. SharedTypes
  <2>1. EmptyCache(DocKey) \in [DocKey -> Entry \cup {None}]
    BY DEF EmptyCache
  <2>2. caches \in [0..MaxReconfigure -> [DocKey -> Entry \cup {None}]]
    BY <2>1 DEF Init
  <2>3. now \in Nat /\ epoch \in 0..MaxReconfigure
    BY BoundAssumption DEF Init
  <2>4. config \in Config /\ configErr \in BOOLEAN
    BY ConfigAssumption DEF Init
  <2>5. last \in [Hint -> Nat \cup {None}]
    BY DEF Init
  <2>6. proxyKeys \in SUBSET Key
    BY EnvironmentAssumption DEF Init
  <2> QED
    BY <2>2, <2>3, <2>4, <2>5, <2>6 DEF SharedTypes
<1>2. LocalTypes
  BY BoundAssumption, ConfigAssumption
  DEF Init, LocalTypes, Working, Serving, Idle, Route, NoResponse, Response,
      Status
<1>3. HistoryTypes
  BY DEF Init, HistoryTypes
<1>4. CallShape
  BY DEF Init, CallShape, Serving
<1> QED
  BY <1>1, <1>2, <1>3, <1>4 DEF TypeOK

\* TypeOK is inductive.
LEMMA StepTypes == TypeOK /\ [Next]_vars => TypeOK'
<1> SUFFICES ASSUME TypeOK, [Next]_vars PROVE TypeOK'
  OBVIOUS
<1>1. CASE \E r \in Request : Handle(r)
  BY <1>1, HandleTypes
<1>2. CASE Environment
  BY <1>2, EnvironmentTypes
<1>3. CASE UNCHANGED vars
  BY <1>3 DEF vars, shared, local, ghosts, TypeOK, SharedTypes, LocalTypes,
     HistoryTypes, CallShape
<1> QED
  BY <1>1, <1>2, <1>3 DEF Next

\* Every variable keeps its type, a document being built is one, and only a
\* call with a key and a document route gets to the handlers of documents.
THEOREM TypesHold == Spec => []TypeOK
BY InitTypes, StepTypes, PTL DEF Spec

-----------------------------------------------------------------------------
(* What a step of one call leaves alone *)

\* It changes neither the clock nor the configuration, the keys or what is
\* asked.
LEMMA HandleFrame ==
  ASSUME NEW r \in Request, Handle(r)
  PROVE  UNCHANGED <<now, config, configErr, epoch, proxyKeys, req, arrivals,
                     sawKey, sawConfig>>
BY DEF Handle,
     ServePanel, RefuseInvalidConfig, ReadConfig, KeysUnavailable,
     Unauthorized, NotFound, Dispatch, Capabilities, StampRefresh,
     PermitRefresh, RefuseRefresh, DropEntry, ServeCached, StartBuild,
     BuildFails, ReadUpstream, StampStore, PutDocument, Reply, Answer, Go,
     LoadPointer, shared, ghosts

\* It leaves every other call where it was.
LEMMA OtherCalls ==
  ASSUME TypeOK, NEW r \in Request, NEW s \in Request, s # r, Handle(r)
  PROVE  /\ pc'[s] = pc[s] /\ cfg'[s] = cfg[s] /\ ptr'[s] = ptr[s]
         /\ stamp'[s] = stamp[s] /\ began'[s] = began[s]
         /\ doc'[s] = doc[s] /\ resp'[s] = resp[s]
         /\ readEpoch'[s] = readEpoch[s] /\ grant'[s] = grant[s]
<1> USE DEF TypeOK, LocalTypes, HistoryTypes, Reply, Answer, Go, LoadPointer,
            shared, ghosts
<1>1. CASE ServePanel(r)
  BY <1>1 DEF ServePanel
<1>2. CASE RefuseInvalidConfig(r)
  BY <1>2 DEF RefuseInvalidConfig
<1>3. CASE ReadConfig(r)
  BY <1>3 DEF ReadConfig
<1>4. CASE KeysUnavailable(r)
  BY <1>4 DEF KeysUnavailable
<1>5. CASE Unauthorized(r)
  BY <1>5 DEF Unauthorized
<1>6. CASE NotFound(r)
  BY <1>6 DEF NotFound
<1>7. CASE Dispatch(r)
  BY <1>7 DEF Dispatch
<1>8. CASE Capabilities(r)
  BY <1>8 DEF Capabilities
<1>9. CASE StampRefresh(r)
  BY <1>9 DEF StampRefresh
<1>10. CASE PermitRefresh(r)
  BY <1>10 DEF PermitRefresh
<1>11. CASE RefuseRefresh(r)
  BY <1>11 DEF RefuseRefresh
<1>12. CASE DropEntry(r)
  BY <1>12 DEF DropEntry
<1>13. CASE ServeCached(r)
  BY <1>13 DEF ServeCached
<1>14. CASE StartBuild(r)
  BY <1>14 DEF StartBuild
<1>15. CASE BuildFails(r)
  BY <1>15 DEF BuildFails
<1>16. CASE ReadUpstream(r)
  BY <1>16 DEF ReadUpstream
<1>17. CASE StampStore(r)
  BY <1>17 DEF StampStore
<1>18. CASE PutDocument(r)
  BY <1>18 DEF PutDocument
<1> QED
  BY <1>1, <1>2, <1>3, <1>4, <1>5, <1>6, <1>7, <1>8, <1>9, <1>10, <1>11,
  <1>12, <1>13, <1>14, <1>15, <1>16, <1>17, <1>18
  DEF Handle

-----------------------------------------------------------------------------
(* Authorization *)

\* What one call has established so far was true at some moment of it.
CallAuthorized(r) ==
  /\ pc[r] \in Working /\ req[r].token \in proxyKeys => sawKey[r]
  /\ pc[r] \in Working /\ Accepts(configErr, config, req[r].token)
       => sawConfig[r]
  /\ pc[r] = "keys" /\ req[r].token # None /\ Admits(cfg[r], req[r].token)
       => sawConfig[r]
  /\ pc[r] \in Serving \cup {"capabilities"} => sawKey[r] /\ sawConfig[r]
  /\ pc[r] \in Working => resp[r].status = 0
  /\ pc[r] \in Working \ {"received"} => req[r].route # "panel"
  /\ resp[r].status \in {200, 404, 502} /\ req[r].route # "panel"
       => sawKey[r] /\ sawConfig[r]

\* A step of the call itself keeps what is known of its authorization.
LEMMA HandleAuthorized ==
  ASSUME TypeOK, NEW r \in Request, CallAuthorized(r), Handle(r)
  PROVE  CallAuthorized(r)'
<1>1. UNCHANGED <<config, configErr, proxyKeys, req, sawKey, sawConfig>>
  BY HandleFrame
<1> USE DEF TypeOK, LocalTypes, CallAuthorized, Working, Serving, Answer, Go,
            LoadPointer
<1>2. CASE ServePanel(r)
  BY <1>1, <1>2 DEF ServePanel, Reply
<1>3. CASE RefuseInvalidConfig(r)
  BY <1>1, <1>3 DEF RefuseInvalidConfig, Reply
<1>4. CASE ReadConfig(r)
  BY <1>1, <1>4 DEF ReadConfig, Accepts
<1>5. CASE KeysUnavailable(r)
  BY <1>1, <1>5 DEF KeysUnavailable, Reply
<1>6. CASE Unauthorized(r)
  BY <1>1, <1>6 DEF Unauthorized, Reply
<1>7. CASE NotFound(r)
  BY <1>1, <1>7 DEF NotFound, Reply, Authenticated
<1>8. CASE Dispatch(r)
  BY <1>1, <1>8 DEF Dispatch, Authenticated, DocKey
<1>9. CASE Capabilities(r)
  BY <1>1, <1>9 DEF Capabilities, Reply
<1>10. CASE StampRefresh(r)
  BY <1>1, <1>10 DEF StampRefresh
<1>11. CASE PermitRefresh(r)
  BY <1>1, <1>11 DEF PermitRefresh
<1>12. CASE RefuseRefresh(r)
  BY <1>1, <1>12 DEF RefuseRefresh
<1>13. CASE DropEntry(r)
  BY <1>1, <1>13 DEF DropEntry
<1>14. CASE ServeCached(r)
  BY <1>1, <1>14 DEF ServeCached
<1>15. CASE StartBuild(r)
  BY <1>1, <1>15 DEF StartBuild
<1>16. CASE BuildFails(r)
  BY <1>1, <1>16 DEF BuildFails, Reply
<1>17. CASE ReadUpstream(r)
  BY <1>1, <1>17 DEF ReadUpstream
<1>18. CASE StampStore(r)
  BY <1>1, <1>18 DEF StampStore
<1>19. CASE PutDocument(r)
  BY <1>1, <1>19 DEF PutDocument
<1> QED
  BY <1>2, <1>3, <1>4, <1>5, <1>6, <1>7, <1>8, <1>9, <1>10, <1>11, <1>12,
     <1>13, <1>14, <1>15, <1>16, <1>17, <1>18, <1>19 DEF Handle

\* So does the environment: it records that it accepted a key or that a
\* configuration admitted it.
LEMMA EnvironmentAuthorized ==
  ASSUME TypeOK, NEW r \in Request, CallAuthorized(r), Environment
  PROVE  CallAuthorized(r)'
<1> USE DEF TypeOK, LocalTypes, HistoryTypes, CallAuthorized, Working, Serving,
            local
<1>1. CASE \E s \in Request, q \in ClientRequest : Arrive(s, q)
  <2>1. PICK s \in Request, q \in ClientRequest : Arrive(s, q)
    BY <1>1
  <2>2. UNCHANGED shared
    BY <2>1 DEF Arrive
  <2>3. CASE s # r
    BY <2>1, <2>2, <2>3 DEF Arrive, Go, shared
  <2>4. CASE s = r
    <3>1. pc'[r] = "received" /\ req'[r] = q /\ resp'[r].status = 0
      BY <2>1, <2>4 DEF Arrive, Go, NoResponse
    <3>2. /\ q.token \in proxyKeys => sawKey'[r]
          /\ Accepts(configErr, config, q.token) => sawConfig'[r]
      BY <2>1, <2>4 DEF Arrive
    <3>3. proxyKeys' = proxyKeys /\ config' = config /\ configErr' = configErr
      BY <2>2 DEF shared
    <3>4. Accepts(configErr, config, req[r].token)'
            => Accepts(configErr, config, q.token)
      BY <3>1, <3>3 DEF Accepts, Admits
    <3> QED
      BY <3>1, <3>2, <3>3, <3>4
  <2> QED
    BY <2>3, <2>4
<1>2. CASE \E c \in Config : Reconfigure(c)
  <2>1. PICK c \in Config : Reconfigure(c)
    BY <1>2
  <2>2. UNCHANGED <<pc, req, cfg, resp, proxyKeys, sawKey>>
    BY <2>1 DEF Reconfigure
  <2>3. /\ config' = c /\ configErr' = FALSE
        /\ sawConfig[r] => sawConfig'[r]
        /\ InFlight(r) /\ Accepts(FALSE, c, req[r].token) => sawConfig'[r]
    BY <2>1 DEF Reconfigure
  <2>4. pc[r] \in Working /\ (Accepts(configErr, config, req[r].token))'
          => sawConfig'[r]
    BY <2>2, <2>3 DEF Accepts, Admits, InFlight
  <2>5. (Admits(cfg[r], req[r].token))' <=> Admits(cfg[r], req[r].token)
    BY <2>2 DEF Admits
  <2> QED
    BY <2>2, <2>3, <2>4, <2>5 DEF InFlight
<1>3. CASE RejectConfig
  BY <1>3 DEF RejectConfig, Accepts, Admits, ghosts
<1>4. CASE \E keys \in ProxyKeyLists : RotateKeys(keys)
  <2>1. PICK keys \in ProxyKeyLists : RotateKeys(keys)
    BY <1>4
  <2>2. UNCHANGED <<pc, req, cfg, resp, config, configErr, sawConfig>>
    BY <2>1 DEF RotateKeys
  <2>3. /\ proxyKeys' = keys
        /\ sawKey[r] => sawKey'[r]
        /\ InFlight(r) /\ req[r].token \in keys => sawKey'[r]
    BY <2>1 DEF RotateKeys
  <2>4. (Accepts(configErr, config, req[r].token))'
          <=> Accepts(configErr, config, req[r].token)
    BY <2>2 DEF Accepts, Admits
  <2>5. (Admits(cfg[r], req[r].token))' <=> Admits(cfg[r], req[r].token)
    BY <2>2 DEF Admits
  <2> QED
    BY <2>2, <2>3, <2>4, <2>5 DEF InFlight
<1>5. CASE Tick
  BY <1>5 DEF Tick, ghosts, Accepts, Admits
<1> QED
  BY <1>1, <1>2, <1>3, <1>4, <1>5 DEF Environment

\* A call in flight whose key is refused, or whose configuration is not valid
\* while it runs, is never served: AuthorizedService holds in every
\* reachable state.
THEOREM ServiceIsAuthorized == Spec => []AuthorizedService
<1> DEFINE Inv == TypeOK /\ \A r \in Request : CallAuthorized(r)
<1>1. Init => Inv
  <2> SUFFICES ASSUME Init PROVE Inv
    OBVIOUS
  <2>1. \A r \in Request : pc[r] = "idle" /\ resp[r].status = 0
    BY DEF Init, NoResponse
  <2>2. \A r \in Request : CallAuthorized(r)
    BY <2>1 DEF CallAuthorized, Working, Serving
  <2> QED
    BY <2>2, InitTypes
<1>2. Inv /\ [Next]_vars => Inv'
  <2> SUFFICES ASSUME Inv, [Next]_vars PROVE Inv'
    OBVIOUS
  <2>1. TypeOK'
    BY StepTypes
  <2>2. ASSUME NEW r \in Request PROVE CallAuthorized(r)'
    <3>1. CASE Handle(r)
      BY <3>1, HandleAuthorized
    <3>2. ASSUME NEW s \in Request, s # r, Handle(s) PROVE CallAuthorized(r)'
      <4>1. UNCHANGED <<config, configErr, proxyKeys, req, sawKey, sawConfig>>
        BY <3>2, HandleFrame
      <4>2. pc'[r] = pc[r] /\ cfg'[r] = cfg[r] /\ resp'[r] = resp[r]
        BY <3>2, OtherCalls
      <4> QED
        BY <4>1, <4>2 DEF CallAuthorized, Accepts, Admits
    <3>3. CASE Environment
      BY <3>3, EnvironmentAuthorized
    <3>4. CASE UNCHANGED vars
      BY <3>4 DEF CallAuthorized, Accepts, Admits, vars, shared, local, ghosts
    <3> QED
      BY <3>1, <3>2, <3>3, <3>4 DEF Next
  <2> QED
    BY <2>1, <2>2
<1>3. Inv => AuthorizedService
  BY DEF CallAuthorized, AuthorizedService
<1> QED
  BY <1>1, <1>2, <1>3, PTL DEF Spec

-----------------------------------------------------------------------------
(* How the caches change *)

\* A document is never held in a cache younger than its put.
HeldInOrBefore ==
  \A e \in 0..MaxReconfigure, k \in DocKey :
    caches[e][k] # None => caches[e][k].value.heldIn >= e

\* What one step of a call does to the caches that exist.
CachesMove ==
  /\ puts' \in {puts, puts + 1}
  /\ \A e \in 0..MaxReconfigure, k \in DocKey :
       \/ caches'[e][k] = caches[e][k]
       \/ caches'[e][k] = None
       \/ /\ caches'[e][k].value.no = puts + 1
          /\ caches'[e][k].value.heldIn = epoch
          /\ e <= epoch

\* The bindings of a call: it has no answer while it works, the cache it
\* knows is at least as young as its configuration, and what it answered with
\* was stored since that configuration was read.
CallBound(r) ==
  /\ pc[r] \in Working => resp[r].entry = None
  /\ pc[r] \in Working \ {"received"} =>
       readEpoch[r] <= ptr[r] /\ ptr[r] <= epoch
  /\ resp[r].entry # None => resp[r].entry.value.heldIn >= readEpoch[r]

\* Only dropping an entry and storing a document change the caches.
LEMMA HandleKeepsCaches ==
  ASSUME NEW r \in Request, Handle(r), ~DropEntry(r), ~PutDocument(r)
  PROVE  UNCHANGED <<caches, puts>>
BY DEF Handle,
     ServePanel, RefuseInvalidConfig, ReadConfig, KeysUnavailable,
     Unauthorized, NotFound, Dispatch, Capabilities, StampRefresh,
     PermitRefresh, RefuseRefresh, DropEntry, ServeCached, StartBuild,
     BuildFails, ReadUpstream, StampStore, PutDocument, Reply, Answer, Go,
     LoadPointer, shared, ghosts

\* A step of a call leaves the caches as they are, empties an entry or stores
\* the document of the next put.
LEMMA HandleCaches ==
  ASSUME TypeOK, NEW r \in Request, CallBound(r), Handle(r)
  PROVE  CachesMove
<1>1. CASE DropEntry(r)
  <2>1. PICK e \in Loaded(r) :
          caches' = [caches EXCEPT ![e] = Invalidate(@, req[r].route)]
    BY <1>1 DEF DropEntry
  <2>2. e \in 0..MaxReconfigure
    BY LoadedCaches
  <2>3. caches[e] \in [DocKey -> Entry \cup {None}]
    BY <2>2 DEF TypeOK, SharedTypes
  <2>4. \A k \in DocKey : \/ Invalidate(caches[e], req[r].route)[k] = caches[e][k]
                           \/ Invalidate(caches[e], req[r].route)[k] = None
    BY <2>3 DEF Invalidate
  <2>5. /\ caches'[e] = Invalidate(caches[e], req[r].route)
        /\ \A f \in 0..MaxReconfigure \ {e} : caches'[f] = caches[f]
    BY <2>1, <2>2 DEF TypeOK, SharedTypes
  <2>6. puts' = puts
    BY <1>1 DEF DropEntry, ghosts
  <2> QED
    BY <2>4, <2>5, <2>6 DEF CachesMove
<1>2. CASE PutDocument(r)
  <2> DEFINE value == [doc |-> doc[r], no |-> puts + 1, heldIn |-> epoch]
             entry == NewEntry(value, stamp[r], TTL(cfg[r], req[r].route))
             e == ptr[r]
  <2>1. caches' = [caches EXCEPT ![e] = Store(@, req[r].route, entry)]
        /\ puts' = puts + 1
    BY <1>2 DEF PutDocument
  <2>2. e \in 0..MaxReconfigure /\ e <= epoch
    BY <1>2 DEF PutDocument, TypeOK, LocalTypes, CallBound, Working, Serving
  <2>3. entry.value.no = puts + 1 /\ entry.value.heldIn = epoch
    BY DEF NewEntry
  <2>4. caches[e] \in [DocKey -> Entry \cup {None}]
    BY <2>2 DEF TypeOK, SharedTypes
  <2> HIDE DEF entry, e
  <2>5. \A k \in DocKey : \/ Store(caches[e], req[r].route, entry)[k] = caches[e][k]
                           \/ Store(caches[e], req[r].route, entry)[k] = entry
    BY <2>4 DEF Store
  <2>6. /\ caches'[e] = Store(caches[e], req[r].route, entry)
        /\ \A f \in 0..MaxReconfigure \ {e} : caches'[f] = caches[f]
    BY <2>1, <2>2 DEF TypeOK, SharedTypes
  <2> QED
    BY <2>1, <2>2, <2>3, <2>5, <2>6 DEF CachesMove
<1>3. CASE ~DropEntry(r) /\ ~PutDocument(r)
  <2>1. UNCHANGED <<caches, puts>>
    BY <1>3, HandleKeepsCaches
  <2> QED
    BY <2>1 DEF CachesMove
<1> QED
  BY <1>1, <1>2, <1>3

-----------------------------------------------------------------------------
(* Documents cached before a reconfiguration *)

\* A step of the call itself keeps its bindings.
LEMMA HandleBound ==
  ASSUME TypeOK, NEW r \in Request, CallBound(r), HeldInOrBefore, Handle(r)
  PROVE  CallBound(r)'
<1>1. epoch' = epoch
  BY HandleFrame
<1>2. epoch \in Nat
  BY BoundAssumption DEF TypeOK, SharedTypes
<1> USE DEF TypeOK, LocalTypes, HistoryTypes, CallBound, Working, Serving,
            Answer, Go, LoadPointer, ghosts
<1>3. CASE ServePanel(r)
  BY <1>1, <1>2, <1>3 DEF ServePanel, Reply
<1>4. CASE RefuseInvalidConfig(r)
  BY <1>1, <1>2, <1>4 DEF RefuseInvalidConfig, Reply
<1>5. CASE ReadConfig(r)
  BY <1>1, <1>2, <1>5 DEF ReadConfig
<1>6. CASE KeysUnavailable(r)
  BY <1>1, <1>2, <1>6 DEF KeysUnavailable, Reply
<1>7. CASE Unauthorized(r)
  BY <1>1, <1>2, <1>7 DEF Unauthorized, Reply
<1>8. CASE NotFound(r)
  BY <1>1, <1>2, <1>8 DEF NotFound, Reply
<1>9. CASE Dispatch(r)
  BY <1>1, <1>2, <1>9 DEF Dispatch
<1>10. CASE Capabilities(r)
  BY <1>1, <1>2, <1>10 DEF Capabilities, Reply
<1>11. CASE StampRefresh(r)
  BY <1>1, <1>2, <1>11 DEF StampRefresh
<1>12. CASE PermitRefresh(r)
  BY <1>1, <1>2, <1>12 DEF PermitRefresh
<1>13. CASE RefuseRefresh(r)
  BY <1>1, <1>2, <1>13 DEF RefuseRefresh
<1>14. CASE DropEntry(r)
  BY <1>1, <1>2, <1>14 DEF DropEntry
<1>15. CASE ServeCached(r)
  <2>1. PICK e \in Loaded(r) :
          /\ Fresh(caches[e], req[r].route, now)
          /\ Answer(r, 200, caches[e][req[r].route], now)
    BY <1>15 DEF ServeCached
  <2>2. e \in 0..MaxReconfigure /\ ptr[r] <= e
    BY LoadedCaches DEF Loaded
  <2>3. req[r].route \in DocKey
    BY <1>15 DEF ServeCached, CallShape
  <2>4. caches[e][req[r].route].value.heldIn >= e
    BY <2>1, <2>2, <2>3 DEF Fresh, HeldInOrBefore
  <2>11. caches[e] \in [DocKey -> Entry \cup {None}]
    BY <2>2 DEF SharedTypes
  <2>5. caches[e][req[r].route] \in Entry
    BY <2>1, <2>3, <2>11 DEF Fresh
  <2>6. caches[e][req[r].route].value.heldIn \in Nat
    BY <2>5 DEF Entry, Stored
  <2>7. readEpoch[r] <= e
    BY <1>15, <2>2, BoundAssumption DEF ServeCached
  <2>8. readEpoch' = readEpoch
    BY <1>15 DEF ServeCached
  <2>9. /\ pc'[r] = "done"
        /\ resp'[r].entry = caches[e][req[r].route]
    BY <2>1
  <2>10. caches[e][req[r].route].value.heldIn >= readEpoch[r]
    BY <2>2, <2>4, <2>6, <2>7
  <2> QED
    BY <2>8, <2>9, <2>10
<1>16. CASE StartBuild(r)
  BY <1>1, <1>2, <1>16 DEF StartBuild
<1>17. CASE BuildFails(r)
  BY <1>1, <1>2, <1>17 DEF BuildFails, Reply
<1>18. CASE ReadUpstream(r)
  BY <1>1, <1>2, <1>18 DEF ReadUpstream
<1>19. CASE StampStore(r)
  BY <1>1, <1>2, <1>19 DEF StampStore, Loaded
<1>20. CASE PutDocument(r)
  <2>1. /\ pc'[r] = "done"
        /\ resp'[r].entry.value.heldIn = epoch
        /\ readEpoch' = readEpoch
    BY <1>20 DEF PutDocument, NewEntry
  <2>2. readEpoch[r] <= epoch
    BY <1>20, <1>2 DEF PutDocument
  <2> QED
    BY <2>1, <2>2
<1> QED
  BY <1>3, <1>4, <1>5, <1>6, <1>7, <1>8, <1>9, <1>10, <1>11, <1>12, <1>13,
     <1>14, <1>15, <1>16, <1>17, <1>18, <1>19, <1>20 DEF Handle

\* So does the environment: a new epoch comes after those the call knows.
LEMMA EnvironmentBound ==
  ASSUME TypeOK, NEW r \in Request, CallBound(r), Environment
  PROVE  CallBound(r)'
<1> USE DEF TypeOK, LocalTypes, HistoryTypes, CallBound, Working, Serving,
            local, shared, ghosts
<1>1. CASE \E s \in Request, q \in ClientRequest : Arrive(s, q)
  <2>1. PICK s \in Request, q \in ClientRequest : Arrive(s, q)
    BY <1>1
  <2>2. CASE s = r
    BY <2>1, <2>2 DEF Arrive, Go, NoResponse
  <2>3. CASE s # r
    BY <2>1, <2>3 DEF Arrive, Go
  <2> QED
    BY <2>2, <2>3
<1>2. CASE \E c \in Config : Reconfigure(c)
  <2>1. epoch' = epoch + 1 /\ epoch \in Nat /\ ptr[r] \in Nat
    BY <1>2, BoundAssumption DEF Reconfigure, SharedTypes
  <2>2. UNCHANGED <<pc, ptr, resp, readEpoch>>
    BY <1>2 DEF Reconfigure
  <2> QED
    BY <2>1, <2>2
<1>3. CASE RejectConfig
  BY <1>3 DEF RejectConfig
<1>4. CASE \E keys \in ProxyKeyLists : RotateKeys(keys)
  BY <1>4 DEF RotateKeys
<1>5. CASE Tick
  BY <1>5 DEF Tick
<1> QED
  BY <1>1, <1>2, <1>3, <1>4, <1>5 DEF Environment

\* The environment changes no cache but the one a reconfiguration creates,
\* which is empty.
LEMMA EnvironmentCaches ==
  ASSUME TypeOK, Environment
  PROVE  /\ puts' = puts
         /\ \/ epoch' = epoch /\ caches' = caches
            \/ /\ epoch' = epoch + 1
               /\ \A e \in 0..MaxReconfigure :
                    IF e = epoch + 1 THEN \A k \in DocKey : caches'[e][k] = None
                                     ELSE caches'[e] = caches[e]
<1>1. CASE \E r \in Request, q \in ClientRequest : Arrive(r, q)
  BY <1>1 DEF Arrive, shared
<1>2. CASE \E c \in Config : Reconfigure(c)
  BY <1>2 DEF Reconfigure, EmptyCache, TypeOK, SharedTypes
<1>3. CASE RejectConfig
  BY <1>3 DEF RejectConfig, ghosts
<1>4. CASE \E keys \in ProxyKeyLists : RotateKeys(keys)
  BY <1>4 DEF RotateKeys
<1>5. CASE Tick
  BY <1>5 DEF Tick, ghosts
<1> QED
  BY <1>1, <1>2, <1>3, <1>4, <1>5 DEF Environment

CacheInv == TypeOK /\ HeldInOrBefore /\ \A r \in Request : CallBound(r)

\* Initially there is no document and no call.
LEMMA InitCaches == Init => CacheInv
<1> SUFFICES ASSUME Init PROVE CacheInv
  OBVIOUS
<1>1. HeldInOrBefore
  BY DEF Init, EmptyCache, HeldInOrBefore
<1>2. \A r \in Request : pc[r] = "idle" /\ resp[r].entry = None
  BY DEF Init, NoResponse
<1>3. \A r \in Request : CallBound(r)
  BY <1>2 DEF CallBound, Working, Serving
<1> QED
  BY <1>1, <1>3, InitTypes DEF CacheInv

\* Every step keeps the bindings of all calls and the caches in order.
LEMMA StepCaches == CacheInv /\ [Next]_vars => CacheInv'
<1> SUFFICES ASSUME CacheInv, [Next]_vars PROVE CacheInv'
  OBVIOUS
<1> USE DEF CacheInv
<1>1. TypeOK'
  BY StepTypes
<1>2. CASE \E r \in Request : Handle(r)
  <2>1. PICK r \in Request : Handle(r)
    BY <1>2
  <2>2. CachesMove
    BY <2>1, HandleCaches
  <2>3. epoch \in Nat
    BY BoundAssumption DEF TypeOK, SharedTypes
  <2>4. HeldInOrBefore'
    BY <2>2, <2>3 DEF CachesMove, HeldInOrBefore
  <2>5. CallBound(r)'
    BY <2>1, HandleBound
  <2>6. ASSUME NEW s \in Request, s # r PROVE CallBound(s)'
    BY <2>1, <2>6, HandleFrame, OtherCalls DEF CallBound
  <2> QED
    BY <1>1, <2>4, <2>5, <2>6
<1>3. CASE Environment
  <2>1. HeldInOrBefore'
    BY <1>3, EnvironmentCaches DEF HeldInOrBefore
  <2>2. \A r \in Request : CallBound(r)'
    BY <1>3, EnvironmentBound
  <2> QED
    BY <1>1, <2>1, <2>2
<1>4. CASE UNCHANGED vars
  BY <1>1, <1>4 DEF HeldInOrBefore, CallBound, vars, shared, local, ghosts
<1> QED
  BY <1>2, <1>3, <1>4 DEF Next

\* A call that read a configuration is never answered with a document cached
\* before that configuration was in force.
THEOREM NothingFromBeforeReconfigure == Spec => []NoPreReconfigureDocument
<1>1. CacheInv => NoPreReconfigureDocument
  BY DEF CacheInv, CallBound, NoPreReconfigureDocument
<1> QED
  BY <1>1, InitCaches, StepCaches, PTL DEF Spec

-----------------------------------------------------------------------------
(* Permitted refreshes *)

\* What cache e holds for the call was stored after its refresh was permitted.
NewerThanGrant(r, e) ==
  caches[e][req[r].route] # None
    => caches[e][req[r].route].value.no > grant[r]

\* From the permission on, of the caches the call may come to look at only
\* the one it is about to clear may hold an older document; once it has
\* cleared one, none does.
CallRefresh(r) ==
  /\ grant[r] # None => grant[r] <= puts
  /\ pc[r] \in {"received", "keys", "stamp", "allow"} => grant[r] = None
  /\ pc[r] = "invalidate" =>
       grant[r] # None /\ \A e \in (ptr[r] + 1)..epoch : NewerThanGrant(r, e)
  /\ pc[r] = "lookup" /\ grant[r] # None =>
       \A e \in ptr[r]..epoch : NewerThanGrant(r, e)
  /\ resp[r].entry # None /\ grant[r] # None
       => resp[r].entry.value.no > grant[r]

\* A step of the call itself keeps what its permitted refresh has achieved.
LEMMA HandleRefresh ==
  ASSUME CacheInv, NEW r \in Request, CallRefresh(r), Handle(r)
  PROVE  CallRefresh(r)'
<1>1. epoch' = epoch /\ req' = req
  BY HandleFrame
<1>2. epoch \in Nat /\ ptr[r] \in Nat /\ epoch \in 0..MaxReconfigure
  BY BoundAssumption DEF CacheInv, TypeOK, SharedTypes, LocalTypes
<1>3. CallBound(r)
  BY DEF CacheInv
<1>4. puts \in Nat /\ grant[r] \in Nat \cup {None} /\ puts # None
  BY NoneAssumption DEF CacheInv, TypeOK, HistoryTypes
<1> USE DEF CacheInv, TypeOK, LocalTypes, HistoryTypes, CallRefresh, Answer,
            Go, LoadPointer, ghosts
<1>5. CASE ServePanel(r)
  BY <1>1, <1>3, <1>5 DEF ServePanel, Reply, shared, CallBound, Working, Serving
<1>6. CASE RefuseInvalidConfig(r)
  BY <1>1, <1>3, <1>6 DEF RefuseInvalidConfig, Reply, shared, CallBound, Working, Serving
<1>7. CASE ReadConfig(r)
  BY <1>1, <1>3, <1>7 DEF ReadConfig, shared, CallBound, Working, Serving
<1>8. CASE KeysUnavailable(r)
  BY <1>1, <1>3, <1>8 DEF KeysUnavailable, Reply, shared, CallBound, Working, Serving
<1>9. CASE Unauthorized(r)
  BY <1>1, <1>3, <1>9 DEF Unauthorized, Reply, shared, CallBound, Working, Serving
<1>10. CASE NotFound(r)
  BY <1>1, <1>3, <1>10 DEF NotFound, Reply, shared, CallBound, Working, Serving
<1>11. CASE Dispatch(r)
  <2>1. /\ ptr'[r] = epoch /\ UNCHANGED <<resp, puts, caches>>
        /\ grant[r] = None
    BY <1>11 DEF Dispatch, shared
  <2>2. resp[r].entry = None
    BY <1>3, <1>11 DEF Dispatch, CallBound, Working
  <2>3. CASE req[r].route = "well-known" /\ req[r].refresh
    <3>1. pc'[r] = "invalidate" /\ grant'[r] = puts
      BY <1>11, <2>3 DEF Dispatch
    <3>2. \A e : e \notin (ptr'[r] + 1)..epoch'
      BY <1>1, <1>2, <2>1
    <3> QED
      BY <1>4, <2>1, <2>2, <3>1, <3>2
  <2>4. CASE ~(req[r].route = "well-known" /\ req[r].refresh)
    <3>1. pc'[r] # "invalidate" /\ grant'[r] = None
      BY <1>11, <2>1, <2>4 DEF Dispatch, DocKey
    <3> QED
      BY <2>1, <3>1
  <2> QED
    BY <2>3, <2>4
<1>12. CASE Capabilities(r)
  BY <1>1, <1>3, <1>12 DEF Capabilities, Reply, shared, CallBound, Working, Serving
<1>13. CASE StampRefresh(r)
  BY <1>1, <1>3, <1>13 DEF StampRefresh, shared, CallBound, Working, Serving
<1>14. CASE PermitRefresh(r)
  <2>1. /\ pc'[r] = "invalidate" /\ ptr'[r] = epoch /\ grant'[r] = puts
        /\ UNCHANGED <<resp, puts, caches>>
    BY <1>14 DEF PermitRefresh
  <2>2. resp[r].entry = None
    BY <1>3, <1>14 DEF PermitRefresh, CallBound, Working, Serving
  <2>3. \A e : e \notin (ptr'[r] + 1)..epoch'
    BY <1>1, <1>2, <2>1
  <2> QED
    BY <1>4, <2>1, <2>2, <2>3
<1>15. CASE RefuseRefresh(r)
  BY <1>1, <1>3, <1>15 DEF RefuseRefresh, shared, CallBound, Working, Serving
<1>16. CASE DropEntry(r)
  <2>1. PICK e \in Loaded(r) :
          caches' = [caches EXCEPT ![e] = Invalidate(@, req[r].route)]
    BY <1>16 DEF DropEntry
  <2>2. e \in 0..MaxReconfigure /\ e \in ptr[r]..epoch
    BY LoadedCaches DEF Loaded
  <2>3. req[r].route \in DocKey
    BY <1>16 DEF DropEntry, CallShape, Serving
  <2>4. caches[e] \in [DocKey -> Entry \cup {None}]
    BY <2>2 DEF SharedTypes
  <2>5. caches'[e][req[r].route] = None
    BY <2>1, <2>2, <2>3, <2>4 DEF Invalidate, SharedTypes
  <2>6. e # epoch => caches'[epoch] = caches[epoch]
    BY <1>2, <2>1, <2>2 DEF SharedTypes
  <2>7. /\ UNCHANGED <<resp, grant, puts>>
        /\ pc'[r] = "lookup" /\ ptr'[r] = epoch
    BY <1>16 DEF DropEntry
  <2>8. e # epoch => NewerThanGrant(r, epoch)
    BY <1>2, <1>16, <2>2 DEF DropEntry
  <2>9. NewerThanGrant(r, epoch)'
    BY <1>1, <2>5, <2>6, <2>7, <2>8 DEF NewerThanGrant
  <2>10. \A f \in ptr'[r]..epoch' : f = epoch
    BY <1>1, <1>2, <2>7
  <2>11. \A f \in ptr'[r]..epoch' : NewerThanGrant(r, f)'
    BY <1>1, <2>9, <2>10 DEF NewerThanGrant
  <2> QED
    BY <2>7, <2>11
<1>17. CASE ServeCached(r)
  <2>1. PICK e \in Loaded(r) :
          /\ Fresh(caches[e], req[r].route, now)
          /\ Answer(r, 200, caches[e][req[r].route], now)
    BY <1>17 DEF ServeCached
  <2>2. e \in ptr[r]..epoch
    BY DEF Loaded
  <2>3. grant' = grant /\ puts' = puts
    BY <1>17 DEF ServeCached
  <2>4. grant[r] # None => caches[e][req[r].route].value.no > grant[r]
    BY <1>17, <2>1, <2>2 DEF ServeCached, NewerThanGrant, Fresh
  <2>5. pc'[r] = "done" /\ resp'[r].entry = caches[e][req[r].route]
    BY <2>1
  <2> QED
    BY <2>3, <2>4, <2>5
<1>18. CASE StartBuild(r)
  BY <1>1, <1>3, <1>18 DEF StartBuild, shared, CallBound, Working, Serving
<1>19. CASE BuildFails(r)
  BY <1>1, <1>3, <1>19 DEF BuildFails, Reply, shared, CallBound, Working, Serving
<1>20. CASE ReadUpstream(r)
  BY <1>1, <1>3, <1>20 DEF ReadUpstream, shared, CallBound, Working, Serving
<1>21. CASE StampStore(r)
  BY <1>1, <1>3, <1>21 DEF StampStore, shared, CallBound, Working, Serving
<1>22. CASE PutDocument(r)
  <2>1. /\ pc'[r] = "done"
        /\ resp'[r].entry.value.no = puts + 1
        /\ grant' = grant /\ puts' = puts + 1
    BY <1>22 DEF PutDocument, NewEntry
  <2>2. grant[r] # None => grant[r] \in Nat /\ grant[r] <= puts
    BY <1>4
  <2> QED
    BY <1>4, <2>1, <2>2
<1> QED
  BY <1>5, <1>6, <1>7, <1>8, <1>9, <1>10, <1>11, <1>12, <1>13, <1>14, <1>15,
     <1>16, <1>17, <1>18, <1>19, <1>20, <1>21, <1>22 DEF Handle

\* A step of another call stores nothing that is older than a permission.
LEMMA OtherRefresh ==
  ASSUME CacheInv, NEW r \in Request, NEW s \in Request, s # r,
         CallRefresh(s), Handle(r)
  PROVE  CallRefresh(s)'
<1>1. /\ UNCHANGED <<epoch, req>>
      /\ pc'[s] = pc[s] /\ ptr'[s] = ptr[s] /\ resp'[s] = resp[s]
      /\ grant'[s] = grant[s]
  BY HandleFrame, OtherCalls DEF CacheInv
<1>2. CachesMove
  BY HandleCaches DEF CacheInv
<1>3. puts \in Nat /\ grant[s] \in Nat \cup {None}
  BY DEF CacheInv, TypeOK, HistoryTypes
<1>4. pc[s] \in {"invalidate", "lookup"} => req[s].route \in DocKey
  BY DEF CacheInv, TypeOK, CallShape, Serving
<1>5. /\ epoch \in 0..MaxReconfigure /\ epoch \in Nat
      /\ ptr[s] \in Nat
  BY BoundAssumption DEF CacheInv, TypeOK, SharedTypes, LocalTypes
<1>6. ASSUME NEW e \in 0..MaxReconfigure, req[s].route \in DocKey,
             grant[s] # None, NewerThanGrant(s, e)
      PROVE  NewerThanGrant(s, e)'
  <2>1. grant[s] \in Nat /\ grant[s] <= puts
    BY <1>3, <1>6 DEF CallRefresh
  <2> QED
    BY <1>1, <1>2, <1>3, <1>6, <2>1 DEF CachesMove, NewerThanGrant
<1>7. \A e \in ptr[s]..epoch : e \in 0..MaxReconfigure
  BY <1>5, BoundAssumption
<1>8. grant[s] # None => grant[s] <= puts'
  BY <1>2, <1>3 DEF CallRefresh, CachesMove
<1>9. pc[s] = "invalidate" =>
        \A e \in (ptr[s] + 1)..epoch : NewerThanGrant(s, e)'
  BY <1>4, <1>5, <1>6, <1>7 DEF CallRefresh
<1>10. pc[s] = "lookup" /\ grant[s] # None =>
        \A e \in ptr[s]..epoch : NewerThanGrant(s, e)'
  BY <1>4, <1>6, <1>7 DEF CallRefresh
<1> QED
  BY <1>1, <1>8, <1>9, <1>10 DEF CallRefresh

\* So does the environment: a new cache is empty.
LEMMA EnvironmentRefresh ==
  ASSUME CacheInv, NEW r \in Request, CallRefresh(r), Environment
  PROVE  CallRefresh(r)'
<1>1. puts \in Nat /\ epoch \in Nat /\ ptr[r] \in Nat
      /\ epoch \in 0..MaxReconfigure
  BY BoundAssumption
  DEF CacheInv, TypeOK, SharedTypes, LocalTypes, HistoryTypes
<1> USE DEF CacheInv, TypeOK, LocalTypes, HistoryTypes, CallRefresh,
            NewerThanGrant
<1>2. CASE \E s \in Request, q \in ClientRequest : Arrive(s, q)
  <2>1. PICK s \in Request, q \in ClientRequest : Arrive(s, q)
    BY <1>2
  <2>2. CASE s = r
    <3>1. pc'[r] = "received" /\ grant'[r] = None
      BY <2>1, <2>2 DEF Arrive, Go
    <3> QED
      BY <3>1
  <2>3. CASE s # r
    <3>1. /\ pc'[r] = pc[r] /\ req'[r] = req[r] /\ resp'[r] = resp[r]
          /\ grant'[r] = grant[r] /\ ptr' = ptr /\ puts' = puts
          /\ epoch' = epoch /\ caches' = caches
      BY <2>1, <2>3 DEF Arrive, Go, shared
    <3> QED
      BY <3>1
  <2> QED
    BY <2>2, <2>3
<1>3. CASE \E c \in Config : Reconfigure(c)
  <2>1. UNCHANGED <<pc, req, ptr, resp, grant, puts>>
    BY <1>3 DEF Reconfigure, local
  <2>2. epoch' = epoch + 1 /\ epoch + 1 \in 0..MaxReconfigure
    BY <1>1, <1>3, BoundAssumption DEF Reconfigure, SharedTypes
  <2>3. ASSUME NEW e \in 0..MaxReconfigure, e # epoch + 1
        PROVE  caches'[e] = caches[e]
    BY <1>3, <2>3 DEF Reconfigure, SharedTypes
  <2>4. \A k \in DocKey : caches'[epoch + 1][k] = None
    BY <1>3, <2>2 DEF Reconfigure, SharedTypes, EmptyCache
  <2>5. pc[r] \in {"invalidate", "lookup"} => req[r].route \in DocKey
    BY DEF CallShape, Serving
  <2>6. \A e \in ptr[r]..(epoch + 1) :
          e \in 0..MaxReconfigure /\ (e = epoch + 1 \/ e \in ptr[r]..epoch)
    BY <1>1, <2>2, BoundAssumption
  <2>7. ASSUME NEW e \in (ptr[r] + 1)..(epoch + 1)
        PROVE  /\ e \in ptr[r]..(epoch + 1)
               /\ e = epoch + 1 \/ e \in (ptr[r] + 1)..epoch
    <3> DEFINE p == ptr[r]
    <3>1. p \in Nat /\ epoch \in Nat /\ e \in (p + 1)..(epoch + 1)
      BY <1>1
    <3> HIDE DEF p
    <3>2. e \in p..(epoch + 1) /\ (e = epoch + 1 \/ e \in (p + 1)..epoch)
      BY <3>1
    <3> QED
      BY <3>2 DEF p
  <2>8. pc[r] = "invalidate" =>
          \A e \in (ptr[r] + 1)..(epoch + 1) : NewerThanGrant(r, e)'
    BY <2>1, <2>3, <2>4, <2>5, <2>6, <2>7
  <2>9. pc[r] = "lookup" /\ grant[r] # None =>
          \A e \in ptr[r]..(epoch + 1) : NewerThanGrant(r, e)'
    BY <2>1, <2>3, <2>4, <2>5, <2>6
  <2> QED
    BY <2>1, <2>2, <2>8, <2>9
<1>4. CASE RejectConfig
  BY <1>4 DEF RejectConfig, local, ghosts
<1>5. CASE \E keys \in ProxyKeyLists : RotateKeys(keys)
  BY <1>5 DEF RotateKeys, local
<1>6. CASE Tick
  BY <1>6 DEF Tick, local, ghosts
<1> QED
  BY <1>2, <1>3, <1>4, <1>5, <1>6 DEF Environment

\* A permitted refresh is answered with a document stored after it was
\* permitted.
THEOREM RefreshIsFresh == Spec => []RefreshSeesLaterStore
<1> DEFINE Inv == CacheInv /\ \A r \in Request : CallRefresh(r)
<1>1. Init => Inv
  <2> SUFFICES ASSUME Init PROVE Inv
    OBVIOUS
  <2>1. \A r \in Request : /\ pc[r] = "idle" /\ grant[r] = None
    BY DEF Init
  <2> QED
    BY <2>1, InitCaches DEF CallRefresh
<1>2. Inv /\ [Next]_vars => Inv'
  <2> SUFFICES ASSUME Inv, [Next]_vars PROVE Inv'
    OBVIOUS
  <2>1. CacheInv'
    BY StepCaches
  <2>2. CASE \E r \in Request : Handle(r)
    <3>1. PICK r \in Request : Handle(r)
      BY <2>2
    <3>2. CallRefresh(r)'
      BY <3>1, HandleRefresh
    <3>3. ASSUME NEW s \in Request, s # r PROVE CallRefresh(s)'
      BY <3>1, <3>3, OtherRefresh
    <3> QED
      BY <2>1, <3>2, <3>3
  <2>3. CASE Environment
    BY <2>1, <2>3, EnvironmentRefresh
  <2>4. CASE UNCHANGED vars
    BY <2>1, <2>4
    DEF CallRefresh, NewerThanGrant, vars, shared, local, ghosts
  <2> QED
    BY <2>2, <2>3, <2>4 DEF Next
<1>3. Inv => RefreshSeesLaterStore
  BY DEF CallRefresh, RefreshSeesLaterStore
<1> QED
  BY <1>1, <1>2, <1>3, PTL DEF Spec

-----------------------------------------------------------------------------
(* The refresh limiter *)

\* The last permitted refresh of a hint came late enough for all those before
\* it, and was stamped with a time that has passed.
HintBudget(h) ==
  /\ last[h] = None => grants[h] = 0
  /\ last[h] # None => /\ (grants[h] - 1) * MinUsageTTL <= last[h]
                       /\ last[h] <= now

GrantInv ==
  /\ TypeOK
  /\ \A h \in Hint : HintBudget(h)
  /\ \A r \in Request : stamp[r] <= now

\* One more interval fits when the last one is over.
LEMMA OneMoreInterval ==
  ASSUME NEW g \in Nat, NEW m \in Nat, NEW t \in Nat, NEW u \in Nat,
         (g - 1) * m <= t, u - t >= m
  PROVE  ((g + 1) - 1) * m <= u
<1>1. (g - 1) * m = g * m - m
  OBVIOUS
<1>2. ((g + 1) - 1) * m = g * m
  OBVIOUS
<1>3. g * m \in Int
  OBVIOUS
<1> QED
  BY <1>1, <1>2, <1>3

\* No step of a call stamps it with a time to come.
LEMMA HandleStamps ==
  ASSUME GrantInv, NEW r \in Request, Handle(r)
  PROVE  \A s \in Request : stamp'[s] <= now'
<1>1. now' = now /\ now \in Nat
  BY HandleFrame DEF GrantInv, TypeOK, SharedTypes
<1>2. \A s \in Request : s # r => stamp'[s] = stamp[s]
  BY OtherCalls DEF GrantInv
<1>3. stamp'[r] \in {stamp[r], now, 0}
  BY DEF GrantInv, TypeOK, LocalTypes, Handle,
     ServePanel, RefuseInvalidConfig, ReadConfig, KeysUnavailable,
     Unauthorized, NotFound, Dispatch, Capabilities, StampRefresh,
     PermitRefresh, RefuseRefresh, DropEntry, ServeCached, StartBuild,
     BuildFails, ReadUpstream, StampStore, PutDocument, Reply, Answer, Go,
     LoadPointer, shared, ghosts
<1> QED
  BY <1>1, <1>2, <1>3 DEF GrantInv

\* Only a permission moves the limiter.
LEMMA HandleLimiter ==
  ASSUME NEW r \in Request, Handle(r), ~PermitRefresh(r)
  PROVE  UNCHANGED <<last, grants>>
BY DEF Handle,
     ServePanel, RefuseInvalidConfig, ReadConfig, KeysUnavailable,
     Unauthorized, NotFound, Dispatch, Capabilities, StampRefresh,
     PermitRefresh, RefuseRefresh, DropEntry, ServeCached, StartBuild,
     BuildFails, ReadUpstream, StampStore, PutDocument, Reply, Answer, Go,
     LoadPointer, shared, ghosts

\* A permission uses up one interval of its hint, and of no other.
LEMMA PermitBudget ==
  ASSUME GrantInv, NEW r \in Request, PermitRefresh(r), NEW h \in Hint
  PROVE  HintBudget(h)'
<1> DEFINE g == MaskKey[req[r].token]
<1>1. now' = now /\ now \in Nat
  BY DEF PermitRefresh, GrantInv, TypeOK, SharedTypes
<1>2. g \in Hint
  BY MaskAssumption DEF PermitRefresh, GrantInv, TypeOK, CallShape, Serving
<1>3. /\ last' = [last EXCEPT ![g] = stamp[r]]
      /\ grants' = [grants EXCEPT ![g] = grants[g] + 1]
  BY DEF PermitRefresh, RecordPermit
<1>4. last[g] # None => stamp[r] - last[g] >= UsageTTL[cfg[r]]
  BY DEF PermitRefresh, RefreshPermitted, Permits
<1>5. /\ stamp[r] \in Nat /\ stamp[r] <= now /\ stamp[r] # None
      /\ UsageTTL[cfg[r]] \in Nat
      /\ UsageTTL[cfg[r]] >= MinUsageTTL /\ MinUsageTTL \in Nat
  BY ConfigAssumption, NoneAssumption DEF GrantInv, TypeOK, LocalTypes
<1>6. \A f \in Hint : grants[f] \in Nat /\ last[f] \in Nat \cup {None}
  BY DEF GrantInv, TypeOK, SharedTypes, HistoryTypes
<1> HIDE DEF g
<1>7. CASE h # g
  <2>1. last'[h] = last[h] /\ grants'[h] = grants[h]
    BY <1>3, <1>7 DEF GrantInv, TypeOK, SharedTypes, HistoryTypes
  <2> QED
    BY <1>1, <2>1 DEF GrantInv, HintBudget
<1>8. CASE h = g
  <2>1. last'[h] = stamp[r] /\ grants'[h] = grants[g] + 1
    BY <1>2, <1>3, <1>8 DEF GrantInv, TypeOK, SharedTypes, HistoryTypes
  <2>2. CASE last[g] = None
    <3>1. grants'[h] = 1
      BY <1>2, <2>1, <2>2 DEF GrantInv, HintBudget
    <3>2. (1 - 1) * MinUsageTTL <= stamp[r]
      BY <1>5
    <3> QED
      BY <1>1, <1>5, <2>1, <3>1, <3>2 DEF HintBudget
  <2>3. CASE last[g] # None
    <3>1. last[g] \in Nat /\ grants[g] \in Nat
      BY <1>2, <1>6, <2>3
    <3>2. (grants[g] - 1) * MinUsageTTL <= last[g]
      BY <1>2, <2>3 DEF GrantInv, HintBudget
    <3>3. stamp[r] - last[g] >= MinUsageTTL
      BY <1>4, <1>5, <2>3, <3>1
    <3>4. ((grants[g] + 1) - 1) * MinUsageTTL <= stamp[r]
      BY <1>5, <3>1, <3>2, <3>3, OneMoreInterval
    <3> QED
      BY <1>1, <1>5, <2>1, <3>4 DEF HintBudget
  <2> QED
    BY <2>2, <2>3
<1> QED
  BY <1>7, <1>8

\* The environment moves the clock and never the limiter.
LEMMA EnvironmentLimiter ==
  ASSUME TypeOK, Environment
  PROVE  UNCHANGED <<last, grants, stamp>> /\ now \in Nat /\ now' \in {now, now + 1}
BY DEF Environment, Arrive, Reconfigure, RejectConfig, RotateKeys, Tick, TypeOK,
   SharedTypes, shared, local, ghosts

\* Per hint, the refreshes permitted never outnumber the intervals that have
\* passed, plus one.
THEOREM RefreshesFitTheFloor == Spec => []GrantBudget
<1>1. Init => GrantInv
  <2> SUFFICES ASSUME Init PROVE GrantInv
    OBVIOUS
  <2>1. \A h \in Hint : last[h] = None /\ grants[h] = 0
    BY DEF Init
  <2>2. \A r \in Request : stamp[r] <= now
    BY DEF Init
  <2> QED
    BY <2>1, <2>2, InitTypes DEF GrantInv, HintBudget
<1>2. GrantInv /\ [Next]_vars => GrantInv'
  <2> SUFFICES ASSUME GrantInv, [Next]_vars PROVE GrantInv'
    OBVIOUS
  <2>1. TypeOK'
    BY StepTypes DEF GrantInv
  <2>2. CASE \E r \in Request : Handle(r)
    <3>1. PICK r \in Request : Handle(r)
      BY <2>2
    <3>2. \A s \in Request : stamp'[s] <= now'
      BY <3>1, HandleStamps
    <3>3. ASSUME NEW h \in Hint PROVE HintBudget(h)'
      <4>1. CASE PermitRefresh(r)
        BY <4>1, PermitBudget
      <4>2. CASE ~PermitRefresh(r)
        BY <3>1, <4>2, HandleLimiter, HandleFrame DEF GrantInv, HintBudget
      <4> QED
        BY <4>1, <4>2
    <3> QED
      BY <2>1, <3>2, <3>3 DEF GrantInv
  <2>3. CASE Environment
    <3>1. UNCHANGED <<last, grants, stamp>> /\ now \in Nat
          /\ now' \in {now, now + 1}
      BY <2>3, EnvironmentLimiter DEF GrantInv
    <3>2. ASSUME NEW r \in Request PROVE stamp'[r] <= now'
      BY <3>1 DEF GrantInv, TypeOK, LocalTypes
    <3>3. ASSUME NEW h \in Hint PROVE HintBudget(h)'
      <4>1. last[h] \in Nat \cup {None} /\ HintBudget(h)
        BY DEF GrantInv, TypeOK, SharedTypes
      <4> QED
        BY <3>1, <4>1 DEF HintBudget
    <3> QED
      BY <2>1, <3>2, <3>3 DEF GrantInv
  <2>4. CASE UNCHANGED vars
    BY <2>1, <2>4 DEF GrantInv, HintBudget, vars, shared, local, ghosts
  <2> QED
    BY <2>2, <2>3, <2>4 DEF Next
<1>3. GrantInv => GrantBudget
  <2> SUFFICES ASSUME GrantInv, NEW h \in Hint, grants[h] > 0
               PROVE  (grants[h] - 1) * MinUsageTTL <= now
    BY DEF GrantBudget
  <2>1. grants[h] \in Nat /\ last[h] \in Nat \cup {None} /\ now \in Nat
    BY DEF GrantInv, TypeOK, SharedTypes, HistoryTypes
  <2>2. last[h] \in Nat /\ last[h] <= now
        /\ (grants[h] - 1) * MinUsageTTL <= last[h]
    BY <2>1 DEF GrantInv, HintBudget
  <2>3. (grants[h] - 1) * MinUsageTTL \in Int
    BY <2>1, ConfigAssumption
  <2> QED
    BY <2>1, <2>2, <2>3
<1> QED
  BY <1>1, <1>2, <1>3, PTL DEF Spec

-----------------------------------------------------------------------------
(* The age of what is served *)

\* An entry was read upstream before it was stored, within one build, and does
\* not expire before it is stored.
EntryAge(e) ==
  /\ e.value.doc.readAt <= e.storedAt
  /\ e.storedAt <= e.value.doc.readAt + BuildDeadline
  /\ e.storedAt <= e.expiresAt

CachedAge ==
  \A e \in 0..MaxReconfigure, k \in DocKey :
    caches[e][k] # None => EntryAge(caches[e][k])

\* A build is as old as its context allows, what it read is no older than the
\* build, and what the call was answered with had not expired.
CallAge(r) ==
  /\ pc[r] \in {"fetch", "render"} =>
       began[r] <= now /\ now <= began[r] + BuildDeadline
  /\ pc[r] = "render" => began[r] <= doc[r].readAt /\ doc[r].readAt <= now
  /\ pc[r] = "store" => /\ doc[r].readAt <= stamp[r]
                        /\ stamp[r] <= doc[r].readAt + BuildDeadline
  /\ resp[r].entry # None =>
       EntryAge(resp[r].entry) /\ resp[r].at <= resp[r].entry.expiresAt

AgeInv == CacheInv /\ CachedAge /\ \A r \in Request : CallAge(r)

\* The entry put makes of a finished build has the age of one.
LEMMA PutAge ==
  ASSUME AgeInv, NEW r \in Request, PutDocument(r)
  PROVE  \E entry \in Entry :
           /\ EntryAge(entry) /\ stamp[r] <= entry.expiresAt
           /\ caches' = [caches EXCEPT ![ptr[r]] = Store(@, req[r].route, entry)]
           /\ Answer(r, 200, entry, stamp[r])
<1> DEFINE value == [doc |-> doc[r], no |-> puts + 1, heldIn |-> epoch]
           t == TTL(cfg[r], req[r].route)
           entry == NewEntry(value, stamp[r], t)
<1> USE DEF AgeInv, CacheInv
<1>1. value \in Stored
  BY DEF PutDocument, TypeOK, SharedTypes, HistoryTypes, CallShape, Stored
<1>2. t \in Nat /\ stamp[r] \in Nat
  BY ConfigAssumption DEF TypeOK, LocalTypes, TTL
<1>3. /\ doc[r].readAt <= stamp[r]
      /\ stamp[r] <= doc[r].readAt + BuildDeadline
  BY DEF CallAge, PutDocument
<1>4. /\ entry.value.doc = doc[r]
      /\ entry.storedAt = stamp[r]
      /\ entry.expiresAt = stamp[r] + t
  BY DEF NewEntry
<1>5. entry \in Entry
  BY <1>1, <1>2 DEF Entry, NewEntry
<1>6. /\ caches' = [caches EXCEPT ![ptr[r]] = Store(@, req[r].route, entry)]
      /\ Answer(r, 200, entry, stamp[r])
  BY DEF PutDocument
<1> HIDE DEF entry, t
<1>7. EntryAge(entry) /\ stamp[r] <= entry.expiresAt
  BY <1>2, <1>3, <1>4 DEF EntryAge
<1> QED
  BY <1>5, <1>6, <1>7

\* A step of a call puts only such entries into the caches.
LEMMA HandleCachedAge ==
  ASSUME AgeInv, NEW r \in Request, Handle(r)
  PROVE  CachedAge'
<1>1. CASE DropEntry(r)
  <2>1. PICK e \in Loaded(r) :
          caches' = [caches EXCEPT ![e] = Invalidate(@, req[r].route)]
    BY <1>1 DEF DropEntry
  <2>2. e \in 0..MaxReconfigure
    BY LoadedCaches DEF AgeInv, CacheInv
  <2>3. ASSUME NEW f \in 0..MaxReconfigure, NEW k \in DocKey
        PROVE  caches'[f][k] \in {caches[f][k], None}
    BY <2>1, <2>2 DEF Invalidate, AgeInv, CacheInv, TypeOK, SharedTypes
  <2> QED
    BY <2>3 DEF AgeInv, CachedAge
<1>2. CASE PutDocument(r)
  <2>1. PICK entry \in Entry :
          /\ EntryAge(entry)
          /\ caches' = [caches EXCEPT ![ptr[r]] =
                          Store(@, req[r].route, entry)]
    BY <1>2, PutAge
  <2>2. ASSUME NEW f \in 0..MaxReconfigure, NEW k \in DocKey
        PROVE  caches'[f][k] \in {caches[f][k], entry}
    BY <2>1 DEF Store, AgeInv, CacheInv, TypeOK, SharedTypes
  <2> QED
    BY <2>1, <2>2 DEF AgeInv, CachedAge
<1>3. CASE ~DropEntry(r) /\ ~PutDocument(r)
  <2>1. caches' = caches
    BY <1>3, HandleKeepsCaches
  <2> QED
    BY <2>1 DEF AgeInv, CachedAge
<1> QED
  BY <1>1, <1>2, <1>3

\* A step of the call itself keeps its ages in order.
LEMMA HandleAge ==
  ASSUME AgeInv, NEW r \in Request, Handle(r)
  PROVE  CallAge(r)'
<1>1. now' = now /\ now \in Nat
  BY HandleFrame DEF AgeInv, CacheInv, TypeOK, SharedTypes
<1>2. CallAge(r) /\ CallBound(r) /\ TypeOK
  BY DEF AgeInv, CacheInv
<1>3. began[r] \in Nat /\ stamp[r] \in Nat /\ BuildDeadline \in Nat
  BY <1>2, BoundAssumption DEF TypeOK, LocalTypes
<1>4. pc[r] \in {"render", "store"} => doc[r].readAt \in Nat
  BY <1>2 DEF TypeOK, CallShape, Doc
<1> USE <1>1, <1>2
<1> USE DEF TypeOK, LocalTypes, CallAge, EntryAge, Answer, Reply, Go,
            LoadPointer
<1>5. CASE ServePanel(r)
  BY <1>5 DEF ServePanel
<1>6. CASE RefuseInvalidConfig(r)
  BY <1>6 DEF RefuseInvalidConfig
<1>7. CASE ReadConfig(r)
  BY <1>7 DEF ReadConfig
<1>8. CASE KeysUnavailable(r)
  BY <1>8 DEF KeysUnavailable
<1>9. CASE Unauthorized(r)
  BY <1>9 DEF Unauthorized
<1>10. CASE NotFound(r)
  BY <1>10 DEF NotFound
<1>11. CASE Dispatch(r)
  BY <1>11 DEF Dispatch
<1>12. CASE Capabilities(r)
  BY <1>12 DEF Capabilities
<1>13. CASE StampRefresh(r)
  BY <1>13 DEF StampRefresh
<1>14. CASE PermitRefresh(r)
  BY <1>14 DEF PermitRefresh
<1>15. CASE RefuseRefresh(r)
  BY <1>15 DEF RefuseRefresh
<1>16. CASE DropEntry(r)
  BY <1>16 DEF DropEntry
<1>17. CASE ServeCached(r)
  <2>1. PICK e \in Loaded(r) :
          /\ Fresh(caches[e], req[r].route, now)
          /\ Answer(r, 200, caches[e][req[r].route], now)
    BY <1>17 DEF ServeCached
  <2>2. e \in 0..MaxReconfigure
    BY LoadedCaches
  <2>3. req[r].route \in DocKey
    BY <1>17 DEF ServeCached, CallShape, Serving
  <2>4. /\ EntryAge(caches[e][req[r].route])
        /\ now <= caches[e][req[r].route].expiresAt
    BY <2>1, <2>2, <2>3 DEF Fresh, AgeInv, CachedAge
  <2>5. /\ pc'[r] = "done" /\ resp'[r].at = now
        /\ resp'[r].entry = caches[e][req[r].route]
    BY <2>1
  <2> QED
    BY <2>4, <2>5
<1>18. CASE StartBuild(r)
  BY <1>3, <1>18 DEF StartBuild, CallBound, Working, Serving
<1>19. CASE BuildFails(r)
  BY <1>19 DEF BuildFails
<1>20. CASE ReadUpstream(r)
  <2>1. /\ pc'[r] = "render" /\ doc'[r].readAt = now
        /\ began' = began /\ resp' = resp
    BY <1>20 DEF ReadUpstream
  <2>2. resp[r].entry = None
    BY <1>20 DEF ReadUpstream, CallBound, Working, Serving
  <2> QED
    BY <1>3, <1>20, <2>1, <2>2 DEF ReadUpstream
<1>21. CASE StampStore(r)
  <2>1. pc'[r] = "store" /\ stamp'[r] = now /\ doc' = doc /\ resp' = resp
    BY <1>21 DEF StampStore
  <2>2. resp[r].entry = None
    BY <1>21 DEF StampStore, CallBound, Working, Serving
  <2>3. /\ began[r] <= doc[r].readAt /\ doc[r].readAt <= now
        /\ now <= began[r] + BuildDeadline
    BY <1>21 DEF StampStore
  <2>4. doc[r].readAt \in Nat
    BY <1>4, <1>21 DEF StampStore
  <2>5. now <= doc[r].readAt + BuildDeadline
    BY <1>3, <2>3, <2>4
  <2> QED
    BY <2>1, <2>2, <2>3, <2>5
<1>22. CASE PutDocument(r)
  <2>1. PICK entry \in Entry :
          /\ EntryAge(entry) /\ stamp[r] <= entry.expiresAt
          /\ Answer(r, 200, entry, stamp[r])
    BY <1>22, PutAge
  <2>2. /\ pc'[r] = "done" /\ resp'[r].at = stamp[r]
        /\ resp'[r].entry = entry
    BY <2>1
  <2> QED
    BY <2>1, <2>2
<1> QED
  BY <1>5, <1>6, <1>7, <1>8, <1>9, <1>10, <1>11, <1>12, <1>13, <1>14, <1>15,
     <1>16, <1>17, <1>18, <1>19, <1>20, <1>21, <1>22 DEF Handle

\* So does the environment: the clock waits for the builds in flight.
LEMMA EnvironmentAge ==
  ASSUME AgeInv, NEW r \in Request, Environment
  PROVE  CallAge(r)'
<1>1. CallAge(r) /\ TypeOK /\ now \in Nat
  BY DEF AgeInv, CacheInv, TypeOK, SharedTypes
<1> USE <1>1 DEF CallAge, EntryAge
<1>2. CASE \E s \in Request, q \in ClientRequest : Arrive(s, q)
  <2>1. PICK s \in Request, q \in ClientRequest : Arrive(s, q)
    BY <1>2
  <2>2. UNCHANGED <<now, began, stamp, doc>>
    BY <2>1 DEF Arrive, shared
  <2>3. CASE s = r
    <3>1. pc'[r] = "received" /\ resp'[r].entry = None
      BY <2>1, <2>3 DEF Arrive, Go, NoResponse, TypeOK, LocalTypes
    <3> QED
      BY <3>1
  <2>4. CASE s # r
    <3>1. pc'[r] = pc[r] /\ resp'[r] = resp[r]
      BY <2>1, <2>4 DEF Arrive, Go, TypeOK, LocalTypes
    <3> QED
      BY <2>2, <3>1
  <2> QED
    BY <2>3, <2>4
<1>3. CASE \E c \in Config : Reconfigure(c)
  BY <1>3 DEF Reconfigure, local
<1>4. CASE RejectConfig
  BY <1>4 DEF RejectConfig, local, ghosts
<1>5. CASE \E keys \in ProxyKeyLists : RotateKeys(keys)
  BY <1>5 DEF RotateKeys, local
<1>6. CASE Tick
  <2>1. UNCHANGED <<pc, began, stamp, doc, resp>> /\ now' = now + 1
    BY <1>6 DEF Tick, local
  <2>2. pc[r] \in {"fetch", "render"} => now < began[r] + BuildDeadline
    BY <1>6 DEF Tick
  <2>3. began[r] \in Nat /\ BuildDeadline \in Nat
    BY BoundAssumption DEF TypeOK, LocalTypes
  <2>4. pc[r] = "render" => doc[r].readAt \in Nat
    BY DEF TypeOK, CallShape, Doc
  <2>5. pc[r] \in {"fetch", "render"} =>
          began[r] <= now + 1 /\ now + 1 <= began[r] + BuildDeadline
    BY <2>2, <2>3
  <2>6. pc[r] = "render" => doc[r].readAt <= now + 1
    BY <2>4
  <2> QED
    BY <2>1, <2>5, <2>6
<1> QED
  BY <1>2, <1>3, <1>4, <1>5, <1>6 DEF Environment

\* Initially nothing is cached and nothing is being built.
LEMMA InitAge == Init => AgeInv
<1> SUFFICES ASSUME Init PROVE AgeInv
  OBVIOUS
<1>1. CachedAge
  BY DEF Init, EmptyCache, CachedAge
<1>2. \A r \in Request : pc[r] = "idle" /\ resp[r].entry = None
  BY DEF Init, NoResponse
<1> QED
  BY <1>1, <1>2, InitCaches DEF AgeInv, CallAge

\* Every step keeps all the ages in order.
LEMMA StepAge == AgeInv /\ [Next]_vars => AgeInv'
<1> SUFFICES ASSUME AgeInv, [Next]_vars PROVE AgeInv'
  OBVIOUS
<1>1. CacheInv'
  BY StepCaches DEF AgeInv
<1>2. CASE \E r \in Request : Handle(r)
  <2>1. PICK r \in Request : Handle(r)
    BY <1>2
  <2>2. CachedAge' /\ CallAge(r)'
    BY <2>1, HandleCachedAge, HandleAge
  <2>3. ASSUME NEW s \in Request, s # r PROVE CallAge(s)'
    <3>1. /\ pc'[s] = pc[s] /\ stamp'[s] = stamp[s] /\ began'[s] = began[s]
          /\ doc'[s] = doc[s] /\ resp'[s] = resp[s] /\ now' = now
      BY <2>1, <2>3, HandleFrame, OtherCalls DEF AgeInv, CacheInv
    <3>2. CallAge(s)
      BY DEF AgeInv
    <3> QED
      BY <3>1, <3>2 DEF CallAge, EntryAge
  <2> QED
    BY <1>1, <2>2, <2>3 DEF AgeInv
<1>3. CASE Environment
  <2>1. CachedAge'
    BY <1>3, EnvironmentCaches DEF AgeInv, CacheInv, CachedAge
  <2> QED
    BY <1>1, <1>3, <2>1, EnvironmentAge DEF AgeInv
<1>4. CASE UNCHANGED vars
  BY <1>1, <1>4
  DEF AgeInv, CachedAge, CallAge, EntryAge, vars, shared, local, ghosts
<1> QED
  BY <1>2, <1>3, <1>4 DEF Next

\* No caller is shown data read longer ago than the lifetime it was stored
\* for plus the time of one build.
THEOREM ServedDataIsRecent == Spec => []ServedDataAge
<1>1. AgeInv => ServedDataAge
  <2> SUFFICES ASSUME AgeInv, NEW r \in Request, resp[r].entry # None
               PROVE  resp[r].at - resp[r].entry.value.doc.readAt
                        <= (resp[r].entry.expiresAt - resp[r].entry.storedAt)
                             + BuildDeadline
    BY DEF ServedDataAge
  <2> DEFINE e == resp[r].entry
  <2>1. resp[r] \in Response
    BY DEF AgeInv, CacheInv, TypeOK, LocalTypes
  <2>2. resp[r].at \in Nat /\ e \in Entry
    BY <2>1 DEF Response
  <2>3. e.storedAt \in Nat /\ e.expiresAt \in Nat /\ e.value.doc.readAt \in Nat
    BY <2>2 DEF Entry, Stored, Doc
  <2>4. EntryAge(e) /\ resp[r].at <= e.expiresAt
    BY DEF AgeInv, CallAge
  <2>5. BuildDeadline \in Nat
    BY BoundAssumption
  <2> QED
    BY <2>2, <2>3, <2>4, <2>5 DEF EntryAge
<1> QED
  BY <1>1, InitAge, StepAge, PTL DEF Spec
=============================================================================
