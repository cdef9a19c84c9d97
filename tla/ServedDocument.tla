--------------------------- MODULE ServedDocument ---------------------------
(***************************************************************************)
(* What the callers of ResourceHandler are shown: the cached bytes, shaped *)
(* for the contract each of them asks for (contractFrom, shapeForContract, *)
(* withoutLastModel, shapeDiscovery; src/main.go), while usage records     *)
(* change the counters and the last model behind the usage document.       *)
(*                                                                         *)
(* Every step of ResourceHandler is taken here too, together with what it  *)
(* does to the variables added here.  A document is the function of the    *)
(* sections it has beyond contract v1; the bytes stored by put number n    *)
(* are contents[n].  There is one credential.  Its requests are numbered   *)
(* in the order of their times, and a request's number stands for its      *)
(* model, for the record of it and for the counters' row of the model;     *)
(* every record has its model and its credential, not each its provider.   *)
(***************************************************************************)
EXTENDS ResourceHandler, Sequences

CONSTANTS
  Header,  \* values of X-Pi-Contract: numbers, or None for anything else
  Call,    \* what clients ask for, with their header
  Record,  \* requests of the credential: 1..n
  Uncounted \* those whose record names no provider

ASSUME ServedAssumption ==
  /\ Header \subseteq Int \cup {None}
  /\ Call \subseteq ClientRequest \X Header
  /\ Record \subseteq Nat \ {0}
  /\ Uncounted \subseteq Record

VARIABLES
  header,      \* the header each call carries
  counted,     \* tokenStats: the records counted
  registered,  \* lastModels: the records that reached the register
  named,       \* the last model the call's build read, None before it did
  contents,    \* the documents stored, by the number of the put
  ttl,         \* the lifetime the call works with when it shapes its answer
  shown,       \* the document the call is answered with, or None
  (* History *)
  floor        \* the rows shown by calls answered before the call arrived

served == <<header, counted, registered, named, contents, ttl, shown, floor>>

\* Only the catalog's status is in every catalogue document.
OptionalSection == {"upstream", "providerHealth", "metadataSource"}
DiscoverySection == {"catalog"} \cup OptionalSection

-----------------------------------------------------------------------------
(* usage.handle: the record is counted, then registered *)

\* A record without a provider has no row to be counted on.
CountRecord(n) ==
  /\ n \notin counted \cup Uncounted
  /\ counted' = counted \cup {n}
  /\ UNCHANGED <<vars, header, registered, named, contents, ttl, shown, floor>>

\* Deviation: a record is registered whether or not it was counted before.
RegisterRecord_First(n) ==
  /\ n \notin registered
  /\ registered' = registered \cup {n}
  /\ UNCHANGED <<vars, header, counted, named, contents, ttl, shown, floor>>

RegisterRecord(n) ==
  /\ n \in (counted \cup Uncounted) \ registered
  /\ registered' = registered \cup {n}
  /\ UNCHANGED <<vars, header, counted, named, contents, ttl, shown, floor>>

\* lastModelFor: the newest request registered, 0 for none.
LastModel ==
  IF registered = {} THEN 0
  ELSE CHOOSE n \in registered : \A m \in registered : n >= m

-----------------------------------------------------------------------------
(* Shaping *)

\* contractFrom, contractLatest being 2.
ContractFrom(h) ==
  IF h = None \/ h < 1 THEN 1 ELSE IF h > 2 THEN 2 ELSE h

NoSections == [s \in {} |-> TRUE]

Without(doc_, sections) == [s \in DOMAIN doc_ \ sections |-> doc_[s]]

\* The usage document, with the last model its build read.
UsageBytes(r) ==
  IF named[r] = 0 THEN NoSections ELSE [s \in {"lastModel"} |-> named[r]]

\* The catalogue: upstream is left out when CPA names no version, providerHealth
\* when no credential was listed, metadataSource when no model is custom.
Catalogues ==
  {[s \in {"catalog"} \cup found |-> TRUE] : found \in SUBSET OptionalSection}

\* Deviation: the document is shaped for the caller before it is cached.
Built_ForCaller(r) ==
  IF req[r].route = "usage" THEN {[s \in {"client"} |-> MaskKey[req[r].token]]}
  ELSE Catalogues

\* The documents a build may make and cache, the same for every caller.
Built(r) ==
  IF req[r].route = "usage" THEN {UsageBytes(r)} ELSE Catalogues

\* withoutLastModel below v2; else the caller's hint, the counters of this
\* moment if any record was counted, and the time of the bytes with the
\* caller's lifetime.
ShapeForContract(bytes, contract, hint, rows, storedAt, lifetime) ==
  IF contract < 2 THEN Without(bytes, {"lastModel"})
  ELSE [s \in DOMAIN bytes \cup {"client", "cache"}
                \cup (IF rows = {} THEN {} ELSE {"models"}) |->
          CASE s = "client" -> hint
            [] s = "models" -> rows
            [] s = "cache"  -> [updatedAt |-> storedAt, ttl |-> lifetime]
            [] OTHER        -> bytes[s]]

\* Deviation: the sections are dropped, but not the fields the models carry.
ShapeDiscovery_SectionsOnly(bytes, contract) ==
  IF contract < 2 THEN Without(bytes, DiscoverySection \ {"metadataSource"})
  ELSE bytes

ShapeDiscovery(bytes, contract) ==
  IF contract < 2 THEN Without(bytes, DiscoverySection) ELSE bytes

\* The answer's body: made after the cache was read or written, under the lock
\* of the counters.
Shape(r) ==
  LET entry == resp[r].entry
      bytes == contents[entry.value.no]
      contract == ContractFrom(header[r])
  IN
  /\ pc[r] = "done" /\ entry # None /\ shown[r] = None
  /\ shown' = [shown EXCEPT ![r] =
       IF req[r].route = "usage"
         THEN ShapeForContract(bytes, contract, MaskKey[req[r].token], counted,
                               entry.storedAt, ttl[r])
         ELSE ShapeDiscovery(bytes, contract)]
  /\ UNCHANGED <<vars, header, counted, registered, named, contents, ttl, floor>>

-----------------------------------------------------------------------------
(* The steps of ResourceHandler *)

\* The last model is read after the credentials were listed.
ReadLastModel(r) ==
  /\ pc[r] = "render" /\ req[r].route = "usage" /\ named[r] = None
  /\ named' = [named EXCEPT ![r] = LastModel]
  /\ UNCHANGED <<vars, header, counted, registered, contents, ttl, shown, floor>>

Rows(r) == IF "models" \in DOMAIN shown[r] THEN shown[r]["models"] ELSE {}

RowsShown ==
  UNION {Rows(r) : r \in {x \in Request : shown[x] # None}}

\* A member of Request is used again once its answer is complete.
ArriveWith(r, c) ==
  /\ resp[r].entry # None => shown[r] # None
  /\ Arrive(r, c[1])
  /\ header' = [header EXCEPT ![r] = c[2]]
  /\ named' = [named EXCEPT ![r] = None]
  /\ shown' = [shown EXCEPT ![r] = None]
  /\ floor' = [floor EXCEPT ![r] = RowsShown \cup floor[r]]
  /\ UNCHANGED <<counted, registered, contents, ttl>>

HandleStep(r) ==
  /\ Handle(r)
  /\ pc[r] = "render" /\ req[r].route = "usage" => named[r] # None
  /\ IF puts' = puts THEN contents' = contents
     ELSE \E document \in Built(r) : contents' = Append(contents, document)
  /\ ttl' = IF resp'[r].entry = None THEN ttl
            ELSE [ttl EXCEPT ![r] = TTL(cfg[r], req[r].route)]
  /\ UNCHANGED <<header, counted, registered, named, shown, floor>>

\* Deviation: a reconfiguration starts the counters anew with the caches.
KeepRecords_UntilReconfigured ==
  /\ counted' = IF epoch' = epoch THEN counted ELSE {}
  /\ registered' = IF epoch' = epoch THEN registered ELSE {}

\* applyLifecycleConfig leaves the counters and the register alone.
KeepRecords == UNCHANGED <<counted, registered>>

\* A rejected configuration is left out: it shows nobody anything, and the
\* calls it refuses are calls that never came.
Outside ==
  /\ \/ \E c \in Config : Reconfigure(c)
     \/ \E keys \in ProxyKeyLists : RotateKeys(keys)
     \/ Tick
  /\ KeepRecords
  /\ UNCHANGED <<header, named, contents, ttl, shown, floor>>

\* Before the first configuration arrives the default one is in force.
ServedInit ==
  /\ Init /\ config = DefaultConfig /\ ~configErr
  /\ header = [r \in Request |-> None]
  /\ counted = {} /\ registered = {}
  /\ named = [r \in Request |-> None]
  /\ contents = <<>>
  /\ ttl = [r \in Request |-> 0]
  /\ shown = [r \in Request |-> None]
  /\ floor = [r \in Request |-> {}]

ServedNext ==
  \/ \E n \in Record : CountRecord(n) \/ RegisterRecord(n)
  \/ \E r \in Request : \/ \E c \in Call : ArriveWith(r, c)
                        \/ HandleStep(r) \/ ReadLastModel(r) \/ Shape(r)
  \/ Outside

ServedSpec == ServedInit /\ [][ServedNext]_<<vars, served>>

-----------------------------------------------------------------------------
(* Properties *)

\* main.go:454, 485, 567: however callers of both contracts share the cached
\* bytes, a v1 caller is shown no section v1 does not have, and a v2 caller is
\* shown every section the document was built with, its own hint and nothing
\* more; models only with rows in it (README.md:111).
ShapedForTheCaller ==
  \A r \in Request : shown[r] # None =>
    LET sections == DOMAIN shown[r]
        bytes == contents[resp[r].entry.value.no]
    IN
    IF ContractFrom(header[r]) = 1 THEN sections = {}
    ELSE /\ \A s \in DOMAIN bytes : s \in sections /\ shown[r][s] = bytes[s]
         /\ IF req[r].route = "usage"
              THEN /\ {"client", "cache"} \subseteq sections
                   /\ sections \ {"client", "cache"}
                        \subseteq {"lastModel", "models"}
                   /\ shown[r]["client"] = MaskKey[req[r].token]
                   /\ "models" \in sections => shown[r]["models"] # {}
              ELSE /\ "catalog" \in sections
                   /\ sections \subseteq DiscoverySection

\* main.go:504: the data behind a document that says it is not stale is no
\* older than the lifetime it names plus the time a build may take, unless it
\* was built under another configuration than the one its reader works with.
ProvenanceIsHonest ==
  \A r \in Request :
    shown[r] # None /\ "cache" \in DOMAIN shown[r] =>
      LET cache == shown[r]["cache"]
          built == resp[r].entry.value.doc
      IN built.builtUnder = readEpoch[r] =>
           /\ resp[r].at - cache.updatedAt <= cache.ttl
           /\ cache.updatedAt - built.readAt \in 0..BuildDeadline

\* A model a document names as a credential's last one has a row in the
\* counters of the same document, although the one was read when the document
\* was built and the others when it was shown.  Only a record without a
\* provider, which is registered and never counted (tokenstats.go:51,
\* lastmodel.go:27), leaves it without one.
LastModelHasRow ==
  \A r \in Request :
    shown[r] # None /\ "lastModel" \in DOMAIN shown[r]
      => shown[r]["lastModel"] \in Rows(r) \cup Uncounted

\* README.md:107: a client subtracts two snapshots it was shown one after the
\* other: whatever was cached or reconfigured in between, the later one has
\* every row of the earlier one.
RowsOnlyGrow ==
  \A r \in Request :
    shown[r] # None /\ "cache" \in DOMAIN shown[r] => floor[r] \subseteq Rows(r)
=============================================================================
