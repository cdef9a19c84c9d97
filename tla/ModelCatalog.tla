---------------------------- MODULE ModelCatalog ----------------------------
(***************************************************************************)
(* The models.dev snapshot (modelCatalog, src/catalog.go) and the builds   *)
(* of the discovery document that refresh it and look models up in it      *)
(* (buildDiscovery and resolveModelMeta, src/discovery.go).                *)
(*                                                                         *)
(* Builds run concurrently.  A build checks the snapshot's age, downloads  *)
(* without a lock, installs, looks its models up one by one and reports    *)
(* the snapshot's status last: each is a critical section of its own.  How *)
(* a downloaded document is flattened is the subject of CatalogPick; here  *)
(* a snapshot is the set of the ids it has metadata for.                   *)
(***************************************************************************)
EXTENDS Integers, Sequences

CONSTANTS
  Build,        \* builds that may run together
  Id,           \* model ids, of the proxy and of models.dev
  Alias,        \* model_aliases; an id without an alias is its own
  Overridden,   \* the ids model_overrides has
  PriceTables,  \* external: what CPAM's price table may cover, {} on failure
  ModelLists,   \* external: the models the proxy may serve
  Content,      \* external: models.dev's successive contents
  CatalogTTL,   \* catalogTTL
  FetchLimit,   \* catalogFetchLimit
  None,
  MaxTime       \* bound on the clock

Source == {"override", "cpam", "alias", "catalog", "default"}

ASSUME CatalogAssumption ==
  /\ Alias \in [Id -> Id] /\ Overridden \subseteq Id
  /\ PriceTables \subseteq SUBSET Id /\ ModelLists \subseteq SUBSET Id
  /\ Content \in Seq(SUBSET Id) /\ Content # <<>>
  /\ CatalogTTL \in Nat \ {0} /\ FetchLimit \in Nat \ {0} /\ MaxTime \in Nat
  /\ None \notin Nat \cup Source

VARIABLES
  now,
  published,  \* external: which content models.dev serves
  entries,    \* the snapshot's ids
  fetchedAt,  \* when it was installed, None for the zero time
  lastError,  \* whether lastError is set
  pc,         \* where each build is
  todo,       \* the models it has still to resolve
  payload,    \* the ids it downloaded
  asked,      \* when its download started
  cpam,       \* the ids of the price table it read
  sources,    \* metadataSource of the models it resolved, None for the others
  doc,        \* the catalogue status it reported, or None
  (* History, read by the properties only. *)
  readAt,     \* when models.dev answered with the snapshot
  answered,   \* when models.dev answered the build
  checkedAt,  \* when the build checked the snapshot's age
  failed      \* whether the build's refresh failed

global  == <<entries, fetchedAt, lastError, readAt>>
local   == <<todo, payload, asked, cpam, sources, doc, answered, checkedAt, failed>>
vars    == <<now, published, global, pc, local>>

Status == [known : SUBSET Id, unmatched : SUBSET Id, fetchedAt : Nat \cup {None},
           stale : BOOLEAN, unavailable : BOOLEAN, at : Nat]

\* The snapshot is empty exactly as long as nothing was installed.
TypeOK ==
  /\ now \in Nat /\ published \in DOMAIN Content
  /\ entries \in SUBSET Id /\ fetchedAt \in Nat \cup {None}
  /\ entries = {} <=> fetchedAt = None
  /\ lastError \in BOOLEAN /\ readAt \in Nat
  /\ pc \in [Build -> {"idle", "models", "check", "download", "install",
                       "prices", "resolve", "failed", "done"}]
  /\ todo \in [Build -> SUBSET Id] /\ payload \in [Build -> SUBSET Id]
  /\ cpam \in [Build -> SUBSET Id]
  /\ sources \in [Build -> [Id -> Source \cup {None}]]
  /\ doc \in [Build -> Status \cup {None}]
  /\ asked \in [Build -> Nat] /\ answered \in [Build -> Nat]
  /\ checkedAt \in [Build -> Nat] /\ failed \in [Build -> BOOLEAN]

-----------------------------------------------------------------------------
Unresolved == [id \in Id |-> None]

Init ==
  /\ now = 0 /\ published = 1
  /\ entries = {} /\ fetchedAt = None /\ lastError = FALSE /\ readAt = 0
  /\ pc = [b \in Build |-> "idle"]
  /\ todo = [b \in Build |-> {}] /\ payload = [b \in Build |-> {}]
  /\ cpam = [b \in Build |-> {}] /\ sources = [b \in Build |-> Unresolved]
  /\ doc = [b \in Build |-> None]
  /\ asked = [b \in Build |-> 0] /\ answered = [b \in Build |-> 0]
  /\ checkedAt = [b \in Build |-> 0] /\ failed = [b \in Build |-> FALSE]

Go(b, where) == pc' = [pc EXCEPT ![b] = where]

\* A well-known document is asked for and not cached.
Start(b) ==
  /\ pc[b] \in {"idle", "failed", "done"}
  /\ Go(b, "models")
  /\ todo' = [todo EXCEPT ![b] = {}] /\ payload' = [payload EXCEPT ![b] = {}]
  /\ asked' = [asked EXCEPT ![b] = 0] /\ cpam' = [cpam EXCEPT ![b] = {}]
  /\ sources' = [sources EXCEPT ![b] = Unresolved]
  /\ doc' = [doc EXCEPT ![b] = None]
  /\ answered' = [answered EXCEPT ![b] = 0]
  /\ checkedAt' = [checkedAt EXCEPT ![b] = 0]
  /\ failed' = [failed EXCEPT ![b] = FALSE]
  /\ UNCHANGED <<now, published, global>>

\* fetchModels: without a model list there is no document and no refresh.
FetchModels(b) ==
  /\ pc[b] = "models"
  /\ \/ Go(b, "failed") /\ UNCHANGED todo
     \/ \E list \in ModelLists :
          Go(b, "check") /\ todo' = [todo EXCEPT ![b] = list]
  /\ UNCHANGED <<now, published, global, payload, asked, cpam, sources, doc,
                 answered, checkedAt, failed>>

-----------------------------------------------------------------------------
(* modelCatalog.refresh *)

\* Deviation: a snapshot that exists is never due.
Fresh_WhateverItsAge == entries # {}

Fresh == entries # {} /\ now - fetchedAt < CatalogTTL

CheckFresh(b) ==
  /\ pc[b] = "check"
  /\ Go(b, IF Fresh THEN "prices" ELSE "download")
  /\ asked' = [asked EXCEPT ![b] = now]
  /\ checkedAt' = [checkedAt EXCEPT ![b] = now]
  /\ UNCHANGED <<now, published, global, todo, payload, cpam, sources, doc,
                 answered, failed>>

\* models.dev answers with what it serves at that moment.
Download(b) ==
  /\ pc[b] = "download"
  /\ Go(b, "install")
  /\ payload' = [payload EXCEPT ![b] = Content[published]]
  /\ answered' = [answered EXCEPT ![b] = now]
  /\ UNCHANGED <<now, published, global, todo, asked, cpam, sources, doc,
                 checkedAt, failed>>

\* Deviation: a failed download drops the snapshot.
DownloadFails_DropsSnapshot(b) ==
  /\ pc[b] = "download"
  /\ Go(b, "prices")
  /\ entries' = {} /\ fetchedAt' = None
  /\ lastError' = TRUE
  /\ failed' = [failed EXCEPT ![b] = TRUE]
  /\ UNCHANGED <<now, published, readAt, todo, payload, asked, cpam, sources,
                 doc, answered, checkedAt>>

\* Deviation: a failed download counts as a refresh, so as not to be repeated.
DownloadFails_Stamps(b) ==
  /\ pc[b] = "download"
  /\ Go(b, "prices")
  /\ fetchedAt' = IF entries = {} THEN None ELSE now
  /\ lastError' = TRUE
  /\ failed' = [failed EXCEPT ![b] = TRUE]
  /\ UNCHANGED <<now, published, entries, readAt, todo, payload, asked, cpam,
                 sources, doc, answered, checkedAt>>

DownloadFails(b) ==
  /\ pc[b] = "download"
  /\ Go(b, "prices")
  /\ lastError' = TRUE
  /\ failed' = [failed EXCEPT ![b] = TRUE]
  /\ UNCHANGED <<now, published, entries, fetchedAt, readAt, todo, payload,
                 asked, cpam, sources, doc, answered, checkedAt>>

\* An answer without usable entries is a failure too.
RefuseEmpty(b) ==
  /\ pc[b] = "install"
  /\ payload[b] = {}
  /\ Go(b, "prices")
  /\ lastError' = TRUE
  /\ failed' = [failed EXCEPT ![b] = TRUE]
  /\ UNCHANGED <<now, published, entries, fetchedAt, readAt, todo, payload,
                 asked, cpam, sources, doc, answered, checkedAt>>

\* Deviation: whatever was downloaded is installed.
Install_Anything(b) ==
  /\ pc[b] = "install"
  /\ Go(b, "prices")
  /\ entries' = payload[b]
  /\ fetchedAt' = now
  /\ lastError' = FALSE
  /\ readAt' = answered[b]
  /\ UNCHANGED <<now, published, local>>

\* Deviation: the time is not taken down.
Install_NoTime(b) ==
  /\ pc[b] = "install"
  /\ payload[b] # {}
  /\ Go(b, "prices")
  /\ entries' = payload[b]
  /\ lastError' = FALSE
  /\ readAt' = answered[b]
  /\ UNCHANGED <<now, published, fetchedAt, local>>

\* The download replaces the snapshot, whatever was installed meanwhile.
Install(b) ==
  /\ pc[b] = "install"
  /\ payload[b] # {}
  /\ Go(b, "prices")
  /\ entries' = payload[b]
  /\ fetchedAt' = now
  /\ lastError' = FALSE
  /\ readAt' = answered[b]
  /\ UNCHANGED <<now, published, local>>

-----------------------------------------------------------------------------
(* The rest of buildDiscovery *)

\* loadCPAMEntries: no table when CPAM is not configured or does not answer.
LoadPrices(b) ==
  /\ pc[b] = "prices"
  /\ Go(b, "resolve")
  /\ \E table \in PriceTables : cpam' = [cpam EXCEPT ![b] = table]
  /\ UNCHANGED <<now, published, global, todo, payload, asked, sources, doc,
                 answered, checkedAt, failed>>

\* Deviation: the catalogue is asked for the proxy's id.
SourceOf_NoAlias(b, id) ==
  IF id \in Overridden THEN "override"
  ELSE IF id \in cpam[b] THEN "cpam"
  ELSE IF id \in entries THEN "catalog"
  ELSE "default"

\* resolveModelMeta: where the metadata of an id comes from.
SourceOf(b, id) ==
  IF id \in Overridden THEN "override"
  ELSE IF {id, Alias[id]} \cap cpam[b] # {} THEN "cpam"
  ELSE IF Alias[id] \in entries
    THEN IF Alias[id] = id THEN "catalog" ELSE "alias"
  ELSE "default"

Resolve(b, id) ==
  /\ pc[b] = "resolve"
  /\ id \in todo[b]
  /\ todo' = [todo EXCEPT ![b] = @ \ {id}]
  /\ sources' = [sources EXCEPT ![b][id] = SourceOf(b, id)]
  /\ UNCHANGED <<now, published, global, pc, payload, asked, cpam, doc,
                 answered, checkedAt, failed>>

\* status: stale is strict where the freshness of refresh is strict too, so a
\* snapshot exactly CatalogTTL old is neither.
Stale == entries # {} /\ now - fetchedAt > CatalogTTL

ReportStatus(b) ==
  /\ pc[b] = "resolve"
  /\ todo[b] = {}
  /\ Go(b, "done")
  /\ doc' = [doc EXCEPT ![b] =
       [known |-> entries,
        unmatched |-> {id \in Id : sources[b][id] = "default"},
        fetchedAt |-> fetchedAt, stale |-> Stale,
        unavailable |-> entries = {}, at |-> now]]
  /\ UNCHANGED <<now, published, global, todo, payload, asked, cpam, sources,
                 answered, checkedAt, failed>>

\* External: models.dev changes what it serves.
Publish ==
  /\ published + 1 \in DOMAIN Content
  /\ published' = published + 1
  /\ UNCHANGED <<now, global, pc, local>>

\* The download carries a timeout of its own.  Flattening what arrived is
\* taken to fit in it.
Tick ==
  /\ now < MaxTime
  /\ \A b \in Build :
       pc[b] \in {"download", "install"} => now < asked[b] + FetchLimit
  /\ now' = now + 1
  /\ UNCHANGED <<published, global, pc, local>>

Step(b) ==
  \/ Start(b) \/ FetchModels(b)
  \/ CheckFresh(b) \/ Download(b) \/ DownloadFails(b)
  \/ RefuseEmpty(b) \/ Install(b)
  \/ LoadPrices(b) \/ (\E id \in Id : Resolve(b, id)) \/ ReportStatus(b)

Next == (\E b \in Build : Step(b)) \/ Publish \/ Tick

Spec == Init /\ [][Next]_vars

-----------------------------------------------------------------------------
(* Properties *)

\* catalog.go:71: a failed refresh, or one that brings nothing usable, keeps
\* the previous snapshot, also when another build installs in between.
SnapshotKept == [][entries # {} => entries' # {}]_vars

\* The time a snapshot claims to be of is never later than the moment
\* models.dev answered by more than a download may take: failing to refresh
\* does not make it look younger.
AgeIsHonest == entries # {} => fetchedAt - readAt <= FetchLimit

\* A document that took a model's metadata from the catalogue never says that
\* the catalogue is unavailable, although it asks for the status last.
MatchedMeansAvailable ==
  \A b \in Build :
    doc[b] # None /\ (\E id \in Id : sources[b][id] \in {"catalog", "alias"})
      => ~doc[b].unavailable

\* A document calls the snapshot stale only when the build's own refresh
\* failed or the snapshot came of age while the build ran.
StaleIsExplained ==
  \A b \in Build :
    doc[b] # None /\ doc[b].stale /\ ~failed[b]
      => doc[b].at - doc[b].fetchedAt <= CatalogTTL + (doc[b].at - checkedAt[b])

\* discovery.go:83: the unmatched ids a document lists are missing from the
\* catalogue it reports, under their aliases too, unless that catalogue was
\* installed after the build had looked after its own: the status is read
\* after the lookups, and another build may finish its download in between.
UnmatchedIsExplained ==
  \A b \in Build :
    doc[b] # None =>
      \A id \in doc[b].unmatched :
        Alias[id] \in doc[b].known => doc[b].fetchedAt >= checkedAt[b]
=============================================================================
