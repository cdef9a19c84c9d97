------------------------- MODULE ModelCatalogProofs -------------------------
(***************************************************************************)
(* Proofs about ModelCatalog, for every set of builds and ids, every       *)
(* sequence of contents, every lifetime and every bound on a download.     *)
(***************************************************************************)
EXTENDS ModelCatalog, TLAPS

-----------------------------------------------------------------------------
(* Types *)

\* What models.dev serves is a set of ids.
LEMMA PublishedContent == TypeOK => Content[published] \in SUBSET Id
BY CatalogAssumption DEF TypeOK

\* Every step of a build keeps the types, and the snapshot empty exactly as
\* long as nothing was installed.
LEMMA StepTypes ==
  ASSUME TypeOK, NEW b \in Build, Step(b)
  PROVE  TypeOK'
<1> USE DEF TypeOK, Go, global, local
<1>1. CASE Start(b)
  BY <1>1 DEF Start, Unresolved
<1>2. CASE FetchModels(b)
  <2>1. todo' \in [Build -> SUBSET Id]
    BY <1>2, CatalogAssumption DEF FetchModels
  <2>2. pc' \in [Build -> {"idle", "models", "check", "download", "install",
                           "prices", "resolve", "failed", "done"}]
    BY <1>2 DEF FetchModels
  <2> QED
    BY <1>2, <2>1, <2>2 DEF FetchModels
<1>3. CASE CheckFresh(b)
  <2>1. pc' = [pc EXCEPT ![b] = IF Fresh THEN "prices" ELSE "download"]
    BY <1>3 DEF CheckFresh
  <2> QED
    BY <1>3, <2>1 DEF CheckFresh
<1>4. CASE Download(b)
  BY <1>4, PublishedContent DEF Download
<1>5. CASE DownloadFails(b)
  BY <1>5 DEF DownloadFails
<1>6. CASE RefuseEmpty(b)
  BY <1>6 DEF RefuseEmpty
<1>7. CASE Install(b)
  <2>1. /\ entries' = payload[b] /\ payload[b] # {} /\ payload[b] \in SUBSET Id
        /\ fetchedAt' = now /\ now # None /\ readAt' \in Nat
    BY <1>7, CatalogAssumption DEF Install
  <2> QED
    BY <1>7, <2>1 DEF Install
<1>8. CASE LoadPrices(b)
  BY <1>8, CatalogAssumption DEF LoadPrices
<1>9. CASE \E id \in Id : Resolve(b, id)
  <2>1. PICK id \in Id : Resolve(b, id)
    BY <1>9
  <2>2. SourceOf(b, id) \in Source
    BY DEF SourceOf, Source
  <2>3. sources' = [sources EXCEPT ![b] = [sources[b] EXCEPT
                                             ![id] = SourceOf(b, id)]]
    BY <2>1 DEF Resolve
  <2>4. sources' \in [Build -> [Id -> Source \cup {None}]]
    BY <2>2, <2>3
  <2>5. todo' \in [Build -> SUBSET Id]
    BY <2>1 DEF Resolve
  <2> QED
    BY <2>1, <2>4, <2>5 DEF Resolve
<1>10. CASE ReportStatus(b)
  <2> DEFINE d == [known |-> entries,
                   unmatched |-> {id \in Id : sources[b][id] = "default"},
                   fetchedAt |-> fetchedAt, stale |-> Stale,
                   unavailable |-> entries = {}, at |-> now]
  <2>1. Stale \in BOOLEAN /\ (entries = {}) \in BOOLEAN
    BY DEF Stale
  <2>2. d \in Status
    BY <2>1 DEF Status
  <2> HIDE DEF d
  <2>3. doc' = [doc EXCEPT ![b] = d]
    BY <1>10 DEF ReportStatus, d
  <2>4. doc' \in [Build -> Status \cup {None}]
    BY <2>2, <2>3
  <2>6. pc' \in [Build -> {"idle", "models", "check", "download", "install",
                           "prices", "resolve", "failed", "done"}]
    BY <1>10 DEF ReportStatus
  <2>5. UNCHANGED <<now, published, global, todo, payload, asked, cpam, sources,
                    answered, checkedAt, failed>>
    BY <1>10 DEF ReportStatus
  <2> QED
    BY <2>4, <2>5, <2>6
<1> QED
  BY <1>1, <1>2, <1>3, <1>4, <1>5, <1>6, <1>7, <1>8, <1>9, <1>10 DEF Step

\* Initially every variable has its type.
LEMMA InitTypes == Init => TypeOK
<1>1. 1 \in DOMAIN Content
  <2>1. /\ Content \in Seq(SUBSET Id) /\ Content # <<>>
        /\ DOMAIN Content = 1..Len(Content) /\ Len(Content) \in Nat
    BY CatalogAssumption
  <2>2. Len(Content) # 0
    BY <2>1
  <2> QED
    BY <2>1, <2>2
<1> SUFFICES ASSUME Init PROVE TypeOK
  OBVIOUS
<1>2. /\ sources \in [Build -> [Id -> Source \cup {None}]]
      /\ doc \in [Build -> Status \cup {None}]
  BY DEF Init, Unresolved
<1>3. /\ asked \in [Build -> Nat] /\ answered \in [Build -> Nat]
      /\ checkedAt \in [Build -> Nat] /\ failed \in [Build -> BOOLEAN]
      /\ todo \in [Build -> SUBSET Id] /\ payload \in [Build -> SUBSET Id]
      /\ cpam \in [Build -> SUBSET Id]
  BY DEF Init
<1> QED
  BY <1>1, <1>2, <1>3 DEF Init, TypeOK

\* TypeOK is inductive.
LEMMA NextTypes == TypeOK /\ [Next]_vars => TypeOK'
<1> SUFFICES ASSUME TypeOK, [Next]_vars PROVE TypeOK'
  OBVIOUS
<1>1. CASE \E b \in Build : Step(b)
  BY <1>1, StepTypes
<1>2. CASE Publish
  BY <1>2 DEF Publish, TypeOK, global, local
<1>3. CASE Tick
  BY <1>3 DEF Tick, TypeOK, global, local
<1>4. CASE UNCHANGED vars
  BY <1>4 DEF vars, TypeOK, global, local
<1> QED
  BY <1>1, <1>2, <1>3, <1>4 DEF Next

\* The snapshot has a time exactly when it has entries, whatever the builds
\* install and fail to install.
THEOREM TypesHold == Spec => []TypeOK
BY InitTypes, NextTypes, PTL DEF Spec

-----------------------------------------------------------------------------
(* The snapshot *)

\* What a step of a build does to the snapshot: nothing, or it installs what
\* was downloaded.
LEMMA SnapshotMoves ==
  ASSUME TypeOK, NEW b \in Build, Step(b)
  PROVE  \/ UNCHANGED <<now, entries, fetchedAt, readAt>>
         \/ /\ Install(b) /\ now' = now
            /\ entries' # {} /\ fetchedAt' = now /\ readAt' = answered[b]
<1>1. CASE Install(b)
  BY <1>1 DEF Install
<1>2. CASE ~Install(b)
  BY <1>2 DEF Step, Start, FetchModels, CheckFresh, Download, DownloadFails,
     RefuseEmpty, LoadPrices, Resolve, ReportStatus, global
<1> QED
  BY <1>1, <1>2

\* A snapshot is replaced and never given up.
THEOREM SnapshotStays == Spec => SnapshotKept
<1>1. TypeOK /\ [Next]_vars => [entries # {} => entries' # {}]_vars
  <2> SUFFICES ASSUME TypeOK, Next PROVE entries # {} => entries' # {}
    OBVIOUS
  <2>1. CASE \E b \in Build : Step(b)
    BY <2>1, SnapshotMoves
  <2>2. CASE Publish \/ Tick
    BY <2>2 DEF Publish, Tick, global
  <2> QED
    BY <2>1, <2>2 DEF Next
<1> QED
  BY <1>1, TypesHold, PTL DEF Spec, SnapshotKept

-----------------------------------------------------------------------------
(* What a build knows of the snapshot *)

\* The snapshot was installed within one download of what it shows.
SnapshotHonest ==
  entries # {} => fetchedAt <= readAt + FetchLimit /\ fetchedAt <= now

\* What a document says agrees with how it was made.
DocHonest(b) ==
  LET d == doc[b] IN
  /\ (\E id \in Id : sources[b][id] \in {"catalog", "alias"})
       => ~d.unavailable
  /\ d.stale /\ ~failed[b]
       => d.at - d.fetchedAt <= CatalogTTL + (d.at - checkedAt[b])
  /\ \A id \in d.unmatched :
       Alias[id] \in d.known => d.fetchedAt >= checkedAt[b]

\* A download stays within its limit and starts where the age was checked; a
\* build that did not fail to refresh looks at a snapshot that was fresh at
\* the check; what it found there is still there, and what it did not find
\* came with a later snapshot.
BuildInv(b) ==
  /\ pc[b] \in {"download", "install"} =>
       /\ checkedAt[b] = asked[b] /\ asked[b] <= now
       /\ now <= asked[b] + FetchLimit
  /\ pc[b] = "install" => asked[b] <= answered[b]
  /\ pc[b] \in {"prices", "resolve"} => checkedAt[b] <= now
  /\ pc[b] \in {"prices", "resolve"} /\ ~failed[b] =>
       entries # {} /\ checkedAt[b] <= fetchedAt + CatalogTTL
  /\ pc[b] \notin {"resolve", "done"} => \A id \in Id : sources[b][id] = None
  /\ \A id \in Id : sources[b][id] \in {"catalog", "alias"} => entries # {}
  /\ pc[b] = "resolve" =>
       \A id \in Id : sources[b][id] = "default" /\ Alias[id] \in entries
         => fetchedAt >= checkedAt[b]
  /\ doc[b] # None => pc[b] = "done" /\ DocHonest(b)

CatalogInv == TypeOK /\ SnapshotHonest /\ \A b \in Build : BuildInv(b)

\* A step of one build leaves the others where they are.
LEMMA OtherBuilds ==
  ASSUME TypeOK, NEW b \in Build, NEW c \in Build, c # b, Step(b)
  PROVE  /\ pc'[c] = pc[c] /\ asked'[c] = asked[c] /\ answered'[c] = answered[c]
         /\ checkedAt'[c] = checkedAt[c] /\ failed'[c] = failed[c]
         /\ sources'[c] = sources[c] /\ doc'[c] = doc[c]
<1> USE DEF TypeOK, Go, global, local
<1>1. CASE Start(b)
  BY <1>1 DEF Start
<1>2. CASE FetchModels(b)
  BY <1>2 DEF FetchModels
<1>3. CASE CheckFresh(b)
  BY <1>3 DEF CheckFresh
<1>4. CASE Download(b)
  BY <1>4 DEF Download
<1>5. CASE DownloadFails(b)
  BY <1>5 DEF DownloadFails
<1>6. CASE RefuseEmpty(b)
  BY <1>6 DEF RefuseEmpty
<1>7. CASE Install(b)
  BY <1>7 DEF Install
<1>8. CASE LoadPrices(b)
  BY <1>8 DEF LoadPrices
<1>9. CASE \E id \in Id : Resolve(b, id)
  BY <1>9 DEF Resolve
<1>10. CASE ReportStatus(b)
  BY <1>10 DEF ReportStatus
<1> QED
  BY <1>1, <1>2, <1>3, <1>4, <1>5, <1>6, <1>7, <1>8, <1>9, <1>10 DEF Step

\* A build that waits loses nothing: the snapshot is the one it knew or one
\* installed now, and only within the limits of the downloads does time pass.
LEMMA WaitingBuild ==
  ASSUME CatalogInv, NEW c \in Build,
         pc'[c] = pc[c], asked'[c] = asked[c], answered'[c] = answered[c],
         checkedAt'[c] = checkedAt[c], failed'[c] = failed[c],
         sources'[c] = sources[c], doc'[c] = doc[c],
         now' = now, entries # {} => entries' # {},
         \/ UNCHANGED <<entries, fetchedAt>>
         \/ fetchedAt' = now
  PROVE  BuildInv(c)'
<1>1. /\ BuildInv(c) /\ now \in Nat /\ asked[c] \in Nat /\ checkedAt[c] \in Nat
      /\ fetchedAt \in Nat \cup {None} /\ (entries # {} => fetchedAt \in Nat)
  BY DEF CatalogInv, TypeOK
<1>2. DocHonest(c) => DocHonest(c)'
  BY DEF DocHonest
<1>3. CASE UNCHANGED <<entries, fetchedAt>>
  BY <1>1, <1>2, <1>3 DEF BuildInv
<1>4. CASE fetchedAt' = now
  <2>1. CatalogTTL \in Nat
    BY CatalogAssumption
  <2>2. pc[c] \in {"prices", "resolve"} =>
          checkedAt[c] <= now /\ checkedAt[c] <= now + CatalogTTL
    BY <1>1, <2>1 DEF BuildInv
  <2> QED
    BY <1>1, <1>2, <1>4, <2>2 DEF BuildInv
<1> QED
  BY <1>3, <1>4

\* A build's own step keeps what it knows.
LEMMA OwnStep ==
  ASSUME CatalogInv, NEW b \in Build, Step(b)
  PROVE  BuildInv(b)'
<1>1. /\ BuildInv(b) /\ now \in Nat /\ asked[b] \in Nat /\ checkedAt[b] \in Nat
      /\ answered[b] \in Nat /\ TypeOK
      /\ entries # {} => fetchedAt \in Nat
      /\ CatalogTTL \in Nat /\ FetchLimit \in Nat
  BY CatalogAssumption DEF CatalogInv, TypeOK
<1>2. /\ None # "default" /\ None # "catalog" /\ None # "alias"
  BY CatalogAssumption DEF Source
<1>3. CASE Start(b)
  <2>1. pc'[b] = "models" /\ doc'[b] = None /\ sources'[b] = Unresolved
    BY <1>1, <1>3 DEF Start, Go, TypeOK
  <2>2. \A id \in Id : sources'[b][id] = None
    BY <2>1 DEF Unresolved
  <2> QED
    BY <1>2, <2>1, <2>2 DEF BuildInv
<1>4. CASE FetchModels(b)
  <2>1. pc'[b] \in {"failed", "check"} /\ doc' = doc
        /\ sources' = sources /\ pc[b] = "models"
    BY <1>1, <1>4 DEF FetchModels, Go, TypeOK
  <2>2. doc[b] = None /\ \A id \in Id : sources[b][id] = None
    BY <1>1, <2>1 DEF BuildInv
  <2> QED
    BY <1>2, <2>1, <2>2 DEF BuildInv
<1>5. CASE CheckFresh(b)
  <2>1. /\ pc'[b] = IF Fresh THEN "prices" ELSE "download"
        /\ doc' = doc /\ sources' = sources /\ pc[b] = "check"
        /\ asked'[b] = now /\ checkedAt'[b] = now
        /\ now' = now /\ entries' = entries /\ fetchedAt' = fetchedAt
    BY <1>1, <1>5 DEF CheckFresh, Go, TypeOK, global
  <2>2. doc[b] = None /\ \A id \in Id : sources[b][id] = None
    BY <1>1, <2>1 DEF BuildInv
  <2>3. Fresh => entries # {} /\ now <= fetchedAt + CatalogTTL
    BY <1>1 DEF Fresh
  <2>4. now <= now + FetchLimit /\ now <= now
    BY <1>1
  <2> QED
    BY <1>2, <2>1, <2>2, <2>3, <2>4 DEF BuildInv
<1>6. CASE Download(b)
  <2>1. /\ pc'[b] = "install" /\ pc[b] = "download" /\ answered'[b] = now
        /\ now' = now /\ asked' = asked /\ checkedAt' = checkedAt
        /\ sources' = sources /\ doc' = doc
    BY <1>1, <1>6 DEF Download, Go, TypeOK
  <2>2. doc[b] = None /\ \A id \in Id : sources[b][id] = None
    BY <1>1, <2>1 DEF BuildInv
  <2>3. checkedAt[b] = asked[b] /\ asked[b] <= now /\ now <= asked[b] + FetchLimit
    BY <1>1, <2>1 DEF BuildInv
  <2> QED
    BY <1>2, <2>1, <2>2, <2>3 DEF BuildInv
<1>7. CASE DownloadFails(b) \/ RefuseEmpty(b)
  <2>1. /\ pc'[b] = "prices" /\ pc[b] \in {"download", "install"}
        /\ failed'[b] = TRUE
        /\ now' = now /\ checkedAt' = checkedAt
        /\ sources' = sources /\ doc' = doc
    BY <1>1, <1>7 DEF DownloadFails, RefuseEmpty, Go, TypeOK
  <2>2. doc[b] = None /\ \A id \in Id : sources[b][id] = None
    BY <1>1, <2>1 DEF BuildInv
  <2>3. checkedAt[b] <= now
    BY <1>1, <2>1 DEF BuildInv
  <2> QED
    BY <1>2, <2>1, <2>2, <2>3 DEF BuildInv
<1>8. CASE Install(b)
  <2>1. /\ pc'[b] = "prices" /\ pc[b] = "install"
        /\ fetchedAt' = now /\ entries' # {}
        /\ now' = now /\ checkedAt' = checkedAt
        /\ sources' = sources /\ doc' = doc
    BY <1>1, <1>8 DEF Install, Go, TypeOK, local
  <2>2. doc[b] = None /\ \A id \in Id : sources[b][id] = None
    BY <1>1, <2>1 DEF BuildInv
  <2>3. checkedAt[b] <= now /\ checkedAt[b] <= now + CatalogTTL
    BY <1>1, <2>1 DEF BuildInv
  <2> QED
    BY <1>2, <2>1, <2>2, <2>3 DEF BuildInv
<1>9. CASE LoadPrices(b)
  <2>1. /\ pc'[b] = "resolve" /\ pc[b] = "prices"
        /\ now' = now /\ checkedAt' = checkedAt /\ failed' = failed
        /\ sources' = sources /\ doc' = doc
        /\ entries' = entries /\ fetchedAt' = fetchedAt
    BY <1>1, <1>9 DEF LoadPrices, Go, TypeOK, global
  <2>2. doc[b] = None /\ \A id \in Id : sources[b][id] = None
    BY <1>1, <2>1 DEF BuildInv
  <2>3. /\ checkedAt[b] <= now
        /\ ~failed[b] => entries # {} /\ checkedAt[b] <= fetchedAt + CatalogTTL
    BY <1>1, <2>1 DEF BuildInv
  <2> QED
    BY <1>2, <2>1, <2>2, <2>3 DEF BuildInv
<1>10. CASE \E id \in Id : Resolve(b, id)
  <2>1. PICK id \in Id : Resolve(b, id)
    BY <1>10
  <2>2. /\ pc[b] = "resolve" /\ pc' = pc
        /\ now' = now /\ checkedAt' = checkedAt /\ failed' = failed /\ doc' = doc
        /\ entries' = entries /\ fetchedAt' = fetchedAt
    BY <2>1 DEF Resolve, global
  <2>3. /\ sources'[b][id] = SourceOf(b, id)
        /\ \A x \in Id : x # id => sources'[b][x] = sources[b][x]
    BY <1>1, <2>1 DEF Resolve, TypeOK
  <2>4. /\ SourceOf(b, id) \in {"catalog", "alias"} => entries # {}
        /\ SourceOf(b, id) = "default" => Alias[id] \notin entries
    BY DEF SourceOf
  <2>5. doc[b] = None
    BY <1>1, <2>2 DEF BuildInv
  <2>6. /\ checkedAt[b] <= now
        /\ ~failed[b] => entries # {} /\ checkedAt[b] <= fetchedAt + CatalogTTL
    BY <1>1, <2>2 DEF BuildInv
  <2>7. \A x \in Id : sources'[b][x] \in {"catalog", "alias"} => entries # {}
    BY <1>1, <2>3, <2>4 DEF BuildInv
  <2>8. \A x \in Id : sources'[b][x] = "default" /\ Alias[x] \in entries
          => fetchedAt >= checkedAt[b]
    BY <1>1, <2>2, <2>3, <2>4 DEF BuildInv
  <2> QED
    BY <2>2, <2>5, <2>6, <2>7, <2>8 DEF BuildInv
<1>11. CASE ReportStatus(b)
  <2>1. PICK d : d =
          [known |-> entries,
           unmatched |-> {id \in Id : sources[b][id] = "default"},
           fetchedAt |-> fetchedAt, stale |-> Stale,
           unavailable |-> entries = {}, at |-> now]
    OBVIOUS
  <2>2. /\ pc[b] = "resolve" /\ pc'[b] = "done" /\ doc'[b] = d
        /\ now' = now /\ checkedAt' = checkedAt /\ failed' = failed
        /\ entries' = entries /\ sources' = sources
    BY <1>1, <1>11, <2>1 DEF ReportStatus, Go, TypeOK, global
  <2>3. (\E id \in Id : sources[b][id] \in {"catalog", "alias"})
          => ~d.unavailable
    BY <1>1, <2>1 DEF BuildInv
  <2>4. d.stale /\ ~failed[b]
          => d.at - d.fetchedAt <= CatalogTTL + (d.at - checkedAt[b])
    <3> SUFFICES ASSUME Stale, ~failed[b]
                 PROVE  now - fetchedAt <= CatalogTTL + (now - checkedAt[b])
      BY <2>1
    <3>1. fetchedAt \in Nat /\ checkedAt[b] <= fetchedAt + CatalogTTL
      BY <1>1, <2>2 DEF BuildInv
    <3> QED
      BY <1>1, <3>1
  <2>5. \A id \in d.unmatched :
          Alias[id] \in d.known => d.fetchedAt >= checkedAt[b]
    BY <1>1, <2>1, <2>2 DEF BuildInv
  <2>6. DocHonest(b)'
    BY <2>2, <2>3, <2>4, <2>5 DEF DocHonest
  <2>7. \A id \in Id : sources[b][id] \in {"catalog", "alias"} => entries # {}
    BY <1>1 DEF BuildInv
  <2> QED
    BY <2>2, <2>6, <2>7 DEF BuildInv
<1> QED
  BY <1>3, <1>4, <1>5, <1>6, <1>7, <1>8, <1>9, <1>10, <1>11 DEF Step

\* Time passes within the limits of the downloads only.
LEMMA TimePasses ==
  ASSUME CatalogInv, Tick
  PROVE  SnapshotHonest' /\ \A c \in Build : BuildInv(c)'
<1>1. /\ now \in Nat /\ readAt \in Nat /\ FetchLimit \in Nat /\ now' = now + 1
      /\ entries # {} => fetchedAt \in Nat
      /\ UNCHANGED <<entries, fetchedAt, readAt, pc, asked, answered, checkedAt,
                     failed, sources, doc>>
  BY CatalogAssumption DEF CatalogInv, TypeOK, Tick, global, local
<1>2. SnapshotHonest'
  BY <1>1 DEF CatalogInv, SnapshotHonest
<1>3. ASSUME NEW c \in Build PROVE BuildInv(c)'
  <2>1. BuildInv(c) /\ asked[c] \in Nat /\ checkedAt[c] \in Nat
    BY DEF CatalogInv, TypeOK
  <2>2. pc[c] \in {"download", "install"} => now < asked[c] + FetchLimit
    BY DEF Tick
  <2>3. pc[c] \in {"download", "install"} =>
          now + 1 <= asked[c] + FetchLimit /\ asked[c] <= now + 1
    BY <1>1, <2>1, <2>2 DEF BuildInv
  <2>4. pc[c] \in {"prices", "resolve"} => checkedAt[c] <= now + 1
    BY <1>1, <2>1 DEF BuildInv
  <2>5. DocHonest(c) => DocHonest(c)'
    BY <1>1 DEF DocHonest
  <2> QED
    BY <1>1, <2>1, <2>3, <2>4, <2>5 DEF BuildInv
<1> QED
  BY <1>2, <1>3

\* Initially no build knows anything.
LEMMA InitCatalog == Init => CatalogInv
<1> SUFFICES ASSUME Init PROVE CatalogInv
  OBVIOUS
<1>1. TypeOK
  BY InitTypes
<1>2. SnapshotHonest
  BY DEF Init, SnapshotHonest
<1>3. ASSUME NEW b \in Build PROVE BuildInv(b)
  <2>1. /\ None # "default" /\ None # "catalog" /\ None # "alias"
    BY CatalogAssumption DEF Source
  <2>2. pc[b] = "idle" /\ doc[b] = None /\ \A id \in Id : sources[b][id] = None
    BY DEF Init, Unresolved
  <2> QED
    BY <2>1, <2>2 DEF BuildInv
<1> QED
  BY <1>1, <1>2, <1>3 DEF CatalogInv

\* CatalogInv is inductive.
LEMMA NextCatalog == CatalogInv /\ [Next]_vars => CatalogInv'
<1> SUFFICES ASSUME CatalogInv, [Next]_vars PROVE CatalogInv'
  OBVIOUS
<1>1. TypeOK'
  BY NextTypes DEF CatalogInv
<1>2. CASE \E b \in Build : Step(b)
  <2>1. PICK b \in Build : Step(b)
    BY <1>2
  <2>2. TypeOK /\ SnapshotHonest /\ BuildInv(b)
    BY DEF CatalogInv
  <2>3. \/ UNCHANGED <<now, entries, fetchedAt, readAt>>
        \/ /\ Install(b) /\ now' = now
           /\ entries' # {} /\ fetchedAt' = now /\ readAt' = answered[b]
    BY <2>1, <2>2, SnapshotMoves
  <2>4. SnapshotHonest'
    <3>1. CASE UNCHANGED <<now, entries, fetchedAt, readAt>>
      BY <2>2, <3>1 DEF SnapshotHonest
    <3>2. CASE Install(b) /\ now' = now /\ fetchedAt' = now
               /\ readAt' = answered[b]
      <4>1. now <= asked[b] + FetchLimit /\ asked[b] <= answered[b]
        BY <2>2, <3>2 DEF Install, BuildInv
      <4>2. /\ now \in Nat /\ asked[b] \in Nat /\ answered[b] \in Nat
            /\ FetchLimit \in Nat
        BY <2>2, CatalogAssumption DEF TypeOK
      <4>3. now <= answered[b] + FetchLimit /\ now <= now
        BY <4>1, <4>2
      <4> QED
        BY <3>2, <4>3 DEF SnapshotHonest
    <3> QED
      BY <2>3, <3>1, <3>2
  <2>5. BuildInv(b)'
    BY <2>1, OwnStep
  <2>6. ASSUME NEW c \in Build, c # b PROVE BuildInv(c)'
    <3>1. /\ pc'[c] = pc[c] /\ asked'[c] = asked[c] /\ answered'[c] = answered[c]
          /\ checkedAt'[c] = checkedAt[c] /\ failed'[c] = failed[c]
          /\ sources'[c] = sources[c] /\ doc'[c] = doc[c]
      BY <2>1, <2>2, <2>6, OtherBuilds
    <3>2. /\ now' = now /\ (entries # {} => entries' # {})
          /\ UNCHANGED <<entries, fetchedAt>> \/ fetchedAt' = now
      BY <2>3
    <3> QED
      BY <3>1, <3>2, WaitingBuild
  <2> QED
    BY <1>1, <2>4, <2>5, <2>6 DEF CatalogInv
<1>3. CASE Publish \/ UNCHANGED vars
  <2>1. UNCHANGED <<now, entries, fetchedAt, readAt, pc, asked, answered,
                    checkedAt, failed, sources, doc>>
    BY <1>3 DEF Publish, vars, global, local
  <2>2. SnapshotHonest'
    BY <2>1 DEF CatalogInv, SnapshotHonest
  <2>3. ASSUME NEW c \in Build PROVE BuildInv(c)'
    <3>1. BuildInv(c)
      BY DEF CatalogInv
    <3> QED
      BY <2>1, <3>1 DEF BuildInv, DocHonest
  <2> QED
    BY <1>1, <2>2, <2>3 DEF CatalogInv
<1>4. CASE Tick
  BY <1>1, <1>4, TimePasses DEF CatalogInv
<1> QED
  BY <1>2, <1>3, <1>4 DEF Next

LEMMA CatalogHolds == Spec => []CatalogInv
BY InitCatalog, NextCatalog, PTL DEF Spec

\* A snapshot is never dated later than models.dev's answer by more than a
\* download may take, so that failed refreshes do not make it look young.
THEOREM AgeHolds == Spec => []AgeIsHonest
<1>1. CatalogInv => AgeIsHonest
  <2> SUFFICES ASSUME CatalogInv, entries # {}
               PROVE  fetchedAt - readAt <= FetchLimit
    BY DEF AgeIsHonest
  <2>1. fetchedAt \in Nat /\ readAt \in Nat /\ FetchLimit \in Nat
    BY CatalogAssumption DEF CatalogInv, TypeOK
  <2>2. fetchedAt <= readAt + FetchLimit
    BY DEF CatalogInv, SnapshotHonest
  <2> QED
    BY <2>1, <2>2
<1> QED
  BY <1>1, CatalogHolds, PTL

\* What a document took from the catalogue and what it says of it agree,
\* although the status is asked for after the lookups.
THEOREM MatchedHolds == Spec => []MatchedMeansAvailable
<1>1. CatalogInv => MatchedMeansAvailable
  BY DEF CatalogInv, BuildInv, DocHonest, MatchedMeansAvailable
<1> QED
  BY <1>1, CatalogHolds, PTL

\* Staleness in a document has a cause in the build that made it.
THEOREM StaleHolds == Spec => []StaleIsExplained
<1>1. CatalogInv => StaleIsExplained
  BY DEF CatalogInv, BuildInv, DocHonest, StaleIsExplained
<1> QED
  BY <1>1, CatalogHolds, PTL

\* An unmatched id the reported catalogue has came with a snapshot installed
\* after the build had checked the age of its own.
THEOREM UnmatchedHolds == Spec => []UnmatchedIsExplained
<1>1. CatalogInv => UnmatchedIsExplained
  BY DEF CatalogInv, BuildInv, DocHonest, UnmatchedIsExplained
<1> QED
  BY <1>1, CatalogHolds, PTL
=============================================================================
