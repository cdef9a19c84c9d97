# A formal model of pi-cliproxyapi-bridge

TLA+ modules, TLC runs and TLAPS proofs about the plugin in `src/`. The plugin
is a Go library CLIProxyAPI loads: it serves a few documents (usage and quota,
the model catalogue, capabilities, a panel) to clients that hold an API key of
the proxy, and it is told about every request the proxy serves.

Check one run with `tlc -workers 2 -config <cfg> <module>` and the proofs with
`tlapm` on `ResourceHandlerProofs.tla`, `CompositionProofs.tla`,
`UsageRecordsProofs.tla`, `ModelCatalogProofs.tla`, `CatalogPickProofs.tla`,
`DiscoveryDocumentProofs.tla`, `UsageDocumentProofs.tla` and
`QuotaReadersProofs.tla`.

## 1. Inventory of the system

| Component | Source | State | Operations |
|---|---|---|---|
| Document cache, refresh limiter | `cache.go` | `entries` (body, storedAt, expiresAt); `last` per key hint | `get`, `put`, `invalidate`; `allow` |
| Request path | `main.go`, `auth.go` | `config`, `configErr`, `usageCache`, `capabilitiesCache`, `refreshers` | `handleResourceRequest`, `authenticate`, `handleUsage`, `handleWellKnown`, `handleCapabilities`, `applyLifecycleConfig` |
| Configuration | `config.go` | none | `parseConfig`, `allowAll`, `keySelected` |
| Token counters | `tokenstats.go` | counters per provider and model | `recordTokenUsage`, `tokenModelSnapshot` |
| Last-model register | `lastmodel.go` | newest model per credential | `recordLastModel`, `lastModelFor` |
| models.dev snapshot | `catalog.go` | entries, fetchedAt, lastError | `refresh`, `lookup`, `status`, `flattenCatalog`, `pickCatalogEntry` |
| Discovery document | `discovery.go` | one build's | `buildDiscovery`, `resolveModelMeta`, `loadCPAMEntries`, `providerHealth` |
| Usage document | `quota.go`, `upstream.go` | one build's | `buildUsage`, `fetchQuota` and four readers |
| Quota readers | `quota.go`, `quotashape.go` | one pass's | `applyQuotaRules`, `groupAntigravityModels` |
| Management client | `upstream.go` | none | HTTP calls to the proxy and, through it, to providers |
| Contract shaping | `main.go` | none | `contractFrom`, `shapeForContract`, `withoutLastModel`, `shapeDiscovery` |
| Registration, key checkboxes | `main.go`, `config.go` | none | `pluginRegistration`, `keyCheckboxFields` |
| Panel, ABI | `panel.go`, `main.go` | none | a static page; C bindings |

**Interactions.** The host calls the plugin from many goroutines. A document
call reads the configuration once (under `stateMu`), asks the proxy for its key
list, may consult the limiter and drop the cached document, looks it up, and on
a miss builds it under a 60 s context and stores it. A reconfiguration replaces
the caches under `stateMu`; the handlers read the cache pointers without that
lock, and shape the shared bytes for each caller's contract afterwards, adding
the counters of that moment. `usage.handle` writes the counters and the register, under a lock each;
`buildUsage` reads both. `buildDiscovery` refreshes the models.dev snapshot,
which all builds share, looks its models up and asks for the snapshot's status
last. Nothing is persisted: a restart begins with empty tables.

**What is hard.** Interleavings of calls, builds, stores and reconfigurations;
clocks read before a lock is taken; records dispatched asynchronously, late,
repeated or reordered; builds that fail half way; snapshots that another build
replaces between two reads; bytes that callers of two contracts share; metadata
merged field by field from partial sources; Go's map iteration order. `PROJECT.json` lists the
hazards one by one, each at its line.

**What makes each part correct.** Authorization is never wider than some key
list and configuration that held while the call ran, nor narrower than all of
them; what is in force is what the operator saved last. A document is never served
from before the configuration a call read, nor older than a lifetime plus a
build; a permitted refresh really refreshes; refreshes of one key hint keep
their distance. Every caller sees its own contract and its own
hint, whoever filled the cache. Counters add up and never fall. The register names the newest
request. A snapshot survives failed refreshes and is honest about its age. What
is picked or shown does not depend on iteration or arrival order, and comes from
the most authoritative source that gives it. One failing credential does not
cost the others, and nothing unreported is shown as a full quota.

## 2. The modules

A step of a process is the code between two points at which something else can
interfere: a lock, a reading of the clock, or an exchange with another system.
Operators whose name has an underscore (`Permits_Always`) are deviations: what
a plausible slip in the code would make of the definition below them. No
behaviour of the model uses them; they are there to see each property fail.

**`TTLCache`** - `ttlCache` and `refreshLimiter` as operators over an explicit
state and an explicit reading of the clock. `Fresh` keeps the strict comparison
of `get`: an entry is still served at the instant it expires.

**`ResourceHandler`** - the request path. `Request` are the calls in flight
together; a member is used again once its call is answered. `pc` says where a
call is; `cfg`, `ptr`, `stamp`, `began`, `doc` are its local variables. A
configuration is abstracted to what the path reads of it: `AllowAll`, `Ticked`
and the two lifetimes. Points to know when comparing with the code:

 - `handleUsage` and `handleWellKnown` have the same shape and share their
   actions; only usage consults the limiter (`Dispatch`).
 - The cache pointer is read without its lock. Caches are numbered by the
   reconfiguration that made them (`epoch`), and each access works on any cache
   the pointer has named since the call's previous step (`Loaded`). Usage and
   capabilities caches are replaced together and are two keys of one here.
 - `allow` and `put` read the clock before they lock: `StampRefresh` and
   `StampStore` are steps of their own.
 - A build is `StartBuild`, `ReadUpstream` (its first answer, which dates the
   data), `StampStore`, `PutDocument`, or `BuildFails`. What it reads is the
   subject of `UsageDocument` and `ModelCatalog`.
 - `RefuseInvalidConfig`: after a configuration that did not parse every call
   but the panel's is answered 503; the caches stay.
 - The 403 of `handleUsage` cannot occur, because `authenticate` gives every
   client the usage permission; it has no action.
 - `readEpoch`, `sawKey`, `sawConfig`, `grant`, `grants`, `puts`, and the fields
   `no` and `heldIn` of what is stored are history: guards never read them.
 - `Tick` does not pass the deadline of a build in progress, since every
   exchange of a build carries its context. The lookup that precedes it and the
   final `put` may take any time.

**`ServedDocument`** - what callers are shown. It is laid over
`ResourceHandler`: every step of that module is taken together with what it does
to the variables added here, so `ServedSpec` implements `Spec` and no guard of
the request path changes but one: a slot is used again only when its answer is
complete. A document is the function of the sections it has beyond contract v1;
`contents[n]` are the bytes stored by put number `n`. `ReadLastModel` happens
inside the build, `Shape` after the cache was read or written, under the lock of
the counters: records may be handled between the two. The `models` section is
there only once a record has been counted. A catalogue always says what it knows of
models.dev; the proxy's version, the health of the providers and the sources of
custom models (`OptionalSection`) may each be missing, because the exchange behind
it failed or there is nothing to say. There is one credential, and a request's
number stands for its model, its record and the counters' row, which is enough to
tell apart everything the properties compare. A record without a provider
(`Uncounted`) is registered and never counted. Rejected configurations are left
to `KeySelection`: they show nobody anything.

**`KeySelection`** - the operator's side, laid over `ResourceHandler` in the same
way. `Deliver` is `applyLifecycleConfig`: `Parse` makes a configuration of the
block, or the block is refused and everybody with it; `DeclareBoxes` is the key
list the registration asks for, which may be unavailable, and the checkboxes it
makes of it. The host is taken to make one lifecycle call at a time.
`ResourceHandler`'s configurations are the values of `Parse`, which
`ParseAssumption` says and TLC evaluates.

**`UsageRecords`** - `usage.handle`: `RecordTokenUsage`, then `ReadRequestTime`
(the part of `recordLastModel` before its lock, with its early return and its
reading of the clock), then `RecordLastModel`. A record is a delivery; two
alike are one record delivered twice. Counters are assumed not to be negative.
**`NewestRequest`** is the abstract register: requests are seen in any order,
and the register names one that none seen is newer than and is given up only
for a strictly newer one. `UsageRecords!Newest` is the refinement mapping.

**`ModelCatalog`** - concurrent discovery builds and the snapshot they share:
check its age, download without a lock, install or fail, look models up one by
one, report the status. A snapshot is the set of ids it knows.
**`CatalogPick`** - `flattenCatalog` and `pickCatalogEntry`: providers are
visited in any order and the candidates of an id are met in that order. Both
loops of the pick keep the best candidate so far (`Keep`) and differ in what
replaces it: `LowerRank`, and `Wins` for votes, rank and name.

**`DiscoveryDocument`** - one `buildDiscovery`: the price table, the loop over
the proxy's models with `resolveModelMeta`, the two kinds of model, the counts,
and the loop of `providerHealth`, a credential at a time. A row of metadata is the set of the fields it gives, and a
value is the row it was read from, so that a document says of every field where
it came from. One build sees one catalogue here; a catalogue that changes under
a build is the subject of `ModelCatalog`.

**`UsageDocument`** - `buildUsage`: credentials in the host's order, a provider
call for each, the fallback of Antigravity, the context that may run out at any
step, the last model read when the loop reaches the account, the names of the
providers the bridge cannot read. The four readers
are one here: `Reply` says what a call came to and `Readable` whether the
reader makes groups or an error of it. The register is the abstract one.
**`QuotaReaders`** - what a reader makes of an answer, in steps that are rounds
of its loops: a pass of `applyQuotaRules` over rules (`next`) and the windows
each one locates (`at`); Codex's two windows, and how it goes
over to configured rules once its own decoding has succeeded; Copilot's
snapshot; the folding of Antigravity's models into families. `answer.typed` says
whether a Codex body decodes as the reader expects it. A rule's id is a template;
what it comes to with a name is the table `Expand`, so that two templates may
expand to one id and a template to nothing. Antigravity's entries are numbered,
because the buckets of a project may repeat a model id, and the sort that
`ReportFamily` takes over from the code leaves those of one id in any order.

`MC*` modules give the constants their values.

## 3. The runs

| Run | cfg | Shows |
|---|---|---|
| `shared_cache` | `MCResourceHandler.cfg` | `TypeOK`, `NoPreReconfigureDocument`, `RefreshSeesLaterStore`, `GrantBudget` |
| `served_document` | `ServedDocument.cfg` | `ServedDataAge`, `ShapedForTheCaller`, `ProvenanceIsHonest`, `LastModelHasRow`, `RowsOnlyGrow` |
| `key_selection` | `KeySelection.cfg` | `SelectionTypes`, `AuthorizedService`, `BlockInForce`, `RefusedWasBarred`, `RequestsAnswered` (liveness) |
| `usage_records` | `UsageRecords.cfg` | `TypeOK`, `CountersAddUp`, `CountersNeverFall`, `LastModelIsCounted`, `NamesTheNewest`, `NewestRequestWins` (refinement) |
| `model_catalog` | `ModelCatalog.cfg` | `TypeOK`, `SnapshotKept`, `AgeIsHonest`, `MatchedMeansAvailable`, `StaleIsExplained`, `UnmatchedIsExplained` |
| `catalog_pick` | `CatalogPick.cfg` | `PickIgnoresOrder` |
| `usage_document` | `UsageDocument.cfg` | `TypeOK`, `EveryCredentialListed`, `QuotaOrError`, `ModelsMoveForward` |
| `discovery_document` | `DiscoveryDocument.cfg` | `TypeOK`, `BestSourceWins`, `CountsAgree`, `HealthAddsUp` |
| `quota_readers` | `QuotaReaders.cfg` | `TypeOK`, `FirstRuleWins`, `GroupsIgnoreOrder`, `FullIsReported` |

Three more runs have a counterexample: `two_vendors` (`TwoVendors.cfg`),
`follow_up` (`FollowUp.cfg`) and `codex_rules` (`CodexRules.cfg`). They are findings
of section 5. For the other findings there are configurations to reproduce them
with: `TieBreak.cfg` of `MCCatalogPick`, `Defaults.cfg` of `MCDiscoveryDocument` and
`PayloadOrder.cfg` of `MCQuotaReaders`; TLC refutes the invariant of each.

**Bounds.** Two calls, builds or runs are in flight wherever a race between
them is the point: every race the properties speak of is between a call and one
other. `shared_cache` has a third call follow (`MaxArrivals` 3) to see the
outcome. `MaxReconfigure` 1 gives one old and one new cache. Lifetimes are 1 or
2 ticks and a build takes at most 1, so that with `MaxTime` 2 an entry expires,
a limiter interval passes, and a build straddles both. `shared_cache` has one
configuration (a reconfiguration to the same values still replaces the caches);
that lifetimes and intervals may change with it is covered by the proofs. Its
calls are refreshing usage calls (one whose refresh is refused does what a plain
call does) among calls of the other routes and one with a key the proxy does not
list.

`served_document` has two configurations with lifetimes of 1 and 2, begins with
the longer one and is reconfigured once, to the shorter (`Shortened`), and has
`MaxTime` 3, more than the shorter lifetime and a build: an entry stored under one
lifetime is read under the other, and expires. Its callers ask for a contract to
come and for the first one; the two calls are enough to have one fill the cache and
another, of the other contract or another key, read it. One counted record makes
the difference between documents built before it and shown after it, and the other
one, which is not counted, leaves a last model without a row. The calls of a behaviour
are all for usage or all for the catalogue, and in the second case no records come
and the clock stands still (`OneDocument`): neither touches the shape of a
catalogue, and what the request path does with both routes at once is the subject
of `shared_cache` and of the proofs.

`key_selection` has one call in flight, as no part of its properties is shared
between calls, and a second after it. The operator's four blocks are an empty
one, one that ticks the first key and has text for the second, one that ticks
the second, and one that does not parse; each may be delivered when a call is
anywhere. The proxy has both keys or none.

`discovery_document` starts from every input: one model with all combinations of
no row, an empty, a partial and a full one from each source, with and without an
alias; every list of four models with an owner of each kind, an excluded id, an
empty one and repetitions; every list of three credentials in each state.
`quota_readers` likewise has every answer of its small sets: rules that share an id
once expanded, one that expands to nothing, one over an array without a filter and
one that locates nothing; Antigravity listings with ids that repeat.
`Defaults.cfg` and `PayloadOrder.cfg` start from the answers their claim is about only.

Seven deliveries contain a late record, a follow-up, a repetition, an alias of a
provider, and one record without each of provider, credential and model. The
catalogue of `model_catalog` has a model with an alias, one with an override and
one models.dev learns of later, and contents that are useful, useless and
changed. The credential lists of `usage_document` have one provider with a
fallback, one without, one the bridge cannot read and one without a name; requests
are made with one credential, as the register treats credentials apart. Symmetry is used
between calls and between builds, in runs without temporal properties over them
(`SnapshotKept` is about the snapshot only and names no build).

The sequential modules and those whose processes end may stop, and their cfg
files say so (`CHECK_DEADLOCK FALSE`); the request path and the catalogue are
checked for deadlock.

**Fairness.** The liveness property assumes weak fairness of each call's steps
(`Serve(r)`, which is `Handle(r)`): a goroutine that can run does, and each
exchange returns, because the HTTP client or the context of each one has a
timeout (15 s for the key list, 60 s for a build). Nothing is assumed of the clock, the operator or the proxy. A
call waits for nobody, so one at a time is checked.

## 4. What is proved

The theorems hold for all values of the constants that satisfy the named
assumptions: any number of calls, keys, configurations, deliveries, providers
and models, lists of any length, and any bound on the clock. Every safety
invariant and safety action property a passing run checks is the statement of a
theorem; only liveness is left to TLC. The assumptions are evaluated by the
runs. What they ask for:

 - `MaskAssumption`, `ConfigAssumption`, `EnvironmentAssumption`,
   `BoundAssumption`, `NoneAssumption`: types; lifetimes are positive, as
   `parseConfig` makes sure, and `MinUsageTTL` is a lower bound of them.
 - `BlockAssumption`, `ParseAssumption` (configurations are what `parseConfig`
   returns), `ServedAssumption` (requests are numbers from 1, any of them without a
   provider).
 - `RecordAssumption`: finitely many deliveries, normalized names.
 - `CatalogAssumption`, `FileAssumption`, `DiscoveryAssumption`,
   `CodexCopilotAssumption`: types. `RuleAssumption`: a template and a name come
   to some string, which may be empty or that of another pair.
   `ListingAssumption`: an answer has finitely many entries, any of them for the
   same model, each of one of the families in the fixed order.
   `ProviderAssumption`: two providers have different names, which they are the
   keys of the map by.
 - `None` is none of the values it stands in for, in each module.

`ResourceHandlerProofs`

 - `TypesHold`: `TypeOK` is inductive once it says what a call at a given step
   holds (`CallShape`): only a call that read upstream has a document, only a
   call with a key is in a document handler.
 - `ServiceIsAuthorized`: needs that a call past `ReadConfig` remembers a
   configuration that was valid while it ran, and one past the key list also
   saw its key accepted (`CallAuthorized`). A rejection or a rotation between
   the two does not undo what the call saw.
 - `NothingFromBeforeReconfigure`: needs that what a cache holds was put there
   in its own epoch or a later one (`HeldInOrBefore`), and that the caches a
   call may access start at the epoch it read its configuration in
   (`CallBound`).
 - `RefreshIsFresh`: needs that from the invalidation on, whatever the caches a
   call may access hold for its route was stored after the permission
   (`CallRefresh`, `NewerThanGrant`).
 - `RefreshesFitTheFloor`: needs that the last permit of a hint is at least
   (permits - 1) intervals in (`HintBudget`); stamps may reach the limiter out
   of order, which the strictly later stamp of each permit makes up for.
 - `ServedDataIsRecent`: needs that every entry in any cache was read within one
   build of its put (`EntryAge`), and that a build in progress is as old as its
   context allows at most (`CallAge`).

`CompositionProofs`, about the two modules laid over the request path. It is one
module, so its theorems are stated under the assumptions of both, which the
configurations of `key_selection` satisfy with any callers and records; a proof
about one of the two cites no assumption of the other.

 - `SelectionImplementsHandler`: every step of the operator's module is a step
   or a stutter of `ResourceHandler`; a delivered block is `Reconfigure` or
   `RejectConfig` by `ParseAssumption`. `SelectionIsAuthorized` carries the
   theorem about the request path over.
 - `LastBlockIsInForce`: what `Accepts` says of a key is what the last block
   says of it; the two change in the same step only.
 - `RefusedOnlyWhenBarred`: needs that a call that holds a configuration or a key
   list that bars its key is marked as barred already, although the two were read
   at different moments (`CallBarred`, `BarredInv`). Keys may share a checkbox.
   `SelectionTypesHold` follows from the same invariant.
 - `ServedImplementsHandler`: each step of `ServedDocument` is one of
   `ResourceHandler` or leaves its variables alone; `ServedAfterReconfigure` and
   `ServedDataStaysRecent` carry what is proved there over.
 - `ShownAsAsked`, `LastModelIsListed`, `LaterHasEveryRow`: one invariant
   (`ServedInv`) says that the bytes of every entry have sections a build of their
   route may give them (`CachedFits`), that registered records are counted or have
   no provider and so has what a build read or a cache holds (`RecordsInv`), and
   what a call may show at the step it is at (`ShownFits`, `CallServed`).
 - `ProvenanceHolds`: an entry's lifetime is that of the configuration that
   built it, which may be forgotten by the time it is read. The proof carries
   the configurations put in force so far as a rigid function of the epoch
   (`History`): the invariant is that some such function explains the state.

`UsageRecordsProofs`

 - `TypesHold`, and from it `SnapshotsSubtract` (`CountersNeverFall`).
 - `RegisterImplementsNewest`: every step of a delivery is a step or a stutter
   of the abstract register, through `Inv`, which adds that a delivery that has
   its time has a credential and a model. `RegisterNamesTheNewest` is the
   abstract register's own invariant, proved on the code's state.
 - `NamedModelsHaveRows`: a delivery past the counters has its row
   (`RowsExist`), and only such a delivery reaches the register.
 - `CountersHold`: a row is the sum of what the records counted on it
   contribute (`CountedOn`, `Total`, a function over the subsets of `Record`).
   That the sum does not depend on the order it is taken in is an argument
   about smallest counterexamples (`IsSum` and its lemmas).

`ModelCatalogProofs`: `TypesHold`, `SnapshotStays` (an action property),
`AgeHolds`, `MatchedHolds`, `StaleHolds` and `UnmatchedHolds`. The invariant says
that the snapshot was installed within a download of what it shows
(`SnapshotHonest`) and, of every build (`BuildInv`), that it downloads only after
it found the snapshot of age, that unless its refresh failed it looks at a
snapshot that was fresh when it checked, and that what it missed and is there now
came with an install after the check.

`CatalogPickProofs`: `PickHolds`. `KeepIs`: where what replaces the best
candidate is an order, a loop over the candidates is left with one that none
replaces, by an argument about the first round that is not. Votes, rank and name
are such an order, a total one as names differ (`OverIsTotal`), so the provider
the second loop finds is the one that comes before all the others and
`Chosen` names it (`PickIsChosen`). `ListsInv` says that a list of candidates
holds what the providers visited so far publish, each once. A second vendor
would leave the first loop two candidates that do not replace each other, which
is the finding `two_vendors`.

`DiscoveryDocumentProofs`: `BestSourceHolds` rests on one lemma about what
`MergeEntry` makes of the rows of one model (`MergeIsBest`); `CountsHold` and
`HealthHolds` on invariants that say what the loops have counted and published
when they are about to look at number `n` (`CountsTo`, `HealthTo`), with lemmas
about the cardinality of the positions passed; `TypesHold` on both.

`UsageDocumentProofs`: `TypesHold`, `EveryoneIsListed`, `QuotaOrErrorHolds`,
`ModelsOnlyAdvance`. The invariant of a build (`BuildInv`) is that the accounts
are those of the files before the one at hand, each with a quota or an error
(`Complete`), the one at hand with neither (`InHand`), that the unsupported
providers named are those of the accounts (`Notes`), and that every model named
is at least as new as the documents finished before the build named
(`Timely`).

`QuotaReadersProofs`: `FirstRuleHolds`, from an invariant that every group is the
claim of the first window under its id and every window passed that has a number
and an id has its group
(`RulesInv`); `GroupsHold`, from one that says what folding the entries met so
far, in any order, must have come to (`FamilyInv`, `Folds`) and where a family is
reported (`ReportedTo`); `FullHolds` and `TypesHold` from both and `SlotInv`.

**Model-checked only**: `RequestsAnswered`. It is a liveness property under weak
fairness, and ENABLED is out of the prover's reach.

Loops over lists are steps of the model, or functions over positions (`Keep`),
and not the operators `SelectSeq` and `FoldLeft`, which the provers know nothing
of. Induction is by a smallest counterexample: `SmallestNumber` and its like
follow from the well-foundedness of `<` on the naturals, which needs no theorem
with an operator for a parameter.

## 5. Findings

 - `two_vendors`: `pickCatalogEntry` takes the first candidate of rank 0, and
   candidates come in map order, so a model two vendors publish differently may
   change its limits between restarts; the comment (`catalog.go:188`) and the
   README (line 63) say ties break on the name. With one vendor at most the
   pick is the same in every order (`PickIgnoresOrder`).
 - `TieBreak.cfg`, `TiesBreakOnName`: without a vendor, candidates with equal
   votes are compared by rank and by name only within a rank (`catalog.go:228`),
   so a host wins over a reseller whose name comes first. The README (line 62)
   and the comment (`catalog.go:188`) know of the name only. `PickIgnoresOrder`
   states what the code does.
 - `follow_up`: a follow-up record handled before its request's own record
   keeps its model, because the times are equal (`lastmodel.go:23`,
   `lastmodel_test.go:45`).
 - `codex_rules`: `fetchCodexQuota` decodes the body as the built-in reader
   expects it, and gives up when that fails, before it looks for configured
   rules (`quota.go:293`). A body whose known fields changed type is an error
   although the rules describe it; the comment (`quota.go:297`) and the README
   (line 163) offer the rules for just that.
 - `Defaults.cfg`, `DefaultsAreLast`: an override or a price row for a model
   models.dev does not list, that gives one limit or none, publishes zero for
   the other instead of 128k/16k (`discovery.go:421`). The README (line 59)
   lists the defaults as the last source, and the comment (`discovery.go:415`)
   keeps them for models absent from the catalogue; the exception made at line
   419 speaks of catalogue rows. `BestSourceWins` leaves these limits open.
 - `PayloadOrder.cfg`, `ModelsKeepPayloadOrder`: `groupAntigravityModels` sorts
   the models of a family (`quota.go:622`), so the payload order the decoder
   keeps for them (`quota.go:545`, `quota_test.go:341`) does not reach the
   document. `GroupsIgnoreOrder` states what the code does, which is what the
   comment at `quota.go:588` wants of the groups.

Behaviours the models show, which the source does not quite rule out and which
the properties take into account:

 - Calls that miss together build the document once each, although the comment
   at `main.go:452` speaks of one poll per lifetime.
 - A manual refresh drops the cached copy whether it is due or not; only the
   spacing of one hint's refreshes is limited (`main.go:459-462` speaks of a copy
   that is due). What holds is `GrantBudget`.
 - `lastRequestAt` is as old as the credential list and `lastModel` as young as
   the loop, so a document may pair a newer model with an older time
   (`main.go:517`, `lastmodel_test.go:134`). What holds across documents is
   `ModelsMoveForward`.
 - The age a v2 document gives itself uses the reader's lifetime. A call that
   read one configuration and finds an entry stored under another is told of
   another expiry than the entry has; `ProvenanceIsHonest` is about the rest.
 - A discovery build may list a model as unmatched next to a catalogue that knows
   it, when another build installed that catalogue after the lookup
   (`UnmatchedIsExplained`).
 - A record without a provider is registered and not counted, so a document may
   name a `lastModel` that none of its `models` has (`README.md:113` speaks of the
   same id). `LastModelHasRow` and `LastModelIsCounted` except such records.
 - A Copilot snapshot without numbers is shown as used up, not left out.

## 6. Not modelled

The panel and the C ABI; parsing of YAML, JSON and URLs; secrets and the files
they are read from; HTTP itself, its headers included (a capabilities answer
says contract 2 in its body and always 1 in its header, `main.go:609`); masking
of keys and e-mail addresses, beyond which key has which hint; the fixed fields
and texts of a registration; base URLs, group names, the proxy's version and the
panel probe of a discovery document; glob patterns of excludes (an input);
walking the paths of a payload, window labels, reset times of rules; the order
of a snapshot's rows; errors of `json.Marshal` on documents that always encode;
lifecycle calls that overlap.

## 7. Plan

Written in this order, most important behaviour first: request path and cache;
usage records; models.dev snapshot; usage document; quota readers; the documents
as callers see them; the operator's side; the discovery document; then the
proofs, in the same order. What is left of the code is input, output and text.
What is left to prove:

 1. That `ModelCatalog`'s builds implement an abstract snapshot (installed or
    kept, with the time of the answer), stated as a module of its own in the way
    of `NewestRequest`.
 2. The limiter as a module of its own, its budget proved apart from the request
    path.
 3. The findings' positive sides: what follow-up records keep
    (`RequestModelStays` when the request's own record is handled first), and
    that two runs agree wherever one vendor at most publishes (from `PickHolds`).
