-------------------------- MODULE ResourceHandler --------------------------
(***************************************************************************)
(* The request path of the plugin: handleResourceRequest and the handlers  *)
(* it dispatches to (src/main.go), the authorization it applies            *)
(* (src/auth.go) and the shared state it works on, that is the current     *)
(* configuration, the document cache and the refresh limiter.              *)
(*                                                                         *)
(* CLIProxyAPI calls the plugin from many goroutines.  Request is the set  *)
(* of calls that may be in flight together; a member is used again for a   *)
(* new call once the earlier one has been answered.  A step of a call is   *)
(* the code between two points where another call, a reconfiguration or    *)
(* the clock can interfere: a lock, a reading of the clock, or an HTTP     *)
(* exchange with the proxy or the providers.                               *)
(*                                                                         *)
(* usageCache is a global pointer that applyLifecycleConfig replaces under *)
(* stateMu and the handlers read without it.  The caches ever created are  *)
(* numbered by epoch, and a cache operation of a call works on any of the  *)
(* caches the pointer has named since the call's previous step: the        *)
(* pointer is loaded at some moment in between.                            *)
(***************************************************************************)
EXTENDS TTLCache, FiniteSets

CONSTANTS
  Request,          \* calls that may be in flight together
  Key,              \* API keys
  Hint,             \* masked forms of keys
  MaskKey,          \* maskKey: [Key -> Hint]
  Field,            \* names of the generated checkboxes
  KeyField,         \* keyFieldName: [Key -> Field]
  Config,           \* configurations parseConfig can return
  DefaultConfig,    \* defaultConfig()
  AllowAll,         \* allow_all_api_keys, per configuration
  Ticked,           \* checkboxes ticked, per configuration
  UsageTTL,         \* usage_ttl_seconds, per configuration
  CapabilitiesTTL,  \* capabilities_ttl_seconds, per configuration
  MinUsageTTL,      \* the least usage_ttl_seconds of any configuration
  BuildDeadline,    \* the 60 s of the build's context
  ClientRequest,    \* what clients ask for
  ProxyKeyLists,    \* the key lists the proxy may have
  MaxTime,          \* bound on the clock
  MaxArrivals,      \* bound on the calls made
  MaxReconfigure    \* bound on the successful reconfigurations

DocKey == {"usage", "well-known"}
Route == DocKey \cup {"panel", "capabilities", "other"}

ASSUME MaskAssumption ==
  /\ MaskKey \in [Key -> Hint]
  /\ KeyField \in [Key -> Field]
  /\ None \notin Key

\* parseConfig replaces a ttl that is not positive by the default one.
ASSUME ConfigAssumption ==
  /\ DefaultConfig \in Config
  /\ AllowAll \in [Config -> BOOLEAN]
  /\ Ticked \in [Config -> SUBSET Field]
  /\ UsageTTL \in [Config -> Nat \ {0}]
  /\ CapabilitiesTTL \in [Config -> Nat \ {0}]
  /\ MinUsageTTL \in Nat \ {0}
  /\ \A c \in Config : UsageTTL[c] >= MinUsageTTL

ASSUME EnvironmentAssumption ==
  /\ ClientRequest \subseteq [route : Route, token : Key \cup {None},
                              refresh : BOOLEAN]
  /\ ProxyKeyLists \subseteq SUBSET Key

ASSUME BoundAssumption ==
  /\ BuildDeadline \in Nat \ {0}
  /\ MaxTime \in Nat /\ MaxArrivals \in Nat /\ MaxReconfigure \in Nat

VARIABLES
  now,         \* the clock all goroutines read
  config,      \* main.go's config ...
  configErr,   \* ... and whether configErr is set
  epoch,       \* the number of the cache usageCache points to
  caches,      \* every cache created so far, by number
  last,        \* refreshers.last
  proxyKeys,   \* external: the keys CLIProxyAPI accepts now
  pc,          \* where each call is
  req,         \* what each call asks for
  cfg,         \* the configuration the call works with
  ptr,         \* the cache usageCache pointed to at the call's last step
  stamp,       \* the call's last reading of the clock
  began,       \* when the call's build context was created
  doc,         \* the document the call is building
  resp,        \* the answer of the call
  arrivals,    \* calls made so far
  (* History, read by the properties only. *)
  readEpoch,   \* the epoch the call read its configuration in
  sawKey,      \* the proxy accepted the call's key at some moment of it
  sawConfig,   \* a valid configuration admitted the key at some moment of it
  grant,       \* the puts made when the call's refresh was permitted
  grants,      \* refreshes permitted so far, per hint
  puts         \* documents stored so far

shared == <<now, config, configErr, epoch, caches, last, proxyKeys>>
local  == <<pc, req, cfg, ptr, stamp, began, doc, resp>>
ghosts == <<readEpoch, sawKey, sawConfig, grant, grants, puts>>
vars   == <<shared, local, arrivals, ghosts>>

-----------------------------------------------------------------------------
\* The steps that belong to the handlers of the two documents.
Serving == {"stamp", "allow", "invalidate", "lookup", "fetch", "render",
            "store"}

Working == {"received", "keys", "capabilities"} \cup Serving

Doc == [builtUnder : Nat, readAt : Nat]

\* What is cached: the document, which put stored it and in which epoch.
Stored == [doc : Doc, no : Nat, heldIn : Nat]

Entry == [value : Stored, storedAt : Nat, expiresAt : Nat]

Status == {0, 200, 401, 404, 502, 503}

Response == [status : Status, entry : Entry \cup {None}, at : Nat]

NoResponse == [status |-> 0, entry |-> None, at |-> 0]

Idle == [route |-> "other", token |-> None, refresh |-> FALSE]

\* An entry is never mistaken for "no entry".
ASSUME NoneAssumption == None \notin Entry /\ None \notin Nat /\ None \notin Doc

SharedTypes ==
  /\ now \in Nat /\ epoch \in 0..MaxReconfigure
  /\ config \in Config /\ configErr \in BOOLEAN
  /\ caches \in [0..MaxReconfigure -> [DocKey -> Entry \cup {None}]]
  /\ last \in [Hint -> Nat \cup {None}]
  /\ proxyKeys \in SUBSET Key

LocalTypes ==
  /\ pc \in [Request -> Working \cup {"idle", "done"}]
  /\ req \in [Request -> [route : Route, token : Key \cup {None},
                          refresh : BOOLEAN]]
  /\ cfg \in [Request -> Config]
  /\ ptr \in [Request -> 0..MaxReconfigure]
  /\ stamp \in [Request -> Nat] /\ began \in [Request -> Nat]
  /\ doc \in [Request -> Doc \cup {None}]
  /\ resp \in [Request -> Response]

HistoryTypes ==
  /\ arrivals \in Nat
  /\ readEpoch \in [Request -> Nat]
  /\ sawKey \in [Request -> BOOLEAN] /\ sawConfig \in [Request -> BOOLEAN]
  /\ grant \in [Request -> Nat \cup {None}]
  /\ grants \in [Hint -> Nat] /\ puts \in Nat

\* What a call is doing fits what it asked for and what it holds.
CallShape ==
  \A r \in Request :
    /\ pc[r] \in {"render", "store"} => doc[r] \in Doc
    /\ pc[r] \in Serving => req[r].route \in DocKey /\ req[r].token \in Key

TypeOK == SharedTypes /\ LocalTypes /\ HistoryTypes /\ CallShape

-----------------------------------------------------------------------------
(* Helpers *)

InFlight(r) == pc[r] \in Working

\* Deviation: a key needs its checkbox even when every key is let in.
Admits_TickedOnly(c, token) == KeyField[token] \in Ticked[c]

\* authenticate, after the key list: the operator's choice of keys.
Admits(c, token) == AllowAll[c] \/ KeyField[token] \in Ticked[c]

\* Deviation: the key is not looked up in the list the proxy answered.
Authenticated_AnyKey(r) ==
  /\ req[r].token # None
  /\ Admits(cfg[r], req[r].token)

\* authenticate: the list fetchAPIKeys returns, and the call's configuration.
Authenticated(r) ==
  /\ req[r].token # None
  /\ req[r].token \in proxyKeys
  /\ Admits(cfg[r], req[r].token)

TTL(c, route) == IF route = "usage" THEN UsageTTL[c] ELSE CapabilitiesTTL[c]

\* The caches the unlocked global pointer may have named since the last step.
Loaded(r) == ptr[r]..epoch

Go(r, where) == pc' = [pc EXCEPT ![r] = where]

LoadPointer(r) == ptr' = [ptr EXCEPT ![r] = epoch]

\* The handler returns: its local variables are gone.
Answer(r, status, entry, at) ==
  /\ Go(r, "done")
  /\ resp' = [resp EXCEPT ![r] =
                [status |-> status, entry |-> entry, at |-> at]]
  /\ cfg' = [cfg EXCEPT ![r] = DefaultConfig]
  /\ ptr' = [ptr EXCEPT ![r] = 0]
  /\ stamp' = [stamp EXCEPT ![r] = 0]
  /\ began' = [began EXCEPT ![r] = 0]
  /\ doc' = [doc EXCEPT ![r] = None]
  /\ UNCHANGED <<req, arrivals>>

Reply(r, status) ==
  /\ Answer(r, status, None, 0)
  /\ UNCHANGED <<shared, ghosts>>

\* Does the configuration c, parsed without an error, admit the token?
Accepts(err, c, token) == ~err /\ token # None /\ Admits(c, token)

-----------------------------------------------------------------------------
(* The state once the host has called plugin.register for the first time:  *)
(* its configuration was parsed, or it was not and every call is refused.  *)

Init ==
  /\ now = 0 /\ epoch = 0 /\ arrivals = 0
  /\ \/ config \in Config /\ configErr = FALSE
     \/ config = DefaultConfig /\ configErr = TRUE
  /\ caches = [e \in 0..MaxReconfigure |-> EmptyCache(DocKey)]
  /\ last = [h \in Hint |-> None]
  /\ proxyKeys \in ProxyKeyLists
  /\ pc = [r \in Request |-> "idle"]
  /\ req = [r \in Request |-> Idle]
  /\ cfg = [r \in Request |-> DefaultConfig]
  /\ ptr = [r \in Request |-> 0]
  /\ stamp = [r \in Request |-> 0]
  /\ began = [r \in Request |-> 0]
  /\ doc = [r \in Request |-> None]
  /\ resp = [r \in Request |-> NoResponse]
  /\ readEpoch = [r \in Request |-> 0]
  /\ sawKey = [r \in Request |-> FALSE]
  /\ sawConfig = [r \in Request |-> FALSE]
  /\ grant = [r \in Request |-> None]
  /\ grants = [h \in Hint |-> 0]
  /\ puts = 0

-----------------------------------------------------------------------------
(* handleResourceRequest *)

\* The host delivers a call.
Arrive(r, q) ==
  /\ pc[r] \in {"idle", "done"}
  /\ arrivals < MaxArrivals
  /\ Go(r, "received")
  /\ req' = [req EXCEPT ![r] = q]
  /\ resp' = [resp EXCEPT ![r] = NoResponse]
  /\ arrivals' = arrivals + 1
  /\ readEpoch' = [readEpoch EXCEPT ![r] = 0]
  /\ sawKey' = [sawKey EXCEPT ![r] = q.token \in proxyKeys]
  /\ sawConfig' = [sawConfig EXCEPT ![r] = Accepts(configErr, config, q.token)]
  /\ grant' = [grant EXCEPT ![r] = None]
  /\ UNCHANGED <<shared, cfg, ptr, stamp, began, doc, grants, puts>>

\* The panel is served before the configuration or the key is looked at.
ServePanel(r) ==
  /\ pc[r] = "received"
  /\ req[r].route = "panel"
  /\ Reply(r, 200)

RefuseInvalidConfig(r) ==
  /\ pc[r] = "received"
  /\ req[r].route # "panel"
  /\ configErr
  /\ Reply(r, 503)

\* currentConfig: the one reading of the configuration a call makes.
ReadConfig(r) ==
  /\ pc[r] = "received"
  /\ req[r].route # "panel"
  /\ ~configErr
  /\ Go(r, "keys")
  /\ cfg' = [cfg EXCEPT ![r] = config]
  /\ readEpoch' = [readEpoch EXCEPT ![r] = epoch]
  /\ LoadPointer(r)
  /\ UNCHANGED <<shared, req, stamp, began, doc, resp, arrivals, sawKey,
                 sawConfig, grant, grants, puts>>

KeysUnavailable(r) ==
  /\ pc[r] = "keys"
  /\ Reply(r, 503)

Unauthorized(r) ==
  /\ pc[r] = "keys"
  /\ ~Authenticated(r)
  /\ Reply(r, 401)

NotFound(r) ==
  /\ pc[r] = "keys"
  /\ Authenticated(r)
  /\ req[r].route = "other"
  /\ Reply(r, 404)

\* The key list arrived and admits the caller: on to the route's handler.
\* Only usage consults the limiter; well-known drops its entry at once.
Dispatch(r) ==
  /\ pc[r] = "keys"
  /\ Authenticated(r)
  /\ LET q == req[r] IN
     /\ \/ q.route = "capabilities" /\ Go(r, "capabilities")
        \/ q.route = "usage" /\ q.refresh /\ Go(r, "stamp")
        \/ q.route = "well-known" /\ q.refresh /\ Go(r, "invalidate")
        \/ q.route \in DocKey /\ ~q.refresh /\ Go(r, "lookup")
     /\ grant' = IF q.route = "well-known" /\ q.refresh
                   THEN [grant EXCEPT ![r] = puts] ELSE grant
  /\ LoadPointer(r)
  /\ UNCHANGED <<shared, req, cfg, stamp, began, doc, resp, arrivals,
                 readEpoch, sawKey, sawConfig, grants, puts>>

\* handleCapabilities: the version and the CPAM mode are best effort, so the
\* answer is 200 whatever the two probes return.
Capabilities(r) ==
  /\ pc[r] = "capabilities"
  /\ Reply(r, 200)

-----------------------------------------------------------------------------
(* handleUsage and handleWellKnown *)

\* allow reads the clock before it locks.
StampRefresh(r) ==
  /\ pc[r] = "stamp"
  /\ Go(r, "allow")
  /\ stamp' = [stamp EXCEPT ![r] = now]
  /\ UNCHANGED <<shared, req, cfg, ptr, began, doc, resp, arrivals, ghosts>>

RefreshPermitted(r) ==
  Permits(last, MaskKey[req[r].token], stamp[r], UsageTTL[cfg[r]])

PermitRefresh(r) ==
  /\ pc[r] = "allow"
  /\ RefreshPermitted(r)
  /\ Go(r, "invalidate")
  /\ LET h == MaskKey[req[r].token] IN
     /\ last' = RecordPermit(last, h, stamp[r])
     /\ grants' = [grants EXCEPT ![h] = @ + 1]
  /\ grant' = [grant EXCEPT ![r] = puts]
  /\ LoadPointer(r)
  /\ UNCHANGED <<now, config, configErr, epoch, caches, proxyKeys, req, cfg,
                 stamp, began, doc, resp, arrivals, readEpoch, sawKey,
                 sawConfig, puts>>

\* Deviation: a refused refresh waits until it is allowed.
RefuseRefresh_Waits(r) ==
  /\ pc[r] = "allow"
  /\ ~RefreshPermitted(r)
  /\ Go(r, "stamp")
  /\ LoadPointer(r)
  /\ UNCHANGED <<shared, req, cfg, stamp, began, doc, resp, arrivals, ghosts>>

\* A refused refresh is answered from the cache like any other call.
RefuseRefresh(r) ==
  /\ pc[r] = "allow"
  /\ ~RefreshPermitted(r)
  /\ Go(r, "lookup")
  /\ LoadPointer(r)
  /\ UNCHANGED <<shared, req, cfg, stamp, began, doc, resp, arrivals, ghosts>>

DropEntry(r) ==
  /\ pc[r] = "invalidate"
  /\ \E e \in Loaded(r) :
       caches' = [caches EXCEPT ![e] = Invalidate(@, req[r].route)]
  /\ Go(r, "lookup")
  /\ LoadPointer(r)
  /\ UNCHANGED <<now, config, configErr, epoch, last, proxyKeys, req, cfg,
                 stamp, began, doc, resp, arrivals, ghosts>>

ServeCached(r) ==
  /\ pc[r] = "lookup"
  /\ \E e \in Loaded(r) :
       /\ Fresh(caches[e], req[r].route, now)
       /\ Answer(r, 200, caches[e][req[r].route], now)
  /\ UNCHANGED <<shared, ghosts>>

\* A miss: the build starts, under a context of its own.
StartBuild(r) ==
  /\ pc[r] = "lookup"
  /\ \E e \in Loaded(r) : ~Fresh(caches[e], req[r].route, now)
  /\ Go(r, "fetch")
  /\ began' = [began EXCEPT ![r] = now]
  /\ UNCHANGED <<shared, req, cfg, ptr, stamp, doc, resp, arrivals, ghosts>>

\* Deviation: an empty document stands for the one that could not be built.
BuildFails_Continues(r) ==
  /\ pc[r] = "fetch"
  /\ Go(r, "store")
  /\ LoadPointer(r)
  /\ UNCHANGED <<shared, req, cfg, stamp, began, doc, resp, arrivals, ghosts>>

\* fetchAuthFiles or fetchModels fails: nothing is stored.
BuildFails(r) ==
  /\ pc[r] = "fetch"
  /\ Reply(r, 502)

\* The first answer from upstream: the document is as old as this.
ReadUpstream(r) ==
  /\ pc[r] = "fetch"
  /\ Go(r, "render")
  /\ doc' = [doc EXCEPT ![r] = [builtUnder |-> readEpoch[r], readAt |-> now]]
  /\ LoadPointer(r)
  /\ UNCHANGED <<shared, req, cfg, stamp, began, resp, arrivals, ghosts>>

\* The build is over; put is called on the cache the pointer names and reads
\* the clock before it locks.
StampStore(r) ==
  /\ pc[r] = "render"
  /\ Go(r, "store")
  /\ \E e \in Loaded(r) : ptr' = [ptr EXCEPT ![r] = e]
  /\ stamp' = [stamp EXCEPT ![r] = now]
  /\ UNCHANGED <<shared, req, cfg, began, doc, resp, arrivals, ghosts>>

PutDocument(r) ==
  /\ pc[r] = "store"
  /\ LET value == [doc |-> doc[r], no |-> puts + 1, heldIn |-> epoch]
         entry == NewEntry(value, stamp[r], TTL(cfg[r], req[r].route))
     IN /\ caches' = [caches EXCEPT ![ptr[r]] = Store(@, req[r].route, entry)]
        /\ Answer(r, 200, entry, stamp[r])
  /\ puts' = puts + 1
  /\ UNCHANGED <<now, config, configErr, epoch, last, proxyKeys, readEpoch,
                 sawKey, sawConfig, grant, grants>>

-----------------------------------------------------------------------------
(* applyLifecycleConfig, and what happens outside the plugin *)

\* Deviation: the documents of the old cache are carried over.
Reconfigure_KeepsDocuments(c) ==
  /\ epoch < MaxReconfigure
  /\ config' = c
  /\ configErr' = FALSE
  /\ epoch' = epoch + 1
  /\ caches' = [caches EXCEPT ![epoch + 1] = caches[epoch]]
  /\ sawConfig' = [r \in Request |->
       sawConfig[r] \/ (InFlight(r) /\ Accepts(FALSE, c, req[r].token))]
  /\ UNCHANGED <<now, last, proxyKeys, local, arrivals, readEpoch, sawKey,
                 grant, grants, puts>>

\* A configuration that parses: new caches, but the limiter is kept.
Reconfigure(c) ==
  /\ epoch < MaxReconfigure
  /\ config' = c
  /\ configErr' = FALSE
  /\ epoch' = epoch + 1
  /\ caches' = [caches EXCEPT ![epoch + 1] = EmptyCache(DocKey)]
  /\ sawConfig' = [r \in Request |->
       sawConfig[r] \/ (InFlight(r) /\ Accepts(FALSE, c, req[r].token))]
  /\ UNCHANGED <<now, last, proxyKeys, local, arrivals, readEpoch, sawKey,
                 grant, grants, puts>>

\* One that does not: every later call is refused, the caches stay.
RejectConfig ==
  /\ config' = DefaultConfig
  /\ configErr' = TRUE
  /\ UNCHANGED <<now, epoch, caches, last, proxyKeys, local, arrivals, ghosts>>

\* External: keys are added to or removed from CLIProxyAPI.
RotateKeys(keys) ==
  /\ proxyKeys' = keys
  /\ sawKey' = [r \in Request |->
                  sawKey[r] \/ (InFlight(r) /\ req[r].token \in keys)]
  /\ UNCHANGED <<now, config, configErr, epoch, caches, last, local, arrivals,
                 readEpoch, sawConfig, grant, grants, puts>>

\* Time passes, but no build outlives its context: the HTTP calls carry it.
Tick ==
  /\ now < MaxTime
  /\ \A r \in Request :
       pc[r] \in {"fetch", "render"} => now < began[r] + BuildDeadline
  /\ now' = now + 1
  /\ UNCHANGED <<config, configErr, epoch, caches, last, proxyKeys, local,
                 arrivals, ghosts>>

-----------------------------------------------------------------------------
\* The steps of a call once it has arrived.
Handle(r) ==
  \/ ServePanel(r) \/ RefuseInvalidConfig(r) \/ ReadConfig(r)
  \/ KeysUnavailable(r) \/ Unauthorized(r) \/ NotFound(r) \/ Dispatch(r)
  \/ Capabilities(r)
  \/ StampRefresh(r) \/ PermitRefresh(r) \/ RefuseRefresh(r) \/ DropEntry(r)
  \/ ServeCached(r) \/ StartBuild(r) \/ BuildFails(r) \/ ReadUpstream(r)
  \/ StampStore(r) \/ PutDocument(r)

Environment ==
  \/ \E r \in Request, q \in ClientRequest : Arrive(r, q)
  \/ \E c \in Config : Reconfigure(c)
  \/ RejectConfig
  \/ \E keys \in ProxyKeyLists : RotateKeys(keys)
  \/ Tick

Next == (\E r \in Request : Handle(r)) \/ Environment

Spec == Init /\ [][Next]_vars

\* A goroutine that can run does, and every HTTP exchange returns: each one
\* carries a context with a timeout.  Nothing is assumed of the environment.
FairSpec == Spec /\ \A r \in Request : WF_vars(Handle(r))

-----------------------------------------------------------------------------
(* Properties *)

\* A call gets past authorization only when, at some moment between its
\* arrival and its answer, the proxy accepted its key, and at some moment a
\* valid configuration admitted it: a key list or a configuration that
\* changes while the call runs cannot add up to an access that was never
\* granted, and a rejected configuration lets nobody in.
AuthorizedService ==
  \A r \in Request :
    resp[r].status \in {200, 404, 502} /\ req[r].route # "panel"
      => sawKey[r] /\ sawConfig[r]

\* Once a new configuration is in force, a call that reads it is never
\* answered with a document that was already cached before: only a build that
\* was still running may have put one there since.
NoPreReconfigureDocument ==
  \A r \in Request :
    resp[r].entry # None => resp[r].entry.value.heldIn >= readEpoch[r]

\* A refresh that is permitted is answered with a document stored after the
\* permission, whatever other calls store and drop, and however late their
\* stores land.
RefreshSeesLaterStore ==
  \A r \in Request :
    resp[r].entry # None /\ grant[r] # None
      => resp[r].entry.value.no > grant[r]

\* Per hint, the refreshes permitted fit the time elapsed at the shortest
\* configured interval, even though the clock is read before the limiter is
\* locked and reconfigurations change the interval.
GrantBudget ==
  \A h \in Hint : grants[h] > 0 => (grants[h] - 1) * MinUsageTTL <= now

\* No caller is shown data read longer ago than the lifetime it was stored
\* for plus the time a build may take, whichever builds overlap and whichever
\* of them stores last.
ServedDataAge ==
  \A r \in Request : resp[r].entry # None =>
    LET e == resp[r].entry IN
    resp[r].at - e.value.doc.readAt
      <= (e.expiresAt - e.storedAt) + BuildDeadline

\* Every call that arrives is answered.
RequestsAnswered ==
  \A r \in Request : (pc[r] = "received") ~> (pc[r] = "done")
=============================================================================
