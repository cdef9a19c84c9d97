---------------------------- MODULE KeySelection ----------------------------
(***************************************************************************)
(* The operator's side of ResourceHandler: plugin.register and             *)
(* plugin.reconfigure (handleMethod, applyLifecycleConfig, parseConfig,    *)
(* pluginRegistration, keyCheckboxFields; src/main.go, src/config.go).     *)
(* The host delivers the block plugins.configs.pi-bridge; the plugin puts  *)
(* it in force, or refuses everybody when it does not parse, and answers   *)
(* with the checkboxes to show for the keys the proxy accepts.             *)
(*                                                                         *)
(* External: the host makes one lifecycle call at a time.  ResourceHandler *)
(* is instantiated with the configurations parseConfig returns.            *)
(***************************************************************************)
EXTENDS ResourceHandler

CONSTANTS
  Block,        \* the blocks an operator may save
  DefaultBlock, \* the empty one
  DefaultTTL    \* defaultAdvanced's usage_ttl_seconds

\* What YAML holds for a checkbox: a boolean, anything else, or nothing.
Box == {"on", "off", "text", "absent"}

ASSUME BlockAssumption ==
  /\ Block \subseteq [yaml : BOOLEAN, allow : BOOLEAN \cup {None},
                      boxes : [Field -> Box],
                      advanced : {"absent", "object", "broken"}, ttl : Int]
  /\ DefaultBlock \in Block
  /\ DefaultTTL \in Nat \ {0}
  /\ None \notin BOOLEAN

VARIABLES
  block,      \* the block delivered last
  lifecycle,  \* "idle", or "register" while the boxes are being listed
  form,       \* the boxes the last registration declared
  (* History *)
  barred      \* at some moment of the call its key was not to be served

operator == <<block, lifecycle, form, barred>>

-----------------------------------------------------------------------------
(* parseConfig *)

Parses(b) == b.yaml /\ b.advanced # "broken"

Selected(b) == {f \in Field : b.boxes[f] = "on"}

Parse(b) ==
  [allowAll |-> IF b.allow = None THEN TRUE ELSE b.allow,
   selected |-> Selected(b),
   usageTTL |-> IF b.advanced = "object" /\ b.ttl > 0 THEN b.ttl ELSE DefaultTTL]

\* How the constants of ResourceHandler are what parseConfig returns.
ASSUME ParseAssumption ==
  /\ DefaultConfig = Parse(DefaultBlock)
  /\ Config = {Parse(b) : b \in {x \in Block : Parses(x)}}
  /\ \A c \in Config : /\ AllowAll[c] = c.allowAll
                       /\ Ticked[c] = c.selected
                       /\ UsageTTL[c] = c.usageTTL

\* README.md:196-220: every key is let in unless the operator turned that off,
\* and then the keys whose checkbox is ticked; a broken block lets nobody in.
Chosen(b, token) ==
  /\ Parses(b) /\ token # None
  /\ b.allow = FALSE => b.boxes[KeyField[token]] = "on"

Barred(token, keys, b) == token \notin keys \/ ~Chosen(b, token)

NowBarred(keys, b) ==
  [r \in Request |-> \/ barred[r]
                     \/ InFlight(r) /\ Barred(req[r].token, keys, b)]

SelectionTypes ==
  /\ block \in Block
  /\ lifecycle \in {"idle", "register"}
  /\ form \subseteq Field
  /\ barred \in [Request -> BOOLEAN]

-----------------------------------------------------------------------------
(* plugin.register and plugin.reconfigure *)

\* Deviation: a block that does not parse leaves the last one in force.
Deliver_KeepsLast(b) ==
  /\ lifecycle = "idle"
  /\ IF Parses(b) THEN Reconfigure(Parse(b)) ELSE UNCHANGED vars
  /\ lifecycle' = "register"
  /\ block' = b
  /\ barred' = NowBarred(proxyKeys, b)
  /\ UNCHANGED form

\* applyLifecycleConfig
Deliver(b) ==
  /\ lifecycle = "idle"
  /\ IF Parses(b) THEN Reconfigure(Parse(b)) ELSE RejectConfig
  /\ lifecycle' = "register"
  /\ block' = b
  /\ barred' = NowBarred(proxyKeys, b)
  /\ UNCHANGED form

\* Deviation: a box is named by the masked form as it is.
DeclareBoxes_ByHint ==
  /\ lifecycle = "register"
  /\ lifecycle' = "idle"
  /\ form' \in {{MaskKey[k] : k \in proxyKeys}, {}}
  /\ UNCHANGED <<vars, block, barred>>

\* pluginRegistration: one box per masked form, or none when the list cannot
\* be read.
DeclareBoxes ==
  /\ lifecycle = "register"
  /\ lifecycle' = "idle"
  /\ form' \in {{KeyField[k] : k \in proxyKeys}, {}}
  /\ UNCHANGED <<vars, block, barred>>

-----------------------------------------------------------------------------
(* The calls and the proxy *)

CallArrives(r, q) ==
  /\ Arrive(r, q)
  /\ barred' = [barred EXCEPT ![r] = Barred(q.token, proxyKeys, block)]
  /\ UNCHANGED <<block, lifecycle, form>>

Serve(r) == Handle(r) /\ UNCHANGED operator

Rotate(keys) ==
  /\ RotateKeys(keys)
  /\ barred' = NowBarred(keys, block)
  /\ UNCHANGED <<block, lifecycle, form>>

\* The state after the first plugin.register has put its block in force.
SelectionInit ==
  /\ Init
  /\ block \in {b \in Block : IF Parses(b) THEN config = Parse(b) /\ ~configErr
                              ELSE configErr}
  /\ lifecycle = "register" /\ form = {}
  /\ barred = [r \in Request |-> FALSE]

SelectionNext ==
  \/ \E b \in Block : Deliver(b)
  \/ DeclareBoxes
  \/ \E r \in Request : Serve(r) \/ \E q \in ClientRequest : CallArrives(r, q)
  \/ \E keys \in ProxyKeyLists : Rotate(keys)
  \/ Tick /\ UNCHANGED operator

SelectionSpec == SelectionInit /\ [][SelectionNext]_<<vars, operator>>

\* As in ResourceHandler; nothing is asked of the operator or the host.
FairSelectionSpec ==
  SelectionSpec /\ \A r \in Request : WF_<<vars, operator>>(Serve(r))

-----------------------------------------------------------------------------
(* Properties *)

\* main.go:251, README.md:196: whatever was in force before and whichever
\* requests run, the keys let in are those the block delivered last chooses,
\* and none when it is broken.
BlockInForce ==
  \A k \in Key : Accepts(configErr, config, k) <=> Chosen(block, k)

\* README.md:196: a call is refused as unauthorized only when, at some moment
\* of it, the proxy did not accept its key or the operator had not chosen it:
\* a configuration and a key list read at different moments do not add up to a
\* refusal neither of them calls for.
RefusedWasBarred ==
  \A r \in Request : resp[r].status = 401 => barred[r]
=============================================================================
