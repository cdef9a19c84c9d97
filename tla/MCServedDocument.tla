-------------------------- MODULE MCServedDocument --------------------------
(***************************************************************************)
(* ServedDocument with two clients that ask for both contracts.            *)
(***************************************************************************)
EXTENDS ServedDocument, TLC

CONSTANTS r1, r2, k1, k2, short, long

Keys == {k1, k2}
Mask == k1 :> "h1" @@ k2 :> "h2"
Checkbox == k1 :> "key_h1" @@ k2 :> "key_h2"

Everybody == [c \in Config |-> TRUE]
NoTicks   == [c \in Config |-> {}]
TTLOf     == [c \in Config |-> IF c = short THEN 1 ELSE 2]

Ask(route, token) == [route |-> route, token |-> token, refresh |-> FALSE]

Asked == {Ask("usage", k1), Ask("usage", k2), Ask("well-known", k1)}

\* The first client asks for a contract to come, the second for the first one;
\* both contracts of the catalogue are asked for too.
Calls == {<<Ask("usage", k1), 99>>, <<Ask("usage", k2), None>>,
          <<Ask("well-known", k1), 99>>, <<Ask("well-known", k1), None>>}

\* Bound: the calls of a behaviour are all for usage, or all for the catalogue,
\* whose shape neither records nor the clock change.
OneDocument ==
  \A r \in Request : pc[r] # "idle" /\ req[r].route = "well-known" =>
    /\ counted = {} /\ registered = {} /\ now = 0
    /\ \A s \in Request : pc[s] # "idle" => req[s].route = "well-known"

\* Bound: the lifetime that is reconfigured becomes the shorter one.
Shortened == epoch > 0 => config = short

Lists == {{k1, k2}}

Slots == Permutations(Request)
=============================================================================
