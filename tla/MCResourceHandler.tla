------------------------- MODULE MCResourceHandler -------------------------
(***************************************************************************)
(* ResourceHandler on small instances.                                     *)
(***************************************************************************)
EXTENDS ResourceHandler, TLC

CONSTANTS r1, r2, k1, k2, open

Keys == {k1, k2}
Mask == k1 :> "h1" @@ k2 :> "h2"
Checkbox == k1 :> "key_h1" @@ k2 :> "key_h2"

\* One configuration; putting it in force again still replaces the caches.
Everybody  == [c \in Config |-> TRUE]
NoTicks    == [c \in Config |-> {}]
UsageTTLOf == [c \in Config |-> 1]
CapTTLOf   == [c \in Config |-> 2]

Ask(route, token, refresh) ==
  [route |-> route, token |-> token, refresh |-> refresh]

\* The second key is never in the list.  A refresh that is refused does what a
\* plain call does.
SomeCalls == {Ask("usage", k1, TRUE), Ask("usage", k2, FALSE),
              Ask("capabilities", k1, FALSE), Ask("other", k1, FALSE),
              Ask("panel", None, FALSE)}

OneList == {{k1}}

Slots == Permutations(Request)
=============================================================================
