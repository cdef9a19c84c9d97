--------------------------- MODULE NewestRequest ---------------------------
(***************************************************************************)
(* What the last-model register promises, with no handlers, locks or       *)
(* clocks: per credential it names a request seen so far that no request   *)
(* seen so far is newer than, and it changes its mind only for a request   *)
(* that is strictly newer than the one it names.                           *)
(***************************************************************************)
EXTENDS Integers

CONSTANTS Auth, Model, Time, None

VARIABLES
  seen,     \* per credential, the requests seen: [model, requestedAt]
  newest    \* per credential, the request named, or None

Seen == [model : Model, requestedAt : Time]

Init == /\ seen = [a \in Auth |-> {}]
        /\ newest = [a \in Auth |-> None]

Observe(a, x) ==
  /\ seen' = [seen EXCEPT ![a] = @ \cup {x}]
  /\ newest' = [newest EXCEPT ![a] =
       IF @ # None /\ x.requestedAt <= @.requestedAt THEN @ ELSE x]

Next == \E a \in Auth, x \in Seen : Observe(a, x)

Spec == Init /\ [][Next]_<<seen, newest>>

\* The promise, as an invariant of Spec.
NamesTheNewest ==
  \A a \in Auth :
    IF seen[a] = {} THEN newest[a] = None
    ELSE /\ newest[a] \in seen[a]
         /\ \A x \in seen[a] : x.requestedAt <= newest[a].requestedAt
=============================================================================
