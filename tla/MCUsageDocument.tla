-------------------------- MODULE MCUsageDocument --------------------------
(***************************************************************************)
(* UsageDocument with two builds and one credential of each kind of reader.*)
(***************************************************************************)
EXTENDS UsageDocument, TLC

CONSTANTS b1, b2, a1, a2

Listed(a, p, project) == [auth |-> a, provider |-> p, project |-> project]

MixedLists ==
  { <<Listed(a1, "antigravity", TRUE), Listed(a2, "other", FALSE)>>,
    <<Listed(a2, "github-copilot", FALSE), Listed(a1, "antigravity", FALSE)>>,
    <<Listed(a2, "", FALSE), Listed(a1, "other", FALSE)>> }

\* All requests are made with one credential.
TwoRequests == [a \in Auth |-> IF a = a1 THEN 2 ELSE 0]

Slots == Permutations(Build)
=============================================================================
