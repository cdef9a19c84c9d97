--------------------------- MODULE MCModelCatalog ---------------------------
(***************************************************************************)
(* ModelCatalog with two builds, one model the catalogue knows under       *)
(* another name and one it comes to know later.                            *)
(***************************************************************************)
EXTENDS ModelCatalog, TLC

CONSTANTS b1, b2

Aliases == [id \in Id |-> IF id = "house" THEN "sol" ELSE id]

\* models.dev answers without usable entries for a while.
Contents == <<{"sol"}, {}, {"sol", "nova"}>>

Prices == {{}, {"nova"}}

Slots == Permutations(Build)
=============================================================================
