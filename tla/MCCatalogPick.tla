--------------------------- MODULE MCCatalogPick ---------------------------
(***************************************************************************)
(* CatalogPick on one or two vendors, two independent hosts and resellers. *)
(* The names are in the order a reader of catalog.go would expect: "groq"  *)
(* and "together" are resellers, "alibaba" and "deepseek" are vendors.     *)
(***************************************************************************)
EXTENDS CatalogPick, TLC

RankOfName ==
  [p \in Provider |->
     IF p \in {"alibaba", "deepseek"} THEN 0
     ELSE IF p \in {"groq", "together"} THEN 2 ELSE 1]

Alphabet == <<"alibaba", "chutes", "deepseek", "groq", "nebius", "together">>

NameOfName == [p \in Provider |-> CHOOSE i \in DOMAIN Alphabet : Alphabet[i] = p]

Shapes == {"small", "large"}

Entries == [shape : Shapes, rest : Provider]

\* Every provider publishes the model with one of the two shapes or not at
\* all, under its own prices; one of them also lists a blank id.
PayloadOf(f) ==
  [p \in Provider |->
     [id \in Id |->
        IF id = Blank
          THEN IF p = "nebius" THEN [shape |-> "small", rest |-> p] ELSE None
        ELSE IF f[p] = None THEN None
        ELSE [shape |-> f[p], rest |-> p]]]

Payloads == {PayloadOf(f) : f \in [Provider -> Shapes \cup {None}]}
=============================================================================
