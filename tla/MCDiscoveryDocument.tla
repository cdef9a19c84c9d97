------------------------ MODULE MCDiscoveryDocument ------------------------
(***************************************************************************)
(* DiscoveryDocument on lists of one model whose metadata comes in every   *)
(* combination of sources, and on lists of several models and credentials. *)
(***************************************************************************)
EXTENDS DiscoveryDocument, TLC

\* "sol" is what models.dev calls the proxy's "house"; "gpt-5" is forced to
\* reason; "a:b" is excluded and "" is no id.
Kinds == "acme" :> "custom" @@ "anthropic" :> "anthropic" @@ "openai" :> "openai"

M(id, owner) == [id |-> id, owner |-> owner]

Table(rows) == [id \in Id |-> IF id \in DOMAIN rows THEN rows[id] ELSE None]

CatalogRows == {None, {}, {"context"}, {"name", "tokens"}, Field}
PriceRows   == {None, {}, {"tokens"}, Limit}
Overrides   == {None, {}, {"context"}, {"tokens", "cost"}, {"name", "reasoning"}, Field}

OneModel ==
  {[models |-> <<M("house", owner)>>, files |-> <<>>,
    prices |-> Table("house" :> p @@ "sol" :> q),
    catalog |-> Table("house" :> c @@ "sol" :> d),
    alias |-> Table("house" :> a),
    overrides |-> Table("house" :> o @@ "sol" :> Field)] :
     owner \in {"acme", "anthropic"}, p \in PriceRows, q \in {None, Limit},
     c \in {None, Field}, d \in CatalogRows, a \in {None, "sol"}, o \in Overrides}

\* An override that gives one number, as in README.md:71.
OneNumber == {x \in OneModel : x.overrides["house"] = {"context"}}

Models == {M("house", "acme"), M("sol", "openai"), M("gpt-5", "acme"), M("a:b", "acme"), M("", "acme")}

Files == {[provider |-> p, disabled |-> d, broken |-> b] :
            p \in {"claude", "codex", None}, d \in BOOLEAN, b \in BOOLEAN}

ManyOf(n, m, files) ==
  {[models |-> ms, files |-> fs, prices |-> Table("sol" :> {}),
    catalog |-> Table("gpt-5" :> {"name"}),
    alias |-> NoPrices, overrides |-> NoPrices] :
     ms \in [1..n -> Models], fs \in [1..m -> files]}

AnyInput == OneModel \cup ManyOf(4, 1, {f \in Files : f.provider = "codex"})
                     \cup ManyOf(1, 3, Files) \cup ManyOf(0, 0, Files)
=============================================================================
