------------------------- MODULE DiscoveryDocument -------------------------
(***************************************************************************)
(* One build of the discovery document (buildDiscovery, src/discovery.go): *)
(* which models it publishes, where each field of a model's metadata comes *)
(* from, the counts it reports and the provider health.                    *)
(*                                                                         *)
(* A row of metadata, in CPAM's price table, in models.dev's catalogue or  *)
(* in model_overrides, is the set of the fields it gives a value; a value  *)
(* is the row it came from.  What a field shows when no row gives it one   *)
(* depends on the kind of the model: Zero, Default or Omitted.  How the    *)
(* catalogue changes while builds run is the subject of ModelCatalog; one  *)
(* build sees one catalogue here.                                          *)
(***************************************************************************)
EXTENDS Integers, FiniteSets, Sequences

CONSTANTS
  Id,        \* model ids, of the proxy and of models.dev
  Skipped,   \* the empty id and the ids defaultDiscoveryExcludes matches
  Forced,    \* the ids reasoningPatterns match
  Owner,     \* owned_by values
  KindOf,    \* "anthropic" or "openai" for the native owners, else "custom"
  Provider,  \* normalized provider names
  None,      \* "no row", "no alias", "no provider"
  Inputs     \* what a build may work with

Field == {"name", "context", "tokens", "reasoning", "cost"}
Limit == {"context", "tokens"}
Row == SUBSET Field

Model == [id : Id, owner : Owner]

Credential == [provider : Provider \cup {None}, disabled : BOOLEAN,
               broken : BOOLEAN]

\* models and files are external; alias and overrides are the configuration.
Input == [models : Seq(Model), prices : [Id -> {None} \cup SUBSET Limit],
          catalog : [Id -> {None} \cup Row], alias : [Id -> Id \cup {None}],
          overrides : [Id -> {None} \cup Row], files : Seq(Credential)]

ASSUME DiscoveryAssumption ==
  /\ Skipped \subseteq Id /\ Forced \subseteq Id
  /\ KindOf \in [Owner -> {"anthropic", "openai", "custom"}]
  /\ None \notin Id \cup Provider
  /\ Inputs \subseteq Input

VARIABLES
  input,
  pc,
  prices,     \* the price table the build read, empty when it could not
  next,       \* the model, then the credential to look at
  published,  \* the models published, [model, kind, shown, source]
  counts,     \* doc.Counts
  matched,    \* models some source knows
  unmatched,  \* per id, the models no source knows
  health      \* providerHealth, or None

vars == <<input, pc, prices, next, published, counts, matched, unmatched, health>>

-----------------------------------------------------------------------------
(* A value is the row it was read from, or says why there is none. *)

Unset   == <<>>
Zero    == <<"zero">>
Default == <<"default">>
Omitted == <<"omitted">>
Always  == <<"forced">>

Value == ({"override", "cpam", "catalog"} \X Id)
           \cup {Unset, Zero, Default, Omitted, Always}

Source == {"override", "cpam", "alias", "catalog", "default"}

Counts == [upstreamTotal : Nat, afterExcludes : Nat, builtin : Nat, custom : Nat]

ProviderHealth == [accounts : Nat, healthy : Nat, degraded : Nat,
                   disabled : Nat, reachable : BOOLEAN]

TypeOK ==
  /\ input \in Input
  /\ pc \in {"models", "prices", "resolve", "health", "count", "failed", "done"}
  /\ prices \in [Id -> {None} \cup Row]
  /\ next \in Nat \ {0}
  /\ pc = "resolve" => next <= Len(input.models) + 1
  /\ pc = "count" => next <= Len(input.files) + 1
  /\ \A i \in DOMAIN published :
       /\ published[i].model \in Model /\ published[i].source \in Source
       /\ \A f \in DOMAIN published[i].shown :
            published[i].shown[f] \in Value \ {Unset}
  /\ counts \in Counts /\ matched \in Nat
  /\ unmatched \in [Id -> Nat]
  /\ health = None \/ \A p \in DOMAIN health : health[p] \in ProviderHealth

-----------------------------------------------------------------------------
(* loadCPAMEntries *)

NoPrices == [id \in Id |-> None]

\* Every priced model has a cost; its limits depend on the vendor's shape.
CPAMEntries ==
  [id \in Id |-> IF input.prices[id] = None THEN None
                 ELSE {"cost"} \cup input.prices[id]]

-----------------------------------------------------------------------------
(* resolveModelMeta *)

NoEntry == [f \in Field |-> Unset]

Entry(from, id, row) ==
  [f \in Field |-> IF f \in row THEN <<from, id>> ELSE Unset]

\* Deviation: what is known is overwritten.
MergeEntry_Overwrites(dst, src) ==
  [f \in Field |-> IF src[f] # Unset THEN src[f] ELSE dst[f]]

\* mergeEntry: src fills the gaps of dst.
MergeEntry(dst, src) ==
  [f \in Field |-> IF dst[f] = Unset THEN src[f] ELSE dst[f]]

LookupId(id) == IF input.alias[id] = None THEN id ELSE input.alias[id]

\* The row of the id itself, else the one of its alias.
FromCPAM(id) ==
  LET key == IF prices[id] # None THEN id ELSE LookupId(id)
  IN IF prices[key] = None THEN NoEntry ELSE Entry("cpam", key, prices[key])

FromCatalog(id) ==
  LET key == LookupId(id)
  IN IF input.catalog[key] = None THEN NoEntry
     ELSE Entry("catalog", key, input.catalog[key])

FromOverride(id) ==
  IF input.overrides[id] = None THEN NoEntry
  ELSE Entry("override", id, input.overrides[id])

\* An override replaces the fields it sets and leaves the others.
Resolved(id) ==
  LET entry == MergeEntry(FromCPAM(id), FromCatalog(id))
      over  == FromOverride(id)
  IN [f \in Field |-> IF over[f] # Unset THEN over[f] ELSE entry[f]]

\* "default" is buildCustomModel's word for a model no source knows.
SourceOf(id) ==
  IF input.overrides[id] # None THEN "override"
  ELSE IF prices[id] # None \/ prices[LookupId(id)] # None THEN "cpam"
  ELSE IF input.catalog[LookupId(id)] = None THEN "default"
  ELSE IF LookupId(id) = id THEN "catalog" ELSE "alias"

-----------------------------------------------------------------------------
(* buildBuiltinModel and buildCustomModel *)

ForceReasoning(id, shown) ==
  IF id \in Forced THEN [shown EXCEPT !["reasoning"] = Always] ELSE shown

\* A built-in model has no cost, and what is not known is left out.
BuiltinModel(id) ==
  LET entry == Resolved(id) IN
  ForceReasoning(id, [f \in Field \ {"cost"} |->
               IF entry[f] = Unset THEN Omitted ELSE entry[f]])

\* Deviation: what no source gives is left as it is.
CustomModel_AsResolved(id) ==
  LET entry == Resolved(id) IN
  ForceReasoning(id, [f \in Field |->
               IF SourceOf(id) # "default" THEN entry[f]
               ELSE IF f \in Limit THEN Default ELSE Zero])

\* The default limits stand only for a model no source has a row for.
CustomModel(id) ==
  LET entry == Resolved(id) IN
  ForceReasoning(id, [f \in Field |->
               IF entry[f] # Unset THEN entry[f]
               ELSE IF f \in Limit /\ SourceOf(id) = "default" THEN Default
               ELSE Zero])

-----------------------------------------------------------------------------
(* buildDiscovery *)

Init ==
  /\ input \in Inputs
  /\ pc = "models" /\ prices = NoPrices /\ next = 1 /\ published = <<>>
  /\ counts = [upstreamTotal |-> 0, afterExcludes |-> 0, builtin |-> 0, custom |-> 0]
  /\ matched = 0 /\ unmatched = [id \in Id |-> 0] /\ health = None

\* Without a model list there is no document.
FetchModels ==
  /\ pc = "models"
  /\ pc' \in {"prices", "failed"}
  /\ UNCHANGED <<input, prices, next, published, counts, matched, unmatched, health>>

\* Prices are best effort.
LoadPrices ==
  /\ pc = "prices"
  /\ pc' = "resolve"
  /\ prices' \in {CPAMEntries, NoPrices}
  /\ UNCHANGED <<input, next, published, counts, matched, unmatched, health>>

Current == input.models[next]

AtModel == pc = "resolve" /\ next <= Len(input.models)

SkipModel ==
  /\ AtModel /\ Current.id \in Skipped
  /\ next' = next + 1
  /\ counts' = [counts EXCEPT !.upstreamTotal = @ + 1]
  /\ UNCHANGED <<input, pc, prices, published, matched, unmatched, health>>

\* Deviation: only the models of the custom pool are counted as unmatched.
PublishModel_CustomUnmatched ==
  LET id == Current.id  kind == KindOf[Current.owner]  source == SourceOf(id)
  IN
  /\ AtModel /\ id \notin Skipped
  /\ next' = next + 1
  /\ published' = Append(published,
       [model |-> Current, kind |-> kind, source |-> source,
        shown |-> IF kind = "custom" THEN CustomModel(id) ELSE BuiltinModel(id)])
  /\ counts' = [counts EXCEPT !.upstreamTotal = @ + 1, !.afterExcludes = @ + 1]
  /\ IF source = "default" /\ kind = "custom"
       THEN unmatched' = [unmatched EXCEPT ![id] = @ + 1] /\ UNCHANGED matched
       ELSE matched' = matched + 1 /\ UNCHANGED unmatched
  /\ UNCHANGED <<input, pc, prices, health>>

PublishModel ==
  LET id == Current.id  kind == KindOf[Current.owner]  source == SourceOf(id)
  IN
  /\ AtModel /\ id \notin Skipped
  /\ next' = next + 1
  /\ published' = Append(published,
       [model |-> Current, kind |-> kind, source |-> source,
        shown |-> IF kind = "custom" THEN CustomModel(id) ELSE BuiltinModel(id)])
  /\ counts' = [counts EXCEPT !.upstreamTotal = @ + 1, !.afterExcludes = @ + 1]
  /\ IF source = "default"
       THEN unmatched' = [unmatched EXCEPT ![id] = @ + 1] /\ UNCHANGED matched
       ELSE matched' = matched + 1 /\ UNCHANGED unmatched
  /\ UNCHANGED <<input, pc, prices, health>>

Of(kinds) == {i \in DOMAIN published : published[i].kind \in kinds}

ReportCounts ==
  /\ pc = "resolve" /\ next > Len(input.models)
  /\ pc' = "health"
  /\ counts' = [counts EXCEPT !.builtin = Cardinality(Of({"anthropic", "openai"})),
                              !.custom = Cardinality(Of({"custom"}))]
  /\ UNCHANGED <<input, prices, next, published, matched, unmatched, health>>

-----------------------------------------------------------------------------
(* providerHealth *)

NoAccounts ==
  [accounts |-> 0, healthy |-> 0, degraded |-> 0, disabled |-> 0, reachable |-> FALSE]

\* Deviation: an unavailable credential is degraded even when it is disabled.
Counted_BrokenFirst(h, c) ==
  [h EXCEPT !.accounts = @ + 1,
            !.degraded = IF c.broken THEN @ + 1 ELSE @,
            !.disabled = IF c.disabled THEN @ + 1 ELSE @,
            !.healthy = IF c.disabled \/ c.broken THEN @ ELSE @ + 1]

\* A disabled credential is counted as disabled whatever else it is.
Counted(h, c) ==
  [h EXCEPT !.accounts = @ + 1,
            !.disabled = IF c.disabled THEN @ + 1 ELSE @,
            !.degraded = IF ~c.disabled /\ c.broken THEN @ + 1 ELSE @,
            !.healthy = IF c.disabled \/ c.broken THEN @ ELSE @ + 1]

\* Best effort too: without the credentials the section is left out.
ReadAuthFiles ==
  /\ pc = "health"
  /\ \/ pc' = "count" /\ next' = 1 /\ health' = [p \in {} |-> NoAccounts]
     \/ pc' = "done" /\ UNCHANGED <<next, health>>
  /\ UNCHANGED <<input, prices, published, counts, matched, unmatched>>

\* A credential without a provider's name is passed over.
CountCredential ==
  LET c == input.files[next]
      before == IF c.provider \in DOMAIN health THEN health[c.provider] ELSE NoAccounts
  IN
  /\ pc = "count" /\ next <= Len(input.files)
  /\ next' = next + 1
  /\ health' = IF c.provider = None THEN health
               ELSE [p \in DOMAIN health \cup {c.provider} |->
                       IF p = c.provider THEN Counted(before, c) ELSE health[p]]
  /\ UNCHANGED <<input, pc, prices, published, counts, matched, unmatched>>

ReportHealth ==
  /\ pc = "count" /\ next > Len(input.files)
  /\ pc' = "done"
  /\ health' = [p \in DOMAIN health |->
                  [health[p] EXCEPT !.reachable = health[p].healthy > 0]]
  /\ UNCHANGED <<input, prices, next, published, counts, matched, unmatched>>

Next == FetchModels \/ LoadPrices \/ SkipModel \/ PublishModel \/ ReportCounts
          \/ ReadAuthFiles \/ CountCredential \/ ReportHealth

Spec == Init /\ [][Next]_vars

-----------------------------------------------------------------------------
(* Properties *)

\* The rows README.md:56 lists for a model, the most authoritative first.
Rows(id) ==
  LET lid == LookupId(id)
      At(from, table, key) == [from |-> from, id |-> key, row |-> table[key]]
  IN << At("override", input.overrides, id),
        At("cpam", prices, IF prices[id] = None THEN lid ELSE id),
        At("catalog", input.catalog, lid) >>

Known(id) == \E k \in DOMAIN Rows(id) : Rows(id)[k].row # None

\* Source k has a row for the model that gives field f a value.
Gives(id, k, f) == Rows(id)[k].row # None /\ f \in Rows(id)[k].row

\* README.md:56, discovery.go:228, 415, 419: whichever sources know a model,
\* under its own id or its alias, and however little each of them says, every
\* field is the one of the most authoritative source that gives it.  Where none
\* gives a limit, a model no source knows has the default one, and one the
\* catalogue has a row for a zero.  Only a model's reasoning may be forced.
BestSourceWins ==
  \A i \in DOMAIN published :
    LET m == published[i]
        id == m.model.id
    IN \A f \in DOMAIN m.shown :
         LET v == m.shown[f]
             ks == {k \in 1..3 : Gives(id, k, f)}
         IN IF v = Always THEN f = "reasoning" /\ id \in Forced
            ELSE IF ks # {} THEN
              LET best == CHOOSE k \in ks : \A l \in ks : k <= l
              IN v = <<Rows(id)[best].from, Rows(id)[best].id>>
            ELSE IF m.kind # "custom" THEN v = Omitted
            ELSE /\ f \notin Limit => v = Zero
                 /\ f \in Limit /\ ~Known(id) => v = Default
                 /\ f \in Limit /\ Rows(id)[3].row # None => v = Zero

\* README.md:51-59, discovery.go:415: the defaults are the last of the sources,
\* and a model absent from the catalogue keeps them where no other source gives
\* the limit.
DefaultsAreLast ==
  \A i \in DOMAIN published :
    LET m == published[i]  id == m.model.id
    IN m.kind = "custom" /\ Rows(id)[3].row = None =>
         \A f \in Limit :
           (\A k \in 1..3 : ~Gives(id, k, f)) => m.shown[f] = Default

\* The models to publish, and those of them no source knows.
Offered == {i \in DOMAIN input.models : input.models[i].id \notin Skipped}

Unknown == {i \in Offered : ~Known(input.models[i].id)}

Place(i) == Cardinality({j \in Offered : j <= i})

\* discovery.go:83: a finished document publishes every model that is not
\* excluded once, in the proxy's order and as often as the proxy lists it, its
\* counts agree with that, and the unmatched ids are those no source knows.
CountsAgree ==
  pc \in {"health", "count", "done"} =>
    /\ Len(published) = Cardinality(Offered)
    /\ \A i \in Offered : published[Place(i)].model = input.models[i]
    /\ counts.upstreamTotal = Len(input.models)
    /\ counts.afterExcludes = Cardinality(Offered)
    /\ counts.builtin + counts.custom = counts.afterExcludes
    /\ matched = Cardinality(Offered \ Unknown)
    /\ \A id \in Id :
         unmatched[id] = Cardinality({i \in Unknown : input.models[i].id = id})

AccountsOf(p) == {i \in DOMAIN input.files : input.files[i].provider = p}

Usable(p) == {i \in AccountsOf(p) : ~input.files[i].disabled /\ ~input.files[i].broken}

\* discovery.go:97: every credential of a known provider is counted once,
\* under one heading, and a provider is reachable when one of its credentials
\* can serve a request.
HealthAddsUp ==
  pc = "done" /\ health # None =>
    /\ DOMAIN health = {p \in Provider : AccountsOf(p) # {}}
    /\ \A p \in DOMAIN health :
         LET h == health[p] IN
         /\ h.accounts = Cardinality(AccountsOf(p))
         /\ h.accounts = h.healthy + h.degraded + h.disabled
         /\ h.reachable <=> Usable(p) # {}
=============================================================================
