---------------------------- MODULE CatalogPick ----------------------------
(***************************************************************************)
(* flattenCatalog and pickCatalogEntry (src/catalog.go): which provider's  *)
(* metadata is published for a model id that several providers publish.    *)
(*                                                                         *)
(* models.dev's document is a Go map, so the providers are visited in any  *)
(* order, another one after every restart.  A run of the plugin visits     *)
(* them one by one and then picks; Run holds several runs over the same    *)
(* document.                                                               *)
(***************************************************************************)
EXTENDS Integers, FiniteSets, Sequences

CONSTANTS
  Run,       \* runs of the plugin over the same document
  Provider,  \* providers models.dev lists
  Rank,      \* catalogProviderRank: vendor 0, reseller 2, others 1
  Name,      \* the position of a provider's name in alphabetical order
  Id,        \* model ids
  Blank,     \* an id of white space only
  Entry,     \* metadata: [shape, rest], rest being the name and the prices
  Payload,   \* documents models.dev may answer with
  None       \* "not published" and "nothing picked"

ASSUME ProviderAssumption ==
  /\ Rank \in [Provider -> 0..2]
  /\ Name \in [Provider -> Nat]
  /\ \A p, q \in Provider : Name[p] = Name[q] => p = q

ASSUME PayloadAssumption ==
  /\ None \notin Entry
  /\ Payload \subseteq [Provider -> [Id -> Entry \cup {None}]]

VARIABLES
  payload,     \* the document
  left,        \* per run, the providers not visited yet
  candidates,  \* per run and id, the candidates, [provider, entry], in the
               \* order they were met
  entries      \* per run and id, what was picked

vars == <<payload, left, candidates, entries>>

Candidate == [provider : Provider, entry : Entry]

-----------------------------------------------------------------------------
(* pickCatalogEntry *)

RankOf(c) == Rank[c.provider]

\* What a loop over the candidates is left with, when a candidate c replaces
\* the best one so far wherever <<c, best>> is in replaces.
Keep(list, replaces) ==
  LET best[i \in DOMAIN list] ==
        IF i = 1 THEN list[1]
        ELSE IF <<list[i], best[i - 1]>> \in replaces THEN list[i] ELSE best[i - 1]
  IN best[Len(list)]

Pairs(list) == {list[i] : i \in DOMAIN list} \X {list[i] : i \in DOMAIN list}

\* The first loop: the first candidate of the least rank.
LowerRank(list) == {pair \in Pairs(list) : RankOf(pair[1]) < RankOf(pair[2])}

FirstOfLeastRank(list) == Keep(list, LowerRank(list))

Votes(list, c) ==
  Cardinality({i \in DOMAIN list : list[i].entry.shape = c.entry.shape})

\* Deviation: of candidates that tie in rank too, the first one met stays.
WinsTie_FirstMet(c, best) == RankOf(c) < RankOf(best)

WinsTie(c, best) ==
  \/ RankOf(c) < RankOf(best)
  \/ RankOf(c) = RankOf(best) /\ Name[c.provider] < Name[best.provider]

\* The second loop: votes, then rank, then name.
Wins(list) ==
  {pair \in Pairs(list) :
     LET c == pair[1]  best == pair[2]
     IN \/ Votes(list, c) > Votes(list, best)
        \/ Votes(list, c) = Votes(list, best) /\ WinsTie(c, best)}

MostVotes(list) == Keep(list, Wins(list))

PickCatalogEntry(list) ==
  IF RankOf(FirstOfLeastRank(list)) = 0
    THEN FirstOfLeastRank(list).entry ELSE MostVotes(list).entry

-----------------------------------------------------------------------------
(* flattenCatalog *)

Init ==
  /\ payload \in Payload
  /\ left = [r \in Run |-> Provider]
  /\ candidates = [r \in Run |-> [id \in Id |-> <<>>]]
  /\ entries = [r \in Run |-> [id \in Id |-> None]]

Visit(r, p) ==
  /\ p \in left[r]
  /\ left' = [left EXCEPT ![r] = @ \ {p}]
  /\ candidates' = [candidates EXCEPT ![r] = [id \in Id |->
       IF id = Blank \/ payload[p][id] = None THEN @[id]
       ELSE Append(@[id], [provider |-> p, entry |-> payload[p][id]])]]
  /\ UNCHANGED <<payload, entries>>

\* All providers are known: one entry for every id that has a candidate.
Resolve(r) ==
  /\ left[r] = {}
  /\ entries' = [entries EXCEPT ![r] = [id \in Id |->
       IF candidates[r][id] = <<>> THEN None
       ELSE PickCatalogEntry(candidates[r][id])]]
  /\ UNCHANGED <<payload, left, candidates>>

Next == \E r \in Run : Resolve(r) \/ \E p \in Provider : Visit(r, p)

Spec == Init /\ [][Next]_vars

-----------------------------------------------------------------------------
(* Properties *)

Publishers(doc, id) == {p \in Provider : doc[p][id] # None}

Vendors(doc, id) == {p \in Publishers(doc, id) : Rank[p] = 0}

Agreeing(doc, id, p) ==
  Cardinality({q \in Publishers(doc, id) :
                 doc[q][id].shape = doc[p][id].shape})

\* p comes before q: more providers agree with it, or it ranks higher, or its
\* name comes first.
Before(doc, id, p, q) ==
  \/ Agreeing(doc, id, p) > Agreeing(doc, id, q)
  \/ /\ Agreeing(doc, id, p) = Agreeing(doc, id, q)
     /\ \/ Rank[p] < Rank[q]
        \/ Rank[p] = Rank[q] /\ Name[p] < Name[q]

\* What catalog.go:206-233 comes to, said without an order of visits.
Chosen(doc, id) ==
  IF Vendors(doc, id) # {} THEN CHOOSE p \in Vendors(doc, id) : TRUE
  ELSE CHOOSE p \in Publishers(doc, id) :
         \A q \in Publishers(doc, id) \ {p} : Before(doc, id, p, q)

\* In whatever order the providers come, what is picked for an id that at most
\* one vendor publishes is the vendor's metadata or the agreed one; a tie is
\* broken by rank, and by name only within a rank (catalog.go:229).  An id of
\* white space only is never published.
PickIgnoresOrder ==
  \A r \in Run, id \in Id :
    entries[r][id] # None =>
      /\ id # Blank
      /\ Cardinality(Vendors(payload, id)) <= 1
           => entries[r][id] = payload[Chosen(payload, id)][id]

\* p comes before q by what is written of ties: by votes, then by name.
NamedBefore(doc, id, p, q) ==
  \/ Agreeing(doc, id, p) > Agreeing(doc, id, q)
  \/ /\ Agreeing(doc, id, p) = Agreeing(doc, id, q)
     /\ Name[p] < Name[q]

\* README.md:62, catalog.go:188: with no vendor, the metadata most hosts agree
\* on wins, and ties break on provider name.
TiesBreakOnName ==
  \A r \in Run, id \in Id :
    entries[r][id] # None /\ Vendors(payload, id) = {} =>
      \E p \in Publishers(payload, id) :
        /\ \A q \in Publishers(payload, id) \ {p} :
             NamedBefore(payload, id, p, q)
        /\ entries[r][id] = payload[p][id]

\* catalog.go:188, README.md:63: the result is identical on every run.
RunsAgree ==
  \A r, s \in Run, id \in Id :
    entries[r][id] # None /\ entries[s][id] # None
      => entries[r][id] = entries[s][id]
=============================================================================
