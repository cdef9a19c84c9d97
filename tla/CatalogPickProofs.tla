------------------------- MODULE CatalogPickProofs -------------------------
(***************************************************************************)
(* Proofs about CatalogPick, for every document, every set of providers    *)
(* and every order they are visited in.                                    *)
(***************************************************************************)
EXTENDS CatalogPick, FiniteSetTheorems, TLAPS

-----------------------------------------------------------------------------
(* A loop over the candidates *)

LEMMA SmallestNumber ==
  ASSUME NEW T, T \subseteq Nat, T # {}
  PROVE  \E n \in T : \A m \in T : n <= m
<1>1. PICK n \in T : \A m \in T : ~(<<m, n>> \in OpToRel(<, Nat))
  BY NatLessThanWellFounded, WFMin, Zenon
<1>2. \A m \in T : ~(m < n)
  BY <1>1, Zenon DEF OpToRel
<1> QED
  BY <1>2

\* What the first n rounds of the loop are left with, one after the other.
AreRounds(best, list, replaces, n) ==
  best = [i \in 1..n |->
            IF i = 1 THEN list[1]
            ELSE IF <<list[i], best[i - 1]>> \in replaces THEN list[i]
            ELSE best[i - 1]]

LEMMA RoundsExist ==
  ASSUME NEW list, NEW replaces, NEW n \in Nat
  PROVE  \E best : AreRounds(best, list, replaces, n)
<1> DEFINE T == {m \in Nat : ~\E best : AreRounds(best, list, replaces, m)}
<1> SUFFICES ASSUME T # {} PROVE FALSE
  OBVIOUS
<1>1. PICK m \in T : \A k \in T : m <= k
  <2>1. T \subseteq Nat
    OBVIOUS
  <2> HIDE DEF T
  <2> QED
    BY <2>1, SmallestNumber
<1>2. m \in Nat /\ ~\E best : AreRounds(best, list, replaces, m)
  OBVIOUS
<1>3. CASE m = 0
  <2>1. PICK best : best = [i \in 1..0 |-> 0]
    OBVIOUS
  <2>2. AreRounds(best, list, replaces, 0)
    BY <2>1 DEF AreRounds
  <2> QED
    BY <1>2, <1>3, <2>2
<1>4. CASE m # 0
  <2>1. m - 1 \in Nat /\ ~(m <= m - 1)
    BY <1>2, <1>4
  <2>2. m - 1 \notin T
    BY <1>1, <2>1
  <2>3. PICK b : AreRounds(b, list, replaces, m - 1)
    BY <2>1, <2>2
  <2>4. PICK best : best = [i \in 1..m |->
          IF i < m THEN b[i]
          ELSE IF m = 1 THEN list[1]
          ELSE IF <<list[m], b[m - 1]>> \in replaces THEN list[m] ELSE b[m - 1]]
    OBVIOUS
  <2>5. ASSUME NEW i \in 1..m
        PROVE  best[i] = IF i = 1 THEN list[1]
                         ELSE IF <<list[i], best[i - 1]>> \in replaces
                         THEN list[i] ELSE best[i - 1]
    <3>1. CASE i < m
      <4>1. i \in 1..(m - 1) /\ (i # 1 => i - 1 \in 1..m /\ i - 1 < m)
        BY <1>2, <3>1
      <4>2. b[i] = IF i = 1 THEN list[1]
                   ELSE IF <<list[i], b[i - 1]>> \in replaces THEN list[i]
                   ELSE b[i - 1]
        BY <2>3, <4>1 DEF AreRounds
      <4>3. best[i] = b[i] /\ (i # 1 => best[i - 1] = b[i - 1])
        BY <2>4, <3>1, <4>1
      <4> QED
        BY <4>2, <4>3
    <3>2. CASE i = m
      <4>1. m # 1 => m - 1 \in 1..m /\ m - 1 < m
        BY <1>2, <1>4
      <4>2. m # 1 => best[m - 1] = b[m - 1]
        BY <2>4, <4>1
      <4>3. best[m] = IF m = 1 THEN list[1]
                      ELSE IF <<list[m], b[m - 1]>> \in replaces THEN list[m]
                      ELSE b[m - 1]
        BY <2>4, <3>2, <1>2
      <4> QED
        BY <3>2, <4>2, <4>3
    <3> QED
      BY <1>2, <3>1, <3>2
  <2>6. AreRounds(best, list, replaces, m)
    <3>1. best = [i \in 1..m |-> best[i]]
      BY <2>4
    <3> QED
      BY <2>5, <3>1 DEF AreRounds
  <2> QED
    BY <1>2, <2>6
<1> QED
  BY <1>3, <1>4

\* The loop is left with a candidate that no candidate replaces, provided that
\* replacing is an order.
LEMMA KeepIs ==
  ASSUME NEW list, NEW len \in Nat \ {0}, DOMAIN list = 1..len, Len(list) = len,
         NEW replaces,
         \A i, j, k \in 1..len :
           (<<list[i], list[j]>> \in replaces /\ <<list[j], list[k]>> \in replaces)
             => <<list[i], list[k]>> \in replaces,
         \A i \in 1..len : <<list[i], list[i]>> \notin replaces
  PROVE  \E k \in 1..len :
           /\ Keep(list, replaces) = list[k]
           /\ \A j \in 1..len : <<list[j], list[k]>> \notin replaces
<1> DEFINE Loop(b) == AreRounds(b, list, replaces, len)
<1>1. PICK best : best = (CHOOSE b : Loop(b)) /\ Loop(best)
  <2>1. \E b : Loop(b)
    BY RoundsExist
  <2> HIDE DEF Loop
  <2> QED
    BY <2>1
<1>2. Keep(list, replaces) = best[len]
  BY <1>1 DEF Keep, AreRounds
<1>3. /\ best[1] = list[1]
      /\ \A n \in 1..len : n # 1 =>
           best[n] = IF <<list[n], best[n - 1]>> \in replaces THEN list[n]
                     ELSE best[n - 1]
  <2>1. 1 \in 1..len
    OBVIOUS
  <2> QED
    BY <1>1, <2>1 DEF AreRounds
<1> DEFINE Right(n) == \E k \in 1..n :
             /\ best[n] = list[k]
             /\ \A j \in 1..n : <<list[j], list[k]>> \notin replaces
           T == {n \in 1..len : ~Right(n)}
<1>4. ASSUME T # {} PROVE FALSE
  <2>1. PICK n \in T : \A m \in T : n <= m
    <3>1. T \subseteq Nat
      OBVIOUS
    <3> HIDE DEF T
    <3> QED
      BY <1>4, <3>1, SmallestNumber
  <2>2. n \in 1..len /\ ~Right(n)
    OBVIOUS
  <2>3. CASE n = 1
    <3>1. /\ 1 \in 1..1 /\ best[1] = list[1]
          /\ \A j \in 1..1 : <<list[j], list[1]>> \notin replaces
      <4>1. \A j \in 1..1 : j = 1
        OBVIOUS
      <4> QED
        BY <1>3, <2>2, <2>3, <4>1
    <3> QED
      BY <2>2, <2>3, <3>1
  <2>4. CASE n # 1
    <3>1. n - 1 \in 1..len /\ ~(n <= n - 1)
      BY <2>2, <2>4
    <3>2. n - 1 \notin T
      BY <2>1, <3>1
    <3>3. Right(n - 1)
      BY <3>1, <3>2
    <3>4. PICK k \in 1..(n - 1) :
            /\ best[n - 1] = list[k]
            /\ \A j \in 1..(n - 1) : <<list[j], list[k]>> \notin replaces
      BY <3>3
    <3>5. k \in 1..len /\ k \in 1..n /\ n \in 1..n
          /\ \A j \in 1..n : j \in 1..len /\ (j \in 1..(n - 1) \/ j = n)
      BY <2>2, <3>4
    <3>6. CASE <<list[n], list[k]>> \in replaces
      <4>1. best[n] = list[n]
        BY <1>3, <2>2, <2>4, <3>4, <3>6
      <4>2. ASSUME NEW j \in 1..n PROVE <<list[j], list[n]>> \notin replaces
        <5>1. CASE j = n
          BY <2>2, <5>1
        <5>2. CASE j \in 1..(n - 1)
          <6>1. <<list[j], list[k]>> \notin replaces
            BY <3>4, <5>2
          <6> QED
            BY <2>2, <3>5, <3>6, <6>1
        <5> QED
          BY <3>5, <5>1, <5>2
      <4>3. Right(n)
        BY <3>5, <4>1, <4>2
      <4> QED
        BY <2>2, <4>3
    <3>7. CASE <<list[n], list[k]>> \notin replaces
      <4>1. best[n] = list[k]
        BY <1>3, <2>2, <2>4, <3>4, <3>7
      <4>2. \A j \in 1..n : <<list[j], list[k]>> \notin replaces
        BY <3>4, <3>5, <3>7
      <4>3. Right(n)
        BY <3>5, <4>1, <4>2
      <4> QED
        BY <2>2, <4>3
    <3> QED
      BY <3>6, <3>7
  <2> QED
    BY <2>3, <2>4
<1>5. Right(len)
  <2>1. len \in 1..len
    OBVIOUS
  <2> QED
    BY <1>4, <2>1
<1> QED
  BY <1>2, <1>5

-----------------------------------------------------------------------------
(* What is picked *)

\* The list holds what the providers ps publish for the id, each once.
Lists(doc, list, ps, id) ==
  /\ list \in Seq(Candidate)
  /\ \A i \in DOMAIN list : /\ list[i].provider \in ps
                           /\ list[i].entry = doc[list[i].provider][id]
  /\ \A p \in ps : \E i \in DOMAIN list : list[i].provider = p
  /\ \A i, j \in DOMAIN list : list[i].provider = list[j].provider => i = j

LEMMA RanksAre ==
  ASSUME NEW c \in Candidate
  PROVE  /\ RankOf(c) \in 0..2 /\ Rank[c.provider] \in 0..2
         /\ Name[c.provider] \in Nat /\ c.provider \in Provider
BY ProviderAssumption DEF RankOf, Candidate

LEMMA ListIs ==
  ASSUME NEW list \in Seq(Candidate), list # <<>>
  PROVE  /\ Len(list) \in Nat \ {0} /\ DOMAIN list = 1..Len(list)
         /\ IsFiniteSet(DOMAIN list)
         /\ \A i, j \in DOMAIN list : <<list[i], list[j]>> \in Pairs(list)
<1>1. Len(list) \in Nat \ {0} /\ DOMAIN list = 1..Len(list)
  OBVIOUS
<1>2. IsFiniteSet(DOMAIN list)
  BY <1>1, FS_Interval
<1>3. \A i, j \in DOMAIN list : <<list[i], list[j]>> \in Pairs(list)
  BY DEF Pairs
<1> QED
  BY <1>1, <1>2, <1>3

\* A candidate has the votes of the providers that agree with it.
LEMMA VotesAgree ==
  ASSUME NEW doc, NEW id, NEW list,
         Lists(doc, list, Publishers(doc, id), id), list # <<>>,
         NEW i \in DOMAIN list
  PROVE  /\ Votes(list, list[i]) = Agreeing(doc, id, list[i].provider)
         /\ Votes(list, list[i]) \in Nat
<1>1. PICK shape : shape = list[i].entry.shape
  OBVIOUS
<1>2. PICK S, Q : /\ S = {k \in DOMAIN list : list[k].entry.shape = shape}
                  /\ Q = {q \in Publishers(doc, id) : doc[q][id].shape = shape}
  OBVIOUS
<1>3. IsFiniteSet(S)
  BY <1>2, ListIs, FS_Subset DEF Lists
<1>4. PICK f : f = [k \in S |-> list[k].provider]
  OBVIOUS
<1>5. f \in Bijection(S, Q)
  <2>1. f \in [S -> Q]
    BY <1>2, <1>4 DEF Lists
  <2>2. \A k, l \in S : f[k] = f[l] => k = l
    BY <1>2, <1>4 DEF Lists
  <2>3. ASSUME NEW q \in Q PROVE \E k \in S : f[k] = q
    <3>1. PICK k \in DOMAIN list : list[k].provider = q
      BY <1>2 DEF Lists
    <3>2. k \in S
      BY <1>2, <3>1 DEF Lists
    <3> QED
      BY <1>4, <3>1, <3>2
  <2> QED
    BY <2>1, <2>2, <2>3 DEF Bijection, Injection, Surjection, IsInjective
<1>6. Cardinality(Q) = Cardinality(S) /\ Cardinality(S) \in Nat
  BY <1>3, <1>5, FS_Bijection, FS_CardinalityType DEF ExistsBijection
<1>7. Votes(list, list[i]) = Cardinality(S)
  BY <1>1, <1>2 DEF Votes
<1>8. Agreeing(doc, id, list[i].provider) = Cardinality(Q)
  BY <1>1, <1>2 DEF Agreeing, Lists
<1> QED
  BY <1>6, <1>7, <1>8

LEMMA PublishersAreFinite ==
  ASSUME NEW doc, NEW id, NEW list,
         Lists(doc, list, Publishers(doc, id), id), list # <<>>
  PROVE  IsFiniteSet(Publishers(doc, id))
<1>1. PICK S, Q : S = DOMAIN list /\ Q = Publishers(doc, id)
  OBVIOUS
<1>2. PICK f : f = [k \in S |-> list[k].provider]
  OBVIOUS
<1>3. f \in Bijection(S, Q)
  BY <1>1, <1>2 DEF Lists, Bijection, Injection, Surjection, IsInjective
<1>4. IsFiniteSet(S)
  BY <1>1, ListIs DEF Lists
<1> QED
  BY <1>1, <1>3, <1>4, FS_Bijection DEF ExistsBijection

\* The first loop finds a vendor where there is one.
LEMMA LeastRankIs ==
  ASSUME NEW doc, NEW id, NEW list,
         Lists(doc, list, Publishers(doc, id), id), list # <<>>
  PROVE  \E k \in DOMAIN list :
           /\ FirstOfLeastRank(list) = list[k]
           /\ RankOf(list[k]) = 0 <=> Vendors(doc, id) # {}
<1>1. PICK len : len = Len(list)
  OBVIOUS
<1>2. /\ list \in Seq(Candidate) /\ len \in Nat \ {0} /\ DOMAIN list = 1..len
      /\ \A i \in 1..len : list[i] \in Candidate /\ RankOf(list[i]) \in 0..2
  BY <1>1, ListIs, RanksAre DEF Lists
<1>3. PICK R : R = LowerRank(list)
  OBVIOUS
<1>4. \A i, j \in 1..len : <<list[i], list[j]>> \in R
                             <=> RankOf(list[i]) < RankOf(list[j])
  BY <1>2, <1>3, ListIs DEF LowerRank
<1>5. /\ \A i, j, k \in 1..len :
           <<list[i], list[j]>> \in R /\ <<list[j], list[k]>> \in R
             => <<list[i], list[k]>> \in R
      /\ \A i \in 1..len : <<list[i], list[i]>> \notin R
  <2>1. ASSUME NEW a \in 0..2, NEW b \in 0..2, NEW c \in 0..2
        PROVE  (a < b /\ b < c => a < c) /\ ~(a < a)
    OBVIOUS
  <2> QED
    BY <1>2, <1>4, <2>1
<1>6. PICK k \in 1..len :
        /\ Keep(list, R) = list[k]
        /\ \A j \in 1..len : <<list[j], list[k]>> \notin R
  BY <1>1, <1>2, <1>5, KeepIs
<1>7. \A i \in 1..len :
        /\ RankOf(list[i]) = 0 => list[i].provider \in Vendors(doc, id)
        /\ list[i].provider \in Vendors(doc, id) => RankOf(list[i]) = 0
  BY <1>2 DEF Vendors, RankOf, Lists
<1>8. ASSUME NEW p \in Vendors(doc, id) PROVE RankOf(list[k]) = 0
  <2>1. PICK j \in 1..len : list[j].provider = p
    BY <1>2 DEF Lists, Vendors
  <2>2. PICK a, b : a = RankOf(list[j]) /\ b = RankOf(list[k])
    OBVIOUS
  <2>3. a = 0 /\ b \in 0..2 /\ ~(a < b)
    BY <1>2, <1>4, <1>6, <1>7, <2>1, <2>2
  <2> QED
    BY <2>2, <2>3
<1> QED
  BY <1>2, <1>3, <1>6, <1>7, <1>8 DEF FirstOfLeastRank

\* Votes, then rank, then name: an order of three numbers each.
Over(v, a, m, w, b, n) == v > w \/ (v = w /\ (a < b \/ (a = b /\ m < n)))

LEMMA OverIsTotal ==
  ASSUME NEW v \in Nat, NEW a \in Nat, NEW m \in Nat,
         NEW w \in Nat, NEW b \in Nat, NEW n \in Nat, m # n
  PROVE  Over(v, a, m, w, b, n) \/ Over(w, b, n, v, a, m)
BY DEF Over

\* The second loop finds the provider that comes before all the others.
LEMMA MostVotesIs ==
  ASSUME NEW doc, NEW id, NEW list,
         Lists(doc, list, Publishers(doc, id), id), list # <<>>
  PROVE  \E k \in DOMAIN list :
           /\ MostVotes(list) = list[k]
           /\ \A q \in Publishers(doc, id) \ {list[k].provider} :
                Before(doc, id, list[k].provider, q)
<1>1. PICK len : len = Len(list)
  OBVIOUS
<1>2. /\ list \in Seq(Candidate) /\ len \in Nat \ {0} /\ DOMAIN list = 1..len
      /\ \A i \in 1..len : list[i] \in Candidate
  BY <1>1, ListIs DEF Lists
<1>3. PICK v, a, m : /\ v = [i \in 1..len |-> Votes(list, list[i])]
                     /\ a = [i \in 1..len |-> Rank[list[i].provider]]
                     /\ m = [i \in 1..len |-> Name[list[i].provider]]
  OBVIOUS
<1>4. \A i \in 1..len :
        /\ v[i] = Votes(list, list[i])
        /\ v[i] = Agreeing(doc, id, list[i].provider)
        /\ a[i] = Rank[list[i].provider] /\ m[i] = Name[list[i].provider]
        /\ v[i] \in Nat /\ a[i] \in Nat /\ m[i] \in Nat
  <2>1. ASSUME NEW i \in 1..len
        PROVE  /\ Votes(list, list[i]) = Agreeing(doc, id, list[i].provider)
               /\ Votes(list, list[i]) \in Nat
    BY <1>2, VotesAgree
  <2>2. ASSUME NEW i \in 1..len
        PROVE  Rank[list[i].provider] \in Nat /\ Name[list[i].provider] \in Nat
    BY <1>2, RanksAre
  <2> QED
    BY <1>3, <2>1, <2>2
<1>5. PICK R : R = Wins(list)
  OBVIOUS
<1>6. \A i, j \in 1..len :
        <<list[i], list[j]>> \in R <=> Over(v[i], a[i], m[i], v[j], a[j], m[j])
  <2>1. ASSUME NEW i \in 1..len, NEW j \in 1..len
        PROVE  <<list[i], list[j]>> \in R
                 <=> \/ Votes(list, list[i]) > Votes(list, list[j])
                     \/ /\ Votes(list, list[i]) = Votes(list, list[j])
                        /\ WinsTie(list[i], list[j])
    BY <1>2, <1>5, ListIs DEF Wins
  <2> QED
    BY <1>4, <2>1 DEF Over, WinsTie, RankOf
<1>7. /\ \A i, j, k \in 1..len :
           <<list[i], list[j]>> \in R /\ <<list[j], list[k]>> \in R
             => <<list[i], list[k]>> \in R
      /\ \A i \in 1..len : <<list[i], list[i]>> \notin R
  <2>1. ASSUME NEW i \in 1..len, NEW j \in 1..len, NEW k \in 1..len
        PROVE  /\ Over(v[i], a[i], m[i], v[j], a[j], m[j])
                  /\ Over(v[j], a[j], m[j], v[k], a[k], m[k])
                    => Over(v[i], a[i], m[i], v[k], a[k], m[k])
               /\ ~Over(v[i], a[i], m[i], v[i], a[i], m[i])
    <3>1. /\ v[i] \in Nat /\ a[i] \in Nat /\ m[i] \in Nat
          /\ v[j] \in Nat /\ a[j] \in Nat /\ m[j] \in Nat
          /\ v[k] \in Nat /\ a[k] \in Nat /\ m[k] \in Nat
      BY <1>4
    <3>2. /\ Over(v[i], a[i], m[i], v[j], a[j], m[j])
             /\ Over(v[j], a[j], m[j], v[k], a[k], m[k])
               => Over(v[i], a[i], m[i], v[k], a[k], m[k])
          /\ ~Over(v[i], a[i], m[i], v[i], a[i], m[i])
      <4> DEFINE Order(x, y, z, w, b, n, u, c, o) ==
            /\ Over(x, y, z, w, b, n) /\ Over(w, b, n, u, c, o)
                 => Over(x, y, z, u, c, o)
            /\ ~Over(x, y, z, x, y, z)
      <4>1. \A x, y, z, w, b, n, u, c, o \in Nat : Order(x, y, z, w, b, n, u, c, o)
        BY DEF Over
      <4>2. Order(v[i], a[i], m[i], v[j], a[j], m[j], v[k], a[k], m[k])
        <5> HIDE DEF Order
        <5> QED
          BY <3>1, <4>1
      <4> QED
        BY <4>2
    <3> QED
      BY <3>2
  <2> QED
    BY <1>6, <2>1
<1>8. PICK k \in 1..len :
        /\ Keep(list, R) = list[k]
        /\ \A j \in 1..len : <<list[j], list[k]>> \notin R
  BY <1>1, <1>2, <1>7, KeepIs
<1>9. ASSUME NEW q \in Publishers(doc, id), q # list[k].provider
      PROVE  Before(doc, id, list[k].provider, q)
  <2>1. PICK j \in 1..len : list[j].provider = q
    BY <1>2 DEF Lists
  <2>2. m[j] # m[k]
    BY <1>2, <1>4, <1>9, <2>1, RanksAre, ProviderAssumption
  <2>3. Over(v[k], a[k], m[k], v[j], a[j], m[j])
    BY <1>4, <1>6, <1>8, <2>2, OverIsTotal
  <2> QED
    BY <1>4, <2>1, <2>3 DEF Over, Before
<1> QED
  BY <1>2, <1>5, <1>8, <1>9 DEF MostVotes

\* At most one provider comes before all the others.
LEMMA OnlyOneIsFirst ==
  ASSUME NEW doc, NEW id, NEW list,
         Lists(doc, list, Publishers(doc, id), id), list # <<>>,
         NEW p \in Publishers(doc, id), NEW q \in Publishers(doc, id),
         \A o \in Publishers(doc, id) \ {p} : Before(doc, id, p, o),
         \A o \in Publishers(doc, id) \ {q} : Before(doc, id, q, o)
  PROVE  p = q
<1>1. SUFFICES ASSUME p # q PROVE FALSE
  OBVIOUS
<1>2. Before(doc, id, p, q) /\ Before(doc, id, q, p)
  BY <1>1
<1>3. PICK i \in DOMAIN list, j \in DOMAIN list :
        list[i].provider = p /\ list[j].provider = q
  BY DEF Lists
<1>4. Agreeing(doc, id, p) \in Nat /\ Agreeing(doc, id, q) \in Nat
  BY <1>3, VotesAgree
<1>5. p \in Provider /\ q \in Provider
  BY DEF Publishers
<1>6. Rank[p] \in Nat /\ Rank[q] \in Nat /\ Name[p] \in Nat /\ Name[q] \in Nat
  BY <1>5, ProviderAssumption
<1> QED
  BY <1>2, <1>4, <1>6 DEF Before

\* The list of an id that at most one vendor publishes yields the metadata of
\* the provider Chosen names, in whatever order the list was filled.
LEMMA PickIsChosen ==
  ASSUME NEW doc, NEW id, NEW list,
         Lists(doc, list, Publishers(doc, id), id), list # <<>>,
         Cardinality(Vendors(doc, id)) <= 1
  PROVE  PickCatalogEntry(list) = doc[Chosen(doc, id)][id]
<1>1. PICK k \in DOMAIN list : /\ FirstOfLeastRank(list) = list[k]
                               /\ RankOf(list[k]) = 0 <=> Vendors(doc, id) # {}
  BY LeastRankIs
<1>2. CASE Vendors(doc, id) # {}
  <2>1. list[k].provider \in Vendors(doc, id)
    BY <1>1, <1>2 DEF Vendors, RankOf, Lists
  <2>2. Chosen(doc, id) \in Vendors(doc, id)
    BY <1>2 DEF Chosen
  <2>3. PICK V : V = Vendors(doc, id)
    OBVIOUS
  <2>4. IsFiniteSet(V)
    BY <2>3, PublishersAreFinite, FS_Subset DEF Vendors
  <2>5. \A p, q \in V : p = q
    <3>1. Cardinality(V) \in Nat /\ Cardinality(V) # 0 /\ Cardinality(V) <= 1
      BY <1>2, <2>3, <2>4, FS_CardinalityType, FS_EmptySet
    <3>2. Cardinality(V) = 1
      BY <3>1
    <3> QED
      BY <2>4, <3>2, FS_Singleton
  <2>6. list[k].provider = Chosen(doc, id)
    BY <2>1, <2>2, <2>3, <2>5
  <2> QED
    BY <1>1, <1>2, <2>6 DEF PickCatalogEntry, Lists
<1>3. CASE Vendors(doc, id) = {}
  <2>1. PICK l \in DOMAIN list :
          /\ MostVotes(list) = list[l]
          /\ \A q \in Publishers(doc, id) \ {list[l].provider} :
               Before(doc, id, list[l].provider, q)
    BY MostVotesIs
  <2>2. list[l].provider \in Publishers(doc, id)
    BY <2>1 DEF Lists
  <2>3. /\ Chosen(doc, id) \in Publishers(doc, id)
        /\ \A q \in Publishers(doc, id) \ {Chosen(doc, id)} :
             Before(doc, id, Chosen(doc, id), q)
    BY <1>3, <2>1, <2>2 DEF Chosen
  <2>4. list[l].provider = Chosen(doc, id)
    BY <2>1, <2>2, <2>3, OnlyOneIsFirst
  <2> QED
    BY <1>1, <1>3, <2>1, <2>4 DEF PickCatalogEntry, Lists
<1> QED
  BY <1>2, <1>3

LEMMA PickIsAnEntry ==
  ASSUME NEW doc, NEW id, NEW list,
         Lists(doc, list, Publishers(doc, id), id), list # <<>>
  PROVE  PickCatalogEntry(list) \in Entry
<1>1. PICK k \in DOMAIN list : FirstOfLeastRank(list) = list[k]
  BY LeastRankIs
<1>2. PICK l \in DOMAIN list : MostVotes(list) = list[l]
  BY MostVotesIs
<1>3. list[k] \in Candidate /\ list[l] \in Candidate
  BY ListIs DEF Lists
<1> QED
  BY <1>1, <1>2, <1>3 DEF PickCatalogEntry, Candidate

-----------------------------------------------------------------------------
(* The visits *)

\* Every list holds what the providers visited so far publish for its id.
Held(doc, id, list, rest) ==
  IF id = Blank THEN list = <<>>
  ELSE Lists(doc, list, Publishers(doc, id) \ rest, id)

ListsInv ==
  /\ payload \in Payload
  /\ left \in [Run -> SUBSET Provider]
  /\ candidates \in [Run -> [Id -> Seq(Candidate)]]
  /\ \A r \in Run, id \in Id : Held(payload, id, candidates[r][id], left[r])

PickInv ==
  /\ ListsInv
  /\ entries \in [Run -> [Id -> Entry \cup {None}]]
  /\ PickIgnoresOrder

\* A provider met later adds its metadata to the list.
LEMMA AppendLists ==
  ASSUME NEW doc, NEW id, NEW list, NEW ps, NEW p \in Provider \ ps,
         doc[p][id] \in Entry, Lists(doc, list, ps, id)
  PROVE  Lists(doc, Append(list, [provider |-> p, entry |-> doc[p][id]]),
               ps \cup {p}, id)
<1>1. PICK c : c = [provider |-> p, entry |-> doc[p][id]]
  OBVIOUS
<1>2. c \in Candidate /\ c.provider = p /\ c.entry = doc[p][id]
  BY <1>1 DEF Candidate
<1>3. PICK out, n : out = Append(list, c) /\ n = Len(list)
  OBVIOUS
<1>4. /\ n \in Nat /\ DOMAIN list = 1..n /\ DOMAIN out = 1..(n + 1)
      /\ out \in Seq(Candidate) /\ out[n + 1] = c
      /\ \A i \in 1..n : out[i] = list[i]
  BY <1>2, <1>3 DEF Lists
<1>5. /\ n + 1 \in 1..(n + 1)
      /\ \A i \in 1..(n + 1) : i \in 1..n \/ i = n + 1
      /\ \A i \in 1..n : i \in 1..(n + 1)
  BY <1>4
<1>6. \A i \in DOMAIN out : /\ out[i].provider \in ps \cup {p}
                            /\ out[i].entry = doc[out[i].provider][id]
  BY <1>2, <1>4, <1>5 DEF Lists
<1>7. \A q \in ps \cup {p} : \E i \in DOMAIN out : out[i].provider = q
  BY <1>2, <1>4, <1>5 DEF Lists
<1>8. \A i, j \in DOMAIN out : out[i].provider = out[j].provider => i = j
  BY <1>2, <1>4, <1>5 DEF Lists
<1> QED
  BY <1>1, <1>3, <1>4, <1>6, <1>7, <1>8 DEF Lists

LEMMA InitPick == Init => PickInv
<1> SUFFICES ASSUME Init PROVE PickInv
  OBVIOUS
<1>1. /\ payload \in Payload /\ left = [r \in Run |-> Provider]
      /\ candidates = [r \in Run |-> [id \in Id |-> <<>>]]
      /\ entries = [r \in Run |-> [id \in Id |-> None]]
  BY DEF Init
<1>2. ASSUME NEW id \in Id, NEW r \in Run
      PROVE  Held(payload, id, candidates[r][id], left[r])
  <2>1. Publishers(payload, id) \ left[r] = {}
    BY <1>1 DEF Publishers
  <2>2. candidates[r][id] = <<>> /\ <<>> \in Seq(Candidate) /\ DOMAIN <<>> = {}
    BY <1>1
  <2> QED
    BY <2>1, <2>2 DEF Held, Lists
<1>3. ListsInv
  <2>1. candidates \in [Run -> [Id -> Seq(Candidate)]]
    BY <1>1
  <2> QED
    BY <1>1, <1>2, <2>1 DEF ListsInv
<1>4. entries \in [Run -> [Id -> Entry \cup {None}]] /\ PickIgnoresOrder
  BY <1>1 DEF PickIgnoresOrder
<1> QED
  BY <1>3, <1>4 DEF PickInv

LEMMA VisitPick ==
  ASSUME PickInv, NEW r \in Run, NEW p \in Provider, Visit(r, p)
  PROVE  PickInv'
<1>1. /\ p \in left[r] /\ left' = [left EXCEPT ![r] = @ \ {p}]
      /\ candidates' = [candidates EXCEPT ![r] = [id \in Id |->
           IF id = Blank \/ payload[p][id] = None THEN @[id]
           ELSE Append(@[id], [provider |-> p, entry |-> payload[p][id]])]]
      /\ payload' = payload /\ entries' = entries
  BY DEF Visit
<1>2. /\ payload \in Payload /\ left \in [Run -> SUBSET Provider]
      /\ candidates \in [Run -> [Id -> Seq(Candidate)]]
      /\ \A s \in Run, id \in Id : Held(payload, id, candidates[s][id], left[s])
  BY DEF PickInv, ListsInv
<1>3. \A id \in Id : payload[p][id] \in Entry \cup {None}
  BY <1>2, PayloadAssumption
<1>4. ASSUME NEW id \in Id
      PROVE  /\ candidates'[r][id] \in Seq(Candidate)
             /\ Held(payload, id, candidates'[r][id], left'[r])
  <2>1. PICK list, ps :
          list = candidates[r][id] /\ ps = Publishers(payload, id) \ left[r]
    OBVIOUS
  <2>2. list \in Seq(Candidate) /\ Held(payload, id, list, left[r])
    BY <1>2, <2>1
  <2>3. CASE id = Blank
    <3>1. candidates'[r][id] = list
      BY <1>1, <1>2, <2>1, <2>3
    <3> QED
      BY <2>2, <2>3, <3>1 DEF Held
  <2>4. CASE id # Blank /\ payload[p][id] = None
    <3>1. candidates'[r][id] = list
      BY <1>1, <1>2, <2>1, <2>4
    <3>2. Publishers(payload, id) \ left'[r] = ps
      BY <1>1, <1>2, <2>1, <2>4 DEF Publishers
    <3> QED
      BY <2>1, <2>2, <2>4, <3>1, <3>2 DEF Held
  <2>5. CASE id # Blank /\ payload[p][id] # None
    <3>1. candidates'[r][id]
            = Append(list, [provider |-> p, entry |-> payload[p][id]])
      BY <1>1, <1>2, <2>1, <2>5
    <3>2. Publishers(payload, id) \ left'[r] = ps \cup {p} /\ p \notin ps
      BY <1>1, <1>2, <2>1, <2>5 DEF Publishers
    <3>3. payload[p][id] \in Entry
      BY <1>3, <2>5
    <3>4. Lists(payload, candidates'[r][id], ps \cup {p}, id)
      BY <2>1, <2>2, <2>5, <3>1, <3>2, <3>3, AppendLists DEF Held
    <3>5. candidates'[r][id] \in Seq(Candidate)
      BY <3>4 DEF Lists
    <3> QED
      BY <2>5, <3>2, <3>4, <3>5 DEF Held
  <2> QED
    BY <2>3, <2>4, <2>5
<1>5. \A s \in Run : s # r => /\ left'[s] = left[s]
                              /\ candidates'[s] = candidates[s]
  BY <1>1, <1>2
<1>6. candidates' \in [Run -> [Id -> Seq(Candidate)]]
  BY <1>1, <1>2, <1>4
<1>7. \A s \in Run, id \in Id : Held(payload, id, candidates'[s][id], left'[s])
  BY <1>2, <1>4, <1>5
<1>8. ListsInv'
  <2>1. payload' \in Payload /\ left' \in [Run -> SUBSET Provider]
    BY <1>1, <1>2
  <2> QED
    BY <1>1, <1>6, <1>7, <2>1 DEF ListsInv
<1>9. PickIgnoresOrder'
  BY <1>1 DEF PickInv, PickIgnoresOrder
<1> QED
  BY <1>1, <1>8, <1>9 DEF PickInv

LEMMA ResolvePick ==
  ASSUME PickInv, NEW r \in Run, Resolve(r)
  PROVE  PickInv'
<1>1. /\ left[r] = {}
      /\ entries' = [entries EXCEPT ![r] = [id \in Id |->
           IF candidates[r][id] = <<>> THEN None
           ELSE PickCatalogEntry(candidates[r][id])]]
      /\ payload' = payload /\ left' = left /\ candidates' = candidates
  BY DEF Resolve
<1>2. ASSUME NEW id \in Id
      PROVE  /\ entries'[r][id] \in Entry \cup {None}
             /\ entries'[r][id] # None =>
                  /\ id # Blank
                  /\ Cardinality(Vendors(payload, id)) <= 1
                       => entries'[r][id] = payload[Chosen(payload, id)][id]
  <2>1. PICK list : list = candidates[r][id]
    OBVIOUS
  <2>2. entries'[r][id] = IF list = <<>> THEN None ELSE PickCatalogEntry(list)
    BY <1>1, <2>1 DEF PickInv
  <2>3. Held(payload, id, list, {})
    BY <1>1, <2>1 DEF PickInv, ListsInv
  <2>4. list # <<>> =>
          id # Blank /\ Lists(payload, list, Publishers(payload, id), id)
    <3>1. Publishers(payload, id) \ {} = Publishers(payload, id)
      OBVIOUS
    <3> QED
      BY <2>3, <3>1 DEF Held
  <2> QED
    BY <2>2, <2>4, PickIsAnEntry, PickIsChosen
<1>3. \A s \in Run : s # r => entries'[s] = entries[s]
  BY <1>1 DEF PickInv
<1>4. ListsInv'
  BY <1>1 DEF PickInv, ListsInv
<1>5. entries' \in [Run -> [Id -> Entry \cup {None}]]
  BY <1>1, <1>2 DEF PickInv
<1>6. PickIgnoresOrder'
  BY <1>1, <1>2, <1>3 DEF PickInv, PickIgnoresOrder
<1> QED
  BY <1>4, <1>5, <1>6 DEF PickInv

\* For every document and in whatever order the providers come, what is picked
\* for an id that at most one vendor publishes is the metadata of the provider
\* Chosen names, which knows no order (src/catalog.go:138-235).
THEOREM PickHolds == Spec => []PickIgnoresOrder
<1>1. PickInv /\ [Next]_vars => PickInv'
  <2> SUFFICES ASSUME PickInv, [Next]_vars PROVE PickInv'
    OBVIOUS
  <2>1. CASE UNCHANGED vars
    BY <2>1 DEF vars, PickInv, ListsInv, PickIgnoresOrder
  <2>2. CASE Next
    BY <2>2, VisitPick, ResolvePick DEF Next
  <2> QED
    BY <2>1, <2>2
<1>2. PickInv => PickIgnoresOrder
  BY DEF PickInv
<1> QED
  BY InitPick, <1>1, <1>2, PTL DEF Spec
=============================================================================
