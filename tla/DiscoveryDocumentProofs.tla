---------------------- MODULE DiscoveryDocumentProofs ----------------------
(***************************************************************************)
(* Proofs about DiscoveryDocument, for every model list, price table,      *)
(* catalogue, alias and override.                                          *)
(***************************************************************************)
EXTENDS DiscoveryDocument, FiniteSetTheorems, TLAPS

-----------------------------------------------------------------------------
(* Values *)

\* A field of metadata tells by its value whether a row gave it one.
LEMMA ValuesDiffer ==
  /\ \A from, id : <<from, id>> \notin {Unset, Zero, Default, Omitted, Always}
  /\ Unset \notin {Zero, Default, Omitted, Always}
  /\ Zero \notin {Default, Omitted, Always}
  /\ Default \notin {Omitted, Always} /\ Omitted # Always
BY DEF Unset, Zero, Default, Omitted, Always

-----------------------------------------------------------------------------
(* The merge *)

\* The id whose row of the price table counts for a model.
PriceKey(id) == IF prices[id] = None THEN LookupId(id) ELSE id

\* mergeEntry and the override put over it: each field comes from the first
\* of the three rows that has it.
LEMMA MergeTakesFirst ==
  ASSUME NEW id \in Id, NEW f \in Field
  PROVE  Resolved(id)[f] =
    IF input.overrides[id] # None /\ f \in input.overrides[id]
      THEN <<"override", id>>
    ELSE IF prices[PriceKey(id)] # None /\ f \in prices[PriceKey(id)]
      THEN <<"cpam", PriceKey(id)>>
    ELSE IF input.catalog[LookupId(id)] # None /\ f \in input.catalog[LookupId(id)]
      THEN <<"catalog", LookupId(id)>>
    ELSE Unset
<1>1. FromOverride(id)[f] =
        IF input.overrides[id] # None /\ f \in input.overrides[id]
          THEN <<"override", id>> ELSE Unset
  BY DEF FromOverride, NoEntry, Entry
<1>2. FromCPAM(id)[f] =
        IF prices[PriceKey(id)] # None /\ f \in prices[PriceKey(id)]
          THEN <<"cpam", PriceKey(id)>> ELSE Unset
  <2>1. PICK key : key = PriceKey(id)
    OBVIOUS
  <2>2. FromCPAM(id) = IF prices[key] = None THEN NoEntry
                       ELSE Entry("cpam", key, prices[key])
    BY <2>1 DEF FromCPAM, PriceKey
  <2> QED
    BY <2>1, <2>2 DEF NoEntry, Entry
<1>3. FromCatalog(id)[f] =
        IF input.catalog[LookupId(id)] # None /\ f \in input.catalog[LookupId(id)]
          THEN <<"catalog", LookupId(id)>> ELSE Unset
  BY DEF FromCatalog, NoEntry, Entry
<1>4. MergeEntry(FromCPAM(id), FromCatalog(id))[f] =
        IF FromCPAM(id)[f] = Unset THEN FromCatalog(id)[f] ELSE FromCPAM(id)[f]
  BY DEF MergeEntry
<1>5. Resolved(id)[f] =
        IF FromOverride(id)[f] # Unset THEN FromOverride(id)[f]
        ELSE MergeEntry(FromCPAM(id), FromCatalog(id))[f]
  BY DEF Resolved
<1> QED
  BY <1>1, <1>2, <1>3, <1>4, <1>5, ValuesDiffer

\* The three rows README.md:56 lists for a model.
LEMMA RowsAre ==
  ASSUME NEW id \in Id
  PROVE  /\ DOMAIN Rows(id) = 1..3
         /\ Rows(id)[1].from = "override" /\ Rows(id)[1].id = id
         /\ Rows(id)[1].row = input.overrides[id]
         /\ Rows(id)[2].from = "cpam" /\ Rows(id)[2].id = PriceKey(id)
         /\ Rows(id)[2].row = prices[PriceKey(id)]
         /\ Rows(id)[3].from = "catalog" /\ Rows(id)[3].id = LookupId(id)
         /\ Rows(id)[3].row = input.catalog[LookupId(id)]
BY DEF Rows, PriceKey

\* A model's metadata is called default exactly when no row knows the model.
LEMMA DefaultIsUnknown ==
  ASSUME NEW id \in Id
  PROVE  SourceOf(id) = "default" <=> ~Known(id)
<1>1. Known(id) <=> \/ input.overrides[id] # None
                    \/ prices[PriceKey(id)] # None
                    \/ input.catalog[LookupId(id)] # None
  <2>1. Known(id) <=> \E k \in 1..3 : Rows(id)[k].row # None
    BY RowsAre DEF Known
  <2>2. \A k \in 1..3 : k = 1 \/ k = 2 \/ k = 3
    OBVIOUS
  <2> QED
    BY <2>1, <2>2, RowsAre
<1>2. prices[PriceKey(id)] # None
        <=> prices[id] # None \/ prices[LookupId(id)] # None
  BY DEF PriceKey
<1> QED
  BY <1>1, <1>2 DEF SourceOf

-----------------------------------------------------------------------------
(* What a model shows *)

\* The value BestSourceWins asks for, where some row gives one.
BestValue(id, f) ==
  LET ks == {k \in 1..3 : Gives(id, k, f)}
      best == CHOOSE k \in ks : \A l \in ks : k <= l
  IN <<Rows(id)[best].from, Rows(id)[best].id>>

\* The merge finds the most authoritative row that gives a field.
LEMMA MergeIsBest ==
  ASSUME NEW id \in Id, NEW f \in Field
  PROVE  IF {k \in 1..3 : Gives(id, k, f)} = {} THEN Resolved(id)[f] = Unset
         ELSE Resolved(id)[f] = BestValue(id, f)
<1>1. PICK ks : ks = {k \in 1..3 : Gives(id, k, f)}
  OBVIOUS
<1>2. PICK best : best = CHOOSE k \in ks : \A l \in ks : k <= l
  OBVIOUS
<1>3. BestValue(id, f) = <<Rows(id)[best].from, Rows(id)[best].id>>
  BY <1>1, <1>2 DEF BestValue
<1>4. ks \subseteq 1..3
  BY <1>1
<1>5. ASSUME NEW n \in ks, \A l \in ks : n <= l PROVE best = n
  <2>1. best \in ks /\ \A l \in ks : best <= l
    BY <1>2, <1>5
  <2>2. best <= n /\ n <= best /\ best \in 1..3 /\ n \in 1..3
    BY <1>4, <1>5, <2>1
  <2> QED
    BY <2>2
<1>6. PICK v : v = Resolved(id)[f]
  OBVIOUS
<1>7. /\ Gives(id, 1, f) => v = <<Rows(id)[1].from, Rows(id)[1].id>>
      /\ ~Gives(id, 1, f) /\ Gives(id, 2, f)
           => v = <<Rows(id)[2].from, Rows(id)[2].id>>
      /\ ~Gives(id, 1, f) /\ ~Gives(id, 2, f) /\ Gives(id, 3, f)
           => v = <<Rows(id)[3].from, Rows(id)[3].id>>
      /\ ~Gives(id, 1, f) /\ ~Gives(id, 2, f) /\ ~Gives(id, 3, f) => v = Unset
  <2>1. /\ Gives(id, 1, f) <=> input.overrides[id] # None
                                 /\ f \in input.overrides[id]
        /\ Gives(id, 2, f) <=> prices[PriceKey(id)] # None
                                 /\ f \in prices[PriceKey(id)]
        /\ Gives(id, 3, f) <=> input.catalog[LookupId(id)] # None
                                 /\ f \in input.catalog[LookupId(id)]
    BY RowsAre DEF Gives
  <2>2. v = IF Gives(id, 1, f) THEN <<"override", id>>
            ELSE IF Gives(id, 2, f) THEN <<"cpam", PriceKey(id)>>
            ELSE IF Gives(id, 3, f) THEN <<"catalog", LookupId(id)>>
            ELSE Unset
    BY <1>6, <2>1, MergeTakesFirst
  <2> QED
    BY <2>2, RowsAre
<1>8. \A k \in 1..3 : k \in ks <=> Gives(id, k, f)
  BY <1>1
<1>9. CASE Gives(id, 1, f)
  <2>1. 1 \in ks /\ \A l \in ks : 1 <= l
    BY <1>4, <1>8, <1>9
  <2>2. best = 1 /\ ks # {}
    BY <1>5, <2>1
  <2> QED
    BY <1>1, <1>3, <1>6, <1>7, <1>9, <2>2
<1>10. CASE ~Gives(id, 1, f) /\ Gives(id, 2, f)
  <2>1. 1 \notin ks /\ 2 \in ks
    BY <1>8, <1>10
  <2>2. \A l \in ks : 2 <= l
    BY <1>4, <2>1
  <2>3. best = 2 /\ ks # {}
    BY <1>5, <2>1, <2>2
  <2> QED
    BY <1>1, <1>3, <1>6, <1>7, <1>10, <2>3
<1>11. CASE ~Gives(id, 1, f) /\ ~Gives(id, 2, f) /\ Gives(id, 3, f)
  <2>1. 1 \notin ks /\ 2 \notin ks /\ 3 \in ks
    BY <1>8, <1>11
  <2>2. \A l \in ks : 3 <= l
    BY <1>4, <2>1
  <2>3. best = 3 /\ ks # {}
    BY <1>5, <2>1, <2>2
  <2> QED
    BY <1>1, <1>3, <1>6, <1>7, <1>11, <2>3
<1>12. CASE ~Gives(id, 1, f) /\ ~Gives(id, 2, f) /\ ~Gives(id, 3, f)
  <2>1. 1 \notin ks /\ 2 \notin ks /\ 3 \notin ks
    BY <1>8, <1>12
  <2>2. ks = {}
    BY <1>4, <2>1
  <2> QED
    BY <1>1, <1>6, <1>7, <1>12, <2>2
<1> QED
  BY <1>9, <1>10, <1>11, <1>12

\* A value that the merge finds says which row it came from.
LEMMA ResolvedValues ==
  ASSUME NEW id \in Id, NEW f \in Field
  PROVE  Resolved(id)[f] \notin {Zero, Default, Omitted, Always}
<1>1. \/ Resolved(id)[f] = <<"override", id>>
      \/ Resolved(id)[f] = <<"cpam", PriceKey(id)>>
      \/ Resolved(id)[f] = <<"catalog", LookupId(id)>>
      \/ Resolved(id)[f] = Unset
  BY MergeTakesFirst
<1> QED
  BY <1>1, ValuesDiffer

\* What BestSourceWins asks of one model of one kind.
Faithful(id, kind, shown) ==
  \A f \in DOMAIN shown :
    LET v == shown[f]
    IN IF v = Always THEN f = "reasoning" /\ id \in Forced
       ELSE IF {k \in 1..3 : Gives(id, k, f)} # {} THEN v = BestValue(id, f)
       ELSE IF kind # "custom" THEN v = Omitted
       ELSE /\ f \notin Limit => v = Zero
            /\ f \in Limit /\ ~Known(id) => v = Default
            /\ f \in Limit /\ Rows(id)[3].row # None => v = Zero

\* Forcing a model to reason touches nothing else.
LEMMA ForceIs ==
  ASSUME NEW id \in Id, NEW F \in SUBSET Field, "reasoning" \in F,
         NEW shown, shown = [f \in F |-> shown[f]]
  PROVE  /\ DOMAIN ForceReasoning(id, shown) = F
         /\ \A f \in F : ForceReasoning(id, shown)[f] =
              IF id \in Forced /\ f = "reasoning" THEN Always ELSE shown[f]
<1>1. DOMAIN shown = F
  OBVIOUS
<1> QED
  BY <1>1 DEF ForceReasoning

LEMMA BuiltinIsFaithful ==
  ASSUME NEW id \in Id, NEW kind, kind # "custom"
  PROVE  Faithful(id, kind, BuiltinModel(id))
<1>1. PICK base : base = [f \in Field \ {"cost"} |->
                            IF Resolved(id)[f] = Unset THEN Omitted
                            ELSE Resolved(id)[f]]
  OBVIOUS
<1>2. BuiltinModel(id) = ForceReasoning(id, base)
  BY <1>1 DEF BuiltinModel
<1>3. /\ "reasoning" \in Field \ {"cost"} /\ Field \ {"cost"} \in SUBSET Field
      /\ base = [f \in Field \ {"cost"} |-> base[f]]
  BY <1>1 DEF Field
<1>4. PICK shown : shown = BuiltinModel(id)
  OBVIOUS
<1>5. /\ DOMAIN shown = Field \ {"cost"}
      /\ \A f \in Field \ {"cost"} : shown[f] =
           IF id \in Forced /\ f = "reasoning" THEN Always ELSE base[f]
  BY <1>2, <1>3, <1>4, ForceIs
<1>6. ASSUME NEW f \in Field \ {"cost"}
      PROVE  LET v == shown[f]
             IN IF v = Always THEN f = "reasoning" /\ id \in Forced
                ELSE IF {k \in 1..3 : Gives(id, k, f)} # {}
                  THEN v = BestValue(id, f)
                ELSE v = Omitted
  <2>1. f \in Field /\ base[f] = IF Resolved(id)[f] = Unset THEN Omitted
                                 ELSE Resolved(id)[f]
    BY <1>1
  <2>2. Resolved(id)[f] \notin {Zero, Default, Omitted, Always}
    BY <2>1, ResolvedValues
  <2>3. IF {k \in 1..3 : Gives(id, k, f)} = {} THEN Resolved(id)[f] = Unset
        ELSE Resolved(id)[f] = BestValue(id, f)
    BY <2>1, MergeIsBest
  <2>4. {k \in 1..3 : Gives(id, k, f)} # {} => BestValue(id, f) # Unset
    BY ValuesDiffer DEF BestValue
  <2>5. base[f] # Always
    BY <2>1, <2>2, ValuesDiffer
  <2> QED
    BY <1>5, <2>1, <2>3, <2>4, <2>5
<1> QED
  BY <1>4, <1>5, <1>6 DEF Faithful

LEMMA CustomIsFaithful ==
  ASSUME NEW id \in Id
  PROVE  Faithful(id, "custom", CustomModel(id))
<1>1. PICK base : base = [f \in Field |->
            IF Resolved(id)[f] # Unset THEN Resolved(id)[f]
            ELSE IF f \in Limit /\ SourceOf(id) = "default" THEN Default
            ELSE Zero]
  OBVIOUS
<1>2. CustomModel(id) = ForceReasoning(id, base)
  BY <1>1 DEF CustomModel
<1>3. "reasoning" \in Field /\ Field \in SUBSET Field
      /\ base = [f \in Field |-> base[f]]
  BY <1>1 DEF Field
<1>4. PICK shown : shown = CustomModel(id)
  OBVIOUS
<1>5. /\ DOMAIN shown = Field
      /\ \A f \in Field : shown[f] =
           IF id \in Forced /\ f = "reasoning" THEN Always ELSE base[f]
  BY <1>2, <1>3, <1>4, ForceIs
<1>6. ASSUME NEW f \in Field
      PROVE  LET v == shown[f]
             IN IF v = Always THEN f = "reasoning" /\ id \in Forced
                ELSE IF {k \in 1..3 : Gives(id, k, f)} # {}
                  THEN v = BestValue(id, f)
                ELSE /\ f \notin Limit => v = Zero
                     /\ f \in Limit /\ ~Known(id) => v = Default
                     /\ f \in Limit /\ Rows(id)[3].row # None => v = Zero
  <2>1. base[f] = IF Resolved(id)[f] # Unset THEN Resolved(id)[f]
                  ELSE IF f \in Limit /\ ~Known(id) THEN Default
                  ELSE Zero
    BY <1>1, DefaultIsUnknown
  <2>2. Resolved(id)[f] \notin {Zero, Default, Omitted, Always}
    BY ResolvedValues
  <2>3. IF {k \in 1..3 : Gives(id, k, f)} = {} THEN Resolved(id)[f] = Unset
        ELSE Resolved(id)[f] = BestValue(id, f)
    BY MergeIsBest
  <2>4. {k \in 1..3 : Gives(id, k, f)} # {} => BestValue(id, f) # Unset
    BY ValuesDiffer DEF BestValue
  <2>5. base[f] # Always
    BY <2>1, <2>2, ValuesDiffer
  <2>6. Rows(id)[3].row # None => Known(id)
    BY RowsAre DEF Known
  <2> QED
    BY <1>5, <2>1, <2>3, <2>4, <2>5, <2>6
<1> QED
  BY <1>4, <1>5, <1>6 DEF Faithful

-----------------------------------------------------------------------------
(* The build *)

Before == {"models", "prices", "failed"}

After == {"resolve", "health", "count", "done"}

Kinds == {"anthropic", "openai", "custom"}

Shown == [Field -> Value \ {Unset}] \cup [Field \ {"cost"} -> Value \ {Unset}]

PublishedModel == [model : Model, kind : Kinds, source : Source, shown : Shown]

\* A model is published as what the rows of the build's tables make of it.
Made(m) ==
  m.shown = IF m.kind = "custom" THEN CustomModel(m.model.id)
                                 ELSE BuiltinModel(m.model.id)

\* The tables do not change once a model is published.
BuildInv ==
  /\ input \in Input /\ next \in Nat \ {0}
  /\ prices \in [Id -> {None} \cup Row]
  /\ pc \in Before \cup After
  /\ pc \in Before => published = <<>>
  /\ published \in Seq(PublishedModel)
  /\ \A i \in DOMAIN published : Made(published[i])

\* What a model shows is a value, and never the mark of a missing one.
LEMMA ShownIsTyped ==
  ASSUME BuildInv, NEW id \in Id
  PROVE  BuiltinModel(id) \in Shown /\ CustomModel(id) \in Shown
<1>1. LookupId(id) \in Id /\ PriceKey(id) \in Id
  BY DEF BuildInv, Input, LookupId, PriceKey
<1>2. ASSUME NEW f \in Field PROVE Resolved(id)[f] \in Value
  <2>1. \/ Resolved(id)[f] = <<"override", id>>
        \/ Resolved(id)[f] = <<"cpam", PriceKey(id)>>
        \/ Resolved(id)[f] = <<"catalog", LookupId(id)>>
        \/ Resolved(id)[f] = Unset
    BY MergeTakesFirst
  <2>2. \A from \in {"override", "cpam", "catalog"}, key \in Id :
          <<from, key>> \in Value
    BY DEF Value
  <2>3. Unset \in Value
    BY DEF Value
  <2> QED
    BY <1>1, <2>1, <2>2, <2>3
<1>3. {Zero, Default, Omitted, Always} \subseteq Value \ {Unset}
  BY ValuesDiffer DEF Value
<1>4. "reasoning" \in Field \ {"cost"} /\ Field \ {"cost"} \in SUBSET Field
  BY DEF Field
<1>5. ASSUME NEW F \in SUBSET Field, NEW base \in [F -> Value \ {Unset}]
      PROVE  ForceReasoning(id, base) \in [F -> Value \ {Unset}]
  BY <1>3, <1>5 DEF ForceReasoning
<1>6. BuiltinModel(id) \in Shown
  <2>1. PICK base : base = [f \in Field \ {"cost"} |->
                              IF Resolved(id)[f] = Unset THEN Omitted
                              ELSE Resolved(id)[f]]
    OBVIOUS
  <2>2. base \in [Field \ {"cost"} -> Value \ {Unset}]
    BY <1>2, <1>3, <2>1
  <2>3. BuiltinModel(id) = ForceReasoning(id, base)
    BY <2>1 DEF BuiltinModel
  <2> QED
    BY <1>4, <1>5, <2>2, <2>3 DEF Shown
<1>7. CustomModel(id) \in Shown
  <2>1. PICK base : base = [f \in Field |->
              IF Resolved(id)[f] # Unset THEN Resolved(id)[f]
              ELSE IF f \in Limit /\ SourceOf(id) = "default" THEN Default
              ELSE Zero]
    OBVIOUS
  <2>2. base \in [Field -> Value \ {Unset}]
    BY <1>2, <1>3, <2>1
  <2>3. CustomModel(id) = ForceReasoning(id, base)
    BY <2>1 DEF CustomModel
  <2> QED
    BY <1>5, <2>2, <2>3 DEF Shown
<1> QED
  BY <1>6, <1>7

LEMMA InitBuild == Init => BuildInv
<1> SUFFICES ASSUME Init PROVE BuildInv
  OBVIOUS
<1>1. input \in Input
  BY DiscoveryAssumption DEF Init
<1>2. prices \in [Id -> {None} \cup Row]
  BY DEF Init, NoPrices
<1>3. published = <<>> /\ pc = "models" /\ next = 1
  BY DEF Init
<1>4. published \in Seq(PublishedModel) /\ DOMAIN published = {}
  BY <1>3
<1> QED
  BY <1>1, <1>2, <1>3, <1>4 DEF BuildInv, Before

\* What a published model was made of stays where it is.
LEMMA MadeStays ==
  ASSUME UNCHANGED <<input, prices>>, NEW m, Made(m)
  PROVE  Made(m)'
<1>1. input' = input /\ prices' = prices
  OBVIOUS
<1>2. PICK id : id = m.model.id
  OBVIOUS
<1>3. /\ FromOverride(id)' = FromOverride(id)
      /\ LookupId(id)' = LookupId(id)
  BY <1>1 DEF FromOverride, LookupId
<1>4. /\ FromCPAM(id)' = FromCPAM(id)
      /\ FromCatalog(id)' = FromCatalog(id)
  BY <1>1, <1>3 DEF FromCPAM, FromCatalog
<1>5. Resolved(id)' = Resolved(id)
  BY <1>3, <1>4 DEF Resolved, MergeEntry
<1>6. SourceOf(id)' = SourceOf(id)
  BY <1>1, <1>3 DEF SourceOf
<1>7. BuiltinModel(id)' = BuiltinModel(id)
  BY <1>5 DEF BuiltinModel, ForceReasoning
<1>8. CustomModel(id)' = CustomModel(id)
  BY <1>5, <1>6 DEF CustomModel, ForceReasoning
<1> QED
  BY <1>2, <1>7, <1>8 DEF Made

\* A step that publishes nothing keeps the invariant, if it keeps the tables or
\* comes before the first model.
LEMMA QuietStep ==
  ASSUME BuildInv, UNCHANGED <<input, published>>,
         prices' \in [Id -> {None} \cup Row],
         prices' = prices \/ published = <<>>,
         next' \in Nat \ {0},
         pc' \in Before \cup After,
         pc' \in Before => pc \in Before
  PROVE  BuildInv'
<1>1. input' = input /\ published' = published
  OBVIOUS
<1>2. (\A i \in DOMAIN published : Made(published[i]))'
  <2>1. CASE prices' = prices
    <3> SUFFICES ASSUME NEW i \in DOMAIN published' PROVE Made(published[i])'
      OBVIOUS
    <3>1. PICK m : m = published[i]
      OBVIOUS
    <3>2. Made(m)
      BY <1>1, <3>1 DEF BuildInv
    <3>3. Made(m)'
      BY <1>1, <2>1, <3>2, MadeStays
    <3>4. m = published'[i]
      BY <1>1, <3>1
    <3> QED
      BY <3>3, <3>4 DEF Made
  <2>2. CASE published = <<>>
    BY <1>1, <2>2
  <2> QED
    BY <2>1, <2>2
<1>3. pc' \in Before => published' = <<>>
  BY <1>1 DEF BuildInv
<1> QED
  BY <1>1, <1>2, <1>3 DEF BuildInv

LEMMA PublishStep == BuildInv /\ PublishModel => BuildInv'
<1> SUFFICES ASSUME BuildInv, PublishModel PROVE BuildInv'
  OBVIOUS
<1>1. PICK model : model = Current
  OBVIOUS
<1>2. model \in Model
  BY <1>1 DEF BuildInv, PublishModel, AtModel, Current, Input
<1>3. PICK id : id = model.id
  OBVIOUS
<1>4. id \in Id /\ model.owner \in Owner
  BY <1>2, <1>3 DEF Model
<1>5. PICK kind : kind = KindOf[model.owner]
  OBVIOUS
<1>6. kind \in Kinds
  BY <1>4, <1>5, DiscoveryAssumption DEF Kinds
<1>7. PICK shown : shown = IF kind = "custom" THEN CustomModel(id)
                                               ELSE BuiltinModel(id)
  OBVIOUS
<1>8. PICK m : m = [model |-> model, kind |-> kind, source |-> SourceOf(id),
                    shown |-> shown]
  OBVIOUS
<1>9. m \in PublishedModel
  <2>1. shown \in Shown
    BY <1>4, <1>7, ShownIsTyped
  <2>2. SourceOf(id) \in Source
    BY DEF SourceOf, Source
  <2> QED
    BY <1>2, <1>6, <1>8, <2>1, <2>2 DEF PublishedModel
<1>10. /\ pc = "resolve" /\ next' = next + 1
       /\ UNCHANGED <<input, prices, pc>>
       /\ published' = Append(published, m)
  <2>1. published' = Append(published,
          [model |-> Current, kind |-> KindOf[Current.owner],
           source |-> SourceOf(Current.id),
           shown |-> IF KindOf[Current.owner] = "custom"
                       THEN CustomModel(Current.id)
                     ELSE BuiltinModel(Current.id)])
    BY DEF PublishModel
  <2>2. published' = Append(published, m)
    BY <1>1, <1>3, <1>5, <1>7, <1>8, <2>1
  <2> QED
    BY <2>2 DEF PublishModel, AtModel
<1>11. Made(m)
  BY <1>3, <1>7, <1>8 DEF Made
<1>12. (\A i \in DOMAIN published : Made(published[i]))'
  <2> SUFFICES ASSUME NEW i \in DOMAIN published' PROVE Made(published[i])'
    OBVIOUS
  <2>1. PICK p : p = published'[i]
    OBVIOUS
  <2>2. p = m \/ (i \in DOMAIN published /\ p = published[i])
    BY <1>10, <2>1 DEF BuildInv
  <2>3. Made(p)
    BY <1>11, <2>2 DEF BuildInv
  <2>4. Made(p)'
    BY <1>10, <2>3, MadeStays
  <2> QED
    BY <2>1, <2>4 DEF Made
<1>13. published' \in Seq(PublishedModel)
  BY <1>9, <1>10 DEF BuildInv
<1>14. next' \in Nat \ {0}
  BY <1>10 DEF BuildInv
<1>15. pc' \notin Before /\ pc' \in After
  BY <1>10 DEF Before, After
<1> QED
  BY <1>10, <1>12, <1>13, <1>14, <1>15 DEF BuildInv

LEMMA NextBuild == BuildInv /\ [Next]_vars => BuildInv'
<1> SUFFICES ASSUME BuildInv, [Next]_vars PROVE BuildInv'
  OBVIOUS
<1>1. /\ input \in Input /\ next \in Nat \ {0}
      /\ prices \in [Id -> {None} \cup Row]
      /\ pc \in Before \cup After
      /\ pc \in Before => published = <<>>
  BY DEF BuildInv
<1>2. CASE FetchModels
  BY <1>1, <1>2, QuietStep DEF FetchModels, Before, After
<1>3. CASE LoadPrices
  <2>1. CPAMEntries \in [Id -> {None} \cup Row]
    <3> SUFFICES ASSUME NEW id \in Id, input.prices[id] # None
                 PROVE  {"cost"} \cup input.prices[id] \in Row
      BY DEF CPAMEntries
    <3>1. input.prices[id] \in SUBSET Limit
      BY <1>1 DEF Input
    <3> QED
      BY <3>1 DEF Row, Limit, Field
  <2>2. NoPrices \in [Id -> {None} \cup Row]
    BY DEF NoPrices
  <2>3. prices' \in [Id -> {None} \cup Row] /\ published = <<>>
    BY <1>1, <1>3, <2>1, <2>2 DEF LoadPrices, Before
  <2> QED
    BY <1>1, <1>3, <2>3, QuietStep DEF LoadPrices, Before, After
<1>4. CASE SkipModel
  BY <1>1, <1>4, QuietStep DEF SkipModel
<1>5. CASE PublishModel
  BY <1>5, PublishStep
<1>6. CASE ReportCounts
  BY <1>1, <1>6, QuietStep DEF ReportCounts, Before, After
<1>7. CASE ReadAuthFiles
  BY <1>1, <1>7, QuietStep DEF ReadAuthFiles, Before, After
<1>8. CASE CountCredential
  BY <1>1, <1>8, QuietStep DEF CountCredential
<1>9. CASE ReportHealth
  BY <1>1, <1>9, QuietStep DEF ReportHealth, Before, After
<1>10. CASE UNCHANGED vars
  BY <1>1, <1>10, QuietStep DEF vars
<1> QED
  BY <1>2, <1>3, <1>4, <1>5, <1>6, <1>7, <1>8, <1>9, <1>10 DEF Next

\* Whatever the four sources say of a model, each field it shows is the one of
\* the most authoritative source that gives it (resolveModelMeta,
\* buildBuiltinModel, buildCustomModel).
THEOREM BestSourceHolds == Spec => []BestSourceWins
<1>1. BuildInv => BestSourceWins
  <2> SUFFICES ASSUME BuildInv, NEW i \in DOMAIN published
               PROVE  Faithful(published[i].model.id, published[i].kind,
                               published[i].shown)
    BY DEF BestSourceWins, Faithful, BestValue
  <2>1. PICK m : m = published[i]
    OBVIOUS
  <2>2. m \in PublishedModel /\ Made(m)
    BY <2>1 DEF BuildInv
  <2>3. m.model.id \in Id
    BY <2>2 DEF PublishedModel, Model
  <2>4. CASE m.kind = "custom"
    BY <2>1, <2>2, <2>3, <2>4, CustomIsFaithful DEF Made
  <2>5. CASE m.kind # "custom"
    BY <2>1, <2>2, <2>3, <2>5, BuiltinIsFaithful DEF Made
  <2> QED
    BY <2>4, <2>5
<1> QED
  BY <1>1, InitBuild, NextBuild, PTL DEF Spec

-----------------------------------------------------------------------------
(* Counting along a list *)

\* The positions of S a loop has passed when it is about to look at n.
To(S, n) == {i \in S : i < n}

PassesRightly(k, S, n) ==
  /\ IsFiniteSet(S) /\ IsFiniteSet(To(S, n))
  /\ Cardinality(S) \in Nat /\ Cardinality(To(S, n)) \in Nat
  /\ To(S, 1) = {} /\ Cardinality(To(S, 1)) = 0
  /\ To(S, k + 1) = S
  /\ To(S, n + 1) = IF n \in S THEN To(S, n) \cup {n} ELSE To(S, n)
  /\ n \notin To(S, n)
  /\ Cardinality(To(S, n + 1)) = IF n \in S THEN Cardinality(To(S, n)) + 1
                                 ELSE Cardinality(To(S, n))

LEMMA PositionsPassed ==
  ASSUME NEW k \in Nat, NEW S \in SUBSET (1..k), NEW n \in Nat
  PROVE  PassesRightly(k, S, n)
<1>1. IsFiniteSet(S) /\ IsFiniteSet(To(S, n))
  <2>1. IsFiniteSet(1..k)
    BY FS_Interval
  <2>2. To(S, n) \in SUBSET (1..k)
    BY DEF To
  <2> QED
    BY <2>1, <2>2, FS_Subset
<1>2. Cardinality(S) \in Nat /\ Cardinality(To(S, n)) \in Nat
  BY <1>1, FS_CardinalityType
<1>3. To(S, 1) = {} /\ To(S, k + 1) = S /\ n \notin To(S, n)
  <2>1. \A i \in S : i \in Int /\ 1 <= i /\ i <= k
    OBVIOUS
  <2>2. \A i \in S : ~(i < 1) /\ i < k + 1
    BY <2>1
  <2>3. ~(n < n)
    OBVIOUS
  <2> QED
    BY <2>2, <2>3 DEF To
<1>4. Cardinality(To(S, 1)) = 0
  BY <1>3, FS_EmptySet
<1>5. To(S, n + 1) = IF n \in S THEN To(S, n) \cup {n} ELSE To(S, n)
  <2>1. \A i \in S : i \in Int
    OBVIOUS
  <2>2. \A i \in S : i < n + 1 <=> i < n \/ i = n
    BY <2>1
  <2> QED
    BY <2>2 DEF To
<1>6. Cardinality(To(S, n) \cup {n}) = Cardinality(To(S, n)) + 1
  BY <1>1, <1>3, FS_AddElement
<1> QED
  BY <1>1, <1>2, <1>3, <1>4, <1>5, <1>6 DEF PassesRightly

-----------------------------------------------------------------------------
(* The counts of a document *)

UnknownOf(id) == {i \in Unknown : input.models[i].id = id}

\* What the loop over the models has made of those before number n.
CountsTo(n) ==
  /\ Len(published) = Cardinality(To(Offered, n))
  /\ \A i \in To(Offered, n) : published[Place(i)].model = input.models[i]
  /\ counts.upstreamTotal = n - 1
  /\ counts.afterExcludes = Cardinality(To(Offered, n))
  /\ matched = Cardinality(To(Offered \ Unknown, n))
  /\ unmatched \in [Id -> Nat]
  /\ \A id \in Id : unmatched[id] = Cardinality(To(UnknownOf(id), n))

CountInv ==
  /\ counts \in Counts
  /\ pc \in Before => next = 1
  /\ pc \in Before \cup {"resolve"} =>
       next <= Len(input.models) + 1 /\ CountsTo(next)
  /\ pc \in {"health", "count", "done"} =>
       /\ CountsTo(Len(input.models) + 1)
       /\ counts.builtin + counts.custom = Len(published)

LEMMA PositionsAre ==
  ASSUME BuildInv
  PROVE  /\ Len(input.models) \in Nat /\ Len(input.files) \in Nat
         /\ DOMAIN input.models = 1..Len(input.models)
         /\ DOMAIN input.files = 1..Len(input.files)
         /\ Offered \in SUBSET (1..Len(input.models))
         /\ Unknown \in SUBSET Offered
         /\ Offered \ Unknown \in SUBSET (1..Len(input.models))
         /\ \A id \in Id : UnknownOf(id) \in SUBSET (1..Len(input.models))
         /\ \A p : AccountsOf(p) \in SUBSET (1..Len(input.files))
         /\ \A p : Usable(p) \in SUBSET AccountsOf(p)
<1>1. input.models \in Seq(Model) /\ input.files \in Seq(Credential)
  BY DEF BuildInv, Input
<1> QED
  BY <1>1 DEF Offered, Unknown, UnknownOf, AccountsOf, Usable

\* What is left to publish depends on the build's tables only.
LEMMA TablesDecide ==
  /\ UNCHANGED input => /\ Offered' = Offered
                        /\ \A i : Place(i)' = Place(i)
                        /\ \A p : AccountsOf(p)' = AccountsOf(p)
                        /\ \A p : Usable(p)' = Usable(p)
  /\ UNCHANGED <<input, prices>> => /\ Unknown' = Unknown
                                    /\ \A id : UnknownOf(id)' = UnknownOf(id)
<1>1. ASSUME UNCHANGED input
      PROVE  /\ Offered' = Offered
             /\ \A i : Place(i)' = Place(i)
             /\ \A p : AccountsOf(p)' = AccountsOf(p)
             /\ \A p : Usable(p)' = Usable(p)
  BY <1>1 DEF Offered, Place, AccountsOf, Usable
<1>2. ASSUME UNCHANGED <<input, prices>>
      PROVE  Unknown' = Unknown
  <2>1. input' = input /\ prices' = prices
    BY <1>2
  <2>2. ASSUME NEW i PROVE Known(input.models[i].id)' = Known(input.models[i].id)
    BY <2>1 DEF Known, Rows, LookupId
  <2> QED
    BY <2>1, <2>2 DEF Unknown, Offered
<1>3. ASSUME UNCHANGED <<input, prices>>, NEW id
      PROVE  UnknownOf(id)' = UnknownOf(id)
  BY <1>2, <1>3 DEF UnknownOf
<1> QED
  BY <1>1, <1>2, <1>3

\* Nothing is counted before the loop.
LEMMA CountsAtFirst ==
  ASSUME BuildInv, published = <<>>, matched = 0,
         unmatched = [id \in Id |-> 0],
         counts.upstreamTotal = 0, counts.afterExcludes = 0
  PROVE  CountsTo(1)
<1>1. PICK k : k = Len(input.models)
  OBVIOUS
<1>2. k \in Nat /\ Offered \in SUBSET (1..k) /\ Offered \ Unknown \in SUBSET (1..k)
      /\ \A id \in Id : UnknownOf(id) \in SUBSET (1..k)
  BY <1>1, PositionsAre
<1>3. \A S \in SUBSET (1..k) : To(S, 1) = {} /\ Cardinality(To(S, 1)) = 0
  <2> TAKE S \in SUBSET (1..k)
  <2>1. PassesRightly(k, S, 1)
    BY <1>2, PositionsPassed
  <2> QED
    BY <2>1 DEF PassesRightly
<1>4. /\ To(Offered, 1) = {} /\ Cardinality(To(Offered, 1)) = 0
      /\ Cardinality(To(Offered \ Unknown, 1)) = 0
      /\ \A id \in Id : Cardinality(To(UnknownOf(id), 1)) = 0
  BY <1>2, <1>3
<1>5. unmatched \in [Id -> Nat] /\ Len(published) = 0
  OBVIOUS
<1> QED
  BY <1>4, <1>5 DEF CountsTo

\* A step of another part of the build leaves the loop's counts alone.
LEMMA CountsStay ==
  ASSUME UNCHANGED <<input, prices, published, matched, unmatched>>,
         UNCHANGED <<counts.upstreamTotal, counts.afterExcludes>>,
         NEW n, CountsTo(n)
  PROVE  CountsTo(n)'
<1>1. /\ Offered' = Offered /\ Unknown' = Unknown
      /\ \A i : Place(i)' = Place(i)
      /\ \A id : UnknownOf(id)' = UnknownOf(id)
  BY TablesDecide
<1>2. /\ To(Offered, n)' = To(Offered, n)
      /\ To(Offered \ Unknown, n)' = To(Offered \ Unknown, n)
      /\ \A id : To(UnknownOf(id), n)' = To(UnknownOf(id), n)
  BY <1>1 DEF To
<1>3. \A i \in To(Offered, n) :
        published'[Place(i)'].model = input'.models[i]
  BY <1>1 DEF CountsTo
<1> QED
  BY <1>1, <1>2, <1>3 DEF CountsTo

\* One round of the loop, over a model that is published or not.
LEMMA CountsGrow ==
  ASSUME BuildInv, UNCHANGED <<input, prices>>, NEW n, n = next,
         n \in 1..Len(input.models), CountsTo(n), counts \in Counts,
         NEW model, model = input.models[n],
         counts'.upstreamTotal = counts.upstreamTotal + 1,
         IF model.id \in Skipped
           THEN /\ UNCHANGED <<published, matched, unmatched>>
                /\ counts'.afterExcludes = counts.afterExcludes
           ELSE /\ \E m : m.model = model /\ published' = Append(published, m)
                /\ counts'.afterExcludes = counts.afterExcludes + 1
                /\ IF Known(model.id)
                     THEN matched' = matched + 1 /\ UNCHANGED unmatched
                     ELSE /\ unmatched' = [unmatched EXCEPT ![model.id] = @ + 1]
                          /\ UNCHANGED matched
  PROVE  CountsTo(n + 1)'
<1>1. PICK k : k = Len(input.models)
  OBVIOUS
<1>2. /\ k \in Nat /\ n \in Nat /\ n \in 1..k
      /\ Offered \in SUBSET (1..k) /\ Unknown \in SUBSET Offered
      /\ Offered \ Unknown \in SUBSET (1..k)
      /\ \A id \in Id : UnknownOf(id) \in SUBSET (1..k)
      /\ DOMAIN input.models = 1..k
  BY <1>1, PositionsAre
<1>3. /\ Offered' = Offered /\ Unknown' = Unknown
      /\ \A i : Place(i)' = Place(i)
      /\ \A id : UnknownOf(id)' = UnknownOf(id)
  BY TablesDecide
<1>4. ASSUME NEW S \in SUBSET (1..k)
      PROVE  /\ IsFiniteSet(To(S, n)) /\ Cardinality(To(S, n)) \in Nat
             /\ To(S, n + 1) = IF n \in S THEN To(S, n) \cup {n} ELSE To(S, n)
             /\ Cardinality(To(S, n + 1)) = IF n \in S
                  THEN Cardinality(To(S, n)) + 1 ELSE Cardinality(To(S, n))
  <2>1. k \in Nat /\ n \in Nat
    BY <1>2
  <2>2. PassesRightly(k, S, n)
    BY <2>1, <1>4, PositionsPassed
  <2> QED
    BY <2>2 DEF PassesRightly
<1>5. model.id \in Id
  <2>1. input.models \in Seq(Model)
    BY DEF BuildInv, Input
  <2>2. model \in Model
    BY <1>1, <1>2, <2>1
  <2> QED
    BY <2>2 DEF Model
<1>6. /\ n \in Offered <=> model.id \notin Skipped
      /\ n \in Offered => (n \in Unknown <=> ~Known(model.id))
      /\ \A id \in Id : n \in UnknownOf(id) <=> n \in Unknown /\ model.id = id
  BY <1>2 DEF Offered, Unknown, UnknownOf
<1>7. CASE model.id \in Skipped
  <2>1. n \notin Offered /\ n \notin Unknown /\ n \notin Offered \ Unknown
        /\ \A id \in Id : n \notin UnknownOf(id)
    BY <1>2, <1>6, <1>7
  <2>2. /\ To(Offered, n + 1) = To(Offered, n)
        /\ Cardinality(To(Offered \ Unknown, n + 1))
             = Cardinality(To(Offered \ Unknown, n))
        /\ \A id \in Id : Cardinality(To(UnknownOf(id), n + 1))
                            = Cardinality(To(UnknownOf(id), n))
    BY <1>2, <1>4, <2>1
  <2>3. /\ published' = published /\ matched' = matched /\ unmatched' = unmatched
        /\ input' = input /\ counts'.afterExcludes = counts.afterExcludes
    BY <1>7
  <2>4. counts'.upstreamTotal = n
    BY <1>2 DEF CountsTo
  <2>5. (n + 1) - 1 = n
    BY <1>2
  <2> QED
    BY <1>3, <2>2, <2>3, <2>4, <2>5 DEF CountsTo
<1>8. CASE model.id \notin Skipped
  <2>1. PICK m : m.model = model /\ published' = Append(published, m)
    BY <1>8
  <2>2. n \in Offered
    BY <1>6, <1>8
  <2>3. PICK len : len = Cardinality(To(Offered, n))
    OBVIOUS
  <2>4. /\ len \in Nat /\ Len(published) = len
        /\ To(Offered, n + 1) = To(Offered, n) \cup {n}
        /\ Cardinality(To(Offered, n + 1)) = len + 1
    BY <1>2, <1>4, <2>2, <2>3 DEF CountsTo
  <2>5. /\ Len(published') = len + 1 /\ published'[len + 1] = m
        /\ \A i \in 1..len : published'[i] = published[i]
    <3>1. published \in Seq(PublishedModel)
      BY DEF BuildInv
    <3> QED
      BY <2>1, <2>4, <3>1
  <2>6. \A i \in To(Offered, n + 1) :
          published'[Place(i)].model = input.models[i]
    <3>1. Place(n) = len + 1
      <4>1. {j \in Offered : j <= n} = To(Offered, n + 1)
        <5>1. \A j \in Offered : j \in Int
          BY <1>2
        <5>2. \A j \in Offered : j <= n <=> j < n + 1
          BY <1>2, <5>1
        <5> QED
          BY <5>2 DEF To
      <4> QED
        BY <4>1, <2>4 DEF Place
    <3>2. ASSUME NEW i \in To(Offered, n)
          PROVE  Place(i) \in 1..len
      <4>1. PICK P : P = {j \in Offered : j <= i}
        OBVIOUS
      <4>2. i \in Offered /\ i < n /\ i \in Int
        BY <1>2 DEF To
      <4>3. P \in SUBSET To(Offered, n)
        <5>1. \A j \in Offered : j \in Int
          BY <1>2
        <5>2. \A j \in Offered : j <= i => j < n
          BY <1>2, <4>2, <5>1
        <5> QED
          BY <4>1, <5>2 DEF To
      <4>4. IsFiniteSet(To(Offered, n))
        BY <1>2, <1>4
      <4>5. IsFiniteSet(P) /\ Cardinality(P) <= len
        BY <2>3, <4>3, <4>4, FS_Subset
      <4>6. Cardinality(P) \in Nat /\ i \in P
        BY <4>1, <4>2, <4>5, FS_CardinalityType
      <4>7. Cardinality(P) # 0
        BY <4>5, <4>6, FS_EmptySet
      <4> QED
        BY <2>4, <4>1, <4>5, <4>6, <4>7 DEF Place
    <3>3. ASSUME NEW i \in To(Offered, n)
          PROVE  published'[Place(i)].model = input.models[i]
      <4>1. published'[Place(i)] = published[Place(i)]
        BY <2>5, <3>2
      <4>2. published[Place(i)].model = input.models[i]
        BY DEF CountsTo
      <4> QED
        BY <4>1, <4>2
    <3>4. published'[Place(n)].model = input.models[n]
      BY <2>1, <2>5, <3>1
    <3> QED
      BY <2>4, <3>3, <3>4
  <2>7. (n + 1) - 1 = n
    BY <1>2
  <2>8. counts'.upstreamTotal = n
    BY <1>2 DEF CountsTo
  <2>9. counts'.afterExcludes = len + 1
    BY <1>8, <2>3 DEF CountsTo
  <2>10. matched' = Cardinality(To(Offered \ Unknown, n + 1))
    <3>1. n \in Offered \ Unknown <=> Known(model.id)
      BY <1>6, <2>2
    <3>2. Cardinality(To(Offered \ Unknown, n + 1)) =
            IF Known(model.id) THEN Cardinality(To(Offered \ Unknown, n)) + 1
            ELSE Cardinality(To(Offered \ Unknown, n))
      BY <1>2, <1>4, <3>1
    <3>3. matched = Cardinality(To(Offered \ Unknown, n))
      BY DEF CountsTo
    <3>4. matched' = IF Known(model.id) THEN matched + 1 ELSE matched
      BY <1>8
    <3> QED
      BY <3>2, <3>3, <3>4
  <2>11. /\ unmatched' \in [Id -> Nat]
         /\ \A id \in Id :
              unmatched'[id] = Cardinality(To(UnknownOf(id), n + 1))
    <3>1. /\ unmatched \in [Id -> Nat]
          /\ \A id \in Id : unmatched[id] = Cardinality(To(UnknownOf(id), n))
      BY DEF CountsTo
    <3>2. unmatched' = IF Known(model.id) THEN unmatched
                       ELSE [unmatched EXCEPT ![model.id] = @ + 1]
      BY <1>8
    <3>3. unmatched' \in [Id -> Nat]
      BY <1>5, <3>1, <3>2
    <3>4. ASSUME NEW id \in Id
          PROVE  unmatched'[id] = Cardinality(To(UnknownOf(id), n + 1))
      <4>1. n \in UnknownOf(id) <=> ~Known(model.id) /\ model.id = id
        BY <1>6, <2>2
      <4>2. Cardinality(To(UnknownOf(id), n + 1)) =
              IF ~Known(model.id) /\ model.id = id
                THEN Cardinality(To(UnknownOf(id), n)) + 1
                ELSE Cardinality(To(UnknownOf(id), n))
        BY <1>2, <1>4, <4>1
      <4>3. unmatched'[id] = IF ~Known(model.id) /\ model.id = id
                               THEN unmatched[id] + 1 ELSE unmatched[id]
        BY <1>5, <3>1, <3>2
      <4> QED
        BY <3>1, <4>2, <4>3
    <3> QED
      BY <3>3, <3>4
  <2>12. input' = input
    OBVIOUS
  <2> QED
    BY <1>3, <2>4, <2>5, <2>6, <2>7, <2>8, <2>9, <2>10, <2>11, <2>12 DEF CountsTo
<1> QED
  BY <1>7, <1>8

\* Every model is published in one of the two pools.
LEMMA PoolsAddUp ==
  ASSUME BuildInv
  PROVE  /\ Cardinality(Of({"anthropic", "openai"})) \in Nat
         /\ Cardinality(Of({"custom"})) \in Nat
         /\ Cardinality(Of({"anthropic", "openai"})) + Cardinality(Of({"custom"}))
              = Len(published)
<1>1. PICK n, A, C : n = Len(published) /\ A = Of({"anthropic", "openai"})
                       /\ C = Of({"custom"})
  OBVIOUS
<1>2. published \in Seq(PublishedModel)
  BY DEF BuildInv
<1>3. n \in Nat /\ DOMAIN published = 1..n
  BY <1>1, <1>2
<1>4. ASSUME NEW i \in 1..n PROVE published[i].kind \in Kinds
  <2>1. published[i] \in PublishedModel
    BY <1>2, <1>3
  <2> QED
    BY <2>1 DEF PublishedModel
<1>5. A \cup C = 1..n /\ A \cap C = {}
  BY <1>1, <1>3, <1>4 DEF Of, Kinds
<1>6. IsFiniteSet(1..n) /\ Cardinality(1..n) = n
  BY <1>3, FS_Interval
<1>7. A \in SUBSET (1..n) /\ C \in SUBSET (1..n)
  BY <1>5
<1>8. IsFiniteSet(A) /\ IsFiniteSet(C)
  BY <1>6, <1>7, FS_Subset
<1>9. Cardinality(A) \in Nat /\ Cardinality(C) \in Nat
  BY <1>8, FS_CardinalityType
<1>10. Cardinality(A \cap C) = 0
  BY <1>5, FS_EmptySet
<1>11. Cardinality(A \cup C)
         = Cardinality(A) + Cardinality(C) - Cardinality(A \cap C)
  BY <1>8, FS_Union
<1>12. Cardinality(A) + Cardinality(C) = n
  <2>1. Cardinality(A \cup C) = n
    BY <1>5, <1>6
  <2> QED
    BY <1>3, <1>9, <1>10, <1>11, <2>1
<1> QED
  BY <1>1, <1>9, <1>12

LEMMA InitCounts == Init => CountInv
<1> SUFFICES ASSUME Init PROVE CountInv
  OBVIOUS
<1>1. BuildInv
  BY InitBuild
<1>2. /\ published = <<>> /\ matched = 0 /\ unmatched = [id \in Id |-> 0]
      /\ counts = [upstreamTotal |-> 0, afterExcludes |-> 0, builtin |-> 0,
                   custom |-> 0]
      /\ pc = "models" /\ next = 1
  BY DEF Init
<1>3. CountsTo(1)
  BY <1>1, <1>2, CountsAtFirst
<1>4. 1 <= Len(input.models) + 1
  BY <1>1, PositionsAre
<1>5. counts \in Counts
  BY <1>2 DEF Counts
<1> QED
  BY <1>2, <1>3, <1>4, <1>5 DEF CountInv, Before

LEMMA NextCounts == BuildInv /\ CountInv /\ [Next]_vars => CountInv'
<1> SUFFICES ASSUME BuildInv, CountInv, [Next]_vars PROVE CountInv'
  OBVIOUS
<1> USE DEF Before
<1>1. /\ counts \in Counts
      /\ pc \in Before => next = 1
      /\ pc \in Before \cup {"resolve"} =>
           next <= Len(input.models) + 1 /\ CountsTo(next)
      /\ pc \in {"health", "count", "done"} =>
           /\ CountsTo(Len(input.models) + 1)
           /\ counts.builtin + counts.custom = Len(published)
  BY DEF CountInv
<1>2. PICK k : k = Len(input.models)
  OBVIOUS
<1>3. k \in Nat /\ next \in Nat \ {0}
  BY <1>2, PositionsAre DEF BuildInv
<1>4. PICK n : n = next
  OBVIOUS
<1>5. CASE FetchModels
  <2>1. /\ pc = "models" /\ pc' \in {"prices", "failed"}
        /\ UNCHANGED <<input, prices, next, published, counts, matched, unmatched>>
    BY <1>5 DEF FetchModels
  <2>2. CountsTo(n)'
    BY <1>1, <1>4, <2>1, CountsStay
  <2> QED
    BY <1>1, <1>4, <2>1, <2>2 DEF CountInv
<1>6. CASE LoadPrices
  <2>1. /\ pc = "prices" /\ pc' = "resolve" /\ next = 1
        /\ UNCHANGED <<input, next, published, counts, matched, unmatched>>
    BY <1>1, <1>6 DEF LoadPrices
  <2>3. CountsTo(1) /\ published = <<>>
    BY <1>1, <2>1 DEF BuildInv
  <2>4. /\ counts.upstreamTotal = 0 /\ counts.afterExcludes = 0 /\ matched = 0
        /\ unmatched = [id \in Id |-> 0]
    <3>1. /\ Cardinality(To(Offered, 1)) = 0
          /\ Cardinality(To(Offered \ Unknown, 1)) = 0
          /\ \A id \in Id : Cardinality(To(UnknownOf(id), 1)) = 0
      <4>1. ASSUME NEW S \in SUBSET (1..k) PROVE Cardinality(To(S, 1)) = 0
        <5>1. PassesRightly(k, S, 1)
          BY <1>3, PositionsPassed
        <5> QED
          BY <5>1 DEF PassesRightly
      <4> QED
        BY <1>2, <4>1, PositionsAre
    <3> QED
      BY <2>3, <3>1 DEF CountsTo
  <2>5. CountsTo(1)'
    <3>1. /\ Offered' = Offered /\ (Offered \ Unknown)' \in SUBSET Offered'
          /\ \A id \in Id : UnknownOf(id)' \in SUBSET Offered'
      BY <2>1 DEF Offered, Unknown, UnknownOf
    <3>2. ASSUME NEW S \in SUBSET Offered
          PROVE  To(S, 1) = {} /\ Cardinality(To(S, 1)) = 0
      <4>1. \A i \in S : i \in Int /\ ~(i < 1)
        BY <1>2, PositionsAre
      <4>2. To(S, 1) = {}
        BY <4>1 DEF To
      <4> QED
        BY <4>2, FS_EmptySet
    <3>3. /\ To(Offered', 1) = {} /\ Cardinality(To(Offered', 1)) = 0
          /\ Cardinality(To((Offered \ Unknown)', 1)) = 0
          /\ \A id \in Id : Cardinality(To(UnknownOf(id)', 1)) = 0
      BY <3>1, <3>2
    <3>4. /\ published' = <<>> /\ matched' = 0 /\ unmatched' = [id \in Id |-> 0]
          /\ counts'.upstreamTotal = 0 /\ counts'.afterExcludes = 0
      BY <2>1, <2>3, <2>4
    <3>5. Len(published') = 0 /\ unmatched' \in [Id -> Nat] /\ 1 - 1 = 0
      BY <3>4
    <3> QED
      BY <3>3, <3>4, <3>5 DEF CountsTo
  <2> QED
    BY <1>1, <2>1, <2>5 DEF CountInv
<1>7. CASE SkipModel \/ PublishModel
  <2>1. PICK model : model = input.models[n]
    OBVIOUS
  <2>2. /\ pc = "resolve" /\ pc' = "resolve" /\ n <= k /\ next' = n + 1
        /\ UNCHANGED <<input, prices>>
    BY <1>2, <1>4, <1>7 DEF SkipModel, PublishModel, AtModel
  <2>3. n \in 1..k /\ CountsTo(n) /\ counts \in Counts
    BY <1>1, <1>3, <1>4, <2>2
  <2>4. CASE SkipModel
    <3>1. /\ model.id \in Skipped
          /\ UNCHANGED <<published, matched, unmatched>>
          /\ counts' = [counts EXCEPT !.upstreamTotal = @ + 1]
      BY <1>4, <2>1, <2>4 DEF SkipModel, Current
    <3>2. /\ counts'.upstreamTotal = counts.upstreamTotal + 1
          /\ counts'.afterExcludes = counts.afterExcludes
          /\ counts' \in Counts
      BY <2>3, <3>1 DEF Counts
    <3>3. CountsTo(n + 1)'
      BY <1>2, <1>4, <2>1, <2>2, <2>3, <3>1, <3>2, CountsGrow
    <3> QED
      BY <1>2, <1>3, <1>4, <2>2, <3>2, <3>3 DEF CountInv
  <2>5. CASE PublishModel
    <3>1. /\ model.id \notin Skipped
          /\ counts' = [counts EXCEPT !.upstreamTotal = @ + 1,
                                      !.afterExcludes = @ + 1]
          /\ IF SourceOf(model.id) = "default"
               THEN /\ unmatched' = [unmatched EXCEPT ![model.id] = @ + 1]
                    /\ UNCHANGED matched
               ELSE matched' = matched + 1 /\ UNCHANGED unmatched
      BY <1>4, <2>1, <2>5 DEF PublishModel, Current
    <3>2. \E m : m.model = model /\ published' = Append(published, m)
      <4>1. PICK m : m = [model |-> Current, kind |-> KindOf[Current.owner],
                          source |-> SourceOf(Current.id),
                          shown |-> IF KindOf[Current.owner] = "custom"
                                      THEN CustomModel(Current.id)
                                    ELSE BuiltinModel(Current.id)]
        OBVIOUS
      <4>2. published' = Append(published, m)
        BY <2>5, <4>1 DEF PublishModel
      <4>3. m.model = model
        BY <1>4, <2>1, <4>1 DEF Current
      <4> QED
        BY <4>2, <4>3
    <3>3. /\ counts'.upstreamTotal = counts.upstreamTotal + 1
          /\ counts'.afterExcludes = counts.afterExcludes + 1
          /\ counts' \in Counts
      <4>1. counts' = [counts EXCEPT !.upstreamTotal = @ + 1,
                                     !.afterExcludes = @ + 1]
        BY <3>1
      <4>2. PICK u, a, b, c : /\ u \in Nat /\ a \in Nat /\ b \in Nat /\ c \in Nat
                              /\ counts = [upstreamTotal |-> u, afterExcludes |-> a,
                                           builtin |-> b, custom |-> c]
        BY <2>3 DEF Counts
      <4>3. counts' = [upstreamTotal |-> u + 1, afterExcludes |-> a + 1,
                       builtin |-> b, custom |-> c]
        BY <4>1, <4>2
      <4> QED
        BY <4>2, <4>3 DEF Counts
    <3>4. SourceOf(model.id) = "default" <=> ~Known(model.id)
      <4>1. input.models \in Seq(Model)
        BY DEF BuildInv, Input
      <4>2. model \in Model
        BY <1>2, <2>1, <2>3, <4>1
      <4>3. model.id \in Id
        BY <4>2 DEF Model
      <4> QED
        BY <4>3, DefaultIsUnknown
    <3>5. CountsTo(n + 1)'
      BY <1>2, <1>4, <2>1, <2>2, <2>3, <3>1, <3>2, <3>3, <3>4, CountsGrow
    <3> QED
      BY <1>2, <1>3, <1>4, <2>2, <3>3, <3>5 DEF CountInv
  <2> QED
    BY <1>7, <2>4, <2>5
<1>8. CASE ReportCounts
  <2>1. /\ pc = "resolve" /\ next > k /\ pc' = "health"
        /\ counts' = [counts EXCEPT
             !.builtin = Cardinality(Of({"anthropic", "openai"})),
             !.custom = Cardinality(Of({"custom"}))]
        /\ UNCHANGED <<input, prices, published, matched, unmatched>>
    BY <1>2, <1>8 DEF ReportCounts
  <2>2. n = k + 1 /\ CountsTo(n)
    BY <1>1, <1>2, <1>3, <1>4, <2>1
  <2>3. /\ counts' \in Counts /\ counts'.builtin + counts'.custom = Len(published)
        /\ counts'.upstreamTotal = counts.upstreamTotal
        /\ counts'.afterExcludes = counts.afterExcludes
    BY <1>1, <2>1, PoolsAddUp DEF Counts
  <2>4. CountsTo(n)'
    BY <2>1, <2>2, <2>3, CountsStay
  <2> QED
    BY <1>2, <2>1, <2>2, <2>3, <2>4 DEF CountInv
<1>9. CASE ReadAuthFiles \/ CountCredential \/ ReportHealth
  <2>1. /\ pc \in {"health", "count", "done"} /\ pc' \in {"health", "count", "done"}
        /\ UNCHANGED <<input, prices, published, counts, matched, unmatched>>
    BY <1>9 DEF ReadAuthFiles, CountCredential, ReportHealth
  <2>2. CountsTo(k + 1)'
    BY <1>1, <1>2, <2>1, CountsStay
  <2> QED
    BY <1>1, <1>2, <2>1, <2>2 DEF CountInv
<1>10. CASE UNCHANGED vars
  <2>1. UNCHANGED vars
    BY <1>10
  <2>2. UNCHANGED <<input, pc, prices, next, published, counts, matched, unmatched>>
    BY <2>1 DEF vars
  <2>3. CountsTo(n) => CountsTo(n)'
    BY <2>2, CountsStay
  <2>4. CountsTo(k + 1) => CountsTo(k + 1)'
    BY <2>2, CountsStay
  <2> QED
    BY <1>1, <1>2, <1>4, <2>2, <2>3, <2>4 DEF CountInv
<1> QED
  BY <1>5, <1>6, <1>7, <1>8, <1>9, <1>10 DEF Next

\* The counts of a finished document agree with what it publishes and with the
\* proxy's list, whatever is excluded, repeated or unknown (buildDiscovery).
THEOREM CountsHold == Spec => []CountsAgree
<1>1. BuildInv /\ CountInv => CountsAgree
  <2> SUFFICES ASSUME BuildInv, CountInv, pc \in {"health", "count", "done"}
               PROVE  /\ Len(published) = Cardinality(Offered)
                      /\ \A i \in Offered :
                           published[Place(i)].model = input.models[i]
                      /\ counts.upstreamTotal = Len(input.models)
                      /\ counts.afterExcludes = Cardinality(Offered)
                      /\ counts.builtin + counts.custom = counts.afterExcludes
                      /\ matched = Cardinality(Offered \ Unknown)
                      /\ \A id \in Id :
                           unmatched[id] = Cardinality(
                             {i \in Unknown : input.models[i].id = id})
    BY DEF CountsAgree
  <2>1. PICK k : k = Len(input.models)
    OBVIOUS
  <2>2. k \in Nat /\ (k + 1) - 1 = k
    BY <2>1, PositionsAre
  <2>3. CountsTo(k + 1) /\ counts.builtin + counts.custom = Len(published)
    BY <2>1 DEF CountInv
  <2>4. ASSUME NEW S \in SUBSET (1..k) PROVE To(S, k + 1) = S
    <3>1. PassesRightly(k, S, 1)
      BY <2>2, PositionsPassed
    <3> QED
      BY <3>1 DEF PassesRightly
  <2>5. /\ To(Offered, k + 1) = Offered
        /\ To(Offered \ Unknown, k + 1) = Offered \ Unknown
        /\ \A id \in Id : To(UnknownOf(id), k + 1) = UnknownOf(id)
    BY <2>1, <2>4, PositionsAre
  <2>6. \A id \in Id : unmatched[id] = Cardinality(UnknownOf(id))
    BY <2>3, <2>5 DEF CountsTo
  <2>7. \A id \in Id : unmatched[id] = Cardinality(
          {i \in Unknown : input.models[i].id = id})
    BY <2>6 DEF UnknownOf
  <2> QED
    BY <2>1, <2>2, <2>3, <2>5, <2>7 DEF CountsTo
<1>2. Init => BuildInv /\ CountInv
  BY InitBuild, InitCounts
<1>3. BuildInv /\ CountInv /\ [Next]_vars => (BuildInv /\ CountInv)'
  BY NextBuild, NextCounts
<1> QED
  BY <1>1, <1>2, <1>3, PTL DEF Spec

-----------------------------------------------------------------------------
(* Provider health *)

\* What the loop over the credentials has made of those before number n.
HealthTo(n) ==
  /\ DOMAIN health = {p \in Provider : To(AccountsOf(p), n) # {}}
  /\ \A p \in DOMAIN health :
       LET h == health[p] IN
       /\ h \in ProviderHealth
       /\ h.accounts = Cardinality(To(AccountsOf(p), n))
       /\ h.accounts = h.healthy + h.degraded + h.disabled
       /\ h.healthy = Cardinality(To(Usable(p), n))

HealthInv ==
  /\ pc \in Before \cup {"resolve", "health"} => health = None
  /\ pc = "count" => next <= Len(input.files) + 1 /\ HealthTo(next)
  /\ pc = "done" /\ health # None =>
       /\ HealthTo(Len(input.files) + 1)
       /\ \A p \in DOMAIN health : health[p].reachable <=> health[p].healthy > 0

LEMMA InitHealth == Init => HealthInv
BY DEF Init, HealthInv

\* A step that leaves the credentials' section alone leaves what it says alone.
LEMMA HealthStays ==
  ASSUME UNCHANGED <<input, health>>, NEW n, HealthTo(n)
  PROVE  HealthTo(n)'
<1>1. /\ \A p : AccountsOf(p)' = AccountsOf(p)
      /\ \A p : Usable(p)' = Usable(p)
  BY TablesDecide
<1>2. health' = health
  OBVIOUS
<1> QED
  BY <1>1, <1>2 DEF HealthTo

LEMMA NoAccountsAre ==
  /\ NoAccounts \in ProviderHealth
  /\ NoAccounts.accounts = 0 /\ NoAccounts.healthy = 0
  /\ NoAccounts.degraded = 0 /\ NoAccounts.disabled = 0
BY DEF NoAccounts, ProviderHealth

\* Every credential goes under one heading.
LEMMA CountedOnce ==
  ASSUME NEW h \in ProviderHealth, NEW c \in Credential,
         h.accounts = h.healthy + h.degraded + h.disabled
  PROVE  LET k == Counted(h, c) IN
         /\ k \in ProviderHealth
         /\ k.accounts = h.accounts + 1
         /\ k.accounts = k.healthy + k.degraded + k.disabled
         /\ k.healthy = IF c.disabled \/ c.broken THEN h.healthy
                        ELSE h.healthy + 1
<1>1. /\ h.accounts \in Nat /\ h.healthy \in Nat /\ h.degraded \in Nat
      /\ h.disabled \in Nat
  BY DEF ProviderHealth
<1>2. PICK a, y, d, o :
        /\ a = h.accounts + 1
        /\ y = IF c.disabled \/ c.broken THEN h.healthy ELSE h.healthy + 1
        /\ d = IF ~c.disabled /\ c.broken THEN h.degraded + 1 ELSE h.degraded
        /\ o = IF c.disabled THEN h.disabled + 1 ELSE h.disabled
  OBVIOUS
<1>3. a \in Nat /\ y \in Nat /\ d \in Nat /\ o \in Nat
  BY <1>1, <1>2
<1>4. PICK k : k = Counted(h, c)
  OBVIOUS
<1>5. k = [h EXCEPT !.accounts = a, !.disabled = o, !.degraded = d,
                    !.healthy = y]
  BY <1>2, <1>4 DEF Counted
<1>6. /\ k \in ProviderHealth
      /\ k.accounts = a /\ k.disabled = o /\ k.degraded = d /\ k.healthy = y
  BY <1>3, <1>5 DEF ProviderHealth
<1>7. a = y + d + o
  BY <1>1, <1>2
<1> QED
  BY <1>2, <1>4, <1>6, <1>7

\* One round of the loop over the credentials.
LEMMA HealthGrows ==
  ASSUME BuildInv, UNCHANGED input, NEW n, n \in 1..Len(input.files),
         HealthTo(n), NEW c, c = input.files[n],
         NEW before, before = IF c.provider \in DOMAIN health
                                THEN health[c.provider] ELSE NoAccounts,
         health' = IF c.provider = None THEN health
                   ELSE [p \in DOMAIN health \cup {c.provider} |->
                           IF p = c.provider THEN Counted(before, c)
                           ELSE health[p]]
  PROVE  HealthTo(n + 1)'
<1>1. PICK k : k = Len(input.files)
  OBVIOUS
<1>2. /\ k \in Nat /\ n \in 1..k /\ n \in Nat /\ DOMAIN input.files = 1..k
      /\ \A p : AccountsOf(p) \in SUBSET (1..k)
      /\ \A p : Usable(p) \in SUBSET (1..k)
  BY <1>1, PositionsAre
<1>3. c \in Credential
  <2>1. input.files \in Seq(Credential)
    BY DEF BuildInv, Input
  <2> QED
    BY <1>1, <1>2, <2>1
<1>4. ASSUME NEW S \in SUBSET (1..k)
      PROVE  /\ IsFiniteSet(To(S, n)) /\ Cardinality(To(S, n)) \in Nat
             /\ To(S, n + 1) = IF n \in S THEN To(S, n) \cup {n} ELSE To(S, n)
             /\ Cardinality(To(S, n + 1)) = IF n \in S
                  THEN Cardinality(To(S, n)) + 1 ELSE Cardinality(To(S, n))
  <2>1. PassesRightly(k, S, n)
    BY <1>2, <1>4, PositionsPassed
  <2> QED
    BY <2>1 DEF PassesRightly
<1>5. ASSUME NEW p
      PROVE  /\ n \in AccountsOf(p) <=> c.provider = p
             /\ n \in Usable(p) <=> c.provider = p /\ ~c.disabled /\ ~c.broken
  BY <1>2 DEF AccountsOf, Usable
<1>6. /\ \A p : AccountsOf(p)' = AccountsOf(p)
      /\ \A p : Usable(p)' = Usable(p)
  BY TablesDecide
<1>7. ASSUME NEW p, p # c.provider
      PROVE  /\ To(AccountsOf(p), n + 1) = To(AccountsOf(p), n)
             /\ To(Usable(p), n + 1) = To(Usable(p), n)
  BY <1>2, <1>4, <1>5, <1>7
<1>8. /\ DOMAIN health = {p \in Provider : To(AccountsOf(p), n) # {}}
      /\ \A p \in DOMAIN health :
           /\ health[p] \in ProviderHealth
           /\ health[p].accounts = Cardinality(To(AccountsOf(p), n))
           /\ health[p].accounts = health[p].healthy + health[p].degraded
                                     + health[p].disabled
           /\ health[p].healthy = Cardinality(To(Usable(p), n))
  BY DEF HealthTo
<1>9. CASE c.provider = None
  <2>1. None \notin Provider
    BY DiscoveryAssumption
  <2>2. \A p \in Provider : p # c.provider
    BY <1>9, <2>1
  <2>3. health' = health
    BY <1>9
  <2>4. DOMAIN health = {p \in Provider : To(AccountsOf(p), n + 1) # {}}
    BY <1>7, <1>8, <2>2
  <2>5. \A p \in DOMAIN health : p # c.provider
    BY <1>8, <2>2
  <2> QED
    BY <1>6, <1>7, <1>8, <2>3, <2>4, <2>5 DEF HealthTo
<1>10. CASE c.provider # None
  <2>1. PICK q : q = c.provider
    OBVIOUS
  <2>2. q \in Provider
    BY <1>3, <1>10, <2>1 DEF Credential
  <2>3. health' = [p \in DOMAIN health \cup {q} |->
                     IF p = q THEN Counted(before, c) ELSE health[p]]
    BY <1>10, <2>1
  <2>4. /\ To(AccountsOf(q), n + 1) = To(AccountsOf(q), n) \cup {n}
        /\ Cardinality(To(AccountsOf(q), n + 1))
             = Cardinality(To(AccountsOf(q), n)) + 1
        /\ Cardinality(To(Usable(q), n + 1)) =
             IF c.disabled \/ c.broken THEN Cardinality(To(Usable(q), n))
             ELSE Cardinality(To(Usable(q), n)) + 1
    BY <1>2, <1>4, <1>5, <2>1
  <2>5. /\ before \in ProviderHealth
        /\ before.accounts = Cardinality(To(AccountsOf(q), n))
        /\ before.accounts = before.healthy + before.degraded + before.disabled
        /\ before.healthy = Cardinality(To(Usable(q), n))
    <3>1. CASE q \in DOMAIN health
      BY <1>8, <2>1, <3>1
    <3>2. CASE q \notin DOMAIN health
      <4>1. To(AccountsOf(q), n) = {}
        BY <1>8, <2>2, <3>2
      <4>2. To(Usable(q), n) = {}
        BY <4>1 DEF To, Usable
      <4>3. before = NoAccounts
        BY <2>1, <3>2
      <4>4. /\ before.accounts = 0 /\ before.healthy = 0
            /\ before.degraded = 0 /\ before.disabled = 0
            /\ before \in ProviderHealth
        BY <4>3, NoAccountsAre
      <4>5. /\ Cardinality(To(AccountsOf(q), n)) = 0
            /\ Cardinality(To(Usable(q), n)) = 0
        BY <4>1, <4>2, FS_EmptySet
      <4> QED
        BY <4>4, <4>5
    <3> QED
      BY <3>1, <3>2
  <2>6. /\ DOMAIN health' = DOMAIN health \cup {q}
        /\ health'[q] = Counted(before, c)
        /\ \A p \in DOMAIN health \ {q} : health'[p] = health[p]
    BY <2>3
  <2>7. DOMAIN health' = {p \in Provider : To(AccountsOf(p), n + 1) # {}}
    <3>1. To(AccountsOf(q), n + 1) # {}
      BY <2>4
    <3> QED
      BY <1>7, <1>8, <2>1, <2>2, <2>6, <3>1
  <2>8. /\ health'[q] \in ProviderHealth
        /\ health'[q].accounts = Cardinality(To(AccountsOf(q), n + 1))
        /\ health'[q].accounts = health'[q].healthy + health'[q].degraded
                                   + health'[q].disabled
        /\ health'[q].healthy = Cardinality(To(Usable(q), n + 1))
    <3>1. PICK k2 : k2 = Counted(before, c)
      OBVIOUS
    <3>2. /\ k2 \in ProviderHealth
          /\ k2.accounts = before.accounts + 1
          /\ k2.accounts = k2.healthy + k2.degraded + k2.disabled
          /\ k2.healthy = IF c.disabled \/ c.broken THEN before.healthy
                          ELSE before.healthy + 1
      BY <1>3, <2>5, <3>1, CountedOnce
    <3>3. health'[q] = k2
      BY <2>6, <3>1
    <3>4. /\ k2.accounts = Cardinality(To(AccountsOf(q), n + 1))
          /\ k2.healthy = Cardinality(To(Usable(q), n + 1))
      BY <2>4, <2>5, <3>2
    <3> QED
      BY <3>2, <3>3, <3>4
  <2>9. ASSUME NEW p \in DOMAIN health \ {q}
        PROVE  /\ health'[p] \in ProviderHealth
               /\ health'[p].accounts = Cardinality(To(AccountsOf(p), n + 1))
               /\ health'[p].accounts = health'[p].healthy + health'[p].degraded
                                          + health'[p].disabled
               /\ health'[p].healthy = Cardinality(To(Usable(p), n + 1))
    <3>1. /\ To(AccountsOf(p), n + 1) = To(AccountsOf(p), n)
          /\ To(Usable(p), n + 1) = To(Usable(p), n)
      BY <1>7, <2>1
    <3> QED
      BY <1>8, <2>6, <3>1
  <2> QED
    BY <1>6, <2>6, <2>7, <2>8, <2>9 DEF HealthTo
<1> QED
  BY <1>9, <1>10

LEMMA NextHealth == BuildInv /\ HealthInv /\ [Next]_vars => HealthInv'
<1> SUFFICES ASSUME BuildInv, HealthInv, [Next]_vars PROVE HealthInv'
  OBVIOUS
<1> USE DEF Before
<1>1. /\ pc \in Before \cup {"resolve", "health"} => health = None
      /\ pc = "count" => next <= Len(input.files) + 1 /\ HealthTo(next)
      /\ pc = "done" /\ health # None =>
           /\ HealthTo(Len(input.files) + 1)
           /\ \A p \in DOMAIN health :
                health[p].reachable <=> health[p].healthy > 0
  BY DEF HealthInv
<1>2. PICK k, n : k = Len(input.files) /\ n = next
  OBVIOUS
<1>3. k \in Nat /\ n \in Nat \ {0}
  BY <1>2, PositionsAre DEF BuildInv
<1>4. CASE FetchModels \/ LoadPrices \/ SkipModel \/ PublishModel \/ ReportCounts
  <2>1. /\ pc \in Before \cup {"resolve", "health"}
        /\ pc' \in Before \cup {"resolve", "health"} /\ UNCHANGED health
    BY <1>4 DEF FetchModels, LoadPrices, SkipModel, PublishModel, AtModel,
      ReportCounts
  <2> QED
    BY <1>1, <2>1 DEF HealthInv
<1>5. CASE ReadAuthFiles
  <2>1. CASE pc' = "done" /\ UNCHANGED <<next, health>>
    BY <1>1, <1>5, <2>1 DEF ReadAuthFiles, HealthInv
  <2>2. CASE pc' = "count" /\ next' = 1 /\ health' = [p \in {} |-> NoAccounts]
    <3>1. /\ \A p : AccountsOf(p)' = AccountsOf(p)
          /\ \A p : AccountsOf(p) \in SUBSET (1..k) /\ UNCHANGED input
      BY <1>2, <1>5, TablesDecide, PositionsAre DEF ReadAuthFiles
    <3>2. ASSUME NEW p PROVE To(AccountsOf(p), 1) = {}
      <4>1. PassesRightly(k, AccountsOf(p), 1)
        BY <1>3, <3>1, PositionsPassed
      <4> QED
        BY <4>1 DEF PassesRightly
    <3>3. DOMAIN health' = {}
      BY <2>2
    <3>4. HealthTo(1)'
      BY <3>1, <3>2, <3>3 DEF HealthTo
    <3>5. 1 <= k + 1
      BY <1>3
    <3> QED
      BY <1>2, <2>2, <3>1, <3>4, <3>5 DEF HealthInv
  <2> QED
    BY <1>5, <2>1, <2>2 DEF ReadAuthFiles
<1>6. CASE CountCredential
  <2>1. PICK c : c = input.files[n]
    OBVIOUS
  <2>2. PICK before : before = IF c.provider \in DOMAIN health
                                 THEN health[c.provider] ELSE NoAccounts
    OBVIOUS
  <2>3. /\ pc = "count" /\ n <= k /\ next' = n + 1
        /\ UNCHANGED <<input, pc>>
        /\ health' = IF c.provider = None THEN health
                     ELSE [p \in DOMAIN health \cup {c.provider} |->
                             IF p = c.provider THEN Counted(before, c)
                             ELSE health[p]]
    BY <1>2, <1>6, <2>1, <2>2 DEF CountCredential
  <2>4. HealthTo(n) /\ n \in 1..Len(input.files)
    BY <1>1, <1>2, <1>3, <2>3
  <2>5. HealthTo(n + 1)'
    BY <2>1, <2>2, <2>3, <2>4, HealthGrows
  <2>6. n + 1 <= k + 1
    BY <1>3, <2>3
  <2> QED
    BY <1>2, <2>3, <2>5, <2>6 DEF HealthInv
<1>7. CASE ReportHealth
  <2>1. /\ pc = "count" /\ next > k /\ pc' = "done" /\ UNCHANGED input
        /\ health' = [p \in DOMAIN health |->
             [health[p] EXCEPT !.reachable = health[p].healthy > 0]]
    BY <1>2, <1>7 DEF ReportHealth
  <2>2. HealthTo(k + 1)
    <3>1. n = k + 1
      BY <1>1, <1>2, <1>3, <2>1
    <3> QED
      BY <1>1, <1>2, <2>1, <3>1
  <2>3. ASSUME NEW p \in DOMAIN health
        PROVE  /\ health'[p] \in ProviderHealth
               /\ health'[p].accounts = health[p].accounts
               /\ health'[p].healthy = health[p].healthy
               /\ health'[p].degraded = health[p].degraded
               /\ health'[p].disabled = health[p].disabled
               /\ health'[p].reachable <=> health'[p].healthy > 0
    <3>1. health[p] \in ProviderHealth
      BY <2>2 DEF HealthTo
    <3>2. PICK h, m : h = health[p] /\ m = health'[p]
      OBVIOUS
    <3>3. m = [h EXCEPT !.reachable = h.healthy > 0]
      BY <2>1, <3>2
    <3>4. h \in ProviderHealth
      BY <3>1, <3>2
    <3>5. /\ m \in ProviderHealth
          /\ m.accounts = h.accounts /\ m.healthy = h.healthy
          /\ m.degraded = h.degraded /\ m.disabled = h.disabled
          /\ m.reachable <=> h.healthy > 0
      <4>1. CASE h.healthy > 0
        <5>1. m = [h EXCEPT !.reachable = TRUE]
          BY <3>3, <4>1
        <5> QED
          BY <3>4, <4>1, <5>1 DEF ProviderHealth
      <4>2. CASE ~(h.healthy > 0)
        <5>1. m = [h EXCEPT !.reachable = FALSE]
          <6>1. (h.healthy > 0) = FALSE
            BY <4>2
          <6> QED
            BY <3>3, <6>1, Zenon
        <5> QED
          BY <3>4, <4>2, <5>1 DEF ProviderHealth
      <4> QED
        BY <4>1, <4>2
    <3> QED
      BY <3>2, <3>5
  <2>4. DOMAIN health' = DOMAIN health
    BY <2>1
  <2>5. /\ \A p : AccountsOf(p)' = AccountsOf(p)
        /\ \A p : Usable(p)' = Usable(p)
    BY <2>1, TablesDecide
  <2>6. HealthTo(k + 1)'
    BY <2>2, <2>3, <2>4, <2>5 DEF HealthTo
  <2> QED
    BY <1>2, <2>1, <2>3, <2>4, <2>6 DEF HealthInv
<1>8. CASE UNCHANGED vars
  <2>1. UNCHANGED <<input, pc, next, health>>
    BY <1>8 DEF vars
  <2>2. HealthTo(n) => HealthTo(n)'
    BY <2>1, HealthStays
  <2>3. HealthTo(k + 1) => HealthTo(k + 1)'
    BY <2>1, HealthStays
  <2> QED
    BY <1>1, <1>2, <2>1, <2>2, <2>3 DEF HealthInv
<1> QED
  BY <1>4, <1>5, <1>6, <1>7, <1>8 DEF Next

\* Every credential of a known provider is counted once, under one heading, and
\* a provider is reachable when one of its credentials can serve a request
\* (providerHealth).
THEOREM HealthHolds == Spec => []HealthAddsUp
<1>1. BuildInv /\ HealthInv => HealthAddsUp
  <2> SUFFICES ASSUME BuildInv, HealthInv, pc = "done", health # None
               PROVE  /\ DOMAIN health = {p \in Provider : AccountsOf(p) # {}}
                      /\ \A p \in DOMAIN health :
                           LET h == health[p] IN
                           /\ h.accounts = Cardinality(AccountsOf(p))
                           /\ h.accounts = h.healthy + h.degraded + h.disabled
                           /\ h.reachable <=> Usable(p) # {}
    BY DEF HealthAddsUp
  <2>1. PICK k : k = Len(input.files)
    OBVIOUS
  <2>2. /\ k \in Nat
        /\ \A p : AccountsOf(p) \in SUBSET (1..k)
        /\ \A p : Usable(p) \in SUBSET (1..k)
    BY <2>1, PositionsAre
  <2>3. /\ HealthTo(k + 1)
        /\ \A p \in DOMAIN health : health[p].reachable <=> health[p].healthy > 0
    BY <2>1 DEF HealthInv
  <2>4. ASSUME NEW S \in SUBSET (1..k)
        PROVE  To(S, k + 1) = S /\ IsFiniteSet(S) /\ Cardinality(S) \in Nat
    <3>1. PassesRightly(k, S, 1)
      BY <2>2, PositionsPassed
    <3> QED
      BY <3>1 DEF PassesRightly
  <2>5. ASSUME NEW p
        PROVE  To(AccountsOf(p), k + 1) = AccountsOf(p)
    BY <2>2, <2>4
  <2>6. DOMAIN health = {p \in Provider : AccountsOf(p) # {}}
    BY <2>3, <2>5 DEF HealthTo
  <2>7. ASSUME NEW p \in DOMAIN health
        PROVE  /\ health[p].accounts = Cardinality(AccountsOf(p))
               /\ health[p].accounts = health[p].healthy + health[p].degraded
                                         + health[p].disabled
               /\ health[p].reachable <=> Usable(p) # {}
    <3>1. PICK U : U = Usable(p)
      OBVIOUS
    <3>2. IsFiniteSet(U) /\ Cardinality(U) \in Nat /\ To(U, k + 1) = U
      BY <2>2, <2>4, <3>1
    <3>3. Cardinality(U) = 0 <=> U = {}
      BY <3>2, FS_EmptySet
    <3>4. health[p].healthy = Cardinality(U)
      BY <2>3, <3>1, <3>2 DEF HealthTo
    <3>5. health[p].reachable <=> Cardinality(U) > 0
      BY <2>3, <3>4
    <3>6. health[p].reachable <=> U # {}
      BY <3>2, <3>3, <3>5
    <3>7. health[p].accounts = Cardinality(AccountsOf(p))
      BY <2>3, <2>5 DEF HealthTo
    <3>8. health[p].accounts = health[p].healthy + health[p].degraded
                                 + health[p].disabled
      BY <2>3 DEF HealthTo
    <3> QED
      BY <3>1, <3>6, <3>7, <3>8
  <2> QED
    BY <2>6, <2>7
<1>2. Init => BuildInv /\ HealthInv
  BY InitBuild, InitHealth
<1>3. BuildInv /\ HealthInv /\ [Next]_vars => (BuildInv /\ HealthInv)'
  BY NextBuild, NextHealth
<1> QED
  BY <1>1, <1>2, <1>3, PTL DEF Spec

\* The types are kept: in particular no field of a published model is left
\* without a value.
THEOREM TypesHold == Spec => []TypeOK
<1>1. BuildInv /\ CountInv /\ HealthInv => TypeOK
  <2> SUFFICES ASSUME BuildInv, CountInv, HealthInv PROVE TypeOK
    OBVIOUS
  <2>1. /\ input \in Input /\ prices \in [Id -> {None} \cup Row]
        /\ pc \in {"models", "prices", "resolve", "health", "count", "failed", "done"}
        /\ next \in Nat \ {0}
    BY DEF BuildInv, Before, After
  <2>2. /\ pc = "resolve" => next <= Len(input.models) + 1
        /\ pc = "count" => next <= Len(input.files) + 1
        /\ counts \in Counts
    BY DEF CountInv, HealthInv
  <2>3. ASSUME NEW i \in DOMAIN published
        PROVE  /\ published[i].model \in Model /\ published[i].source \in Source
               /\ \A f \in DOMAIN published[i].shown :
                    published[i].shown[f] \in Value \ {Unset}
    <3>1. PICK m : m = published[i]
      OBVIOUS
    <3>2. m \in PublishedModel
      BY <3>1 DEF BuildInv
    <3>3. m.model \in Model /\ m.source \in Source /\ m.shown \in Shown
      BY <3>2 DEF PublishedModel
    <3> QED
      BY <3>1, <3>3 DEF Shown
  <2>4. matched \in Nat /\ unmatched \in [Id -> Nat]
    <3>1. \E n \in Nat : CountsTo(n)
      <4>1. Len(input.models) + 1 \in Nat /\ next \in Nat
        BY PositionsAre DEF BuildInv
      <4>2. CountsTo(next) \/ CountsTo(Len(input.models) + 1)
        BY DEF CountInv, BuildInv, Before, After
      <4> QED
        BY <4>1, <4>2
    <3>2. PICK n \in Nat : CountsTo(n)
      BY <3>1
    <3>3. PICK k, S : k = Len(input.models) /\ S = Offered \ Unknown
      OBVIOUS
    <3>4. PassesRightly(k, S, n)
      BY <3>3, PositionsAre, PositionsPassed
    <3> QED
      BY <3>2, <3>3, <3>4 DEF CountsTo, PassesRightly
  <2>5. health = None \/ \A p \in DOMAIN health : health[p] \in ProviderHealth
    <3>1. health = None \/ \E n : HealthTo(n)
      BY DEF HealthInv, BuildInv, Before, After
    <3> QED
      BY <3>1 DEF HealthTo
  <2> QED
    BY <2>1, <2>2, <2>3, <2>4, <2>5 DEF TypeOK
<1>2. Init => BuildInv /\ CountInv /\ HealthInv
  BY InitBuild, InitCounts, InitHealth
<1>3. BuildInv /\ CountInv /\ HealthInv /\ [Next]_vars
        => (BuildInv /\ CountInv /\ HealthInv)'
  BY NextBuild, NextCounts, NextHealth
<1> QED
  BY <1>1, <1>2, <1>3, PTL DEF Spec
=============================================================================
