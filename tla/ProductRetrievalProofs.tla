----------------------- MODULE ProductRetrievalProofs -----------------------
(***************************************************************************)
(* One product search of any plan, over a collection that changes in any   *)
(* way while it is made: nothing is searched for that was not said, every  *)
(* product that is compared is shown, and every product shown meets the    *)
(* conditions.                                                             *)
(***************************************************************************)
EXTENDS ProductRetrieval, PlanProofs

-----------------------------------------------------------------------------
(***************************************************************************)
(* Nothing is searched for that was not said                               *)
(***************************************************************************)

\* A condition of the compiled plan was said or is recalled as it was.
LEMMA ConditionSaid ==
  ASSUME NEW c, NEW source, Sound(c, source), NEW p \in AllPredicates(c.plan)
  PROVE  SaidOrRemembered(p)
<1>1. PICK q \in AllPredicates(source) : Traced(p, q) /\ HasEvidence(q, "predicate")
  BY DEF Sound
<1>2. PredicateRecalled(p)
  BY DEF Sound, MemoryHolds
<1>3. CASE p.current
  BY <1>3 DEF SaidOrRemembered
<1>4. CASE ~ p.current
  <2>1. RecalledAs(p.refs, "predicate")
    BY <1>1, <1>4 DEF Traced, HasEvidence, RecalledAs
  <2>2. PICK r \in p.refs : r \in DOMAIN Recall /\ Recall[r].kind = "predicate"
    BY <2>1 DEF RecalledAs
  <2>3. SamePredicate(p, Recall[r])
    BY <1>2, <1>4, <2>2 DEF PredicateRecalled, Remembered
  <2>4. QED
    BY <2>2, <2>3 DEF SaidOrRemembered
<1>5. QED
  BY <1>3, <1>4

\* A number of a condition is spoken, recalled, or of a product shown.
LEMMA NumberSaid ==
  ASSUME NEW c, NEW source, WellFormed(source), Sound(c, source), request.plan = source,
         NEW p \in AllPredicates(c.plan), p.field \in NumericFields
  PROVE  NumberFounded(p)
<1>1. NumberHolds(c.plan, p, "predicate")
  BY DEF Sound, NumbersHold
<1>2. c.plan.context = request.plan.context
  BY DEF Sound, PlanKeys
<1>3. ToSet(p.values) \cap Texts = {}
  BY DEF Sound, TypesHold
<1>4. p.values # <<>>
  <2>1. PICK x \in Expressions(c.plan) : p \in PredicatesOf(x)
    BY DEF AllPredicates
  <2>2. Opt(x, 7)
    BY DEF Sound
  <2>3. x # NoExpr
    BY <2>1, NothingSaid
  <2>4. IsPredicate(p)
    BY <2>1, <2>2, <2>3, PredicatesTyped DEF Opt
  <2>5. QED
    BY <2>4 DEF IsPredicate
<1> DEFINE recallable == RecalledAs(p.refs, "predicate")
           recalled == recallable /\ \E r \in p.refs :
                         Recall[r].field = p.field /\ ToSet(Recall[r].values) = ToSet(p.values)
           prov == IF p.prov # Absent THEN p.prov
                   ELSE IF recallable THEN "memory"
                   ELSE IF p.literal THEN "current_message" ELSE Absent
<1>5. \/ prov = "current_message" /\ p.literal /\ p.current
      \/ prov = "memory" /\ recalled
      \/ /\ prov = "catalog_attribute"
         /\ p.source \in c.plan.context \cap Loaded
         /\ p.values = <<Products[p.source][p.field]>>
  BY <1>1, <1>3, <1>4 DEF NumberHolds
<1> HIDE DEF prov
<1>6. CASE p.literal /\ p.current
  BY <1>6 DEF NumberFounded
<1>7. CASE recalled
  <2>1. PICK r \in p.refs : Recall[r].field = p.field /\ ToSet(Recall[r].values) = ToSet(p.values)
    BY <1>7
  <2>2. r \in DOMAIN Recall /\ Recall[r].kind = "predicate"
    BY <1>7, <2>1 DEF RecalledAs
  <2>3. QED
    BY <2>1, <2>2 DEF NumberFounded
<1>8. CASE p.source \in c.plan.context \cap Loaded /\ p.values = <<Products[p.source][p.field]>>
  BY <1>2, <1>8 DEF NumberFounded
<1>9. QED
  BY <1>5, <1>6, <1>7, <1>8

\* An entity that is not of the message is recalled, and is now what it was.
LEMMA EntitySaid ==
  ASSUME NEW c, NEW source, Sound(c, source), NEW e \in ToSet(SelectedOf(c.plan)), ~ e.current
  PROVE  \E r \in DOMAIN Recall :
           /\ Recall[r].kind = "entity"
           /\ \/ /\ c.res[e.id].product # Absent /\ c.res[e.id].product = Recall[r].product
              \/ /\ c.res[e.id].status = "constraint_entity"
                 /\ c.res[e.id].field = Recall[r].field
                 /\ Same(c.res[e.id].value, Recall[r].value)
<1>1. c.plan.entities \in Seq(ToSet(c.plan.entities))
  BY DEF Sound
<1>2. e \in ToSet(c.plan.entities)
  BY <1>1, SelectedFacts
<1>3. EntityHasEvidence(e, c.res)
  BY <1>2 DEF Sound, MemoryHolds
<1>4. AnchorMatches(e, ResolutionOf(e, c.res))
  BY <1>3 DEF EntityHasEvidence
<1>5. e.id \in DOMAIN c.res
  BY DEF Sound, Ids
<1>6. AnchorMatches(e, c.res[e.id])
  BY <1>4, <1>5 DEF ResolutionOf
<1> DEFINE res == c.res[e.id]
<1> HIDE DEF res
<1>7. PICK r \in Remembered(e.refs) :
         /\ Recall[r].kind = "entity"
         /\ \/ res.product # Absent /\ res.product = Recall[r].product
            \/ /\ res.status = "constraint_entity" /\ res.field = Recall[r].field
               /\ Same(res.value, Recall[r].value)
  BY <1>6 DEF AnchorMatches, res
<1>8. r \in DOMAIN Recall
  BY DEF Remembered
<1>9. QED
  BY <1>7, <1>8 DEF res

\* So is the condition an entity stands for.
LEMMA StandInSaid ==
  ASSUME NEW c, NEW source, Sound(c, source), NEW e \in ToSet(SelectedOf(c.plan)),
         NEW p, StandsFor(p, e, c.res[e.id])
  PROVE  SaidOrRemembered(p) /\ p.field \notin NumericFields
<1> DEFINE res == c.res[e.id]
<1>1. IsResolution(res)
  BY DEF Sound, Ids
<1>2. p.field \notin NumericFields
  <2>1. res.status = "constraint_entity" => res.field \in {"model_family", "brand", "category_id"}
    BY <1>1 DEF IsResolution
  <2> HIDE DEF res
  <2>2. p.field = "product_id" \/ p.field \in {"model_family", "brand", "category_id"}
    BY <2>1 DEF StandsFor, res
  <2>3. QED
    BY <2>2 DEF NumericFields
<1>3. CASE e.current
  BY <1>2, <1>3 DEF StandsFor, SaidOrRemembered
<1>4. CASE ~ e.current
  <2>1. PICK r \in DOMAIN Recall :
           /\ Recall[r].kind = "entity"
           /\ \/ /\ res.product # Absent /\ res.product = Recall[r].product
              \/ /\ res.status = "constraint_entity" /\ res.field = Recall[r].field
                 /\ Same(res.value, Recall[r].value)
    BY <1>4, EntitySaid
  <2>2. p.op = "eq"
        /\ \/ res.product # Absent /\ p.field = "product_id" /\ p.values = <<res.product>>
           \/ /\ res.product = Absent /\ res.status = "constraint_entity"
              /\ p.field = res.field /\ p.values = <<res.value>>
    BY DEF StandsFor
  <2>3. res.product # Absent => res.status = "resolved"
    BY <1>1 DEF IsResolution
  <2> HIDE DEF res
  <2>4. CASE res.product # Absent
    <3>1. res.product = Recall[r].product
      BY <2>1, <2>3, <2>4
    <3>2. p.field = "product_id" /\ p.values = <<Recall[r].product>>
      BY <2>2, <2>4, <3>1
    <3>3. QED
      BY <1>2, <2>1, <2>2, <3>2 DEF SaidOrRemembered
  <2>5. CASE res.product = Absent
    <3>1. res.field = Recall[r].field /\ Same(res.value, Recall[r].value)
      BY <2>1, <2>5
    <3>2. p.field = Recall[r].field /\ p.values = <<res.value>>
      BY <2>2, <2>5, <3>1
    <3>3. ToSet(p.values) = {res.value}
      BY <3>2, SingleFacts
    <3>4. QED
      BY <1>2, <2>1, <2>2, <3>1, <3>2, <3>3 DEF SaidOrRemembered
  <2>6. QED
    BY <2>4, <2>5
<1>5. QED
  BY <1>3, <1>4

\* The product looked up is what an entity was found to be.
LEMMA ProductSaid ==
  ASSUME NEW c, NEW source, WellFormed(source), Sound(c, source), NEW a \in ToSet(c.args),
         a.product_id # Absent
  PROVE  \/ \E e \in ToSet(SelectedOf(source)) :
              /\ e.current /\ e.id \in DOMAIN c.res
              /\ a.product_id \in {e.raw, c.res[e.id].product}
         \/ \E r \in DOMAIN Recall :
              Recall[r].kind = "entity" /\ Recall[r].product = a.product_id
<1>1. \E z \in ToSet(SelectedOf(c.plan)) :
         \/ a.product_id = c.res[z.id].product
         \/ /\ a.product_id = z.raw
            /\ c.res[z.id].product = Absent /\ c.res[z.id].status # "constraint_entity"
  BY ArgumentsSay
<1>2. PICK e \in ToSet(SelectedOf(c.plan)) :
         \/ a.product_id = c.res[e.id].product
         \/ /\ a.product_id = e.raw
            /\ c.res[e.id].product = Absent /\ c.res[e.id].status # "constraint_entity"
  BY <1>1
<1> DEFINE res == c.res[e.id]
<1>3. e.id \in DOMAIN c.res /\ IsResolution(res)
  BY DEF Sound, Ids
<1>4. CASE e.current
  <2>1. e \in ToSet(c.plan.entities) /\ IsSelected(e)
    <3>1. c.plan.entities \in Seq(ToSet(c.plan.entities))
      BY DEF Sound
    <3>2. QED
      BY <3>1, SelectedFacts
  <2>2. e \in ToSet(source.entities)
    BY <2>1 DEF Sound
  <2>3. e \in ToSet(SelectedOf(source))
    <3>1. source.entities \in Seq(ToSet(source.entities))
      BY WellFormedFacts
    <3>2. QED
      BY <2>1, <2>2, <3>1, SelectedFacts
  <2>4. a.product_id \in {e.raw, c.res[e.id].product}
    BY <1>2
  <2>5. QED
    BY <1>3, <1>4, <2>3, <2>4
<1>5. CASE ~ e.current
  <2>1. PICK r \in DOMAIN Recall :
           /\ Recall[r].kind = "entity"
           /\ \/ /\ res.product # Absent /\ res.product = Recall[r].product
              \/ /\ res.status = "constraint_entity" /\ res.field = Recall[r].field
                 /\ Same(res.value, Recall[r].value)
    BY <1>5, EntitySaid
  <2>2. \/ a.product_id = res.product
        \/ res.product = Absent /\ res.status # "constraint_entity"
    BY <1>2
  <2>3. res.product # Absent => res.status = "resolved"
    BY <1>3 DEF IsResolution
  <2> HIDE DEF res
  <2>4. a.product_id = Recall[r].product
    BY <2>1, <2>2, <2>3
  <2>5. QED
    BY <2>1, <2>4
<1>6. QED
  BY <1>4, <1>5

LEMMA GroundedSearch ==
  ASSUME NEW c, NEW source, WellFormed(source), Sound(c, source), compiled = c,
         request.plan = source
  PROVE  OnlyGrounded
<1>1. ASSUME NEW a \in ToSet(c.args), NEW p \in PredicatesOf(a.filter)
      PROVE  SaidOrRemembered(p) /\ (p.field \in NumericFields => NumberFounded(p))
  <2>1. \/ p \in AllPredicates(c.plan)
        \/ \E e \in ToSet(SelectedOf(c.plan)) : StandsFor(p, e, c.res[e.id])
    BY <1>1, ArgumentsSay
  <2>2. CASE p \in AllPredicates(c.plan)
    BY <2>2, ConditionSaid, NumberSaid
  <2>3. CASE \E e \in ToSet(SelectedOf(c.plan)) : StandsFor(p, e, c.res[e.id])
    BY <2>3, StandInSaid
  <2>4. QED
    BY <2>1, <2>2, <2>3
<1>2. ASSUME NEW a \in ToSet(c.args), a.product_id # Absent
      PROVE  \/ \E e \in ToSet(SelectedOf(source)) :
                  /\ e.current /\ e.id \in DOMAIN c.res
                  /\ a.product_id \in {e.raw, c.res[e.id].product}
             \/ \E r \in DOMAIN Recall :
                  Recall[r].kind = "entity" /\ Recall[r].product = a.product_id
  BY <1>2, ProductSaid
<1>3. QED
  BY <1>1, <1>2 DEF OnlyGrounded

-----------------------------------------------------------------------------
(***************************************************************************)
(* The plan searched for is the one proposed, compiled                     *)
(***************************************************************************)

Requests == [kind : {"plan"}, plan : Plans] \cup [kind : {"flat"}, args : FlatArguments]

FlatCompilation == Compilation(NoExpr, <<>>, "run", "none", <<Canonicalize(request.args)>>)

\* The inductive invariant: whatever is searched for is a compilation of the
\* plan, for some products found for its entities by similarity.
Prepared ==
  /\ request \in Requests
  /\ IsPlan => compiled = NotCompiled \/ \E o : compiled = Compile(request.plan, o)
  /\ ~ IsPlan => compiled \in {NotCompiled, FlatCompilation} /\ pc # "resolve"

LEMMA RequestFacts ==
  ASSUME request \in Requests
  PROVE  /\ IsPlan => request.plan \in Plans /\ WellFormed(request.plan)
         /\ ~ IsPlan => request.args \in FlatArguments /\ ValidArguments(request.args)
<1>1. CASE request \in [kind : {"plan"}, plan : Plans]
  BY <1>1, RequestAssumption DEF IsPlan
<1>2. CASE request \in [kind : {"flat"}, args : FlatArguments]
  BY <1>2, RequestAssumption DEF IsPlan
<1>3. QED
  BY <1>1, <1>2 DEF Requests

\* How the parts of the actions change the compilation.
LEMMA ParticlesKeep ==
  /\ \A a : End(a) => compiled' = compiled /\ pc' # "resolve"
  /\ \A c, i : TryBranch(c, i) => compiled' = c /\ pc' # "resolve"
  /\ \A c, i, es : NextCompared(c, i, es) => compiled' = c /\ pc' # "resolve"
  /\ \A c : Dispatch(c) => compiled' = c /\ pc' # "resolve"
  /\ \A r : EndSearch(r) => compiled' = compiled /\ pc' # "resolve"
  /\ \A ids, s, n : EndShowing(ids, s, n) => compiled' = compiled /\ pc' # "resolve"
  /\ \A hits : EndMatching(hits) => compiled' = compiled /\ pc' # "resolve"
  /\ \A picked : EndAlternatives(picked) => compiled' = compiled /\ pc' # "resolve"
  /\ \A n, f : Proceed(n, f) => compiled' = compiled /\ request' = request /\ pc' = n
<1>1. \A a : End(a) => compiled' = compiled /\ pc' # "resolve"
  BY DEF End
<1>2. \A c, i : TryBranch(c, i) => compiled' = c /\ pc' # "resolve"
  BY DEF TryBranch
<1>3. \A c, i, es : NextCompared(c, i, es) => compiled' = c /\ pc' # "resolve"
  <2>1. SUFFICES ASSUME NEW c, NEW i, NEW es, NextCompared(c, i, es)
                 PROVE  compiled' = c /\ pc' # "resolve"
    BY Zenon
  <2>2. compiled' = c
    BY <2>1 DEF NextCompared
  <2>3. pc' = "done" \/ \E j : TryBranch(c, j)
    BY <2>1, Zenon DEF NextCompared
  <2>4. QED
    BY <1>2, <2>2, <2>3
<1>4. \A c : Dispatch(c) => compiled' = c /\ pc' # "resolve"
  BY <1>2, <1>3 DEF Dispatch
<1>5. \A r : EndSearch(r) => compiled' = compiled /\ pc' # "resolve"
  BY <1>1, <1>2, <1>3 DEF EndSearch
<1>6. \A ids, s, n : EndShowing(ids, s, n) => compiled' = compiled /\ pc' # "resolve"
  BY <1>1, <1>5 DEF EndShowing
<1>7. \A hits : EndMatching(hits) => compiled' = compiled /\ pc' # "resolve"
  BY <1>6 DEF EndMatching
<1>8. \A picked : EndAlternatives(picked) => compiled' = compiled /\ pc' # "resolve"
  BY <1>1, <1>5 DEF EndAlternatives
<1>9. \A n, f : Proceed(n, f) => compiled' = compiled /\ request' = request /\ pc' = n
  BY DEF Proceed, collection
<1>10. QED
  BY <1>1, <1>2, <1>3, <1>4, <1>5, <1>6, <1>7, <1>8, <1>9

\* Only the two actions that compile change the compilation.
LEMMA StepsKeep ==
  /\ CountCandidates \/ LookUpLoosely \/ LookUpStrictly \/ SearchCandidates \/ SearchLane
       \/ CountStage \/ SearchAlternatives \/ CallFails \/ EditCollection
       => compiled' = compiled /\ request' = request /\ (pc' = "resolve" => pc = "resolve")
  /\ StartPlan \/ StartFlat \/ ResolveBySimilarity => request' = request
<1>1. CountCandidates \/ LookUpLoosely
         => compiled' = compiled /\ request' = request /\ (pc' = "resolve" => pc = "resolve")
  BY ParticlesKeep DEF CountCandidates, LookUpLoosely
<1>2. LookUpStrictly
         => compiled' = compiled /\ request' = request /\ (pc' = "resolve" => pc = "resolve")
  BY ParticlesKeep DEF LookUpStrictly, collection
<1>3. SearchCandidates
         => compiled' = compiled /\ request' = request /\ (pc' = "resolve" => pc = "resolve")
  BY ParticlesKeep DEF SearchCandidates, collection
<1>4. SearchLane
         => compiled' = compiled /\ request' = request /\ (pc' = "resolve" => pc = "resolve")
  BY ParticlesKeep DEF SearchLane, collection
<1>5. CountStage
         => compiled' = compiled /\ request' = request /\ (pc' = "resolve" => pc = "resolve")
  BY ParticlesKeep DEF CountStage, Counted, collection
<1>6. SearchAlternatives
         => compiled' = compiled /\ request' = request /\ (pc' = "resolve" => pc = "resolve")
  BY ParticlesKeep DEF SearchAlternatives, collection
<1>7. CallFails
         => compiled' = compiled /\ request' = request /\ (pc' = "resolve" => pc = "resolve")
  BY ParticlesKeep DEF CallFails, collection
<1>8. EditCollection
         => compiled' = compiled /\ request' = request /\ (pc' = "resolve" => pc = "resolve")
  BY DEF EditCollection
<1>9. StartPlan \/ StartFlat \/ ResolveBySimilarity => request' = request
  BY DEF StartPlan, StartFlat, ResolveBySimilarity, collection
<1>10. QED
  BY <1>1, <1>2, <1>3, <1>4, <1>5, <1>6, <1>7, <1>8, <1>9

LEMMA InitPrepared == Init => Prepared
BY DEF Init, Prepared, Requests

LEMMA NextPrepared == Prepared /\ [Next]_vars => Prepared'
<1> SUFFICES ASSUME Prepared, [Next]_vars PROVE Prepared'
  OBVIOUS
<1>1. ASSUME compiled' = compiled, request' = request, pc' = "resolve" => pc = "resolve"
      PROVE  Prepared'
  BY <1>1 DEF Prepared, IsPlan, FlatCompilation
<1>2. ASSUME IsPlan, request' = request, NEW o, compiled' = Compile(request.plan, o)
      PROVE  Prepared'
  BY <1>2 DEF Prepared, IsPlan
<1>3. CASE StartPlan
  <2>1. compiled' = Compile(request.plan, <<>>) /\ IsPlan
    BY <1>3, ParticlesKeep DEF StartPlan
  <2>2. QED
    BY <1>2, <1>3, <2>1, StepsKeep
<1>4. CASE StartFlat
  BY <1>4, StepsKeep DEF StartFlat, Prepared, IsPlan, FlatCompilation
<1>5. CASE ResolveBySimilarity
  <2>1. compiled' = compiled \/ (\E o : compiled' = Compile(request.plan, o))
    BY <1>5, ParticlesKeep DEF ResolveBySimilarity
  <2>2. IsPlan /\ pc = "resolve"
    BY <1>5 DEF ResolveBySimilarity, Prepared
  <2>3. CASE compiled' = compiled
    BY <1>1, <1>5, <2>2, <2>3, StepsKeep
  <2>4. CASE \E o : compiled' = Compile(request.plan, o)
    BY <1>2, <1>5, <2>2, <2>4, StepsKeep
  <2>5. QED
    BY <2>1, <2>3, <2>4
<1>6. CASE UNCHANGED vars
  BY <1>1, <1>6, Zenon DEF vars
<1>7. CASE EditCollection \/ CountCandidates \/ LookUpLoosely \/ LookUpStrictly
             \/ SearchCandidates \/ SearchLane \/ CountStage \/ SearchAlternatives \/ CallFails
  BY <1>1, <1>7, StepsKeep
<1>8. QED
  BY <1>3, <1>4, <1>5, <1>6, <1>7 DEF Next, SearchStep

\* Nothing is searched for that the user did not say, now or earlier: every
\* condition sent to Qdrant, every number in one and every product looked up
\* (validate_evidence, validate_memory_references and
\* _validate_numeric_provenance hold of the plan before it is compiled, and
\* neither grounding nor the entities nor the branches add anything).
THEOREM NothingMadeUp == Spec => []OnlyGrounded
<1>1. Prepared => OnlyGrounded
  <2>1. SUFFICES ASSUME Prepared, IsPlan, compiled.status = "run" PROVE OnlyGrounded
    BY DEF OnlyGrounded
  <2>2. request.plan \in Plans /\ WellFormed(request.plan)
    BY <2>1, RequestFacts DEF Prepared
  <2>3. compiled # NotCompiled
    BY <2>1 DEF NotCompiled, Compilation
  <2>4. PICK o : compiled = Compile(request.plan, o)
    BY <2>1, <2>3 DEF Prepared
  <2>5. Sound(compiled, request.plan)
    BY <2>1, <2>2, <2>4, CompileFacts
  <2>6. QED
    BY <2>2, <2>5, GroundedSearch
<1>2. QED
  BY <1>1, InitPrepared, NextPrepared, PTL DEF Spec

-----------------------------------------------------------------------------
(***************************************************************************)
(* The hits of a search                                                    *)
(***************************************************************************)

\* A lane adds hits on points that have none yet.
LEMMA PooledListing ==
  ASSUME NEW S, NEW hits, Listing(hits, S), NEW more, Listing(more, S)
  PROVE  Listing(Pooled(hits, more), S)
<1> DEFINE at == {i \in DOMAIN more : \A g \in ToSet(hits) : g.id # more[i].id}
           new == Chosen(more, at)
<1>1. Pooled(hits, more) = hits \o new
  BY DEF Pooled
<1>2. Listing(new, S)
  BY ListingChosen
<1>3. \A g \in ToSet(hits), h \in ToSet(new) : g.id # h.id
  <2>1. more \in Seq(ToSet(more))
    BY DEF Listing
  <2>2. \A i \in at : \A g \in ToSet(hits) : g.id # more[i].id
    OBVIOUS
  <2> HIDE DEF at
  <2>3. \A h \in ToSet(new) : \E i \in at : h = more[i]
    BY <2>1, ChosenFacts
  <2>4. QED
    BY <2>2, <2>3
<1> HIDE DEF new
<1>4. QED
  BY <1>1, <1>2, <1>3, ListingConcat

\* The products shown of some hits.
LEMMA TopIdsFacts ==
  ASSUME NEW hits, NEW S, S \subseteq Points, Listing(hits, S), Rankable(Args)
  PROVE  /\ TopIds(hits) \in Seq(S)
         /\ hits # <<>> => TopIds(hits) # <<>> /\ TopIds(hits)[1] \in S
<1> DEFINE ranked == RankHits(hits, Args)
           top == Upto(ranked, Args.limit)
           ids == TopIds(hits)
<1>1. Listing(ranked, S) /\ Reordered(ranked, hits)
  BY RankHitsFacts
<1>2. Args.limit \in Nat /\ Args.limit # 0
  BY DEF Rankable
<1> HIDE DEF ranked
<1>3. ranked \in Seq(ToSet(ranked)) /\ \A h \in ToSet(ranked) : h.id \in S
  BY <1>1 DEF Listing
<1>4. hits # <<>> => ranked # <<>>
  <2>1. hits \in Seq(ToSet(hits))
    BY DEF Listing
  <2>2. hits # <<>> => Len(hits) # 0
    BY <2>1, EmptySeq
  <2>3. ranked # <<>>  \/ Len(ranked) = 0
    BY <1>3, EmptySeq
  <2>4. Len(ranked) = Len(hits)
    BY <1>1 DEF Reordered
  <2>5. ranked = <<>> => Len(ranked) = 0
    BY <1>3, EmptySeq
  <2>6. QED
    BY <2>2, <2>4, <2>5
<1>5. /\ top \in Seq(ToSet(ranked)) /\ ToSet(top) \subseteq ToSet(ranked)
      /\ ranked # <<>> => top # <<>>
  BY <1>2, <1>3, UptoFacts
<1>6. ids = IdsOf(top)
  BY DEF TopIds, ranked
<1> HIDE DEF top, ids
<1>7. /\ DOMAIN ids = DOMAIN top /\ ids = [i \in DOMAIN top |-> ids[i]]
      /\ \A i \in DOMAIN top : ids[i] = top[i].id
  BY <1>6 DEF IdsOf
<1>8. \A i \in DOMAIN top : ids[i] \in S
  BY <1>3, <1>5, <1>7, ToSetMember
<1>9. ids \in Seq(S)
  BY <1>5, <1>7, <1>8, NumbersOver
<1>10. ASSUME hits # <<>> PROVE ids # <<>> /\ ids[1] \in S
  <2>1. top # <<>>
    BY <1>4, <1>5, <1>10
  <2>2. 1 \in DOMAIN top
    BY <1>5, <2>1, EmptySeq, ToSetMember
  <2>3. ids # <<>>
    BY <1>5, <1>7, <2>1, ListOver
  <2>4. QED
    BY <1>8, <2>2, <2>3
<1>11. QED
  BY <1>9, <1>10 DEF ids

-----------------------------------------------------------------------------
(***************************************************************************)
(* A comparison looks up each of its products                              *)
(***************************************************************************)

LooksFor(a, product) ==
  /\ Rankable(a) /\ product # Absent
  /\ a.product_id = product /\ a.sku = Absent /\ a.model = Absent

LEMMA ArgumentsLook ==
  ASSUME NEW plan, plan.sort \in DOMAIN SortGoals \cup {"relevance"}, plan.limit \in 1 .. 3,
         plan.objectives \in Seq(ToSet(plan.objectives)), Opt(plan.preference, MaxDepth),
         NEW option, NEW e, e # Nobody, NEW res, res.product # Absent
  PROVE  LooksFor(ArgumentsFor(plan, option, e, res), res.product)
<1> DEFINE facet == e # Nobody /\ res.status = "constraint_entity"
           filter == IF facet THEN Conjoin(option, Leaf(FacetPredicate(e, res, e.refs))) ELSE option
           base == [NoArguments EXCEPT
                      !.sort = plan.sort, !.limit = Min({plan.limit, 3}), !.filter = filter,
                      !.preference = plan.preference, !.objectives = plan.objectives,
                      !.compiled = TRUE]
           named == [base EXCEPT !.product_id = res.product, !.excluded = {res.product}]
           a == ArgumentsFor(plan, option, e, res)
<1>1. a = WithConjuncts(named)
  BY DEF ArgumentsFor
<1> HIDE DEF filter
<1>2. /\ {"product_id", "sku", "model", "preference", "objectives", "sort", "limit"} \subseteq DOMAIN base
      /\ base.sku = Absent /\ base.model = Absent /\ base.preference = plan.preference
      /\ base.objectives = plan.objectives /\ base.sort = plan.sort
      /\ base.limit = Min({plan.limit, 3})
  BY DEF NoArguments
<1> HIDE DEF base
<1>3. /\ {"product_id", "sku", "model", "preference", "objectives", "sort", "limit"} \subseteq DOMAIN named
      /\ named.product_id = res.product
      /\ named.sku = Absent /\ named.model = Absent /\ named.preference = plan.preference
      /\ named.objectives = plan.objectives /\ named.sort = plan.sort
      /\ named.limit = Min({plan.limit, 3})
  BY <1>2
<1> HIDE DEF named, a
<1>4. /\ a.product_id = res.product /\ a.sku = Absent /\ a.model = Absent
      /\ a.preference = plan.preference
      /\ a.objectives = plan.objectives /\ a.sort = plan.sort
      /\ a.limit = Min({plan.limit, 3})
  BY <1>1, <1>3, WithConjunctsKeeps
<1>5. Min({plan.limit, 3}) \in Nat \ {0}
  <2>1. plan.limit \in Int /\ 3 \in Int
    OBVIOUS
  <2>2. Min({plan.limit, 3}) = IF plan.limit <= 3 THEN plan.limit ELSE 3
    BY <2>1, MinOfTwo
  <2>3. QED
    BY <2>2
<1>6. Rankable(a)
  BY <1>4, <1>5 DEF Rankable
<1>7. LooksFor(a, res.product)
  BY <1>4, <1>6 DEF LooksFor
<1>8. QED
  BY <1>7 DEF a

\* A plan that compares asks once for each of at most three entities.
LEMMA ComparisonAsks ==
  ASSUME NEW c, NEW source, WellFormed(source), Sound(c, source), c.plan.op = "compare"
  PROVE  /\ SelectedOf(c.plan) \in Seq(ToSet(SelectedOf(c.plan))) /\ Len(SelectedOf(c.plan)) <= 3
         /\ DOMAIN c.args = DOMAIN SelectedOf(c.plan)
         /\ DOMAIN c.res = {SelectedOf(c.plan)[i].id : i \in DOMAIN SelectedOf(c.plan)}
         /\ \A i \in DOMAIN SelectedOf(c.plan) :
              c.res[SelectedOf(c.plan)[i].id].status = "resolved" =>
                /\ c.res[SelectedOf(c.plan)[i].id].product \in Points
                /\ LooksFor(c.args[i], c.res[SelectedOf(c.plan)[i].id].product)
<1> DEFINE entities == SelectedOf(c.plan)
           branches == FallbackBranches(WholeFilter(c.plan, c.res))
           option == branches[Min({1, Len(branches)})]
           res(i) == c.res[entities[i].id]
<1>1. c.plan.entities \in Seq(ToSet(c.plan.entities)) /\ Len(c.plan.entities) <= 3
  BY DEF Sound
<1>2. entities \in Seq(ToSet(entities)) /\ Len(entities) <= 3
      /\ ToSet(entities) \subseteq ToSet(c.plan.entities)
  <2>1. entities \in Seq(ToSet(entities)) /\ Len(entities) <= Len(c.plan.entities)
        /\ ToSet(entities) \subseteq ToSet(c.plan.entities)
    BY <1>1, SelectedFacts
  <2>2. Len(entities) \in Nat /\ Len(c.plan.entities) \in Nat
    BY <1>1, <2>1, ToSetMember
  <2>3. QED
    BY <1>1, <2>1, <2>2
<1>3. \A i \in DOMAIN entities : entities[i] \in ToSet(entities) /\ entities[i] # Nobody
  <2>1. SUFFICES ASSUME NEW i \in DOMAIN entities
                 PROVE  entities[i] \in ToSet(entities) /\ entities[i] # Nobody
    OBVIOUS
  <2>2. entities[i] \in ToSet(entities)
    BY <1>2, ToSetMember
  <2>3. entities[i] \in ToSet(source.entities)
    BY <1>2, <2>2 DEF Sound
  <2>4. IsEntity(entities[i])
    BY <2>3, WellFormedFacts
  <2>5. QED
    BY <2>2, <2>4 DEF IsEntity, Nobody
<1>4. c.args = [i \in DOMAIN entities |->
                  ArgumentsFor(c.plan, option, entities[i],
                               IF entities[i] = Nobody THEN Unresolved ELSE res(i))]
  <2>1. c.args = ArgumentsOf(c.plan, c.res)
    BY DEF Sound
  <2>2. QED
    BY <2>1 DEF ArgumentsOf, ByEntity, WholeFilter
<1>5. DOMAIN c.res = {entities[i].id : i \in DOMAIN entities}
      /\ \A id \in DOMAIN c.res : IsResolution(c.res[id])
  BY DEF Sound, Ids, ToSet
<1>6. /\ c.plan.sort \in DOMAIN SortGoals \cup {"relevance"} /\ c.plan.limit \in 1 .. 3
      /\ c.plan.objectives \in Seq(ToSet(c.plan.objectives)) /\ Opt(c.plan.preference, MaxDepth)
  <2>1. c.plan.sort = source.sort /\ c.plan.limit = source.limit
        /\ c.plan.objectives \in Seq(ToSet(c.plan.objectives))
        /\ Opt(c.plan.preference, 7)
    BY DEF Sound, PlanKeys, Expressions
  <2>2. source.sort \in DOMAIN SortGoals \cup {"relevance"} /\ source.limit \in 1 .. 3
    BY WellFormedFacts
  <2>3. Opt(c.plan.preference, MaxDepth)
    <3>1. MaxDepth \in 1 .. MaxDepth /\ 7 <= MaxDepth
      BY DepthNat
    <3>2. QED
      BY <2>1, <3>1, OptMore
  <2>4. QED
    BY <2>1, <2>2, <2>3
<1> HIDE DEF entities, option, branches
<1>7. ASSUME NEW i \in DOMAIN entities, res(i).status = "resolved"
      PROVE  res(i).product \in Points /\ LooksFor(c.args[i], res(i).product)
  <2>1. IsResolution(res(i))
    BY <1>5, <1>7
  <2>2. res(i).product \in Loaded /\ res(i).product # Absent
    BY <1>7, <2>1 DEF IsResolution
  <2>3. res(i).product \in Points
    BY <2>2, LoadedThere
  <2>4. c.args[i] = ArgumentsFor(c.plan, option, entities[i], res(i))
    BY <1>3, <1>4, <1>7
  <2> DEFINE r == res(i)
  <2> HIDE DEF r
  <2>5. r.product # Absent /\ c.args[i] = ArgumentsFor(c.plan, option, entities[i], r)
        /\ entities[i] # Nobody
    BY <1>3, <2>2, <2>4 DEF r
  <2>6. LooksFor(c.args[i], r.product)
    BY <1>6, <2>5, ArgumentsLook
  <2>7. QED
    BY <2>3, <2>6 DEF r
<1>8. DOMAIN c.args = DOMAIN entities
  BY <1>4
<1>9. QED
  BY <1>2, <1>5, <1>7, <1>8 DEF entities

\* What is looked up by its id is found, and nothing else is.
LEMMA LookedUp ==
  ASSUME NEW a, NEW product, LooksFor(a, product), NEW points, points \subseteq Points
  PROVE  /\ product \in points => product \in ExactLoose(a, points)
         /\ \A p \in ExactLoose(a, points) : p \in points /\ Same(p, product)
         /\ ExactStrict(a, points) \subseteq ExactLoose(a, points)
<1>1. \A p \in points : Products[p].product_id = p
  BY CatalogAssumption
<1>2. \A p \in points : Identified(a, Products[p]) <=> (product = Absent \/ Same(product, p))
  BY <1>1 DEF LooksFor, Identified
<1>3. product # Absent
  BY DEF LooksFor
<1>4. product \in points => product \in ExactLoose(a, points)
  BY <1>2 DEF ExactLoose, Same
<1>5. \A p \in ExactLoose(a, points) : p \in points /\ Same(p, product)
  BY <1>2, <1>3 DEF ExactLoose, Same
<1>6. QED
  BY <1>4, <1>5 DEF ExactStrict

-----------------------------------------------------------------------------
(***************************************************************************)
(* What a comparison has found                                             *)
(***************************************************************************)

\* The product the j-th entity compared is, if it is one that has been in
\* the collection the whole time.
Sought(c, j) == c.res[SelectedOf(c.plan)[j].id]

There(r, whole) == r.status = "resolved" /\ r.product \in whole

\* The entries so far show those.
Entered(c, es, whole) ==
  \A j \in DOMAIN es :
    There(Sought(c, j), whole) =>
      es[j].product # Absent /\ Same(es[j].product, Sought(c, j).product)

\* The search for the b-th entity is under way.
AtEntity(c, b, es, whole) ==
  /\ c.status = "run"
  /\ b \in DOMAIN SelectedOf(c.plan) /\ Sought(c, b).status = "resolved"
  /\ es \in Seq(ToSet(es)) /\ Len(es) = b - 1
  /\ Entered(c, es, whole)

\* What its id has found.
FoundLoosely(c, b, loose, whole) ==
  /\ loose \subseteq Points
  /\ \A p \in loose : Same(p, Sought(c, b).product)
  /\ Sought(c, b).product \in whole => loose # {}

AllShown(c, items, whole) ==
  \A id \in DOMAIN c.res :
    There(c.res[id], whole) => \E p \in ToSet(items) : Same(p, c.res[id].product)

\* The products of the entries are shown.
LEMMA ComparedFacts ==
  ASSUME NEW c, NEW es, es \in Seq(ToSet(es)), Len(es) <= 3, NEW whole, Entered(c, es, whole),
         DOMAIN c.res = {SelectedOf(c.plan)[i].id : i \in DOMAIN es}
  PROVE  AllShown(c, Compared(es).items, whole)
<1> DEFINE products == [i \in DOMAIN es |-> es[i].product]
           at == {i \in DOMAIN es : es[i].product # Absent}
           shown == Chosen(products, at)
           items == Upto(Once(shown), 3)
           all == ToSet(products)
<1>1. Compared(es).items = items
  BY DEF Compared, Answered, NoAnswer
<1>2. products \in Seq(all) /\ Len(products) = Len(es) /\ DOMAIN products = DOMAIN es
      /\ \A i \in DOMAIN es : products[i] = es[i].product
  <2>1. products = [i \in DOMAIN es |-> products[i]]
    OBVIOUS
  <2>2. \A i \in DOMAIN es : products[i] = es[i].product
    OBVIOUS
  <2> HIDE DEF products
  <2>3. QED
    BY <2>1, <2>2, ListOver
<1> HIDE DEF products
<1>3. /\ shown \in Seq(all) /\ ToSet(shown) = {products[i] : i \in at \cap DOMAIN products}
      /\ Len(shown) <= Len(products)
  BY <1>2, ChosenFacts
<1> HIDE DEF shown, all
<1>4. Once(shown) \in Seq(all) /\ ToSet(Once(shown)) = ToSet(shown)
      /\ Len(Once(shown)) <= Len(shown)
  BY <1>3, OnceFacts
<1>5. Len(Once(shown)) <= 3
  <2>1. Len(Once(shown)) \in Nat /\ Len(shown) \in Nat /\ Len(products) \in Nat /\ Len(es) \in Nat
    BY <1>2, <1>3, <1>4, ToSetMember
  <2>2. QED
    BY <1>2, <1>3, <1>4, <2>1
<1>6. items = Once(shown)
  <2> DEFINE once == Once(shown)
             n == 3
  <2>1. once \in Seq(all) /\ Len(once) <= n /\ n \in Nat
    BY <1>4, <1>5
  <2> HIDE DEF once, n
  <2>2. Upto(once, n) = once
    BY <2>1, UptoFacts
  <2>3. QED
    BY <2>2 DEF once, n
<1>7. \A i \in at : es[i].product \in ToSet(items)
  BY <1>2, <1>3, <1>4, <1>6
<1> HIDE DEF items
<1>8. ASSUME NEW id \in DOMAIN c.res, There(c.res[id], whole)
      PROVE  \E p \in ToSet(items) : Same(p, c.res[id].product)
  <2>1. PICK i \in DOMAIN es : id = SelectedOf(c.plan)[i].id
    OBVIOUS
  <2>2. Sought(c, i) = c.res[id]
    BY <2>1 DEF Sought
  <2>3. es[i].product # Absent /\ Same(es[i].product, c.res[id].product)
    BY <1>8, <2>2 DEF Entered
  <2>4. es[i].product \in ToSet(items)
    BY <1>7, <2>3
  <2>5. QED
    BY <2>3, <2>4
<1>9. QED
  BY <1>1, <1>8 DEF AllShown

\* The comparison goes on with the next entity that is a product, or ends.
LEMMA ComparisonGoesOn ==
  ASSUME NEW c, NEW source, WellFormed(source), Sound(c, source), c.plan.op = "compare",
         c.status = "run", NEW i \in Nat, i # 0, i <= Len(SelectedOf(c.plan)) + 1,
         NEW es, es \in Seq(ToSet(es)), Len(es) = i - 1, NEW whole, Entered(c, es, whole),
         NextCompared(c, i, es)
  PROVE  \/ pc' = "count" /\ found' = Nothing /\ AtEntity(c, branch', entries', whole)
         \/ pc' = "done" /\ AllShown(c, answer'.items, whole)
<1> DEFINE entities == SelectedOf(c.plan)
           n == Len(entities)
           isResolved(j) == c.res[entities[j].id].status = "resolved"
           rest == {j \in DOMAIN entities : j >= i /\ isResolved(j)}
           next == IF rest = {} THEN Len(entities) + 1 ELSE Min(rest)
           pad == [j \in 1 .. (next - i) |-> [id |-> entities[i + j - 1].id, product |-> Absent]]
           all == es \o pad
<1>1. /\ entries' = all
      /\ IF rest = {} THEN pc' = "done" /\ answer' = Compared(all) ELSE TryBranch(c, next)
  BY DEF NextCompared
<1>2. /\ entities \in Seq(ToSet(entities)) /\ n <= 3
      /\ DOMAIN c.res = {entities[j].id : j \in DOMAIN entities}
  BY ComparisonAsks
<1>3. n \in Nat /\ DOMAIN entities = 1 .. n
  BY <1>2, ToSetMember
<1>4. rest # {} => next \in rest /\ \A j \in rest : next <= j
  <2>1. ASSUME rest # {} PROVE \E j \in rest : \A k \in rest : j <= k
    <3>1. rest \subseteq Nat
      BY <1>3
    <3> HIDE DEF rest
    <3>2. QED
      BY <2>1, <3>1, Choosing!LeastOne
  <2>2. rest # {} => next = CHOOSE j \in rest : \A k \in rest : j <= k
    BY DEF Min
  <2> HIDE DEF next, rest
  <2>3. QED
    BY <2>1, <2>2
<1>5. \A j \in i .. (next - 1) : j \in DOMAIN entities /\ ~ isResolved(j)
  <2> SUFFICES ASSUME NEW j \in i .. (next - 1)
               PROVE  j \in DOMAIN entities /\ ~ isResolved(j)
    OBVIOUS
  <2>1. CASE rest = {}
    <3>1. next = n + 1
      BY <2>1
    <3>2. j \in DOMAIN entities /\ j >= i
      <4> HIDE DEF next, n, entities
      <4>1. QED
        BY <1>3, <3>1
    <3>3. QED
      BY <2>1, <3>2
  <2>2. CASE rest # {}
    <3>1. next \in rest /\ \A k \in rest : next <= k
      BY <1>4, <2>2
    <3>2. next \in 1 .. n
      BY <1>3, <3>1
    <3>3. j \in DOMAIN entities /\ j >= i /\ j < next
      <4> HIDE DEF next, rest
      <4>1. QED
        BY <1>3, <3>2
    <3>4. j \notin rest
      <4>1. ~ (next <= j)
        <5> HIDE DEF next, rest
        <5>1. QED
          BY <3>2, <3>3, <1>3
      <4> HIDE DEF next, rest
      <4>2. QED
        BY <3>1, <4>1
    <3>5. QED
      BY <3>3, <3>4
  <2>3. QED
    BY <2>1, <2>2
<1>6. next \in Nat /\ i <= next /\ next <= n + 1
  <2>1. rest = {} => next = n + 1
    OBVIOUS
  <2>2. rest # {} => next \in 1 .. n /\ i <= next
    BY <1>3, <1>4
  <2> HIDE DEF next, rest
  <2>3. QED
    BY <1>3, <2>1, <2>2
<1> HIDE DEF next
<1>7. pad \in Seq(ToSet(pad)) /\ Len(pad) = next - i /\ DOMAIN pad = 1 .. (next - i)
  <2>1. next - i \in Nat
    BY <1>6
  <2>2. pad = [j \in 1 .. (next - i) |-> pad[j]] /\ DOMAIN pad = 1 .. (next - i)
    OBVIOUS
  <2> HIDE DEF pad
  <2>3. \A j \in 1 .. (next - i) : pad[j] \in ToSet(pad)
    BY <2>2 DEF ToSet
  <2>4. pad \in [1 .. (next - i) -> ToSet(pad)]
    BY <2>2, <2>3
  <2>5. pad \in Seq(ToSet(pad))
    BY <2>1, <2>4, SeqDef
  <2>6. QED
    BY <2>1, <2>2, <2>5, LenProperties
<1> HIDE DEF pad
<1>8. /\ all \in Seq(ToSet(all)) /\ Len(all) = next - 1 /\ DOMAIN all = 1 .. (next - 1)
      /\ \A j \in 1 .. (i - 1) : all[j] = es[j]
  <2> DEFINE S == ToSet(es) \cup ToSet(pad)
  <2>1. es \in Seq(S) /\ pad \in Seq(S)
    BY <1>7, SeqMonotonic
  <2> HIDE DEF S
  <2>2. all \in Seq(S) /\ Len(all) = Len(es) + Len(pad)
    BY <2>1, ToSetConcat
  <2>3. \A j \in 1 .. Len(es) : all[j] = es[j]
    BY <2>1, ConcatProperties
  <2> HIDE DEF all
  <2>4. Len(all) = next - 1
    BY <1>6, <1>7, <2>2
  <2>5. QED
    BY <2>2, <2>3, <2>4, ToSetMember
<1> HIDE DEF all
<1>9. Entered(c, all, whole)
  <2>1. SUFFICES ASSUME NEW j \in 1 .. (next - 1), There(Sought(c, j), whole)
                 PROVE  all[j].product # Absent /\ Same(all[j].product, Sought(c, j).product)
    BY <1>8 DEF Entered
  <2>2. isResolved(j)
    BY <2>1 DEF There, Sought
  <2>3. j \notin i .. (next - 1)
    BY <1>5, <2>2
  <2>4. j \in 1 .. (i - 1)
    BY <1>6, <2>1, <2>3
  <2>5. j \in DOMAIN es
    BY <2>4, ToSetMember
  <2>6. all[j] = es[j]
    BY <1>8, <2>4
  <2>7. QED
    BY <2>1, <2>5, <2>6 DEF Entered
<1>10. CASE rest = {}
  <2>1. pc' = "done" /\ answer' = Compared(all)
    BY <1>1, <1>10
  <2>2. next = n + 1
    BY <1>10 DEF next
  <2>3. Len(all) <= 3 /\ DOMAIN all = DOMAIN entities
    BY <1>2, <1>3, <1>8, <2>2
  <2>4. AllShown(c, Compared(all).items, whole)
    BY <1>2, <1>8, <1>9, <2>3, ComparedFacts
  <2>5. QED
    BY <2>1, <2>4
<1>11. CASE rest # {}
  <2>1. pc' = "count" /\ branch' = next /\ found' = Nothing
    BY <1>1, <1>11 DEF TryBranch
  <2>2. next \in DOMAIN entities /\ isResolved(next)
    BY <1>4, <1>11
  <2>3. AtEntity(c, next, all, whole)
    BY <1>8, <1>9, <2>2 DEF AtEntity, Sought
  <2>4. QED
    BY <1>1, <2>1, <2>3
<1>12. QED
  BY <1>10, <1>11

-----------------------------------------------------------------------------
(***************************************************************************)
(* Every product of a comparison is shown                                  *)
(***************************************************************************)

\* The inductive invariant: a comparison only looks up, and has shown every
\* product before the one it is at.
Comparing ==
  /\ always \subseteq store /\ store \subseteq Points
  /\ IsCompare /\ pc = "resolve" => compiled.status \in {"run", "empty"}
  /\ IsCompare /\ pc \in Calls \ {"resolve"} =>
       /\ pc \in {"count", "loose", "strict", "stages", "alternatives"}
       /\ "loose" \in DOMAIN found
       /\ AtEntity(compiled, branch, entries, always)
       /\ pc \notin {"count", "loose"} =>
            FoundLoosely(compiled, branch, found.loose, always)
  /\ ComparedShown

\* A plan whose search is under way is sound.
LEMMA RunSound ==
  ASSUME Prepared, IsPlan, compiled.status = "run"
  PROVE  WellFormed(request.plan) /\ Sound(compiled, request.plan)
<1>1. request.plan \in Plans /\ WellFormed(request.plan)
  BY RequestFacts DEF Prepared
<1>2. compiled # NotCompiled
  BY DEF NotCompiled, Compilation
<1>3. PICK o : compiled = Compile(request.plan, o)
  BY <1>2 DEF Prepared
<1>4. QED
  BY <1>1, <1>3, CompileFacts

LEMMA CompileStatus ==
  ASSUME NEW source, NEW o
  PROVE  Compile(source, o).status \in {"clarify", "empty", "invalid", "run"}
<1>1. ASSUME NEW g, NEW first, NEW proj
      PROVE  CompileProjected(source, g, first, proj).status
               \in {"clarify", "empty", "invalid", "run"}
  <2>1. SUFFICES ASSUME NEW c, c = CompileProjected(source, g, first, proj),
                        c.status # "clarify", c.status # "empty", c.status # "invalid",
                        c.status # "run"
                 PROVE  FALSE
    OBVIOUS
  <2>2. QED
    BY <2>1, Zenon DEF CompileProjected, Compilation
<1>2. QED
  BY <1>1 DEF Compile, CompileGrounded

\* The less is there all the time, the less has to be shown.
LEMMA FewerThere ==
  ASSUME NEW whole, NEW fewer, fewer \subseteq whole
  PROVE  /\ \A r : There(r, fewer) => There(r, whole)
         /\ \A c, es : Entered(c, es, whole) => Entered(c, es, fewer)
         /\ \A c, b, es : AtEntity(c, b, es, whole) => AtEntity(c, b, es, fewer)
         /\ \A c, b, s : FoundLoosely(c, b, s, whole) => FoundLoosely(c, b, s, fewer)
<1>1. \A r : There(r, fewer) => There(r, whole)
  BY DEF There
<1>2. \A c, es : Entered(c, es, whole) => Entered(c, es, fewer)
  BY <1>1, Zenon DEF Entered
<1>3. \A c, b, es : AtEntity(c, b, es, whole) => AtEntity(c, b, es, fewer)
  BY <1>2, Zenon DEF AtEntity
<1>4. \A c, b, s : FoundLoosely(c, b, s, whole) => FoundLoosely(c, b, s, fewer)
  BY DEF FoundLoosely
<1>5. QED
  BY <1>1, <1>2, <1>3, <1>4

\* The entry of one more entity.
LEMMA EntryAdded ==
  ASSUME NEW c, NEW b, NEW es, NEW whole, AtEntity(c, b, es, whole),
         b \in Nat, NEW entry,
         There(Sought(c, b), whole) =>
           entry.product # Absent /\ Same(entry.product, Sought(c, b).product)
  PROVE  /\ Append(es, entry) \in Seq(ToSet(Append(es, entry)))
         /\ Len(Append(es, entry)) = b
         /\ Entered(c, Append(es, entry), whole)
<1> DEFINE all == Append(es, entry)
           S == ToSet(es) \cup {entry}
<1>1. es \in Seq(ToSet(es)) /\ Len(es) = b - 1 /\ Len(es) \in Nat /\ DOMAIN es = 1 .. Len(es)
  BY ToSetMember DEF AtEntity
<1>2. es \in Seq(S) /\ entry \in S
  BY <1>1, SeqMonotonic
<1> HIDE DEF S
<1>3. all \in Seq(S) /\ Len(all) = Len(es) + 1
  BY <1>2, ToSetAppend
<1>4. all[b] = entry /\ \A j \in 1 .. (b - 1) : all[j] = es[j]
  BY <1>1, <1>2, AppendProperties
<1> HIDE DEF all
<1>5. all \in Seq(ToSet(all)) /\ Len(all) = b /\ DOMAIN all = 1 .. b
  BY <1>1, <1>3, ToSetMember
<1>6. Entered(c, all, whole)
  <2>1. SUFFICES ASSUME NEW j \in 1 .. b, There(Sought(c, j), whole)
                 PROVE  all[j].product # Absent /\ Same(all[j].product, Sought(c, j).product)
    BY <1>5 DEF Entered
  <2>2. CASE j = b
    BY <1>4, <2>1, <2>2
  <2>3. CASE j # b
    <3>1. j \in DOMAIN es /\ all[j] = es[j]
      BY <1>1, <1>4, <2>3
    <3>2. Entered(c, es, whole)
      BY DEF AtEntity
    <3>3. QED
      BY <2>1, <3>1, <3>2 DEF Entered
  <2>4. QED
    BY <2>2, <2>3
<1>7. QED
  BY <1>5, <1>6 DEF all

\* The product asked for is the first of those its id has found.
LEMMA RequestedFound ==
  ASSUME found.loose \subseteq Points, found.loose # {}
  PROVE  Requested \in found.loose /\ Requested # Absent
<1> DEFINE places == {Place[p] : p \in found.loose}
<1>1. \E p \in found.loose : \A q \in found.loose : Place[p] <= Place[q]
  <2>1. places \subseteq Nat /\ places # {}
    BY RankingAssumption
  <2> HIDE DEF places
  <2>2. PICK n \in places : \A m \in places : n <= m
    BY <2>1, Choosing!LeastOne
  <2> USE DEF places
  <2>3. PICK p \in found.loose : n = Place[p]
    BY <2>2
  <2>4. QED
    BY <2>2, <2>3
<1>2. Requested \in found.loose
  BY <1>1 DEF Requested
<1>3. QED
  BY <1>2, CatalogAssumption

\* The collection as the searches see it.
LEMMA CollectionKept ==
  ASSUME Comparing, UNCHANGED collection
  PROVE  /\ always' = always /\ always' \subseteq store' /\ store' \subseteq Points
         /\ request' = request /\ IsCompare' = IsCompare
BY DEF Comparing, collection, IsCompare, IsPlan

\* A comparison that has ended, and one that goes on.
LEMMA ComparisonDone ==
  ASSUME always' \subseteq store', store' \subseteq Points, pc' = "done",
         \/ answer'.status \notin {"exact_match", "matching_products"}
         \/ AllShown(compiled', answer'.items, always')
  PROVE  Comparing'
<1>1. pc' \notin Calls /\ pc' # "resolve"
  BY DEF Calls
<1>2. ComparedShown'
  BY DEF ComparedShown, AllShown, There
<1>3. QED
  BY <1>1, <1>2 DEF Comparing

LEMMA ComparisonOn ==
  ASSUME always' \subseteq store', store' \subseteq Points,
         pc' \in {"count", "loose", "strict", "stages", "alternatives"},
         "loose" \in DOMAIN found', AtEntity(compiled', branch', entries', always'),
         pc' \notin {"count", "loose"} =>
           FoundLoosely(compiled', branch', found'.loose, always')
  PROVE  Comparing'
<1>1. pc' # "done" /\ pc' # "resolve"
  OBVIOUS
<1>2. ComparedShown'
  BY <1>1 DEF ComparedShown, Done
<1>3. QED
  BY <1>1, <1>2 DEF Comparing

\* The next entity of a comparison.
LEMMA ComparisonNext ==
  ASSUME Comparing, IsCompare, UNCHANGED collection, NEW c, c.status = "run",
         WellFormed(request.plan), Sound(c, request.plan),
         NEW i \in Nat, i # 0, i <= Len(SelectedOf(c.plan)) + 1,
         NEW es, es \in Seq(ToSet(es)), Len(es) = i - 1, Entered(c, es, always),
         NextCompared(c, i, es)
  PROVE  Comparing'
<1>1. c.plan.op = "compare"
  BY DEF Sound, PlanKeys, IsCompare
<1>2. \/ pc' = "count" /\ found' = Nothing /\ AtEntity(c, branch', entries', always)
      \/ pc' = "done" /\ AllShown(c, answer'.items, always)
  BY <1>1, ComparisonGoesOn
<1>3. compiled' = c /\ always' = always
  BY ParticlesKeep, CollectionKept
<1>4. always' \subseteq store' /\ store' \subseteq Points
  BY CollectionKept
<1>5. CASE pc' = "count" /\ found' = Nothing /\ AtEntity(c, branch', entries', always)
  <2>1. "loose" \in DOMAIN found'
    BY <1>5 DEF Nothing
  <2>2. QED
    BY <1>3, <1>4, <1>5, <2>1, ComparisonOn
<1>6. CASE pc' = "done" /\ AllShown(c, answer'.items, always)
  BY <1>3, <1>4, <1>6, ComparisonDone
<1>7. QED
  BY <1>2, <1>5, <1>6

LEMMA AnsweredStatus ==
  ASSUME NEW status
  PROVE  /\ Answered(status).status = status /\ Answered(status).requested = Absent
BY DEF Answered, NoAnswer

LEMMA ComparisonDispatched ==
  ASSUME Comparing, IsCompare, UNCHANGED collection, NEW c, WellFormed(request.plan),
         c.status \in {"clarify", "empty", "invalid", "run"},
         c.status = "run" => Sound(c, request.plan),
         Dispatch(c)
  PROVE  Comparing'
<1>1. CASE c.status = "run"
  <2>1. NextCompared(c, 1, <<>>)
    BY <1>1 DEF Dispatch
  <2> DEFINE es == <<>>
             i == 1
  <2>2. /\ es \in Seq(ToSet(es)) /\ Len(es) = i - 1 /\ i \in Nat /\ i # 0
        /\ DOMAIN es = {}
    BY ToSetEmpty
  <2>3. Entered(c, es, always)
    BY <2>2 DEF Entered
  <2>4. i <= Len(SelectedOf(c.plan)) + 1
    <3>1. c.plan.op = "compare" /\ Sound(c, request.plan)
      BY <1>1 DEF Sound, PlanKeys, IsCompare
    <3>2. SelectedOf(c.plan) \in Seq(ToSet(SelectedOf(c.plan)))
      BY <3>1, ComparisonAsks
    <3>3. Len(SelectedOf(c.plan)) \in Nat
      BY <3>2, ToSetMember
    <3>4. QED
      BY <3>3
  <2>5. NextCompared(c, i, es)
    BY <2>1
  <2> HIDE DEF i, es
  <2>6. QED
    BY <1>1, <2>2, <2>3, <2>4, <2>5, ComparisonNext
<1>2. CASE c.status # "run"
  <2>1. /\ pc' = "done"
        /\ answer' = Answered(CASE c.status = "clarify" -> "clarification_required"
                                [] c.status = "empty" -> "not_found"
                                [] c.status = "invalid" -> "invalid_tool_arguments")
    BY <1>2 DEF Dispatch
  <2>2. \E s \in {"clarification_required", "not_found", "invalid_tool_arguments"} :
           answer' = Answered(s)
    BY <1>2, <2>1
  <2>3. answer'.status \notin {"exact_match", "matching_products"}
    BY <2>2, AnsweredStatus
  <2>4. QED
    BY <2>1, <2>3, CollectionKept, ComparisonDone
<1>3. QED
  BY <1>1, <1>2

\* What is known while a product of a comparison is looked up.
LEMMA LookingUp ==
  ASSUME Prepared, Comparing, IsCompare, pc \in Calls \ {"resolve"}
  PROVE  /\ WellFormed(request.plan) /\ Sound(compiled, request.plan)
         /\ compiled.status = "run" /\ AtEntity(compiled, branch, entries, always)
         /\ branch \in Nat /\ branch # 0 /\ branch <= Len(SelectedOf(compiled.plan))
         /\ Sought(compiled, branch).product \in Points
         /\ LooksFor(Args, Sought(compiled, branch).product)
<1>1. AtEntity(compiled, branch, entries, always)
  BY DEF Comparing
<1>2. compiled.status = "run" /\ branch \in DOMAIN SelectedOf(compiled.plan)
      /\ Sought(compiled, branch).status = "resolved"
  BY <1>1 DEF AtEntity
<1>3. IsPlan /\ request.plan.op = "compare"
  BY DEF IsCompare
<1>4. WellFormed(request.plan) /\ Sound(compiled, request.plan)
  BY <1>2, <1>3, RunSound
<1>5. compiled.plan.op = "compare"
  BY <1>3, <1>4 DEF Sound, PlanKeys
<1>6. /\ SelectedOf(compiled.plan) \in Seq(ToSet(SelectedOf(compiled.plan)))
      /\ \A i \in DOMAIN SelectedOf(compiled.plan) :
           Sought(compiled, i).status = "resolved" =>
             /\ Sought(compiled, i).product \in Points
             /\ LooksFor(compiled.args[i], Sought(compiled, i).product)
  BY <1>4, <1>5, ComparisonAsks DEF Sought
<1>7. branch \in 1 .. Len(SelectedOf(compiled.plan)) /\ Len(SelectedOf(compiled.plan)) \in Nat
  BY <1>2, <1>6, ToSetMember
<1>8. QED
  BY <1>1, <1>2, <1>4, <1>6, <1>7 DEF Args

\* The search for one product ends with it, if it was there all the time.
LEMMA ComparisonSearchEnds ==
  ASSUME Prepared, Comparing, IsCompare, pc \in Calls \ {"resolve"}, UNCHANGED collection,
         NEW r, EndSearch(r),
         There(Sought(compiled, branch), always) =>
           Shown(r) # Absent /\ Same(Shown(r), Sought(compiled, branch).product)
  PROVE  Comparing'
<1> DEFINE entry == [id |-> SelectedOf(compiled.plan)[branch].id, product |-> Shown(r)]
           es == Append(entries, entry)
           i == branch + 1
<1>1. NextCompared(compiled, i, es)
  BY DEF EndSearch
<1>2. entry.product = Shown(r)
  OBVIOUS
<1>3. /\ WellFormed(request.plan) /\ Sound(compiled, request.plan) /\ compiled.status = "run"
      /\ AtEntity(compiled, branch, entries, always)
      /\ branch \in Nat /\ branch # 0 /\ branch <= Len(SelectedOf(compiled.plan))
  BY LookingUp
<1> HIDE DEF entry
<1>4. es \in Seq(ToSet(es)) /\ Len(es) = branch /\ Entered(compiled, es, always)
  BY <1>2, <1>3, EntryAdded
<1> HIDE DEF es
<1>5. i \in Nat /\ i # 0 /\ i <= Len(SelectedOf(compiled.plan)) + 1 /\ Len(es) = i - 1
  <2>1. Len(SelectedOf(compiled.plan)) \in Nat
    <3>1. compiled.plan.op = "compare"
      BY <1>3 DEF Sound, PlanKeys, IsCompare
    <3>2. SelectedOf(compiled.plan) \in Seq(ToSet(SelectedOf(compiled.plan)))
      BY <1>3, <3>1, ComparisonAsks
    <3>3. QED
      BY <3>2, ToSetMember
  <2>2. QED
    BY <1>3, <1>4, <2>1
<1> HIDE DEF i
<1>6. QED
  BY <1>1, <1>3, <1>4, <1>5, ComparisonNext

\* One step of the search for one product of a comparison.
LEMMA CompareStaysOn ==
  ASSUME Prepared, Comparing, IsCompare, pc \in Calls \ {"resolve"}, UNCHANGED collection,
         UNCHANGED <<compiled, branch, entries>>,
         pc' \in {"count", "loose", "strict", "stages", "alternatives"},
         "loose" \in DOMAIN found',
         pc' \notin {"count", "loose"} => FoundLoosely(compiled, branch, found'.loose, always)
  PROVE  Comparing'
<1>1. AtEntity(compiled, branch, entries, always)
  BY LookingUp
<1>2. /\ compiled' = compiled /\ branch' = branch /\ entries' = entries
      /\ always' = always /\ always' \subseteq store' /\ store' \subseteq Points
  BY CollectionKept
<1>3. AtEntity(compiled', branch', entries', always')
  BY <1>1, <1>2
<1>4. pc' \notin {"count", "loose"} => FoundLoosely(compiled', branch', found'.loose, always')
  BY <1>2
<1>5. QED
  BY <1>2, <1>3, <1>4, ComparisonOn

LEMMA CompareFails ==
  ASSUME Comparing, UNCHANGED collection, NEW status,
         status \notin {"exact_match", "matching_products"}, End(Answered(status))
  PROVE  Comparing'
BY CollectionKept, ComparisonDone, AnsweredStatus DEF End

LEMMA CompareCounts ==
  ASSUME Prepared, Comparing, IsCompare, CountCandidates
  PROVE  Comparing'
<1>1. pc = "count"
  BY DEF CountCandidates
<1>2. pc \in Calls \ {"resolve"}
  BY <1>1 DEF Calls
<1>3. LooksFor(Args, Sought(compiled, branch).product)
  BY <1>2, LookingUp
<1>4. HasIdentifier(Args)
  <2>1. Args.product_id # Absent
    BY <1>3 DEF LooksFor
  <2>2. QED
    BY <2>1 DEF HasIdentifier
<1>5. \E f \in {[found EXCEPT !.count = Cardinality(Accepted(Args, store))]} : Proceed("loose", f)
  BY <1>4 DEF CountCandidates
<1>6. /\ pc' = "loose" /\ UNCHANGED collection /\ UNCHANGED <<compiled, branch, entries>>
      /\ DOMAIN found' = DOMAIN found
  BY <1>5 DEF Proceed
<1>7. "loose" \in DOMAIN found
  BY <1>2 DEF Comparing
<1>8. QED
  BY <1>2, <1>6, <1>7, CompareStaysOn

LEMMA CompareLooksLoosely ==
  ASSUME Prepared, Comparing, IsCompare, LookUpLoosely
  PROVE  Comparing'
<1>1. pc = "loose"
  BY DEF LookUpLoosely
<1>2. pc \in Calls \ {"resolve"}
  BY <1>1 DEF Calls
<1> DEFINE loose == ExactLoose(Args, store)
<1>3. "loose" \in DOMAIN found
  BY <1>2 DEF Comparing
<1>4. found' = [found EXCEPT !.loose = loose]
      /\ pc' = "strict" /\ UNCHANGED collection /\ UNCHANGED <<compiled, branch, entries>>
  BY DEF LookUpLoosely, Proceed
<1>5. FoundLoosely(compiled, branch, loose, always)
  <2>1. LooksFor(Args, Sought(compiled, branch).product)
    BY <1>2, LookingUp
  <2>2. always \subseteq store /\ store \subseteq Points
    BY DEF Comparing
  <2>3. /\ Sought(compiled, branch).product \in store => Sought(compiled, branch).product \in loose
        /\ \A p \in loose : p \in store /\ Same(p, Sought(compiled, branch).product)
    BY <2>1, <2>2, LookedUp
  <2> HIDE DEF loose
  <2>4. QED
    BY <2>2, <2>3 DEF FoundLoosely
<1> HIDE DEF loose
<1>6. "loose" \in DOMAIN found' /\ found'.loose = loose
  BY <1>3, <1>4
<1>7. QED
  BY <1>2, <1>4, <1>5, <1>6, CompareStaysOn

LEMMA CompareLooksStrictly ==
  ASSUME Prepared, Comparing, IsCompare, LookUpStrictly
  PROVE  Comparing'
<1>1. pc = "strict"
  BY DEF LookUpStrictly
<1>2. pc \in Calls \ {"resolve"}
  BY <1>1 DEF Calls
<1> DEFINE strict == ExactStrict(Args, store)
           key == [p \in strict |-> <<Place[p], 0>>]
           score == [p \in strict |-> 100]
           hits == Hits(Ordered(strict, key), score)
           top == TopIds(hits)
<1>3. LooksFor(Args, Sought(compiled, branch).product)
  BY <1>2, LookingUp
<1>4. store \subseteq Points
  BY DEF Comparing
<1>5. strict \subseteq Points /\ \A p \in strict : Same(p, Sought(compiled, branch).product)
  BY <1>3, <1>4, LookedUp
<1>6. UNCHANGED collection
  BY DEF LookUpStrictly, EndShowing, Proceed
<1>7. CASE strict # {}
  <2>1. EndShowing(top, "exact_match", Cardinality(strict))
    BY <1>7 DEF LookUpStrictly
  <2>2. Keyed(strict, key)
    <3>1. IsFiniteSet(strict)
      BY <1>5, CatalogAssumption, FS_Subset
    <3>2. \A p \in strict : key[p][1] = Place[p] /\ key[p][2] = 0
      OBVIOUS
    <3> HIDE DEF key, strict
    <3>3. QED
      BY <1>5, <3>1, <3>2, RankingAssumption DEF Keyed
  <2>3. \A p \in strict : score[p] \in Int
    OBVIOUS
  <2> HIDE DEF key, score, strict
  <2>4. Listing(hits, strict) /\ hits # <<>>
    BY <1>5, <1>7, <2>2, <2>3, HitsFacts
  <2>5. Rankable(Args)
    BY <1>3 DEF LooksFor
  <2> HIDE DEF hits
  <2>6. top # <<>> /\ top[1] \in strict
    BY <1>5, <2>4, <2>5, TopIdsFacts
  <2>7. CASE HydrateFails(ToSet(top))
    <3>1. End(Answered("unavailable"))
      BY <2>1, <2>7 DEF EndShowing
    <3> DEFINE s == "unavailable"
    <3>2. s \notin {"exact_match", "matching_products"} /\ End(Answered(s))
      BY <3>1
    <3> HIDE DEF s
    <3>3. QED
      BY <1>6, <3>2, CompareFails
  <2>8. CASE ~ HydrateFails(ToSet(top))
    <3> DEFINE r == [Answered("exact_match") EXCEPT !.items = top, !.strict = Cardinality(strict)]
    <3>1. EndSearch(r)
      BY <2>1, <2>8 DEF EndShowing
    <3>2. r.requested = Absent /\ r.items = top
      BY DEF Answered, NoAnswer
    <3> HIDE DEF r, top
    <3>3. Shown(r) = top[1]
      BY <2>6, <3>2 DEF Shown
    <3>4. Shown(r) # Absent /\ Same(Shown(r), Sought(compiled, branch).product)
      BY <1>5, <2>6, <3>3, CatalogAssumption
    <3>5. QED
      BY <1>2, <1>6, <3>1, <3>4, ComparisonSearchEnds
  <2>9. QED
    BY <2>7, <2>8
<1>8. CASE strict = {}
  <2>1. End(Answered("unavailable")) \/ Proceed("stages", found)
    BY <1>8 DEF LookUpStrictly
  <2>2. CASE End(Answered("unavailable"))
    <3> DEFINE s == "unavailable"
    <3>1. s \notin {"exact_match", "matching_products"} /\ End(Answered(s))
      BY <2>2
    <3> HIDE DEF s
    <3>2. QED
      BY <1>6, <3>1, CompareFails
  <2>3. CASE Proceed("stages", found)
    <3>1. pc' = "stages" /\ found' = found /\ UNCHANGED <<compiled, branch, entries>>
      BY <2>3 DEF Proceed
    <3>2. "loose" \in DOMAIN found /\ FoundLoosely(compiled, branch, found.loose, always)
      BY <1>1, <1>2 DEF Comparing
    <3>3. QED
      BY <1>2, <1>6, <3>1, <3>2, CompareStaysOn
  <2>4. QED
    BY <2>1, <2>2, <2>3
<1>9. QED
  BY <1>7, <1>8

LEMMA CompareEndsAlternatives ==
  ASSUME Prepared, Comparing, IsCompare, pc \in {"stages", "alternatives"}, UNCHANGED collection,
         NEW picked, EndAlternatives(picked)
  PROVE  Comparing'
<1>1. pc \in Calls \ {"resolve"}
  BY DEF Calls
<1>2. FoundLoosely(compiled, branch, found.loose, always)
  BY <1>1 DEF Comparing
<1> DEFINE ids == IdsOf(picked)
           status == IF Requested # Absent THEN "exact_conflict"
                     ELSE IF ids # <<>> THEN "alternatives" ELSE "not_found"
           relaxed == {f \in UNION {p.relaxed : p \in ToSet(picked)} : AskedFor(f)}
           conflicts == IF Requested = Absent THEN {} ELSE Conflicts(Args, Products[Requested])
           r == [Answered(status) EXCEPT
                   !.items = ids, !.requested = Requested, !.relaxed = relaxed,
                   !.conflicts = conflicts]
<1>3. CASE HydrateFails(ToSet(ids))
  <2>1. End(Answered("unavailable"))
    BY <1>3 DEF EndAlternatives
  <2> DEFINE s == "unavailable"
  <2>2. s \notin {"exact_match", "matching_products"} /\ End(Answered(s))
    BY <2>1
  <2> HIDE DEF s
  <2>3. QED
    BY <2>2, CompareFails
<1>4. CASE ~ HydrateFails(ToSet(ids))
  <2>1. EndSearch(r)
    BY <1>4 DEF EndAlternatives
  <2> HIDE DEF status, relaxed, conflicts, ids
  <2>2. r.requested = Requested
    BY DEF Answered, NoAnswer
  <2> HIDE DEF r
  <2>3. There(Sought(compiled, branch), always) =>
           Shown(r) # Absent /\ Same(Shown(r), Sought(compiled, branch).product)
    <3>1. SUFFICES ASSUME There(Sought(compiled, branch), always)
                   PROVE  Shown(r) # Absent /\ Same(Shown(r), Sought(compiled, branch).product)
      OBVIOUS
    <3>2. found.loose # {} /\ found.loose \subseteq Points
      BY <1>2, <3>1 DEF FoundLoosely, There
    <3>3. Requested \in found.loose /\ Requested # Absent
      BY <3>2, RequestedFound
    <3>4. Shown(r) = Requested
      BY <2>2, <3>3 DEF Shown
    <3>5. QED
      BY <1>2, <3>3, <3>4 DEF FoundLoosely
  <2>4. QED
    BY <1>1, <2>1, <2>3, ComparisonSearchEnds
<1>5. QED
  BY <1>3, <1>4

LEMMA CompareCountsStage ==
  ASSUME Prepared, Comparing, IsCompare, CountStage
  PROVE  Comparing'
<1>1. pc = "stages"
  BY DEF CountStage
<1>2. pc \in Calls \ {"resolve"}
  BY <1>1 DEF Calls
<1>3. "loose" \in DOMAIN found /\ FoundLoosely(compiled, branch, found.loose, always)
  BY <1>1, <1>2 DEF Comparing
<1>4. \/ \E counts : Proceed("stages", [found EXCEPT !.counts = counts])
      \/ EndAlternatives(<<>>) /\ UNCHANGED collection
      \/ \E counts, s : Proceed("alternatives", [found EXCEPT !.counts = counts, !.stage = s])
  BY Zenon DEF CountStage, Counted
<1>5. ASSUME NEW f, NEW next \in {"stages", "alternatives"}, Proceed(next, f),
             "loose" \in DOMAIN f, f.loose = found.loose
      PROVE  Comparing'
  <2>1. /\ pc' = next /\ found' = f /\ UNCHANGED collection
        /\ UNCHANGED <<compiled, branch, entries>>
    BY <1>5 DEF Proceed
  <2>2. QED
    BY <1>2, <1>3, <1>5, <2>1, CompareStaysOn
<1>6. ASSUME NEW counts, Proceed("stages", [found EXCEPT !.counts = counts])
      PROVE  Comparing'
  <2> DEFINE f == [found EXCEPT !.counts = counts]
             next == "stages"
  <2>1. "loose" \in DOMAIN f /\ f.loose = found.loose /\ next \in {"stages", "alternatives"}
        /\ Proceed(next, f)
    BY <1>3, <1>6
  <2> HIDE DEF f, next
  <2>2. QED
    BY <1>5, <2>1
<1>7. ASSUME NEW counts, NEW s,
             Proceed("alternatives", [found EXCEPT !.counts = counts, !.stage = s])
      PROVE  Comparing'
  <2> DEFINE f == [found EXCEPT !.counts = counts, !.stage = s]
             next == "alternatives"
  <2>1. "loose" \in DOMAIN f /\ f.loose = found.loose /\ next \in {"stages", "alternatives"}
        /\ Proceed(next, f)
    BY <1>3, <1>7
  <2> HIDE DEF f, next
  <2>2. QED
    BY <1>5, <2>1
<1>8. CASE EndAlternatives(<<>>) /\ UNCHANGED collection
  BY <1>1, <1>8, CompareEndsAlternatives
<1>9. QED
  BY <1>4, <1>6, <1>7, <1>8

LEMMA CompareAddsAlternatives ==
  ASSUME Prepared, Comparing, IsCompare, SearchAlternatives
  PROVE  Comparing'
<1>1. pc = "alternatives"
  BY DEF SearchAlternatives
<1>2. pc \in Calls \ {"resolve"}
  BY <1>1 DEF Calls
<1>3. "loose" \in DOMAIN found /\ FoundLoosely(compiled, branch, found.loose, always)
  BY <1>1, <1>2 DEF Comparing
<1>4. \/ \E picked : EndAlternatives(picked) /\ UNCHANGED collection
      \/ \E picked, s : Proceed("alternatives", [found EXCEPT !.picked = picked, !.stage = s])
  BY Zenon DEF SearchAlternatives
<1>5. ASSUME NEW picked, NEW s,
             Proceed("alternatives", [found EXCEPT !.picked = picked, !.stage = s])
      PROVE  Comparing'
  <2> DEFINE f == [found EXCEPT !.picked = picked, !.stage = s]
  <2>1. "loose" \in DOMAIN f /\ f.loose = found.loose
    BY <1>3
  <2>2. /\ pc' = "alternatives" /\ found' = f /\ UNCHANGED collection
        /\ UNCHANGED <<compiled, branch, entries>>
    BY <1>5 DEF Proceed
  <2> HIDE DEF f
  <2>3. QED
    BY <1>2, <1>3, <2>1, <2>2, CompareStaysOn
<1>6. ASSUME NEW picked, EndAlternatives(picked), UNCHANGED collection
      PROVE  Comparing'
  BY <1>1, <1>6, CompareEndsAlternatives
<1>7. QED
  BY <1>4, <1>5, <1>6

LEMMA CompareStarts ==
  ASSUME Prepared, Comparing, IsCompare, StartPlan
  PROVE  Comparing'
<1>1. WellFormed(request.plan)
  BY RequestFacts DEF Prepared, IsCompare
<1>2. UNCHANGED collection
  BY DEF StartPlan
<1> DEFINE c == Compile(request.plan, <<>>)
<1>3. \/ c.status \in {"run", "empty"} /\ pc' = "resolve" /\ compiled' = c
      \/ Dispatch(c)
  BY DEF StartPlan
<1>4. c.status \in {"clarify", "empty", "invalid", "run"}
  BY CompileStatus
<1>5. c.status = "run" => Sound(c, request.plan)
  BY <1>1, CompileFacts
<1> HIDE DEF c
<1>6. CASE c.status \in {"run", "empty"} /\ pc' = "resolve" /\ compiled' = c
  <2>1. pc' \notin Calls \ {"resolve"} /\ pc' # "done"
    BY <1>6
  <2>2. ComparedShown'
    BY <2>1 DEF ComparedShown, Done
  <2>3. always' \subseteq store' /\ store' \subseteq Points
    BY <1>2, CollectionKept
  <2>4. QED
    BY <1>6, <2>1, <2>2, <2>3 DEF Comparing
<1>7. CASE Dispatch(c)
  BY <1>1, <1>2, <1>4, <1>5, <1>7, ComparisonDispatched
<1>8. QED
  BY <1>3, <1>6, <1>7

LEMMA CompareResolves ==
  ASSUME Prepared, Comparing, IsCompare, ResolveBySimilarity
  PROVE  Comparing'
<1>1. WellFormed(request.plan) /\ IsPlan /\ pc = "resolve"
  BY RequestFacts DEF Prepared, IsCompare, ResolveBySimilarity
<1>2. UNCHANGED collection
  BY DEF ResolveBySimilarity
<1>3. compiled.status \in {"run", "empty"}
  BY <1>1 DEF Comparing
<1>4. \/ UNCHANGED <<pc, compiled, branch, entries, answer>>
      \/ End(Answered("clarification_required"))
      \/ Dispatch(compiled)
      \/ \E o : Dispatch(Compile(request.plan, o))
  BY Zenon DEF ResolveBySimilarity
<1>5. CASE UNCHANGED <<pc, compiled, branch, entries, answer>>
  <2>1. pc' = "resolve" /\ compiled'.status \in {"run", "empty"}
    BY <1>1, <1>3, <1>5
  <2>2. pc' \notin Calls \ {"resolve"} /\ pc' # "done"
    BY <2>1
  <2>3. ComparedShown'
    BY <2>2 DEF ComparedShown, Done
  <2>4. always' \subseteq store' /\ store' \subseteq Points
    BY <1>2, CollectionKept
  <2>5. QED
    BY <2>1, <2>2, <2>3, <2>4 DEF Comparing
<1>6. CASE End(Answered("clarification_required"))
  <2> DEFINE s == "clarification_required"
  <2>1. s \notin {"exact_match", "matching_products"} /\ End(Answered(s))
    BY <1>6
  <2> HIDE DEF s
  <2>2. QED
    BY <1>2, <2>1, CompareFails
<1>7. CASE Dispatch(compiled)
  <2>1. compiled.status \in {"clarify", "empty", "invalid", "run"}
    BY <1>3
  <2>2. compiled.status = "run" => Sound(compiled, request.plan)
    BY <1>1, RunSound
  <2>3. QED
    BY <1>1, <1>2, <1>7, <2>1, <2>2, ComparisonDispatched
<1>8. ASSUME NEW o, Dispatch(Compile(request.plan, o))
      PROVE  Comparing'
  <2> DEFINE c == Compile(request.plan, o)
  <2>1. c.status \in {"clarify", "empty", "invalid", "run"}
    BY CompileStatus
  <2>2. c.status = "run" => Sound(c, request.plan)
    BY <1>1, CompileFacts
  <2>3. Dispatch(c)
    BY <1>8
  <2> HIDE DEF c
  <2>4. QED
    BY <1>1, <1>2, <2>1, <2>2, <2>3, ComparisonDispatched
<1>9. QED
  BY <1>4, <1>5, <1>6, <1>7, <1>8

LEMMA CompareCallFails ==
  ASSUME Comparing, CallFails
  PROVE  Comparing'
<1> DEFINE s == Failure(pc)
<1>1. s \notin {"exact_match", "matching_products"}
  BY DEF Failure
<1>2. End(Answered(s)) /\ UNCHANGED collection
  BY DEF CallFails
<1> HIDE DEF s
<1>3. QED
  BY <1>1, <1>2, CompareFails

\* The collection changes under the search: what is there all the time only
\* gets less.
LEMMA CompareEdited ==
  ASSUME Comparing, EditCollection
  PROVE  Comparing'
<1>1. /\ pc \in Calls /\ pc' = pc /\ request' = request /\ compiled' = compiled
      /\ branch' = branch /\ found' = found /\ entries' = entries
  BY DEF EditCollection
<1>2. PICK p \in Points :
        /\ store' = IF p \in store THEN store \ {p} ELSE store \cup {p}
        /\ always' = always \ {p}
  BY DEF EditCollection
<1>3. always \subseteq store /\ store \subseteq Points
  BY DEF Comparing
<1>4. always' \subseteq always /\ always' \subseteq store' /\ store' \subseteq Points
  BY <1>2, <1>3
<1>5. pc' # "done"
  BY <1>1 DEF Calls
<1>6. ComparedShown'
  BY <1>5 DEF ComparedShown, Done
<1>7. IsCompare' = IsCompare
  BY <1>1 DEF IsCompare, IsPlan
<1>8. IsCompare' /\ pc' = "resolve" => compiled'.status \in {"run", "empty"}
  BY <1>1, <1>7 DEF Comparing
<1>9. ASSUME IsCompare', pc' \in Calls \ {"resolve"}
      PROVE  /\ pc' \in {"count", "loose", "strict", "stages", "alternatives"}
             /\ "loose" \in DOMAIN found'
             /\ AtEntity(compiled', branch', entries', always')
             /\ pc' \notin {"count", "loose"} =>
                  FoundLoosely(compiled', branch', found'.loose, always')
  <2>1. /\ pc \in {"count", "loose", "strict", "stages", "alternatives"}
        /\ "loose" \in DOMAIN found
        /\ AtEntity(compiled, branch, entries, always)
        /\ pc \notin {"count", "loose"} => FoundLoosely(compiled, branch, found.loose, always)
    BY <1>1, <1>7, <1>9 DEF Comparing
  <2>2. AtEntity(compiled, branch, entries, always')
    BY <1>4, <2>1, FewerThere
  <2>3. pc \notin {"count", "loose"} => FoundLoosely(compiled, branch, found.loose, always')
    BY <1>4, <2>1, FewerThere
  <2>4. QED
    BY <1>1, <2>1, <2>2, <2>3
<1>10. QED
  BY <1>4, <1>6, <1>8, <1>9 DEF Comparing

\* Only an indexing job changes the collection.
LEMMA StepsLeaveCollection ==
  SearchStep => UNCHANGED collection
<1>1. StartPlan \/ StartFlat \/ ResolveBySimilarity \/ CallFails => UNCHANGED collection
  BY DEF StartPlan, StartFlat, ResolveBySimilarity, CallFails, collection
<1>2. \A n, f : Proceed(n, f) => UNCHANGED collection
  BY DEF Proceed, collection
<1>3. CountCandidates \/ LookUpLoosely => UNCHANGED collection
  BY <1>2 DEF CountCandidates, LookUpLoosely
<1>4. LookUpStrictly => UNCHANGED collection
  BY <1>2 DEF LookUpStrictly
<1>5. SearchCandidates => UNCHANGED collection
  BY <1>2 DEF SearchCandidates
<1>6. SearchLane => UNCHANGED collection
  BY <1>2 DEF SearchLane
<1>7. CountStage => UNCHANGED collection
  BY <1>2 DEF CountStage, Counted
<1>8. SearchAlternatives => UNCHANGED collection
  BY <1>2 DEF SearchAlternatives
<1>9. QED
  BY <1>1, <1>3, <1>4, <1>5, <1>6, <1>7, <1>8 DEF SearchStep

LEMMA InitComparing == Init => Comparing
<1> SUFFICES ASSUME Init PROVE Comparing
  OBVIOUS
<1>1. always = store /\ store \in Stores /\ pc = "start"
  BY DEF Init
<1>2. store \subseteq Points
  BY <1>1, RequestAssumption
<1>3. pc \notin Calls /\ pc # "done"
  BY <1>1 DEF Calls
<1>4. ComparedShown
  BY <1>3 DEF ComparedShown, Done
<1>5. QED
  BY <1>1, <1>2, <1>3, <1>4 DEF Comparing

LEMMA NextComparing == Prepared /\ Comparing /\ [Next]_vars => Comparing'
<1> SUFFICES ASSUME Prepared, Comparing, [Next]_vars PROVE Comparing'
  OBVIOUS
<1>1. CASE EditCollection
  BY <1>1, CompareEdited
<1>2. CASE UNCHANGED vars
  <2>1. /\ store' = store /\ always' = always /\ request' = request /\ pc' = pc
        /\ compiled' = compiled /\ branch' = branch /\ found' = found /\ entries' = entries
        /\ answer' = answer
    BY <1>2 DEF vars
  <2>2. IsCompare' = IsCompare
    BY <2>1 DEF IsCompare, IsPlan
  <2>3. ComparedShown'
    BY <2>1, <2>2 DEF ComparedShown, Comparing, Done
  <2>4. IsCompare' /\ pc' = "resolve" => compiled'.status \in {"run", "empty"}
    BY <2>1, <2>2 DEF Comparing
  <2>5. IsCompare' /\ pc' \in Calls \ {"resolve"} =>
          /\ pc' \in {"count", "loose", "strict", "stages", "alternatives"}
          /\ "loose" \in DOMAIN found'
          /\ AtEntity(compiled', branch', entries', always')
          /\ pc' \notin {"count", "loose"} =>
               FoundLoosely(compiled', branch', found'.loose, always')
    BY <2>1, <2>2 DEF Comparing
  <2>6. QED
    BY <2>1, <2>3, <2>4, <2>5 DEF Comparing
<1>3. CASE SearchStep /\ ~ IsCompare
  <2>1. UNCHANGED collection
    BY <1>3, StepsLeaveCollection
  <2>2. ~ IsCompare' /\ always' \subseteq store' /\ store' \subseteq Points
    BY <1>3, <2>1, CollectionKept
  <2>3. ComparedShown'
    BY <2>2 DEF ComparedShown
  <2>4. QED
    BY <2>2, <2>3 DEF Comparing
<1>4. CASE SearchStep /\ IsCompare
  <2>1. pc \notin {"search", "lane"}
    BY <1>4 DEF Comparing, Calls
  <2>2. ~ StartFlat
    BY <1>4 DEF StartFlat, IsCompare
  <2>3. ~ SearchCandidates /\ ~ SearchLane
    BY <2>1 DEF SearchCandidates, SearchLane
  <2>4. StartPlan \/ ResolveBySimilarity \/ CountCandidates \/ LookUpLoosely \/ LookUpStrictly
          \/ CountStage \/ SearchAlternatives \/ CallFails
    BY <1>4, <2>2, <2>3 DEF SearchStep
  <2>5. QED
    BY <1>4, <2>4, CompareStarts, CompareResolves, CompareCounts, CompareLooksLoosely,
       CompareLooksStrictly, CompareCountsStage, CompareAddsAlternatives, CompareCallFails
<1>5. QED
  BY <1>1, <1>2, <1>3, <1>4 DEF Next

\* A comparison shows every product it was asked to compare that was there
\* all the time, although a product can meet none of the filters, be looked
\* up while points come and go, or come with others of the same id
\* (_execute_comparison and the exact path of _search_flat_with_trace).
THEOREM ProductsCompared == Spec => []ComparedShown
<1>1. Comparing => ComparedShown
  BY DEF Comparing
<1>2. QED
  BY <1>1, InitPrepared, NextPrepared, InitComparing, NextComparing, PTL DEF Spec
-----------------------------------------------------------------------------
(***************************************************************************)
(* What no search gives up                                                 *)
(***************************************************************************)

\* The points that meet what a search may never relax.
Meeting(a) ==
  {q \in Points : Passes(a.filter, Products[q]) /\ MeetsRequired(a, Products[q])}

\* Arguments that ask for all of that, and are ranked by the same.
Kept(a, b) ==
  /\ DOMAIN a = DOMAIN NoArguments /\ DOMAIN b = DOMAIN NoArguments
  /\ b.filter = a.filter /\ b.category_id = a.category_id /\ b.max_price = a.max_price
  /\ b.in_stock = a.in_stock /\ b.required = a.required
  /\ b.sort = a.sort /\ b.objectives = a.objectives /\ b.preference = a.preference
  /\ \A f \in a.required \cap RequirableFields : a[f] # Absent => b[f] = a[f]

LEMMA KeptMeets ==
  ASSUME NEW a, NEW b, Kept(a, b), NEW q \in Points,
         StructuredHolds(b, Products[q]), ExpressionHolds(b, Products[q])
  PROVE  q \in Meeting(a)
<1> DEFINE x == Products[q]
<1>1. /\ b.filter = a.filter /\ b.category_id = a.category_id /\ b.max_price = a.max_price
      /\ b.in_stock = a.in_stock
      /\ \A f \in a.required \cap RequirableFields : a[f] # Absent => b[f] = a[f]
  BY DEF Kept
<1>2. /\ \A f \in {"category_id", "color_code", "in_stock", "ram_gb"} : b[f] \in {Absent, x[f]}
      /\ \A f \in {"brand", "model_family"} : b[f] = Absent \/ Same(b[f], x[f])
      /\ b.max_price = Absent \/ x.price <= b.max_price
  BY DEF StructuredHolds
<1>3. b.category_id \in {Absent, x.category_id} /\ b.in_stock \in {Absent, x.in_stock}
  BY <1>2
<1>4. Passes(a.filter, x)
  BY <1>1 DEF Passes, ExpressionHolds
<1> HIDE DEF x
<1>5. ASSUME NEW f \in a.required \cap RequirableFields, a[f] # Absent
      PROVE  Same(a[f], x[f])
  <2>1. b[f] = a[f] /\ b[f] # Absent
    BY <1>1, <1>5
  <2>2. f \in {"brand", "model_family"} \/ f \in {"color_code", "ram_gb"}
    BY DEF RequirableFields
  <2>3. b[f] = x[f] \/ Same(b[f], x[f])
    BY <1>2, <2>1, <2>2
  <2>4. QED
    BY <2>1, <2>3 DEF Same
<1>6. MeetsRequired(a, x)
  BY <1>1, <1>2, <1>3, <1>5 DEF MeetsRequired
<1>7. QED
  BY <1>4, <1>6 DEF Meeting, x

LEMMA KeptSelf ==
  ASSUME NEW a, DOMAIN a = DOMAIN NoArguments
  PROVE  Kept(a, a)
BY DEF Kept

LEMMA KeptAlong ==
  ASSUME NEW a, NEW b, NEW c, Kept(a, b), Kept(b, c)
  PROVE  Kept(a, c)
BY DEF Kept

\* What accepts and is looked up under arguments like these meets them.
LEMMA AcceptedMeet ==
  ASSUME NEW a, NEW b, Kept(a, b), NEW points, points \subseteq Points
  PROVE  Accepted(b, points) \subseteq Meeting(a) /\ ExactStrict(b, points) \subseteq Meeting(a)
<1>1. \A q \in Accepted(b, points) :
        q \in Points /\ StructuredHolds(b, Products[q]) /\ ExpressionHolds(b, Products[q])
  BY DEF Accepted
<1>2. \A q \in ExactStrict(b, points) :
        q \in Points /\ StructuredHolds(b, Products[q]) /\ ExpressionHolds(b, Products[q])
  BY DEF ExactStrict, ExactLoose
<1>3. QED
  BY <1>1, <1>2, KeptMeets

\* Giving up the identifiers keeps the rest.
LEMMA AlternativeBaseKept ==
  ASSUME NEW a, DOMAIN a = DOMAIN NoArguments, NEW spoken
  PROVE  /\ Kept(a, AlternativeBase(a, spoken))
         /\ AlternativeBase(a, spoken).limit = Min({a.limit, AlternativeLimit})
<1> DEFINE limit == Min({a.limit, AlternativeLimit})
           base == [a EXCEPT !.product_id = Absent, !.sku = Absent, !.model = Absent,
                             !.limit = limit]
           scope == {p \in Loaded : a.category_id \in {Absent, Products[p].category_id}}
           named(field) == {Products[p][field] : p \in scope} \cap spoken
           phrase(field) ==
             IF a[field] # Absent \/ named(field) = {} THEN a[field] ELSE TheOnly(named(field))
           brand == phrase("brand")
           family == phrase("model_family")
           b == AlternativeBase(a, spoken)
<1>1. b = IF a.compiled THEN base ELSE [base EXCEPT !.brand = brand, !.model_family = family]
  BY DEF AlternativeBase
<1>2. (a["brand"] # Absent => brand = a["brand"])
      /\ (a["model_family"] # Absent => family = a["model_family"])
  OBVIOUS
<1> HIDE DEF brand, family, limit
<1>3. /\ DOMAIN base = DOMAIN a /\ base.limit = limit
      /\ \A f \in DOMAIN a \ {"product_id", "sku", "model", "limit"} : base[f] = a[f]
  BY DEF NoArguments
<1> HIDE DEF base
<1>4. /\ DOMAIN b = DOMAIN a /\ b.limit = limit
      /\ \A f \in DOMAIN a \ {"product_id", "sku", "model", "limit", "brand", "model_family"} :
           b[f] = a[f]
      /\ b["brand"] \in {base["brand"], brand}
      /\ b["model_family"] \in {base["model_family"], family}
  BY <1>1, <1>3 DEF NoArguments
<1> HIDE DEF b
<1>5. /\ b.filter = a.filter /\ b.category_id = a.category_id /\ b.max_price = a.max_price
      /\ b.in_stock = a.in_stock /\ b.required = a.required
      /\ b.sort = a.sort /\ b.objectives = a.objectives /\ b.preference = a.preference
  BY <1>4 DEF NoArguments
<1>6. base["brand"] = a["brand"] /\ base["model_family"] = a["model_family"]
  BY <1>3 DEF NoArguments
<1>7. \A f \in RequirableFields : a[f] # Absent => b[f] = a[f]
  <2>1. b["color_code"] = a["color_code"] /\ b["ram_gb"] = a["ram_gb"]
    BY <1>4 DEF NoArguments
  <2>2. a["brand"] # Absent => b["brand"] = a["brand"]
    BY <1>2, <1>4, <1>6
  <2>3. a["model_family"] # Absent => b["model_family"] = a["model_family"]
    BY <1>2, <1>4, <1>6
  <2>4. QED
    BY <2>1, <2>2, <2>3 DEF RequirableFields
<1>8. Kept(a, b)
  BY <1>4, <1>5, <1>7 DEF Kept
<1>9. QED
  BY <1>4, <1>8 DEF b, limit

\* The stages of a relaxation, which all keep what is required.
LEMMA StagesKept ==
  ASSUME NEW a, DOMAIN a = DOMAIN NoArguments
  PROVE  /\ StagesOf(a) \in Seq(ToSet(StagesOf(a))) /\ Len(StagesOf(a)) >= 1
         /\ \A x \in ToSet(StagesOf(a)) : Kept(a, x.args) /\ x.args.limit = a.limit
<1> DEFINE given(b, g) == {f \in ToSet(Relaxable[g]) : f \notin a.required /\ b[f] # Absent}
           kept(s, fields) == Chosen(s, {i \in DOMAIN s : s[i].field \in fields})
           bounds(b, g) ==
             IF g = 2 THEN {p \in ToSet(b.attributes) : p.field \notin a.required} ELSE {}
           removed(b, g) == given(b, g) \cup {p.field : p \in bounds(b, g)}
           relax(b, g) ==
             [f \in DOMAIN b |->
                IF f \in given(b, g) THEN Absent
                ELSE IF f = "attributes" /\ g = 2 THEN kept(b.attributes, a.required)
                ELSE b[f]]
           next(stages, g) ==
             IF removed(Last(stages).args, g) = {} THEN stages
             ELSE Append(stages, [args |-> relax(Last(stages).args, g),
                                  relaxed |-> Last(stages).relaxed \cup removed(Last(stages).args, g)])
           first == <<[args |-> a, relaxed |-> {}]>>
           Staged(s) == /\ s \in Seq(ToSet(s)) /\ Len(s) >= 1
                        /\ \A x \in ToSet(s) : Kept(a, x.args) /\ x.args.limit = a.limit
<1>1. StagesOf(a) = next(next(next(first, 1), 2), 3)
  BY DEF StagesOf
<1>2. ASSUME NEW b, Kept(a, b), NEW g \in 1 .. 3
      PROVE  Kept(a, relax(b, g)) /\ relax(b, g).limit = b.limit
  <2> DEFINE r == relax(b, g)
  <2>1. \A f \in given(b, g) :
          f \in {"color_code", "min_price", "ram_gb", "brand", "model_family"} /\ f \notin a.required
    BY DEF Relaxable, ToSet
  <2>2. /\ DOMAIN r = DOMAIN b
        /\ \A f \in DOMAIN b : f \notin given(b, g) /\ f # "attributes" => r[f] = b[f]
    OBVIOUS
  <2> HIDE DEF r, given
  <2>3. DOMAIN b = DOMAIN NoArguments
    BY <1>2 DEF Kept
  <2>4. /\ r.filter = b.filter /\ r.category_id = b.category_id /\ r.max_price = b.max_price
        /\ r.in_stock = b.in_stock /\ r.required = b.required /\ r.limit = b.limit
        /\ r.sort = b.sort /\ r.objectives = b.objectives /\ r.preference = b.preference
    BY <2>1, <2>2, <2>3 DEF NoArguments
  <2>5. \A f \in a.required \cap RequirableFields : r[f] = b[f]
    BY <2>1, <2>2, <2>3 DEF NoArguments, RequirableFields
  <2>6. Kept(a, r)
    BY <1>2, <2>2, <2>4, <2>5 DEF Kept
  <2>7. QED
    BY <2>4, <2>6 DEF r
<1> HIDE DEF relax
<1>3. ASSUME NEW s, Staged(s), NEW g \in 1 .. 3
      PROVE  Staged(next(s, g))
  <2> DEFINE x == Last(s)
             more == [args |-> relax(Last(s).args, g),
                      relaxed |-> Last(s).relaxed \cup removed(Last(s).args, g)]
             all == Append(s, more)
             S == ToSet(s) \cup {more}
  <2>1. s \in Seq(ToSet(s)) /\ Len(s) >= 1 /\ DOMAIN s = 1 .. Len(s) /\ Len(s) \in Nat
        /\ \A i \in DOMAIN s : s[i] \in ToSet(s)
    BY <1>3, ToSetMember
  <2>2. x \in ToSet(s)
    BY <2>1 DEF Last
  <2>3. Kept(a, x.args) /\ x.args.limit = a.limit
    BY <1>3, <2>2
  <2>4. next(s, g) = s \/ next(s, g) = all
    OBVIOUS
  <2>5. more.args = relax(x.args, g)
    OBVIOUS
  <2> HIDE DEF more, removed, next, x
  <2>6. Kept(a, more.args) /\ more.args.limit = a.limit
    BY <1>2, <2>3, <2>5
  <2>7. s \in Seq(S) /\ more \in S
    BY <2>1, SeqMonotonic
  <2>8. all \in Seq(S) /\ ToSet(all) = ToSet(s) \cup {more} /\ Len(all) = Len(s) + 1
    <3> HIDE DEF S
    <3>1. QED
      BY <2>7, ToSetAppend
  <2> HIDE DEF all
  <2>9. Staged(all)
    BY <1>3, <2>1, <2>6, <2>8, ToSetMember
  <2>10. QED
    BY <1>3, <2>4, <2>9
<1> HIDE DEF next
<1>4. Staged(first)
  <2> DEFINE x == [args |-> a, relaxed |-> {}]
  <2>1. x.args = a
    OBVIOUS
  <2>2. first = Append(<<>>, x)
    OBVIOUS
  <2> DEFINE X == {x}
  <2>3. x \in X
    OBVIOUS
  <2> HIDE DEF x, first, X
  <2>4. Append(<<>>, x) \in Seq(X) /\ ToSet(Append(<<>>, x)) = {} \cup {x}
        /\ Len(Append(<<>>, x)) = 0 + 1
    BY <2>3, ToSetAppend, ToSetEmpty
  <2>5. first \in Seq(ToSet(first)) /\ ToSet(first) = {x} /\ Len(first) = 1
    BY <2>2, <2>4, ToSetMember
  <2>6. Kept(a, a)
    BY KeptSelf
  <2>7. QED
    BY <2>1, <2>5, <2>6
<1> HIDE DEF first
<1>5. \A s : \A g \in 1 .. 3 : Staged(s) => Staged(next(s, g))
  BY <1>3
<1> HIDE DEF Staged
<1>6. Staged(next(next(next(first, 1), 2), 3))
  BY <1>4, <1>5
<1>7. Staged(StagesOf(a))
  BY <1>1, <1>6
<1>8. QED
  BY <1>7 DEF Staged
-----------------------------------------------------------------------------
(***************************************************************************)
(* A search that is not a comparison                                       *)
(***************************************************************************)

\* The search under way is one of those compiled.
UnderWay == ~ IsCompare /\ compiled.status = "run" /\ branch \in DOMAIN compiled.args

\* What a product shown has to meet.
Wished(q) ==
  IF IsPlan THEN MeetsPlan(compiled.plan, Products[q]) ELSE MeetsRequired(Args, Products[q])

\* The arguments of a search of a plan, and what they say of its conditions.
LEMMA PlanSearchFacts ==
  ASSUME NEW c, NEW source, WellFormed(source), Sound(c, source), NEW a \in ToSet(c.args)
  PROVE  /\ DOMAIN a = DOMAIN NoArguments /\ Rankable(a) /\ NumericObjectives(a.objectives)
         /\ \A q \in Meeting(a) \cap Loaded : MeetsPlan(c.plan, Products[q])
<1>1. /\ DOMAIN a = DOMAIN NoArguments
      /\ a.sort = c.plan.sort /\ a.limit = Min({c.plan.limit, 3})
      /\ a.preference = c.plan.preference /\ a.objectives = c.plan.objectives
  BY ArgumentsRank
<1>2. c.plan.sort = source.sort /\ c.plan.limit = source.limit
  BY DEF Sound, PlanKeys
<1>3. source.sort \in DOMAIN SortGoals \cup {"relevance"} /\ source.limit \in 1 .. 3
  BY WellFormedFacts
<1>4. a.limit \in Nat \ {0}
  <2>1. c.plan.limit \in Int /\ 3 \in Int /\ c.plan.limit >= 1
    BY <1>2, <1>3
  <2>2. Min({c.plan.limit, 3}) = IF c.plan.limit <= 3 THEN c.plan.limit ELSE 3
    BY <2>1, MinOfTwo
  <2>3. QED
    BY <1>1, <2>1, <2>2
<1>5. Opt(a.preference, MaxDepth)
  <2> DEFINE m == 7
             x == c.plan.preference
  <2>1. Opt(x, m)
    BY DEF Sound, Expressions
  <2>2. MaxDepth \in 1 .. MaxDepth /\ m <= MaxDepth
    BY DepthNat
  <2>3. a.preference = x
    BY <1>1
  <2> HIDE DEF m, x
  <2>4. QED
    BY <2>1, <2>2, <2>3, OptMore
<1>6. NumericObjectives(a.objectives)
  BY <1>1 DEF Sound, NumericObjectives
<1>7. Rankable(a)
  BY <1>1, <1>2, <1>3, <1>4, <1>5, <1>6 DEF Rankable, NumericObjectives
<1>8. ASSUME NEW q \in Meeting(a) \cap Loaded
      PROVE  MeetsPlan(c.plan, Products[q])
  <2>1. q \in Loaded /\ Passes(a.filter, Products[q])
    BY DEF Meeting
  <2>2. \A e \in {c.plan.filter, SelectionFilter(c.plan.selection)} :
          AskedInFull(e) => Matches(e, Products[q])
    BY <2>1, ArgumentsMeet
  <2>3. QED
    BY <2>2 DEF MeetsPlan
<1>9. QED
  BY <1>1, <1>6, <1>7, <1>8

\* The arguments of a flat search.
LEMMA FlatSearchFacts ==
  ASSUME NEW a, IsFlat(a)
  PROVE  /\ DOMAIN Canonicalize(a) = DOMAIN NoArguments /\ Rankable(Canonicalize(a))
         /\ NumericObjectives(Canonicalize(a).objectives)
<1> DEFINE b == Canonicalize(a)
<1>1. /\ DOMAIN b = DOMAIN a
      /\ \A f \in DOMAIN a \ {"brand", "model_family", "model"} : b[f] = a[f]
  BY DEF Canonicalize
<1> HIDE DEF b
<1>2. /\ DOMAIN a = DOMAIN NoArguments
      /\ a.sort \in DOMAIN SortGoals \cup {"relevance"} /\ a.limit \in 1 .. 5
      /\ a.preference = NoExpr /\ a.objectives = <<>>
  BY DEF IsFlat
<1>3. b.sort = a.sort /\ b.limit = a.limit /\ b.preference = NoExpr /\ b.objectives = <<>>
  BY <1>1, <1>2 DEF NoArguments
<1>4. b.limit \in Nat \ {0}
  BY <1>2, <1>3
<1>5. ToSet(b.objectives) = {} /\ b.objectives \in Seq(ToSet(b.objectives))
  <2> DEFINE none == b.objectives
  <2>1. none = <<>>
    BY <1>3
  <2> HIDE DEF none
  <2>2. none \in Seq(ToSet(none)) /\ ToSet(none) = {}
    BY <2>1, EmptySeq, ToSetEmpty
  <2>3. QED
    BY <2>2 DEF none
<1>6. NumericObjectives(b.objectives)
  BY <1>5 DEF NumericObjectives
<1>7. Rankable(b)
  BY <1>2, <1>3, <1>4, <1>5 DEF Rankable, Opt
<1>8. QED
  BY <1>1, <1>2, <1>6, <1>7 DEF b

LEMMA FlatRequest ==
  ASSUME request \in Requests, ~ IsPlan
  PROVE  IsFlat(request.args)
<1>1. request.args \in FlatArguments
  BY RequestFacts
<1>2. QED
  BY <1>1, RequestAssumption

LEMMA SearchFacts ==
  ASSUME Prepared, UnderWay
  PROVE  /\ DOMAIN Args = DOMAIN NoArguments /\ Rankable(Args)
         /\ NumericObjectives(Args.objectives)
         /\ DOMAIN compiled.args = 1 .. Len(compiled.args) /\ Len(compiled.args) \in Nat
         /\ \A q \in Meeting(Args) \cap Loaded : Wished(q)
<1>1. compiled.status = "run" /\ branch \in DOMAIN compiled.args /\ ~ IsCompare
  BY DEF UnderWay
<1>2. CASE IsPlan
  <2>1. WellFormed(request.plan) /\ Sound(compiled, request.plan)
    BY <1>1, <1>2, RunSound
  <2>2. compiled.plan.op # "compare"
    BY <1>1, <1>2, <2>1 DEF Sound, PlanKeys, IsCompare
  <2>3. compiled.args \in Seq(ToSet(compiled.args))
        /\ DOMAIN compiled.args = 1 .. Len(compiled.args) /\ Len(compiled.args) \in Nat
    BY <2>1, <2>2, SearchesThere
  <2>4. Args \in ToSet(compiled.args)
    BY <1>1, <2>3, ToSetMember DEF Args
  <2>5. /\ DOMAIN Args = DOMAIN NoArguments /\ Rankable(Args)
        /\ NumericObjectives(Args.objectives)
        /\ \A q \in Meeting(Args) \cap Loaded : MeetsPlan(compiled.plan, Products[q])
    BY <2>1, <2>4, PlanSearchFacts
  <2>6. QED
    BY <1>2, <2>3, <2>5 DEF Wished
<1>3. CASE ~ IsPlan
  <2> DEFINE b == Canonicalize(request.args)
  <2>1. compiled = FlatCompilation
    BY <1>1, <1>3 DEF Prepared, NotCompiled, Compilation
  <2>2. compiled.args = <<b>>
    BY <2>1 DEF FlatCompilation, Compilation
  <2> HIDE DEF b
  <2>3. DOMAIN compiled.args = 1 .. 1 /\ Len(compiled.args) = 1 /\ compiled.args[1] = b
    BY <2>2
  <2>4. Args = b
    BY <1>1, <2>3 DEF Args
  <2>5. IsFlat(request.args)
    BY <1>3, FlatRequest DEF Prepared
  <2>6. DOMAIN b = DOMAIN NoArguments /\ Rankable(b) /\ NumericObjectives(b.objectives)
    BY <2>5, FlatSearchFacts DEF b
  <2>7. \A q \in Meeting(Args) : MeetsRequired(Args, Products[q])
    BY DEF Meeting
  <2>8. QED
    BY <1>3, <2>3, <2>4, <2>6, <2>7 DEF Wished
<1>4. QED
  BY <1>2, <1>3

\* The stages of the alternatives to a search.
LEMMA StagesFacts ==
  ASSUME Prepared, UnderWay
  PROVE  /\ DOMAIN Stages = 1 .. Len(Stages) /\ Len(Stages) \in Nat /\ Len(Stages) >= 1
         /\ \A i \in DOMAIN Stages : Kept(Args, Stages[i].args) /\ Rankable(Stages[i].args)
<1> DEFINE base == AlternativeBase(Args, Spoken)
<1>1. DOMAIN Args = DOMAIN NoArguments /\ Rankable(Args)
  BY SearchFacts
<1>2. Kept(Args, base) /\ base.limit = Min({Args.limit, AlternativeLimit})
  <2> DEFINE a == Args
  <2>1. DOMAIN a = DOMAIN NoArguments
    BY <1>1
  <2> HIDE DEF a
  <2>2. Kept(a, AlternativeBase(a, Spoken))
        /\ AlternativeBase(a, Spoken).limit = Min({a.limit, AlternativeLimit})
    BY <2>1, AlternativeBaseKept
  <2>3. QED
    BY <2>2 DEF a
<1>3. base.limit \in Nat \ {0}
  <2>1. Args.limit \in Nat \ {0} /\ Args.limit \in Int /\ AlternativeLimit \in Int
        /\ AlternativeLimit = 3
    BY <1>1 DEF Rankable, AlternativeLimit
  <2>2. Min({Args.limit, AlternativeLimit})
          = IF Args.limit <= AlternativeLimit THEN Args.limit ELSE AlternativeLimit
    BY <2>1, MinOfTwo
  <2>3. QED
    BY <1>2, <2>1, <2>2
<1>4. Stages = StagesOf(base)
  BY DEF Stages
<1> HIDE DEF base
<1>5. DOMAIN base = DOMAIN NoArguments
  BY <1>2 DEF Kept
<1>6. /\ Stages \in Seq(ToSet(Stages)) /\ Len(Stages) >= 1
      /\ \A x \in ToSet(Stages) : Kept(base, x.args) /\ x.args.limit = base.limit
  BY <1>4, <1>5, StagesKept
<1>7. DOMAIN Stages = 1 .. Len(Stages) /\ Len(Stages) \in Nat
      /\ \A i \in DOMAIN Stages : Stages[i] \in ToSet(Stages)
  BY <1>6, ToSetMember
<1>8. ASSUME NEW i \in DOMAIN Stages
      PROVE  Kept(Args, Stages[i].args) /\ Rankable(Stages[i].args)
  <2> DEFINE b == Stages[i].args
  <2>1. Kept(base, b) /\ b.limit = base.limit
    BY <1>6, <1>7
  <2> HIDE DEF b
  <2>2. Kept(Args, b)
    BY <1>2, <2>1, KeptAlong
  <2>3. b.sort = Args.sort /\ b.objectives = Args.objectives /\ b.preference = Args.preference
    BY <2>2 DEF Kept
  <2>4. Rankable(b)
    BY <1>1, <1>3, <2>1, <2>3 DEF Rankable
  <2>5. QED
    BY <2>2, <2>4 DEF b
<1>9. QED
  BY <1>6, <1>7, <1>8

\* The products picked meet what is wished.
PickedMeet(picked) ==
  /\ picked \in Seq(ToSet(picked))
  /\ \A p \in ToSet(picked) : p.id \in Meeting(Args)

\* What the calls have returned so far, before the call p.
Collected(p, f) ==
  /\ DOMAIN f = DOMAIN Nothing
  /\ p \in {"count", "loose", "strict", "search"} => f.counts = <<>> /\ f.picked = <<>>
  /\ p = "lane" =>
       /\ Listing(f.hits, Meeting(Args))
       /\ f.lanes # <<>> /\ NumericObjectives(f.lanes)
  /\ p = "stages" =>
       /\ f.counts \in Seq(ToSet(f.counts)) /\ Len(f.counts) < Len(Stages)
       /\ f.picked = <<>>
  /\ p = "alternatives" =>
       /\ f.counts \in Seq(ToSet(f.counts)) /\ Len(f.counts) = Len(Stages)
       /\ f.stage \in DOMAIN f.counts /\ PickedMeet(f.picked)

\* The inductive invariant: whatever a search has collected meets what it may
\* never relax.
Collecting ==
  /\ pc = "start" /\ ~ IsPlan => found = Nothing
  /\ ~ IsCompare /\ pc \in Calls \ {"resolve"} => UnderWay /\ Collected(pc, found)
  /\ ItemsSatisfyFilter

\* A search that goes on, one that has ended, and one that starts.
LEMMA FilterGoesOn ==
  ASSUME UnderWay, UNCHANGED <<compiled, branch>>, request' = request,
         pc' \in Calls, Collected(pc', found')
  PROVE  Collecting'
<1>1. pc' # "done" /\ pc' # "start"
  BY DEF Calls
<1>2. Args' = Args
  BY DEF Args
<1>3. Stages' = Stages
  BY <1>2 DEF Stages
<1>4. UnderWay'
  BY DEF UnderWay, IsCompare, IsPlan
<1>5. Meeting(Args)' = Meeting(Args)
  BY <1>2 DEF Meeting, MeetsRequired, Passes
<1>6. Collected(pc, found)'
  BY <1>3, <1>5, Zenon DEF Collected, PickedMeet
<1>7. ItemsSatisfyFilter'
  BY <1>1 DEF ItemsSatisfyFilter, Done
<1>8. QED
  BY <1>1, <1>4, <1>6, <1>7 DEF Collecting

LEMMA FilterEnded ==
  ASSUME pc' = "done", ItemsSatisfyFilter'
  PROVE  Collecting'
<1>1. pc' \notin Calls /\ pc' # "start"
  BY DEF Calls
<1>2. QED
  BY <1>1 DEF Collecting

LEMMA NothingShown ==
  ASSUME pc' = "done", answer'.items = <<>>
  PROVE  Collecting'
<1> DEFINE items == answer'.items
<1>1. ToSet(items) = {}
  <2>1. items = <<>>
    OBVIOUS
  <2> HIDE DEF items
  <2>2. QED
    BY <2>1, ToSetEmpty
<1>2. ItemsSatisfyFilter'
  BY <1>1 DEF ItemsSatisfyFilter
<1>3. QED
  BY <1>2, FilterEnded

LEMMA AnsweredItems ==
  ASSUME NEW status
  PROVE  Answered(status).items = <<>> /\ DOMAIN Answered(status) = DOMAIN NoAnswer
BY DEF Answered, NoAnswer

LEMMA FilterFails ==
  ASSUME NEW status, End(Answered(status))
  PROVE  Collecting'
<1>1. pc' = "done" /\ answer' = Answered(status)
  BY DEF End
<1>2. answer'.items = <<>>
  BY <1>1, AnsweredItems
<1>3. QED
  BY <1>1, <1>2, NothingShown

LEMMA FilterStarts ==
  ASSUME ~ IsCompare, request' = request, NEW c, c.status = "run", NEW i \in DOMAIN c.args,
         TryBranch(c, i)
  PROVE  Collecting'
<1>1. pc' = "count" /\ compiled' = c /\ branch' = i /\ found' = Nothing
  BY DEF TryBranch
<1>2. UnderWay'
  BY <1>1 DEF UnderWay, IsCompare, IsPlan
<1>3. Nothing.counts = <<>> /\ Nothing.picked = <<>>
  BY DEF Nothing
<1>4. Collected(pc, found)'
  BY <1>1, <1>3 DEF Collected
<1>5. ItemsSatisfyFilter'
  BY <1>1 DEF ItemsSatisfyFilter, Done
<1>6. QED
  BY <1>1, <1>2, <1>4, <1>5 DEF Collecting

\* A search ends with products that meet what is wished.
LEMMA FilterSearchEnds ==
  ASSUME Prepared, UnderWay, request' = request, NEW r, DOMAIN r = DOMAIN NoAnswer,
         r.items \in Seq(Meeting(Args) \cap Loaded), EndSearch(r)
  PROVE  Collecting'
<1> DEFINE items == r.items
           at == {i \in DOMAIN items : ~ IsPlan \/ items[i] # r.requested}
           S == Meeting(Args) \cap Loaded
           own == [r EXCEPT !.branch = branch,
                            !.items = Chosen(@, {i \in DOMAIN @ : ~IsPlan \/ @[i] # r.requested})]
<1>1. ~ IsCompare /\ compiled.status = "run" /\ branch \in DOMAIN compiled.args
  BY DEF UnderWay
<1>2. \/ TryBranch(compiled, branch + 1) /\ branch # Len(compiled.args)
      \/ End(own)
  BY <1>1 DEF EndSearch, GoesOn
<1>3. CASE TryBranch(compiled, branch + 1) /\ branch # Len(compiled.args)
  <2> DEFINE next == branch + 1
  <2>1. DOMAIN compiled.args = 1 .. Len(compiled.args) /\ Len(compiled.args) \in Nat
    BY SearchFacts
  <2>2. next \in DOMAIN compiled.args
    BY <1>1, <1>3, <2>1
  <2>3. TryBranch(compiled, next)
    BY <1>3
  <2> HIDE DEF next
  <2>4. QED
    BY <1>1, <2>2, <2>3, FilterStarts
<1>4. CASE End(own)
  <2>1. own.items = Chosen(items, at)
    BY DEF NoAnswer
  <2>2. pc' = "done" /\ answer' = own /\ compiled' = compiled /\ branch' = branch
    BY <1>4 DEF End
  <2> HIDE DEF own, S
  <2>3. \A q \in ToSet(Chosen(items, at)) : q \in S
    <3>1. items \in Seq(S) /\ at \subseteq DOMAIN items
      BY DEF S
    <3> HIDE DEF items, at
    <3>2. \A q \in ToSet(Chosen(items, at)) : \E i \in at : q = items[i]
      BY <3>1, ChosenFacts
    <3>3. \A i \in DOMAIN items : items[i] \in S
      BY <3>1, ToSetMember
    <3>4. QED
      BY <3>1, <3>2, <3>3
  <2>4. \A q \in ToSet(answer'.items) : q \in Loaded /\ Wished(q)
    BY <2>1, <2>2, <2>3, SearchFacts DEF S
  <2>5. IsPlan' = IsPlan /\ Args' = Args
    BY <2>2 DEF IsPlan, Args
  <2>6. \A q \in ToSet(answer'.items) :
          q \in Loaded /\ IF IsPlan' THEN MeetsPlan(compiled'.plan, Products[q])
                          ELSE MeetsRequired(Args', Products[q])
    BY <2>2, <2>4, <2>5 DEF Wished
  <2>7. ItemsSatisfyFilter'
    BY <2>6, Zenon DEF ItemsSatisfyFilter
  <2>8. QED
    BY <2>2, <2>7, FilterEnded
<1>5. QED
  BY <1>2, <1>3, <1>4

LEMMA FilterShows ==
  ASSUME Prepared, UnderWay, request' = request, NEW ids, ids \in Seq(Meeting(Args)),
         NEW status, NEW total, EndShowing(ids, status, total)
  PROVE  Collecting'
<1>1. CASE HydrateFails(ToSet(ids))
  <2>1. End(Answered("unavailable"))
    BY <1>1 DEF EndShowing
  <2>2. QED
    BY <2>1, FilterFails
<1>2. CASE ~ HydrateFails(ToSet(ids))
  <2> DEFINE r == [Answered(status) EXCEPT !.items = ids, !.strict = total]
             M == Meeting(Args)
  <2>1. EndSearch(r)
    BY <1>2 DEF EndShowing
  <2>2. r.items = ids /\ DOMAIN r = DOMAIN NoAnswer
    BY DEF Answered, NoAnswer
  <2>3. ids \in Seq(M)
    OBVIOUS
  <2> HIDE DEF r, M
  <2>4. ToSet(ids) \subseteq M /\ ids \in Seq(ToSet(ids))
    BY <2>3, ToSetMember
  <2>5. ToSet(ids) \subseteq Loaded
    BY <1>2 DEF HydrateFails
  <2>6. ids \in Seq(M \cap Loaded)
    BY <2>4, <2>5, SeqMonotonic
  <2>7. r.items \in Seq(Meeting(Args) \cap Loaded)
    BY <2>2, <2>6 DEF M
  <2>8. QED
    BY <2>1, <2>2, <2>7, FilterSearchEnds
<1>3. QED
  BY <1>1, <1>2

LEMMA FilterMatches ==
  ASSUME Prepared, UnderWay, request' = request, NEW hits, Listing(hits, Meeting(Args)),
         EndMatching(hits)
  PROVE  Collecting'
<1> DEFINE ids == TopIds(hits)
           status == IF hits = <<>> THEN "not_found" ELSE "matching_products"
<1>1. EndShowing(ids, status, found.count)
  BY DEF EndMatching
<1>2. Rankable(Args)
  BY SearchFacts
<1>3. ids \in Seq(Meeting(Args))
  <2> DEFINE M == Meeting(Args)
  <2>1. M \subseteq Points /\ Listing(hits, M)
    BY DEF Meeting
  <2> HIDE DEF M, ids
  <2>2. TopIds(hits) \in Seq(M)
    BY <1>2, <2>1, TopIdsFacts
  <2>3. QED
    BY <2>2 DEF M, ids
<1> HIDE DEF ids, status
<1>4. QED
  BY <1>1, <1>3, FilterShows

LEMMA FilterAlternatives ==
  ASSUME Prepared, UnderWay, request' = request, NEW picked, PickedMeet(picked),
         EndAlternatives(picked)
  PROVE  Collecting'
<1> DEFINE ids == IdsOf(picked)
           status == IF Requested # Absent THEN "exact_conflict"
                     ELSE IF ids # <<>> THEN "alternatives" ELSE "not_found"
           relaxed == {f \in UNION {p.relaxed : p \in ToSet(picked)} : AskedFor(f)}
           conflicts == IF Requested = Absent THEN {} ELSE Conflicts(Args, Products[Requested])
           r == [Answered(status) EXCEPT
                   !.items = ids, !.requested = Requested, !.relaxed = relaxed,
                   !.conflicts = conflicts]
           M == Meeting(Args)
<1>1. ids \in Seq(M)
  <2>1. picked \in Seq(ToSet(picked)) /\ \A i \in DOMAIN picked : picked[i].id \in M
    BY ToSetMember DEF PickedMeet
  <2>2. DOMAIN ids = DOMAIN picked /\ ids = [i \in DOMAIN picked |-> ids[i]]
        /\ \A i \in DOMAIN picked : ids[i] = picked[i].id
    BY DEF IdsOf
  <2> HIDE DEF ids, M
  <2>3. \A i \in DOMAIN picked : ids[i] \in M
    BY <2>1, <2>2
  <2>4. QED
    BY <2>1, <2>2, <2>3, NumbersOver
<1>2. CASE HydrateFails(ToSet(ids))
  <2>1. End(Answered("unavailable"))
    BY <1>2 DEF EndAlternatives
  <2>2. QED
    BY <2>1, FilterFails
<1>3. CASE ~ HydrateFails(ToSet(ids))
  <2>1. EndSearch(r)
    BY <1>3 DEF EndAlternatives
  <2> HIDE DEF status, relaxed, conflicts, ids, M
  <2>2. r.items = ids /\ DOMAIN r = DOMAIN NoAnswer
    BY DEF Answered, NoAnswer
  <2> HIDE DEF r
  <2>3. ToSet(ids) \subseteq M /\ ids \in Seq(ToSet(ids))
    BY <1>1, ToSetMember
  <2>4. ToSet(ids) \subseteq Loaded
    BY <1>3 DEF HydrateFails
  <2>5. ids \in Seq(M \cap Loaded)
    BY <2>3, <2>4, SeqMonotonic
  <2>6. r.items \in Seq(Meeting(Args) \cap Loaded)
    BY <2>2, <2>5 DEF M
  <2>7. QED
    BY <2>1, <2>2, <2>6, FilterSearchEnds
<1>4. QED
  BY <1>2, <1>3

\* A comparison shows what it was asked for.
LEMMA FilterCompares ==
  ASSUME IsCompare'
  PROVE  Collecting'
<1>1. ItemsSatisfyFilter'
  BY DEF ItemsSatisfyFilter
<1>2. IsPlan'
  BY DEF IsCompare
<1>3. QED
  BY <1>1, <1>2 DEF Collecting

LEMMA FilterDispatched ==
  ASSUME ~ IsCompare, IsPlan, request' = request, NEW c,
         c.status \in {"clarify", "empty", "invalid", "run"},
         c.status = "run" => Sound(c, request.plan), Dispatch(c)
  PROVE  Collecting'
<1>1. CASE c.status = "run"
  <2> DEFINE i == 1
  <2>1. TryBranch(c, i)
    BY <1>1 DEF Dispatch
  <2>2. Sound(c, request.plan) /\ c.plan.op # "compare"
    BY <1>1 DEF Sound, PlanKeys, IsCompare
  <2>3. DOMAIN c.args = 1 .. Len(c.args) /\ Len(c.args) \in Nat /\ Len(c.args) >= 1
    BY <2>2, SearchesThere
  <2>4. i \in DOMAIN c.args
    BY <2>3
  <2> HIDE DEF i
  <2>5. QED
    BY <1>1, <2>1, <2>4, FilterStarts
<1>2. CASE c.status # "run"
  <2>1. /\ pc' = "done"
        /\ answer' = Answered(CASE c.status = "clarify" -> "clarification_required"
                                [] c.status = "empty" -> "not_found"
                                [] c.status = "invalid" -> "invalid_tool_arguments")
    BY <1>2 DEF Dispatch
  <2>2. \E s : answer' = Answered(s)
    BY <2>1
  <2>3. answer'.items = <<>>
    BY <2>2, AnsweredItems
  <2>4. QED
    BY <2>1, <2>3, NothingShown
<1>3. QED
  BY <1>1, <1>2

LEMMA FilterStartsPlan ==
  ASSUME Prepared, ~ IsCompare, StartPlan
  PROVE  Collecting'
<1>1. WellFormed(request.plan) /\ IsPlan
  BY RequestFacts DEF Prepared, StartPlan
<1>2. request' = request
  BY StepsKeep
<1> DEFINE c == Compile(request.plan, <<>>)
<1>3. \/ pc' = "resolve"
      \/ Dispatch(c)
  BY DEF StartPlan
<1>4. c.status \in {"clarify", "empty", "invalid", "run"}
  BY CompileStatus
<1>5. c.status = "run" => Sound(c, request.plan)
  BY <1>1, CompileFacts
<1> HIDE DEF c
<1>6. CASE pc' = "resolve"
  BY <1>6 DEF Collecting, ItemsSatisfyFilter, Done
<1>7. CASE Dispatch(c)
  BY <1>1, <1>2, <1>4, <1>5, <1>7, FilterDispatched
<1>8. QED
  BY <1>3, <1>6, <1>7

LEMMA FilterStartsFlat ==
  ASSUME Prepared, Collecting, StartFlat
  PROVE  Collecting'
<1>1. pc = "start" /\ ~ IsPlan /\ ~ IsCompare /\ request' = request
  BY StepsKeep DEF StartFlat, IsCompare
<1>2. found = Nothing
  BY <1>1 DEF Collecting
<1> DEFINE c == FlatCompilation
           i == 1
           b == Canonicalize(request.args)
<1>3. TryBranch(c, i)
  BY <1>2 DEF StartFlat, TryBranch, FlatCompilation
<1>4. c.status = "run" /\ c.args = <<b>>
  BY DEF FlatCompilation, Compilation
<1> HIDE DEF b, c
<1>5. i \in DOMAIN c.args
  BY <1>4
<1> HIDE DEF i
<1>6. QED
  BY <1>1, <1>3, <1>4, <1>5, FilterStarts

LEMMA FilterResolves ==
  ASSUME Prepared, ~ IsCompare, ResolveBySimilarity
  PROVE  Collecting'
<1>1. WellFormed(request.plan) /\ IsPlan /\ pc = "resolve"
  BY RequestFacts DEF Prepared, ResolveBySimilarity
<1>2. request' = request
  BY StepsKeep
<1>3. \/ pc' = pc
      \/ End(Answered("clarification_required"))
      \/ Dispatch(compiled)
      \/ \E o : Dispatch(Compile(request.plan, o))
  BY Zenon DEF ResolveBySimilarity
<1>4. CASE pc' = pc
  BY <1>1, <1>4 DEF Collecting, ItemsSatisfyFilter, Done
<1>5. CASE End(Answered("clarification_required"))
  BY <1>5, FilterFails
<1>6. ASSUME NEW o, Dispatch(Compile(request.plan, o))
      PROVE  Collecting'
  <2> DEFINE c == Compile(request.plan, o)
  <2>1. c.status \in {"clarify", "empty", "invalid", "run"}
    BY CompileStatus
  <2>2. c.status = "run" => Sound(c, request.plan)
    BY <1>1, CompileFacts
  <2>3. Dispatch(c)
    BY <1>6
  <2> HIDE DEF c
  <2>4. QED
    BY <1>1, <1>2, <2>1, <2>2, <2>3, FilterDispatched
<1>7. CASE Dispatch(compiled)
  <2>1. compiled = NotCompiled \/ \E o : compiled = Compile(request.plan, o)
    BY <1>1 DEF Prepared
  <2>2. CASE compiled = NotCompiled
    <3>1. compiled.status = "none"
      BY <2>2 DEF NotCompiled, Compilation
    <3>2. pc' = "done" /\ \E s : answer' = Answered(s)
      BY <1>7, <3>1 DEF Dispatch
    <3>3. answer'.items = <<>>
      BY <3>2, AnsweredItems
    <3>4. QED
      BY <3>2, <3>3, NothingShown
  <2>3. CASE \E o : compiled = Compile(request.plan, o)
    BY <1>6, <1>7, <2>3
  <2>4. QED
    BY <2>1, <2>2, <2>3
<1>8. QED
  BY <1>3, <1>4, <1>5, <1>6, <1>7

\* A call of a search that is not a comparison.
Called(p) == Prepared /\ Comparing /\ Collecting /\ ~ IsCompare /\ pc = p

LEMMA CalledFacts ==
  ASSUME NEW p \in Calls \ {"resolve"}, Called(p)
  PROVE  /\ Prepared /\ UnderWay /\ Collected(p, found) /\ store \subseteq Points
         /\ Accepted(Args, store) \subseteq Meeting(Args)
         /\ ExactStrict(Args, store) \subseteq Meeting(Args)
<1>1. Prepared /\ UnderWay /\ Collected(p, found) /\ store \subseteq Points
  BY DEF Called, Collecting, Comparing
<1>2. Kept(Args, Args)
  BY <1>1, SearchFacts, KeptSelf
<1>3. QED
  BY <1>1, <1>2, AcceptedMeet

LEMMA FilterCounts ==
  ASSUME Called("count"), CountCandidates
  PROVE  Collecting'
<1> DEFINE p == "count"
<1>1. p \in Calls \ {"resolve"} /\ Called(p)
  BY DEF Calls
<1>2. UnderWay /\ Collected(p, found) /\ Prepared
  BY <1>1, CalledFacts
<1>3. \E f \in {[found EXCEPT !.count = Cardinality(Accepted(Args, store))]} :
        \E next \in {"loose", "search", "stages"} : Proceed(next, f)
  BY DEF CountCandidates
<1>4. PICK next \in {"loose", "search", "stages"} :
        Proceed(next, [found EXCEPT !.count = Cardinality(Accepted(Args, store))])
  BY <1>3
<1>5. /\ pc' = next /\ UNCHANGED <<compiled, branch>> /\ request' = request
      /\ found' = [found EXCEPT !.count = Cardinality(Accepted(Args, store))]
  BY <1>4 DEF Proceed, collection
<1>6. DOMAIN found' = DOMAIN Nothing /\ found'.counts = <<>> /\ found'.picked = <<>>
  BY <1>2, <1>5 DEF Collected, Nothing
<1>7. ToSet(found'.counts) = {} /\ found'.counts \in Seq(ToSet(found'.counts))
      /\ Len(found'.counts) = 0
  <2> DEFINE none == found'.counts
  <2>1. none = <<>>
    BY <1>6
  <2> HIDE DEF none
  <2>2. none \in Seq(ToSet(none)) /\ ToSet(none) = {} /\ Len(none) = 0
    BY <2>1, EmptySeq, ToSetEmpty
  <2>3. QED
    BY <2>2 DEF none
<1>8. Len(Stages) \in Nat /\ Len(Stages) >= 1
  BY <1>2, StagesFacts
<1>9. Len(found'.counts) < Len(Stages)
  BY <1>7, <1>8
<1>10. Collected(pc', found')
  BY <1>5, <1>6, <1>7, <1>9 DEF Collected
<1>11. pc' \in Calls
  BY <1>5 DEF Calls
<1>12. QED
  BY <1>2, <1>5, <1>10, <1>11, FilterGoesOn

LEMMA FilterLooksLoosely ==
  ASSUME Called("loose"), LookUpLoosely
  PROVE  Collecting'
<1> DEFINE p == "loose"
<1>1. p \in Calls \ {"resolve"} /\ Called(p)
  BY DEF Calls
<1>2. UnderWay /\ Collected(p, found) /\ Prepared
  BY <1>1, CalledFacts
<1> DEFINE loose == ExactLoose(Args, store)
<1>3. /\ pc' = "strict" /\ UNCHANGED <<compiled, branch>> /\ request' = request
      /\ found' = [found EXCEPT !.loose = loose]
  BY DEF LookUpLoosely, Proceed, collection
<1> HIDE DEF loose
<1>4. DOMAIN found' = DOMAIN Nothing /\ found'.counts = <<>> /\ found'.picked = <<>>
  BY <1>2, <1>3 DEF Collected, Nothing
<1>5. Collected(pc', found')
  BY <1>3, <1>4 DEF Collected
<1>6. pc' \in Calls
  BY <1>3 DEF Calls
<1>7. QED
  BY <1>2, <1>3, <1>5, <1>6, FilterGoesOn

LEMMA FilterLooksStrictly ==
  ASSUME Called("strict"), LookUpStrictly
  PROVE  Collecting'
<1> DEFINE p == "strict"
           strict == ExactStrict(Args, store)
           key == [q \in strict |-> <<Place[q], 0>>]
           ids == Ordered(strict, key)
           score == [q \in strict |-> 100]
           hits == Hits(ids, score)
<1>1. p \in Calls \ {"resolve"} /\ Called(p)
  BY DEF Calls
<1>2. UnderWay /\ Collected(p, found) /\ Prepared /\ store \subseteq Points
      /\ strict \subseteq Meeting(Args)
  BY <1>1, CalledFacts
<1>3. request' = request
  BY StepsKeep
<1>4. \/ EndShowing(TopIds(hits), "exact_match", Cardinality(strict))
      \/ End(Answered("unavailable"))
      \/ Proceed("stages", found)
  BY Zenon DEF LookUpStrictly
<1>5. CASE EndShowing(TopIds(hits), "exact_match", Cardinality(strict))
  <2>1. \A q \in strict : key[q][1] = Place[q] /\ key[q][2] = 0
    OBVIOUS
  <2>2. \A q \in strict : score[q] \in Int
    OBVIOUS
  <2> DEFINE total == Cardinality(strict)
             shown == TopIds(hits)
             M == Meeting(Args)
             status == "exact_match"
  <2>3. EndShowing(shown, status, total)
    BY <1>5
  <2>4. M \subseteq Points /\ strict \subseteq M
    BY <1>2 DEF Meeting
  <2> HIDE DEF key, score, strict, M, total, status
  <2>5. strict \subseteq Points /\ IsFiniteSet(strict)
    BY <2>4, CatalogAssumption, FS_Subset
  <2>6. \A q \in strict : Place[q] \in Int
    BY <2>5, RankingAssumption
  <2>7. \A q \in strict : key[q][1] \in Int /\ key[q][2] \in Int
    BY <2>1, <2>6
  <2>8. \A q, o \in strict : key[q][1] = key[o][1] /\ key[q][2] = key[o][2] => q = o
    BY <2>1, <2>5, RankingAssumption
  <2>9. Keyed(strict, key)
    BY <2>5, <2>7, <2>8 DEF Keyed
  <2>10. Listing(hits, strict)
    BY <2>2, <2>5, <2>9, HitsFacts
  <2> HIDE DEF hits
  <2>11. Listing(hits, M)
    BY <2>4, <2>10, ListingMore
  <2>12. Rankable(Args)
    BY <1>2, SearchFacts
  <2>13. shown \in Seq(M)
    BY <2>4, <2>11, <2>12, TopIdsFacts
  <2>14. shown \in Seq(Meeting(Args))
    BY <2>13 DEF M
  <2> HIDE DEF shown
  <2>15. QED
    BY <1>2, <1>3, <2>3, <2>14, FilterShows
<1>6. CASE End(Answered("unavailable"))
  BY <1>6, FilterFails
<1>7. CASE Proceed("stages", found)
  <2>1. pc' = "stages" /\ found' = found /\ UNCHANGED <<compiled, branch>>
    BY <1>7 DEF Proceed
  <2>2. DOMAIN found = DOMAIN Nothing /\ found.counts = <<>> /\ found.picked = <<>>
    BY <1>2 DEF Collected
  <2>3. ToSet(found.counts) = {} /\ found.counts \in Seq(ToSet(found.counts))
        /\ Len(found.counts) = 0
    <3> DEFINE none == found.counts
    <3>1. none = <<>>
      BY <2>2
    <3> HIDE DEF none
    <3>2. none \in Seq(ToSet(none)) /\ ToSet(none) = {} /\ Len(none) = 0
      BY <3>1, EmptySeq, ToSetEmpty
    <3>3. QED
      BY <3>2 DEF none
  <2>4. Len(Stages) \in Nat /\ Len(Stages) >= 1
    BY <1>2, StagesFacts
  <2>5. Len(found.counts) < Len(Stages)
    BY <2>3, <2>4
  <2>6. Collected(pc', found')
    BY <2>1, <2>2, <2>3, <2>5 DEF Collected
  <2>7. pc' \in Calls
    BY <2>1 DEF Calls
  <2>8. QED
    BY <1>2, <1>3, <2>1, <2>6, <2>7, FilterGoesOn
<1>8. QED
  BY <1>4, <1>5, <1>6, <1>7

LEMMA LimitIsNumber ==
  ASSUME NEW a, NEW objectives
  PROVE  CandidateLimit(a, objectives) \in Nat
BY RankingAssumption DEF CandidateLimit

LEMMA FilterSearches ==
  ASSUME Called("search"), SearchCandidates
  PROVE  Collecting'
<1> DEFINE p == "search"
           S == Accepted(Args, store)
           limit == CandidateLimit(Args, Args.objectives)
           hits == Nearest(S, limit)
           lanes == EffectiveObjectives(Args)
           M == Meeting(Args)
<1>1. p \in Calls \ {"resolve"} /\ Called(p)
  BY DEF Calls
<1>2. UnderWay /\ Collected(p, found) /\ Prepared /\ S \subseteq M
  BY <1>1, CalledFacts
<1>3. request' = request
  BY StepsKeep
<1>4. \/ Proceed("lane", [found EXCEPT !.hits = hits, !.lanes = lanes]) /\ lanes # <<>>
      \/ EndMatching(hits)
  BY DEF SearchCandidates
<1>5. Listing(hits, M)
  <2>1. M \subseteq Points /\ S \subseteq Points
    BY <1>2 DEF Meeting
  <2>2. limit \in Nat
    BY LimitIsNumber
  <2> HIDE DEF S, M, limit
  <2>3. Listing(hits, S)
    BY <2>1, <2>2, NearestListing
  <2> HIDE DEF hits
  <2>4. QED
    BY <1>2, <2>3, ListingMore
<1> HIDE DEF hits
<1>6. CASE Proceed("lane", [found EXCEPT !.hits = hits, !.lanes = lanes]) /\ lanes # <<>>
  <2>1. NumericObjectives(lanes)
    <3>1. NumericObjectives(Args.objectives) /\ Rankable(Args)
      BY <1>2, SearchFacts
    <3>2. QED
      BY <3>1, EffectiveNumeric DEF Rankable
  <2> HIDE DEF lanes
  <2>2. /\ pc' = "lane" /\ UNCHANGED <<compiled, branch>>
        /\ found' = [found EXCEPT !.hits = hits, !.lanes = lanes]
    BY <1>6 DEF Proceed
  <2>3. DOMAIN found' = DOMAIN Nothing /\ found'.hits = hits /\ found'.lanes = lanes
    BY <1>2, <2>2 DEF Collected, Nothing
  <2>4. Collected(pc', found')
    BY <1>5, <1>6, <2>1, <2>2, <2>3 DEF Collected
  <2>5. pc' \in Calls
    BY <2>2 DEF Calls
  <2>6. QED
    BY <1>2, <1>3, <2>2, <2>4, <2>5, FilterGoesOn
<1>7. CASE EndMatching(hits)
  BY <1>2, <1>3, <1>5, <1>7, FilterMatches
<1>8. QED
  BY <1>4, <1>6, <1>7

LEMMA FilterSearchesLane ==
  ASSUME Called("lane"), SearchLane
  PROVE  Collecting'
<1> DEFINE p == "lane"
           S == Accepted(Args, store)
           more == ByField(S, Head(found.lanes))
           hits == Pooled(found.hits, more)
           rest == Tail(found.lanes)
           M == Meeting(Args)
<1>1. p \in Calls \ {"resolve"} /\ Called(p)
  BY DEF Calls
<1>2. UnderWay /\ Collected(p, found) /\ Prepared /\ S \subseteq M
  BY <1>1, CalledFacts
<1>3. request' = request
  BY StepsKeep
<1>4. \/ Proceed("lane", [found EXCEPT !.hits = hits, !.lanes = rest]) /\ rest # <<>>
      \/ EndMatching(hits)
  BY DEF SearchLane
<1>5. Listing(found.hits, M) /\ found.lanes # <<>> /\ NumericObjectives(found.lanes)
  BY <1>2 DEF Collected
<1>6. Head(found.lanes).field \in NumericFields /\ NumericObjectives(rest)
  <2> DEFINE lanes == found.lanes
  <2>1. lanes # <<>> /\ NumericObjectives(lanes)
    BY <1>5
  <2> HIDE DEF lanes
  <2>2. Head(lanes).field \in NumericFields /\ NumericObjectives(Tail(lanes))
    BY <2>1, FewerLanes
  <2>3. QED
    BY <2>2 DEF lanes
<1>7. Listing(hits, M)
  <2> DEFINE goal == Head(found.lanes)
             before == found.hits
  <2>1. M \subseteq Points /\ S \subseteq Points
    BY <1>2 DEF Meeting
  <2>2. goal.field \in NumericFields /\ Listing(before, M)
    BY <1>5, <1>6
  <2>3. more = ByField(S, goal) /\ hits = Pooled(before, more)
    OBVIOUS
  <2> HIDE DEF S, M, goal, before, more, hits
  <2>4. Listing(more, S)
    BY <2>1, <2>2, <2>3, ByFieldListing
  <2>5. Listing(more, M)
    BY <1>2, <2>4, ListingMore
  <2>6. QED
    BY <2>2, <2>3, <2>5, PooledListing
<1> HIDE DEF hits, rest
<1>8. CASE Proceed("lane", [found EXCEPT !.hits = hits, !.lanes = rest]) /\ rest # <<>>
  <2>1. /\ pc' = "lane" /\ UNCHANGED <<compiled, branch>>
        /\ found' = [found EXCEPT !.hits = hits, !.lanes = rest]
    BY <1>8 DEF Proceed
  <2>2. DOMAIN found' = DOMAIN Nothing /\ found'.hits = hits /\ found'.lanes = rest
    BY <1>2, <2>1 DEF Collected, Nothing
  <2>3. Collected(pc', found')
    BY <1>6, <1>7, <1>8, <2>1, <2>2 DEF Collected
  <2>4. pc' \in Calls
    BY <2>1 DEF Calls
  <2>5. QED
    BY <1>2, <1>3, <2>1, <2>3, <2>4, FilterGoesOn
<1>9. CASE EndMatching(hits)
  BY <1>2, <1>3, <1>7, <1>9, FilterMatches
<1>10. QED
  BY <1>4, <1>8, <1>9

\* No pick is a fitting one.
LEMMA NothingPicked ==
  ASSUME NEW picked, picked = <<>>
  PROVE  PickedMeet(picked)
<1>1. picked \in Seq(ToSet(picked)) /\ ToSet(picked) = {}
  BY EmptySeq, ToSetEmpty
<1>2. QED
  BY <1>1 DEF PickedMeet

LEMMA FirstPromising ==
  ASSUME NEW counts, counts \in Seq(ToSet(counts)), NEW i, Promising(counts, i) # {}
  PROVE  Min(Promising(counts, i)) \in DOMAIN counts
<1> DEFINE rest == Promising(counts, i)
<1>1. rest \subseteq DOMAIN counts
  BY DEF Promising
<1>2. DOMAIN counts \subseteq Nat
  BY ToSetMember
<1>3. Min(rest) = CHOOSE j \in rest : \A k \in rest : j <= k
  BY DEF Min
<1> HIDE DEF rest
<1>4. \E j \in rest : \A k \in rest : j <= k
  <2>1. rest \subseteq Nat /\ rest # {}
    BY <1>1, <1>2 DEF rest
  <2>2. QED
    BY <2>1, Choosing!LeastOne
<1>5. Min(rest) \in rest
  BY <1>3, <1>4
<1>6. QED
  BY <1>1, <1>5 DEF rest

LEMMA FilterCountsStage ==
  ASSUME Called("stages"), CountStage
  PROVE  Collecting'
<1> DEFINE p == "stages"
           n == Cardinality(Accepted(Stages[Len(found.counts) + 1].args, store))
           counts == Append(found.counts, n)
           first == Promising(counts, 0)
           S == ToSet(found.counts) \cup {n}
<1>1. p \in Calls \ {"resolve"} /\ Called(p)
  BY DEF Calls
<1>2. UnderWay /\ Collected(p, found) /\ Prepared
  BY <1>1, CalledFacts
<1>3. request' = request
  BY StepsKeep
<1>4. \/ Proceed("stages", [found EXCEPT !.counts = counts]) /\ Len(counts) < Len(Stages)
      \/ EndAlternatives(<<>>)
      \/ /\ Proceed("alternatives", [found EXCEPT !.counts = counts, !.stage = Min(first)])
         /\ ~ (Len(counts) < Len(Stages)) /\ first # {}
  BY DEF CountStage, Counted
<1>5. /\ DOMAIN found = DOMAIN Nothing /\ found.counts \in Seq(ToSet(found.counts))
      /\ Len(found.counts) < Len(Stages) /\ found.picked = <<>>
  BY <1>2 DEF Collected
<1>6. found.counts \in Seq(S) /\ n \in S /\ Len(found.counts) \in Nat
  BY <1>5, SeqMonotonic, ToSetMember
<1>7. counts \in Seq(ToSet(counts)) /\ Len(counts) = Len(found.counts) + 1
  <2> DEFINE old == found.counts
  <2>1. old \in Seq(S) /\ n \in S
    BY <1>6
  <2> HIDE DEF S, n, old
  <2>2. Append(old, n) \in Seq(S) /\ Len(Append(old, n)) = Len(old) + 1
    BY <2>1, ToSetAppend
  <2>3. counts \in Seq(S) /\ Len(counts) = Len(old) + 1
    BY <2>2 DEF old
  <2> HIDE DEF counts
  <2>4. counts \in Seq(ToSet(counts))
    BY <2>3, ToSetMember
  <2>5. QED
    BY <2>3, <2>4 DEF old
<1>8. Len(Stages) \in Nat
  BY <1>2, StagesFacts
<1> HIDE DEF counts, n, S
<1>9. CASE Proceed("stages", [found EXCEPT !.counts = counts]) /\ Len(counts) < Len(Stages)
  <2>1. /\ pc' = "stages" /\ UNCHANGED <<compiled, branch>>
        /\ found' = [found EXCEPT !.counts = counts]
    BY <1>9 DEF Proceed
  <2>2. DOMAIN found' = DOMAIN Nothing /\ found'.counts = counts /\ found'.picked = <<>>
    BY <1>5, <2>1 DEF Nothing
  <2>3. Collected(pc', found')
    BY <1>7, <1>9, <2>1, <2>2 DEF Collected
  <2>4. pc' \in Calls
    BY <2>1 DEF Calls
  <2>5. QED
    BY <1>2, <1>3, <2>1, <2>3, <2>4, FilterGoesOn
<1>10. CASE EndAlternatives(<<>>)
  <2> DEFINE picked == <<>>
  <2>1. EndAlternatives(picked) /\ picked = <<>>
    BY <1>10
  <2> HIDE DEF picked
  <2>2. PickedMeet(picked)
    BY <2>1, NothingPicked
  <2>3. QED
    BY <1>2, <1>3, <2>1, <2>2, FilterAlternatives
<1>11. CASE /\ Proceed("alternatives", [found EXCEPT !.counts = counts, !.stage = Min(first)])
            /\ ~ (Len(counts) < Len(Stages)) /\ first # {}
  <2> DEFINE stage == Min(first)
  <2>1. stage \in DOMAIN counts
    BY <1>7, <1>11, FirstPromising
  <2>2. PickedMeet(found.picked)
    <3> DEFINE picked == found.picked
    <3>1. picked = <<>>
      BY <1>5
    <3> HIDE DEF picked
    <3>2. PickedMeet(picked)
      BY <3>1, NothingPicked
    <3>3. QED
      BY <3>2 DEF picked
  <2>3. Len(counts) = Len(Stages)
    BY <1>5, <1>6, <1>7, <1>8, <1>11
  <2> HIDE DEF first, stage
  <2>4. /\ pc' = "alternatives" /\ UNCHANGED <<compiled, branch>>
        /\ found' = [found EXCEPT !.counts = counts, !.stage = stage]
    BY <1>11 DEF Proceed, stage
  <2>5. /\ DOMAIN found' = DOMAIN Nothing /\ found'.counts = counts /\ found'.stage = stage
        /\ found'.picked = found.picked
    BY <1>5, <2>4 DEF Nothing
  <2>6. Collected(pc', found')
    BY <1>7, <2>1, <2>2, <2>3, <2>4, <2>5 DEF Collected
  <2>7. pc' \in Calls
    BY <2>4 DEF Calls
  <2>8. QED
    BY <1>2, <1>3, <2>4, <2>6, <2>7, FilterGoesOn
<1>12. QED
  BY <1>4, <1>9, <1>10, <1>11

\* What a stage adds meets what is wished, too.
LEMMA PickedAtMeets ==
  ASSUME Prepared, UnderWay, store \subseteq Points, NEW i \in DOMAIN Stages, NEW picked,
         PickedMeet(picked), NEW target \in Nat
  PROVE  PickedMeet(PickedAt(Stages[i], picked, target))
<1> DEFINE at == Stages[i]
           S == Accepted(at.args, store)
           limit == CandidateLimit(Args, EffectiveObjectives(Args))
           hits == Nearest(S, limit)
           strong == Chosen(hits, {j \in DOMAIN hits : hits[j].score >= AlternativeScore})
           near == RankHits(strong, at.args)
           new == Chosen(near, {j \in DOMAIN near : \A p \in ToSet(picked) : p.id # near[j].id})
           more == [j \in DOMAIN new |-> [id |-> new[j].id, relaxed |-> at.relaxed]]
           M == Meeting(Args)
           all == picked \o more
           H == ToSet(picked) \cup ToSet(more)
<1>1. PickedAt(at, picked, target) = Upto(all, target)
  BY DEF PickedAt
<1>2. Kept(Args, at.args) /\ Rankable(at.args)
  BY StagesFacts
<1>3. S \subseteq M /\ S \subseteq Points /\ limit \in Nat
  <2>1. S \subseteq M
    BY <1>2, AcceptedMeet
  <2>2. QED
    BY <2>1, LimitIsNumber DEF Meeting
<1>4. DOMAIN more = DOMAIN new /\ more = [j \in DOMAIN new |-> more[j]]
      /\ \A j \in DOMAIN new : more[j].id = new[j].id
  OBVIOUS
<1> HIDE DEF S, limit, M, at, more
<1>5. Listing(hits, S)
  BY <1>3, NearestListing
<1> HIDE DEF hits
<1>6. Listing(strong, S)
  BY <1>5, ListingChosen
<1> HIDE DEF strong
<1>7. Listing(near, S)
  <2> DEFINE a == at.args
  <2>1. Rankable(a)
    BY <1>2
  <2>2. near = RankHits(strong, a)
    OBVIOUS
  <2> HIDE DEF a, near
  <2>3. QED
    BY <1>3, <1>6, <2>1, <2>2, RankHitsFacts
<1> HIDE DEF near
<1>8. Listing(new, S)
  BY <1>7, ListingChosen
<1> HIDE DEF new
<1>9. new \in Seq(ToSet(new)) /\ \A j \in DOMAIN new : new[j].id \in S
  BY <1>8, Positions DEF Listing
<1>10. /\ more \in Seq(ToSet(more))
       /\ \A x \in ToSet(more) : \E j \in DOMAIN new : x = more[j]
  <2>1. new \in Seq(ToSet(new))
    BY <1>9
  <2>2. more = [j \in DOMAIN new |-> more[j]]
    BY <1>4
  <2> HIDE DEF more, new
  <2>3. QED
    BY <2>1, <2>2, ListOver
<1>11. \A x \in ToSet(more) : x.id \in M
  BY <1>3, <1>4, <1>9, <1>10
<1>12. picked \in Seq(ToSet(picked)) /\ \A x \in ToSet(picked) : x.id \in M
  BY DEF PickedMeet, M
<1>13. picked \in Seq(H) /\ more \in Seq(H)
  BY <1>10, <1>12, SeqMonotonic
<1>14. \A x \in H : x.id \in M
  BY <1>11, <1>12
<1> HIDE DEF H
<1>15. all \in Seq(H)
  BY <1>13, ConcatProperties
<1> HIDE DEF all
<1> DEFINE shown == Upto(all, target)
<1>16. shown \in Seq(H)
  BY <1>15, UptoFacts
<1> HIDE DEF shown
<1>17. shown \in Seq(ToSet(shown)) /\ ToSet(shown) \subseteq H
  BY <1>16, ToSetMember
<1>18. PickedMeet(shown)
  BY <1>14, <1>17 DEF PickedMeet, M
<1>19. QED
  BY <1>1, <1>18 DEF shown, at

LEMMA FilterAddsAlternatives ==
  ASSUME Called("alternatives"), SearchAlternatives
  PROVE  Collecting'
<1> DEFINE p == "alternatives"
           target == Min({Args.limit, AlternativeLimit})
           rest == Promising(found.counts, found.stage)
           picked == PickedAt(Stages[found.stage], found.picked, target)
<1>1. p \in Calls \ {"resolve"} /\ Called(p)
  BY DEF Calls
<1>2. UnderWay /\ Collected(p, found) /\ Prepared /\ store \subseteq Points
  BY <1>1, CalledFacts
<1>3. request' = request
  BY StepsKeep
<1>4. \/ Proceed("alternatives", [found EXCEPT !.picked = picked, !.stage = Min(rest)]) /\ rest # {}
      \/ EndAlternatives(picked)
  BY DEF SearchAlternatives
<1>5. /\ DOMAIN found = DOMAIN Nothing
      /\ found.counts \in Seq(ToSet(found.counts)) /\ Len(found.counts) = Len(Stages)
      /\ found.stage \in DOMAIN found.counts /\ PickedMeet(found.picked)
  BY <1>2 DEF Collected
<1>6. target \in Nat
  <2>1. Args.limit \in Nat /\ Args.limit \in Int /\ AlternativeLimit \in Int /\ AlternativeLimit = 3
    BY <1>2, SearchFacts DEF Rankable, AlternativeLimit
  <2>2. target = IF Args.limit <= AlternativeLimit THEN Args.limit ELSE AlternativeLimit
    BY <2>1, MinOfTwo
  <2>3. QED
    BY <2>1, <2>2
<1>7. found.stage \in DOMAIN Stages
  <2>1. DOMAIN found.counts = 1 .. Len(found.counts)
    BY <1>5, ToSetMember
  <2>2. DOMAIN Stages = 1 .. Len(Stages)
    BY <1>2, StagesFacts
  <2>3. QED
    BY <1>5, <2>1, <2>2
<1>8. PickedMeet(picked)
  <2> DEFINE old == found.picked
             stage == found.stage
  <2>1. PickedMeet(old) /\ stage \in DOMAIN Stages
    BY <1>5, <1>7
  <2> HIDE DEF old, stage, target
  <2>2. PickedMeet(PickedAt(Stages[stage], old, target))
    BY <1>2, <1>6, <2>1, PickedAtMeets
  <2>3. QED
    BY <2>2 DEF old, stage
<1> HIDE DEF picked
<1>9. CASE /\ Proceed("alternatives", [found EXCEPT !.picked = picked, !.stage = Min(rest)])
           /\ rest # {}
  <2> DEFINE next == Min(rest)
  <2>1. next \in DOMAIN found.counts
    BY <1>5, <1>9, FirstPromising
  <2> HIDE DEF rest, next
  <2>2. /\ pc' = "alternatives" /\ UNCHANGED <<compiled, branch>>
        /\ found' = [found EXCEPT !.picked = picked, !.stage = next]
    BY <1>9 DEF Proceed, next
  <2>3. /\ DOMAIN found' = DOMAIN Nothing /\ found'.counts = found.counts
        /\ found'.stage = next /\ found'.picked = picked
    BY <1>5, <2>2 DEF Nothing
  <2>4. Collected(pc', found')
    BY <1>5, <1>8, <2>1, <2>2, <2>3 DEF Collected
  <2>5. pc' \in Calls
    BY <2>2 DEF Calls
  <2>6. QED
    BY <1>2, <1>3, <2>2, <2>4, <2>5, FilterGoesOn
<1>10. CASE EndAlternatives(picked)
  BY <1>2, <1>3, <1>8, <1>10, FilterAlternatives
<1>11. QED
  BY <1>4, <1>9, <1>10

LEMMA FilterCallFails ==
  ASSUME CallFails
  PROVE  Collecting'
BY FilterFails DEF CallFails

\* The collection changes under the search.
LEMMA FilterEdited ==
  ASSUME Collecting, EditCollection
  PROVE  Collecting'
<1>1. /\ pc \in Calls /\ pc' = pc /\ request' = request /\ found' = found
      /\ UNCHANGED <<compiled, branch>>
  BY DEF EditCollection
<1>2. CASE IsCompare
  <2>1. IsCompare'
    BY <1>1, <1>2 DEF IsCompare, IsPlan
  <2>2. QED
    BY <2>1, FilterCompares
<1>3. CASE ~ IsCompare /\ pc = "resolve"
  <2>1. pc' = "resolve"
    BY <1>1, <1>3
  <2>2. QED
    BY <2>1 DEF Collecting, ItemsSatisfyFilter, Done
<1>4. CASE ~ IsCompare /\ pc # "resolve"
  <2>1. UnderWay /\ Collected(pc', found')
    BY <1>1, <1>4 DEF Collecting
  <2>2. QED
    BY <1>1, <2>1, FilterGoesOn
<1>5. QED
  BY <1>2, <1>3, <1>4

LEMMA InitCollecting == Init => Collecting
<1> SUFFICES ASSUME Init PROVE Collecting
  OBVIOUS
<1>1. pc = "start" /\ found = Nothing
  BY DEF Init
<1>2. pc \notin Calls /\ pc # "done"
  BY <1>1 DEF Calls
<1>3. ItemsSatisfyFilter
  BY <1>2 DEF ItemsSatisfyFilter, Done
<1>4. QED
  BY <1>1, <1>2, <1>3 DEF Collecting

LEMMA NextCollecting == Prepared /\ Comparing /\ Collecting /\ [Next]_vars => Collecting'
<1> SUFFICES ASSUME Prepared, Comparing, Collecting, [Next]_vars PROVE Collecting'
  OBVIOUS
<1>1. CASE EditCollection
  BY <1>1, FilterEdited
<1>2. CASE UNCHANGED vars
  <2>1. /\ request' = request /\ pc' = pc /\ compiled' = compiled /\ branch' = branch
        /\ found' = found /\ answer' = answer
    BY <1>2 DEF vars
  <2>2. IsPlan' = IsPlan /\ IsCompare' = IsCompare /\ Args' = Args
    BY <2>1 DEF IsPlan, IsCompare, Args
  <2>3. CASE pc \in Calls \ {"resolve"} /\ ~ IsCompare
    <3>1. UnderWay /\ Collected(pc', found') /\ pc' \in Calls /\ UNCHANGED <<compiled, branch>>
      BY <2>1, <2>3 DEF Collecting
    <3>2. QED
      BY <2>1, <3>1, FilterGoesOn
  <2>4. CASE ~ (pc \in Calls \ {"resolve"} /\ ~ IsCompare)
    <3>1. ItemsSatisfyFilter'
      BY <2>1, <2>2, Zenon DEF Collecting, ItemsSatisfyFilter, Done
    <3>2. ~ (pc' \in Calls \ {"resolve"} /\ ~ IsCompare')
      BY <2>1, <2>2, <2>4
    <3>3. pc' = "start" /\ ~ IsPlan' => found' = Nothing
      BY <2>1, <2>2 DEF Collecting
    <3>4. QED
      BY <3>1, <3>2, <3>3 DEF Collecting
  <2>5. QED
    BY <2>3, <2>4
<1>3. CASE SearchStep /\ IsCompare
  <2>1. request' = request
    BY <1>3, StepsKeep DEF SearchStep
  <2>2. IsCompare'
    BY <1>3, <2>1 DEF IsCompare, IsPlan
  <2>3. QED
    BY <2>2, FilterCompares
<1>4. CASE SearchStep /\ ~ IsCompare
  <2>1. CASE StartPlan \/ StartFlat \/ ResolveBySimilarity \/ CallFails
    BY <1>4, <2>1, FilterStartsPlan, FilterStartsFlat, FilterResolves, FilterCallFails
  <2>2. CASE CountCandidates
    BY <1>4, <2>2, FilterCounts DEF Called, CountCandidates
  <2>3. CASE LookUpLoosely
    BY <1>4, <2>3, FilterLooksLoosely DEF Called, LookUpLoosely
  <2>4. CASE LookUpStrictly
    BY <1>4, <2>4, FilterLooksStrictly DEF Called, LookUpStrictly
  <2>5. CASE SearchCandidates
    BY <1>4, <2>5, FilterSearches DEF Called, SearchCandidates
  <2>6. CASE SearchLane
    BY <1>4, <2>6, FilterSearchesLane DEF Called, SearchLane
  <2>7. CASE CountStage
    BY <1>4, <2>7, FilterCountsStage DEF Called, CountStage
  <2>8. CASE SearchAlternatives
    BY <1>4, <2>8, FilterAddsAlternatives DEF Called, SearchAlternatives
  <2>9. QED
    BY <1>4, <2>1, <2>2, <2>3, <2>4, <2>5, <2>6, <2>7, <2>8 DEF SearchStep
<1>5. QED
  BY <1>1, <1>2, <1>3, <1>4 DEF Next

\* Every product shown is of the catalogue and meets the conditions: those of
\* the plan in its filter and its selection, although Qdrant is asked for one
\* branch of them at a time with the values found in the catalogue, or those
\* of a flat search that no stage of alternatives may give up; and neither
\* the lanes, the ranking nor the points that come and go bring in another
\* (_search_flat_with_trace, _directional_candidate_pool, _search_alternatives).
THEOREM ItemsMeet == Spec => []ItemsSatisfyFilter
<1>1. Collecting => ItemsSatisfyFilter
  BY DEF Collecting
<1>2. QED
  BY <1>1, InitPrepared, NextPrepared, InitComparing, NextComparing, InitCollecting,
     NextCollecting, PTL DEF Spec
=============================================================================
