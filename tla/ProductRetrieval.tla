-------------------------- MODULE ProductRetrieval --------------------------
(***************************************************************************)
(* One product search from its arguments to its answer                     *)
(* (app/retrieval/qdrant.py).  A search makes a series of calls to Qdrant, *)
(* each an action of its own, while an indexing job adds and removes       *)
(* points between them; any of the calls may fail.  A plan is compiled,    *)
(* its unknown entities are looked for by similarity, and its searches are *)
(* tried in turn, or all made for a comparison.  A flat search has one.    *)
(***************************************************************************)
EXTENDS ProductRanking

CONSTANTS
  Plans,             \* well-formed plans the model may propose
  FlatArguments,     \* valid flat arguments it may propose
  Stores,            \* the points in the collection when a search starts
  MaxEdits,          \* bound on the points added or removed during a search
  EntityScore,       \* similarity of each point to an entity's text
  EntityMinScore,    \* entity_resolution_min_score
  EntityMargin,      \* entity_resolution_margin
  Spoken             \* brands and families the query of a flat search names

\* ProductSearchArguments as the model fills them in: wishes and objectives
\* come from a compilation only.
IsFlat(a) ==
  /\ DOMAIN a = DOMAIN NoArguments
  /\ a.sort \in DOMAIN SortGoals \cup {"relevance"} /\ a.limit \in 1 .. 5
  /\ a.preference = NoExpr /\ a.objectives = <<>>

ASSUME RequestAssumption ==
  /\ \A plan \in Plans : WellFormed(plan)
  /\ \A a \in FlatArguments : IsFlat(a) /\ ValidArguments(a)
  /\ \A s \in Stores : s \subseteq Points

VARIABLES
  store,      \* the points in the collection
  edits,      \* changes of the collection so far
  always,     \* history: the points present ever since the search started
  request,    \* the plan or the flat arguments
  pc,         \* the call to make next
  compiled,   \* the compilation of the plan
  branch,     \* the search being made, by its place in the compilation
  found,      \* what the calls have returned
  entries,    \* entity results of a comparison
  answer

vars == <<store, edits, always, request, pc, compiled, branch, found, entries, answer>>
collection == <<store, edits, always, request>>

Calls == {"resolve", "count", "loose", "strict", "search", "lane", "stages", "alternatives"}

Nothing ==
  [queue |-> <<>>, overrides |-> <<>>, unclear |-> {}, count |-> 0, loose |-> {},
   hits |-> <<>>, lanes |-> <<>>, counts |-> <<>>, stage |-> 0, picked |-> <<>>]

NoAnswer == [status |-> "none", items |-> <<>>, requested |-> Absent, conflicts |-> {},
             relaxed |-> {}, strict |-> 0, branch |-> 0]

Answered(status) == [NoAnswer EXCEPT !.status = status]

NotCompiled == Compilation(NoExpr, <<>>, "none", "none", <<>>)

Init ==
  /\ store \in Stores
  /\ edits = 0
  /\ always = store
  /\ request \in [kind : {"plan"}, plan : Plans] \cup [kind : {"flat"}, args : FlatArguments]
  /\ pc = "start"
  /\ compiled = NotCompiled
  /\ branch = 0
  /\ found = Nothing
  /\ entries = <<>>
  /\ answer = NoAnswer

IsPlan == request.kind = "plan"
IsCompare == IsPlan /\ request.plan.op = "compare"

\* The arguments of the search under way; a flat search is one of its own.
Args == compiled.args[branch]

-----------------------------------------------------------------------------
\* Ends.

End(a) == /\ pc' = "done" /\ answer' = a
          /\ UNCHANGED <<compiled, branch, found, entries>>

HydrateFails(ids) == ~(ids \subseteq Loaded)

\* search_with_trace ends a search of the plan with its i-th arguments.
TryBranch(c, i) ==
  /\ pc' = "count" /\ compiled' = c /\ branch' = i
  /\ found' = Nothing
  /\ UNCHANGED answer

\* _execute_comparison: an entity is shown by the product asked for, or else
\* by the first one found; three products at most, each once.
Compared(es) ==
  LET shown == Chosen([i \in DOMAIN es |-> es[i].product],
                      {i \in DOMAIN es : es[i].product # Absent})
      items == Upto(Once(shown), 3)
  IN  [Answered(IF es # <<>> /\ Len(shown) = Len(es) THEN "exact_match"
                ELSE "matching_products")
         EXCEPT !.items = items, !.strict = Len(items)]

\* The next entity to search for, entities that are not resolved having an
\* empty entry; the comparison ends when there is none.
NextCompared(c, i, es) ==
  LET entities == SelectedOf(c.plan)
      isResolved(j) == c.res[entities[j].id].status = "resolved"
      rest == {j \in DOMAIN entities : j >= i /\ isResolved(j)}
      next == IF rest = {} THEN Len(entities) + 1 ELSE Min(rest)
      all == es \o [j \in 1 .. (next - i) |-> [id |-> entities[i + j - 1].id, product |-> Absent]]
  IN  /\ entries' = all /\ compiled' = c
      /\ IF rest = {}
         THEN pc' = "done" /\ answer' = Compared(all) /\ UNCHANGED <<branch, found>>
         ELSE TryBranch(c, next)

\* Mutant: the next branch is tried unless this one found something exact.
GoesOnLate(r, last) == r.status # "exact_match" /\ ~last

\* The loop over the branches goes on.
GoesOn(r, last) ==
  ~last /\ r.strict = 0 /\ r.status \notin {"exact_match", "matching_products"}

\* Mutant: a comparison takes the first product found, whatever was asked for.
FirstShown(r) == IF r.items # <<>> THEN r.items[1] ELSE r.requested

\* The product a comparison shows for an entity.
Shown(r) == IF r.requested # Absent THEN r.requested
            ELSE IF r.items # <<>> THEN r.items[1] ELSE Absent

\* The end of one search: of the last branch needed, of a comparison's
\* entity or of a flat search.  The product asked for is not among the
\* alternatives to it.
EndSearch(r) ==
  LET own == [r EXCEPT !.branch = branch,
                       !.items = Chosen(@, {i \in DOMAIN @ : ~IsPlan \/ @[i] # r.requested})]
      entry == [id |-> SelectedOf(compiled.plan)[branch].id, product |-> Shown(r)]
  IN  IF IsCompare THEN NextCompared(compiled, branch + 1, Append(entries, entry))
      ELSE IF IsPlan /\ GoesOn(r, branch = Len(compiled.args))
      THEN TryBranch(compiled, branch + 1) /\ UNCHANGED entries
      ELSE End(own)

-----------------------------------------------------------------------------
\* Compilation and entity resolution.

\* What becomes of a plan once it is compiled for good.
Dispatch(c) ==
  IF c.status # "run"
  THEN /\ pc' = "done" /\ compiled' = c
       /\ answer' = Answered(CASE c.status = "clarify" -> "clarification_required"
                               [] c.status = "empty" -> "not_found"
                               [] c.status = "invalid" -> "invalid_tool_arguments")
       /\ UNCHANGED <<branch, found, entries>>
  ELSE IF IsCompare THEN NextCompared(c, 1, <<>>)
  ELSE TryBranch(c, 1) /\ UNCHANGED entries

\* The entities to look for by similarity: those no index knows.
Unknown(c) ==
  LET es == SelectedOf(c.plan)
      isUnknown(e) == /\ e.id \in DOMAIN c.res
                      /\ c.res[e.id].status = "unresolved" /\ e.type = "auto"
  IN  Chosen(es, {i \in DOMAIN es : isUnknown(es[i])})

StartPlan ==
  /\ pc = "start" /\ IsPlan
  /\ \E c \in {Compile(request.plan, <<>>)} :
         IF c.status \in {"run", "empty"} /\ Unknown(c) # <<>>
         THEN /\ pc' = "resolve" /\ compiled' = c
              /\ found' = [Nothing EXCEPT !.queue = Unknown(c)]
              /\ UNCHANGED <<branch, entries, answer>>
         ELSE Dispatch(c)
  /\ UNCHANGED collection

StartFlat ==
  /\ pc = "start" /\ ~IsPlan
  /\ pc' = "count"
  /\ compiled' = Compilation(NoExpr, <<>>, "run", "none", <<Canonicalize(request.args)>>)
  /\ branch' = 1
  /\ UNCHANGED <<collection, found, entries, answer>>

\* _semantic_entity_resolution, one entity: the nearest point that is near
\* enough, unless the next is about as near.
ResolveBySimilarity ==
  /\ pc = "resolve"
  /\ LET e == Head(found.queue)
         score(p) == EntityScore[e.raw][p]
         strong == {p \in store : score(p) >= EntityMinScore}
         best == CHOOSE p \in strong : \A q \in strong :
                   score(p) > score(q) \/ (score(p) = score(q) /\ Place[p] <= Place[q])
         unclear == \E q \in strong \ {best} : score(best) - score(q) < EntityMargin
         next == [found EXCEPT
                    !.queue = Tail(@),
                    !.overrides = IF strong # {} /\ ~unclear THEN (e.id :> best) @@ @ ELSE @,
                    !.unclear = IF strong # {} /\ unclear THEN @ \cup {e.id} ELSE @]
     IN  IF next.queue # <<>>
         THEN found' = next /\ UNCHANGED <<pc, compiled, branch, entries, answer>>
         ELSE IF next.unclear # {} THEN End(Answered("clarification_required"))
         ELSE IF next.overrides = <<>> THEN Dispatch(compiled)
         ELSE Dispatch(Compile(request.plan, next.overrides))
  /\ UNCHANGED collection

-----------------------------------------------------------------------------
\* One search (_search_flat_with_trace).

Stages == StagesOf(AlternativeBase(Args, Spoken))

Proceed(next, f) ==
  pc' = next /\ found' = f /\ UNCHANGED <<collection, compiled, branch, entries, answer>>

CountCandidates ==
  /\ pc = "count"
  /\ LET n == Cardinality(Accepted(Args, store))
     IN  Proceed(IF HasIdentifier(Args) THEN "loose" ELSE IF n > 0 THEN "search" ELSE "stages",
                 [found EXCEPT !.count = n])

IdsOf(hits) == [i \in DOMAIN hits |-> hits[i].id]
TopIds(hits) == IdsOf(Upto(RankHits(hits, Args), Args.limit))

\* _result, which fails for a product the catalogue does not have.
EndShowing(ids, status, total) ==
  IF HydrateFails(ToSet(ids)) THEN End(Answered("unavailable"))
  ELSE EndSearch([Answered(status) EXCEPT !.items = ids, !.strict = total])

LookUpLoosely ==
  /\ pc = "loose"
  /\ Proceed("strict", [found EXCEPT !.loose = ExactLoose(Args, store)])

\* The product asked for, if it meets the filters; if it does not, it is
\* shown with what it conflicts with and with alternatives.
LookUpStrictly ==
  /\ pc = "strict"
  /\ LET strict == ExactStrict(Args, store)
         ids == Ordered(strict, [p \in strict |-> <<Place[p], 0>>])
     IN  IF strict # {}
         THEN /\ UNCHANGED collection
              /\ EndShowing(TopIds(Hits(ids, [p \in strict |-> 100])),
                            "exact_match", Cardinality(strict))
         ELSE IF found.loose # {} /\ HydrateFails({CHOOSE p \in found.loose :
                   \A q \in found.loose : Place[p] <= Place[q]})
         THEN UNCHANGED collection /\ End(Answered("unavailable"))
         ELSE Proceed("stages", found)

\* The end of a search by similarity.
EndMatching(hits) ==
  EndShowing(TopIds(hits), IF hits = <<>> THEN "not_found" ELSE "matching_products", found.count)

CandidateLimit(a, objectives) ==
  IF objectives # <<>> THEN DirectionalLimit
  ELSE IF a.sort # "relevance" THEN SortLimit ELSE RelevanceLimit

SearchCandidates ==
  /\ pc = "search"
  /\ LET hits == Nearest(Accepted(Args, store), CandidateLimit(Args, Args.objectives))
         lanes == EffectiveObjectives(Args)
     IN  IF lanes # <<>> /\ Directional
         THEN Proceed("lane", [found EXCEPT !.hits = hits, !.lanes = lanes])
         ELSE EndMatching(hits) /\ UNCHANGED collection

\* _directional_candidate_pool: a lane adds the products not yet there.
Pooled(hits, more) ==
  hits \o Chosen(more, {i \in DOMAIN more : \A g \in ToSet(hits) : g.id # more[i].id})

SearchLane ==
  /\ pc = "lane"
  /\ LET hits == Pooled(found.hits, ByField(Accepted(Args, store), Head(found.lanes)))
         rest == Tail(found.lanes)
     IN  IF rest # <<>>
         THEN Proceed("lane", [found EXCEPT !.hits = hits, !.lanes = rest])
         ELSE EndMatching(hits) /\ UNCHANGED collection

-----------------------------------------------------------------------------
\* Alternatives (_search_alternatives).

Requested == IF found.loose = {} THEN Absent
             ELSE CHOOSE p \in found.loose : \A q \in found.loose : Place[p] <= Place[q]

\* _field_was_requested: not a brand or family only the query names
AskedFor(f) == \/ f \in DOMAIN Args /\ Args[f] # Absent
               \/ \E p \in ToSet(Args.attributes) : p.field = f

\* The end of a search for alternatives, to the product asked for or to
\* whatever would have met the filters.
EndAlternatives(picked) ==
  LET ids == IdsOf(picked)
      status == IF Requested # Absent THEN "exact_conflict"
                ELSE IF ids # <<>> THEN "alternatives" ELSE "not_found"
  IN  IF HydrateFails(ToSet(ids)) THEN End(Answered("unavailable"))
      ELSE EndSearch([Answered(status) EXCEPT
             !.items = ids, !.requested = Requested,
             !.relaxed = {f \in UNION {p.relaxed : p \in ToSet(picked)} : AskedFor(f)},
             !.conflicts = IF Requested = Absent THEN {}
                           ELSE Conflicts(Args, Products[Requested])])

\* The stages after i that had candidates when they were counted.
Promising(counts, i) == {j \in DOMAIN counts : j > i /\ counts[j] > 0}

Counted(counts, first) ==
  IF Len(counts) < Len(Stages) THEN Proceed("stages", [found EXCEPT !.counts = counts])
  ELSE IF first = {} THEN EndAlternatives(<<>>) /\ UNCHANGED collection
  ELSE Proceed("alternatives", [found EXCEPT !.counts = counts, !.stage = Min(first)])

CountStage ==
  /\ pc = "stages"
  /\ LET n == Cardinality(Accepted(Stages[Len(found.counts) + 1].args, store))
         counts == Append(found.counts, n)
     IN  Counted(counts, Promising(counts, 0))

\* What a stage adds to the products picked: its near enough ones, ranked,
\* until the places are filled.
PickedAt(at, picked, target) ==
  LET hits == Nearest(Accepted(at.args, store), CandidateLimit(Args, EffectiveObjectives(Args)))
      near == RankHits(Chosen(hits, {i \in DOMAIN hits : hits[i].score >= AlternativeScore}),
                       at.args)
      new == Chosen(near, {i \in DOMAIN near : \A p \in ToSet(picked) : p.id # near[i].id})
  IN  Upto(picked \o [i \in DOMAIN new |-> [id |-> new[i].id, relaxed |-> at.relaxed]], target)

\* One stage.  Its lanes are asked too, but may add nothing.
SearchAlternatives ==
  /\ pc = "alternatives"
  /\ LET target == Min({Args.limit, AlternativeLimit})
         rest == Promising(found.counts, found.stage)
     IN  \E picked \in {PickedAt(Stages[found.stage], found.picked, target)} :
           IF rest # {} /\ Len(picked) < target
           THEN Proceed("alternatives", [found EXCEPT !.picked = picked, !.stage = Min(rest)])
           ELSE EndAlternatives(picked) /\ UNCHANGED collection

-----------------------------------------------------------------------------
\* A call fails: all but the lanes of the first search are under a handler.
Failure(call) == IF call = "lane" THEN "tool_failed" ELSE "unavailable"

CallFails ==
  /\ pc \in Calls
  /\ End(Answered(Failure(pc)))
  /\ UNCHANGED collection

\* External: a job indexes or removes a product.
EditCollection ==
  /\ pc \in Calls /\ edits < MaxEdits
  /\ \E p \in Points :
       /\ store' = IF p \in store THEN store \ {p} ELSE store \cup {p}
       /\ always' = always \ {p}
  /\ edits' = edits + 1
  /\ UNCHANGED <<request, pc, compiled, branch, found, entries, answer>>

SearchStep ==
  \/ StartPlan \/ StartFlat \/ ResolveBySimilarity
  \/ CountCandidates \/ LookUpLoosely \/ LookUpStrictly
  \/ SearchCandidates \/ SearchLane \/ CountStage \/ SearchAlternatives
  \/ CallFails

Next == SearchStep \/ EditCollection

Spec == Init /\ [][Next]_vars
-----------------------------------------------------------------------------
\* Properties.

Done == pc = "done"

\* A product meets the conditions of the plan, in its filter or in its
\* selection, or those of a flat search that may never be relaxed:
\* category, budget, stock and what was required.
MeetsPlan(plan, x) ==
  \A e \in {plan.filter, SelectionFilter(plan.selection)} : AskedInFull(e) => Matches(e, x)

MeetsRequired(a, x) ==
  /\ a.category_id \in {Absent, x.category_id}
  /\ a.max_price = Absent \/ x.price <= a.max_price
  /\ a.in_stock \in {Absent, x.in_stock}
  /\ \A f \in a.required \cap RequirableFields : a[f] = Absent \/ Same(a[f], x[f])

\* Every product shown is of the catalogue and meets the conditions, although
\* Qdrant was asked something else: a branch of them, values in normal form,
\* on points that come and go.  (A comparison shows the products asked for
\* whatever they meet.)
ItemsSatisfyFilter ==
  Done => \A p \in ToSet(answer.items) :
    \/ IsCompare
    \/ /\ p \in Loaded
       /\ IF IsPlan THEN MeetsPlan(compiled.plan, Products[p])
          ELSE MeetsRequired(Args, Products[p])

\* A product that answers the j-th branch of the plan and was there all the
\* time is not missed: the answer comes from that branch, with products, or
\* from an earlier one.
StableMatchFound ==
  Done /\ IsPlan /\ ~IsCompare /\ answer.branch > 0 =>
    \A j \in DOMAIN compiled.args :
      LET a == compiled.args[j]
          fits(p) == /\ Matches(a.filter, Products[p])
                     /\ a.model_family = Absent
                          \/ Same(a.model_family, Products[p].model_family)
      IN  ~HasIdentifier(a) /\ (\E p \in always : fits(p)) =>
            /\ answer.branch <= j
            /\ answer.branch = j => answer.status = "matching_products"

\* While something meets the first option of a fallback, nothing is shown
\* that meets only the second, whichever way the options are tried.
FirstOptionFirst ==
  LET x == compiled.plan.filter
      first == Kids(x)[1]
  IN  Done /\ IsPlan /\ ~IsCompare /\ answer.status = "matching_products"
        /\ x.kind = "fallback" /\ compiled.plan.entities = <<>>
        /\ ~NegatesFallback(x) /\ compiled.plan.selection = NoExpr
        /\ (\E p \in always : Matches(first, Products[p]))
      => \A p \in ToSet(answer.items) : Matches(first, Products[p])

\* Whoever is told that the product asked for conflicts with the request is
\* told with what, if the product was there all the time.
ConflictExplained ==
  Done /\ answer.status = "exact_conflict" /\ answer.requested \in always =>
    answer.conflicts # {}

\* Said in this message, or recalled as it was.
SaidOrRemembered(p) ==
  \/ p.current
  \/ \E r \in DOMAIN Recall :
       \/ Recall[r].kind = "predicate" /\ SamePredicate(p, Recall[r])
       \/ /\ Recall[r].kind = "entity" /\ p.op = "eq"
          /\ \/ /\ p.field = Recall[r].field
                /\ \A v \in ToSet(p.values) : Same(v, Recall[r].value)
             \/ p.field = "product_id" /\ p.values = <<Recall[r].product>>

NumberFounded(p) ==
  \/ p.literal /\ p.current
  \/ \E r \in DOMAIN Recall : /\ Recall[r].kind = "predicate"
                              /\ Recall[r].field = p.field
                              /\ ToSet(Recall[r].values) = ToSet(p.values)
  \/ \E c \in request.plan.context \cap Loaded : p.values = <<Products[c][p.field]>>

\* Nothing is searched for that the user did not say in this message or
\* earlier: every condition sent, every number in one and every product
\* looked up, which is what an entity of the message was found to be or the
\* one an earlier answer was about, whatever the model wrote into the plan.
OnlyGrounded ==
  IsPlan /\ compiled.status = "run" => \A a \in ToSet(compiled.args) :
    /\ \A p \in PredicatesOf(a.filter) :
         SaidOrRemembered(p) /\ (p.field \in NumericFields => NumberFounded(p))
    /\ a.product_id # Absent =>
         \/ \E e \in ToSet(SelectedOf(request.plan)) :
              /\ e.current /\ e.id \in DOMAIN compiled.res
              /\ a.product_id \in {e.raw, compiled.res[e.id].product}
         \/ \E r \in DOMAIN Recall :
              Recall[r].kind = "entity" /\ Recall[r].product = a.product_id

Better(o, p, q) ==
  LET x == Products[p][o.field]
      y == Products[q][o.field]
  IN  x # Absent /\ (y = Absent \/ (IF o.direction = "maximize" THEN x > y ELSE x < y))

\* The first product shown is not beaten on every count: no product that
\* meets the filter and was there all the time is better by every objective,
\* nearer to the query and as much liked, although candidates are cut off
\* by similarity and by field before they are compared.
NotDominated ==
  Done /\ answer.status = "matching_products" /\ ~IsCompare =>
    LET a == compiled.args[answer.branch]
        first == answer.items[1]
        dominates(p) ==
          /\ \A o \in ToSet(EffectiveObjectives(a)) : Better(o, p, first)
          /\ Score[p] > Score[first]
          /\ PreferenceScore(a.preference, Products[p])
               >= PreferenceScore(a.preference, Products[first])
    IN  \A p \in Accepted(a, always) : ~dominates(p)

\* A comparison shows every product it was asked to compare that was there
\* all the time, also one that meets none of the filters; ids that are equal
\* in normal form are one identifier.
ComparedShown ==
  Done /\ IsCompare /\ answer.status \in {"exact_match", "matching_products"} =>
    \A id \in DOMAIN compiled.res :
      compiled.res[id].status = "resolved" /\ compiled.res[id].product \in always =>
        \E p \in ToSet(answer.items) : Same(p, compiled.res[id].product)
=============================================================================
