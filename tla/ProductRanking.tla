--------------------------- MODULE ProductRanking ---------------------------
(***************************************************************************)
(* What the vector store answers to search arguments, and how its hits are *)
(* put in order (app/vectorstores/qdrant.py, app/retrieval/qdrant.py).     *)
(* Scores are integers: similarities out of 100, shares out of Unit.       *)
(***************************************************************************)
EXTENDS PlanCompilation

CONSTANTS
  Place,              \* the order of product ids, as a number of each
  Score,              \* similarity of each point to the query
  RelevanceLimit,     \* candidates of a search by relevance
  SortLimit,          \* candidates of a sorted search
  DirectionalLimit,   \* candidates of a search with ranking objectives
  FieldLimit,         \* candidates of one field-ordered lane
  AlternativeScore,   \* alternative_min_score
  Directional         \* directional_ranking_enabled

ASSUME RankingAssumption ==
  /\ Place \in [Points -> Nat] /\ Score \in [Points -> 0 .. 100]
  /\ \A p, q \in Points : Place[p] = Place[q] => p = q
  /\ {RelevanceLimit, SortLimit, DirectionalLimit, FieldLimit} \subseteq Nat \ {0}
  /\ Directional \in BOOLEAN

AlternativeLimit == 3
Unit == 3600

\* The elements of a set by their keys, pairs of numbers.
Ordered(S, key) ==
  LET before(y, x) == \/ key[y][1] < key[x][1]
                      \/ key[y][1] = key[x][1] /\ key[y][2] < key[x][2]
  IN  [i \in 1 .. Cardinality(S) |->
         CHOOSE x \in S : Cardinality({y \in S : before(y, x)}) = i - 1]

\* A value by which the better one comes first.
Wanted(direction, value) == IF direction = "maximize" THEN -value ELSE value

Upto(s, n) == SubSeq(s, 1, Min({Len(s), n}))

-----------------------------------------------------------------------------
\* Filters (build_filter).

\* _structured_conditions and _attribute_condition
StructuredHolds(a, x) ==
  /\ \A f \in {"category_id", "color_code", "in_stock", "ram_gb"} : a[f] \in {Absent, x[f]}
  /\ \A f \in {"brand", "model_family"} : a[f] = Absent \/ Same(a[f], x[f])
  /\ a.min_price = Absent \/ x.price >= a.min_price
  /\ a.max_price = Absent \/ x.price <= a.max_price
  /\ \A p \in ToSet(a.attributes) : PointMeets(p, x)

\* Mutant: a negation is not sent to the store.
ExpressionHeld(a, x) == \/ a.filter.kind \in {"not", "all_of"}
                        \/ FALSE \notin Condition(a.filter, x)

ExpressionHolds(a, x) == FALSE \notin Condition(a.filter, x)

Identified(a, x) ==
  \A f \in {"product_id", "sku", "model"} : a[f] = Absent \/ Same(a[f], x[f])

\* The points a search and a count see: identifiers do not narrow them, and
\* products that were asked for by name are left out.
Accepted(a, points) ==
  {p \in points \ a.excluded : /\ StructuredHolds(a, Products[p])
                               /\ ExpressionHolds(a, Products[p])}

\* exact_candidates, with or without the structured filters
ExactLoose(a, points) == {p \in points : Identified(a, Products[p])}
ExactStrict(a, points) ==
  {p \in ExactLoose(a, points) : /\ StructuredHolds(a, Products[p])
                                 /\ ExpressionHolds(a, Products[p])}

\* search_candidates: hits by similarity.
Hit(p, score) == [id |-> p, score |-> score]

Hits(ids, score) == [i \in DOMAIN ids |-> Hit(ids[i], score[ids[i]])]

Nearest(points, limit) ==
  Upto(Hits(Ordered(points, [p \in points |-> <<-Score[p], Place[p]>>]), Score), limit)

\* ordered_candidates: points that have the field, by its value.
ByField(points, goal) ==
  LET has == {p \in points : Products[p][goal.field] # Absent}
      key == [p \in has |-> <<Wanted(goal.direction, Products[p][goal.field]), Place[p]>>]
  IN  Upto(Hits(Ordered(has, key), [p \in has |-> 0]), FieldLimit)

-----------------------------------------------------------------------------
\* Ranking.

\* _effective_ranking_objectives: a sort is an objective, unless one of its
\* field was given.
EffectiveObjectives(a) ==
  LET goal == SortGoals[a.sort]
  IN  IF a.sort = "relevance" \/ \E o \in ToSet(a.objectives) : o.field = goal.field
      THEN a.objectives
      ELSE Append(a.objectives, [field |-> goal.field, direction |-> goal.direction,
                                 priority |-> "primary", origin |-> "explicit",
                                 current |-> TRUE, refs |-> {}])

Rearranged(hits, order) == [i \in DOMAIN order |-> hits[order[i]]]

\* _sort_hits
SortHits(hits, sort) ==
  LET goal == SortGoals[sort]
      byScore(i) == <<-hits[i].score, Place[hits[i].id]>>
      byGoal(i) == <<Wanted(goal.direction, Products[hits[i].id][goal.field]), i>>
  IN  Rearranged(hits, Ordered(DOMAIN hits,
        [i \in DOMAIN hits |-> IF sort = "relevance" THEN byScore(i) ELSE byGoal(i)]))

\* Mutant: whatever the direction, more is better.
PercentileUpwards(ids, o, p) ==
  LET present == {Products[q][o.field] : q \in ids} \ {Absent}
      value == Products[p][o.field]
  IN  IF value = Absent THEN 0
      ELSE (Unit * Cardinality({v \in present : v <= value})) \div Cardinality(present)

\* _percentile_scores: the place of a value among those of the candidates.
Percentile(ids, o, p) ==
  LET present == {Products[q][o.field] : q \in ids} \ {Absent}
      value == Products[p][o.field]
      upto == Cardinality({v \in present : v <= value})
      n == Cardinality(present)
  IN  IF value = Absent THEN 0
      ELSE IF o.direction = "maximize" THEN (Unit * upto) \div n
      ELSE (Unit * (n + 1 - upto)) \div n

\* _weighted_average of the objectives of some origin; 0 where there is none.
WeightedAverage(ids, p, objectives) ==
  LET weight == [i \in DOMAIN objectives |-> IF objectives[i].priority = "primary" THEN 2 ELSE 1]
      sum == Total([i \in DOMAIN objectives |-> weight[i] * Percentile(ids, objectives[i], p)])
      total == Total(weight)
  IN  IF total = 0 THEN 0 ELSE sum \div total

\* The score of a candidate: explicit objectives 80, similarity 15, soft
\* wishes 5.  The weights of groups without a score are the same for all
\* candidates, and so is what they are divided by.
TotalScore(a, objectives, ids, hit) ==
  LET isInferred(i) == objectives[i].origin = "inferred"
      explicit == Chosen(objectives, {i \in DOMAIN objectives : ~isInferred(i)})
      inferred == Chosen(objectives, {i \in DOMAIN objectives : isInferred(i)})
      wishes == PredicateCount(a.preference)
      binary == IF wishes = 0 THEN 0
                ELSE (Unit * PreferenceScore(a.preference, Products[hit.id])) \div wishes
      groups == (IF inferred # <<>> THEN 1 ELSE 0) + (IF wishes > 0 THEN 1 ELSE 0)
      soft == IF groups = 0 THEN 0
              ELSE (WeightedAverage(ids, hit.id, inferred) + binary) \div groups
  IN  80 * WeightedAverage(ids, hit.id, explicit)
        + 15 * ((Unit * hit.score) \div 100) + 5 * soft

\* _rank_hits_with_trace: by score, then as sorted; only sorted where there
\* is nothing to rank by, or ranking is switched off.
RankedBy(hits, total) ==
  Rearranged(hits, Ordered(DOMAIN hits, [i \in DOMAIN hits |-> <<-total[i], i>>]))

RankSorted(hits, a, objectives) ==
  LET ids == {h.id : h \in ToSet(hits)}
  IN  IF \/ objectives = <<>> /\ a.preference = NoExpr
         \/ objectives # <<>> /\ ~Directional
      THEN hits
      ELSE RankedBy(hits, [i \in DOMAIN hits |-> TotalScore(a, objectives, ids, hits[i])])

RankHits(hits, a) == RankSorted(SortHits(hits, a.sort), a, EffectiveObjectives(a))

-----------------------------------------------------------------------------
\* Relaxation.

Relaxable == << <<"color_code">>, <<"min_price", "ram_gb">>, <<"brand", "model_family">> >>

\* _alternative_stages: the filters that are not required are given up group
\* by group, technical attributes with the second.
StagesOf(a) ==
  LET given(b, g) == {f \in ToSet(Relaxable[g]) : f \notin a.required /\ b[f] # Absent}
      kept(s, fields) == Chosen(s, {i \in DOMAIN s : s[i].field \in fields})
      bounds(b, g) ==
        IF g = 2 THEN {p \in ToSet(b.attributes) : p.field \notin a.required} ELSE {}
      removed(b, g) == given(b, g) \cup {p.field : p \in bounds(b, g)}
      relax(b, g) ==
        [f \in DOMAIN b |->
           IF f \in given(b, g) THEN Absent
           ELSE IF f = "attributes" /\ g = 2 THEN kept(b.attributes, a.required)
           ELSE b[f]]
      next(stages, g) ==
        LET at == Last(stages)
        IN  IF removed(at.args, g) = {} THEN stages
            ELSE Append(stages, [args |-> relax(at.args, g),
                                 relaxed |-> at.relaxed \cup removed(at.args, g)])
  IN  next(next(next(<<[args |-> a, relaxed |-> {}]>>, 1), 2), 3)

\* _alternative_base_args: the identifiers are given up; a flat search gets
\* the brand and the family its query names.
AlternativeBase(a, spoken) ==
  LET base == [a EXCEPT !.product_id = Absent, !.sku = Absent, !.model = Absent,
                        !.limit = Min({a.limit, AlternativeLimit})]
      scope == {p \in Loaded : a.category_id \in {Absent, Products[p].category_id}}
      phrase(field) ==
        LET named == {Products[p][field] : p \in scope} \cap spoken
        IN  IF a[field] # Absent \/ named = {} THEN a[field] ELSE TheOnly(named)
  IN  IF a.compiled THEN base
      ELSE [base EXCEPT !.brand = phrase("brand"), !.model_family = phrase("model_family")]

-----------------------------------------------------------------------------
\* Conflicts.

\* Mutant: only a condition that fails by itself is reported.
ConflictsSingly(a, x) ==
  {f \in {"category_id", "in_stock"} : a[f] \notin {Absent, x[f]}}
  \cup (IF a.max_price # Absent /\ x.price > a.max_price THEN {"max_price"} ELSE {})
  \cup {p.field : p \in {q \in PredicatesOf(a.filter) :
          q.strength = "hard" /\ ~PredicateMatches(q, x)}}

\* _constraint_conflicts: what the product asked for does not meet, by name;
\* an expression no single condition of which fails is named as a whole.
Conflicts(a, x) ==
  LET failing == {p.field : p \in {q \in PredicatesOf(a.filter) :
                    q.strength = "hard" /\ ~PredicateMatches(q, x)}}
  IN  {f \in {"category_id", "in_stock"} : a[f] \notin {Absent, x[f]}}
      \cup {f \in {"brand", "model_family", "color_code", "ram_gb"} : a[f] # Absent /\ ~Same(a[f], x[f])}
      \cup (IF a.max_price # Absent /\ x.price > a.max_price THEN {"max_price"} ELSE {})
      \cup (IF a.min_price # Absent /\ x.price < a.min_price THEN {"min_price"} ELSE {})
      \cup {p.field : p \in {q \in ToSet(a.attributes) : ~PredicateMatches(q, x)}}
      \cup (IF Matches(a.filter, x) THEN {} ELSE IF failing = {} THEN {"logic"} ELSE failing)
=============================================================================
