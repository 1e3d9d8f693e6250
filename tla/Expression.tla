----------------------------- MODULE Expression -----------------------------
(***************************************************************************)
(* The filter language of a product query plan (SemanticExpression and     *)
(* SemanticPredicate, app/tools/schemas.py) and its two readings: the one  *)
(* that looks at a product (app/retrieval/semantic_plan.py) and the one    *)
(* Qdrant is given (app/vectorstores/qdrant.py).  A plan is accepted under *)
(* the first and answered under the second.                                *)
(*                                                                         *)
(* A node is [kind, pred], [kind, kids] or [kind, entity]; a fallback has  *)
(* its primary and its secondary as kids.  Fields are one of a sort: text  *)
(* kept raw or normalised in the payload, numbers and one boolean.  Units, *)
(* list fields, dimensions and alias names of fields are left out.         *)
(*                                                                         *)
(* A function of the code that calls itself on the kids is an instance of  *)
(* Recursion: its step, named ...At, is given what the kids have come to.  *)
(***************************************************************************)
EXTENDS Lists

CONSTANTS
  Absent,     \* None
  Texts,      \* the text values of plans and products
  Norm(_)     \* normalize_text

ASSUME TextAssumption == Absent \notin Texts /\ \A t \in Texts : Norm(t) \in Texts

RawFields == {"category_id", "color_code"}
NormalisedFields == {"product_id", "sku", "model", "brand", "model_family"}
NumericFields == {"price", "ram_gb", "rating"}
BooleanFields == {"in_stock"}
Comparisons == {"lt", "lte", "gt", "gte"}

NoExpr == [kind |-> "none"]
Leaf(p) == [kind |-> "predicate", pred |-> p]
Node(kind, kids) == [kind |-> kind, kids |-> kids]
Kids(e) == IF "kids" \in DOMAIN e THEN e.kids ELSE <<>>

\* _equal: texts are compared in normal form, everything else as it is.
Normal(v) == IF v \in Texts THEN Norm(v) ELSE v
Same(a, b) == Normal(a) = Normal(b)

-----------------------------------------------------------------------------
\* The nodes n levels below an expression.  A plan has six levels at most;
\* grounding may add one, each conjunction of the compilation another.

MaxDepth == 10

LevelAt(above, n, e) ==
  IF n = 0 THEN {e} ELSE UNION {ToSet(Kids(x)) : x \in above[1]}

Descending == INSTANCE Recursion WITH Kids <- Lower, Parts <- UpTo, Step <- LevelAt
Level(e, n) == Descending!Value(n, e)

\* SemanticExpression.depth is at most n.
Within(e, n) == Level(e, n) = {}

Parts(e) == UNION {Level(e, n) : n \in 0 .. MaxDepth}

-----------------------------------------------------------------------------
\* SemanticExpression.predicate_count

PredicateCountAt(counts, e, c) ==
  IF e.kind = "predicate" THEN 1 ELSE Total(counts)

Counting == INSTANCE Recursion WITH Step <- PredicateCountAt
PredicateCount(e) == Counting!Value(e, {})

\* SemanticPredicate.  A list of several values only goes with in and not_in,
\* the others of the code match nothing; an empty list raises there.
PredicateKeys ==
  {"field", "op", "values", "strength", "literal", "prov", "source", "current", "refs"}

IsPredicate(p) ==
  /\ DOMAIN p = PredicateKeys
  /\ p.op \in {"eq", "not_eq", "in", "not_in"} \cup Comparisons
  /\ p.values \in Seq(ToSet(p.values)) /\ p.values # <<>> /\ Absent \notin ToSet(p.values)
  /\ p.op \in {"in", "not_in"} \/ Len(p.values) = 1

\* validate_shape
Shaped(x) ==
  /\ Kids(x) \in Seq(ToSet(Kids(x)))
  /\ \/ x.kind \in {"all_of", "any_of"} /\ Kids(x) # <<>>
     \/ x.kind \in {"not", "prefer"} /\ Len(Kids(x)) = 1
     \/ x.kind = "fallback" /\ Len(Kids(x)) = 2
     \/ x.kind = "predicate" /\ Kids(x) = <<>> /\ IsPredicate(x.pred)
     \/ x.kind = "entity_ref" /\ Kids(x) = <<>>

WellShaped(e) == \A x \in Parts(e) : Shaped(x)

\* iter_predicates and _entity_refs; nobody depends on their order.
PredicatesOf(e) == {x.pred : x \in {y \in Parts(e) : y.kind = "predicate"}}
EntityRefs(e) == {x.entity : x \in {y \in Parts(e) : y.kind = "entity_ref"}}

-----------------------------------------------------------------------------
\* Readings of a predicate.

Compares(op, a, b) ==
  CASE op = "lt" -> a < b
    [] op = "lte" -> a <= b
    [] op = "gt" -> a > b
    [] op = "gte" -> a >= b

\* _predicate_matches: against a product, every text normalised.
PredicateMatches(p, product) ==
  LET actual == product[p.field]
      listed == \E v \in ToSet(p.values) : Same(actual, v)
  IN  CASE p.op \in {"eq", "in"} -> listed
        [] p.op \in {"not_eq", "not_in"} -> ~listed
        [] OTHER -> actual # Absent /\ Compares(p.op, actual, p.values[1])

\* _semantic_predicate_condition: against a payload, where only some fields
\* are stored normalised and a missing key meets no condition.
PointMeets(p, payload) ==
  LET actual == payload[p.field]
      Key(v) == IF p.field \in NormalisedFields THEN Normal(v) ELSE v
  IN  /\ actual # Absent
      /\ IF p.op \in Comparisons THEN Compares(p.op, actual, p.values[1])
         ELSE \E v \in ToSet(p.values) : Key(actual) = Key(v)

-----------------------------------------------------------------------------
\* Readings of an expression.

\* expression_matches
MatchesAt(matches, e, product) ==
  LET any == \E i \in DOMAIN matches : matches[i]
  IN  CASE e.kind = "predicate" -> PredicateMatches(e.pred, product)
        [] e.kind \in {"any_of", "fallback"} -> any
        [] e.kind \in {"all_of", "prefer"} -> \A i \in DOMAIN matches : matches[i]
        [] e.kind = "not" -> ~any
        [] OTHER -> TRUE

Matching == INSTANCE Recursion WITH Step <- MatchesAt
Matches(e, product) == Matching!Value(e, product)

\* preference_score
PreferenceScoreAt(scores, e, product) ==
  CASE e.kind = "predicate" -> IF PredicateMatches(e.pred, product) THEN 1 ELSE 0
    [] e.kind \in {"all_of", "any_of"} -> Total(scores)
    [] e.kind \in {"not", "prefer"} -> IF Matches(e, product) THEN 1 ELSE 0
    [] e.kind = "fallback" -> Max({scores[1], scores[2]})
    [] OTHER -> 0

Scoring == INSTANCE Recursion WITH Step <- PreferenceScoreAt
PreferenceScore(e, product) == Scoring!Value(e, product)

\* _semantic_condition: the condition of an expression on a payload, as the
\* set of its truth value, and {} where there is no condition.  Soft
\* predicates, preferences and entity references say nothing to Qdrant, and
\* of a fallback it hears the primary only.
ConditionAt(conditions, e, payload) ==
  LET heard == UNION ToSet(conditions)
      meets == PointMeets(e.pred, payload)
  IN  CASE e.kind = "predicate" ->
             IF e.pred.strength # "hard" THEN {}
             ELSE {IF e.pred.op \in {"not_eq", "not_in"} THEN ~meets ELSE meets}
        [] e.kind = "all_of" -> IF heard = {} THEN {} ELSE {FALSE \notin heard}
        [] e.kind = "any_of" -> IF heard = {} THEN {} ELSE {TRUE \in heard}
        [] e.kind = "not" -> {~b : b \in heard}
        [] e.kind = "fallback" -> conditions[1]
        [] OTHER -> {}

Asking == INSTANCE Recursion WITH Step <- ConditionAt
Condition(e, payload) == Asking!Value(e, payload)

\* A fallback under a negation is split into branches that each say less
\* than the expression does.
NegatesFallback(e) ==
  \E x \in Parts(e) : x.kind = "not" /\ \E y \in Parts(x) : y.kind = "fallback"

\* Qdrant is asked for all that an expression says, in some branch: no part
\* of it is only a wish or an entity, and no name is compared, which the
\* payload has as it is written.
AskedInFull(e) ==
  /\ ~NegatesFallback(e)
  /\ \A x \in Parts(e) :
       /\ x.kind \notin {"prefer", "entity_ref"}
       /\ x.kind = "predicate" => x.pred.strength = "hard" /\ x.pred.field # "name"

-----------------------------------------------------------------------------
\* Rewriting of expressions.

MaxBranches == 8

Cut(s) == SubSeq(s, 1, Min({Len(s), MaxBranches}))

\* Mutant: the branches of a fallback are tried the other way round.
BranchesAtSwapped(ways, e, c) ==
  IF Kids(e) = <<>> THEN <<e>>
  ELSE IF e.kind = "fallback" THEN Cut(ways[2] \o ways[1])
  ELSE Cut([i \in DOMAIN Picks(ways) |-> Node(e.kind, Picks(ways)[i])])

\* _fallback_branches: the expressions without a fallback to try in turn.
BranchesAt(ways, e, c) ==
  LET picks == Picks(ways)
  IN  IF Kids(e) = <<>> THEN <<e>>
      ELSE IF e.kind = "fallback" THEN Cut(ways[1] \o ways[2])
      ELSE Cut([i \in DOMAIN picks |-> Node(e.kind, picks[i])])

Branching == INSTANCE Recursion WITH Step <- BranchesAt
FallbackBranches(e) == Branching!Value(e, {})

\* _conjoin_expressions
Conjoin(left, right) ==
  LET parts(e) == IF e.kind = "all_of" THEN Kids(e) ELSE <<e>>
  IN  IF left = NoExpr THEN right
      ELSE IF right = NoExpr THEN left
      ELSE Node("all_of", parts(left) \o parts(right))

\* The hard predicates that every match meets, in order, as
\* _copy_conjunctive_filters visits them.
ConjunctsAt(conjuncts, e, c) ==
  CASE e.kind = "all_of" -> Joined(conjuncts)
    [] e.kind = "predicate" -> IF e.pred.strength = "hard" THEN <<e.pred>> ELSE <<>>
    [] OTHER -> <<>>

Copying == INSTANCE Recursion WITH Step <- ConjunctsAt
Conjuncts(e) == Copying!Value(e, {})

\* _canonicalize_selected_entities: references to entities that are not
\* selected are cut out, and what they leave behind is closed up.
PrunedAt(pruned, e, selected) ==
  LET kids == Chosen(pruned, {i \in DOMAIN pruned : pruned[i] # NoExpr})
  IN  CASE e.kind = "entity_ref" -> IF e.entity \in selected THEN e ELSE NoExpr
        [] e.kind \in {"all_of", "any_of", "fallback"} ->
             IF kids = <<>> THEN NoExpr
             ELSE IF Len(kids) = 1 THEN kids[1]
             ELSE Node(e.kind, kids)
        [] e.kind \in {"not", "prefer"} ->
             IF kids = <<>> THEN NoExpr ELSE Node(e.kind, kids)
        [] OTHER -> e

Pruning == INSTANCE Recursion WITH Step <- PrunedAt
Pruned(e, selected) == Pruning!Value(e, selected)
=============================================================================
