---------------------------- MODULE SemanticPlan ----------------------------
(***************************************************************************)
(* From a product query plan of the model to the searches it stands for    *)
(* (app/retrieval/semantic_plan.py): values are grounded in the catalogue, *)
(* entities resolved, evidence, memory references and numbers checked, and *)
(* the plan is either turned into search arguments or into a question.     *)
(*                                                                         *)
(* A plan is a record of                                                   *)
(*   op, sort, limit, clarify, context (product ids of the session),       *)
(*   selection, filter, preference     expressions, or NoExpr              *)
(*   entities    [id, raw, named, current, state, type, context,           *)
(*                supersedes, refs]                                        *)
(*   objectives  [field, direction, priority, origin, current, refs]       *)
(*   questions   [field, values, literal, prov, source, current, refs]     *)
(*   declared, removals [id, current]  of memory ids                       *)
(* where current says that the evidence is a span of the message, literal  *)
(* that the numbers are among it, and refs are memory ids.  A predicate is *)
(* [field, op, values, strength, literal, prov, source, current, refs].    *)
(***************************************************************************)
EXTENDS Catalog

CONSTANT Recall   \* the session's memory as sent with the plan, by memory id

\* _context_memory_items: an item is an entity anchor, a predicate, a
\* fact_question, a ranking_objective or the root of a pending intent.
Kinds == {"entity", "predicate", "fact_question", "ranking_objective", "pending_intent"}

ASSUME RecallAssumption == \A r \in DOMAIN Recall : Recall[r].kind \in Kinds

Remembered(refs) == refs \cap DOMAIN Recall

Expressions(plan) == {plan.selection, plan.filter, plan.preference}
AllPredicates(plan) == UNION {PredicatesOf(e) : e \in Expressions(plan)}

IsSelected(e) == e.state = "selected"
SelectedOf(plan) ==
  Chosen(plan.entities, {i \in DOMAIN plan.entities : IsSelected(plan.entities[i])})
Ids(entities) == {e.id : e \in ToSet(entities)}

\* The direction a sort option stands for, as an objective of its own.
SortGoals ==
  [price_asc |-> [field |-> "price", direction |-> "minimize"],
   price_desc |-> [field |-> "price", direction |-> "maximize"],
   rating_desc |-> [field |-> "rating", direction |-> "maximize"]]

PlanKeys ==
  {"op", "sort", "limit", "clarify", "context", "selection", "filter", "preference",
   "entities", "objectives", "questions", "declared", "removals"}

\* ProductEntity
IsEntity(e) ==
  /\ e.id # Absent /\ e.raw \in Texts
  /\ e.type \in {"auto", "product_id", "sku", "model", "model_family"}

\* ProductQueryPlan with validate_plan
WellFormed(plan) ==
  /\ DOMAIN plan = PlanKeys
  /\ plan.sort \in DOMAIN SortGoals \cup {"relevance"} /\ plan.limit \in 1 .. 3
  /\ plan.entities \in Seq(ToSet(plan.entities)) /\ Len(plan.entities) <= 3
  /\ plan.objectives \in Seq(ToSet(plan.objectives)) /\ Len(plan.objectives) <= 3
  /\ \A e \in ToSet(plan.entities) : IsEntity(e)
  /\ Cardinality(Ids(plan.entities)) = Len(plan.entities)
  /\ \A e \in ToSet(plan.entities) :
       e.supersedes # Absent => e.supersedes \in Ids(plan.entities) \ {e.id}
  /\ \A x \in Expressions(plan) :
       x = NoExpr \/ /\ WellShaped(x) /\ Within(x, 6)
                     /\ EntityRefs(x) \subseteq Ids(plan.entities)
  /\ PredicateCount(plan.selection) + PredicateCount(plan.filter)
       + PredicateCount(plan.preference) <= 20
  /\ Cardinality({i \in DOMAIN plan.objectives : plan.objectives[i].origin = "inferred"}) <= 2
  /\ \A o \in ToSet(plan.objectives) :
       (o.origin = "inferred") = (o.priority = "inferred")
  /\ Cardinality({r.id : r \in plan.removals}) = Cardinality(plan.removals)

-----------------------------------------------------------------------------
\* Grounding of predicate values (_ground_plan_predicates).  Grounding gives
\* an expression, the values that raise an issue and those that an any_of
\* lost.

Grounded(expr, issues, lost) == [expr |-> expr, issues |-> issues, lost |-> lost]

Issue(p, value, reason) ==
  [field |-> p.field, value |-> value, reason |-> reason, op |-> p.op]

\* The field and value a text is read as: of its own field, or of the only
\* other field that has it.
ReadValue(p, v) ==
  LET own == ResolveValue(p.field, v)
      others == Namespaces(v)
  IN  IF v \notin Texts THEN [field |-> p.field, status |-> "given", value |-> v]
      ELSE IF own.status = "unmapped" /\ Cardinality(others) = 1 THEN TheOnly(others)
      ELSE own

\* A predicate whose values are read so: one field is kept or the values are
\* split over their fields.
GroundRead(p, read) ==
  LET fields == {r.field : r \in ToSet(read)}
      values == [i \in DOMAIN read |-> read[i].value]
      ofStatus(status) == {p.values[i] : i \in {j \in DOMAIN read : read[j].status = status}}
      issues ==
        {Issue(p, v, "ambiguous_facet_value") : v \in ofStatus("ambiguous")}
        \cup {Issue(p, v, "unmapped_required_value") :
                v \in {u \in ofStatus("unmapped") : p.strength = "hard"}}
      split(kind, op) ==
        Node(kind, [i \in DOMAIN read |->
          Leaf([p EXCEPT !.field = read[i].field, !.op = op, !.values = <<values[i]>>])])
  IN  CASE Cardinality(fields) > 1 /\ p.op = "in" ->
             Grounded(split("any_of", "eq"), issues, {})
        [] Cardinality(fields) > 1 /\ p.op = "not_in" ->
             Grounded(split("all_of", "not_eq"), issues, {})
        [] OTHER ->
             Grounded(Leaf([p EXCEPT !.field = read[1].field, !.values = values]),
                      issues, {})

GroundPredicate(p) == GroundRead(p, [i \in DOMAIN p.values |-> ReadValue(p, p.values[i])])

Unmapped(i) == i.reason = "unmapped_required_value"

\* An any_of goes on without the alternatives the catalogue does not know.
GroundAt(kids, e, c) ==
  LET valid == Chosen(kids, {i \in DOMAIN kids : kids[i].issues = {}})
      exprs(gs) == [i \in DOMAIN gs |-> gs[i].expr]
      issues == UNION {g.issues : g \in ToSet(kids)}
      lost == UNION {g.lost : g \in ToSet(kids)}
  IN  IF e.kind = "predicate" THEN GroundPredicate(e.pred)
      ELSE IF Kids(e) = <<>> THEN Grounded(e, {}, {})
      ELSE IF e.kind # "any_of" THEN Grounded(Node(e.kind, exprs(kids)), issues, lost)
      ELSE IF valid # <<>> /\ \A i \in issues : Unmapped(i)
      THEN Grounded(IF Len(valid) = 1 THEN valid[1].expr ELSE Node("any_of", exprs(valid)),
                    {}, lost \cup issues)
      ELSE Grounded(Node("any_of", exprs(kids)), issues,
                    lost \cup {i \in issues : Unmapped(i)})

Grounding == INSTANCE Recursion WITH Step <- GroundAt
Ground(e) == Grounding!Value(e, {})

\* The issues that become a question, and the fields and values reported
\* as unavailable: an unknown value that has to be equal needs no question.
GroundedPlan(plan, s, f, r) ==
  LET issues == s.issues \cup f.issues \cup r.issues
      decided == {i \in issues : Unmapped(i) /\ i.op \in {"eq", "in"}}
      unavailable == s.lost \cup f.lost \cup r.lost \cup decided
  IN  [plan |-> [plan EXCEPT !.selection = s.expr, !.filter = f.expr, !.preference = r.expr],
       issue |-> issues \ decided # {},
       unavailable |-> {<<i.field, i.value>> : i \in unavailable}]

GroundPlan(plan) ==
  GroundedPlan(plan, Ground(plan.selection), Ground(plan.filter), Ground(plan.preference))

\* _has_blocking_unavailable_filter
DeterministicallyEmptyAt(empty, e, unavailable) ==
  CASE e.kind = "predicate" ->
         /\ e.pred.op \notin {"in", "not_in"}
         /\ <<e.pred.field, e.pred.values[1]>> \in unavailable
    [] e.kind = "all_of" -> \E i \in DOMAIN empty : empty[i]
    [] e.kind \in {"any_of", "fallback"} -> \A i \in DOMAIN empty : empty[i]
    [] OTHER -> FALSE

Emptying == INSTANCE Recursion WITH Step <- DeterministicallyEmptyAt
DeterministicallyEmpty(e, unavailable) == Emptying!Value(e, unavailable)

-----------------------------------------------------------------------------
\* Entities against the catalogue.

Canonicalized(plan) ==
  [plan EXCEPT !.selection = Pruned(plan.selection, Ids(SelectedOf(plan)))]

\* _resolve_entity: a context product stands for its entity, unless the
\* entity replaces another.
ResolveOne(e) ==
  IF e.context = Absent \/ e.supersedes # Absent THEN ResolveEntity(e.raw, e.type)
  ELSE ResolveEntity(e.context, "product_id")

IdentityWords(p) ==
  UNION {WordsOf(Products[p][f]) : f \in {"brand", "model_family", "model"}}

\* The words in common over the words of either, by which the candidates
\* for a replacement are compared (tenths are enough to tell them apart).
Likeness(p, q) ==
  LET either == IdentityWords(p) \cup IdentityWords(q)
  IN  IF either = {} THEN 0
      ELSE (100 * Cardinality(IdentityWords(p) \cap IdentityWords(q)))
             \div Cardinality(either)

\* _resolve_superseding_entity: an ambiguous replacement is the candidate
\* clearly most like what it replaces.
ClearlyLike(p, candidates, previous) ==
  /\ Likeness(previous, p) > 0
  /\ \A q \in candidates \ {p} : Likeness(previous, p) - Likeness(previous, q) >= 10

Replacing(res, previous) ==
  LET like == IF previous = Absent THEN {}
              ELSE {p \in res.candidates : ClearlyLike(p, res.candidates, previous)}
  IN  IF like = {} THEN res
      ELSE [res EXCEPT !.status = "resolved", !.product = TheOnly(like)]

Superseding(plan, e, res) ==
  IF res.status = "ambiguous" /\ e.supersedes \in Ids(plan.entities)
  THEN Replacing(res, ResolveOne(CHOOSE o \in ToSet(plan.entities) :
                                   o.id = e.supersedes).product)
  ELSE res

\* _resolve_plan_entities: by id of the selected entities; overrides are the
\* products the vector search found.
Resolve(plan, overrides) ==
  [id \in Ids(SelectedOf(plan)) |->
     LET e == CHOOSE x \in ToSet(plan.entities) : x.id = id
     IN  IF id \in DOMAIN overrides /\ overrides[id] \in Loaded
         THEN Resolution("resolved", overrides[id], Absent, Absent, {})
         ELSE Superseding(plan, e, ResolveOne(e))]

ResolutionOf(e, res) == IF e.id \in DOMAIN res THEN res[e.id] ELSE Unresolved

\* _entities_represented_by_filter
Represented(plan, entities) ==
  /\ plan.filter # NoExpr /\ entities # <<>>
  /\ \A e \in ToSet(entities) : \E p \in PredicatesOf(plan.filter) :
       \/ \E v \in ToSet(p.values) \cap Texts : Same(v, e.raw)
       \/ /\ e.type = "model_family" /\ p.field = "model_family"
          /\ e.refs \cap p.refs # {}

-----------------------------------------------------------------------------
\* Evidence: everything in a plan is said in the message or remembered.

RecalledAs(refs, kind) ==
  refs # {} /\ \A r \in refs : r \in DOMAIN Recall /\ Recall[r].kind = kind

HasEvidence(x, kind) == x.current \/ RecalledAs(x.refs, kind)

\* _entity_memory_reference_match: an anchor recalls what it was resolved
\* to then, and must be what the entity is resolved to now.
AnchorMatches(e, res) ==
  \E r \in Remembered(e.refs) :
    LET item == Recall[r]
    IN  /\ item.kind = "entity"
        /\ CASE item.anchor = "product" ->
                  res.product # Absent /\ res.product = item.product
             [] item.anchor = "facet" ->
                  /\ res.status = "constraint_entity" /\ res.field = item.field
                  /\ Same(res.value, item.value)
             [] OTHER -> FALSE

EntityHasEvidence(e, res) == e.current \/ AnchorMatches(e, ResolutionOf(e, res))

\* validate_evidence, without what the projection has dropped
EvidenceHolds(plan, res, droppedEntities, droppedFields) ==
  /\ \A e \in ToSet(plan.entities) :
       e.id \in droppedEntities \/ EntityHasEvidence(e, res)
  /\ \A p \in AllPredicates(plan) : HasEvidence(p, "predicate")
  /\ \A q \in ToSet(plan.questions) : HasEvidence(q, "fact_question")
  /\ \A o \in ToSet(plan.objectives) :
       o.field \in droppedFields \/ HasEvidence(o, "ranking_objective")
  /\ \A r \in plan.removals : r.current

KindHolds(x, kind) == \A r \in Remembered(x.refs) : Recall[r].kind = kind

SamePredicate(p, item) ==
  /\ p.field = item.field /\ p.op = item.op
  /\ p.values = item.values /\ p.strength = item.strength

SameQuestion(q, item) == q.field = item.field /\ q.values = item.values

SameObjective(o, item) ==
  /\ o.field = item.field /\ o.direction = item.direction
  /\ o.priority = item.priority /\ o.origin \in {"memory", item.origin}

NestedRefs(plan) ==
  UNION ({p.refs : p \in AllPredicates(plan)}
         \cup {x.refs : x \in ToSet(plan.entities) \cup ToSet(plan.questions)
                              \cup ToSet(plan.objectives)})

\* Mutant: a remembered condition may come back changed.
PredicateRecalledLoosely(p) == KindHolds(p, "predicate")

\* A recalled predicate is not softened, and not changed unless the message
\* says so.
PredicateRecalled(p) ==
  /\ KindHolds(p, "predicate")
  /\ \A r \in Remembered(p.refs) :
       Recall[r].kind = "predicate" =>
         /\ Recall[r].strength = "hard" => p.strength = "hard"
         /\ p.current \/ SamePredicate(p, Recall[r])

\* validate_memory_references
MemoryHolds(plan, res) ==
  LET removed == {r.id : r \in plan.removals}
      recalled(x, kind, same(_, _)) ==
        /\ KindHolds(x, kind)
        /\ \/ x.current
           \/ \E r \in Remembered(x.refs) : Recall[r].kind = kind /\ same(x, Recall[r])
  IN  /\ plan.declared \cup removed \cup NestedRefs(plan) \subseteq DOMAIN Recall
      /\ NestedRefs(plan) \subseteq plan.declared \cup removed
      /\ \A e \in ToSet(plan.entities) : KindHolds(e, "entity") /\ EntityHasEvidence(e, res)
      /\ \A p \in AllPredicates(plan) : PredicateRecalled(p)
      /\ \A q \in ToSet(plan.questions) : recalled(q, "fact_question", SameQuestion)
      /\ \A o \in ToSet(plan.objectives) : recalled(o, "ranking_objective", SameObjective)

\* _validate_numeric_provenance for a predicate or a question: a number is
\* spoken, recalled, or the value of a product of the session.
NumberHolds(plan, x, kind) ==
  LET recallable == RecalledAs(x.refs, kind)
      recalled == recallable /\ \E r \in x.refs :
                    Recall[r].field = x.field /\ ToSet(Recall[r].values) = ToSet(x.values)
      prov == IF x.prov # Absent THEN x.prov
              ELSE IF recallable THEN "memory"
              ELSE IF x.literal THEN "current_message" ELSE Absent
  IN  \/ x.field \notin NumericFields \/ x.values = <<>>
      \/ \E v \in ToSet(x.values) : v \in Texts
      \/ prov = "current_message" /\ x.literal /\ x.current
      \/ prov = "memory" /\ recalled
      \/ /\ prov = "catalog_attribute"
         /\ x.source \in plan.context \cap Loaded
         /\ x.values = <<Products[x.source][x.field]>>

NumbersHold(plan) ==
  /\ \A p \in AllPredicates(plan) : NumberHolds(plan, p, "predicate")
  /\ \A q \in ToSet(plan.questions) : NumberHolds(plan, q, "fact_question")

\* _ranking_sort_conflict
SortConflict(plan) ==
  /\ plan.sort \in DOMAIN SortGoals
  /\ \E o \in ToSet(plan.objectives) :
       /\ o.field = SortGoals[plan.sort].field
       /\ o.direction # SortGoals[plan.sort].direction

FieldsSupported(plan) ==
  \A x \in AllPredicates(plan) \cup ToSet(plan.questions) \cup ToSet(plan.objectives) :
    SupportsField(x.field)

\* _validate_predicate_types
TypesHold(plan) ==
  /\ \A p \in PredicatesOf(plan.filter) : p.strength = "hard"
  /\ \A p \in PredicatesOf(plan.preference) : p.strength = "preference"
  /\ \A p \in AllPredicates(plan) :
       /\ p.field \in NumericFields \cup BooleanFields => ToSet(p.values) \cap Texts = {}
       /\ p.op \in Comparisons => p.field \in NumericFields
=============================================================================
