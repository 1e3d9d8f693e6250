--------------------------- MODULE PlanCompilation --------------------------
(***************************************************************************)
(* The second half of the compilation of a plan                            *)
(* (compile_semantic_plan, app/retrieval/semantic_plan.py): what is not    *)
(* grounded but not needed either is dropped, then the first objection     *)
(* becomes a question, and without one the plan becomes search arguments   *)
(* (ProductSearchArguments, app/tools/schemas.py), one per branch of its   *)
(* fallbacks or per entity compared.                                       *)
(***************************************************************************)
EXTENDS SemanticPlan

-----------------------------------------------------------------------------
\* Search arguments.

NoArguments ==
  [product_id |-> Absent, sku |-> Absent, model |-> Absent, category_id |-> Absent,
   brand |-> Absent, model_family |-> Absent, color_code |-> Absent,
   min_price |-> Absent, max_price |-> Absent, in_stock |-> Absent, ram_gb |-> Absent,
   attributes |-> <<>>, required |-> {}, sort |-> "relevance", limit |-> 3,
   filter |-> NoExpr, preference |-> NoExpr, objectives |-> <<>>,
   excluded |-> {}, compiled |-> FALSE]

HasIdentifier(a) == \E f \in {"product_id", "sku", "model"} : a[f] # Absent

\* validate_filters
ValidArguments(a) ==
  /\ a.min_price # Absent /\ a.max_price # Absent => a.min_price <= a.max_price
  /\ \A i, j \in DOMAIN a.attributes : i # j =>
       <<a.attributes[i].field, a.attributes[i].op>> # <<a.attributes[j].field, a.attributes[j].op>>
  /\ \A f \in a.required : a[f] # Absent \/ \E p \in ToSet(a.attributes) : p.field = f

\* The value the last of the conditions gives a field.
LastValue(conditions, field, ops) ==
  LET hits == {i \in DOMAIN conditions :
                 conditions[i].field = field /\ conditions[i].op \in ops}
  IN  IF hits = {} THEN Absent ELSE conditions[Max(hits)].values[1]

RequirableFields == {"brand", "model_family", "color_code", "ram_gb"}

\* _copy_conjunctive_filters: what every match has to meet is copied to the
\* plain filters, and all but prices, stock and category may not be relaxed.
WithConjuncts(a) ==
  LET cs == Conjuncts(a.filter)
      given(field, ops) ==
        LET v == LastValue(cs, field, ops) IN IF v = Absent THEN a[field] ELSE v
      bounds == Chosen(cs, {i \in DOMAIN cs : cs[i].field = "ram_gb" /\ cs[i].op \in {"gte", "lte"}})
  IN  [a EXCEPT
         !.max_price = LastValue(cs, "price", {"lt", "lte"}),
         !.min_price = LastValue(cs, "price", {"gt", "gte"}),
         !.in_stock = given("in_stock", {"eq"}),
         !.category_id = given("category_id", {"eq"}),
         !.brand = given("brand", {"eq"}),
         !.model_family = given("model_family", {"eq"}),
         !.color_code = given("color_code", {"eq"}),
         !.ram_gb = given("ram_gb", {"eq"}),
         !.attributes = bounds,
         !.required = {f \in RequirableFields : LastValue(cs, f, {"eq"}) # Absent}
                      \cup {p.field : p \in ToSet(bounds)}]

\* An entity of the selection with its resolution; Nobody where a search is
\* about no entity.
Nobody == [id |-> Absent]

FacetPredicate(e, res, refs) ==
  [field |-> res.field, op |-> "eq", values |-> <<res.value>>, strength |-> "hard",
   literal |-> FALSE, prov |-> Absent, source |-> Absent, current |-> e.current,
   refs |-> refs]

\* _arguments_for_plan
ArgumentsFor(plan, branch, e, res) ==
  LET facet == e # Nobody /\ res.status = "constraint_entity"
      filter == IF facet THEN Conjoin(branch, Leaf(FacetPredicate(e, res, e.refs))) ELSE branch
      base == [NoArguments EXCEPT
                 !.sort = plan.sort, !.limit = Min({plan.limit, 3}), !.filter = filter,
                 !.preference = plan.preference, !.objectives = plan.objectives,
                 !.compiled = TRUE]
      named == IF e = Nobody THEN base
               ELSE IF res.product # Absent
               THEN [base EXCEPT !.product_id = res.product, !.excluded = {res.product}]
               ELSE IF e.type # "auto" /\ ~facet THEN [base EXCEPT ![e.type] = e.raw]
               ELSE base
  IN  WithConjuncts(named)

-----------------------------------------------------------------------------
\* Projection (_project_grounded_plan).

Projected(plan, res, issue, entities, fields) ==
  [plan |-> plan, res |-> res, issue |-> issue,
   droppedEntities |-> entities, droppedFields |-> fields]

\* An entity without evidence that nothing refers to, in a search that a
\* category already narrows.
Orphan(plan, e, res, wanted) ==
  /\ IsSelected(e) /\ ~EntityHasEvidence(e, res) /\ ~e.named
  /\ e.id \notin EntityRefs(plan.selection)
  /\ plan.op # "compare" /\ plan.questions = <<>> /\ wanted # {}

\* What is left without the orphans loses inferred objectives that nothing
\* supports and selected entities that the filter already stands for; a
\* single entity becomes the selection.
ProjectKept(kept, res, dropped, wanted) ==
  LET supported(o) == Sortable(o.field, wanted)
      inferredAway(o) == /\ o.origin = "inferred"
                         /\ ~(supported(o) /\ HasEvidence(o, "ranking_objective"))
      fields == {o.field : o \in {x \in ToSet(kept.objectives) : inferredAway(x)}}
      ranked == [kept EXCEPT !.objectives = Chosen(@, {i \in DOMAIN @ : ~inferredAway(@[i])})]
      selected == SelectedOf(ranked)
      implicit == /\ Len(selected) = 1 /\ ranked.selection = NoExpr
                  /\ EntityHasEvidence(selected[1], res)
      bound == IF implicit
               THEN [ranked EXCEPT !.selection = [kind |-> "entity_ref",
                                                  entity |-> selected[1].id]]
               ELSE ranked
      unbound == Ids(selected) \ EntityRefs(bound.selection)
      redundant == /\ unbound # {} /\ bound.selection = NoExpr
                   /\ Represented(bound, selected)
      final == IF redundant
               THEN [bound EXCEPT !.entities = Chosen(@, {i \in DOMAIN @ : ~IsSelected(@[i])})]
               ELSE bound
      corrected == dropped # {} \/ fields # {} \/ implicit \/ redundant
  IN  IF \E o \in ToSet(ranked.objectives) : ~supported(o)
      THEN Projected(ranked, res, "unsupported_ranking_objective", dropped, fields)
      ELSE Projected(final, IF redundant THEN <<>> ELSE res,
                     IF unbound # {} /\ ~redundant THEN "unbound_selected_entity"
                     ELSE IF corrected /\ final.entities = <<>>
                             /\ final.objectives = <<>> /\ final.filter = NoExpr
                          THEN "grounded_plan_empty" ELSE "none",
                     dropped, fields)

WantedCategories(plan) ==
  {p.values[1] : p \in {q \in PredicatesOf(plan.filter) :
                         q.field = "category_id" /\ q.op = "eq" /\ q.strength = "hard"}}

WithoutOrphans(plan, orphans, overrides) ==
  LET kept == [plan EXCEPT !.entities = Chosen(@, {i \in DOMAIN @ : @[i].id \notin orphans})]
  IN  ProjectKept(kept, Resolve(kept, overrides), orphans, WantedCategories(plan))

Project(plan, res, overrides) ==
  LET isOrphan(e) == Orphan(plan, e, res, WantedCategories(plan))
  IN  WithoutOrphans(plan, {e.id : e \in {x \in ToSet(plan.entities) : isOrphan(x)}}, overrides)

-----------------------------------------------------------------------------
\* What the selection contributes.

\* _selection_filter_expression
SelectionFilter(x) == IF PredicatesOf(x) = {} THEN NoExpr ELSE x
MixedSelection(x) == PredicatesOf(x) # {} /\ EntityRefs(x) # {}

\* _resolved_selection_filter: an all_of or any_of of resolved entities is
\* a filter; NoExpr as soon as one of them is not resolved.
SelectionAsFilterAt(kids, x, c) ==
  LET e == CHOOSE y \in ToSet(c.entities) : y.id = x.entity
      r == c.res[e.id]
      product == [r EXCEPT !.field = "product_id", !.value = r.product]
  IN  CASE x.kind = "entity_ref" ->
             IF x.entity \notin Ids(c.entities) THEN NoExpr
             ELSE IF r.product # Absent THEN Leaf(FacetPredicate(e, product, {}))
             ELSE IF r.field # Absent THEN Leaf(FacetPredicate(e, r, {}))
             ELSE NoExpr
        [] x.kind \in {"all_of", "any_of"} ->
             IF NoExpr \in ToSet(kids) THEN NoExpr ELSE Node(x.kind, kids)
        [] OTHER -> NoExpr

Filtering == INSTANCE Recursion WITH Step <- SelectionAsFilterAt
SelectionAsFilter(x, entities, res) == Filtering!Value(x, [entities |-> entities, res |-> res])

\* _selection_branches: one entity, or the two of a fallback, otherwise the
\* last one selected.
SelectionBranches(x, entities) ==
  LET options == IF x.kind = "fallback" THEN Kids(x) ELSE <<x>>
      isRef(k) == k.kind = "entity_ref" /\ k.entity \in Ids(entities)
      refs == Chosen(options, {i \in DOMAIN options : isRef(options[i])})
      entity(id) == CHOOSE e \in ToSet(entities) : e.id = id
  IN  IF refs # <<>> THEN [i \in DOMAIN refs |-> entity(refs[i].entity)]
      ELSE IF entities # <<>> THEN <<Last(entities)>>
      ELSE <<Nobody>>

-----------------------------------------------------------------------------
\* Compilation.

Compilation(plan, res, status, reason, arguments) ==
  [plan |-> plan, res |-> res, status |-> status, reason |-> reason, args |-> arguments]

\* The arguments of a plan nothing is wrong with.
ArgumentsOf(plan, res) ==
  LET entities == SelectedOf(plan)
      byEntity == IF plan.op = "compare" \/ plan.selection.kind \notin {"all_of", "any_of"}
                  THEN NoExpr ELSE SelectionAsFilter(plan.selection, entities, res)
      filter == Conjoin(Conjoin(plan.filter, SelectionFilter(plan.selection)), byEntity)
      branches == FallbackBranches(filter)
      chosen == SelectionBranches(plan.selection, entities)
      args(i, e) == ArgumentsFor(plan, branches[Min({i, Len(branches)})], e,
                                 IF e = Nobody THEN Unresolved ELSE res[e.id])
  IN  IF plan.op = "compare" THEN [i \in DOMAIN entities |-> args(1, entities[i])]
      ELSE IF byEntity # NoExpr \/ Represented(plan, entities)
           THEN [i \in DOMAIN branches |-> args(i, Nobody)]
      ELSE IF Len(chosen) > 1 THEN [i \in DOMAIN chosen |-> args(i, chosen[i])]
      ELSE [i \in DOMAIN branches |-> args(i, chosen[1])]

\* A context product that is not of this session or not in the catalogue.
ContextInvalid(plan) ==
  \E e \in ToSet(SelectedOf(plan)) :
    e.context # Absent /\ e.context \notin plan.context \cap Loaded

\* compile_semantic_plan.  The order is that of the returns of the code; a
\* plan of the wrong types and arguments that contradict themselves are
\* exceptions there.
CompileProjected(source, grounded, firstRes, proj) ==
  LET plan == proj.plan
      res == proj.res
      Clarify(reason) == Compilation(plan, res, "clarify", reason, <<>>)
  IN  IF ~EvidenceHolds(source, firstRes, proj.droppedEntities, proj.droppedFields)
      THEN Clarify("evidence_not_grounded")
      ELSE IF ~FieldsSupported(plan) THEN Clarify("unsupported_catalog_field")
      ELSE IF ~MemoryHolds(plan, res) THEN Clarify("invalid_memory_reference")
      ELSE IF ~NumbersHold(plan) THEN Clarify("numeric_value_not_grounded")
      ELSE IF proj.issue # "none" THEN Clarify(proj.issue)
      ELSE IF SortConflict(plan) THEN Clarify("conflicting_ranking_direction")
      ELSE IF grounded.issue THEN Clarify("grounding_issue")
      ELSE IF ~TypesHold(plan) THEN Clarify("semantic_plan_invalid")
      ELSE IF plan.clarify THEN Clarify("model_requested_clarification")
      ELSE IF DeterministicallyEmpty(plan.filter, grounded.unavailable)
      THEN Compilation(plan, res, "empty", "unavailable_required_value", <<>>)
      ELSE IF ContextInvalid(plan) THEN Clarify("invalid_context_reference")
      ELSE IF \E id \in DOMAIN res : res[id].status = "ambiguous"
      THEN Clarify("ambiguous_entity")
      ELSE IF MixedSelection(plan.selection) THEN Clarify("mixed_selection_expression")
      ELSE IF \E a \in ToSet(ArgumentsOf(plan, res)) : ~ValidArguments(a)
      THEN Compilation(plan, res, "invalid", "invalid_tool_arguments", <<>>)
      ELSE Compilation(plan, res, "run", "none", ArgumentsOf(plan, res))

CompileGrounded(source, grounded, plan, overrides) ==
  LET res == Resolve(plan, overrides)
  IN  CompileProjected(source, grounded, res, Project(plan, res, overrides))

Compile(source, overrides) ==
  LET grounded == GroundPlan(source)
  IN  CompileGrounded(source, grounded, Canonicalized(grounded.plan), overrides)
=============================================================================
