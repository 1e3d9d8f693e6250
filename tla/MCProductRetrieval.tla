------------------------- MODULE MCProductRetrieval -------------------------
(***************************************************************************)
(* A small instance of ProductRetrieval for TLC: four products and a point *)
(* of a fifth that the catalogue does not have, and plans that take every  *)
(* turn of the compilation.                                                *)
(***************************************************************************)
EXTENDS ProductRetrieval, TLC

CONSTANTS
  p1, p2, p3, p4, pg,                             \* product ids
  phone, tablet, apple, appel, sam, iph, gal, tab, black, white,
  m1, m2, m3, m4, mg, n1, n2, n3, n4, ng, s1, s2, s3, s4, sg,
  pro, gla, zzz, yyy, iphx                        \* texts of the user only

Spelling(v) == IF v = appel THEN apple ELSE v
FollowsOf(a, b) == a = iphx /\ b = iph

TextSet == {phone, tablet, apple, appel, sam, iph, gal, tab, black, white,
            m1, m2, m3, m4, mg, n1, n2, n3, n4, ng, s1, s2, s3, s4, sg,
            pro, gla, zzz, yyy, iphx, p1, p2, p3, p4, pg}

Record(id, sku, model, name, category, brand, family, color, price, ram, rating, stock) ==
  [product_id |-> id, sku |-> sku, model |-> model, name |-> name, category_id |-> category,
   brand |-> brand, model_family |-> family, color_code |-> color, price |-> price,
   ram_gb |-> ram, rating |-> rating, in_stock |-> stock]

ProductTable ==
  (p1 :> Record(p1, s1, m1, n1, phone, apple, iph, black, 3, 8, 5, TRUE)) @@
  (p2 :> Record(p2, s2, m2, n2, phone, apple, iph, white, 4, 8, 4, FALSE)) @@
  (p3 :> Record(p3, s3, m3, n3, phone, sam, gal, black, 2, 4, 4, TRUE)) @@
  (p4 :> Record(p4, s4, m4, n4, tablet, sam, tab, white, 1, Absent, 3, TRUE)) @@
  (pg :> Record(pg, sg, mg, ng, phone, sam, gal, black, 1, 4, 5, TRUE))

WordTable ==
  (m1 :> {"iph", "13"}) @@ (m2 :> {"iph", "pro"}) @@ (m3 :> {"gal", "pro"}) @@ (m4 :> {"tab"}) @@
  (n1 :> {"apple"}) @@ (n2 :> {"apple"}) @@ (n3 :> {"sam"}) @@ (n4 :> {"sam"}) @@
  (apple :> {"apple"}) @@ (sam :> {"sam"}) @@ (iph :> {"iph"}) @@ (gal :> {"gal"}) @@
  (tab :> {"tab"}) @@ (pro :> {"pro"}) @@ (gla :> {"gla", "pro"}) @@ (zzz :> {"zzz"}) @@
  (yyy :> {"yyy"}) @@ (iphx :> {"iph", "x"})

WordsIn(t) == IF t \in DOMAIN WordTable THEN WordTable[t] ELSE {"none"}
NearTo(w) == IF w = "gla" THEN {"gal"} ELSE {w}

PlaceOf == (p1 :> 1) @@ (p2 :> 2) @@ (p3 :> 3) @@ (p4 :> 4) @@ (pg :> 5)
ScoreOf == (p1 :> 60) @@ (p2 :> 80) @@ (p3 :> 70) @@ (p4 :> 45) @@ (pg :> 30)
EntityScores ==
  (zzz :> [p \in Points |-> IF p = p3 THEN 75 ELSE 40]) @@
  (yyy :> [p \in Points |-> IF p \in {p1, p2} THEN 70 ELSE 10])

-----------------------------------------------------------------------------
\* What the session remembers.

Anchor(kind, product, field, value) ==
  [kind |-> "entity", anchor |-> kind, product |-> product, field |-> field, value |-> value]

RecallOf ==
  [entity |-> Anchor("product", p1, Absent, Absent),
   facet |-> Anchor("facet", Absent, "brand", apple),
   colour |-> [kind |-> "predicate", field |-> "color_code", op |-> "eq", values |-> <<black>>,
               strength |-> "hard"],
   budget |-> [kind |-> "predicate", field |-> "price", op |-> "lte", values |-> <<3>>,
               strength |-> "hard"],
   goal |-> [kind |-> "ranking_objective", field |-> "price", direction |-> "minimize",
             priority |-> "normal", origin |-> "explicit"],
   fact |-> [kind |-> "fact_question", field |-> "ram_gb", values |-> <<>>],
   pending |-> [kind |-> "pending_intent"]]

-----------------------------------------------------------------------------
\* Conditions, entities and objectives.

Said(field, op, values) ==
  [field |-> field, op |-> op, values |-> values, strength |-> "hard", literal |-> TRUE,
   prov |-> Absent, source |-> Absent, current |-> TRUE, refs |-> {}]

Is(field, value) == Leaf(Said(field, "eq", <<value>>))
Upper(price) == Leaf(Said("price", "lte", <<price>>))
Both(a, b) == Node("all_of", <<a, b>>)
Either(a, b) == Node("any_of", <<a, b>>)
Not(a) == Node("not", <<a>>)
Else(a, b) == Node("fallback", <<a, b>>)
Soft(field, value) ==
  Leaf([Said(field, "eq", <<value>>) EXCEPT !.strength = "preference"])

Recalled(values) ==
  Leaf([Said("price", "lte", values) EXCEPT !.current = FALSE, !.literal = FALSE,
                                            !.refs = {"budget"}])
RecalledColour(value) ==
  Leaf([Said("color_code", "eq", <<value>>) EXCEPT !.current = FALSE, !.literal = FALSE,
                                                   !.refs = {"colour"}])

\* Conditions the backend has to answer.
Answerable ==
  {NoExpr, Is("brand", appel), Upper(2), Is("model_family", iphx),
   Both(Is("brand", apple), Upper(2)),
   Else(Both(Is("brand", apple), Upper(2)), Is("brand", sam)),
   Both(Is("category_id", phone), Else(Is("color_code", white), Is("in_stock", TRUE))),
   Else(Is("in_stock", FALSE), Else(Upper(1), Upper(4))),
   Either(Is("color_code", black), Is("color_code", zzz)),
   Not(Is("color_code", black)), Not(Is("color_code", zzz)),
   Both(Is("category_id", phone), Not(Both(Is("brand", apple), Is("color_code", black)))),
   Leaf(Said("brand", "in", <<apple, tab>>)),
   Leaf(Said("brand", "not_in", <<apple, tab>>)),
   Leaf(Said("ram_gb", "gte", <<8>>)),
   Not(Else(Is("brand", apple), Is("color_code", white)))}

\* Conditions it has to ask about, or can tell without a search.
Questionable ==
  {Is("color_code", zzz), Soft("brand", apple), Leaf(Said("brand", "not_eq", <<zzz>>)),
   Both(Upper(2), Leaf(Said("price", "gte", <<3>>))),
   Recalled(<<3>>), Recalled(<<4>>), RecalledColour(black), RecalledColour(white),
   Leaf([Said("price", "lte", <<3>>) EXCEPT !.current = FALSE]),
   Leaf([Said("price", "lte", <<3>>) EXCEPT !.literal = FALSE]),
   Leaf([Said("price", "lte", <<3>>) EXCEPT !.literal = FALSE, !.prov = "catalog_attribute",
                                            !.source = p1]),
   Leaf([Said("price", "lte", <<2>>) EXCEPT !.literal = FALSE, !.prov = "catalog_attribute",
                                            !.source = p1]),
   Leaf(Said("price", "lte", <<zzz>>))}

Entity(id, raw, type) ==
  [id |-> id, raw |-> raw, named |-> TRUE, current |-> TRUE, state |-> "selected",
   type |-> type, context |-> Absent, supersedes |-> Absent, refs |-> {}]

Inherited(id, raw, ref) ==
  [Entity(id, raw, "auto") EXCEPT !.named = FALSE, !.current = FALSE, !.refs = {ref}]

Ref(id) == [kind |-> "entity_ref", entity |-> id]

Goal(field, direction, origin) ==
  [field |-> field, direction |-> direction,
   priority |-> IF origin = "inferred" THEN "inferred" ELSE "primary",
   origin |-> origin, current |-> origin # "inferred", refs |-> {}]

Plan ==
  [op |-> "discover", sort |-> "relevance", limit |-> 3, clarify |-> FALSE,
   context |-> {p1}, selection |-> NoExpr, filter |-> NoExpr, preference |-> NoExpr,
   entities |-> <<>>, objectives |-> <<>>, questions |-> <<>>,
   declared |-> {"budget", "colour", "entity", "facet"}, removals |-> {}]

FilterPlans ==
  {[Plan EXCEPT !.filter = f] : f \in Answerable \cup Questionable} \cup
  {[Plan EXCEPT !.selection = f] : f \in {Is("brand", sam), Else(Upper(1), Upper(2))}} \cup
  {[Plan EXCEPT !.clarify = TRUE]}

RankedPlans ==
  {[Plan EXCEPT !.filter = f, !.objectives = g, !.sort = s, !.limit = 2] :
     f \in {NoExpr, Is("category_id", phone), Is("category_id", tablet)},
     g \in {<<>>, <<Goal("price", "minimize", "explicit")>>,
            <<Goal("ram_gb", "maximize", "explicit"), Goal("rating", "maximize", "inferred")>>},
     s \in {"relevance", "price_desc"}} \cup
  {[Plan EXCEPT !.preference = Soft("color_code", white),
                !.objectives = <<Goal("rating", "maximize", "explicit")>>]} \cup
  {[Plan EXCEPT !.objectives = <<[Goal("price", "minimize", "memory") EXCEPT
                                    !.priority = "normal", !.current = FALSE,
                                    !.refs = {"goal"}]>>,
                !.declared = d] : d \in {{}, {"goal"}}}

Lookups ==
  {<<Entity("e1", m1, "auto")>>, <<Entity("e1", appel, "auto")>>, <<Entity("e1", pro, "auto")>>,
   <<Entity("e1", gla, "auto")>>, <<Entity("e1", zzz, "auto")>>, <<Entity("e1", yyy, "auto")>>,
   <<Entity("e1", sg, "sku")>>, <<Entity("e1", zzz, "model_family")>>,
   <<[Inherited("e1", m1, "entity") EXCEPT !.context = p1]>>,
   <<[Entity("e1", m2, "auto") EXCEPT !.context = p2]>>,
   <<Inherited("e1", m2, "entity")>>, <<Inherited("e1", appel, "facet")>>,
   <<[Entity("e0", m2, "auto") EXCEPT !.state = "rejected"],
     [Entity("e1", pro, "auto") EXCEPT !.supersedes = "e0"]>>}

LookupPlans ==
  {[Plan EXCEPT !.op = "lookup", !.entities = e, !.filter = f] :
     e \in Lookups,
     f \in {NoExpr, Upper(2), Is("category_id", phone),
            Not(Both(Is("brand", apple), Is("color_code", black)))}}

Two == <<Entity("e1", m1, "auto"), Entity("e2", m2, "auto")>>

SelectionPlans ==
  {[Plan EXCEPT !.entities = Two, !.selection = x, !.filter = f] :
     x \in {NoExpr, Else(Ref("e1"), Ref("e2")), Either(Ref("e1"), Ref("e2")),
            Either(Ref("e1"), Is("brand", sam)), Not(Ref("e2"))},
     f \in {NoExpr, Upper(3)}} \cup
  {[Plan EXCEPT !.entities = <<Entity("e1", apple, "auto"), Entity("e2", sam, "auto")>>,
                !.filter = Leaf(Said("brand", "in", <<apple, sam>>))]}

ComparePlans ==
  {[Plan EXCEPT !.op = "compare", !.entities = e, !.filter = f,
                !.selection = Node("all_of", [i \in DOMAIN e |-> Ref(e[i].id)])] :
     e \in {Two, <<Entity("e1", m1, "auto"), Entity("e2", zzz, "auto"), Entity("e3", m3, "auto")>>,
            <<Entity("e1", apple, "auto"), Entity("e2", m4, "auto")>>},
     f \in {NoExpr, Upper(2)}}

PlanSet == FilterPlans \cup RankedPlans \cup LookupPlans \cup SelectionPlans \cup ComparePlans

FlatSet ==
  {[NoArguments EXCEPT !.brand = b, !.color_code = c, !.max_price = 3, !.required = r] :
     b \in {appel, zzz}, c \in {Absent, white}, r \in {{}, {"brand"}}} \cup
  {[NoArguments EXCEPT !.model = m, !.max_price = x, !.category_id = phone] :
     m \in {m1, zzz}, x \in {2, 4}} \cup
  {[NoArguments EXCEPT !.in_stock = TRUE, !.min_price = 3, !.model_family = gal,
                       !.sort = "price_asc", !.limit = 2,
                       !.attributes = <<Said("ram_gb", "gte", <<8>>)>>]}

StoreSet == {Loaded, Points, {p1, p3, p4}}
=============================================================================
