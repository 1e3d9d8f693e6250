----------------------------- MODULE PlanProofs -----------------------------
(***************************************************************************)
(* What the compilation of a plan keeps, for any catalogue, memory and     *)
(* plan: grounding only rewrites the values of a condition, entities are   *)
(* found among the products and the facets of the catalogue, and every     *)
(* condition and product of the arguments stems from the plan; and what    *)
(* the ranking keeps, for any scores: it neither loses a hit nor adds one. *)
(***************************************************************************)
EXTENDS ProductRanking, ExpressionProofs

-----------------------------------------------------------------------------
(***************************************************************************)
(* Grounding                                                               *)
(***************************************************************************)

\* Grounding, by kids.
LEMMA GroundingUnfolds ==
  ASSUME NEW e, NEW c, Within(e, MaxDepth)
  PROVE  Grounding!Value(e, c)
           = GroundAt([i \in DOMAIN Kids(e) |-> Grounding!Value(Kids(e)[i], c)], e, c)
<1> DEFINE height == [x \in Parts(e) |-> Height(x)]
           n == MaxDepth + 1
<1>1. /\ e \in Parts(e)
      /\ \A x \in Parts(e) : height[x] \in Nat /\ height[x] < n
      /\ \A x \in Parts(e) : \A i \in DOMAIN Kids(x) :
           /\ Kids(x)[i] \in Parts(e)
           /\ height[Kids(x)[i]] < height[x]
      /\ \A x \in Parts(e) :
           /\ x \in Parts(x)
           /\ Parts(x) \subseteq Parts(e)
           /\ \A y \in Parts(x) : \A i \in DOMAIN Kids(y) : Kids(y)[i] \in Parts(x)
  BY Graded, Zenon
<1>2. n \in Nat
  BY DepthNat
<1> HIDE DEF height, n
<1>3. QED
  BY <1>1, <1>2, Grounding!Unfolds

\* The selection as a filter, by kids.
LEMMA FilteringUnfolds ==
  ASSUME NEW e, NEW c, Within(e, MaxDepth)
  PROVE  Filtering!Value(e, c)
           = SelectionAsFilterAt([i \in DOMAIN Kids(e) |-> Filtering!Value(Kids(e)[i], c)], e, c)
<1> DEFINE height == [x \in Parts(e) |-> Height(x)]
           n == MaxDepth + 1
<1>1. /\ e \in Parts(e)
      /\ \A x \in Parts(e) : height[x] \in Nat /\ height[x] < n
      /\ \A x \in Parts(e) : \A i \in DOMAIN Kids(x) :
           /\ Kids(x)[i] \in Parts(e)
           /\ height[Kids(x)[i]] < height[x]
      /\ \A x \in Parts(e) :
           /\ x \in Parts(x)
           /\ Parts(x) \subseteq Parts(e)
           /\ \A y \in Parts(x) : \A i \in DOMAIN Kids(y) : Kids(y)[i] \in Parts(x)
  BY Graded, Zenon
<1>2. n \in Nat
  BY DepthNat
<1> HIDE DEF height, n
<1>3. QED
  BY <1>1, <1>2, Filtering!Unfolds

LEMMA TheOnlyIn ==
  ASSUME NEW S, S # {}
  PROVE  TheOnly(S) \in S
BY DEF TheOnly

LEMMA OneThere ==
  ASSUME NEW S, Cardinality(S) = 1
  PROVE  S # {} /\ TheOnly(S) \in S
BY FS_EmptySet, TheOnlyIn

\* The facets of the catalogue are texts of its products.
LEMMA FacetTexts ==
  ASSUME NEW field, NEW v \in Facets(field)
  PROVE  /\ field \in FacetFields /\ v \in Texts /\ v # Absent
         /\ \E p \in Loaded : v = Products[p][field]
         /\ field \in RawFields => Normal(v) = v
<1>1. field \in FacetFields /\ \E p \in Loaded : v = Products[p][field]
  BY DEF Facets
<1>2. PICK p \in Loaded : v = Products[p][field]
  BY <1>1
<1>3. p \in Points
  BY CatalogAssumption
<1>4. field \in RawFields \cup NormalisedFields
  BY <1>1 DEF FacetFields, RawFields, NormalisedFields
<1>5. v \in Texts
  BY <1>2, <1>3, <1>4, CatalogAssumption
<1>6. v # Absent
  BY <1>5, TextAssumption
<1>7. field \in RawFields => Normal(v) = v
  BY <1>2, <1>3, CatalogAssumption
<1>8. QED
  BY <1>1, <1>5, <1>6, <1>7

\* What is searched for in a field that is stored as it is written: a value
\* in normal form, or one that no product of the catalogue has.
Settled(field, v) ==
  field \in RawFields =>
    Normal(v) = v \/ \A x \in Loaded : ~ Same(Products[x][field], v)

\* A text is read as a value of the catalogue, or else it is left as it is.
LEMMA ReadFacts ==
  ASSUME NEW p, NEW v, v # Absent
  PROVE  /\ ReadValue(p, v).value # Absent
         /\ ReadValue(p, v).status # "ambiguous"
              => Settled(ReadValue(p, v).field, ReadValue(p, v).value)
<1> DEFINE field == p.field
           exact == Exact(v, Facets(field))
           prefixed == Prefixed(v, Facets(field))
           own == ResolveValue(field, v)
           others == Namespaces(v)
           Good(r) == /\ r.value # Absent
                      /\ r.status # "ambiguous" => Settled(r.field, r.value)
           R(status, value) == [field |-> field, status |-> status, value |-> value]
<1>1. CASE v \notin Texts
  <2>1. ReadValue(p, v) = R("given", v)
    BY <1>1 DEF ReadValue
  <2>2. Normal(v) = v
    BY <1>1 DEF Normal
  <2>3. QED
    BY <2>1, <2>2 DEF Settled
<1>2. Good(own)
  <2>1. own = IF Facets(field) = {} THEN R("not_applicable", v)
              ELSE IF Cardinality(exact) = 1 THEN R("resolved", TheOnly(exact))
              ELSE IF Cardinality(prefixed) = 1 THEN R("resolved", TheOnly(prefixed))
              ELSE R(IF exact \cup prefixed = {} THEN "unmapped" ELSE "ambiguous", v)
    BY DEF ResolveValue
  <2>2. ASSUME NEW w \in Facets(field) PROVE Good(R("resolved", w))
    BY FacetTexts DEF Settled
  <2>3. exact \subseteq Facets(field) /\ prefixed \subseteq Facets(field)
    BY DEF Exact, Prefixed
  <2>4. CASE Facets(field) = {}
    <3>1. own = R("not_applicable", v)
      BY <2>1, <2>4
    <3>2. ASSUME field \in RawFields PROVE Loaded = {}
      BY <2>4, <3>2 DEF Facets, RawFields, FacetFields
    <3>3. Settled(field, v)
      BY <3>2 DEF Settled
    <3>4. QED
      BY <3>1, <3>3
  <2>5. CASE Facets(field) # {} /\ Cardinality(exact) = 1
    <3>1. own = R("resolved", TheOnly(exact))
      BY <2>1, <2>5
    <3>2. TheOnly(exact) \in Facets(field)
      BY <2>3, <2>5, OneThere
    <3>3. QED
      BY <2>2, <3>1, <3>2
  <2>6. CASE Facets(field) # {} /\ Cardinality(exact) # 1 /\ Cardinality(prefixed) = 1
    <3>1. own = R("resolved", TheOnly(prefixed))
      BY <2>1, <2>6
    <3>2. TheOnly(prefixed) \in Facets(field)
      BY <2>3, <2>6, OneThere
    <3>3. QED
      BY <2>2, <3>1, <3>2
  <2>7. CASE Facets(field) # {} /\ Cardinality(exact) # 1 /\ Cardinality(prefixed) # 1
    <3>1. own = R(IF exact \cup prefixed = {} THEN "unmapped" ELSE "ambiguous", v)
      BY <2>1, <2>7
    <3>2. CASE exact \cup prefixed = {}
      <4>1. own = R("unmapped", v)
        BY <3>1, <3>2
      <4>2. ASSUME field \in RawFields, NEW x \in Loaded PROVE ~ Same(Products[x][field], v)
        <5>1. Products[x][field] \in Facets(field)
          BY <4>2 DEF Facets, RawFields, FacetFields
        <5>2. exact = {}
          BY <3>2
        <5>3. QED
          BY <5>1, <5>2 DEF Exact
      <4>3. Settled(field, v)
        BY <4>2 DEF Settled
      <4>4. QED
        BY <4>1, <4>3
    <3>3. CASE exact \cup prefixed # {}
      BY <3>1, <3>3
    <3>4. QED
      BY <3>2, <3>3
  <2>8. QED
    BY <2>4, <2>5, <2>6, <2>7
<1>3. ASSUME NEW r \in others PROVE Good(r)
  <2>1. PICK f \in FacetFields :
          /\ Cardinality(Exact(v, Facets(f))) = 1
          /\ r = [field |-> f, status |-> "resolved", value |-> TheOnly(Exact(v, Facets(f)))]
    BY <1>3 DEF Namespaces
  <2>2. TheOnly(Exact(v, Facets(f))) \in Facets(f)
    BY <2>1, OneThere DEF Exact
  <2>3. TheOnly(Exact(v, Facets(f))) # Absent /\ Settled(f, TheOnly(Exact(v, Facets(f))))
    BY <2>2, FacetTexts DEF Settled
  <2>4. QED
    BY <2>1, <2>3
<1>4. CASE v \in Texts
  <2>1. ReadValue(p, v) = IF own.status = "unmapped" /\ Cardinality(others) = 1
                          THEN TheOnly(others) ELSE own
    BY <1>4 DEF ReadValue
  <2> HIDE DEF own, others, Good
  <2>2. Good(ReadValue(p, v))
    BY <1>2, <1>3, <2>1, OneThere
  <2>3. QED
    BY <2>2 DEF Good
<1>5. QED
  BY <1>1, <1>4

\* A predicate of a grounded expression has the evidence of one in the plan.
Traced(q, p) ==
  /\ q.strength = p.strength /\ q.literal = p.literal /\ q.prov = p.prov
  /\ q.source = p.source /\ q.current = p.current /\ q.refs = p.refs

SettledPredicate(q) == \A v \in ToSet(q.values) : Settled(q.field, v)

\* A predicate with other values.
LEMMA PredicateWith ==
  ASSUME NEW p, IsPredicate(p), NEW field, NEW op, NEW values,
         op \in {"eq", "not_eq", "in", "not_in"} \cup Comparisons,
         values \in Seq(ToSet(values)), values # <<>>, Absent \notin ToSet(values),
         op \in {"in", "not_in"} \/ Len(values) = 1
  PROVE  LET q == [p EXCEPT !.field = field, !.op = op, !.values = values]
         IN  /\ IsPredicate(q) /\ Traced(q, p)
             /\ q.field = field /\ q.op = op /\ q.values = values
BY DEF IsPredicate, PredicateKeys, Traced

LEMMA PredicateOf ==
  ASSUME NEW p, IsPredicate(p), NEW field, NEW values,
         values \in Seq(ToSet(values)), values # <<>>, Absent \notin ToSet(values),
         p.op \in {"in", "not_in"} \/ Len(values) = 1
  PROVE  LET q == [p EXCEPT !.field = field, !.values = values]
         IN  /\ IsPredicate(q) /\ Traced(q, p)
             /\ q.field = field /\ q.op = p.op /\ q.values = values
BY DEF IsPredicate, PredicateKeys, Traced

\* What a grounded expression is to the one in the plan.
IsGrounded(g, ps, n) ==
  /\ Tree(g.expr, n)
  /\ \A q \in PredicatesOf(g.expr) : \E p \in ps : Traced(q, p)
  /\ (\A i \in g.issues : Unmapped(i)) =>
       \A q \in PredicatesOf(g.expr) : SettledPredicate(q)

LEMMA SingleFacts ==
  ASSUME NEW v
  PROVE  /\ <<v>> \in Seq(ToSet(<<v>>)) /\ ToSet(<<v>>) = {v} /\ <<v>> # <<>> /\ Len(<<v>>) = 1
         /\ DOMAIN <<v>> = {1} /\ <<v>>[1] = v
<1>1. ToSet(<<v>>) = {v} /\ DOMAIN <<v>> = {1}
  BY DEF ToSet
<1>2. QED
  BY <1>1

\* The node that a predicate over several fields is split into.
Split(p, kind, op, read) ==
  Node(kind, [i \in DOMAIN read |->
    Leaf([p EXCEPT !.field = read[i].field, !.op = op, !.values = <<read[i].value>>])])

SplitOf(q, p, read) ==
  /\ Traced(q, p)
  /\ \E i \in DOMAIN read : q.field = read[i].field /\ ToSet(q.values) = {read[i].value}

LEMMA SplitFacts ==
  ASSUME NEW p, IsPredicate(p), NEW kind \in {"any_of", "all_of"}, NEW op \in {"eq", "not_eq"},
         NEW read, read \in Seq(ToSet(read)), read # <<>>,
         \A i \in DOMAIN read : read[i].value # Absent
  PROVE  /\ Tree(Split(p, kind, op, read), 2)
         /\ \A q \in PredicatesOf(Split(p, kind, op, read)) : SplitOf(q, p, read)
<1> DEFINE P(i) == [p EXCEPT !.field = read[i].field, !.op = op, !.values = <<read[i].value>>]
           kids == [i \in DOMAIN read |-> Leaf(P(i))]
           e == Node(kind, kids)
<1>1. ASSUME NEW i \in DOMAIN read
      PROVE  /\ IsPredicate(P(i)) /\ Traced(P(i), p) /\ P(i).field = read[i].field
             /\ ToSet(P(i).values) = {read[i].value}
  <2> DEFINE v == read[i].value
             vs == <<v>>
  <2>1. vs \in Seq(ToSet(vs)) /\ ToSet(vs) = {v} /\ vs # <<>> /\ Len(vs) = 1
    BY SingleFacts
  <2>7. vs \in Seq(ToSet(vs))
    BY <2>1
  <2>8. vs # <<>>
    BY <2>1
  <2>9. op \in {"in", "not_in"} \/ Len(vs) = 1
    BY <2>1
  <2>2. Absent \notin ToSet(vs)
    BY <2>1
  <2>3. op \in {"eq", "not_eq", "in", "not_in"} \cup Comparisons
    OBVIOUS
  <2> DEFINE q == [p EXCEPT !.field = read[i].field, !.op = op, !.values = vs]
  <2> HIDE DEF v, vs, P
  <2>4. IsPredicate(q) /\ Traced(q, p) /\ q.field = read[i].field /\ q.values = vs
    BY <2>2, <2>3, <2>7, <2>8, <2>9 DEF IsPredicate, PredicateKeys, Traced
  <2>5. q = P(i)
    BY DEF P, vs, v
  <2>6. QED
    BY <2>1, <2>4, <2>5 DEF v
<1>2. kids = [i \in DOMAIN read |-> kids[i]] /\ \A i \in DOMAIN read : kids[i] = Leaf(P(i))
  OBVIOUS
<1> HIDE DEF P, kids
<1>3. /\ kids \in Seq(ToSet(kids)) /\ DOMAIN kids = DOMAIN read
      /\ \A x \in ToSet(kids) : \E i \in DOMAIN read : x = kids[i]
      /\ read = <<>> <=> kids = <<>>
  BY <1>2, ListOver
<1>4. \A k \in ToSet(kids) : \E i \in DOMAIN read : k = Leaf(P(i))
  BY <1>2, <1>3
<1>5. \A k \in ToSet(kids) : Tree(k, 1)
  BY <1>1, <1>4, LeafTree
<1>6. Fits(kind, kids)
  BY <1>3 DEF Fits
<1>7. 1 \in 1 .. MaxDepth /\ 1 < MaxDepth /\ 1 + 1 = 2
  BY DepthNat
<1>8. Tree(e, 1 + 1)
  BY <1>3, <1>5, <1>6, <1>7, NodeTree
<1>9. Tree(e, 2)
  BY <1>7, <1>8
<1>10. Within(e, MaxDepth) /\ kind \notin {"predicate", "entity_ref"}
  BY <1>9, TreeFits
<1>11. PredicatesOf(e) = UNION {PredicatesOf(k) : k \in ToSet(kids)}
  BY <1>10, NodeSays
<1>12. ASSUME NEW q \in PredicatesOf(e)
       PROVE  SplitOf(q, p, read)
  <2>1. PICK k \in ToSet(kids) : q \in PredicatesOf(k)
    BY <1>11
  <2>2. PICK i \in DOMAIN read : k = Leaf(P(i))
    BY <1>4
  <2>3. q = P(i)
    BY <2>1, <2>2, LeafSays
  <2>4. QED
    BY <1>1, <2>3 DEF SplitOf
<1>13. e = Split(p, kind, op, read)
  BY DEF e, kids, P, Split
<1> HIDE DEF e
<1>14. QED
  BY <1>9, <1>12, <1>13

LEMMA GroundPredicateFacts ==
  ASSUME NEW p, IsPredicate(p)
  PROVE  IsGrounded(GroundPredicate(p), {p}, 2)
<1> DEFINE read == [i \in DOMAIN p.values |-> ReadValue(p, p.values[i])]
           values == [i \in DOMAIN read |-> read[i].value]
           g == GroundPredicate(p)
<1>0. SUFFICES IsGrounded(g, {p}, 2)
  OBVIOUS
<1>1. p.values \in Seq(ToSet(p.values)) /\ p.values # <<>> /\ Absent \notin ToSet(p.values)
  BY DEF IsPredicate
<1>2. read = [i \in DOMAIN p.values |-> read[i]]
      /\ \A i \in DOMAIN p.values : read[i] = ReadValue(p, p.values[i])
  OBVIOUS
<1>3. values = [i \in DOMAIN read |-> values[i]] /\ \A i \in DOMAIN read : values[i] = read[i].value
  OBVIOUS
<1> DEFINE fields == {r.field : r \in ToSet(read)}
           ofStatus(status) == {p.values[i] : i \in {j \in DOMAIN read : read[j].status = status}}
           issues ==
             {Issue(p, v, "ambiguous_facet_value") : v \in ofStatus("ambiguous")}
             \cup {Issue(p, v, "unmapped_required_value") :
                     v \in {u \in ofStatus("unmapped") : p.strength = "hard"}}
           split(kind, op) ==
             Node(kind, [i \in DOMAIN read |->
               Leaf([p EXCEPT !.field = read[i].field, !.op = op, !.values = <<values[i]>>])])
           cut(kind, op) ==
             Node(kind, [i \in DOMAIN read |->
               Leaf([p EXCEPT !.field = read[i].field, !.op = op, !.values = <<read[i].value>>])])
           whole == Leaf([p EXCEPT !.field = read[1].field, !.values = values])
<1>4. \A kind, op : split(kind, op) = cut(kind, op)
  OBVIOUS
<1>5. g = CASE Cardinality(fields) > 1 /\ p.op = "in" -> Grounded(split("any_of", "eq"), issues, {})
            [] Cardinality(fields) > 1 /\ p.op = "not_in" ->
                 Grounded(split("all_of", "not_eq"), issues, {})
            [] OTHER -> Grounded(whole, issues, {})
  BY DEF GroundPredicate, GroundRead
<1> HIDE DEF g, read, values
<1>6. /\ read \in Seq(ToSet(read)) /\ DOMAIN read = DOMAIN p.values /\ Len(read) = Len(p.values)
      /\ p.values = <<>> <=> read = <<>>
      /\ DOMAIN read = 1 .. Len(read) /\ Len(read) \in Nat
      /\ \A i \in DOMAIN p.values : read[i] \in ToSet(read)
  BY <1>1, <1>2, ListOver
<1>7. /\ values \in Seq(ToSet(values)) /\ DOMAIN values = DOMAIN read /\ Len(values) = Len(read)
      /\ \A x \in ToSet(values) : \E i \in DOMAIN read : x = values[i]
      /\ read = <<>> <=> values = <<>>
  <2> HIDE DEF fields, ofStatus, issues, split, cut, whole
  <2>1. values = [i \in DOMAIN read |-> values[i]]
    BY <1>3
  <2>2. read \in Seq(ToSet(read))
    BY <1>6
  <2>3. QED
    BY <2>1, <2>2, ListOver
<1>8. ASSUME NEW i \in DOMAIN read
      PROVE  /\ read[i].value # Absent
             /\ read[i].status # "ambiguous" => Settled(read[i].field, read[i].value)
  <2>1. p.values[i] \in ToSet(p.values)
    BY <1>1, <1>6, ToSetMember
  <2>2. p.values[i] # Absent
    BY <1>1, <2>1
  <2>3. read[i] = ReadValue(p, p.values[i])
    BY <1>2, <1>6
  <2>4. QED
    BY <2>2, <2>3, ReadFacts
<1>9. ASSUME \A i \in issues : Unmapped(i), NEW i \in DOMAIN read
      PROVE  Settled(read[i].field, read[i].value)
  <2>1. SUFFICES ASSUME read[i].status = "ambiguous" PROVE FALSE
    BY <1>8
  <2>2. p.values[i] \in ofStatus("ambiguous")
    BY <2>1
  <2>3. Issue(p, p.values[i], "ambiguous_facet_value") \in issues
    BY <2>2
  <2>4. ~ Unmapped(Issue(p, p.values[i], "ambiguous_facet_value"))
    BY DEF Unmapped, Issue
  <2>5. QED
    BY <1>9, <2>3, <2>4
<1>10. read # <<>> /\ values # <<>>
  BY <1>1, <1>6, <1>7
<1> HIDE DEF fields, issues
<1>11. ASSUME NEW kind \in {"any_of", "all_of"}, NEW op \in {"eq", "not_eq"},
              g = Grounded(split(kind, op), issues, {})
       PROVE  IsGrounded(g, {p}, 2)

  <2> DEFINE e == cut(kind, op)
  <2>1. g.expr = e /\ g.issues = issues
    BY <1>4, <1>11 DEF Grounded
  <2>2. /\ Tree(e, 2)
        /\ \A q \in PredicatesOf(e) :
             /\ Traced(q, p)
             /\ \E i \in DOMAIN read : /\ q.field = read[i].field
                                       /\ ToSet(q.values) = {read[i].value}
    <3>1. \A i \in DOMAIN read : read[i].value # Absent
      BY <1>8
    <3>2. read \in Seq(ToSet(read))
      BY <1>6
    <3>3. read # <<>>
      BY <1>10
    <3> HIDE DEF ofStatus, split, whole, cut
    <3>4. e = Split(p, kind, op, read)
      BY DEF cut, Split
    <3> HIDE DEF e
    <3>5. Tree(e, 2)
      BY <3>1, <3>2, <3>3, <3>4, SplitFacts
    <3>6. ASSUME NEW q \in PredicatesOf(e)
          PROVE  SplitOf(q, p, read)
      BY <3>1, <3>2, <3>3, <3>4, SplitFacts
    <3>7. QED
      BY <3>5, <3>6 DEF SplitOf
  <2> HIDE DEF e
  <2>3. ASSUME \A i \in issues : Unmapped(i), NEW q \in PredicatesOf(e)
        PROVE  SettledPredicate(q)
    <3>1. PICK i \in DOMAIN read : q.field = read[i].field /\ ToSet(q.values) = {read[i].value}
      BY <2>2
    <3>2. Settled(read[i].field, read[i].value)
      BY <1>9, <2>3
    <3>3. QED
      BY <3>1, <3>2 DEF SettledPredicate
  <2>4. QED
    BY <2>1, <2>2, <2>3 DEF IsGrounded
<1>12. CASE Cardinality(fields) > 1 /\ p.op = "in"
  <2>1. g = Grounded(split("any_of", "eq"), issues, {})
    BY <1>5, <1>12, Zenon
  <2>2. QED
    BY <1>11, <2>1
<1>13. CASE Cardinality(fields) > 1 /\ p.op = "not_in"
  <2>1. p.op # "in"
    BY <1>13
  <2>2. g = Grounded(split("all_of", "not_eq"), issues, {})
    BY <1>5, <1>13, <2>1
  <2>3. QED
    BY <1>11, <2>2
<1>14. CASE ~ (Cardinality(fields) > 1 /\ p.op = "in") /\ ~ (Cardinality(fields) > 1 /\ p.op = "not_in")
  <2>1. g = Grounded(whole, issues, {})
    BY <1>5, <1>14, Zenon
  <2>2. g.expr = whole /\ g.issues = issues
    BY <2>1 DEF Grounded
  <2> DEFINE w == [p EXCEPT !.field = read[1].field, !.values = values]
  <2>3. Absent \notin ToSet(values)
    BY <1>3, <1>7, <1>8
  <2>4. p.op \in {"in", "not_in"} \/ Len(values) = 1
    BY <1>6, <1>7 DEF IsPredicate
  <2>11. values \in Seq(ToSet(values))
    BY <1>7
  <2>12. values # <<>>
    BY <1>10
  <2>5. IsPredicate(w) /\ Traced(w, p) /\ w.field = read[1].field /\ w.values = values
    <3> HIDE DEF ofStatus, split, cut, whole
    <3>1. QED
      BY <2>3, <2>4, <2>11, <2>12 DEF IsPredicate, PredicateKeys, Traced
  <2> HIDE DEF w
  <2>6. whole = Leaf(w)
    BY DEF w
  <2>7. Tree(whole, 1) /\ PredicatesOf(whole) = {w}
    BY <2>5, <2>6, LeafTree, LeafSays
  <2>8. Tree(whole, 2)
    BY <2>7, TreeMore, DepthNat
  <2>9. ASSUME \A i \in issues : Unmapped(i)
        PROVE  SettledPredicate(w)
    <3>1. ASSUME NEW i \in DOMAIN read PROVE read[i].field = read[1].field
      <4>1. 1 \in DOMAIN read
        BY <1>6, <1>10, EmptySeq
      <4>2. CASE p.op \in {"in", "not_in"}
        <5>1. Cardinality(fields) <= 1 /\ IsFiniteSet(fields)
          <6>1. IsFiniteSet(1 .. Len(read))
            BY <1>6, FS_Interval
          <6>2. IsFiniteSet(fields)
            <7> DEFINE f == [j \in 1 .. Len(read) |-> read[j].field]
            <7>1. fields = {read[j].field : j \in 1 .. Len(read)}
              BY <1>6 DEF fields, ToSet
            <7>2. f \in Surjection(1 .. Len(read), fields)
              BY <7>1 DEF Surjection
            <7>3. QED
              BY <6>1, <7>2, FS_Surjection DEF ExistsSurjection
          <6>3. Cardinality(fields) \in Nat
            BY <6>2, FS_CardinalityType
          <6>4. ~ (Cardinality(fields) > 1)
            BY <1>14, <4>2
          <6>5. QED
            BY <6>2, <6>3, <6>4
        <5>2. read[i].field \in fields /\ read[1].field \in fields
          BY <1>6, <4>1 DEF fields
        <5>3. Cardinality(fields) = 1
          BY <5>1, <5>2, FS_EmptySet, FS_CardinalityType
        <5>4. PICK x : fields = {x}
          BY <5>1, <5>3, FS_Singleton
        <5>5. QED
          BY <5>2, <5>4
      <4>3. CASE p.op \notin {"in", "not_in"}
        <5>1. Len(p.values) = 1
          BY <4>3 DEF IsPredicate
        <5>2. i = 1
          BY <1>6, <5>1
        <5>3. QED
          BY <5>2
      <4>4. QED
        BY <4>2, <4>3
    <3>2. ASSUME NEW v \in ToSet(values) PROVE Settled(w.field, v)
      <4>1. PICK i \in DOMAIN read : v = values[i]
        BY <1>7
      <4>2. v = read[i].value /\ Settled(read[i].field, v)
        BY <1>3, <1>9, <2>9, <4>1
      <4>3. QED
        BY <2>5, <3>1, <4>2
    <3>3. QED
      BY <2>5, <3>2 DEF SettledPredicate
  <2>10. QED
    <3>1. \A q \in PredicatesOf(whole) : Traced(q, p)
      BY <2>5, <2>7
    <3>2. (\A i \in issues : Unmapped(i)) => \A q \in PredicatesOf(whole) : SettledPredicate(q)
      BY <2>7, <2>9
    <3> HIDE DEF whole
    <3>3. QED
      BY <2>2, <2>8, <3>1, <3>2 DEF IsGrounded
<1>15. QED
  BY <1>12, <1>13, <1>14

\* The expressions of a list of groundings.
ExprsOf(gs) == [i \in DOMAIN gs |-> gs[i].expr]

\* A node over grounded kids.
LEMMA ExprNode ==
  ASSUME NEW gs, gs \in Seq(ToSet(gs)), NEW kind, kind \notin {"predicate", "entity_ref"},
         Fits(kind, gs), NEW n \in 1 .. MaxDepth, n < MaxDepth,
         \A g \in ToSet(gs) : Tree(g.expr, n)
  PROVE  /\ Tree(Node(kind, ExprsOf(gs)), n + 1)
         /\ \A q \in PredicatesOf(Node(kind, ExprsOf(gs))) :
              \E g \in ToSet(gs) : q \in PredicatesOf(g.expr)
<1> DEFINE es == ExprsOf(gs)
           e == Node(kind, es)
<1>1. es = [i \in DOMAIN gs |-> es[i]] /\ \A i \in DOMAIN gs : es[i] = gs[i].expr
  BY DEF ExprsOf
<1> HIDE DEF es
<1>2. es = [i \in DOMAIN gs |-> es[i]]
  BY <1>1
<1>3. /\ es \in Seq(ToSet(es)) /\ Len(es) = Len(gs)
      /\ \A x \in ToSet(es) : \E i \in DOMAIN gs : x = es[i]
      /\ gs = <<>> <=> es = <<>>
  BY <1>2, ListOver
<1>4. Fits(kind, es)
  BY <1>3 DEF Fits
<1>5. ASSUME NEW x \in ToSet(es) PROVE \E g \in ToSet(gs) : x = g.expr
  <2>1. PICK i \in DOMAIN gs : x = es[i]
    BY <1>3
  <2>2. gs[i] \in ToSet(gs)
    BY DEF ToSet
  <2>3. QED
    BY <1>1, <2>1, <2>2
<1>6. \A x \in ToSet(es) : Tree(x, n)
  BY <1>5
<1>7. es \in Seq(ToSet(es))
  BY <1>3
<1>8. Tree(e, n + 1)
  BY <1>4, <1>6, <1>7, NodeTree
<1>9. Within(e, MaxDepth)
  BY <1>8, TreeFits
<1>10. PredicatesOf(e) = UNION {PredicatesOf(x) : x \in ToSet(es)}
  BY <1>9, NodeSays
<1>11. ASSUME NEW q \in PredicatesOf(e)
       PROVE  \E g \in ToSet(gs) : q \in PredicatesOf(g.expr)
  <2>1. PICK x \in ToSet(es) : q \in PredicatesOf(x)
    BY <1>10
  <2>2. QED
    BY <1>5, <2>1
<1>12. QED
  BY <1>8, <1>11 DEF e, es

\* Grounding one level deeper at most.
LEMMA GroundFacts ==
  ASSUME NEW e, NEW n, Tree(e, n), n < MaxDepth
  PROVE  IsGrounded(Ground(e), PredicatesOf(e), n + 1)
<1> DEFINE Good(x, m) == IsGrounded(Ground(x), PredicatesOf(x), m + 1)
           T == {x \in Parts(e) : \A m \in 1 .. MaxDepth : m < MaxDepth /\ Tree(x, m) => Good(x, m)}
<1>1. Within(e, MaxDepth)
  BY TreeFits
<1>2. ASSUME NEW x \in Parts(e), \A i \in DOMAIN Kids(x) : Kids(x)[i] \in T,
             NEW m \in 1 .. MaxDepth, m < MaxDepth, Tree(x, m)
      PROVE  Good(x, m)
  <2> DEFINE kids == [i \in DOMAIN Kids(x) |-> Ground(Kids(x)[i])]
             valid == Chosen(kids, {i \in DOMAIN kids : kids[i].issues = {}})
             issues == UNION {g.issues : g \in ToSet(kids)}
             lost == UNION {g.lost : g \in ToSet(kids)}
             G == Ground(x)
  <2>1. G = GroundAt(kids, x, {})
    BY <1>2, TreeFits, GroundingUnfolds DEF Ground
  <2>2. G = IF x.kind = "predicate" THEN GroundPredicate(x.pred)
            ELSE IF Kids(x) = <<>> THEN Grounded(x, {}, {})
            ELSE IF x.kind # "any_of" THEN Grounded(Node(x.kind, ExprsOf(kids)), issues, lost)
            ELSE IF valid # <<>> /\ \A i \in issues : Unmapped(i)
            THEN Grounded(IF Len(valid) = 1 THEN valid[1].expr ELSE Node("any_of", ExprsOf(valid)),
                          {}, lost \cup issues)
            ELSE Grounded(Node("any_of", ExprsOf(kids)), issues,
                          lost \cup {i \in issues : Unmapped(i)})
    BY <2>1 DEF GroundAt, ExprsOf
  <2>3. kids = [i \in DOMAIN Kids(x) |-> kids[i]]
        /\ \A i \in DOMAIN Kids(x) : kids[i] = Ground(Kids(x)[i])
    OBVIOUS
  <2>4. Kids(x) \in Seq(ToSet(Kids(x)))
    BY <1>2, TreeKinds
  <2>5. Kids(x) # <<>> => Fits(x.kind, Kids(x)) /\ x.kind \notin {"predicate", "entity_ref"}
    BY <1>2, TreeKinds
  <2>6. ASSUME NEW i \in DOMAIN Kids(x)
        PROVE  /\ m - 1 \in 1 .. MaxDepth
               /\ IsGrounded(kids[i], PredicatesOf(x), m)
    <3>1. Kids(x)[i] \in ToSet(Kids(x))
      BY <2>4, ToSetMember
    <3>2. m - 1 \in 1 .. MaxDepth /\ Tree(Kids(x)[i], m - 1)
      BY <1>2, <3>1, TreeBelow
    <3>3. m - 1 < MaxDepth /\ (m - 1) + 1 = m
      BY <1>2, DepthNat
    <3>4. Kids(x)[i] \in T
      BY <1>2
    <3>5. IsGrounded(kids[i], PredicatesOf(Kids(x)[i]), m)
      BY <2>3, <3>2, <3>3, <3>4
    <3>6. PredicatesOf(x) = (IF x.kind = "predicate" THEN {x.pred} ELSE {})
                              \cup UNION {PredicatesOf(y) : y \in ToSet(Kids(x))}
      BY <1>2, TreeFits, PartsSay
    <3>7. PredicatesOf(Kids(x)[i]) \subseteq PredicatesOf(x)
      BY <3>1, <3>6
    <3>8. QED
      BY <3>2, <3>5, <3>7 DEF IsGrounded
  <2> HIDE DEF kids, T
  <2>7. kids = [i \in DOMAIN Kids(x) |-> kids[i]]
    BY <2>3
  <2>8. /\ kids \in Seq(ToSet(kids)) /\ Len(kids) = Len(Kids(x)) /\ DOMAIN kids = DOMAIN Kids(x)
        /\ \A y \in ToSet(kids) : \E i \in DOMAIN Kids(x) : y = kids[i]
        /\ Kids(x) = <<>> <=> kids = <<>>
    <3> HIDE DEF valid, issues, lost, G
    <3>1. QED
      BY <2>4, <2>7, ListOver
  <2>9. \A g \in ToSet(kids) : IsGrounded(g, PredicatesOf(x), m)
    BY <2>6, <2>8
  <2>10. /\ valid \in Seq(ToSet(kids))
         /\ ToSet(valid) = {kids[i] : i \in {j \in DOMAIN kids : kids[j].issues = {}} \cap DOMAIN kids}
    BY <2>8, ChosenFacts
  <2>11. \A g \in ToSet(valid) : g \in ToSet(kids) /\ g.issues = {}
    BY <2>10 DEF ToSet
  <2>12. valid \in Seq(ToSet(valid))
    BY <2>10, ToSetMember
  <2> HIDE DEF valid
  <2>13. m \in 1 .. MaxDepth /\ m < MaxDepth
    BY <1>2
  <2>14. ASSUME NEW gs, gs \in Seq(ToSet(gs)), ToSet(gs) \subseteq ToSet(kids),
                Fits(x.kind, gs), x.kind \notin {"predicate", "entity_ref"}, NEW is, NEW l,
                (\A i \in is : Unmapped(i)) =>
                  \A g \in ToSet(gs) : \A i \in g.issues : Unmapped(i)
         PROVE  IsGrounded(Grounded(Node(x.kind, ExprsOf(gs)), is, l), PredicatesOf(x), m + 1)
    <3> DEFINE node == Node(x.kind, ExprsOf(gs))
    <3>1. \A g \in ToSet(gs) : Tree(g.expr, m)
      BY <2>9, <2>14 DEF IsGrounded
    <3>2. gs \in Seq(ToSet(gs))
      BY <2>14
    <3>3. Fits(x.kind, gs)
      BY <2>14
    <3>4. x.kind \notin {"predicate", "entity_ref"}
      BY <2>14
    <3>5. Tree(node, m + 1)
      BY <2>13, <3>1, <3>2, <3>3, <3>4, ExprNode
    <3>6. \A q \in PredicatesOf(node) : \E g \in ToSet(gs) : q \in PredicatesOf(g.expr)
      BY <2>13, <3>1, <3>2, <3>3, <3>4, ExprNode
    <3> HIDE DEF node
    <3>7. ASSUME NEW q \in PredicatesOf(node)
          PROVE  \E p \in PredicatesOf(x) : Traced(q, p)
      <4>1. PICK g \in ToSet(gs) : q \in PredicatesOf(g.expr)
        BY <3>6
      <4>2. IsGrounded(g, PredicatesOf(x), m)
        BY <2>9, <2>14
      <4>3. QED
        BY <4>1, <4>2 DEF IsGrounded
    <3>8. ASSUME \A i \in is : Unmapped(i), NEW q \in PredicatesOf(node)
          PROVE  SettledPredicate(q)
      <4>1. PICK g \in ToSet(gs) : q \in PredicatesOf(g.expr)
        BY <3>6
      <4>2. IsGrounded(g, PredicatesOf(x), m)
        BY <2>9, <2>14
      <4>3. \A i \in g.issues : Unmapped(i)
        BY <2>14, <3>8
      <4>4. QED
        BY <4>1, <4>2, <4>3 DEF IsGrounded
    <3>9. Grounded(node, is, l).expr = node /\ Grounded(node, is, l).issues = is
      BY DEF Grounded
    <3>10. IsGrounded(Grounded(node, is, l), PredicatesOf(x), m + 1)
      BY <3>5, <3>7, <3>8, <3>9 DEF IsGrounded
    <3>11. QED
      BY <3>10 DEF node
  <2>15. \A g \in ToSet(kids) : g.issues \subseteq issues
    OBVIOUS
  <2> HIDE DEF issues, lost
  <2>16. CASE x.kind = "predicate"
    <3>1. G = GroundPredicate(x.pred)
      BY <2>2, <2>16
    <3>2. IsPredicate(x.pred)
      BY <1>2, <2>16, TreeKinds
    <3>3. IsGrounded(G, {x.pred}, 2)
      BY <3>1, <3>2, GroundPredicateFacts
    <3>4. {x.pred} \subseteq PredicatesOf(x)
      BY <1>2, <2>16, TreeFits, PartsSay
    <3>5. Tree(G.expr, 2) /\ m + 1 \in 1 .. MaxDepth /\ 2 <= m + 1
      BY <2>13, <3>3, DepthNat DEF IsGrounded
    <3>6. Tree(G.expr, m + 1)
      BY <3>5, TreeMore
    <3> HIDE DEF G
    <3>7. IsGrounded(G, PredicatesOf(x), m + 1)
      BY <3>3, <3>4, <3>6 DEF IsGrounded
    <3>8. QED
      BY <3>7 DEF G
  <2>17. CASE x.kind # "predicate" /\ Kids(x) = <<>>
    <3>1. G = Grounded(x, {}, {})
      BY <2>2, <2>17, Zenon
    <3>2. x.kind = "entity_ref"
      BY <1>2, <2>17, TreeKinds
    <3>3. ToSet(Kids(x)) = {}
      BY <2>17, ToSetEmpty
    <3>4. PredicatesOf(x) = (IF x.kind = "predicate" THEN {x.pred} ELSE {})
                              \cup UNION {PredicatesOf(y) : y \in ToSet(Kids(x))}
      BY <1>2, TreeFits, PartsSay
    <3>5. PredicatesOf(x) = {}
      BY <3>2, <3>3, <3>4
    <3>6. m + 1 \in 1 .. MaxDepth /\ m <= m + 1
      BY <2>13, DepthNat
    <3>7. Tree(x, m + 1)
      BY <1>2, <3>6, TreeMore
    <3>8. G.expr = x
      BY <3>1 DEF Grounded
    <3> HIDE DEF G
    <3>9. IsGrounded(G, PredicatesOf(x), m + 1)
      BY <3>5, <3>7, <3>8 DEF IsGrounded
    <3>10. QED
      BY <3>9 DEF G
  <2>18. CASE Kids(x) # <<>>
    <3>1. x.kind \notin {"predicate", "entity_ref"} /\ Fits(x.kind, Kids(x))
      BY <2>5, <2>18
    <3>2. Fits(x.kind, kids)
      BY <2>8, <3>1 DEF Fits
    <3>3. kids \in Seq(ToSet(kids))
      BY <2>8
    <3>4. (\A i \in issues : Unmapped(i)) =>
            \A g \in ToSet(kids) : \A i \in g.issues : Unmapped(i)
      BY <2>15
    <3>5. \A l : IsGrounded(Grounded(Node(x.kind, ExprsOf(kids)), issues, l), PredicatesOf(x), m + 1)
      BY <2>14, <3>1, <3>2, <3>3, <3>4
    <3>6. CASE x.kind # "any_of"
      <4>1. G = Grounded(Node(x.kind, ExprsOf(kids)), issues, lost)
        BY <2>2, <2>18, <3>1, <3>6
      <4>2. QED
        BY <3>5, <4>1
    <3>7. CASE x.kind = "any_of" /\ ~ (valid # <<>> /\ \A i \in issues : Unmapped(i))
      <4>1. G = Grounded(Node(x.kind, ExprsOf(kids)), issues, lost \cup {i \in issues : Unmapped(i)})
        BY <2>2, <2>18, <3>1, <3>7
      <4>2. QED
        BY <3>5, <4>1
    <3>8. CASE x.kind = "any_of" /\ valid # <<>> /\ \A i \in issues : Unmapped(i)
      <4> DEFINE a == IF Len(valid) = 1 THEN valid[1].expr ELSE Node("any_of", ExprsOf(valid))
      <4>1. G = Grounded(a, {}, lost \cup issues)
        BY <2>2, <2>18, <3>1, <3>8
      <4>2. CASE Len(valid) = 1
        <5>1. 1 \in DOMAIN valid
          BY <2>12, <4>2, LenProperties
        <5>2. valid[1] \in ToSet(valid)
          BY <2>12, <5>1, ToSetMember
        <5>3. IsGrounded(valid[1], PredicatesOf(x), m) /\ valid[1].issues = {}
          BY <2>9, <2>11, <5>2
        <5>4. m + 1 \in 1 .. MaxDepth /\ m <= m + 1
          BY <2>13, DepthNat
        <5>5. Tree(valid[1].expr, m + 1)
          BY <5>3, <5>4, TreeMore DEF IsGrounded
        <5>6. G.expr = valid[1].expr
          BY <4>1, <4>2 DEF Grounded
        <5> HIDE DEF G
        <5>7. IsGrounded(G, PredicatesOf(x), m + 1)
          BY <5>3, <5>5, <5>6 DEF IsGrounded
        <5>8. QED
          BY <5>7 DEF G
      <4>3. CASE Len(valid) # 1
        <5>1. G = Grounded(Node(x.kind, ExprsOf(valid)), {}, lost \cup issues)
          BY <3>8, <4>1, <4>3
        <5>2. Fits(x.kind, valid)
          BY <3>8 DEF Fits
        <5>3. ToSet(valid) \subseteq ToSet(kids)
          BY <2>11
        <5>4. \A g \in ToSet(valid) : \A i \in g.issues : Unmapped(i)
          BY <2>11
        <5>5. \A l : IsGrounded(Grounded(Node(x.kind, ExprsOf(valid)), {}, l), PredicatesOf(x), m + 1)
          BY <2>12, <2>14, <3>1, <5>2, <5>3, <5>4
        <5>6. QED
          BY <5>1, <5>5
      <4>4. QED
        BY <4>2, <4>3
    <3>9. QED
      BY <3>6, <3>7, <3>8
  <2>19. QED
    BY <2>16, <2>17, <2>18
<1>3. \A x \in Parts(e) : (\A i \in DOMAIN Kids(x) : Kids(x)[i] \in T) => x \in T
  <2>1. SUFFICES ASSUME NEW x \in Parts(e), \A i \in DOMAIN Kids(x) : Kids(x)[i] \in T
                 PROVE  x \in T
    BY Zenon
  <2>2. \A m \in 1 .. MaxDepth : m < MaxDepth /\ Tree(x, m) => Good(x, m)
    BY <1>2, <2>1, Zenon
  <2>3. QED
    BY <2>2
<1> HIDE DEF T
<1>4. Parts(e) \subseteq T
  BY <1>1, <1>3, ByParts
<1>5. e \in T
  BY <1>1, <1>4, PartsClosed
<1>6. n \in 1 .. MaxDepth
  BY DEF Tree
<1>7. QED
  BY <1>5, <1>6 DEF T

LEMMA GroundNothing == Ground(NoExpr) = Grounded(NoExpr, {}, {})
<1>1. Ground(NoExpr)
        = GroundAt([i \in DOMAIN Kids(NoExpr) |-> Ground(Kids(NoExpr)[i])], NoExpr, {})
  BY NothingSaid, GroundingUnfolds DEF Ground
<1>2. NoExpr.kind # "predicate" /\ Kids(NoExpr) = <<>>
  BY NoKids
<1>3. QED
  BY <1>1, <1>2 DEF GroundAt

\* Grounding an expression of a plan or none.
LEMMA GroundOpt ==
  ASSUME NEW e, NEW n, Opt(e, n), n \in 1 .. MaxDepth, n < MaxDepth
  PROVE  /\ Opt(Ground(e).expr, n + 1)
         /\ \A q \in PredicatesOf(Ground(e).expr) : \E p \in PredicatesOf(e) : Traced(q, p)
         /\ (\A i \in Ground(e).issues : Unmapped(i)) =>
              \A q \in PredicatesOf(Ground(e).expr) : SettledPredicate(q)
<1>1. CASE e = NoExpr
  <2>1. Ground(e).expr = NoExpr
    BY <1>1, GroundNothing DEF Grounded
  <2>2. QED
    BY <2>1, NothingSaid DEF Opt
<1>2. CASE Tree(e, n)
  <2>1. IsGrounded(Ground(e), PredicatesOf(e), n + 1)
    BY <1>2, GroundFacts
  <2>2. QED
    BY <2>1 DEF IsGrounded, Opt
<1>3. QED
  BY <1>1, <1>2 DEF Opt

-----------------------------------------------------------------------------
(***************************************************************************)
(* Entities                                                                *)
(***************************************************************************)

\* What an entity may be resolved to.
IsResolution(r) ==
  /\ DOMAIN r = {"status", "product", "field", "value", "candidates"}
  /\ r.product # Absent => r.product \in Loaded /\ r.status = "resolved"
  /\ r.status = "resolved" => r.product \in Loaded /\ r.product # Absent
  /\ r.field # Absent => r.status = "constraint_entity"
  /\ r.status = "constraint_entity" => /\ r.field \in {"model_family", "brand", "category_id"}
                                       /\ r.value \in Facets(r.field)
  /\ r.candidates \subseteq Loaded

LEMMA LoadedThere ==
  ASSUME NEW p \in Loaded
  PROVE  p \in Points /\ p # Absent
BY CatalogAssumption

LEMMA UnresolvedFacts == IsResolution(Unresolved) /\ Unresolved.status = "unresolved"
                         /\ Unresolved.product = Absent /\ Unresolved.field = Absent
BY DEF IsResolution, Unresolved, Resolution

LEMMA FromIdsFacts ==
  ASSUME NEW ids, ids \subseteq Loaded
  PROVE  IsResolution(FromIds(ids))
<1>1. CASE Cardinality(ids) = 1
  <2> DEFINE p == TheOnly(ids)
  <2>1. p \in Loaded /\ p # Absent
    BY <1>1, OneThere, LoadedThere
  <2>2. FromIds(ids) = Resolution("resolved", p, Absent, Absent, ids)
    BY <1>1 DEF FromIds
  <2> HIDE DEF p
  <2>3. IsResolution(Resolution("resolved", p, Absent, Absent, ids))
    BY <2>1 DEF IsResolution, Resolution
  <2>4. QED
    BY <2>2, <2>3
<1>2. CASE Cardinality(ids) # 1
  <2>1. FromIds(ids) = Resolution("ambiguous", Absent, Absent, Absent, ids)
    BY <1>2 DEF FromIds
  <2>2. IsResolution(Resolution("ambiguous", Absent, Absent, Absent, ids))
    BY DEF IsResolution, Resolution
  <2>3. QED
    BY <2>1, <2>2
<1>3. QED
  BY <1>1, <1>2

LEMMA ResolveEntityFacts ==
  ASSUME NEW text, NEW type
  PROVE  IsResolution(ResolveEntity(text, type))
<1> DEFINE hits == {i \in DOMAIN Indexes(type) : Named(Indexes(type)[i], text) # {}}
           facets == {n \in [field : {"model_family", "brand", "category_id"},
                             value : UNION {Facets(f) : f \in FacetFields}] :
                        /\ type \in {"auto", "model_family"}
                        /\ n.value \in Exact(text, Facets(n.field))}
           near == HasAlmostEveryWord(text)
           fitting == SameLength(text, near)
           r == ResolveEntity(text, type)
<1>1. r = IF hits # {} THEN FromIds(Named(Indexes(type)[Min(hits)], text))
          ELSE IF Cardinality(facets) = 1 THEN
            Resolution("constraint_entity", Absent, TheOnly(facets).field,
                       TheOnly(facets).value, {})
          ELSE IF facets # {} THEN Resolution("ambiguous", Absent, Absent, Absent, {})
          ELSE IF HasEveryWord(text) # {} THEN FromIds(HasEveryWord(text))
          ELSE IF fitting # {} THEN FromIds(fitting)
          ELSE IF near # {} THEN FromIds(near)
          ELSE Unresolved
  BY DEF ResolveEntity
<1>2. \A index : Named(index, text) \subseteq Loaded
  BY DEF Named
<1>3. HasEveryWord(text) \subseteq Loaded /\ near \subseteq Loaded /\ fitting \subseteq Loaded
  BY DEF HasEveryWord, HasAlmostEveryWord, SameLength
<1>4. ASSUME Cardinality(facets) = 1
      PROVE  IsResolution(Resolution("constraint_entity", Absent, TheOnly(facets).field,
                                     TheOnly(facets).value, {}))
  <2> DEFINE n == TheOnly(facets)
  <2>1. n \in facets
    BY <1>4, OneThere
  <2>2. n.field \in {"model_family", "brand", "category_id"} /\ n.value \in Facets(n.field)
    BY <2>1 DEF Exact
  <2> HIDE DEF n
  <2>3. IsResolution(Resolution("constraint_entity", Absent, n.field, n.value, {}))
    BY <2>2 DEF IsResolution, Resolution
  <2>4. QED
    BY <2>3 DEF n
<1>5. IsResolution(Resolution("ambiguous", Absent, Absent, Absent, {}))
  BY DEF IsResolution, Resolution
<1> HIDE DEF hits, facets, near, fitting, r
<1>6. IsResolution(FromIds(Named(Indexes(type)[Min(hits)], text)))
  BY <1>2, FromIdsFacts
<1>7. /\ IsResolution(FromIds(HasEveryWord(text))) /\ IsResolution(FromIds(fitting))
      /\ IsResolution(FromIds(near)) /\ IsResolution(Unresolved)
  BY <1>3, FromIdsFacts, UnresolvedFacts
<1>8. IsResolution(r)
  BY <1>1, <1>4, <1>5, <1>6, <1>7
<1>9. QED
  BY <1>8 DEF r

LEMMA SupersedingFacts ==
  ASSUME NEW plan, NEW e, NEW res, IsResolution(res)
  PROVE  IsResolution(Superseding(plan, e, res))
<1>1. ASSUME res.status = "ambiguous", NEW previous
      PROVE  IsResolution(Replacing(res, previous))
  <2> DEFINE like == IF previous = Absent THEN {}
                     ELSE {p \in res.candidates : ClearlyLike(p, res.candidates, previous)}
  <2>1. Replacing(res, previous)
          = IF like = {} THEN res
            ELSE [res EXCEPT !.status = "resolved", !.product = TheOnly(like)]
    BY DEF Replacing
  <2>2. CASE like = {}
    BY <2>1, <2>2
  <2>3. CASE like # {}
    <3> DEFINE p == TheOnly(like)
    <3>1. p \in like
      BY <2>3, TheOnlyIn
    <3>2. p \in Loaded /\ p # Absent
      BY <3>1, LoadedThere DEF IsResolution
    <3>3. Replacing(res, previous) = [res EXCEPT !.status = "resolved", !.product = p]
      BY <2>1, <2>3
    <3> HIDE DEF p, like
    <3>4. res.field = Absent /\ res.candidates \subseteq Loaded
      BY <1>1 DEF IsResolution
    <3> DEFINE new == [res EXCEPT !.status = "resolved", !.product = p]
    <3>5. DOMAIN new = {"status", "product", "field", "value", "candidates"}
      BY DEF IsResolution
    <3>6. new.status = "resolved" /\ new.product = p /\ new.field = res.field
          /\ new.candidates = res.candidates
      BY DEF IsResolution
    <3> HIDE DEF new
    <3>7. IsResolution(new)
      BY <3>2, <3>4, <3>5, <3>6 DEF IsResolution
    <3>8. QED
      BY <3>3, <3>7 DEF new
  <2>4. QED
    BY <2>2, <2>3
<1>2. QED
  BY <1>1 DEF Superseding

LEMMA ResolveFacts ==
  ASSUME NEW plan, NEW overrides
  PROVE  /\ DOMAIN Resolve(plan, overrides) = Ids(SelectedOf(plan))
         /\ \A id \in DOMAIN Resolve(plan, overrides) : IsResolution(Resolve(plan, overrides)[id])
<1>1. DOMAIN Resolve(plan, overrides) = Ids(SelectedOf(plan))
  BY DEF Resolve
<1>2. ASSUME NEW id \in Ids(SelectedOf(plan))
      PROVE  IsResolution(Resolve(plan, overrides)[id])
  <2> DEFINE e == CHOOSE x \in ToSet(plan.entities) : x.id = id
  <2>1. Resolve(plan, overrides)[id]
          = IF id \in DOMAIN overrides /\ overrides[id] \in Loaded
            THEN Resolution("resolved", overrides[id], Absent, Absent, {})
            ELSE Superseding(plan, e, ResolveOne(e))
    BY DEF Resolve
  <2> HIDE DEF e
  <2>2. IsResolution(ResolveOne(e))
    BY ResolveEntityFacts DEF ResolveOne
  <2>3. IsResolution(Superseding(plan, e, ResolveOne(e)))
    BY <2>2, SupersedingFacts
  <2>4. ASSUME NEW p \in Loaded
        PROVE  IsResolution(Resolution("resolved", p, Absent, Absent, {}))
    <3>1. p # Absent
      BY LoadedThere
    <3>2. QED
      BY <3>1 DEF IsResolution, Resolution
  <2>5. QED
    BY <2>1, <2>3, <2>4
<1>3. QED
  BY <1>1, <1>2

LEMMA ResolutionOfFacts ==
  ASSUME NEW e, NEW res, \A id \in DOMAIN res : IsResolution(res[id])
  PROVE  IsResolution(ResolutionOf(e, res))
BY UnresolvedFacts DEF ResolutionOf

\* The predicate an entity stands for.
StandsFor(p, e, r) ==
  /\ IsPredicate(p) /\ SettledPredicate(p)
  /\ p.op = "eq" /\ p.strength = "hard" /\ p.current = e.current
  /\ \/ r.product # Absent /\ p.field = "product_id" /\ p.values = <<r.product>>
     \/ /\ r.product = Absent /\ r.status = "constraint_entity"
        /\ p.field = r.field /\ p.values = <<r.value>>

LEMMA FacetPredicateFacts ==
  ASSUME NEW e, NEW field, NEW value, NEW refs, NEW res, res.field = field, res.value = value,
         value # Absent
  PROVE  LET p == FacetPredicate(e, res, refs)
         IN  /\ IsPredicate(p) /\ p.op = "eq" /\ p.strength = "hard" /\ p.current = e.current
             /\ p.field = field /\ p.values = <<value>> /\ p.refs = refs
<1> DEFINE p == FacetPredicate(e, res, refs)
           vs == <<value>>
<1>1. p.values = vs /\ p.field = field
  BY DEF FacetPredicate
<1>2. vs \in Seq(ToSet(vs)) /\ ToSet(vs) = {value} /\ vs # <<>> /\ Len(vs) = 1
  BY SingleFacts
<1>3. p.op = "eq" /\ p.strength = "hard" /\ p.current = e.current /\ p.refs = refs
  BY DEF FacetPredicate
<1>4. DOMAIN p = PredicateKeys
  BY DEF FacetPredicate, PredicateKeys
<1> HIDE DEF p, vs
<1>5. IsPredicate(p)
  BY <1>1, <1>2, <1>3, <1>4 DEF IsPredicate
<1>6. QED
  BY <1>1, <1>3, <1>5 DEF p, vs

LEMMA StandsForFacet ==
  ASSUME NEW e, NEW r, IsResolution(r), r.status = "constraint_entity", NEW refs
  PROVE  StandsFor(FacetPredicate(e, r, refs), e, r)
<1> DEFINE p == FacetPredicate(e, r, refs)
           field == r.field
           value == r.value
<1>1. field \in {"model_family", "brand", "category_id"} /\ value \in Facets(field)
      /\ r.product = Absent
  BY DEF IsResolution
<1>2. value # Absent /\ (field \in RawFields => Normal(value) = value)
  BY <1>1, FacetTexts
<1>3. IsPredicate(p) /\ p.op = "eq" /\ p.strength = "hard" /\ p.current = e.current
      /\ p.field = field /\ p.values = <<value>>
  BY <1>2, FacetPredicateFacts
<1> HIDE DEF p
<1>4. ToSet(p.values) = {value}
  BY <1>3, SingleFacts
<1>5. SettledPredicate(p)
  BY <1>2, <1>3, <1>4 DEF SettledPredicate, Settled
<1>6. QED
  BY <1>1, <1>3, <1>5 DEF StandsFor, p

LEMMA StandsForProduct ==
  ASSUME NEW e, NEW r, IsResolution(r), r.product # Absent, NEW refs
  PROVE  StandsFor(FacetPredicate(e, [r EXCEPT !.field = "product_id", !.value = r.product], refs),
                   e, r)
<1> DEFINE q == [r EXCEPT !.field = "product_id", !.value = r.product]
           p == FacetPredicate(e, q, refs)
           value == r.product
<1>1. q.field = "product_id" /\ q.value = value
  BY DEF IsResolution
<1> HIDE DEF q
<1>2. value # Absent
  OBVIOUS
<1>3. IsPredicate(p) /\ p.op = "eq" /\ p.strength = "hard" /\ p.current = e.current
      /\ p.field = "product_id" /\ p.values = <<value>>
  BY <1>1, <1>2, FacetPredicateFacts
<1> HIDE DEF p
<1>4. "product_id" \notin RawFields
  BY DEF RawFields
<1>5. SettledPredicate(p)
  BY <1>3, <1>4 DEF SettledPredicate, Settled
<1>6. StandsFor(p, e, r)
  BY <1>3, <1>5 DEF StandsFor
<1>7. QED
  BY <1>6 DEF p, q

\* The entity of a list with a known id.
LEMMA EntityThere ==
  ASSUME NEW entities, NEW id \in Ids(entities)
  PROVE  LET e == CHOOSE y \in ToSet(entities) : y.id = id
         IN  e \in ToSet(entities) /\ e.id = id
BY DEF Ids

\* What a selection of resolved entities is as a filter: it names them.
LEMMA SelectionAsFilterFacts ==
  ASSUME NEW x, NEW n, Tree(x, n), NEW entities, NEW res,
         \A e \in ToSet(entities) : IsResolution(res[e.id])
  PROVE  /\ Opt(SelectionAsFilter(x, entities, res), n)
         /\ \A p \in PredicatesOf(SelectionAsFilter(x, entities, res)) :
              \E e \in ToSet(entities) : StandsFor(p, e, res[e.id])
<1> DEFINE c == [entities |-> entities, res |-> res]
           P(y) == Filtering!Value(y, c)
           Says(y) == \A p \in PredicatesOf(y) :
                         \E e \in ToSet(entities) : StandsFor(p, e, res[e.id])
           Good(y, m) == Opt(P(y), m) /\ Says(P(y))
           T == {y \in Parts(x) : \A m \in 1 .. MaxDepth : Tree(y, m) => Good(y, m)}
<1>0. SelectionAsFilter(x, entities, res) = P(x)
  BY DEF SelectionAsFilter
<1>1. Within(x, MaxDepth)
  BY TreeFits
<1>n. Says(NoExpr) /\ \A m : Opt(NoExpr, m)
  BY NothingSaid DEF Opt
<1>2. ASSUME NEW y \in Parts(x), \A i \in DOMAIN Kids(y) : Kids(y)[i] \in T,
             NEW m \in 1 .. MaxDepth, Tree(y, m)
      PROVE  Good(y, m)
  <2> DEFINE ps == [i \in DOMAIN Kids(y) |-> P(Kids(y)[i])]
  <2>1. P(y) = SelectionAsFilterAt(ps, y, c)
    BY <1>2, TreeFits, FilteringUnfolds
  <2>2. /\ Kids(y) \in Seq(ToSet(Kids(y)))
        /\ Kids(y) # <<>> => Fits(y.kind, Kids(y))
        /\ Kids(y) = <<>> => y.kind \in {"predicate", "entity_ref"}
        /\ y.kind \in {"all_of", "any_of", "not", "prefer", "fallback", "predicate", "entity_ref"}
    BY <1>2, TreeKinds
  <2>3. CASE y.kind = "entity_ref"
    <3> DEFINE e == CHOOSE z \in ToSet(entities) : z.id = y.entity
               r == res[e.id]
               product == [r EXCEPT !.field = "product_id", !.value = r.product]
    <3>1. P(y) = IF y.entity \notin Ids(entities) THEN NoExpr
                 ELSE IF r.product # Absent THEN Leaf(FacetPredicate(e, product, {}))
                 ELSE IF r.field # Absent THEN Leaf(FacetPredicate(e, r, {}))
                 ELSE NoExpr
      BY <2>1, <2>3 DEF SelectionAsFilterAt
    <3>2. ASSUME NEW p, NEW z \in ToSet(entities), StandsFor(p, z, res[z.id])
          PROVE  Opt(Leaf(p), m) /\ Says(Leaf(p))
      <4>1. Tree(Leaf(p), 1)
        BY <3>2, LeafTree DEF StandsFor
      <4>2. 1 <= m /\ m \in 1 .. MaxDepth
        BY <1>2
      <4>3. Opt(Leaf(p), m)
        BY <4>1, <4>2, TreeMore DEF Opt
      <4>4. PredicatesOf(Leaf(p)) = {p}
        BY LeafSays
      <4>5. QED
        BY <3>2, <4>3, <4>4
    <3>3. CASE y.entity \in Ids(entities)
      <4>1. e \in ToSet(entities)
        BY <3>3, EntityThere
      <4>2. IsResolution(r)
        BY <4>1
      <4> HIDE DEF e, Says
      <4>3. CASE r.product # Absent
        <5>1. StandsFor(FacetPredicate(e, product, {}), e, r)
          BY <4>2, <4>3, StandsForProduct
        <5>2. P(y) = Leaf(FacetPredicate(e, product, {}))
          BY <3>1, <3>3, <4>3
        <5> HIDE DEF product, P
        <5>3. QED
          BY <3>2, <4>1, <5>1, <5>2
      <4>4. CASE r.product = Absent /\ r.field # Absent
        <5>1. r.status = "constraint_entity"
          BY <4>2, <4>4 DEF IsResolution
        <5>2. StandsFor(FacetPredicate(e, r, {}), e, r)
          BY <4>2, <5>1, StandsForFacet
        <5>3. P(y) = Leaf(FacetPredicate(e, r, {}))
          BY <3>1, <3>3, <4>4
        <5> HIDE DEF P
        <5>4. QED
          BY <3>2, <4>1, <5>2, <5>3
      <4>5. CASE r.product = Absent /\ r.field = Absent
        BY <1>n, <3>1, <3>3, <4>5
      <4>6. QED
        BY <4>3, <4>4, <4>5
    <3>4. CASE y.entity \notin Ids(entities)
      BY <1>n, <3>1, <3>4
    <3>5. QED
      BY <3>3, <3>4
  <2>4. CASE y.kind \in {"all_of", "any_of"}
    <3>1. P(y) = IF NoExpr \in ToSet(ps) THEN NoExpr ELSE Node(y.kind, ps)
      BY <2>1, <2>4 DEF SelectionAsFilterAt
    <3>2. CASE NoExpr \in ToSet(ps)
      BY <1>n, <3>1, <3>2
    <3>3. CASE NoExpr \notin ToSet(ps)
      <4>1. Kids(y) # <<>>
        BY <2>2, <2>4
      <4>2. ps = [i \in DOMAIN Kids(y) |-> ps[i]] /\ \A i \in DOMAIN Kids(y) : ps[i] = P(Kids(y)[i])
        OBVIOUS
      <4> HIDE DEF ps
      <4>3. /\ ps \in Seq(ToSet(ps)) /\ DOMAIN ps = DOMAIN Kids(y) /\ Len(ps) = Len(Kids(y))
            /\ \A z \in ToSet(ps) : \E i \in DOMAIN Kids(y) : z = ps[i]
            /\ \A i \in DOMAIN Kids(y) : ps[i] \in ToSet(ps)
            /\ Kids(y) = <<>> <=> ps = <<>>
        <5>1. Kids(y) \in Seq(ToSet(Kids(y))) /\ ps = [i \in DOMAIN Kids(y) |-> ps[i]]
          BY <2>2, <4>2
        <5> HIDE DEF P, Good, Says, T, c
        <5>2. QED
          BY <5>1, ListOver
      <4>4. ASSUME NEW z \in ToSet(ps)
            PROVE  m - 1 \in 1 .. MaxDepth /\ Tree(z, m - 1) /\ Says(z)
        <5>1. PICK i \in DOMAIN Kids(y) : z = ps[i]
          BY <4>3
        <5>2. Kids(y)[i] \in ToSet(Kids(y))
          BY <2>2, ToSetMember
        <5>3. m - 1 \in 1 .. MaxDepth /\ Tree(Kids(y)[i], m - 1)
          BY <1>2, <5>2, TreeBelow
        <5>4. Good(Kids(y)[i], m - 1)
          BY <1>2, <5>3
        <5>5. z = P(Kids(y)[i]) /\ z # NoExpr
          BY <3>3, <4>2, <5>1
        <5>6. QED
          BY <5>3, <5>4, <5>5 DEF Opt
      <4>5. ps # <<>> /\ Fits(y.kind, ps)
        BY <2>4, <4>1, <4>3 DEF Fits
      <4>6. PICK z \in ToSet(ps) : TRUE
        BY <4>3, <4>5, ToSetMember
      <4>7. m - 1 \in 1 .. MaxDepth /\ m - 1 < MaxDepth /\ (m - 1) + 1 = m
        BY <4>4, <4>6, DepthNat
      <4>8. \A k \in ToSet(ps) : Tree(k, m - 1)
        BY <4>4
      <4>9. Tree(Node(y.kind, ps), m)
        <5>1. ps \in Seq(ToSet(ps)) /\ Fits(y.kind, ps)
          BY <4>3, <4>5
        <5> HIDE DEF P, Good, Says, T, c
        <5>2. Tree(Node(y.kind, ps), (m - 1) + 1)
          BY <4>7, <4>8, <5>1, NodeTree
        <5>3. QED
          BY <4>7, <5>2
      <4>10. y.kind \notin {"predicate", "entity_ref"}
        BY <2>4
      <4>11. PredicatesOf(Node(y.kind, ps)) = UNION {PredicatesOf(k) : k \in ToSet(ps)}
        BY <4>9, <4>10, TreeFits, NodeSays
      <4>12. Says(Node(y.kind, ps))
        BY <4>4, <4>11
      <4>13. P(y) = Node(y.kind, ps)
        BY <3>1, <3>3
      <4>14. QED
        BY <4>9, <4>12, <4>13 DEF Opt
    <3>4. QED
      BY <3>2, <3>3
  <2>5. CASE y.kind \notin {"entity_ref", "all_of", "any_of"}
    <3>1. P(y) = NoExpr
      BY <2>1, <2>5 DEF SelectionAsFilterAt
    <3>2. QED
      BY <1>n, <3>1
  <2>6. QED
    BY <2>3, <2>4, <2>5
<1>3. \A y \in Parts(x) : (\A i \in DOMAIN Kids(y) : Kids(y)[i] \in T) => y \in T
  <2>1. SUFFICES ASSUME NEW y \in Parts(x), \A i \in DOMAIN Kids(y) : Kids(y)[i] \in T
                 PROVE  \A m \in 1 .. MaxDepth : Tree(y, m) => Good(y, m)
    OBVIOUS
  <2>2. QED
    BY <1>2, <2>1
<1> HIDE DEF T
<1>4. Parts(x) \subseteq T
  BY <1>1, <1>3, ByParts
<1>5. x \in Parts(x)
  BY <1>1, PartsClosed
<1>6. Good(x, n)
  BY <1>4, <1>5 DEF Tree, T
<1>7. QED
  BY <1>0, <1>6

\* The conditions among a selection, as a filter.
LEMMA SelectionFilterFacts ==
  ASSUME NEW x, NEW n, Opt(x, n)
  PROVE  Opt(SelectionFilter(x), n) /\ PredicatesOf(SelectionFilter(x)) = PredicatesOf(x)
BY NothingSaid DEF SelectionFilter, Opt

-----------------------------------------------------------------------------
(***************************************************************************)
(* The arguments of a plan                                                 *)
(***************************************************************************)

\* What the copies of the conjuncts leave alone.
LEMMA WithConjunctsKeeps ==
  ASSUME NEW a, NEW f \in {"product_id", "sku", "model", "filter", "preference", "objectives",
                           "sort", "limit", "excluded", "compiled"},
         f \in DOMAIN a
  PROVE  WithConjuncts(a)[f] = a[f]
BY DEF WithConjuncts

\* What a search says for a branch and an entity: the branch, with the facet
\* the entity stands for; the product looked up is the one the entity is.
SearchSays(a, option, n, e, res) ==
  /\ Opt(a.filter, n + 1)
  /\ \A p \in PredicatesOf(a.filter) :
       p \in PredicatesOf(option) \/ (e # Nobody /\ StandsFor(p, e, res))
  /\ a.product_id # Absent =>
       /\ e # Nobody
       /\ \/ a.product_id = res.product
          \/ /\ a.product_id = e.raw
             /\ res.product = Absent /\ res.status # "constraint_entity"

LEMMA ArgumentsForFacts ==
  ASSUME NEW plan, NEW option, NEW n \in 1 .. MaxDepth, n < MaxDepth, Opt(option, n),
         NEW e, NEW res, e # Nobody => IsResolution(res) /\ IsEntity(e),
         NEW a, a = ArgumentsFor(plan, option, e, res)
  PROVE  SearchSays(a, option, n, e, res)
<1> DEFINE facet == e # Nobody /\ res.status = "constraint_entity"
           filter == IF facet THEN Conjoin(option, Leaf(FacetPredicate(e, res, e.refs))) ELSE option
           base == [NoArguments EXCEPT
                      !.sort = plan.sort, !.limit = Min({plan.limit, 3}), !.filter = filter,
                      !.preference = plan.preference, !.objectives = plan.objectives,
                      !.compiled = TRUE]
           named == IF e = Nobody THEN base
                    ELSE IF res.product # Absent
                    THEN [base EXCEPT !.product_id = res.product, !.excluded = {res.product}]
                    ELSE IF e.type # "auto" /\ ~facet THEN [base EXCEPT ![e.type] = e.raw]
                    ELSE base
<1>1. a = WithConjuncts(named)
  BY DEF ArgumentsFor
<1>2. /\ "filter" \in DOMAIN base /\ "product_id" \in DOMAIN base
      /\ base.filter = filter /\ base.product_id = Absent
  BY DEF NoArguments
<1>3. Opt(filter, n + 1)
      /\ (\A p \in PredicatesOf(filter) :
            p \in PredicatesOf(option) \/ (e # Nobody /\ StandsFor(p, e, res)))
  <2>1. CASE facet
    <3> DEFINE p == FacetPredicate(e, res, e.refs)
    <3>1. StandsFor(p, e, res)
      BY <2>1, StandsForFacet
    <3>2. filter = Conjoin(option, Leaf(p))
      BY <2>1
    <3> HIDE DEF p, filter
    <3>3. Tree(Leaf(p), 1)
      BY <3>1, LeafTree DEF StandsFor
    <3>4. 1 <= n
      OBVIOUS
    <3>5. Opt(Leaf(p), n)
      BY <3>3, <3>4, TreeMore DEF Opt
    <3>6. Opt(filter, n + 1) /\ PredicatesOf(filter) = PredicatesOf(option) \cup PredicatesOf(Leaf(p))
      BY <3>2, <3>5, ConjoinFacts
    <3>7. PredicatesOf(Leaf(p)) = {p}
      BY LeafSays
    <3>8. QED
      BY <2>1, <3>1, <3>6, <3>7
  <2>2. CASE ~ facet
    <3>1. filter = option
      BY <2>2
    <3>2. Opt(option, n + 1)
      <4>1. n + 1 \in 1 .. MaxDepth /\ n <= n + 1
        BY DepthNat
      <4>2. QED
        BY <4>1, OptMore
    <3> HIDE DEF filter
    <3>3. QED
      BY <3>1, <3>2
  <2>3. QED
    BY <2>1, <2>2
<1> HIDE DEF filter, base, facet
<1>4. /\ "filter" \in DOMAIN named /\ "product_id" \in DOMAIN named
      /\ named.filter = filter
      /\ named.product_id # Absent =>
           /\ e # Nobody
           /\ \/ named.product_id = res.product
              \/ /\ named.product_id = e.raw
                 /\ res.product = Absent /\ res.status # "constraint_entity"
  <2>1. CASE e = Nobody
    <3>1. named = base
      BY <2>1
    <3> HIDE DEF named
    <3>2. QED
      BY <1>2, <3>1
  <2>2. CASE e # Nobody /\ res.product # Absent
    <3>1. named = [base EXCEPT !.product_id = res.product, !.excluded = {res.product}]
      BY <2>2
    <3> HIDE DEF named
    <3>2. named.product_id = res.product /\ named.filter = base.filter
          /\ "filter" \in DOMAIN named /\ "product_id" \in DOMAIN named
      BY <1>2, <3>1
    <3>3. QED
      BY <1>2, <2>2, <3>2
  <2>3. CASE e # Nobody /\ res.product = Absent /\ e.type # "auto" /\ ~facet
    <3>1. named = [base EXCEPT ![e.type] = e.raw]
      BY <2>3
    <3>2. e.type \in {"product_id", "sku", "model", "model_family"}
      BY <2>3 DEF IsEntity
    <3> HIDE DEF named
    <3>3. named.filter = base.filter /\ "filter" \in DOMAIN named /\ "product_id" \in DOMAIN named
          /\ (named.product_id = e.raw \/ named.product_id = base.product_id)
      BY <1>2, <3>1, <3>2
    <3>4. res.status # "constraint_entity"
      BY <2>3 DEF facet
    <3>5. QED
      BY <1>2, <2>3, <3>3, <3>4
  <2>4. CASE e # Nobody /\ res.product = Absent /\ (e.type = "auto" \/ facet)
    <3>1. named = base
      BY <2>4
    <3> HIDE DEF named
    <3>2. QED
      BY <1>2, <3>1
  <2>5. QED
    BY <2>1, <2>2, <2>3, <2>4
<1> HIDE DEF named
<1>5. a.filter = named.filter /\ a.product_id = named.product_id
  BY <1>1, <1>4, WithConjunctsKeeps
<1>6. a.filter = filter
  BY <1>4, <1>5
<1>7. a.product_id # Absent =>
           /\ e # Nobody
           /\ \/ a.product_id = res.product
              \/ /\ a.product_id = e.raw
                 /\ res.product = Absent /\ res.status # "constraint_entity"
  BY <1>4, <1>5
<1>8. QED
  BY <1>3, <1>6, <1>7 DEF SearchSays

-----------------------------------------------------------------------------
(***************************************************************************)
(* The plan that is compiled                                               *)
(***************************************************************************)

LEMMA SelectedFacts ==
  ASSUME NEW plan, plan.entities \in Seq(ToSet(plan.entities))
  PROVE  /\ ToSet(SelectedOf(plan)) = {e \in ToSet(plan.entities) : IsSelected(e)}
         /\ SelectedOf(plan) \in Seq(ToSet(SelectedOf(plan)))
         /\ Len(SelectedOf(plan)) <= Len(plan.entities)
<1> DEFINE es == plan.entities
           at == {i \in DOMAIN es : IsSelected(es[i])}
<1>1. SelectedOf(plan) = Chosen(es, at)
  BY DEF SelectedOf
<1>2. es \in Seq(ToSet(es))
  OBVIOUS
<1>3. \A e \in ToSet(es) : \E i \in DOMAIN es : e = es[i]
  BY DEF ToSet
<1>4. \A i \in DOMAIN es : es[i] \in ToSet(es)
  BY <1>2, ToSetMember
<1> HIDE DEF es
<1>5. /\ Chosen(es, at) \in Seq(ToSet(es)) /\ Len(Chosen(es, at)) <= Len(es)
      /\ ToSet(Chosen(es, at)) = {es[i] : i \in at \cap DOMAIN es}
  BY <1>2, ChosenFacts
<1>6. ToSet(Chosen(es, at)) = {e \in ToSet(es) : IsSelected(e)}
  BY <1>3, <1>4, <1>5
<1>7. Chosen(es, at) \in Seq(ToSet(Chosen(es, at)))
  BY <1>5, ToSetMember
<1>8. QED
  BY <1>1, <1>5, <1>6, <1>7 DEF es

\* What the projection of a plan leaves of it.
IsProjected(p, plan) ==
  /\ DOMAIN p.plan = PlanKeys
  /\ \A f \in PlanKeys \ {"selection", "entities", "objectives"} : p.plan[f] = plan[f]
  /\ \/ p.plan.selection = plan.selection
     \/ /\ plan.selection = NoExpr
        /\ \E id : p.plan.selection = [kind |-> "entity_ref", entity |-> id]
  /\ p.plan.entities \in Seq(ToSet(p.plan.entities))
  /\ ToSet(p.plan.entities) \subseteq ToSet(plan.entities)
  /\ Len(p.plan.entities) <= Len(plan.entities)
  /\ p.plan.objectives \in Seq(ToSet(p.plan.objectives))
  /\ ToSet(p.plan.objectives) \subseteq ToSet(plan.objectives)
  /\ \A o \in ToSet(p.plan.objectives) : o.field \in NumericFields
  /\ DOMAIN p.res = Ids(SelectedOf(p.plan))
  /\ \A id \in DOMAIN p.res : IsResolution(p.res[id])

LEMMA ProjectKeptFacts ==
  ASSUME NEW kept, DOMAIN kept = PlanKeys, kept.entities \in Seq(ToSet(kept.entities)),
         kept.objectives \in Seq(ToSet(kept.objectives)),
         NEW res, DOMAIN res = Ids(SelectedOf(kept)),
         \A id \in DOMAIN res : IsResolution(res[id]),
         NEW dropped, NEW wanted, ProjectKept(kept, res, dropped, wanted).issue = "none"
  PROVE  IsProjected(ProjectKept(kept, res, dropped, wanted), kept)
<1> DEFINE P == ProjectKept(kept, res, dropped, wanted)
           supported(o) == Sortable(o.field, wanted)
           inferredAway(o) == /\ o.origin = "inferred"
                              /\ ~(supported(o) /\ HasEvidence(o, "ranking_objective"))
           fields == {o.field : o \in {x \in ToSet(kept.objectives) : inferredAway(x)}}
           at == {i \in DOMAIN kept.objectives : ~inferredAway(kept.objectives[i])}
           objectives == Chosen(kept.objectives, at)
           ranked == [kept EXCEPT !.objectives = objectives]
           selected == SelectedOf(ranked)
           implicit == /\ Len(selected) = 1 /\ ranked.selection = NoExpr
                       /\ EntityHasEvidence(selected[1], res)
           bound == IF implicit
                    THEN [ranked EXCEPT !.selection = [kind |-> "entity_ref",
                                                       entity |-> selected[1].id]]
                    ELSE ranked
           unbound == Ids(selected) \ EntityRefs(bound.selection)
           redundant == /\ unbound # {} /\ bound.selection = NoExpr
                        /\ Represented(bound, selected)
           others == {i \in DOMAIN bound.entities : ~IsSelected(bound.entities[i])}
           rest == Chosen(bound.entities, others)
           final == IF redundant THEN [bound EXCEPT !.entities = rest] ELSE bound
           corrected == dropped # {} \/ fields # {} \/ implicit \/ redundant
           outcome == IF unbound # {} /\ ~redundant THEN "unbound_selected_entity"
                      ELSE IF corrected /\ final.entities = <<>>
                              /\ final.objectives = <<>> /\ final.filter = NoExpr
                           THEN "grounded_plan_empty" ELSE "none"
<1>1. P = IF \E o \in ToSet(ranked.objectives) : ~supported(o)
          THEN Projected(ranked, res, "unsupported_ranking_objective", dropped, fields)
          ELSE Projected(final, IF redundant THEN <<>> ELSE res, outcome, dropped, fields)
  BY DEF ProjectKept
<1>2. P.issue = "none"
  OBVIOUS
<1> HIDE DEF outcome, fields, supported, inferredAway, P, final, redundant, ranked
<1>3. P.plan = final /\ P.res = IF redundant THEN <<>> ELSE res
  BY <1>1, <1>2 DEF Projected
<1>3a. \A o \in ToSet(ranked.objectives) : supported(o)
  BY <1>1, <1>2 DEF Projected
<1>3b. \A o \in ToSet(ranked.objectives) : o.field \in NumericFields
  BY <1>3a DEF supported, Sortable
<1> USE DEF final, redundant, ranked
<1>4. /\ objectives \in Seq(ToSet(objectives))
      /\ ToSet(objectives) \subseteq ToSet(kept.objectives)
  <2>1. \A i \in DOMAIN kept.objectives : kept.objectives[i] \in ToSet(kept.objectives)
    BY ToSetMember
  <2>2. /\ objectives \in Seq(ToSet(kept.objectives))
        /\ ToSet(objectives) = {kept.objectives[i] : i \in at \cap DOMAIN kept.objectives}
    BY ChosenFacts
  <2> HIDE DEF objectives, at
  <2>3. QED
    BY <2>1, <2>2, ToSetMember
<1> HIDE DEF objectives
<1>5. /\ DOMAIN ranked = PlanKeys /\ ranked.objectives = objectives
      /\ \A f \in PlanKeys \ {"objectives"} : ranked[f] = kept[f]
  BY DEF PlanKeys
<1>5a. \A o \in ToSet(objectives) : o.field \in NumericFields
  BY <1>5, <1>3b
<1>6. ranked.entities = kept.entities /\ ranked.selection = kept.selection
  BY <1>5 DEF PlanKeys
<1>7. selected = SelectedOf(kept)
  BY <1>6 DEF SelectedOf
<1> HIDE DEF ranked, selected
<1>8. /\ DOMAIN bound = PlanKeys /\ bound.objectives = objectives
      /\ \A f \in PlanKeys \ {"selection", "objectives"} : bound[f] = kept[f]
      /\ \/ bound.selection = kept.selection
         \/ /\ kept.selection = NoExpr
            /\ \E id : bound.selection = [kind |-> "entity_ref", entity |-> id]
  <2>1. CASE implicit
    <3> DEFINE ref == [kind |-> "entity_ref", entity |-> selected[1].id]
    <3>1. bound = [ranked EXCEPT !.selection = ref]
      BY <2>1
    <3>2. kept.selection = NoExpr
      BY <1>6, <2>1
    <3> HIDE DEF bound, implicit
    <3>3. DOMAIN bound = PlanKeys /\ bound.selection = ref /\ bound.objectives = objectives
          /\ \A f \in PlanKeys \ {"selection"} : bound[f] = ranked[f]
      BY <1>5, <3>1 DEF PlanKeys
    <3>4. \E id : bound.selection = [kind |-> "entity_ref", entity |-> id]
      BY <3>3
    <3>5. QED
      BY <1>5, <3>2, <3>3, <3>4
  <2>2. CASE ~ implicit
    <3>1. bound = ranked
      BY <2>2
    <3> HIDE DEF bound, implicit
    <3>2. QED
      BY <1>5, <1>6, <3>1
  <2>3. QED
    BY <2>1, <2>2
<1>9. bound.entities = kept.entities
  BY <1>8 DEF PlanKeys
<1>10. /\ rest \in Seq(ToSet(rest)) /\ Len(rest) <= Len(kept.entities)
       /\ \A e \in ToSet(rest) : e \in ToSet(kept.entities) /\ ~ IsSelected(e)
  <2> HIDE DEF bound, implicit, redundant, final
  <2>1. \A i \in DOMAIN bound.entities : bound.entities[i] \in ToSet(bound.entities)
    BY <1>9, ToSetMember
  <2>2. bound.entities \in Seq(ToSet(bound.entities))
    BY <1>9
  <2>3. /\ rest \in Seq(ToSet(bound.entities))
        /\ ToSet(rest) = {bound.entities[i] : i \in others \cap DOMAIN bound.entities}
        /\ Len(rest) <= Len(bound.entities)
    BY <2>2, ChosenFacts
  <2>4. \A i \in others : ~ IsSelected(bound.entities[i])
    OBVIOUS
  <2> HIDE DEF rest, others
  <2>5. QED
    BY <1>9, <2>1, <2>3, <2>4, ToSetMember
<1> HIDE DEF bound, implicit, rest
<1>11. CASE redundant
  <2>1. final = [bound EXCEPT !.entities = rest]
    BY <1>11
  <2>2. P.res = <<>>
    BY <1>3, <1>11
  <2> HIDE DEF final, redundant
  <2>3. DOMAIN final = PlanKeys /\ final.entities = rest
        /\ final.selection = bound.selection /\ final.objectives = objectives
        /\ \A f \in PlanKeys \ {"entities"} : final[f] = bound[f]
    BY <1>8, <2>1 DEF PlanKeys
  <2>4. \A f \in PlanKeys \ {"selection", "entities", "objectives"} : final[f] = kept[f]
    BY <1>8, <2>3
  <2>5. ToSet(SelectedOf(final)) = {}
    <3>1. final.entities \in Seq(ToSet(final.entities))
      BY <1>10, <2>3
    <3>2. ToSet(SelectedOf(final)) = {e \in ToSet(final.entities) : IsSelected(e)}
      BY <3>1, SelectedFacts
    <3>3. QED
      BY <1>10, <2>3, <3>2
  <2>6. Ids(SelectedOf(final)) = {}
    BY <2>5 DEF Ids
  <2>7. DOMAIN P.res = Ids(SelectedOf(P.plan)) /\ \A id \in DOMAIN P.res : IsResolution(P.res[id])
    BY <1>3, <2>2, <2>6
  <2>8. \/ P.plan.selection = kept.selection
        \/ /\ kept.selection = NoExpr
           /\ \E id : P.plan.selection = [kind |-> "entity_ref", entity |-> id]
    BY <1>3, <1>8, <2>3
  <2>9. P.plan.entities = rest
    BY <1>3, <2>3
  <2>10. IsProjected(P, kept)
    BY <1>3, <1>4, <1>10, <1>5a, <2>3, <2>4, <2>7, <2>8, <2>9 DEF IsProjected
  <2>11. QED
    BY <2>10 DEF P
<1>12. CASE ~ redundant
  <2>1. final = bound /\ P.res = res
    BY <1>3, <1>12
  <2> HIDE DEF final, redundant
  <2>2. SelectedOf(final) = SelectedOf(kept)
    BY <1>9, <2>1 DEF SelectedOf
  <2>3. DOMAIN P.res = Ids(SelectedOf(P.plan)) /\ \A id \in DOMAIN P.res : IsResolution(P.res[id])
    BY <1>3, <2>1, <2>2
  <2>4. \/ P.plan.selection = kept.selection
        \/ /\ kept.selection = NoExpr
           /\ \E id : P.plan.selection = [kind |-> "entity_ref", entity |-> id]
    BY <1>3, <1>8, <2>1
  <2>5. DOMAIN P.plan = PlanKeys
        /\ \A f \in PlanKeys \ {"selection", "entities", "objectives"} : P.plan[f] = kept[f]
    BY <1>3, <1>8, <2>1
  <2>6. P.plan.entities = kept.entities /\ P.plan.objectives = objectives
    BY <1>3, <1>8, <1>9, <2>1
  <2>7. Len(P.plan.entities) <= Len(kept.entities)
    <3>1. Len(kept.entities) \in Nat
      BY ToSetMember
    <3>2. QED
      BY <2>6, <3>1
  <2>8. IsProjected(P, kept)
    BY <1>4, <1>5a, <2>3, <2>4, <2>5, <2>6, <2>7 DEF IsProjected
  <2>9. QED
    BY <2>8 DEF P
<1>13. QED
  BY <1>11, <1>12

LEMMA ProjectFacts ==
  ASSUME NEW plan, DOMAIN plan = PlanKeys, plan.entities \in Seq(ToSet(plan.entities)),
         plan.objectives \in Seq(ToSet(plan.objectives)), NEW res, NEW overrides,
         Project(plan, res, overrides).issue = "none"
  PROVE  IsProjected(Project(plan, res, overrides), plan)
<1> DEFINE isOrphan(e) == Orphan(plan, e, res, WantedCategories(plan))
           orphans == {e.id : e \in {x \in ToSet(plan.entities) : isOrphan(x)}}
           at == {i \in DOMAIN plan.entities : plan.entities[i].id \notin orphans}
           es == Chosen(plan.entities, at)
           kept == [plan EXCEPT !.entities = es]
           now == Resolve(kept, overrides)
           P == ProjectKept(kept, now, orphans, WantedCategories(plan))
<1>1. Project(plan, res, overrides) = P
  BY DEF Project, WithoutOrphans
<1>2. P.issue = "none"
  BY <1>1
<1> HIDE DEF P, now, kept, orphans
<1>3. /\ es \in Seq(ToSet(es)) /\ ToSet(es) \subseteq ToSet(plan.entities)
      /\ Len(es) <= Len(plan.entities) /\ Len(es) \in Nat /\ Len(plan.entities) \in Nat
  <2>1. \A i \in DOMAIN plan.entities : plan.entities[i] \in ToSet(plan.entities)
    BY ToSetMember
  <2>2. /\ es \in Seq(ToSet(plan.entities))
        /\ ToSet(es) = {plan.entities[i] : i \in at \cap DOMAIN plan.entities}
        /\ Len(es) <= Len(plan.entities)
    BY ChosenFacts
  <2> HIDE DEF es, at
  <2>3. QED
    BY <2>1, <2>2, ToSetMember
<1> HIDE DEF es
<1>4. /\ DOMAIN kept = PlanKeys /\ kept.entities = es
      /\ \A f \in PlanKeys \ {"entities"} : kept[f] = plan[f]
  BY DEF kept, PlanKeys
<1>5. kept.objectives = plan.objectives /\ kept.selection = plan.selection
  BY <1>4 DEF PlanKeys
<1>6. DOMAIN now = Ids(SelectedOf(kept)) /\ \A id \in DOMAIN now : IsResolution(now[id])
  BY ResolveFacts DEF now
<1>7. IsProjected(P, kept)
  BY <1>2, <1>3, <1>4, <1>5, <1>6, ProjectKeptFacts DEF P
<1>8. Len(P.plan.entities) <= Len(plan.entities)
  <2>1. P.plan.entities \in Seq(ToSet(P.plan.entities)) /\ Len(P.plan.entities) <= Len(es)
    BY <1>4, <1>7 DEF IsProjected
  <2>2. Len(P.plan.entities) \in Nat
    BY <2>1, ToSetMember
  <2>3. QED
    BY <1>3, <2>1, <2>2
<1>9. IsProjected(P, plan)
  BY <1>3, <1>4, <1>5, <1>7, <1>8 DEF IsProjected
<1>10. QED
  BY <1>1, <1>9

\* A plan of the model, by its expressions.
LEMMA WellFormedFacts ==
  ASSUME NEW plan, WellFormed(plan)
  PROVE  /\ DOMAIN plan = PlanKeys
         /\ \A x \in Expressions(plan) : Opt(x, 6)
         /\ plan.entities \in Seq(ToSet(plan.entities)) /\ Len(plan.entities) <= 3
         /\ plan.objectives \in Seq(ToSet(plan.objectives))
         /\ plan.sort \in DOMAIN SortGoals \cup {"relevance"} /\ plan.limit \in 1 .. 3
         /\ \A e \in ToSet(plan.entities) : IsEntity(e)
<1>1. ASSUME NEW x \in Expressions(plan)
      PROVE  Opt(x, 6)
  <2>1. x = NoExpr \/ (WellShaped(x) /\ Within(x, 6))
    BY DEF WellFormed
  <2>2. 6 \in 1 .. MaxDepth
    BY DepthNat
  <2>3. QED
    BY <2>1, <2>2 DEF Opt, Tree
<1>2. QED
  BY <1>1 DEF WellFormed

\* What the compilation starts from: the conditions of the plan, with values
\* of the catalogue.
LEMMA GroundPlanFacts ==
  ASSUME NEW source, WellFormed(source)
  PROVE  /\ DOMAIN Canonicalized(GroundPlan(source).plan) = PlanKeys
         /\ \A f \in PlanKeys \ {"selection", "filter", "preference"} :
              Canonicalized(GroundPlan(source).plan)[f] = source[f]
         /\ \A x \in Expressions(Canonicalized(GroundPlan(source).plan)) : Opt(x, 7)
         /\ \A q \in AllPredicates(Canonicalized(GroundPlan(source).plan)) :
              \E p \in AllPredicates(source) : Traced(q, p)
         /\ ~ GroundPlan(source).issue =>
              \A q \in AllPredicates(Canonicalized(GroundPlan(source).plan)) : SettledPredicate(q)
<1> DEFINE s == Ground(source.selection)
           f == Ground(source.filter)
           r == Ground(source.preference)
           g == GroundPlan(source)
           plan == Canonicalized(g.plan)
           issues == s.issues \cup f.issues \cup r.issues
           decided == {i \in issues : Unmapped(i) /\ i.op \in {"eq", "in"}}
           pruned == Pruned(s.expr, Ids(SelectedOf(g.plan)))
<1>1. /\ g.plan = [source EXCEPT !.selection = s.expr, !.filter = f.expr, !.preference = r.expr]
      /\ g.issue = (issues \ decided # {})
  BY DEF GroundPlan, GroundedPlan
<1>2. DOMAIN source = PlanKeys /\ Opt(source.selection, 6) /\ Opt(source.filter, 6)
      /\ Opt(source.preference, 6)
  BY WellFormedFacts DEF Expressions
<1> DEFINE Said(x, y) == /\ Opt(x.expr, 7)
                         /\ \A q \in PredicatesOf(x.expr) : \E p \in PredicatesOf(y) : Traced(q, p)
                         /\ (\A i \in x.issues : Unmapped(i)) =>
                              \A q \in PredicatesOf(x.expr) : SettledPredicate(q)
<1>3. Said(s, source.selection) /\ Said(f, source.filter) /\ Said(r, source.preference)
  <2>1. 6 \in 1 .. MaxDepth /\ 6 < MaxDepth /\ 6 + 1 = 7
    BY DepthNat
  <2>2. ASSUME NEW e, Opt(e, 6)
        PROVE  Said(Ground(e), e)
    <3>1. Opt(Ground(e).expr, 6 + 1)
      BY <2>1, <2>2, GroundOpt
    <3>2. Opt(Ground(e).expr, 7)
      BY <2>1, <3>1
    <3>3. \A q \in PredicatesOf(Ground(e).expr) : \E p \in PredicatesOf(e) : Traced(q, p)
      BY <2>1, <2>2, GroundOpt
    <3>4. (\A i \in Ground(e).issues : Unmapped(i)) =>
              \A q \in PredicatesOf(Ground(e).expr) : SettledPredicate(q)
      BY <2>1, <2>2, GroundOpt
    <3>5. QED
      BY <3>2, <3>3, <3>4
  <2> HIDE DEF Said
  <2>3. QED
    BY <1>2, <2>2
<1> HIDE DEF s, f, r, g
<1>4. Opt(pruned, 7) /\ PredicatesOf(pruned) \subseteq PredicatesOf(s.expr)
  <2>1. CASE s.expr = NoExpr
    BY <2>1, PrunedNothing, NothingSaid DEF Opt
  <2>2. CASE Tree(s.expr, 7)
    BY <2>2, PrunedFacts
  <2>3. QED
    BY <1>3, <2>1, <2>2 DEF Opt
<1>5. plan = [g.plan EXCEPT !.selection = pruned]
  <2>1. g.plan.selection = s.expr
    BY <1>1, <1>2 DEF PlanKeys
  <2>2. QED
    BY <2>1 DEF Canonicalized
<1> HIDE DEF plan, pruned
<1>6. /\ DOMAIN plan = PlanKeys
      /\ plan.selection = pruned /\ plan.filter = f.expr /\ plan.preference = r.expr
  BY <1>1, <1>2, <1>5 DEF PlanKeys
<1>7. \A k \in PlanKeys \ {"selection", "filter", "preference"} : plan[k] = source[k]
  BY <1>1, <1>2, <1>5 DEF PlanKeys
<1>8. Expressions(plan) = {pruned, f.expr, r.expr}
      /\ AllPredicates(plan) = PredicatesOf(pruned) \cup PredicatesOf(f.expr)
                                 \cup PredicatesOf(r.expr)
  BY <1>6 DEF Expressions, AllPredicates
<1>9. AllPredicates(source) = PredicatesOf(source.selection) \cup PredicatesOf(source.filter)
                                \cup PredicatesOf(source.preference)
  BY DEF Expressions, AllPredicates
<1>10. \A x \in Expressions(plan) : Opt(x, 7)
  BY <1>3, <1>4, <1>8
<1>11. \A q \in AllPredicates(plan) : \E p \in AllPredicates(source) : Traced(q, p)
  BY <1>3, <1>4, <1>8, <1>9
<1>12. ASSUME ~ g.issue
       PROVE  \A q \in AllPredicates(plan) : SettledPredicate(q)
  <2>1. \A i \in issues : Unmapped(i)
    BY <1>1, <1>12
  <2>2. /\ \A i \in s.issues : Unmapped(i)
        /\ \A i \in f.issues : Unmapped(i)
        /\ \A i \in r.issues : Unmapped(i)
    BY <2>1
  <2>3. QED
    BY <1>3, <1>4, <1>8, <2>2
<1>13. QED
  BY <1>6, <1>7, <1>10, <1>11, <1>12 DEF plan, g

\* A compilation that is searched for: what was checked, and the plan left.
Sound(c, source) ==
  /\ DOMAIN c.plan = PlanKeys
  /\ \A f \in PlanKeys \ {"selection", "filter", "preference", "entities", "objectives"} :
       c.plan[f] = source[f]
  /\ \A x \in Expressions(c.plan) : Opt(x, 7)
  /\ \A q \in AllPredicates(c.plan) :
       /\ SettledPredicate(q)
       /\ \E p \in AllPredicates(source) : Traced(q, p) /\ HasEvidence(p, "predicate")
  /\ c.plan.entities \in Seq(ToSet(c.plan.entities))
  /\ ToSet(c.plan.entities) \subseteq ToSet(source.entities) /\ Len(c.plan.entities) <= 3
  /\ c.plan.objectives \in Seq(ToSet(c.plan.objectives))
  /\ ToSet(c.plan.objectives) \subseteq ToSet(source.objectives)
  /\ \A o \in ToSet(c.plan.objectives) : o.field \in NumericFields
  /\ DOMAIN c.res = Ids(SelectedOf(c.plan))
  /\ \A id \in DOMAIN c.res : IsResolution(c.res[id])
  /\ FieldsSupported(c.plan) /\ MemoryHolds(c.plan, c.res) /\ NumbersHold(c.plan)
  /\ TypesHold(c.plan) /\ ~ MixedSelection(c.plan.selection)
  /\ c.args = ArgumentsOf(c.plan, c.res)
  /\ \A a \in ToSet(c.args) : ValidArguments(a)

LEMMA CompileFacts ==
  ASSUME NEW source, WellFormed(source), NEW overrides, Compile(source, overrides).status = "run"
  PROVE  Sound(Compile(source, overrides), source)
<1> DEFINE c == Compile(source, overrides)
           g == GroundPlan(source)
           first == Canonicalized(g.plan)
           res == Resolve(first, overrides)
           proj == Project(first, res, overrides)
<1>1. c = CompileProjected(source, g, res, proj)
  BY DEF Compile, CompileGrounded
<1>2. c.status = "run"
  OBVIOUS
<1>3. /\ DOMAIN first = PlanKeys
      /\ \A f \in PlanKeys \ {"selection", "filter", "preference"} : first[f] = source[f]
      /\ \A x \in Expressions(first) : Opt(x, 7)
      /\ \A q \in AllPredicates(first) : \E p \in AllPredicates(source) : Traced(q, p)
      /\ ~ g.issue => \A q \in AllPredicates(first) : SettledPredicate(q)
  BY GroundPlanFacts
<1> HIDE DEF c, g, first, res, proj
<1> DEFINE plan == proj.plan
           now == proj.res
<1>4. /\ EvidenceHolds(source, res, proj.droppedEntities, proj.droppedFields)
      /\ FieldsSupported(plan) /\ MemoryHolds(plan, now) /\ NumbersHold(plan)
      /\ proj.issue = "none" /\ ~ g.issue /\ TypesHold(plan)
      /\ ~ MixedSelection(plan.selection)
      /\ \A a \in ToSet(ArgumentsOf(plan, now)) : ValidArguments(a)
      /\ c = Compilation(plan, now, "run", "none", ArgumentsOf(plan, now))
  BY <1>1, <1>2, Zenon DEF CompileProjected, Compilation
<1>5. /\ first.entities = source.entities /\ first.objectives = source.objectives
  BY <1>3 DEF PlanKeys
<1>6. /\ first.entities \in Seq(ToSet(first.entities))
      /\ first.objectives \in Seq(ToSet(first.objectives))
  BY <1>5, WellFormedFacts
<1>7. IsProjected(proj, first)
  BY <1>3, <1>4, <1>6, ProjectFacts DEF proj
<1>8. c.plan = plan /\ c.res = now /\ c.args = ArgumentsOf(plan, now)
  BY <1>4 DEF Compilation
<1>9. /\ plan.filter = first.filter /\ plan.preference = first.preference
  BY <1>7 DEF IsProjected, PlanKeys
<1>10. /\ PredicatesOf(plan.selection) = PredicatesOf(first.selection)
       /\ Opt(plan.selection, 7)
  <2>1. CASE plan.selection = first.selection
    BY <1>3, <2>1 DEF Expressions
  <2>2. ASSUME NEW id, first.selection = NoExpr,
               plan.selection = [kind |-> "entity_ref", entity |-> id]
        PROVE  PredicatesOf(plan.selection) = PredicatesOf(first.selection)
               /\ Opt(plan.selection, 7)
    <3> DEFINE x == [kind |-> "entity_ref", entity |-> id]
    <3>1. Kids(x) = <<>> /\ x.kind = "entity_ref"
      BY DEF Kids
    <3> HIDE DEF x
    <3>2. Shaped(x)
      BY <3>1 DEF Shaped, ToSet
    <3>3. ToSet(Kids(x)) = {}
      BY <3>1 DEF ToSet
    <3>4. 1 \in 1 .. MaxDepth /\ 7 \in 1 .. MaxDepth /\ 1 <= 7
      BY DepthNat
    <3>5. Tree(x, 1)
      BY <3>2, <3>3, <3>4, TreeBuilt
    <3>6. Tree(x, 7)
      BY <3>4, <3>5, TreeMore
    <3>7. PredicatesOf(x) = {}
      BY <3>1, <3>3, <3>5, TreeFits, PartsSay
    <3>8. QED
      BY <2>2, <3>6, <3>7, NothingSaid DEF x, Opt
  <2>3. QED
    BY <1>7, <2>1, <2>2 DEF IsProjected
<1>11. AllPredicates(plan) = AllPredicates(first)
  BY <1>9, <1>10 DEF AllPredicates, Expressions
<1>12. \A x \in Expressions(plan) : Opt(x, 7)
  BY <1>3, <1>9, <1>10 DEF Expressions
<1>13. ASSUME NEW q \in AllPredicates(plan)
       PROVE  /\ SettledPredicate(q)
              /\ \E p \in AllPredicates(source) : Traced(q, p) /\ HasEvidence(p, "predicate")
  <2>1. \A p \in AllPredicates(source) : HasEvidence(p, "predicate")
    BY <1>4 DEF EvidenceHolds
  <2>2. QED
    BY <1>3, <1>4, <1>11, <2>1
<1>14. \A f \in PlanKeys \ {"selection", "filter", "preference", "entities", "objectives"} :
         plan[f] = source[f]
  BY <1>3, <1>7 DEF IsProjected
<1>15. /\ DOMAIN plan = PlanKeys
       /\ plan.entities \in Seq(ToSet(plan.entities))
       /\ ToSet(plan.entities) \subseteq ToSet(source.entities)
       /\ plan.objectives \in Seq(ToSet(plan.objectives))
       /\ ToSet(plan.objectives) \subseteq ToSet(source.objectives)
       /\ \A o \in ToSet(plan.objectives) : o.field \in NumericFields
       /\ DOMAIN now = Ids(SelectedOf(plan))
       /\ \A id \in DOMAIN now : IsResolution(now[id])
  BY <1>5, <1>7 DEF IsProjected
<1>16. Len(plan.entities) <= 3
  <2>1. Len(plan.entities) <= Len(source.entities) /\ Len(source.entities) <= 3
    BY <1>5, <1>7, WellFormedFacts DEF IsProjected
  <2>2. Len(plan.entities) \in Nat /\ Len(source.entities) \in Nat
    BY <1>5, <1>6, <1>15, ToSetMember
  <2>3. QED
    BY <2>1, <2>2
<1> HIDE DEF plan, now
<1>17. Sound(c, source)
  BY <1>4, <1>8, <1>12, <1>13, <1>14, <1>15, <1>16 DEF Sound
<1>18. QED
  BY <1>17 DEF c

-----------------------------------------------------------------------------
(***************************************************************************)
(* What is asked of Qdrant for a plan                                      *)
(***************************************************************************)

LEMMA MinOfTwo ==
  ASSUME NEW i \in Int, NEW j \in Int
  PROVE  Min({i, j}) = IF i <= j THEN i ELSE j
<1>1. CASE i <= j
  <2>1. i \in {i, j} /\ \A y \in {i, j} : i <= y
    BY <1>1
  <2>2. \A x \in {i, j} : (\A y \in {i, j} : x <= y) => x = i
    BY <1>1
  <2>3. QED
    BY <1>1, <2>1, <2>2 DEF Min
<1>2. CASE ~ (i <= j)
  <2>1. j \in {i, j} /\ \A y \in {i, j} : j <= y
    BY <1>2
  <2>2. \A x \in {i, j} : (\A y \in {i, j} : x <= y) => x = j
    BY <1>2
  <2>3. QED
    BY <1>2, <2>1, <2>2 DEF Min
<1>3. QED
  BY <1>1, <1>2

\* The filter of a plan before it is split into branches.
ByEntity(plan, res) ==
  IF plan.op = "compare" \/ plan.selection.kind \notin {"all_of", "any_of"}
  THEN NoExpr ELSE SelectionAsFilter(plan.selection, SelectedOf(plan), res)

WholeFilter(plan, res) ==
  Conjoin(Conjoin(plan.filter, SelectionFilter(plan.selection)), ByEntity(plan, res))

\* The arguments for a branch and an entity of the plan, or for none.
ArgumentFor(plan, res, b, e) ==
  ArgumentsFor(plan, b, e, IF e = Nobody THEN Unresolved ELSE res[e.id])

\* The entities searched for in turn are entities of the plan.
LEMMA SelectionBranchesFacts ==
  ASSUME NEW x, NEW n, Opt(x, n), NEW entities, entities \in Seq(ToSet(entities))
  PROVE  /\ SelectionBranches(x, entities) \in Seq({Nobody} \cup ToSet(entities))
         /\ SelectionBranches(x, entities) # <<>>
<1> DEFINE options == IF x.kind = "fallback" THEN Kids(x) ELSE <<x>>
           isRef(k) == k.kind = "entity_ref" /\ k.entity \in Ids(entities)
           at == {i \in DOMAIN options : isRef(options[i])}
           refs == Chosen(options, at)
           entity(id) == CHOOSE e \in ToSet(entities) : e.id = id
           s == SelectionBranches(x, entities)
           E == {Nobody} \cup ToSet(entities)
<1>1. s = IF refs # <<>> THEN [i \in DOMAIN refs |-> entity(refs[i].entity)]
          ELSE IF entities # <<>> THEN <<Last(entities)>>
          ELSE <<Nobody>>
  BY DEF SelectionBranches
<1>2. options \in Seq(ToSet(options))
  <2>1. CASE x.kind = "fallback"
    <3>1. x # NoExpr
      BY <2>1, NoKids
    <3>2. Kids(x) \in Seq(ToSet(Kids(x)))
      BY <3>1, TreeKinds DEF Opt
    <3>3. QED
      BY <2>1, <3>2
  <2>2. CASE x.kind # "fallback"
    BY <2>2, SingleFacts
  <2>3. QED
    BY <2>1, <2>2
<1> HIDE DEF options
<1>3. /\ refs \in Seq(ToSet(options))
      /\ ToSet(refs) = {options[i] : i \in at \cap DOMAIN options}
  BY <1>2, ChosenFacts
<1>4. refs \in Seq(ToSet(refs)) /\ \A i \in DOMAIN refs : isRef(refs[i])
  <2>1. \A k \in ToSet(refs) : isRef(k)
    BY <1>3
  <2> HIDE DEF isRef
  <2>2. refs \in Seq(ToSet(refs)) /\ \A i \in DOMAIN refs : refs[i] \in ToSet(refs)
    BY <1>3, ToSetMember
  <2>3. QED
    BY <2>1, <2>2
<1> HIDE DEF refs, s
<1>5. CASE refs # <<>>
  <2> DEFINE t == [i \in DOMAIN refs |-> entity(refs[i].entity)]
  <2>1. s = t
    BY <1>1, <1>5
  <2>2. \A i \in DOMAIN refs : t[i] \in ToSet(entities)
    <3>1. SUFFICES ASSUME NEW i \in DOMAIN refs PROVE t[i] \in ToSet(entities)
      OBVIOUS
    <3>2. refs[i].entity \in Ids(entities)
      BY <1>4
    <3>3. entity(refs[i].entity) \in ToSet(entities)
      BY <3>2, EntityThere
    <3>4. QED
      BY <3>3
  <2>3. t = [i \in DOMAIN refs |-> t[i]]
    OBVIOUS
  <2> HIDE DEF t
  <2>4. Len(refs) \in Nat /\ DOMAIN refs = 1 .. Len(refs)
    BY <1>4, ToSetMember
  <2>5. t \in Seq(E) /\ t # <<>>
    <3>1. t \in [1 .. Len(refs) -> E]
      BY <2>2, <2>3, <2>4
    <3>2. t \in Seq(E)
      BY <2>4, <3>1, SeqDef
    <3>3. Len(refs) # 0
      BY <1>4, <1>5, EmptySeq
    <3>4. DOMAIN t = 1 .. Len(refs) /\ 1 \in DOMAIN t
      BY <2>3, <2>4, <3>3
    <3>5. QED
      BY <3>2, <3>4
  <2>6. QED
    BY <2>1, <2>5 DEF s
<1>6. CASE refs = <<>> /\ entities # <<>>
  <2>1. s = <<Last(entities)>>
    BY <1>1, <1>6
  <2>2. Len(entities) \in DOMAIN entities
    BY <1>6, ToSetMember
  <2>3. Last(entities) \in ToSet(entities)
    BY <2>2, ToSetMember DEF Last
  <2>4. QED
    BY <2>1, <2>3 DEF s
<1>7. CASE refs = <<>> /\ entities = <<>>
  <2>1. s = <<Nobody>>
    BY <1>1, <1>7
  <2>2. QED
    BY <2>1 DEF s
<1>8. QED
  BY <1>5, <1>6, <1>7

EachPicked(plan, res) ==
  \A i \in DOMAIN ArgumentsOf(plan, res) :
    \E j \in DOMAIN FallbackBranches(WholeFilter(plan, res)) :
      \E e \in {Nobody} \cup ToSet(SelectedOf(plan)) :
        ArgumentsOf(plan, res)[i]
          = ArgumentFor(plan, res, FallbackBranches(WholeFilter(plan, res))[j], e)

\* Every search of a plan is for a branch of its filter and an entity of its
\* selection, or for none.
LEMMA ArgumentsShape ==
  ASSUME NEW plan, NEW res, plan.entities \in Seq(ToSet(plan.entities)),
         NEW n, Opt(plan.selection, n),
         FallbackBranches(WholeFilter(plan, res))
           \in Seq(ToSet(FallbackBranches(WholeFilter(plan, res)))),
         FallbackBranches(WholeFilter(plan, res)) # <<>>
  PROVE  EachPicked(plan, res)
<1> DEFINE entities == SelectedOf(plan)
           byEntity == ByEntity(plan, res)
           branches == FallbackBranches(WholeFilter(plan, res))
           chosen == SelectionBranches(plan.selection, entities)
           args(i, e) == ArgumentFor(plan, res, branches[Min({i, Len(branches)})], e)
           E == {Nobody} \cup ToSet(entities)
           Fine(s) == \A i \in DOMAIN s : \E j \in DOMAIN branches : \E e \in E :
                        s[i] = ArgumentFor(plan, res, branches[j], e)
<1>1. ArgumentsOf(plan, res)
        = IF plan.op = "compare" THEN [i \in DOMAIN entities |-> args(1, entities[i])]
          ELSE IF byEntity # NoExpr \/ Represented(plan, entities)
               THEN [i \in DOMAIN branches |-> args(i, Nobody)]
          ELSE IF Len(chosen) > 1 THEN [i \in DOMAIN chosen |-> args(i, chosen[i])]
          ELSE [i \in DOMAIN branches |-> args(i, chosen[1])]
  BY DEF ArgumentsOf, ByEntity, WholeFilter, ArgumentFor
<1>2. entities \in Seq(ToSet(entities))
  BY SelectedFacts
<1>3. chosen \in Seq(E) /\ chosen # <<>>
  BY <1>2, SelectionBranchesFacts
<1>4. Len(branches) \in Nat /\ Len(branches) # 0 /\ DOMAIN branches = 1 .. Len(branches)
  BY ToSetMember
<1> HIDE DEF entities, byEntity, branches, chosen
<1>5. /\ DOMAIN entities = 1 .. Len(entities) /\ \A i \in DOMAIN entities : entities[i] \in E
      /\ Len(entities) \in Nat
  BY <1>2, ToSetMember
<1>6. /\ DOMAIN chosen = 1 .. Len(chosen) /\ \A i \in DOMAIN chosen : chosen[i] \in E
      /\ Len(chosen) \in Nat /\ Len(chosen) # 0
  BY <1>3
<1>7. ASSUME NEW i \in Nat, i # 0, NEW e \in E
      PROVE  \E j \in DOMAIN branches : args(i, e) = ArgumentFor(plan, res, branches[j], e)
  <2>1. Min({i, Len(branches)}) = IF i <= Len(branches) THEN i ELSE Len(branches)
    BY <1>4, MinOfTwo
  <2>2. Min({i, Len(branches)}) \in DOMAIN branches
    BY <1>4, <1>7, <2>1
  <2>3. QED
    BY <2>2
<1> HIDE DEF args, E
<1>8. ASSUME NEW s, s = [i \in DOMAIN entities |-> args(1, entities[i])]
      PROVE  Fine(s)
  <2>1. SUFFICES ASSUME NEW i \in DOMAIN s
                 PROVE  \E j \in DOMAIN branches : \E e \in E :
                          s[i] = ArgumentFor(plan, res, branches[j], e)
    BY Zenon
  <2>2. i \in DOMAIN entities /\ s[i] = args(1, entities[i]) /\ entities[i] \in E
    BY <1>5, <1>8
  <2>3. PICK j \in DOMAIN branches : args(1, entities[i]) = ArgumentFor(plan, res, branches[j], entities[i])
    BY <1>7, <2>2
  <2>4. QED
    BY <2>2, <2>3
<1>9. ASSUME NEW s, NEW e \in E, s = [i \in DOMAIN branches |-> args(i, e)]
      PROVE  Fine(s)
  <2>1. SUFFICES ASSUME NEW i \in DOMAIN s
                 PROVE  \E j \in DOMAIN branches : \E k \in E :
                          s[i] = ArgumentFor(plan, res, branches[j], k)
    BY Zenon
  <2>2. i \in DOMAIN branches /\ s[i] = args(i, e)
    BY <1>9
  <2>3. i \in Nat /\ i # 0
    BY <1>4, <2>2
  <2>4. PICK j \in DOMAIN branches : args(i, e) = ArgumentFor(plan, res, branches[j], e)
    BY <1>7, <2>3
  <2>5. QED
    BY <2>2, <2>4
<1>10. ASSUME NEW s, s = [i \in DOMAIN chosen |-> args(i, chosen[i])]
       PROVE  Fine(s)
  <2>1. SUFFICES ASSUME NEW i \in DOMAIN s
                 PROVE  \E j \in DOMAIN branches : \E e \in E :
                          s[i] = ArgumentFor(plan, res, branches[j], e)
    BY Zenon
  <2>2. i \in DOMAIN chosen /\ s[i] = args(i, chosen[i]) /\ chosen[i] \in E
    BY <1>6, <1>10
  <2>3. i \in Nat /\ i # 0
    BY <1>6, <2>2
  <2>4. PICK j \in DOMAIN branches : args(i, chosen[i]) = ArgumentFor(plan, res, branches[j], chosen[i])
    BY <1>7, <2>2, <2>3
  <2>5. QED
    BY <2>2, <2>4
<1>11. Nobody \in E /\ chosen[1] \in E
  BY <1>6 DEF E
<1>12. Fine(ArgumentsOf(plan, res))
  <2> HIDE DEF Fine
  <2>1. QED
    BY <1>1, <1>8, <1>9, <1>10, <1>11
<1>13. QED
  BY <1>12 DEF E, branches, entities, EachPicked

\* The filter a plan is split by, which is one level deeper for each of its
\* conjunctions.
LEMMA WholeFilterFacts ==
  ASSUME NEW c, NEW source, Sound(c, source)
  PROVE  /\ Opt(WholeFilter(c.plan, c.res), 9)
         /\ PredicatesOf(WholeFilter(c.plan, c.res))
              = PredicatesOf(c.plan.filter) \cup PredicatesOf(c.plan.selection)
                  \cup PredicatesOf(ByEntity(c.plan, c.res))
         /\ \A p \in PredicatesOf(ByEntity(c.plan, c.res)) :
              \E e \in ToSet(SelectedOf(c.plan)) : StandsFor(p, e, c.res[e.id])
<1> DEFINE x == c.plan.selection
           by == ByEntity(c.plan, c.res)
           entities == SelectedOf(c.plan)
<1>1. Opt(c.plan.filter, 7) /\ Opt(x, 7)
  BY DEF Sound, Expressions
<1>2. 7 \in 1 .. MaxDepth /\ 8 \in 1 .. MaxDepth /\ 7 <= 8 /\ 7 + 1 = 8 /\ 8 + 1 = 9
      /\ 7 < MaxDepth /\ 8 < MaxDepth
  BY DepthNat
<1>3. Opt(SelectionFilter(x), 7) /\ PredicatesOf(SelectionFilter(x)) = PredicatesOf(x)
  BY <1>1, SelectionFilterFacts
<1>4. /\ Opt(Conjoin(c.plan.filter, SelectionFilter(x)), 7 + 1)
      /\ PredicatesOf(Conjoin(c.plan.filter, SelectionFilter(x)))
           = PredicatesOf(c.plan.filter) \cup PredicatesOf(SelectionFilter(x))
  BY <1>1, <1>2, <1>3, ConjoinFacts
<1>5. \A e \in ToSet(entities) : IsResolution(c.res[e.id])
  BY DEF Sound, Ids
<1>6. /\ Opt(by, 7)
      /\ \A p \in PredicatesOf(by) : \E e \in ToSet(entities) : StandsFor(p, e, c.res[e.id])
  <2>1. CASE by = NoExpr
    BY <2>1, NothingSaid DEF Opt
  <2>2. CASE by # NoExpr
    <3>1. by = SelectionAsFilter(x, entities, c.res) /\ x.kind \in {"all_of", "any_of"}
      BY <2>2 DEF ByEntity
    <3>2. x # NoExpr
      BY <3>1, NoKids
    <3>3. Tree(x, 7)
      BY <1>1, <3>2 DEF Opt
    <3> HIDE DEF by, entities, x
    <3>4. QED
      BY <1>5, <3>1, <3>3, SelectionAsFilterFacts
  <2>3. QED
    BY <2>1, <2>2
<1>7. Opt(by, 8)
  BY <1>2, <1>6, OptMore
<1> HIDE DEF by, x, entities
<1>8. /\ Opt(Conjoin(Conjoin(c.plan.filter, SelectionFilter(x)), by), 8 + 1)
      /\ PredicatesOf(Conjoin(Conjoin(c.plan.filter, SelectionFilter(x)), by))
           = PredicatesOf(Conjoin(c.plan.filter, SelectionFilter(x))) \cup PredicatesOf(by)
  BY <1>2, <1>4, <1>7, ConjoinFacts
<1>9. WholeFilter(c.plan, c.res) = Conjoin(Conjoin(c.plan.filter, SelectionFilter(x)), by)
  BY DEF WholeFilter, by, x
<1>10. QED
  BY <1>2, <1>3, <1>4, <1>6, <1>8, <1>9 DEF by, x, entities

\* The branches of a filter or of none.
LEMMA OptBranches ==
  ASSUME NEW x, NEW n, Opt(x, n)
  PROVE  /\ FallbackBranches(x) \in Seq(ToSet(FallbackBranches(x)))
         /\ FallbackBranches(x) # <<>>
         /\ \A j \in DOMAIN FallbackBranches(x) :
              /\ Opt(FallbackBranches(x)[j], n)
              /\ PredicatesOf(FallbackBranches(x)[j]) \subseteq PredicatesOf(x)
<1>1. CASE x = NoExpr
  <2>1. FallbackBranches(x) = <<NoExpr>>
    BY <1>1, BranchesNothing
  <2>2. QED
    BY <1>1, <2>1, SingleFacts DEF Opt
<1>2. CASE Tree(x, n)
  <2>1. IsBranches(FallbackBranches(x), x, n)
    BY <1>2, BranchesFacts
  <2>2. QED
    BY <2>1, ToSetMember DEF IsBranches, Opt
<1>3. QED
  BY <1>1, <1>2 DEF Opt

\* Every search of a plan is for a branch of its filter, and for an entity of
\* its selection or for none.
LEMMA ArgumentsPicked ==
  ASSUME NEW c, NEW source, WellFormed(source), Sound(c, source), NEW a \in ToSet(c.args)
  PROVE  \E b \in ToSet(FallbackBranches(WholeFilter(c.plan, c.res))) :
           \E e \in {Nobody} \cup ToSet(SelectedOf(c.plan)) :
             /\ Opt(b, 9) /\ PredicatesOf(b) \subseteq PredicatesOf(WholeFilter(c.plan, c.res))
             /\ e # Nobody => IsResolution(c.res[e.id]) /\ IsEntity(e)
             /\ a = ArgumentFor(c.plan, c.res, b, e)
<1> DEFINE x == WholeFilter(c.plan, c.res)
           branches == FallbackBranches(x)
           entities == SelectedOf(c.plan)
<1>1. Opt(x, 9)
  BY WholeFilterFacts
<1>2. /\ branches \in Seq(ToSet(branches)) /\ branches # <<>>
      /\ \A j \in DOMAIN branches : /\ Opt(branches[j], 9)
                                    /\ PredicatesOf(branches[j]) \subseteq PredicatesOf(x)
  <2> HIDE DEF x
  <2>1. QED
    BY <1>1, OptBranches
<1>3. c.plan.entities \in Seq(ToSet(c.plan.entities)) /\ Opt(c.plan.selection, 7)
  BY DEF Sound, Expressions
<1>4. c.args = ArgumentsOf(c.plan, c.res)
  BY DEF Sound
<1>5. PICK i \in DOMAIN c.args : a = c.args[i]
  BY DEF ToSet
<1>6. \E j \in DOMAIN branches : \E e \in {Nobody} \cup ToSet(entities) :
        a = ArgumentFor(c.plan, c.res, branches[j], e)
  <2> HIDE DEF entities, branches, x
  <2>1. /\ FallbackBranches(WholeFilter(c.plan, c.res))
             \in Seq(ToSet(FallbackBranches(WholeFilter(c.plan, c.res))))
        /\ FallbackBranches(WholeFilter(c.plan, c.res)) # <<>>
    BY <1>2 DEF branches, x
  <2>2. EachPicked(c.plan, c.res)
    BY <1>3, <2>1, ArgumentsShape
  <2>3. i \in DOMAIN ArgumentsOf(c.plan, c.res) /\ a = ArgumentsOf(c.plan, c.res)[i]
    BY <1>4, <1>5
  <2>4. QED
    BY <2>2, <2>3 DEF EachPicked, branches, x, entities
<1>7. PICK j \in DOMAIN branches, e \in {Nobody} \cup ToSet(entities) :
        a = ArgumentFor(c.plan, c.res, branches[j], e)
  BY <1>6
<1> DEFINE b == branches[j]
<1>8. b \in ToSet(branches) /\ Opt(b, 9) /\ PredicatesOf(b) \subseteq PredicatesOf(x)
      /\ a = ArgumentFor(c.plan, c.res, b, e)
  BY <1>2, <1>7 DEF ToSet
<1>9. ASSUME e # Nobody PROVE IsResolution(c.res[e.id]) /\ IsEntity(e)
  <2>1. e \in ToSet(entities)
    BY <1>9
  <2>2. e.id \in DOMAIN c.res
    BY <2>1 DEF Sound, Ids
  <2>3. IsResolution(c.res[e.id])
    BY <2>2 DEF Sound
  <2>4. e \in ToSet(c.plan.entities)
    BY <1>3, <2>1, SelectedFacts
  <2>5. e \in ToSet(source.entities)
    BY <2>4 DEF Sound
  <2>6. IsEntity(e)
    BY <2>5, WellFormedFacts
  <2>7. QED
    BY <2>3, <2>6
<1> HIDE DEF b
<1>10. QED
  BY <1>8, <1>9 DEF branches, x, entities

\* What a search of a plan says was in the plan, or is what one of its
\* entities was found to be.
LEMMA ArgumentsSay ==
  ASSUME NEW c, NEW source, WellFormed(source), Sound(c, source), NEW a \in ToSet(c.args)
  PROVE  /\ Opt(a.filter, MaxDepth)
         /\ \A p \in PredicatesOf(a.filter) :
              \/ p \in AllPredicates(c.plan)
              \/ \E e \in ToSet(SelectedOf(c.plan)) : StandsFor(p, e, c.res[e.id])
         /\ a.product_id # Absent =>
              \E e \in ToSet(SelectedOf(c.plan)) :
                \/ a.product_id = c.res[e.id].product
                \/ /\ a.product_id = e.raw
                   /\ c.res[e.id].product = Absent /\ c.res[e.id].status # "constraint_entity"
<1> DEFINE x == WholeFilter(c.plan, c.res)
           entities == SelectedOf(c.plan)
<1>1. /\ PredicatesOf(x) = PredicatesOf(c.plan.filter) \cup PredicatesOf(c.plan.selection)
                             \cup PredicatesOf(ByEntity(c.plan, c.res))
      /\ \A p \in PredicatesOf(ByEntity(c.plan, c.res)) :
              \E e \in ToSet(entities) : StandsFor(p, e, c.res[e.id])
  BY WholeFilterFacts
<1>2. PICK b, e :
        /\ e \in {Nobody} \cup ToSet(entities)
        /\ Opt(b, 9) /\ PredicatesOf(b) \subseteq PredicatesOf(x)
        /\ e # Nobody => IsResolution(c.res[e.id]) /\ IsEntity(e)
        /\ a = ArgumentFor(c.plan, c.res, b, e)
  BY ArgumentsPicked
<1> DEFINE r == IF e = Nobody THEN Unresolved ELSE c.res[e.id]
<1>3. a = ArgumentsFor(c.plan, b, e, r)
  BY <1>2 DEF ArgumentFor
<1>4. Opt(b, 9) /\ PredicatesOf(b) \subseteq PredicatesOf(x)
  BY <1>2
<1>5. e # Nobody => e \in ToSet(entities) /\ IsResolution(r) /\ IsEntity(e)
  BY <1>2
<1>6. e # Nobody => r = c.res[e.id]
  OBVIOUS
<1>7. 9 \in 1 .. MaxDepth /\ 9 < MaxDepth /\ 9 + 1 = MaxDepth
  BY DepthNat
<1> HIDE DEF r, x, entities
<1> DEFINE m == 9
           plan == c.plan
<1>8. m \in 1 .. MaxDepth /\ m < MaxDepth /\ Opt(b, m) /\ m + 1 = MaxDepth
  BY <1>4, <1>7
<1>9. a = ArgumentsFor(plan, b, e, r)
  BY <1>3
<1> HIDE DEF m, plan
<1>10. SearchSays(a, b, m, e, r)
  <2>1. e # Nobody => IsResolution(r) /\ IsEntity(e)
    BY <1>5
  <2>2. QED
    BY <1>8, <1>9, <2>1, ArgumentsForFacts
<1>11. ASSUME NEW p \in PredicatesOf(a.filter)
       PROVE  p \in AllPredicates(c.plan) \/ \E z \in ToSet(entities) : StandsFor(p, z, c.res[z.id])
  <2>1. CASE p \in PredicatesOf(b)
    <3>1. p \in PredicatesOf(c.plan.filter) \/ p \in PredicatesOf(c.plan.selection)
          \/ p \in PredicatesOf(ByEntity(c.plan, c.res))
      BY <1>1, <1>4, <2>1
    <3>2. QED
      BY <1>1, <3>1 DEF AllPredicates, Expressions
  <2>2. CASE e # Nobody /\ StandsFor(p, e, r)
    BY <1>5, <1>6, <2>2
  <2>3. QED
    BY <1>10, <2>1, <2>2 DEF SearchSays
<1>12. ASSUME a.product_id # Absent
       PROVE  \E z \in ToSet(entities) :
                \/ a.product_id = c.res[z.id].product
                \/ /\ a.product_id = z.raw
                   /\ c.res[z.id].product = Absent /\ c.res[z.id].status # "constraint_entity"
  BY <1>5, <1>6, <1>10, <1>12 DEF SearchSays
<1>13. QED
  BY <1>8, <1>10, <1>11, <1>12 DEF entities, SearchSays

\* Qdrant is told of a product of the catalogue what a condition of a sound
\* plan says of it.
LEMMA PredicateAgrees ==
  ASSUME NEW p, IsPredicate(p), SettledPredicate(p), p.field \in KnownFields \ {"name"},
         p.field \in NumericFields \cup BooleanFields => ToSet(p.values) \cap Texts = {},
         p.op \in Comparisons => p.field \in NumericFields,
         NEW q \in Loaded
  PROVE  Agrees(p, Products[q])
<1> DEFINE actual == Products[q][p.field]
           listed == \E v \in ToSet(p.values) : Same(actual, v)
           Key(v) == IF p.field \in NormalisedFields THEN Normal(v) ELSE v
           keyed == \E v \in ToSet(p.values) : Key(actual) = Key(v)
           negated == p.op \in {"not_eq", "not_in"}
<1>1. q \in Points /\ Absent \notin ToSet(p.values) /\ Absent \notin Texts
  BY LoadedThere, TextAssumption DEF IsPredicate
<1>2. p.op \in {"eq", "not_eq", "in", "not_in"} \cup Comparisons
  BY DEF IsPredicate
<1>3. CASE p.op \in Comparisons
  <2>1. PointMeets(p, Products[q]) <=> actual # Absent /\ Compares(p.op, actual, p.values[1])
    BY <1>3 DEF PointMeets
  <2>2. p.op \notin {"eq", "in"} /\ p.op \notin {"not_eq", "not_in"}
    BY <1>3 DEF Comparisons
  <2>3. PredicateMatches(p, Products[q])
          <=> actual # Absent /\ Compares(p.op, actual, p.values[1])
    BY <2>2 DEF PredicateMatches
  <2>4. QED
    BY <2>1, <2>2, <2>3 DEF Agrees
<1>4. CASE p.op \notin Comparisons
  <2>1. PointMeets(p, Products[q]) <=> actual # Absent /\ keyed
    BY <1>4 DEF PointMeets
  <2>2. PredicateMatches(p, Products[q]) <=> IF negated THEN ~ listed ELSE listed
    <3>1. CASE p.op \in {"eq", "in"}
      BY <3>1 DEF PredicateMatches
    <3>2. CASE p.op \in {"not_eq", "not_in"}
      <4>1. p.op \notin {"eq", "in"}
        BY <3>2
      <4>2. PredicateMatches(p, Products[q]) <=> ~ listed
        BY <3>2, <4>1 DEF PredicateMatches
      <4>3. QED
        BY <3>2, <4>2
    <3>3. QED
      BY <1>2, <1>4, <3>1, <3>2
  <2>3. listed <=> actual # Absent /\ keyed
    <3>1. p.field \in RawFields \cup NormalisedFields \cup NumericFields \cup BooleanFields
      BY DEF KnownFields
    <3>2. CASE p.field \in NormalisedFields
      <4>1. actual \in Texts
        BY <1>1, <3>2, CatalogAssumption
      <4>2. actual # Absent
        BY <1>1, <4>1
      <4>3. \A v : Key(v) = Normal(v)
        BY <3>2
      <4>4. QED
        BY <4>2, <4>3 DEF Same
    <3>3. CASE p.field \in RawFields
      <4>1. actual \in Texts /\ Normal(actual) = actual
        BY <1>1, <3>3, CatalogAssumption
      <4>2. actual # Absent
        BY <1>1, <4>1
      <4>3. \A v : Key(v) = v
        BY <3>3 DEF RawFields, NormalisedFields
      <4>4. \A v \in ToSet(p.values) : Settled(p.field, v)
        BY DEF SettledPredicate
      <4>5. \A v \in ToSet(p.values) : Normal(v) = v \/ ~ Same(actual, v)
        BY <3>3, <4>4 DEF Settled
      <4>6. \A v \in ToSet(p.values) : Same(actual, v) <=> actual = v
        BY <4>1, <4>5 DEF Same
      <4>7. QED
        BY <4>2, <4>3, <4>6
    <3>4. CASE p.field \in NumericFields \cup BooleanFields
      <4>1. actual \notin Texts
        BY <1>1, <3>4, CatalogAssumption
      <4>2. \A v \in ToSet(p.values) : v \notin Texts
        BY <3>4
      <4>3. Normal(actual) = actual /\ \A v \in ToSet(p.values) : Normal(v) = v
        BY <4>1, <4>2 DEF Normal
      <4>4. \A v : Key(v) = v
        BY <3>4 DEF NumericFields, BooleanFields, NormalisedFields
      <4>5. \A v \in ToSet(p.values) : Same(actual, v) <=> actual = v
        BY <4>3 DEF Same
      <4>6. QED
        BY <1>1, <4>4, <4>5
    <3>5. QED
      BY <3>1, <3>2, <3>3, <3>4
  <2> HIDE DEF keyed, listed
  <2>4. QED
    BY <2>1, <2>2, <2>3 DEF Agrees
<1>5. QED
  BY <1>3, <1>4

\* A branch is searched for as it is, or with what its entity stands for.
LEMMA ArgumentsForBranch ==
  ASSUME NEW plan, NEW option, NEW n \in 1 .. MaxDepth, Opt(option, n),
         NEW e, NEW res, e # Nobody => IsResolution(res) /\ IsEntity(e)
  PROVE  \/ ArgumentsFor(plan, option, e, res).filter = option
         \/ \E p : /\ IsPredicate(p)
                   /\ ArgumentsFor(plan, option, e, res).filter = Conjoin(option, Leaf(p))
<1> DEFINE facet == e # Nobody /\ res.status = "constraint_entity"
           leaf == Leaf(FacetPredicate(e, res, e.refs))
           filter == IF facet THEN Conjoin(option, leaf) ELSE option
           base == [NoArguments EXCEPT
                      !.sort = plan.sort, !.limit = Min({plan.limit, 3}), !.filter = filter,
                      !.preference = plan.preference, !.objectives = plan.objectives,
                      !.compiled = TRUE]
           named == IF e = Nobody THEN base
                    ELSE IF res.product # Absent
                    THEN [base EXCEPT !.product_id = res.product, !.excluded = {res.product}]
                    ELSE IF e.type # "auto" /\ ~facet THEN [base EXCEPT ![e.type] = e.raw]
                    ELSE base
           a == ArgumentsFor(plan, option, e, res)
<1>1. a = WithConjuncts(named)
  BY DEF ArgumentsFor
<1>2. "filter" \in DOMAIN base /\ base.filter = filter
  BY DEF NoArguments
<1>3. filter = option \/ (facet /\ filter = Conjoin(option, leaf))
  OBVIOUS
<1>4. facet => IsPredicate(FacetPredicate(e, res, e.refs))
  BY StandsForFacet DEF StandsFor
<1> HIDE DEF filter, base, facet
<1>5. "filter" \in DOMAIN named /\ named.filter = filter
  <2>1. e # Nobody /\ e.type # "auto" => e.type # "filter"
    BY DEF IsEntity
  <2>2. CASE e = Nobody
    BY <1>2, <2>2
  <2>3. CASE e # Nobody /\ res.product # Absent
    <3>1. named = [base EXCEPT !.product_id = res.product, !.excluded = {res.product}]
      BY <2>3
    <3> HIDE DEF named
    <3>2. QED
      BY <1>2, <3>1
  <2>4. CASE e # Nobody /\ res.product = Absent
    <3>1. named = base \/ (named = [base EXCEPT ![e.type] = e.raw] /\ e.type # "filter")
      BY <2>1, <2>4
    <3> HIDE DEF named
    <3>2. QED
      BY <1>2, <3>1
  <2>5. QED
    BY <2>2, <2>3, <2>4
<1> HIDE DEF named
<1>6. a.filter = filter
  BY <1>1, <1>5, WithConjunctsKeeps
<1>7. QED
  BY <1>3, <1>4, <1>6

\* What passes a conjunction of two passes both.
LEMMA ConjoinPasses ==
  ASSUME NEW l, NEW r, NEW n \in 1 .. MaxDepth, n < MaxDepth, Opt(l, n), Opt(r, n), NEW x,
         Passes(Conjoin(l, r), x)
  PROVE  Passes(l, x)
<1>1. Opt(Conjoin(l, r), n + 1)
  BY ConjoinFacts
<1>2. \A k \in Demands(Conjoin(l, r)) : Passes(k, x)
  BY <1>1, DemandsPass
<1>3. Demands(Conjoin(l, r)) = Demands(l) \cup Demands(r)
  BY ConjoinDemands
<1>4. \A k \in Demands(l) : Passes(k, x)
  BY <1>2, <1>3
<1>5. QED
  BY <1>4, PassesDemands

\* What the filter that is split demands, it has from the plan.
LEMMA WholeDemands ==
  ASSUME NEW c, NEW source, Sound(c, source)
  PROVE  /\ Demands(c.plan.filter) \subseteq Demands(WholeFilter(c.plan, c.res))
         /\ Demands(SelectionFilter(c.plan.selection)) \subseteq Demands(WholeFilter(c.plan, c.res))
<1> DEFINE x == c.plan.selection
           by == ByEntity(c.plan, c.res)
           entities == SelectedOf(c.plan)
           both == Conjoin(c.plan.filter, SelectionFilter(x))
<1>1. Opt(c.plan.filter, 7) /\ Opt(x, 7)
  BY DEF Sound, Expressions
<1>2. 7 \in 1 .. MaxDepth /\ 8 \in 1 .. MaxDepth /\ 7 <= 8 /\ 7 + 1 = 8 /\ 7 < MaxDepth
  BY DepthNat
<1>3. Opt(SelectionFilter(x), 7)
  BY <1>1, SelectionFilterFacts
<1>4. Opt(both, 7 + 1)
  BY <1>1, <1>2, <1>3, ConjoinFacts
<1>5. Demands(both) = Demands(c.plan.filter) \cup Demands(SelectionFilter(x))
  BY <1>1, <1>3, ConjoinDemands
<1>6. \A e \in ToSet(entities) : IsResolution(c.res[e.id])
  BY DEF Sound, Ids
<1>7. Opt(by, 7)
  <2>1. CASE by = NoExpr
    BY <2>1 DEF Opt
  <2>2. CASE by # NoExpr
    <3>1. by = SelectionAsFilter(x, entities, c.res) /\ x.kind \in {"all_of", "any_of"}
      BY <2>2 DEF ByEntity
    <3>2. x # NoExpr
      BY <3>1, NoKids
    <3>3. Tree(x, 7)
      BY <1>1, <3>2 DEF Opt
    <3> HIDE DEF by, entities, x
    <3>4. QED
      BY <1>6, <3>1, <3>3, SelectionAsFilterFacts
  <2>3. QED
    BY <2>1, <2>2
<1>8. Opt(by, 8)
  BY <1>2, <1>7, OptMore
<1> HIDE DEF by, both
<1>9. Opt(both, 8)
  BY <1>2, <1>4
<1>10. Demands(Conjoin(both, by)) = Demands(both) \cup Demands(by)
  BY <1>8, <1>9, ConjoinDemands
<1>11. WholeFilter(c.plan, c.res) = Conjoin(both, by)
  BY DEF WholeFilter, both, by
<1>12. QED
  BY <1>5, <1>10, <1>11 DEF x

\* Every search of a plan is for a branch of it, as it is or with more.
LEMMA ArgumentsBranch ==
  ASSUME NEW c, NEW source, WellFormed(source), Sound(c, source), NEW a \in ToSet(c.args)
  PROVE  \E b \in ToSet(FallbackBranches(WholeFilter(c.plan, c.res))) :
           /\ Opt(b, 9)
           /\ a.filter = b \/ \E p : IsPredicate(p) /\ a.filter = Conjoin(b, Leaf(p))
<1>1. PICK b \in ToSet(FallbackBranches(WholeFilter(c.plan, c.res))),
           e \in {Nobody} \cup ToSet(SelectedOf(c.plan)) :
        /\ Opt(b, 9)
        /\ e # Nobody => IsResolution(c.res[e.id]) /\ IsEntity(e)
        /\ a = ArgumentFor(c.plan, c.res, b, e)
  BY ArgumentsPicked
<1> DEFINE r == IF e = Nobody THEN Unresolved ELSE c.res[e.id]
           m == 9
<1>2. a = ArgumentsFor(c.plan, b, e, r)
  BY <1>1 DEF ArgumentFor
<1>3. e # Nobody => IsResolution(r) /\ IsEntity(e)
  BY <1>1
<1>4. m \in 1 .. MaxDepth /\ Opt(b, m)
  BY <1>1, DepthNat
<1> HIDE DEF r, m
<1>5. \/ ArgumentsFor(c.plan, b, e, r).filter = b
      \/ \E p : IsPredicate(p) /\ ArgumentsFor(c.plan, b, e, r).filter = Conjoin(b, Leaf(p))
  BY <1>3, <1>4, ArgumentsForBranch
<1>6. QED
  BY <1>1, <1>2, <1>5

\* A condition of a sound plan that is asked in full says of a product of the
\* catalogue what the expression says.
LEMMA SoundAgrees ==
  ASSUME NEW c, NEW source, Sound(c, source), NEW p \in AllPredicates(c.plan), p.field # "name",
         NEW q \in Loaded
  PROVE  Agrees(p, Products[q])
<1>1. PICK x \in Expressions(c.plan) : p \in PredicatesOf(x)
  BY DEF AllPredicates
<1>2. Opt(x, 7) /\ x # NoExpr
  BY <1>1, NothingSaid DEF Sound
<1>3. IsPredicate(p)
  BY <1>1, <1>2, PredicatesTyped DEF Opt
<1>4. SettledPredicate(p)
  BY DEF Sound
<1>5. p.field \in KnownFields \ {"name"}
  BY DEF Sound, FieldsSupported, SupportsField
<1>6. /\ p.field \in NumericFields \cup BooleanFields => ToSet(p.values) \cap Texts = {}
      /\ p.op \in Comparisons => p.field \in NumericFields
  BY DEF Sound, TypesHold
<1>7. QED
  BY <1>3, <1>4, <1>5, <1>6, PredicateAgrees

\* A product of the catalogue that Qdrant accepts for a search of a plan
\* meets the conditions of the plan, in its filter and in its selection,
\* that Qdrant is asked in full.
LEMMA ArgumentsMeet ==
  ASSUME NEW c, NEW source, WellFormed(source), Sound(c, source), NEW a \in ToSet(c.args),
         NEW q \in Loaded, Passes(a.filter, Products[q])
  PROVE  \A e \in {c.plan.filter, SelectionFilter(c.plan.selection)} :
           AskedInFull(e) => Matches(e, Products[q])
<1> DEFINE x == Products[q]
           whole == WholeFilter(c.plan, c.res)
<1>1. PICK b \in ToSet(FallbackBranches(whole)) :
        /\ Opt(b, 9)
        /\ a.filter = b \/ \E p : IsPredicate(p) /\ a.filter = Conjoin(b, Leaf(p))
  BY ArgumentsBranch
<1> DEFINE m == 9
<1>2. m \in 1 .. MaxDepth /\ m < MaxDepth /\ Opt(b, m) /\ 1 <= m
  BY <1>1, DepthNat
<1>3. Opt(whole, m)
  BY WholeFilterFacts
<1>4. Passes(a.filter, x)
  OBVIOUS
<1> HIDE DEF m, x
<1>5. Passes(b, x)
  <2>1. CASE a.filter = b
    BY <1>4, <2>1
  <2>2. ASSUME NEW p, IsPredicate(p), a.filter = Conjoin(b, Leaf(p))
        PROVE  Passes(b, x)
    <3>1. Opt(Leaf(p), m)
      BY <1>2, <2>2, LeafTree, TreeMore DEF Opt
    <3>2. Passes(Conjoin(b, Leaf(p)), x)
      BY <1>4, <2>2
    <3>3. QED
      BY <1>2, <3>1, <3>2, ConjoinPasses
  <2>3. QED
    BY <1>1, <2>1, <2>2
<1>6. BranchPasses(whole, x)
  BY <1>5 DEF BranchPasses
<1>7. \A k \in Demands(whole) : BranchPasses(k, x)
  <2> HIDE DEF whole
  <2>1. QED
    BY <1>3, <1>6, BranchDemands
<1>8. \A e \in {c.plan.filter, SelectionFilter(c.plan.selection)} : Demands(e) \subseteq Demands(whole)
  BY WholeDemands
<1> HIDE DEF whole
<1>9. SUFFICES ASSUME NEW e \in {c.plan.filter, SelectionFilter(c.plan.selection)},
                      AskedInFull(e)
               PROVE  Matches(e, x)
  BY DEF x
<1>10. Opt(c.plan.filter, 7) /\ Opt(c.plan.selection, 7)
  BY DEF Sound, Expressions
<1>11. Opt(SelectionFilter(c.plan.selection), 7)
       /\ PredicatesOf(SelectionFilter(c.plan.selection)) = PredicatesOf(c.plan.selection)
  BY <1>10, SelectionFilterFacts
<1>12. Opt(e, 7) /\ PredicatesOf(e) \subseteq AllPredicates(c.plan)
  BY <1>9, <1>10, <1>11 DEF AllPredicates, Expressions
<1>13. \A p \in PredicatesOf(e) : Agrees(p, x)
  <2>1. SUFFICES ASSUME NEW p \in PredicatesOf(e) PROVE Agrees(p, x)
    OBVIOUS
  <2>2. p.field # "name"
    BY <1>9 DEF AskedInFull, PredicatesOf
  <2>3. p \in AllPredicates(c.plan)
    BY <1>12
  <2>4. QED
    BY <2>2, <2>3, SoundAgrees DEF x
<1>14. \A k \in Demands(e) : BranchPasses(k, x)
  BY <1>7, <1>8, <1>9
<1>15. QED
  BY <1>9, <1>12, <1>13, <1>14, AskedMatches

\* How a search of a plan ranks is what the plan says.
LEMMA ArgumentsForRanks ==
  ASSUME NEW plan, NEW option, NEW e, NEW res, e # Nobody => IsEntity(e),
         NEW a, a = ArgumentsFor(plan, option, e, res)
  PROVE  /\ DOMAIN a = DOMAIN NoArguments /\ a.compiled
         /\ a.sort = plan.sort /\ a.limit = Min({plan.limit, 3})
         /\ a.preference = plan.preference /\ a.objectives = plan.objectives
<1> DEFINE facet == e # Nobody /\ res.status = "constraint_entity"
           filter == IF facet THEN Conjoin(option, Leaf(FacetPredicate(e, res, e.refs))) ELSE option
           base == [NoArguments EXCEPT
                      !.sort = plan.sort, !.limit = Min({plan.limit, 3}), !.filter = filter,
                      !.preference = plan.preference, !.objectives = plan.objectives,
                      !.compiled = TRUE]
           named == IF e = Nobody THEN base
                    ELSE IF res.product # Absent
                    THEN [base EXCEPT !.product_id = res.product, !.excluded = {res.product}]
                    ELSE IF e.type # "auto" /\ ~facet THEN [base EXCEPT ![e.type] = e.raw]
                    ELSE base
           D == {"preference", "objectives", "sort", "limit", "compiled"}
           n == Min({plan.limit, 3})
<1>1. a = WithConjuncts(named)
  BY DEF ArgumentsFor
<1> HIDE DEF filter
<1> HIDE DEF n
<1>2. /\ DOMAIN base = DOMAIN NoArguments /\ D \subseteq DOMAIN NoArguments
      /\ base.preference = plan.preference /\ base.objectives = plan.objectives
      /\ base.sort = plan.sort /\ base.limit = n /\ base.compiled = TRUE
  BY DEF NoArguments, n
<1> HIDE DEF base
<1>3. e # Nobody /\ e.type # "auto" => e.type \notin D
  BY DEF IsEntity
<1>4. \/ named = base
      \/ named = [base EXCEPT !.product_id = res.product, !.excluded = {res.product}]
      \/ named = [base EXCEPT ![e.type] = e.raw] /\ e.type \notin D
  BY <1>3
<1> HIDE DEF named
<1>5. /\ DOMAIN named = DOMAIN NoArguments
      /\ named.preference = plan.preference /\ named.objectives = plan.objectives
      /\ named.sort = plan.sort /\ named.limit = n /\ named.compiled = TRUE
  BY <1>2, <1>4
<1>6. DOMAIN a = DOMAIN NoArguments
  BY <1>1, <1>5 DEF WithConjuncts
<1>7. /\ a.preference = plan.preference /\ a.objectives = plan.objectives
      /\ a.sort = plan.sort /\ a.limit = n /\ a.compiled = TRUE
  BY <1>1, <1>2, <1>5, WithConjunctsKeeps
<1>8. QED
  BY <1>6, <1>7 DEF n

LEMMA ArgumentsRank ==
  ASSUME NEW c, NEW source, WellFormed(source), Sound(c, source), NEW a \in ToSet(c.args)
  PROVE  /\ DOMAIN a = DOMAIN NoArguments /\ a.compiled
         /\ a.sort = c.plan.sort /\ a.limit = Min({c.plan.limit, 3})
         /\ a.preference = c.plan.preference /\ a.objectives = c.plan.objectives
<1>1. PICK b \in ToSet(FallbackBranches(WholeFilter(c.plan, c.res))),
           e \in {Nobody} \cup ToSet(SelectedOf(c.plan)) :
        /\ e # Nobody => IsEntity(e)
        /\ a = ArgumentFor(c.plan, c.res, b, e)
  BY ArgumentsPicked
<1> DEFINE r == IF e = Nobody THEN Unresolved ELSE c.res[e.id]
           plan == c.plan
<1>2. a = ArgumentsFor(plan, b, e, r)
  BY <1>1 DEF ArgumentFor
<1>3. e # Nobody => IsEntity(e)
  BY <1>1
<1> HIDE DEF r, plan
<1>4. /\ DOMAIN a = DOMAIN NoArguments /\ a.compiled
      /\ a.sort = plan.sort /\ a.limit = Min({plan.limit, 3})
      /\ a.preference = plan.preference /\ a.objectives = plan.objectives
  BY <1>2, <1>3, ArgumentsForRanks
<1>5. QED
  BY <1>4 DEF plan

\* There is a search for every plan that is not a comparison.
LEMMA SearchesThere ==
  ASSUME NEW c, NEW source, Sound(c, source), c.plan.op # "compare"
  PROVE  /\ c.args \in Seq(ToSet(c.args)) /\ DOMAIN c.args = 1 .. Len(c.args)
         /\ Len(c.args) \in Nat /\ Len(c.args) >= 1
<1> DEFINE plan == c.plan
           res == c.res
           entities == SelectedOf(plan)
           byEntity == ByEntity(plan, res)
           branches == FallbackBranches(WholeFilter(plan, res))
           chosen == SelectionBranches(plan.selection, entities)
           args(i, e) == ArgumentFor(plan, res, branches[Min({i, Len(branches)})], e)
           Some(s) == /\ s \in Seq(ToSet(s)) /\ DOMAIN s = 1 .. Len(s)
                      /\ Len(s) \in Nat /\ Len(s) >= 1
<1>1. c.args = ArgumentsOf(plan, res)
  BY DEF Sound
<1>2. ArgumentsOf(plan, res)
        = IF byEntity # NoExpr \/ Represented(plan, entities)
          THEN [i \in DOMAIN branches |-> args(i, Nobody)]
          ELSE IF Len(chosen) > 1 THEN [i \in DOMAIN chosen |-> args(i, chosen[i])]
          ELSE [i \in DOMAIN branches |-> args(i, chosen[1])]
  BY DEF ArgumentsOf, ByEntity, WholeFilter, ArgumentFor
<1>3. entities \in Seq(ToSet(entities))
  <2>1. plan.entities \in Seq(ToSet(plan.entities))
    BY DEF Sound
  <2> HIDE DEF plan
  <2>2. QED
    BY <2>1, SelectedFacts
<1>4. branches \in Seq(ToSet(branches)) /\ branches # <<>>
  <2> DEFINE m == 9
  <2>1. Opt(WholeFilter(plan, res), m)
    BY WholeFilterFacts
  <2> HIDE DEF plan, res, m
  <2>2. QED
    BY <2>1, OptBranches
<1>5. chosen \in Seq({Nobody} \cup ToSet(entities)) /\ chosen # <<>>
  <2> DEFINE x == plan.selection
             m == 7
  <2>1. Opt(x, m)
    BY DEF Sound, Expressions
  <2> HIDE DEF x, m, entities
  <2>2. SelectionBranches(x, entities) \in Seq({Nobody} \cup ToSet(entities))
        /\ SelectionBranches(x, entities) # <<>>
    BY <1>3, <2>1, SelectionBranchesFacts
  <2>3. QED
    BY <2>2 DEF x
<1> HIDE DEF branches, chosen, entities, plan, res, byEntity
<1>6. ASSUME NEW S, NEW list, list \in Seq(S), list # <<>>, NEW s, DOMAIN s = DOMAIN list,
             s = [i \in DOMAIN list |-> s[i]]
      PROVE  Some(s)
  <2>1. Len(list) \in Nat /\ Len(list) # 0
    BY <1>6
  <2>2. /\ s \in Seq(ToSet(s)) /\ Len(s) = Len(list)
        /\ DOMAIN s = 1 .. Len(s) /\ Len(s) \in Nat
    BY <1>6, ListOver
  <2>3. QED
    BY <2>1, <2>2
<1> HIDE DEF args, Some
<1>7. \A e, s : s = [i \in DOMAIN branches |-> args(i, e)] => Some(s)
  <2>1. SUFFICES ASSUME NEW e, NEW s, s = [i \in DOMAIN branches |-> args(i, e)] PROVE Some(s)
    BY Zenon
  <2>2. DOMAIN s = DOMAIN branches /\ s = [i \in DOMAIN branches |-> s[i]]
    BY <2>1
  <2>3. QED
    BY <1>4, <1>6, <2>2
<1>8. \A s : s = [i \in DOMAIN chosen |-> args(i, chosen[i])] => Some(s)
  <2>1. SUFFICES ASSUME NEW s, s = [i \in DOMAIN chosen |-> args(i, chosen[i])] PROVE Some(s)
    BY Zenon
  <2>2. DOMAIN s = DOMAIN chosen /\ s = [i \in DOMAIN chosen |-> s[i]]
    BY <2>1
  <2>3. QED
    BY <1>5, <1>6, <2>2
<1>9. Some(ArgumentsOf(plan, res))
  BY <1>2, <1>7, <1>8, Zenon
<1>10. QED
  BY <1>1, <1>9 DEF Some

-----------------------------------------------------------------------------
(***************************************************************************)
(* Orders                                                                  *)
(***************************************************************************)

\* A key puts the elements of a set in a strict order.
Keyed(S, key) ==
  /\ IsFiniteSet(S)
  /\ \A x \in S : key[x][1] \in Int /\ key[x][2] \in Int
  /\ \A x, y \in S : key[x][1] = key[y][1] /\ key[x][2] = key[y][2] => x = y

Precedes(key, y, x) ==
  \/ key[y][1] < key[x][1]
  \/ key[y][1] = key[x][1] /\ key[y][2] < key[x][2]

\* Every place of the order is taken by one element.
LEMMA Placed ==
  ASSUME NEW S, NEW key, Keyed(S, key), NEW k \in 1 .. Cardinality(S)
  PROVE  \E x \in S : Cardinality({y \in S : Precedes(key, y, x)}) = k - 1
<1> DEFINE P(x) == {y \in S : Precedes(key, y, x)}
           n == Cardinality(S)
           rank == [x \in S |-> Cardinality(P(x))]
<1>1. IsFiniteSet(S) /\ n \in Nat
  BY FS_CardinalityType DEF Keyed
<1>2. \A x \in S : IsFiniteSet(P(x)) /\ Cardinality(P(x)) \in Nat
  BY <1>1, FS_Subset, FS_CardinalityType
<1>3. ASSUME NEW x \in S, NEW y \in S, Precedes(key, x, y)
      PROVE  Cardinality(P(x)) < Cardinality(P(y))
  <2>1. \A z \in S : Precedes(key, z, x) => Precedes(key, z, y)
    BY <1>3 DEF Keyed, Precedes
  <2>2. P(x) \subseteq P(y)
    BY <2>1
  <2>3. x \in P(y) /\ x \notin P(x)
    BY <1>3 DEF Precedes, Keyed
  <2>4. Cardinality(P(x)) <= Cardinality(P(y)) /\ Cardinality(P(x)) # Cardinality(P(y))
    <3>1. P(x) # P(y)
      BY <2>3
    <3>2. IsFiniteSet(P(y)) /\ P(x) \in SUBSET P(y)
      BY <1>2, <2>2
    <3> HIDE DEF P
    <3>3. QED
      BY <3>1, <3>2, FS_Subset
  <2>5. QED
    BY <1>2, <2>4
<1>4. ASSUME NEW x \in S, NEW y \in S, rank[x] = rank[y]
      PROVE  x = y
  <2>1. x = y \/ Precedes(key, x, y) \/ Precedes(key, y, x)
    BY DEF Keyed, Precedes
  <2>2. Cardinality(P(x)) = Cardinality(P(y))
    BY <1>4
  <2>3. ~ Precedes(key, x, y) /\ ~ Precedes(key, y, x)
    BY <1>2, <1>3, <2>2
  <2>4. QED
    BY <2>1, <2>3
<1>5. ASSUME NEW x \in S
      PROVE  rank[x] \in 0 .. n - 1
  <2>1. x \notin P(x) /\ P(x) \in SUBSET S /\ P(x) # S
    BY DEF Precedes, Keyed
  <2>2. Cardinality(P(x)) <= n /\ Cardinality(P(x)) # n
    <3> HIDE DEF P
    <3>1. QED
      BY <1>1, <2>1, FS_Subset
  <2>3. QED
    BY <1>1, <1>2, <2>2
<1>6. rank \in Injection(S, 0 .. n - 1)
  <2>1. rank \in [S -> 0 .. n - 1]
    BY <1>5
  <2>2. \A x, y \in S : rank[x] = rank[y] => x = y
    BY <1>4
  <2> HIDE DEF rank
  <2>3. QED
    BY <2>1, <2>2 DEF Injection, IsInjective
<1>7. IsFiniteSet(0 .. n - 1) /\ Cardinality(0 .. n - 1) = n
  <2> HIDE DEF n, P, rank
  <2>1. 0 \in Int /\ n - 1 \in Int /\ n \in Nat
    BY <1>1
  <2>2. /\ IsFiniteSet(0 .. n - 1)
        /\ Cardinality(0 .. n - 1) = IF 0 > n - 1 THEN 0 ELSE (n - 1) - 0 + 1
    BY <2>1, FS_Interval
  <2>3. QED
    BY <2>1, <2>2
<1>8. rank \in Surjection(S, 0 .. n - 1)
  <2> HIDE DEF rank
  <2>1. QED
    BY <1>6, <1>7, FS_Injection
<1>9. k - 1 \in 0 .. n - 1
  BY <1>1
<1>10. \E x \in S : rank[x] = k - 1
  <2> HIDE DEF rank
  <2>1. QED
    BY <1>8, <1>9 DEF Surjection
<1>11. QED
  BY <1>10

\* A set in the order of its keys, each element once.
LEMMA OrderedFacts ==
  ASSUME NEW S, NEW key, Keyed(S, key)
  PROVE  /\ Ordered(S, key) \in Seq(S) /\ Len(Ordered(S, key)) = Cardinality(S)
         /\ \A i, j \in DOMAIN Ordered(S, key) :
              Ordered(S, key)[i] = Ordered(S, key)[j] => i = j
         /\ ToSet(Ordered(S, key)) = S
<1> DEFINE n == Cardinality(S)
           At(x) == Cardinality({y \in S : Precedes(key, y, x)})
           s == Ordered(S, key)
<1>1. IsFiniteSet(S) /\ n \in Nat
  BY FS_CardinalityType DEF Keyed
<1>2. s = [i \in 1 .. n |-> CHOOSE x \in S : At(x) = i - 1]
  BY DEF Ordered, Precedes
<1>3. \A i \in 1 .. n : s[i] \in S /\ At(s[i]) = i - 1
  <2>1. SUFFICES ASSUME NEW i \in 1 .. n
                 PROVE  s[i] \in S /\ At(s[i]) = i - 1
    OBVIOUS
  <2>2. \E x \in S : At(x) = i - 1
    BY <2>1, Placed
  <2>3. s[i] = CHOOSE x \in S : At(x) = i - 1
    BY <1>2, <2>1
  <2> HIDE DEF At, s
  <2>4. QED
    BY <2>2, <2>3
<1>4. DOMAIN s = 1 .. n
  BY <1>2
<1>5. s \in [1 .. n -> S]
  <2>1. s = [i \in 1 .. n |-> s[i]]
    BY <1>2
  <2> HIDE DEF s
  <2>2. QED
    BY <1>3, <2>1
<1>6. s \in Seq(S) /\ Len(s) = n
  <2> HIDE DEF s
  <2>1. s \in Seq(S)
    BY <1>1, <1>5, SeqDef
  <2>2. QED
    BY <1>1, <1>4, <2>1, LenProperties
<1>7. \A i, j \in 1 .. n : s[i] = s[j] => i = j
  <2> SUFFICES ASSUME NEW i \in 1 .. n, NEW j \in 1 .. n, s[i] = s[j] PROVE i = j
    OBVIOUS
  <2>1. At(s[i]) = i - 1 /\ At(s[j]) = j - 1
    BY <1>3
  <2> HIDE DEF At, s
  <2>2. QED
    BY <1>1, <2>1
<1>8. s \in Surjection(1 .. n, S)
  <2>1. s \in Injection(1 .. n, S)
    <3> HIDE DEF s
    <3>1. QED
      BY <1>4, <1>5, <1>7 DEF Injection, IsInjective
  <2>2. IsFiniteSet(1 .. n) /\ Cardinality(1 .. n) = n
    BY <1>1, FS_Interval
  <2> HIDE DEF s
  <2>3. QED
    BY <1>1, <2>1, <2>2, FS_Injection
<1>9. ToSet(s) = S
  <2> HIDE DEF s
  <2>1. QED
    BY <1>4, <1>5, <1>8 DEF ToSet, Surjection
<1>10. QED
  BY <1>4, <1>6, <1>7, <1>9

-----------------------------------------------------------------------------
(***************************************************************************)
(* Scores                                                                  *)
(***************************************************************************)

LEMMA MaxOfTwo ==
  ASSUME NEW i \in Int, NEW j \in Int
  PROVE  Max({i, j}) \in Int
<1>1. CASE i >= j
  <2>1. i \in {i, j} /\ \A y \in {i, j} : i >= y
    BY <1>1
  <2>2. \A x \in {i, j} : (\A y \in {i, j} : x >= y) => x = i
    BY <1>1
  <2>3. QED
    BY <1>1, <2>1, <2>2 DEF Max
<1>2. CASE ~ (i >= j)
  <2>1. j \in {i, j} /\ \A y \in {i, j} : j >= y
    BY <1>2
  <2>2. \A x \in {i, j} : (\A y \in {i, j} : x >= y) => x = j
    BY <1>2
  <2>3. QED
    BY <1>2, <2>1, <2>2 DEF Max
<1>3. QED
  BY <1>1, <1>2

\* A list of numbers, one for each element of another.
LEMMA NumbersOver ==
  ASSUME NEW N, NEW S, NEW s \in Seq(S), NEW t, DOMAIN t = DOMAIN s, t = [i \in DOMAIN s |-> t[i]],
         \A i \in DOMAIN s : t[i] \in N
  PROVE  t \in Seq(N)
<1>1. DOMAIN s = 1 .. Len(s) /\ Len(s) \in Nat
  BY LenProperties
<1>2. t \in [1 .. Len(s) -> N]
  BY <1>1
<1>3. QED
  BY <1>1, <1>2, SeqDef

\* How many predicates an expression has is a number.
LEMMA CountFacts ==
  ASSUME NEW e, NEW n, Opt(e, n)
  PROVE  PredicateCount(e) \in Nat
<1> DEFINE T == {x \in Parts(e) : \A m \in 1 .. MaxDepth : Tree(x, m) => PredicateCount(x) \in Nat}
<1>1. ASSUME NEW x \in Parts(e), \A i \in DOMAIN Kids(x) : Kids(x)[i] \in T,
             NEW m \in 1 .. MaxDepth, Tree(x, m)
      PROVE  PredicateCount(x) \in Nat
  <2> DEFINE vs == [i \in DOMAIN Kids(x) |-> PredicateCount(Kids(x)[i])]
  <2>1. PredicateCount(x) = PredicateCountAt(vs, x, {})
    BY <1>1, TreeFits, CountingUnfolds DEF PredicateCount
  <2>2. /\ Kids(x) \in Seq(ToSet(Kids(x)))
        /\ Kids(x) # <<>> => Fits(x.kind, Kids(x))
        /\ x.kind \in {"all_of", "any_of", "not", "prefer", "fallback", "predicate", "entity_ref"}
    BY <1>1, TreeKinds
  <2>3. ASSUME NEW i \in DOMAIN Kids(x)
        PROVE  vs[i] \in Nat
    <3>1. Kids(x)[i] \in ToSet(Kids(x))
      BY <2>2, ToSetMember
    <3>2. m - 1 \in 1 .. MaxDepth /\ Tree(Kids(x)[i], m - 1)
      BY <1>1, <3>1, TreeBelow
    <3>3. Kids(x)[i] \in T
      BY <1>1
    <3>4. QED
      BY <3>2, <3>3
  <2>4. DOMAIN vs = DOMAIN Kids(x) /\ vs = [i \in DOMAIN Kids(x) |-> vs[i]]
    OBVIOUS
  <2> HIDE DEF vs, T
  <2>5. vs \in Seq(Nat)
    BY <2>2, <2>3, <2>4, NumbersOver
  <2>6. Total(vs) \in Nat
    BY <2>5, TotalFacts
  <2>7. QED
    BY <2>1, <2>6 DEF PredicateCountAt
<1>2. CASE e = NoExpr
  <2>1. PredicateCount(e)
          = PredicateCountAt([i \in DOMAIN Kids(e) |-> PredicateCount(Kids(e)[i])], e, {})
    BY <1>2, NothingSaid, CountingUnfolds DEF PredicateCount
  <2>2. PredicateCount(e) = Total([i \in DOMAIN Kids(e) |-> PredicateCount(Kids(e)[i])])
    BY <1>2, <2>1, NoKids DEF PredicateCountAt
  <2>3. [i \in DOMAIN Kids(e) |-> PredicateCount(Kids(e)[i])] = <<>>
    BY <1>2, NoKids
  <2>4. <<>> \in Seq(Nat)
    BY ToSetEmpty
  <2>5. QED
    BY <2>2, <2>3, <2>4, TotalFacts
<1>3. CASE Tree(e, n)
  <2>1. Within(e, MaxDepth) /\ e \in Parts(e) /\ n \in 1 .. MaxDepth
    BY <1>3, TreeFits, PartsClosed DEF Tree
  <2>2. \A x \in Parts(e) : (\A i \in DOMAIN Kids(x) : Kids(x)[i] \in T) => x \in T
    BY <1>1
  <2> HIDE DEF T
  <2>3. Parts(e) \subseteq T
    BY <2>1, <2>2, ByParts
  <2>4. e \in T
    BY <2>1, <2>3
  <2>5. QED
    BY <1>3, <2>1, <2>4 DEF T
<1>4. QED
  BY <1>2, <1>3 DEF Opt

\* How much of a preference a product meets is a number.
LEMMA PreferenceFacts ==
  ASSUME NEW e, NEW n, Opt(e, n), NEW product
  PROVE  PreferenceScore(e, product) \in Int
<1> DEFINE T == {x \in Parts(e) : \A m \in 1 .. MaxDepth : Tree(x, m) => PreferenceScore(x, product) \in Int}
<1>1. ASSUME NEW x \in Parts(e), \A i \in DOMAIN Kids(x) : Kids(x)[i] \in T,
             NEW m \in 1 .. MaxDepth, Tree(x, m)
      PROVE  PreferenceScore(x, product) \in Int
  <2> DEFINE vs == [i \in DOMAIN Kids(x) |-> PreferenceScore(Kids(x)[i], product)]
  <2>1. PreferenceScore(x, product) = PreferenceScoreAt(vs, x, product)
    BY <1>1, TreeFits, ScoringUnfolds DEF PreferenceScore
  <2>2. /\ Kids(x) \in Seq(ToSet(Kids(x)))
        /\ Kids(x) # <<>> => Fits(x.kind, Kids(x))
        /\ x.kind \in {"all_of", "any_of", "not", "prefer", "fallback", "predicate", "entity_ref"}
    BY <1>1, TreeKinds
  <2>3. ASSUME NEW i \in DOMAIN Kids(x)
        PROVE  vs[i] \in Int
    <3>1. Kids(x)[i] \in ToSet(Kids(x))
      BY <2>2, ToSetMember
    <3>2. m - 1 \in 1 .. MaxDepth /\ Tree(Kids(x)[i], m - 1)
      BY <1>1, <3>1, TreeBelow
    <3>3. Kids(x)[i] \in T
      BY <1>1
    <3>4. QED
      BY <3>2, <3>3
  <2>4. DOMAIN vs = DOMAIN Kids(x) /\ vs = [i \in DOMAIN Kids(x) |-> vs[i]]
    OBVIOUS
  <2> HIDE DEF vs, T
  <2>5. vs \in Seq(Int)
    BY <2>2, <2>3, <2>4, NumbersOver
  <2>6. Total(vs) \in Int
    BY <2>5, TotalFacts
  <2>7. CASE x.kind = "fallback"
    <3>1. DOMAIN Kids(x) = {1, 2}
      <4>1. Kids(x) = <<>> => x.kind \in {"predicate", "entity_ref"}
        BY <1>1, TreeKinds
      <4>2. Len(Kids(x)) = 2
        BY <2>2, <2>7, <4>1 DEF Fits
      <4>3. QED
        BY <2>2, <4>2, LenProperties
    <3>2. vs[1] \in Int /\ vs[2] \in Int
      BY <2>3, <3>1
    <3>3. QED
      BY <2>1, <2>7, <3>2, MaxOfTwo DEF PreferenceScoreAt
  <2>8. CASE x.kind # "fallback"
    BY <2>1, <2>2, <2>6, <2>8 DEF PreferenceScoreAt
  <2>9. QED
    BY <2>7, <2>8
<1>2. CASE e = NoExpr
  <2>1. PreferenceScore(e, product)
          = PreferenceScoreAt([i \in DOMAIN Kids(e) |-> PreferenceScore(Kids(e)[i], product)],
                              e, product)
    BY <1>2, NothingSaid, ScoringUnfolds DEF PreferenceScore
  <2>2. QED
    BY <1>2, <2>1, NoKids DEF PreferenceScoreAt
<1>3. CASE Tree(e, n)
  <2>1. Within(e, MaxDepth) /\ e \in Parts(e) /\ n \in 1 .. MaxDepth
    BY <1>3, TreeFits, PartsClosed DEF Tree
  <2>2. \A x \in Parts(e) : (\A i \in DOMAIN Kids(x) : Kids(x)[i] \in T) => x \in T
    BY <1>1
  <2> HIDE DEF T
  <2>3. Parts(e) \subseteq T
    BY <2>1, <2>2, ByParts
  <2>4. e \in T
    BY <2>1, <2>3
  <2>5. QED
    BY <1>3, <2>1, <2>4 DEF T
<1>4. QED
  BY <1>2, <1>3 DEF Opt

\* A product among those compared has a share of the best.
LEMMA PercentileFacts ==
  ASSUME NEW ids, IsFiniteSet(ids), NEW o, NEW p \in ids
  PROVE  Percentile(ids, o, p) \in Int
<1> DEFINE value == Products[p][o.field]
           all == {Products[q][o.field] : q \in ids}
           present == all \ {Absent}
           upto == Cardinality({v \in present : v <= value})
           n == Cardinality(present)
<1>1. Percentile(ids, o, p)
        = IF value = Absent THEN 0
          ELSE IF o.direction = "maximize" THEN (Unit * upto) \div n
          ELSE (Unit * (n + 1 - upto)) \div n
  BY DEF Percentile
<1>2. IsFiniteSet(all)
  <2> DEFINE of == [q \in ids |-> Products[q][o.field]]
  <2>1. of \in [ids -> all]
    OBVIOUS
  <2>2. \A v \in all : \E q \in ids : of[q] = v
    OBVIOUS
  <2> HIDE DEF of, all
  <2>3. of \in Surjection(ids, all)
    BY <2>1, <2>2 DEF Surjection
  <2>4. QED
    BY <2>3, FS_Surjection
<1>3. IsFiniteSet(present) /\ n \in Nat
  <2>1. present \in SUBSET all
    OBVIOUS
  <2> HIDE DEF all
  <2>2. IsFiniteSet(present)
    BY <1>2, <2>1, FS_Subset
  <2>3. QED
    BY <2>2, FS_CardinalityType
<1>4. upto \in Nat
  <2> DEFINE below == {v \in present : v <= value}
  <2>1. below \in SUBSET present
    OBVIOUS
  <2> HIDE DEF present, below
  <2>2. IsFiniteSet(below)
    BY <1>3, <2>1, FS_Subset
  <2>3. Cardinality(below) \in Nat
    BY <2>2, FS_CardinalityType
  <2>4. QED
    BY <2>3 DEF below
<1>5. CASE value # Absent
  <2>1. value \in present
    BY <1>5
  <2>2. n # 0
    <3> HIDE DEF present, value
    <3>1. QED
      BY <1>3, <2>1, FS_EmptySet DEF n
  <2> HIDE DEF n, upto, value
  <2>3. Unit * upto \in Int /\ Unit * (n + 1 - upto) \in Int /\ n \in Int /\ n > 0
    BY <1>3, <1>4, <2>2 DEF Unit
  <2>4. (Unit * upto) \div n \in Int /\ (Unit * (n + 1 - upto)) \div n \in Int
    <3> DEFINE up == Unit * upto
               down == Unit * (n + 1 - upto)
    <3>1. up \in Int /\ down \in Int
      BY <2>3
    <3> HIDE DEF up, down
    <3>2. up \div n \in Int /\ down \div n \in Int
      BY <2>3, <3>1
    <3>3. QED
      BY <3>2 DEF up, down
  <2>5. QED
    BY <1>1, <2>4
<1>6. QED
  BY <1>1, <1>5

LEMMA WeightedFacts ==
  ASSUME NEW ids, IsFiniteSet(ids), NEW p \in ids, NEW objectives,
         objectives \in Seq(ToSet(objectives))
  PROVE  WeightedAverage(ids, p, objectives) \in Int
<1> DEFINE weight == [i \in DOMAIN objectives |-> IF objectives[i].priority = "primary" THEN 2 ELSE 1]
           share == [i \in DOMAIN objectives |-> weight[i] * Percentile(ids, objectives[i], p)]
           sum == Total(share)
           total == Total(weight)
<1>1. WeightedAverage(ids, p, objectives) = IF total = 0 THEN 0 ELSE sum \div total
  BY DEF WeightedAverage
<1>2. weight \in Seq(Nat)
  <2>1. DOMAIN weight = DOMAIN objectives /\ weight = [i \in DOMAIN objectives |-> weight[i]]
        /\ \A i \in DOMAIN objectives : weight[i] \in Nat
    OBVIOUS
  <2> HIDE DEF weight
  <2>2. QED
    BY <2>1, NumbersOver
<1>3. share \in Seq(Int)
  <2>1. \A i \in DOMAIN objectives : weight[i] \in Int
    OBVIOUS
  <2>2. \A i \in DOMAIN objectives : Percentile(ids, objectives[i], p) \in Int
    BY PercentileFacts
  <2>3. DOMAIN share = DOMAIN objectives /\ share = [i \in DOMAIN objectives |-> share[i]]
    OBVIOUS
  <2>4. \A i \in DOMAIN objectives : share[i] \in Int
    <3> HIDE DEF weight
    <3>1. QED
      BY <2>1, <2>2
  <2> HIDE DEF share
  <2>5. QED
    BY <2>3, <2>4, NumbersOver
<1>4. total \in Nat /\ sum \in Int
  <2> HIDE DEF weight, share
  <2>1. QED
    BY <1>2, <1>3, TotalFacts
<1>5. QED
  <2> HIDE DEF total, sum
  <2>1. total # 0 => sum \div total \in Int
    BY <1>4
  <2>2. QED
    BY <1>1, <2>1

\* What a candidate is worth is a number.
LEMMA TotalScoreFacts ==
  ASSUME NEW ids, IsFiniteSet(ids), NEW a, Opt(a.preference, MaxDepth),
         NEW objectives, objectives \in Seq(ToSet(objectives)),
         NEW hit, hit.id \in ids, hit.score \in Int
  PROVE  TotalScore(a, objectives, ids, hit) \in Int
<1> DEFINE isInferred(i) == objectives[i].origin = "inferred"
           explicit == Chosen(objectives, {i \in DOMAIN objectives : ~isInferred(i)})
           inferred == Chosen(objectives, {i \in DOMAIN objectives : isInferred(i)})
           wishes == PredicateCount(a.preference)
           liked == PreferenceScore(a.preference, Products[hit.id])
           binary == IF wishes = 0 THEN 0 ELSE (Unit * liked) \div wishes
           groups == (IF inferred # <<>> THEN 1 ELSE 0) + (IF wishes > 0 THEN 1 ELSE 0)
           wide == WeightedAverage(ids, hit.id, inferred)
           main == WeightedAverage(ids, hit.id, explicit)
           soft == IF groups = 0 THEN 0 ELSE (wide + binary) \div groups
<1>1. TotalScore(a, objectives, ids, hit)
        = 80 * main + 15 * ((Unit * hit.score) \div 100) + 5 * soft
  BY DEF TotalScore
<1>2. wishes \in Nat /\ liked \in Int
  BY CountFacts, PreferenceFacts
<1>3. main \in Int
  <2>1. explicit \in Seq(ToSet(explicit))
    <3>1. explicit \in Seq(ToSet(objectives))
      BY ChosenFacts
    <3> HIDE DEF explicit
    <3>2. QED
      BY <3>1, ToSetMember
  <2> HIDE DEF explicit
  <2>2. QED
    BY <2>1, WeightedFacts
<1>4. wide \in Int
  <2>1. inferred \in Seq(ToSet(inferred))
    <3>1. inferred \in Seq(ToSet(objectives))
      BY ChosenFacts
    <3> HIDE DEF inferred
    <3>2. QED
      BY <3>1, ToSetMember
  <2> HIDE DEF inferred
  <2>2. QED
    BY <2>1, WeightedFacts
<1> HIDE DEF main, wide, wishes, liked, inferred
<1>5. binary \in Int
  <2> DEFINE b == Unit * liked
  <2>1. b \in Int
    BY <1>2 DEF Unit
  <2> HIDE DEF b
  <2>2. wishes # 0 => b \div wishes \in Int
    BY <1>2, <2>1
  <2>3. QED
    BY <2>2 DEF b
<1>6. groups \in {0, 1, 2}
  BY <1>2
<1> HIDE DEF binary, groups
<1>7. soft \in Int
  <2> DEFINE s == wide + binary
  <2>1. s \in Int
    BY <1>4, <1>5
  <2> HIDE DEF s
  <2>2. groups # 0 => s \div groups \in Int
    BY <1>6, <2>1
  <2>3. QED
    BY <2>2 DEF s
<1> HIDE DEF soft
<1>8. (Unit * hit.score) \div 100 \in Int
  BY DEF Unit
<1>9. QED
  BY <1>1, <1>3, <1>7, <1>8

-----------------------------------------------------------------------------
(***************************************************************************)
(* Ranking neither loses a hit nor adds one                                *)
(***************************************************************************)

\* Hits on the points of a set, each at most once.
Listing(hits, S) ==
  /\ hits \in Seq(ToSet(hits))
  /\ \A h \in ToSet(hits) : h.id \in S /\ h.score \in Int
  /\ \A i, j \in DOMAIN hits : hits[i].id = hits[j].id => i = j

\* The same hits in some order.
Reordered(s, t) == s \in Seq(ToSet(t)) /\ ToSet(s) = ToSet(t) /\ Len(s) = Len(t)

LEMMA RearrangedFacts ==
  ASSUME NEW hits, NEW S, Listing(hits, S), NEW key, Keyed(DOMAIN hits, key)
  PROVE  /\ Listing(Rearranged(hits, Ordered(DOMAIN hits, key)), S)
         /\ Reordered(Rearranged(hits, Ordered(DOMAIN hits, key)), hits)
<1> DEFINE D == DOMAIN hits
           o == Ordered(D, key)
           r == Rearranged(hits, o)
<1>1. hits \in Seq(ToSet(hits)) /\ D = 1 .. Len(hits) /\ Len(hits) \in Nat
  BY ToSetMember DEF Listing
<1>2. /\ o \in Seq(D) /\ Len(o) = Cardinality(D) /\ ToSet(o) = D
      /\ \A i, j \in DOMAIN o : o[i] = o[j] => i = j
  BY OrderedFacts
<1>3. Cardinality(D) = Len(hits)
  BY <1>1, FS_Interval
<1>4. DOMAIN r = DOMAIN o /\ \A i \in DOMAIN o : r[i] = hits[o[i]]
  BY DEF Rearranged
<1>5. r = [i \in DOMAIN o |-> r[i]]
  BY DEF Rearranged
<1> HIDE DEF r, o
<1>6. \A i \in DOMAIN o : o[i] \in D /\ r[i] \in ToSet(hits)
  BY <1>1, <1>2, <1>4, ToSetMember
<1>7. r \in Seq(ToSet(hits))
  BY <1>2, <1>4, <1>5, <1>6, NumbersOver
<1>8. Len(r) = Len(hits)
  BY <1>2, <1>3, <1>4, <1>7, LenProperties
<1>9. ToSet(hits) \subseteq ToSet(r)
  <2>1. SUFFICES ASSUME NEW h \in ToSet(hits) PROVE h \in ToSet(r)
    OBVIOUS
  <2>2. PICK k \in D : h = hits[k]
    BY DEF ToSet
  <2>3. PICK i \in DOMAIN o : k = o[i]
    BY <1>2 DEF ToSet
  <2>4. h = r[i] /\ i \in DOMAIN r
    BY <1>4, <2>2, <2>3
  <2>5. QED
    BY <1>7, <2>4, ToSetMember
<1>10. ToSet(r) = ToSet(hits)
  BY <1>7, <1>9, ToSetMember
<1>11. Reordered(r, hits)
  BY <1>7, <1>8, <1>10 DEF Reordered
<1>12. ASSUME NEW i \in DOMAIN r, NEW j \in DOMAIN r, r[i].id = r[j].id
       PROVE  i = j
  <2>1. o[i] = o[j]
    BY <1>4, <1>6, <1>12 DEF Listing
  <2>2. QED
    BY <1>2, <1>4, <2>1
<1>13. Listing(r, S)
  BY <1>7, <1>10, <1>12 DEF Listing
<1>14. QED
  BY <1>11, <1>13 DEF r, o

LEMMA Positions ==
  ASSUME NEW hits, NEW S, Listing(hits, S)
  PROVE  /\ IsFiniteSet(DOMAIN hits) /\ \A i \in DOMAIN hits : i \in Int
         /\ \A i \in DOMAIN hits : hits[i] \in ToSet(hits) /\ hits[i].id \in S /\ hits[i].score \in Int
<1>1. DOMAIN hits = 1 .. Len(hits) /\ Len(hits) \in Nat
      /\ \A i \in DOMAIN hits : hits[i] \in ToSet(hits)
  BY ToSetMember DEF Listing
<1>2. QED
  BY <1>1, FS_Interval DEF Listing

LEMMA SortHitsFacts ==
  ASSUME NEW hits, NEW S, S \subseteq Points, Listing(hits, S),
         NEW sort \in DOMAIN SortGoals \cup {"relevance"}
  PROVE  Listing(SortHits(hits, sort), S) /\ Reordered(SortHits(hits, sort), hits)
<1> DEFINE goal == SortGoals[sort]
           byScore(i) == <<-hits[i].score, Place[hits[i].id]>>
           byGoal(i) == <<Wanted(goal.direction, Products[hits[i].id][goal.field]), i>>
           key == [i \in DOMAIN hits |-> IF sort = "relevance" THEN byScore(i) ELSE byGoal(i)]
<1>1. SortHits(hits, sort) = Rearranged(hits, Ordered(DOMAIN hits, key))
  BY DEF SortHits
<1>2. CASE sort = "relevance"
  <2>1. \A i \in DOMAIN hits : key[i][1] = -hits[i].score /\ key[i][2] = Place[hits[i].id]
    BY <1>2
  <2> HIDE DEF key
  <2>2. \A i \in DOMAIN hits : key[i][1] \in Int /\ key[i][2] \in Int
    BY <2>1, Positions, RankingAssumption
  <2>3. \A i, j \in DOMAIN hits : key[i][1] = key[j][1] /\ key[i][2] = key[j][2] => i = j
    BY <2>1, Positions, RankingAssumption DEF Listing
  <2>4. Keyed(DOMAIN hits, key)
    BY <2>2, <2>3, Positions DEF Keyed
  <2>5. QED
    BY <1>1, <2>4, RearrangedFacts
<1>3. CASE sort # "relevance"
  <2>1. \A i \in DOMAIN hits :
          /\ key[i][1] = Wanted(goal.direction, Products[hits[i].id][goal.field])
          /\ key[i][2] = i
    BY <1>3
  <2>2. goal.field \in {"price", "rating"}
    BY <1>3 DEF SortGoals
  <2> HIDE DEF key, goal
  <2>3. \A i \in DOMAIN hits : Products[hits[i].id][goal.field] \in Int
    BY <2>2, Positions, CatalogAssumption
  <2>4. \A i \in DOMAIN hits : key[i][1] \in Int /\ key[i][2] \in Int
    BY <2>1, <2>3, Positions DEF Wanted
  <2>5. Keyed(DOMAIN hits, key)
    BY <2>1, <2>4, Positions DEF Keyed
  <2>6. QED
    BY <1>1, <2>5, RearrangedFacts
<1>4. QED
  BY <1>2, <1>3

\* Arguments that candidates can be ranked by.
Rankable(a) ==
  /\ a.sort \in DOMAIN SortGoals \cup {"relevance"}
  /\ a.objectives \in Seq(ToSet(a.objectives))
  /\ Opt(a.preference, MaxDepth)
  /\ a.limit \in Nat \ {0}

LEMMA RankHitsFacts ==
  ASSUME NEW hits, NEW S, S \subseteq Points, Listing(hits, S), NEW a, Rankable(a)
  PROVE  Listing(RankHits(hits, a), S) /\ Reordered(RankHits(hits, a), hits)
<1> DEFINE sorted == SortHits(hits, a.sort)
           objectives == EffectiveObjectives(a)
           ids == {h.id : h \in ToSet(sorted)}
           total == [i \in DOMAIN sorted |-> TotalScore(a, objectives, ids, sorted[i])]
           key == [i \in DOMAIN sorted |-> <<-total[i], i>>]
<1>1. Listing(sorted, S) /\ Reordered(sorted, hits)
  BY SortHitsFacts DEF Rankable
<1>2. \/ RankHits(hits, a) = sorted
      \/ RankHits(hits, a) = Rearranged(sorted, Ordered(DOMAIN sorted, key))
  <2>1. \/ RankHits(hits, a) = sorted
        \/ RankHits(hits, a) = RankedBy(sorted, total)
    BY Zenon DEF RankHits, RankSorted
  <2>2. DOMAIN total = DOMAIN sorted
    OBVIOUS
  <2> HIDE DEF sorted, total
  <2>3. QED
    BY <2>1, <2>2 DEF RankedBy
<1>3. objectives \in Seq(ToSet(objectives))
  <2>1. \/ objectives = a.objectives
        \/ \E o : objectives = Append(a.objectives, o)
    BY Zenon DEF EffectiveObjectives
  <2>2. ASSUME NEW o, objectives = Append(a.objectives, o)
        PROVE  objectives \in Seq(ToSet(objectives))
    <3> HIDE DEF objectives
    <3>1. a.objectives \in Seq(ToSet(a.objectives) \cup {o})
      BY SeqMonotonic DEF Rankable
    <3>2. objectives \in Seq(ToSet(a.objectives) \cup {o})
      BY <2>2, <3>1, ToSetAppend
    <3>3. QED
      BY <3>2, ToSetMember
  <2>3. QED
    BY <2>1, <2>2 DEF Rankable
<1>4. IsFiniteSet(ids)
  <2> DEFINE of == [i \in DOMAIN sorted |-> sorted[i].id]
  <2>1. of \in [DOMAIN sorted -> ids]
    BY <1>1, Positions
  <2>2. \A d \in ids : \E i \in DOMAIN sorted : of[i] = d
    BY DEF ToSet
  <2> HIDE DEF of, ids
  <2>3. of \in Surjection(DOMAIN sorted, ids)
    BY <2>1, <2>2 DEF Surjection
  <2>4. IsFiniteSet(DOMAIN sorted)
    BY <1>1, Positions
  <2>5. QED
    BY <2>3, <2>4, FS_Surjection
<1>5. \A i \in DOMAIN sorted : total[i] \in Int
  <2>1. SUFFICES ASSUME NEW i \in DOMAIN sorted PROVE total[i] \in Int
    BY Zenon
  <2>2. sorted[i].id \in ids /\ sorted[i].score \in Int
    BY <1>1, Positions
  <2>3. Opt(a.preference, MaxDepth)
    BY DEF Rankable
  <2>4. total[i] = TotalScore(a, objectives, ids, sorted[i])
    OBVIOUS
  <2> HIDE DEF sorted, objectives, ids, total
  <2>5. QED
    BY <1>3, <1>4, <2>2, <2>3, <2>4, TotalScoreFacts
<1>6. Keyed(DOMAIN sorted, key)
  <2>1. \A i \in DOMAIN sorted : key[i][1] = -total[i] /\ key[i][2] = i
    OBVIOUS
  <2> HIDE DEF key, total, sorted
  <2>2. QED
    BY <1>1, <1>5, <2>1, Positions DEF Keyed
<1> HIDE DEF key, total, sorted
<1>7. /\ Listing(Rearranged(sorted, Ordered(DOMAIN sorted, key)), S)
      /\ Reordered(Rearranged(sorted, Ordered(DOMAIN sorted, key)), sorted)
  BY <1>1, <1>6, RearrangedFacts
<1>8. QED
  BY <1>1, <1>2, <1>7 DEF Reordered

\* The first n elements of a list, or all of them.
LEMMA UptoFacts ==
  ASSUME NEW S, NEW s \in Seq(S), NEW n \in Nat
  PROVE  /\ Upto(s, n) \in Seq(S)
         /\ ToSet(Upto(s, n)) \subseteq ToSet(s)
         /\ n # 0 /\ s # <<>> => Upto(s, n) # <<>> /\ Upto(s, n)[1] = s[1]
         /\ Len(s) <= n => Upto(s, n) = s
<1> DEFINE m == Min({Len(s), n})
           t == Upto(s, n)
<1>1. Len(s) \in Nat /\ DOMAIN s = 1 .. Len(s)
  BY LenProperties
<1>2. m = IF Len(s) <= n THEN Len(s) ELSE n
  BY <1>1, MinOfTwo
<1>3. m \in 0 .. Len(s)
  BY <1>1, <1>2
<1>4. t = SubSeq(s, 1, m)
  BY DEF Upto
<1> HIDE DEF m, t
<1>5. t \in Seq(S) /\ Len(t) = m /\ \A i \in 1 .. m : t[i] = s[i]
  BY <1>1, <1>3, <1>4
<1>6. DOMAIN t = 1 .. m
  BY <1>5, LenProperties
<1>7. ToSet(t) \subseteq ToSet(s)
  BY <1>1, <1>3, <1>5, <1>6 DEF ToSet
<1>8. ASSUME n # 0, s # <<>> PROVE t # <<>> /\ t[1] = s[1]
  <2>1. Len(s) # 0
    BY <1>8, EmptySeq
  <2>2. m >= 1 /\ m \in Nat
    <3>1. Len(s) >= 1 /\ n >= 1
      BY <1>1, <1>8, <2>1
    <3>2. m \in {Len(s), n}
      BY <1>2
    <3>3. QED
      BY <1>1, <3>1, <3>2
  <2>3. QED
    BY <1>5, <2>2, EmptySeq
<1>9. ASSUME Len(s) <= n PROVE t = s
  <2>1. m = Len(s)
    BY <1>2, <1>9
  <2>2. QED
    BY <1>4, <2>1, SubSeqFull
<1>10. QED
  BY <1>5, <1>7, <1>8, <1>9 DEF t

\* The hits of a list of points, once each.
LEMMA HitsFacts ==
  ASSUME NEW S, S \subseteq Points, NEW key, Keyed(S, key), NEW score,
         \A p \in S : score[p] \in Int
  PROVE  /\ Listing(Hits(Ordered(S, key), score), S)
         /\ S # {} => Hits(Ordered(S, key), score) # <<>>
<1> DEFINE ids == Ordered(S, key)
           hits == Hits(ids, score)
<1>1. /\ ids \in Seq(S) /\ ToSet(ids) = S /\ \A i, j \in DOMAIN ids : ids[i] = ids[j] => i = j
  BY OrderedFacts
<1>2. /\ DOMAIN hits = DOMAIN ids /\ hits = [i \in DOMAIN ids |-> hits[i]]
      /\ \A i \in DOMAIN ids : hits[i].id = ids[i] /\ hits[i].score = score[ids[i]]
  BY DEF Hits, Hit
<1> HIDE DEF ids, hits
<1>3. /\ hits \in Seq(ToSet(hits)) /\ \A h \in ToSet(hits) : \E i \in DOMAIN ids : h = hits[i]
      /\ ids = <<>> <=> hits = <<>>
  <2>1. hits = [i \in DOMAIN ids |-> hits[i]] /\ ids \in Seq(S)
    BY <1>1, <1>2
  <2>2. /\ hits \in Seq(ToSet(hits))
        /\ \A x \in ToSet(hits) : \E i \in DOMAIN ids : x = hits[i]
        /\ ids = <<>> <=> hits = <<>>
    BY <2>1, ListOver
  <2>3. QED
    BY <2>2
<1>4. \A i \in DOMAIN ids : ids[i] \in S
  BY <1>1, ToSetMember
<1>5. Listing(hits, S)
  BY <1>1, <1>2, <1>3, <1>4 DEF Listing
<1>6. S # {} => hits # <<>>
  BY <1>1, <1>3, ToSetMember
<1>7. QED
  BY <1>5, <1>6 DEF hits, ids

-----------------------------------------------------------------------------
(***************************************************************************)
(* Lists of hits                                                           *)
(***************************************************************************)

\* One more hit, on a point that has none yet.
LEMMA ListingAppend ==
  ASSUME NEW S, NEW hits, Listing(hits, S), NEW h, h.id \in S, h.score \in Int,
         \A g \in ToSet(hits) : g.id # h.id
  PROVE  Listing(Append(hits, h), S)
<1> DEFINE H == ToSet(hits) \cup {h}
           all == Append(hits, h)
           n == Len(hits)
<1>1. hits \in Seq(ToSet(hits)) /\ n \in Nat /\ DOMAIN hits = 1 .. n
      /\ \A i \in DOMAIN hits : hits[i] \in ToSet(hits)
  BY ToSetMember DEF Listing
<1>2. hits \in Seq(H) /\ h \in H
  BY <1>1, SeqMonotonic
<1>3. ToSet(hits) \subseteq H
  OBVIOUS
<1> HIDE DEF H
<1>4. all \in Seq(H) /\ ToSet(all) = ToSet(hits) \cup {h} /\ Len(all) = n + 1
  BY <1>2, ToSetAppend
<1>5. all[n + 1] = h /\ \A i \in 1 .. n : all[i] = hits[i]
  BY <1>1, <1>2, AppendProperties
<1> HIDE DEF all
<1>6. all \in Seq(ToSet(all)) /\ DOMAIN all = 1 .. (n + 1)
  BY <1>4, ToSetMember
<1> HIDE DEF n
<1>7. \A g \in ToSet(all) : g.id \in S /\ g.score \in Int
  BY <1>4 DEF Listing
<1>8. ASSUME NEW i \in DOMAIN all, NEW j \in DOMAIN all, all[i].id = all[j].id
      PROVE  i = j
  <2>1. i \in 1 .. n \/ i = n + 1
    BY <1>1, <1>6
  <2>2. j \in 1 .. n \/ j = n + 1
    BY <1>1, <1>6
  <2>3. \A k \in 1 .. n : all[k].id # h.id
    BY <1>1, <1>5
  <2>4. CASE i \in 1 .. n /\ j \in 1 .. n
    BY <1>1, <1>5, <1>8, <2>4 DEF Listing
  <2>5. CASE i = n + 1 /\ j = n + 1
    BY <2>5
  <2>6. CASE i \in 1 .. n /\ j = n + 1
    BY <1>5, <1>8, <2>3, <2>6
  <2>7. CASE i = n + 1 /\ j \in 1 .. n
    BY <1>5, <1>8, <2>3, <2>7
  <2>8. QED
    BY <2>1, <2>2, <2>4, <2>5, <2>6, <2>7
<1>9. QED
  BY <1>6, <1>7, <1>8 DEF Listing, all

\* A choice of some hits.
LEMMA ListingChosen ==
  ASSUME NEW S, NEW hits, Listing(hits, S), NEW at
  PROVE  Listing(Chosen(hits, at), S)
<1> DEFINE c == [list |-> hits, at |-> at]
           V(n) == Choosing!Value(n, c)
           T == {n \in 0 .. Len(hits) :
                   /\ Listing(V(n), S)
                   /\ \A g \in ToSet(V(n)) : \E j \in 1 .. n : g = hits[j]}
<1>1. /\ V(0) = <<>>
      /\ \A n \in Nat : V(n + 1) = IF n + 1 \in at THEN Append(V(n), hits[n + 1]) ELSE V(n)
  BY ChoosingNext
<1> HIDE DEF V
<1>2. Len(hits) \in Nat /\ DOMAIN hits = 1 .. Len(hits)
      /\ \A i \in DOMAIN hits : hits[i] \in ToSet(hits)
  BY ToSetMember DEF Listing
<1>3. 0 \in T
  <2>1. V(0) = <<>>
    BY <1>1
  <2>2. ToSet(V(0)) = {} /\ DOMAIN V(0) = {}
    BY <2>1, ToSetEmpty
  <2>3. V(0) \in Seq(ToSet(V(0)))
    <3> DEFINE none == V(0)
    <3>1. none = <<>>
      BY <2>1
    <3> HIDE DEF none
    <3>2. none \in Seq(ToSet(none))
      BY <3>1, EmptySeq
    <3>3. QED
      BY <3>2 DEF none
  <2>4. Listing(V(0), S)
    BY <2>2, <2>3 DEF Listing
  <2>5. QED
    BY <1>2, <2>2, <2>4
<1>4. ASSUME NEW n \in Nat, n < Len(hits), n \in T
      PROVE  n + 1 \in T
  <2>1. Listing(V(n), S) /\ \A g \in ToSet(V(n)) : \E j \in 1 .. n : g = hits[j]
    BY <1>4
  <2>2. n + 1 \in 0 .. Len(hits) /\ n + 1 \in DOMAIN hits
    BY <1>2, <1>4
  <2>3. CASE n + 1 \in at
    <3> DEFINE h == hits[n + 1]
    <3>1. V(n + 1) = Append(V(n), h)
      BY <1>1, <2>3
    <3>2. h.id \in S /\ h.score \in Int
      BY <1>2, <2>2 DEF Listing
    <3>3. \A g \in ToSet(V(n)) : g.id # h.id
      <4>1. SUFFICES ASSUME NEW g \in ToSet(V(n)), g.id = h.id PROVE FALSE
        OBVIOUS
      <4>2. PICK j \in 1 .. n : g = hits[j]
        BY <2>1
      <4>3. j \in DOMAIN hits /\ j # n + 1
        BY <1>2, <2>2
      <4>4. QED
        BY <2>2, <4>1, <4>2, <4>3 DEF Listing
    <3>4. \A j \in 1 .. n + 1 : j \in 1 .. n \/ j = n + 1
      OBVIOUS
    <3>5. ToSet(V(n + 1)) = ToSet(V(n)) \cup {h}
      <4>1. V(n) \in Seq(ToSet(V(n)))
        BY <2>1 DEF Listing
      <4>2. V(n) \in Seq(ToSet(V(n)) \cup {h}) /\ h \in ToSet(V(n)) \cup {h}
        BY <4>1, SeqMonotonic
      <4> DEFINE H == ToSet(V(n)) \cup {h}
      <4>3. V(n) \in Seq(H) /\ h \in H
        BY <4>2
      <4> HIDE DEF H, h
      <4>4. QED
        BY <3>1, <4>3, ToSetAppend
    <3>6. h = hits[n + 1]
      OBVIOUS
    <3> HIDE DEF h
    <3>7. Listing(V(n + 1), S)
      <4> DEFINE old == V(n)
      <4>1. Listing(old, S) /\ \A g \in ToSet(old) : g.id # h.id
        BY <2>1, <3>3
      <4>2. V(n + 1) = Append(old, h)
        BY <3>1
      <4> HIDE DEF old
      <4>3. Listing(Append(old, h), S)
        BY <3>2, <4>1, ListingAppend
      <4>4. QED
        BY <4>2, <4>3
    <3>8. \A g \in ToSet(V(n + 1)) : \E j \in 1 .. (n + 1) : g = hits[j]
      BY <2>1, <3>5, <3>6
    <3>9. QED
      BY <2>2, <3>7, <3>8
  <2>4. CASE n + 1 \notin at
    <3>1. V(n + 1) = V(n)
      BY <1>1, <2>4
    <3>2. QED
      BY <2>1, <2>2, <3>1
  <2>5. QED
    BY <2>3, <2>4
<1>5. Len(hits) \in T
  <2> HIDE DEF T
  <2>1. \A n \in 0 .. Len(hits) : n \in T
    BY <1>2, <1>3, <1>4, Climb
  <2>2. QED
    BY <1>2, <2>1
<1>6. QED
  BY <1>5 DEF Chosen, V

\* The hits of two lists on different points.
LEMMA ListingConcat ==
  ASSUME NEW S, NEW s, NEW t, Listing(s, S), Listing(t, S),
         \A g \in ToSet(s), h \in ToSet(t) : g.id # h.id
  PROVE  Listing(s \o t, S)
<1> DEFINE H == ToSet(s) \cup ToSet(t)
           all == s \o t
           m == Len(s)
           n == Len(t)
<1>1. /\ s \in Seq(ToSet(s)) /\ t \in Seq(ToSet(t)) /\ m \in Nat /\ n \in Nat
      /\ DOMAIN s = 1 .. m /\ DOMAIN t = 1 .. n
      /\ (\A i \in DOMAIN s : s[i] \in ToSet(s)) /\ (\A i \in DOMAIN t : t[i] \in ToSet(t))
  BY ToSetMember DEF Listing
<1>2. s \in Seq(H) /\ t \in Seq(H)
  BY <1>1, SeqMonotonic
<1>3. ToSet(all) = ToSet(s) \cup ToSet(t)
  <2> HIDE DEF H
  <2>1. QED
    BY <1>2, ToSetConcat
<1> HIDE DEF H
<1>4. all \in Seq(H) /\ Len(all) = m + n
      /\ \A i \in 1 .. (m + n) : all[i] = IF i <= m THEN s[i] ELSE t[i - m]
  BY <1>2, ConcatProperties
<1>5. all \in Seq(ToSet(all)) /\ DOMAIN all = 1 .. (m + n)
  BY <1>4, ToSetMember
<1> HIDE DEF all, m, n
<1>6. \A g \in ToSet(all) : g.id \in S /\ g.score \in Int
  BY <1>3 DEF Listing
<1>7. \A i \in 1 .. (m + n) : IF i <= m THEN i \in DOMAIN s ELSE i - m \in DOMAIN t
  BY <1>1
<1>8. ASSUME NEW i \in DOMAIN all, NEW j \in DOMAIN all, all[i].id = all[j].id
      PROVE  i = j
  <2>1. CASE i <= m /\ j <= m
    BY <1>4, <1>5, <1>7, <1>8, <2>1 DEF Listing
  <2>2. CASE ~ (i <= m) /\ ~ (j <= m)
    <3>1. all[i] = t[i - m] /\ all[j] = t[j - m] /\ i - m \in DOMAIN t /\ j - m \in DOMAIN t
      BY <1>4, <1>5, <1>7, <2>2
    <3>2. i - m = j - m
      BY <1>8, <3>1 DEF Listing
    <3>3. QED
      BY <1>1, <1>5, <3>2
  <2>3. CASE i <= m /\ ~ (j <= m)
    <3>1. all[i] = s[i] /\ all[j] = t[j - m] /\ i \in DOMAIN s /\ j - m \in DOMAIN t
      BY <1>4, <1>5, <1>7, <2>3
    <3>2. QED
      BY <1>1, <1>8, <3>1
  <2>4. CASE ~ (i <= m) /\ j <= m
    <3>1. all[j] = s[j] /\ all[i] = t[i - m] /\ j \in DOMAIN s /\ i - m \in DOMAIN t
      BY <1>4, <1>5, <1>7, <2>4
    <3>2. QED
      BY <1>1, <1>8, <3>1
  <2>5. QED
    BY <2>1, <2>2, <2>3, <2>4
<1>9. QED
  BY <1>5, <1>6, <1>8 DEF Listing, all

\* The first of some hits.
LEMMA ListingUpto ==
  ASSUME NEW S, NEW hits, Listing(hits, S), NEW n \in Nat
  PROVE  Listing(Upto(hits, n), S) /\ ToSet(Upto(hits, n)) \subseteq ToSet(hits)
<1> DEFINE m == Min({Len(hits), n})
           t == Upto(hits, n)
<1>1. hits \in Seq(ToSet(hits)) /\ Len(hits) \in Nat /\ DOMAIN hits = 1 .. Len(hits)
  BY ToSetMember DEF Listing
<1>2. m = IF Len(hits) <= n THEN Len(hits) ELSE n
  BY <1>1, MinOfTwo
<1>3. m \in 0 .. Len(hits)
  BY <1>1, <1>2
<1>4. t = SubSeq(hits, 1, m)
  BY DEF Upto
<1> HIDE DEF m, t
<1>5. t \in Seq(ToSet(hits)) /\ Len(t) = m /\ \A i \in 1 .. m : t[i] = hits[i]
  BY <1>1, <1>3, <1>4
<1>6. DOMAIN t = 1 .. m /\ t \in Seq(ToSet(t)) /\ ToSet(t) \subseteq ToSet(hits)
  BY <1>5, ToSetMember
<1>7. \A i \in DOMAIN t : i \in DOMAIN hits /\ t[i] = hits[i]
  BY <1>1, <1>3, <1>5, <1>6
<1>8. \A i, j \in DOMAIN t : t[i].id = t[j].id => i = j
  BY <1>7 DEF Listing
<1>9. \A h \in ToSet(t) : h.id \in S /\ h.score \in Int
  BY <1>6 DEF Listing
<1>10. QED
  BY <1>6, <1>8, <1>9 DEF Listing, t

\* Hits on some points are hits on any others with them.
LEMMA ListingMore ==
  ASSUME NEW S, NEW R, R \subseteq S, NEW hits, Listing(hits, R)
  PROVE  Listing(hits, S)
BY DEF Listing

-----------------------------------------------------------------------------
(***************************************************************************)
(* The hits of a search                                                    *)
(***************************************************************************)

LEMMA NearestListing ==
  ASSUME NEW S, S \subseteq Points, NEW limit \in Nat
  PROVE  Listing(Nearest(S, limit), S)
<1> DEFINE key == [p \in S |-> <<-Score[p], Place[p]>>]
           all == Hits(Ordered(S, key), Score)
<1>1. \A p \in S : key[p][1] = -Score[p] /\ key[p][2] = Place[p]
  OBVIOUS
<1>2. Nearest(S, limit) = Upto(all, limit)
  BY DEF Nearest
<1> HIDE DEF key
<1>3. \A p \in S : Score[p] \in Int /\ Place[p] \in Int
  BY RankingAssumption
<1>4. IsFiniteSet(S)
  BY CatalogAssumption, FS_Subset
<1>5. \A p \in S : key[p][1] \in Int /\ key[p][2] \in Int
  BY <1>1, <1>3
<1>6. \A p, q \in S : key[p][1] = key[q][1] /\ key[p][2] = key[q][2] => p = q
  BY <1>1, RankingAssumption
<1>7. Keyed(S, key)
  BY <1>4, <1>5, <1>6 DEF Keyed
<1>8. Listing(all, S)
  BY <1>3, <1>7, HitsFacts
<1> HIDE DEF all
<1>9. QED
  BY <1>2, <1>8, ListingUpto

LEMMA ByFieldListing ==
  ASSUME NEW S, S \subseteq Points, NEW goal, goal.field \in NumericFields
  PROVE  Listing(ByField(S, goal), S)
<1> DEFINE has == {p \in S : Products[p][goal.field] # Absent}
           value(p) == Products[p][goal.field]
           key == [p \in has |-> <<Wanted(goal.direction, value(p)), Place[p]>>]
           score == [p \in has |-> 0]
           all == Hits(Ordered(has, key), score)
<1>1. \A p \in has : key[p][1] = Wanted(goal.direction, value(p)) /\ key[p][2] = Place[p]
  OBVIOUS
<1>2. \A p \in has : score[p] \in Int
  OBVIOUS
<1>3. ByField(S, goal) = Upto(all, FieldLimit)
  BY DEF ByField
<1>4. \A p \in has : p \in S /\ p \in Points /\ value(p) # Absent
  OBVIOUS
<1> HIDE DEF key, score
<1>5. \A p \in has : value(p) \in Int
  <2>1. SUFFICES ASSUME NEW p \in has PROVE value(p) \in Int
    OBVIOUS
  <2>2. /\ Products[p]["price"] \in Int /\ Products[p]["rating"] \in Int
        /\ Products[p]["ram_gb"] = Absent \/ Products[p]["ram_gb"] \in Int
    BY <1>4, CatalogAssumption
  <2>3. QED
    BY <1>4, <2>2 DEF NumericFields
<1>6. has \subseteq S /\ has \subseteq Points
  OBVIOUS
<1> HIDE DEF has, value
<1>7. IsFiniteSet(has)
  BY <1>6, CatalogAssumption, FS_Subset
<1>8. \A p \in has : key[p][1] \in Int /\ key[p][2] \in Int
  BY <1>1, <1>5, <1>6, RankingAssumption DEF Wanted
<1>9. \A p, q \in has : key[p][1] = key[q][1] /\ key[p][2] = key[q][2] => p = q
  BY <1>1, <1>6, RankingAssumption
<1>10. Keyed(has, key)
  BY <1>7, <1>8, <1>9 DEF Keyed
<1>11. Listing(all, has)
  BY <1>2, <1>6, <1>10, HitsFacts
<1> HIDE DEF all
<1>12. Listing(Upto(all, FieldLimit), has)
  <2>1. FieldLimit \in Nat
    BY RankingAssumption
  <2>2. QED
    BY <1>11, <2>1, ListingUpto
<1>13. QED
  BY <1>3, <1>6, <1>12, ListingMore

\* What a search ranks by are numbers.
NumericObjectives(objectives) ==
  /\ objectives \in Seq(ToSet(objectives))
  /\ \A o \in ToSet(objectives) : o.field \in NumericFields

LEMMA EffectiveNumeric ==
  ASSUME NEW a, a.sort \in DOMAIN SortGoals \cup {"relevance"}, NumericObjectives(a.objectives)
  PROVE  NumericObjectives(EffectiveObjectives(a))
<1> DEFINE goal == SortGoals[a.sort]
           o == [field |-> goal.field, direction |-> goal.direction,
                 priority |-> "primary", origin |-> "explicit",
                 current |-> TRUE, refs |-> {}]
           all == Append(a.objectives, o)
           S == ToSet(a.objectives) \cup {o}
<1>1. EffectiveObjectives(a) = a.objectives
      \/ (a.sort # "relevance" /\ EffectiveObjectives(a) = all)
  BY DEF EffectiveObjectives
<1>2. ASSUME a.sort # "relevance"
      PROVE  o.field \in NumericFields
  <2>1. o.field = goal.field
    OBVIOUS
  <2>2. goal.field \in {"price", "rating"}
    BY <1>2 DEF SortGoals
  <2>3. QED
    BY <2>1, <2>2 DEF NumericFields
<1> HIDE DEF o
<1>3. all \in Seq(ToSet(all)) /\ ToSet(all) = ToSet(a.objectives) \cup {o}
  <2>1. a.objectives \in Seq(S) /\ o \in S
    BY SeqMonotonic DEF NumericObjectives
  <2> HIDE DEF S
  <2>2. all \in Seq(S) /\ ToSet(all) = ToSet(a.objectives) \cup {o}
    BY <2>1, ToSetAppend
  <2>3. QED
    BY <2>2, ToSetMember
<1> HIDE DEF all
<1>4. QED
  BY <1>1, <1>2, <1>3 DEF NumericObjectives

\* The lanes of a search, one less.
LEMMA FewerLanes ==
  ASSUME NEW lanes, lanes # <<>>, NumericObjectives(lanes)
  PROVE  Head(lanes).field \in NumericFields /\ NumericObjectives(Tail(lanes))
<1>1. lanes \in Seq(ToSet(lanes)) /\ Len(lanes) \in Nat /\ DOMAIN lanes = 1 .. Len(lanes)
      /\ \A i \in DOMAIN lanes : lanes[i] \in ToSet(lanes)
  BY ToSetMember DEF NumericObjectives
<1>2. Len(lanes) # 0
  BY <1>1, EmptySeq
<1>3. Head(lanes) \in ToSet(lanes)
  BY <1>1, HeadTailProperties
<1>4. Tail(lanes) \in Seq(ToSet(lanes))
  BY <1>1, HeadTailProperties
<1>5. Tail(lanes) \in Seq(ToSet(Tail(lanes))) /\ ToSet(Tail(lanes)) \subseteq ToSet(lanes)
  BY <1>4, ToSetMember
<1>6. QED
  BY <1>3, <1>5 DEF NumericObjectives
=============================================================================
