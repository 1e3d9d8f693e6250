------------------------------ MODULE Catalog -------------------------------
(***************************************************************************)
(* What the loaded catalogue says of the words of a plan                   *)
(* (app/tools/catalog.py): the value a predicate's text stands for, the    *)
(* product or facet an entity's text stands for, which fields are known    *)
(* and sortable, and the mapping of the filters of a flat search.          *)
(* A text is a model value with its normal form and its set of words.      *)
(***************************************************************************)
EXTENDS Expression

CONSTANTS
  Points,         \* every product id that Qdrant may hold a point of
  Products,       \* its record: the catalogue's product and the payload
  Loaded,         \* the products of the loaded catalogue
  Follows(_, _),  \* the first text is the second, a blank and more
  WordsOf(_),     \* the words of a text
  Near(_)         \* words one edit away and itself; itself, if it has a digit

ASSUME CatalogAssumption ==
  /\ IsFiniteSet(Points) /\ Absent \notin Points
  /\ Loaded \subseteq Points
  /\ DOMAIN Products = Points
  /\ \A p \in Points :
       /\ Products[p].product_id = p
       /\ \A f \in RawFields \cup NormalisedFields : Products[p][f] \in Texts
       /\ Products[p].price \in Int /\ Products[p].rating \in Int
       /\ Products[p].ram_gb = Absent \/ Products[p].ram_gb \in Int
       /\ \A f \in NumericFields \cup BooleanFields : Products[p][f] \notin Texts
       /\ \A f \in RawFields : Normal(Products[p][f]) = Products[p][f]

FacetFields == {"category_id", "brand", "model", "model_family", "color_code"}

\* _build_facet_registry and _build_global_facets
Facets(field) ==
  IF field \in FacetFields THEN {Products[p][field] : p \in Loaded} ELSE {}

Exact(text, values) == {v \in values : Same(v, text)}
Prefixed(text, values) == {v \in values : Follows(v, text) \/ Follows(text, v)}

TheOnly(S) == CHOOSE x \in S : TRUE

\* resolve_facet_namespaces: the fields in which the text is one value.
Namespaces(text) ==
  {[field |-> f, status |-> "resolved", value |-> TheOnly(Exact(text, Facets(f)))] :
     f \in {g \in FacetFields : Cardinality(Exact(text, Facets(g))) = 1}}

\* resolve_predicate_value
ResolveValue(field, text) ==
  LET exact == Exact(text, Facets(field))
      prefixed == Prefixed(text, Facets(field))
      Resolved(status, value) == [field |-> field, status |-> status, value |-> value]
  IN  IF Facets(field) = {} THEN Resolved("not_applicable", text)
      ELSE IF Cardinality(exact) = 1 THEN Resolved("resolved", TheOnly(exact))
      ELSE IF Cardinality(prefixed) = 1 THEN Resolved("resolved", TheOnly(prefixed))
      ELSE Resolved(IF exact \cup prefixed = {} THEN "unmapped" ELSE "ambiguous", text)

\* _resolve_unique: Absent where no value, or more than one, is meant.
ResolveUnique(text, values) ==
  LET exact == Exact(text, values)
      prefixed == Prefixed(text, values)
  IN  IF text = Absent THEN Absent
      ELSE IF Cardinality(exact) = 1 THEN TheOnly(exact)
      ELSE IF Cardinality(prefixed) = 1 THEN TheOnly(prefixed)
      ELSE Absent

-----------------------------------------------------------------------------
\* Entities.

Resolution(status, product, field, value, candidates) ==
  [status |-> status, product |-> product, field |-> field, value |-> value,
   candidates |-> candidates]

Unresolved == Resolution("unresolved", Absent, Absent, Absent, {})

\* _resolution_from_ids
FromIds(ids) ==
  IF Cardinality(ids) = 1
  THEN Resolution("resolved", TheOnly(ids), Absent, Absent, ids)
  ELSE Resolution("ambiguous", Absent, Absent, Absent, ids)

\* The identifier indexes, in the order they are asked.
Indexes(type) ==
  CASE type = "auto" -> <<"product_id", "sku", "model", "name">>
    [] type = "model_family" -> <<>>
    [] OTHER -> <<type>>

Named(index, text) == {p \in Loaded : Same(Products[p][index], text)}

\* _build_resolution_indexes: the words under which a product is found.
EntityWords(p) == WordsOf(Products[p].model) \cup WordsOf(Products[p].name)

HasEveryWord(text) == {p \in Loaded : WordsOf(text) \subseteq EntityWords(p)}

HasAlmostEveryWord(text) ==
  {p \in Loaded : \A w \in WordsOf(text) : Near(w) \cap EntityWords(p) # {}}

SameLength(text, ids) ==
  {p \in ids : Cardinality(WordsOf(Products[p].model)) = Cardinality(WordsOf(text))}

\* resolve_entity: identifiers before facets, facets before words, exact
\* words before words with a slip.
ResolveEntity(text, type) ==
  LET hits == {i \in DOMAIN Indexes(type) : Named(Indexes(type)[i], text) # {}}
      facets == {n \in [field : {"model_family", "brand", "category_id"},
                        value : UNION {Facets(f) : f \in FacetFields}] :
                   /\ type \in {"auto", "model_family"}
                   /\ n.value \in Exact(text, Facets(n.field))}
      near == HasAlmostEveryWord(text)
      fitting == SameLength(text, near)
  IN  IF hits # {} THEN FromIds(Named(Indexes(type)[Min(hits)], text))
      ELSE IF Cardinality(facets) = 1 THEN
        Resolution("constraint_entity", Absent, TheOnly(facets).field,
                   TheOnly(facets).value, {})
      ELSE IF facets # {} THEN Resolution("ambiguous", Absent, Absent, Absent, {})
      ELSE IF HasEveryWord(text) # {} THEN FromIds(HasEveryWord(text))
      ELSE IF fitting # {} THEN FromIds(fitting)
      ELSE IF near # {} THEN FromIds(near)
      ELSE Unresolved

-----------------------------------------------------------------------------
\* Fields.

\* _build_field_capabilities: the categories whose products have the field.
Categories(field) ==
  {Products[p].category_id : p \in {q \in Loaded : Products[q][field] # Absent}}

KnownFields ==
  RawFields \cup NormalisedFields \cup NumericFields \cup BooleanFields \cup {"name"}

SupportsField(field) == field \in KnownFields

Sortable(field, wanted) ==
  /\ field \in NumericFields
  /\ Categories(field) # {}
  /\ wanted = {} \/ wanted \cap Categories(field) # {}

-----------------------------------------------------------------------------
\* Flat search arguments.

\* canonicalize_search_arguments: values are read within the category and
\* the brand; one that cannot be read stays if it is required, a model always.
Canonicalize(a) ==
  LET inCategory == {p \in Loaded : a.category_id \in {Absent, Products[p].category_id}}
      brand == ResolveUnique(a.brand, {Products[p].brand : p \in inCategory})
      scope == {p \in inCategory : brand \in {Absent, Products[p].brand}}
      Mapped(field) == ResolveUnique(a[field], {Products[p][field] : p \in scope})
      Preference(field) ==
        IF Mapped(field) # Absent \/ field \notin a.required THEN Mapped(field) ELSE a[field]
  IN  [a EXCEPT !.brand = Preference("brand"),
                !.model_family = Preference("model_family"),
                !.model = IF Mapped("model") # Absent THEN Mapped("model") ELSE a.model]
=============================================================================
