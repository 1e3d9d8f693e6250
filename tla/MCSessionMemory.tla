-------------------------- MODULE MCSessionMemory ---------------------------
(***************************************************************************)
(* A small instance of SessionMemory for TLC: two constraints at most, two *)
(* conditions on one field (alone, together as a range, or one twice, from *)
(* both branches of a fallback), one entity, one question.                 *)
(***************************************************************************)
EXTENDS SessionMemory

Is(f, v) == [field |-> f, value |-> v]

Ranked(d) == [field |-> "price", direction |-> d]
Product(p) == [product |-> p]
Question(f) == [asked |-> f]

Stated(hard, prefs) == [NoState EXCEPT !.hard = hard, !.prefs = prefs]

SmallPlans ==
  {Stated(h, <<>>) : h \in {<<Is("price", 1)>>, <<Is("price", 1), Is("price", 2)>>,
                            <<Is("brand", 1)>>, <<Is("brand", 1), Is("brand", 1)>>}}
  \cup {Stated(h, <<Is("colour", 1)>>) : h \in {<<>>, <<Is("price", 2)>>}}
  \cup {[NoState EXCEPT !.entities = <<Product("phone")>>, !.ranking = <<Ranked("max")>>,
                        !.questions = <<Question("warranty")>>, !.selection = <<"phone">>],
        [NoState EXCEPT !.entities = <<Product("laptop")>>, !.ranking = <<Ranked("min")>>,
                        !.conflicts = <<"too dear">>]}
=============================================================================
