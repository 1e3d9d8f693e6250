--------------------------- MODULE SessionMemory ----------------------------
(***************************************************************************)
(* The session memory over the turns of one session (app/agent/memory.py): *)
(* a confirmed product state, at most one pending intent with a state of   *)
(* its own, a document topic, a continuation summary and a revision.  Text *)
(* is measured, not kept: a summary is its length, and the serialized size *)
(* counts items.  When an update cannot be built the runtime keeps the     *)
(* memory it had (app/agent/runtime.py:335).                               *)
(***************************************************************************)
EXTENDS Integers, Sequences, SequencesExt, FiniteSetsExt

CONSTANTS
  Plans,        \* the product states the runs of a session may yield
  Limit,        \* 20: constraints and preferences together
  EntityLimit,  \* 3: entities; ranking objectives have the same limit
  MaxSize,      \* session_memory_max_bytes
  SummarySize,  \* length of a fresh continuation summary
  MaxRemoved,   \* bound on the ids one plan removes (20 in the code)
  MaxRevision   \* bound on the revisions explored

ASSUME MemoryAssumption ==
  /\ Limit \in Nat \ {0}
  /\ EntityLimit \in Nat \ {0}
  /\ MaxSize \in Nat /\ SummarySize \in Nat
  /\ \A p \in Plans : /\ Len(p.hard) + Len(p.prefs) <= Limit
                      /\ Len(p.entities) <= EntityLimit
                      /\ Len(p.ranking) <= EntityLimit

\* A plan is a state: seven lists.
ASSUME PlansAssumption ==
  \A p \in Plans :
    p \in [entities : Seq(ToSet(p.entities)), hard : Seq(ToSet(p.hard)),
           prefs : Seq(ToSet(p.prefs)), ranking : Seq(ToSet(p.ranking)),
           questions : Seq(ToSet(p.questions)), conflicts : Seq(ToSet(p.conflicts)),
           selection : Seq(ToSet(p.selection))]

VARIABLES
  memory,  \* the SessionMemory stored in the session
  turn     \* the last turn: its memory action, its result and its outcome

memoryVars == <<memory, turn>>

Actions == {"replace", "merge", "preserve"}

\* "pending": a clarification, nothing found or only alternatives;
\* "unsafe": a clarification of a plan that failed verification.
Results == {"found", "pending", "unsafe", "failed"}

\* An outcome is "stored", "kept", "rejected" by the validator of a state, or
\* "oversized" when nothing more can be trimmed.

\* A state's lists; the selection is one expression or none.
NoState == [entities |-> <<>>, hard |-> <<>>, prefs |-> <<>>, ranking |-> <<>>,
            questions |-> <<>>, conflicts |-> <<>>, selection |-> <<>>]

NoPending == [hard |-> "none"]

InitMemory ==
  /\ memory = [revision |-> 0, summary |-> 0, confirmed |-> NoState,
               pending |-> NoPending, document |-> FALSE]
  /\ turn = [action |-> "preserve", result |-> "failed", outcome |-> "kept",
             plan |-> NoState, removed |-> {}]

-----------------------------------------------------------------------------
\* Mutant: the limit is not applied.
AllItems(s, n) == s

\* A Python list sliced [-n:], which for n = 0 is the whole list.
LastItems(s, n) == IF n = 0 \/ Len(s) <= n THEN s ELSE SubSeq(s, Len(s) - n + 1, Len(s))

\* The items of a list at the positions a filter leaves, in their order.
Chosen(s, positions) ==
  [k \in 1 .. Cardinality(positions) |->
     s[CHOOSE i \in positions : Cardinality({j \in positions : j < i}) = k - 1]]

\* Values of a dictionary filled from both lists, in insertion order.
Union(existing, current) ==
  LET all == existing \o current
  IN  Chosen(all, {i \in DOMAIN all : \A j \in DOMAIN all : j < i => all[j] # all[i]})

\* What the turn says, or what was said before if it says nothing.
Current(current, before) == IF current # <<>> THEN current ELSE before

\* _merge_by_id and _merge_entities: an item is its own identity.
MergeById(existing, current, n) == LastItems(Union(existing, current), n)

\* Mutant: a new value for a field leaves the old one in place.
MergeByValue(existing, current, n) == MergeById(existing, current, n)

\* _merge_predicates and _merge_ranking_objectives: what the turn says of a
\* field replaces what was said of it.
MergeByField(existing, current, n) ==
  MergeById(Chosen(existing, {i \in DOMAIN existing :
                                \A y \in ToSet(current) : y.field # existing[i].field}),
            current, n)

Kept(s, removed) == Chosen(s, {i \in DOMAIN s : s[i] \notin removed})

\* Mutant: what the user took back is merged again.
MergeWithoutRemoval(base, current, removed) ==
  LET hard == MergeByField(base.hard, current.hard, Limit)
  IN  [entities  |-> MergeById(base.entities, current.entities, EntityLimit),
       hard      |-> hard,
       prefs     |-> MergeByField(base.prefs, current.prefs, Limit - Len(hard)),
       ranking   |-> MergeByField(base.ranking, current.ranking, EntityLimit),
       questions |-> Current(current.questions, base.questions),
       conflicts |-> current.conflicts,
       selection |-> Current(current.selection, base.selection)]

\* _merge_product_state
Merge(base, current, removed) ==
  LET hard == MergeByField(Kept(base.hard, removed), current.hard, Limit)
  IN  [entities  |-> MergeById(Kept(base.entities, removed), current.entities, EntityLimit),
       hard      |-> hard,
       prefs     |-> MergeByField(Kept(base.prefs, removed), current.prefs,
                                  Limit - Len(hard)),
       ranking   |-> MergeByField(Kept(base.ranking, removed), current.ranking, EntityLimit),
       questions |-> Current(current.questions, base.questions),
       conflicts |-> current.conflicts,
       selection |-> Current(current.selection, base.selection)]

\* action "preserve": only the questions of the turn and what came out of it
\* are taken over.
Preserve(base, current) ==
  [base EXCEPT !.questions = Current(current.questions, @), !.conflicts = current.conflicts]

\* The state the conversation stands at: the pending intent if one is open.
Active(m) == IF m.pending # NoPending THEN m.pending ELSE m.confirmed

\* Mutant: a merge continues the confirmed state, past the pending intent.
NextStateOfConfirmed(action, current, removed) ==
  CASE action = "replace"  -> current
    [] action = "preserve" -> Preserve(memory.confirmed, current)
    [] action = "merge"    -> Merge(memory.confirmed, current, removed)

\* The state a product turn leads to; the base of a merge is the active state,
\* that of a preserve the confirmed one, whether or not an intent is pending.
NextState(action, current, removed) ==
  CASE action = "replace"  -> current
    [] action = "preserve" -> Preserve(memory.confirmed, current)
    [] action = "merge"    -> Merge(Active(memory), current, removed)

\* The validator of ProductMemoryState.
Valid(s) == Len(s.hard) + Len(s.prefs) <= Limit

\* Mutant: the pending turn confirms what it could not verify.
WithProductConfirming(result, s) ==
  IF result = "found" THEN [memory EXCEPT !.confirmed = s, !.pending = NoPending]
  ELSE [memory EXCEPT !.confirmed = s, !.pending = s]

\* _update_product_memory
WithProduct(result, s) ==
  IF result = "found" THEN [memory EXCEPT !.confirmed = s, !.pending = NoPending]
  ELSE [memory EXCEPT !.pending = s]

-----------------------------------------------------------------------------
StateSize(s) ==
  Len(s.entities) + Len(s.hard) + Len(s.prefs) + Len(s.ranking) + Len(s.questions)
  + Len(s.conflicts) + Len(s.selection)

Size(m) ==
  m.summary + StateSize(m.confirmed)
  + (IF m.pending = NoPending THEN 0 ELSE 1 + StateSize(m.pending))
  + (IF m.document THEN 1 ELSE 0)

Overflow(m) == IF Size(m) > MaxSize THEN Size(m) - MaxSize ELSE 0

\* A list without its last n items, or empty.
Shortened(s, n) == SubSeq(s, 1, Len(s) - n)

Shorten(s, part, n) == [s EXCEPT ![part] = Shortened(@, n)]

TrimConfirmed(m, part) == [m EXCEPT !.confirmed = Shorten(@, part, Overflow(m))]

TrimPending(m, part) ==
  IF m.pending = NoPending THEN m
  ELSE [m EXCEPT !.pending = Shorten(@, part, Overflow(m))]

TrimSummary(m) == [m EXCEPT !.summary = IF @ > Overflow(m) THEN @ - Overflow(m) ELSE 0]

Trim(m, part) == TrimPending(TrimConfirmed(m, part), part)

\* _fit_memory, with what it gives up in its order.
Fit(m) ==
  Trim(Trim(Trim(Trim(Trim(TrimSummary(m),
    "questions"), "prefs"), "ranking"), "conflicts"), "selection")

-----------------------------------------------------------------------------
\* The items a merge removes by their ids.
Mergeable(s) == UNION {ToSet(s.entities), ToSet(s.hard), ToSet(s.prefs), ToSet(s.ranking)}

\* The pending intent has an id of its own.
Intent == [intent |-> "pending"]

\* Ids the plan may name for removal: all that the model was shown, those of
\* fact questions and of the pending intent included, which no merge removes.
Shown(s) == Mergeable(s) \cup ToSet(s.questions)

Removable ==
  Shown(memory.confirmed)
  \cup (IF memory.pending = NoPending THEN {} ELSE Shown(memory.pending) \cup {Intent})

\* What becomes of an update: it is trimmed and stored under the next
\* revision, or, when it cannot be built, the memory is left as it was.
Update(valid, after) ==
  CASE ~valid -> [outcome |-> "rejected", memory |-> memory]
    [] valid /\ Size(Fit(after)) > MaxSize -> [outcome |-> "oversized", memory |-> memory]
    [] OTHER -> [outcome |-> "stored",
                 memory |-> [Fit(after) EXCEPT !.revision = memory.revision + 1]]

ConcludeTurn(action, current, removed, result, update) ==
  /\ memory' = update.memory
  /\ turn' = [action |-> action, result |-> result, outcome |-> update.outcome,
              plan |-> current, removed |-> removed]

\* A product search that succeeded and is safe decides the memory.
ProductTurn(action, current, removed, result) ==
  LET next == NextState(action, current, removed)
  IN  /\ result \in {"found", "pending"}
      /\ memory.revision < MaxRevision
      /\ ConcludeTurn(action, current, removed, result,
                  Update(Valid(next),
                         [WithProduct(result, next) EXCEPT !.summary = SummarySize]))

\* Otherwise a document search that succeeded does: it touches its topic only.
DocumentTurn(result) ==
  /\ result \in {"unsafe", "failed"}
  /\ memory.revision < MaxRevision
  /\ ConcludeTurn("merge", NoState, {}, result,
              Update(TRUE, [memory EXCEPT !.document = TRUE, !.summary = SummarySize]))

\* Anything else preserves the memory and its revision.
OtherTurn(result) ==
  /\ result \in {"unsafe", "failed"}
  /\ ConcludeTurn("preserve", NoState, {}, result,
              [outcome |-> "kept", memory |-> memory])

\* The sets of at most n ids.
UpTo(n, ids) == UNION {kSubset(k, ids) : k \in 0 .. n}

NextMemory ==
  \/ \E current \in Plans, result \in Results :
       \/ \E removed \in UpTo(MaxRemoved, Removable) :
            ProductTurn("merge", current, removed, result)
       \/ \E action \in Actions \ {"merge"} : ProductTurn(action, current, {}, result)
  \/ \E result \in Results : DocumentTurn(result)
  \/ \E result \in Results : OtherTurn(result)

MemorySpec == InitMemory /\ [][NextMemory]_memoryVars

-----------------------------------------------------------------------------
\* The states a memory holds.
Held == {memory.confirmed} \cup ({memory.pending} \ {NoPending})

\* However turns merge, replace and trim, what is stored fits every limit
\* (memory.py:65, 1010).
MemoryBounded ==
  /\ Size(memory) <= MaxSize
  /\ \A s \in Held :
       /\ Len(s.hard) + Len(s.prefs) <= Limit
       /\ Len(s.entities) <= EntityLimit /\ Len(s.ranking) <= EntityLimit

\* The state the last turn led to.
Target == IF turn.result = "found" THEN memory.confirmed ELSE memory.pending

\* What the last turn says of a field in a list is all that the list says of
\* it: a price range of this turn (two conditions) is not left next to an
\* older price, nor a new direction next to an older one (memory.py:985).  A
\* constraint and a preference may speak of one field (memory.py:650).
LatestWordOnField ==
  turn.outcome = "stored" /\ turn.result \in {"found", "pending"}
    /\ turn.action \in {"merge", "replace"} =>
      \A part \in {"hard", "prefs", "ranking"} :
        \A x \in ToSet(Target[part]), y \in ToSet(turn.plan[part]) :
          x.field = y.field => x \in ToSet(turn.plan[part])

\* Constraints and entities enter or leave the confirmed state only in a turn
\* that found products; any other turn may at most shorten its preferences to
\* make room (memory.py:449, 1010).
ConfirmedVerified ==
  [][LET old == memory.confirmed
         new == memory'.confirmed
     IN  turn'.result # "found" =>
           /\ new.hard = old.hard /\ new.entities = old.entities
           /\ IsPrefix(new.prefs, old.prefs) /\ IsPrefix(new.ranking, old.ranking)]_memoryVars

\* A state carries an older one on: every constraint of it that was neither
\* taken back nor stated anew for its field, and every entity that was not
\* taken back, unless old and new together exceed the limit.
CarriesOn(s, old, plan, removed) ==
  /\ Len(old.hard) + Len(plan.hard) <= Limit =>
       \A x \in ToSet(old.hard) :
         \/ x \in ToSet(s.hard) \cup removed
         \/ \E y \in ToSet(plan.hard) : y.field = x.field
  /\ Len(old.entities) + Len(plan.entities) <= EntityLimit =>
       ToSet(old.entities) \subseteq ToSet(s.entities) \cup removed

\* A merge carries the active state on through clarifications, empty searches
\* and found products: an open intent is continued and not forgotten, even
\* over a confirmed state that says something else.  A preserve leaves the
\* constraints and entities as they were when no intent is open; over an open
\* one it falls back to the confirmed state, and closes the intent or takes its
\* place (memory.py:412, 429, 473).
ActiveCarriedOn ==
  [][turn'.outcome = "stored" /\ turn'.result \in {"found", "pending"} =>
       /\ turn'.action = "merge" =>
            CarriesOn(Target', Active(memory), turn'.plan, turn'.removed)
       /\ turn'.action = "preserve" /\ memory.pending = NoPending =>
            /\ Target'.hard = memory.confirmed.hard
            /\ Target'.entities = memory.confirmed.entities]_memoryVars

\* A constraint, preference, entity or ranking objective that a merge was told
\* to remove is gone from the state it leads to, unless the same turn states it
\* again (memory.py:641).  A fact question so named stays, unless the turn asks
\* others (memory.py:667), and so does the pending intent.
RemovedGone ==
  turn.outcome = "stored" /\ turn.action = "merge" /\ turn.result \in {"found", "pending"} =>
    turn.removed \cap Mergeable(Target) \subseteq Mergeable(turn.plan)

\* memory.py:84: "session memory supports at most 20 constraints and
\* preferences".  The limit given to the merge of preferences keeps to it.  It
\* fails: a limit of 0 keeps them all, and the whole update is lost.
MergeKeepsLimit == turn.outcome # "rejected"
=============================================================================
