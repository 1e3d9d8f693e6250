----------------------------- MODULE PlanCache ------------------------------
(***************************************************************************)
(* The semantic plan cache of the agent loop (app/agent/runtime.py): one   *)
(* bounded dictionary per process, shared by the runs of all sessions,     *)
(* ordered by the last use of each key.  Its keys are hashes of the        *)
(* question and its context, without the session, so two sessions can meet *)
(* at one key; an entry names its owner and lapses with the owner's        *)
(* session.  The product search is awaited between the lookup and the      *)
(* insertion.                                                              *)
(***************************************************************************)
EXTENDS Integers, FiniteSets

CONSTANTS
  Sessions,   \* sessions served by this process, one run at a time each
  Keys,       \* semantic cache keys
  CacheLimit, \* SEMANTIC_PLAN_CACHE_SIZE
  Expiry,     \* expires_at of each session
  MaxTime,    \* bound of the clock
  MaxPlans    \* bound on the plans the models propose

ASSUME CacheAssumption ==
  /\ CacheLimit \in Nat \ {0} /\ {MaxTime, MaxPlans} \subseteq Nat
  /\ Expiry \in [Sessions -> 1 .. MaxTime]

VARIABLES
  now,     \* time.time()
  cache,   \* the entries of the OrderedDict
  older,   \* its order: the pairs of keys of which the first was used before
  stage,   \* each session: "idle", "ready" (a run at its loop) or "searching"
  key,     \* semantic_cache_key of the run
  planned, \* the plan being executed
  hit,     \* it came from the cache
  latest,  \* history: the last plan each session was given an answer for, by key
  made     \* plans proposed so far

store == <<cache, older>>
cacheVars == <<now, store, stage, key, planned, hit, latest, made>>

PlanNumbers == 0 .. MaxPlans   \* 0: arguments that are no semantic plan
NoPlan == -1

Entries == [key : Keys, owner : Sessions, plan : PlanNumbers \ {0}]

CacheTypeOK ==
  /\ now \in 0 .. MaxTime
  /\ cache \subseteq Entries /\ older \subseteq Keys \X Keys
  /\ stage \in [Sessions -> {"idle", "ready", "searching"}]
  /\ key \in [Sessions -> Keys]
  /\ planned \in [Sessions -> PlanNumbers]
  /\ hit \in [Sessions -> BOOLEAN]
  /\ latest \in [Sessions -> [Keys -> PlanNumbers \cup {NoPlan}]]
  /\ made \in PlanNumbers

InitCache ==
  /\ now = 0
  /\ cache = {} /\ older = {}
  /\ stage = [s \in Sessions |-> "idle"]
  /\ key \in [Sessions -> Keys]
  /\ planned = [s \in Sessions |-> 0]
  /\ hit = [s \in Sessions |-> FALSE]
  /\ latest = [s \in Sessions |-> [k \in Keys |-> NoPlan]]
  /\ made = 0

-----------------------------------------------------------------------------
\* An entry carries its owner's expiry, and so lapses with it.
Lapsed(e) == Expiry[e.owner] <= now

\* _prune_semantic_plan_cache
Pruned == {e \in cache : ~Lapsed(e)}

Without(k) == {e \in cache : e.key # k}

EntriesAt(k) == {e \in cache : e.key = k}

KeysOf(entries) == {e.key : e \in entries}

\* The entries keep their places in the order.
Keep(entries) ==
  /\ cache' = entries
  /\ older' = older \cap (KeysOf(entries) \X KeysOf(entries))

\* Mutants: the owner is not compared, or an entry never lapses.
UsableByAnyone(s, e) == ~Lapsed(e)
UsableForEver(s, e) == e.owner = s

\* The entry found is the run's own and has not lapsed.
Usable(s, e) == e.owner = s /\ ~Lapsed(e)

\* The order with the key of e at the end, as after move_to_end.
Ordered(e) ==
  LET others == KeysOf(Without(e.key))
  IN  (older \cap (others \X others)) \cup (others \X {e.key})

\* move_to_end on a hit
Use(e) == cache' = Without(e.key) \cup {e} /\ older' = Ordered(e)

\* Assignment, move_to_end, and popitem of the oldest beyond the limit: the
\* one that no other is older than.
Insert(e) ==
  LET all == Without(e.key) \cup {e}
      left == IF Cardinality(all) <= CacheLimit THEN all
              ELSE {x \in all : \E y \in all : <<y.key, x.key>> \in Ordered(e)}
  IN  /\ cache' = left
      /\ older' = Ordered(e) \cap (KeysOf(left) \X KeysOf(left))

\* A run starts, which the store refuses for a lapsed session.
BeginRun(s, k) ==
  /\ stage[s] = "idle"
  /\ now < Expiry[s]
  /\ stage' = [stage EXCEPT ![s] = "ready"]
  /\ key' = [key EXCEPT ![s] = k]
  /\ Keep(Pruned)
  /\ UNCHANGED <<now, planned, hit, latest, made>>

\* The model's product_search call: its own plan p, or a usable plan of the
\* cache in its place.  An entry that cannot be used is dropped, even when the
\* arguments (0) are no semantic plan.
Search(s, p) ==
  /\ stage[s] = "ready"
  /\ p \in {0, made + 1} \cap PlanNumbers
  /\ made' = IF p = 0 THEN made ELSE p
  /\ stage' = [stage EXCEPT ![s] = "searching"]
  /\ \/ \E e \in EntriesAt(key[s]) :
          /\ Usable(s, e)
          /\ hit' = [hit EXCEPT ![s] = p # 0]
          /\ planned' = [planned EXCEPT ![s] = IF p = 0 THEN 0 ELSE e.plan]
          /\ IF p = 0 THEN UNCHANGED store ELSE Use(e)
     \/ /\ \A e \in EntriesAt(key[s]) : ~Usable(s, e)
        /\ hit' = [hit EXCEPT ![s] = FALSE]
        /\ planned' = [planned EXCEPT ![s] = p]
        /\ Keep(Without(key[s]))
  /\ UNCHANGED <<now, key, latest>>

\* The search succeeded with a valid plan: the plan is cached with the run's
\* expiry, even when that has passed during the search.
Succeed(s) ==
  /\ stage[s] = "searching"
  /\ stage' = [stage EXCEPT ![s] = "ready"]
  /\ IF planned[s] = 0 THEN UNCHANGED <<store, latest>>
     ELSE /\ Insert([key |-> key[s], owner |-> s, plan |-> planned[s]])
          /\ latest' = [latest EXCEPT ![s][key[s]] = planned[s]]
  /\ UNCHANGED <<now, key, planned, hit, made>>

\* The search failed, timed out, or the plan was invalid: nothing is cached.
Fail(s) ==
  /\ stage[s] = "searching"
  /\ stage' = [stage EXCEPT ![s] = "ready"]
  /\ UNCHANGED <<now, store, key, planned, hit, latest, made>>

EndRun(s) ==
  /\ stage[s] = "ready"
  /\ stage' = [stage EXCEPT ![s] = "idle"]
  /\ UNCHANGED <<now, store, key, planned, hit, latest, made>>

Tick ==
  /\ now < MaxTime
  /\ now' = now + 1
  /\ UNCHANGED <<store, stage, key, planned, hit, latest, made>>

NextCache ==
  \/ Tick
  \/ \E s \in Sessions :
       \/ \E k \in Keys : BeginRun(s, k)
       \/ \E p \in PlanNumbers : Search(s, p)
       \/ Succeed(s) \/ Fail(s) \/ EndRun(s)

CacheSpec == InitCache /\ [][NextCache]_cacheVars

-----------------------------------------------------------------------------
\* A plan replayed from the cache is the one that last succeeded for this very
\* session and key: never another session's, and never one since replaced
\* (runtime.py:459).
ReplaysOwnLatest ==
  \A s \in Sessions :
    stage[s] = "searching" /\ hit[s] => planned[s] = latest[s][key[s]]

\* No plan is replayed once its session has lapsed, although the run of the
\* session may still be going on (runtime.py:464).
NoReplayAfterExpiry ==
  [][\A s \in Sessions :
       stage[s] = "ready" /\ stage'[s] = "searching" /\ hit'[s] => now < Expiry[s]]_cacheVars
=============================================================================
