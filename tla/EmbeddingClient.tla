--------------------------- MODULE EmbeddingClient --------------------------
(***************************************************************************)
(* AzureEmbeddingClient.embed (embeddings/azure.py) and the cache of       *)
(* vectors it shares with every other process (embeddings/cache.py).  A    *)
(* job is one call of embed: it looks its texts up, asks the service for   *)
(* the missing ones in batches and stores what each batch brings, text by  *)
(* text.  A key is a text with its version; a vector is told apart only by *)
(* the key it was made of.  Jobs interleave, each step of one being a      *)
(* request or a transaction of the cache.                                  *)
(***************************************************************************)
EXTENDS Naturals, FiniteSets, SequencesExt

CONSTANTS
  Keys,
  Jobs,
  TextsOf,       \* the keys of each job, in the order of its results
  Attempts,      \* max_attempts of the client of each job
  BatchSize,     \* batch_size
  NoVector,
  Malformed      \* a vector of the wrong length, or with an infinite value

ASSUME JobsAssumption ==
  /\ TextsOf \in [Jobs -> Seq(Keys) \ {<<>>}]
  /\ Attempts \in [Jobs -> Nat \ {0}] /\ BatchSize \in Nat \ {0}
  /\ {NoVector, Malformed} \cap Keys = {}

VARIABLES
  cache,     \* embedding_cache: the vector stored for each key
  job,       \* the state of each job
  answered   \* the keys the last run of each job has had vectors for

clientVars == <<cache, job, answered>>

Positions(j) == DOMAIN TextsOf[j]

\* at: where the job is; pos: the next text to look up; results and missing:
\* the variables of embed; batch: the part of missing under way; attempt:
\* requests made for it; vectors: what it brought and is not yet stored.
NotBegun(j) ==
  [at |-> "idle", refresh |-> FALSE, pos |-> 1,
   results |-> [i \in Positions(j) |-> NoVector],
   missing |-> <<>>, batch |-> <<>>, attempt |-> 0, vectors |-> <<>>, known |-> {}]

ClientInit ==
  /\ cache = [k \in Keys |-> NoVector]
  /\ job = [j \in Jobs |-> NotBegun(j)]
  /\ answered = [j \in Jobs |-> {}]

Running(j) == job[j].at \in {"look", "ask", "store"}

Cached == {k \in Keys : cache[k] # NoVector}

\* The texts of the batch under way.
Asked(j) == [k \in DOMAIN job[j].batch |-> TextsOf[j][job[j].batch[k]]]

-----------------------------------------------------------------------------
Rearrangements(s) == {[k \in DOMAIN s |-> s[p[k]]] : p \in Bijection(DOMAIN s, DOMAIN s)}

\* The service answers with one item for each text, in any order; or with
\* too few, with an index twice, or with a vector that is none.
Responses(texts) ==
  LET whole == Rearrangements([k \in DOMAIN texts |-> [index |-> k, vector |-> texts[k]]])
  IN  whole
      \cup {Tail(r) : r \in whole}
      \cup {[r EXCEPT ![1].index = 1, ![Len(r)].index = 1] : r \in whole}
      \cup {[r EXCEPT ![1].vector = Malformed] : r \in whole}

\* The items by index; an answer with an index twice is refused, whatever the
\* order of the two.
OrderedItems(response) ==
  {ordered \in Rearrangements(response) :
     \A k, l \in DOMAIN ordered : k < l => ordered[k].index <= ordered[l].index}

\* Mutant: the indexes are not compared with 1 .. count.
WellFormedByCount(ordered, count) ==
  /\ Len(ordered) = count
  /\ \A k \in DOMAIN ordered : ordered[k].vector # Malformed

WellFormed(ordered, count) ==
  /\ Len(ordered) = count
  /\ \A k \in DOMAIN ordered : ordered[k].index = k /\ ordered[k].vector # Malformed

-----------------------------------------------------------------------------
Begin(j, refresh) ==
  /\ job' = [job EXCEPT ![j] = [NotBegun(j) EXCEPT !.at = "look", !.refresh = refresh,
                                                   !.known = Cached]]
  /\ answered' = [answered EXCEPT ![j] = {}]
  /\ UNCHANGED cache

\* Mutant: a batch begins with the last text of the one before.
NextBatchAgain(b) ==
  LET n == IF Len(b.missing) < BatchSize THEN Len(b.missing) ELSE BatchSize
  IN  IF n = 0 THEN [b EXCEPT !.at = IF NoVector \in Range(b.results) THEN "failed" ELSE "done"]
      ELSE [b EXCEPT !.at = "ask", !.attempt = 1, !.batch = SubSeq(b.missing, 1, n),
                     !.missing = SubSeq(b.missing, n, Len(b.missing))]

\* Up to batch_size of the texts still missing are asked for next; when none
\* are, embed returns, unless a vector is missing after all.
NextBatch(b) ==
  LET n == IF Len(b.missing) < BatchSize THEN Len(b.missing) ELSE BatchSize
  IN  IF n = 0 THEN [b EXCEPT !.at = IF NoVector \in Range(b.results) THEN "failed" ELSE "done"]
      ELSE [b EXCEPT !.at = "ask", !.attempt = 1, !.batch = SubSeq(b.missing, 1, n),
                     !.missing = SubSeq(b.missing, n + 1, Len(b.missing))]

Get(key) == cache[key]

LookUp(j) ==
  /\ job[j].at = "look"
  /\ LET b == job[j]
         found == IF b.refresh THEN NoVector ELSE Get(TextsOf[j][b.pos])
         seen == [b EXCEPT !.pos = @ + 1, !.results[b.pos] = found,
                           !.missing = IF found = NoVector THEN Append(@, b.pos) ELSE @]
     IN  job' = [job EXCEPT ![j] = IF b.pos = Len(TextsOf[j]) THEN NextBatch(seen) ELSE seen]
  /\ UNCHANGED <<cache, answered>>

Fail(j) == job' = [job EXCEPT ![j].at = "failed"]

\* A whole answer is taken, any other ends the job; it is not asked again.
RequestBatch(j) ==
  /\ job[j].at = "ask"
  /\ \E response \in Responses(Asked(j)) : \E ordered \in OrderedItems(response) :
       IF WellFormed(ordered, Len(Asked(j)))
       THEN /\ job' = [job EXCEPT ![j].at = "store",
                                  ![j].vectors = [k \in DOMAIN ordered |-> ordered[k].vector]]
            /\ answered' = [answered EXCEPT ![j] = @ \cup Range(Asked(j))]
       ELSE Fail(j) /\ UNCHANGED answered
  /\ UNCHANGED cache

\* A timeout, a lost connection, 429 or 5xx.
RetryRequest(j) ==
  /\ job[j].at = "ask"
  /\ IF job[j].attempt < Attempts[j]
     THEN job' = [job EXCEPT ![j].attempt = @ + 1]
     ELSE Fail(j)
  /\ UNCHANGED <<cache, answered>>

\* Any other status is not tried again; the cache may be locked or full.
RequestRefused(j) ==
  /\ job[j].at \in {"ask", "store"}
  /\ Fail(j)
  /\ UNCHANGED <<cache, answered>>

\* Mutant: the vectors are stored when the last batch is in.
PutAtTheEnd(j, key, vector) ==
  IF job[j].missing = <<>>
  THEN [k \in Keys |-> IF k \in answered[j] THEN k ELSE cache[k]]
  ELSE cache

Put(j, key, vector) == [cache EXCEPT ![key] = vector]

\* One text of the batch: its result and its row.
StoreVector(j) ==
  /\ job[j].at = "store"
  /\ LET b == job[j]
         p == Head(b.batch)
         stored == [b EXCEPT !.results[p] = Head(b.vectors),
                             !.batch = Tail(@), !.vectors = Tail(@)]
     IN  /\ cache' = Put(j, TextsOf[j][p], Head(b.vectors))
         /\ job' = [job EXCEPT ![j] = IF Len(b.batch) = 1 THEN NextBatch(stored) ELSE stored]
  /\ UNCHANGED answered

EmbedStep(j) ==
  \/ LookUp(j) \/ RequestBatch(j) \/ RetryRequest(j) \/ RequestRefused(j) \/ StoreVector(j)

-----------------------------------------------------------------------------
\* Properties.

\* Whatever the order of the answer, of batches that skip what was cached and
\* of other jobs: a vector is stored and returned for its own text, and a job
\* that is done has one for every text.
VectorsBelong ==
  /\ \A k \in Keys : cache[k] \in {k, NoVector}
  /\ \A j \in Jobs : \A i \in Positions(j) :
       \/ job[j].results[i] = TextsOf[j][i]
       \/ job[j].results[i] = NoVector /\ job[j].at # "done"

\* "Small local cache that keeps Azure calls resumable" (cache.py:11): a run
\* asks for nothing that was cached when it began, and wherever a run is cut,
\* at most one batch of what it was answered is not cached.
Resumable ==
  \A j \in Jobs :
    /\ Running(j) /\ ~job[j].refresh => Range(Asked(j)) \cap job[j].known = {}
    /\ Cardinality(answered[j] \ Cached) <= BatchSize
=============================================================================
