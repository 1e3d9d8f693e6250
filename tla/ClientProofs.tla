----------------------------- MODULE ClientProofs ----------------------------
(***************************************************************************)
(* The two clients that keep copies of what others own.                    *)
(*                                                                         *)
(* Embedding jobs for any texts, batch size, number of jobs and of their   *)
(* threads and processes, however they are cut off, timed out or run       *)
(* again: every vector is the one of its text, and what a job was answered *)
(* is cached but for one batch.                                            *)
(*                                                                         *)
(* The chat page for any number of tabs and any limits: every copy of a    *)
(* chat is one conversation with one backend session, the chat on the      *)
(* screen is in the list that is saved, and a tab takes back nothing it    *)
(* has shown.                                                              *)
(***************************************************************************)
EXTENDS ToolExecution, BrowserChat, FiniteSetTheorems, SequenceTheorems, TLAPS

\* A sequence given as a function is as long as its domain.
LEMMA Enumerated ==
  ASSUME NEW S, NEW n \in Nat, NEW f \in [1 .. n -> S]
  PROVE  f \in Seq(S) /\ Len(f) = n
<1>1. f \in Seq(S)
  BY SeqDef
<1> QED BY <1>1, LenProperties

-----------------------------------------------------------------------------
(***************************************************************************)
(* Embedding jobs                                                          *)
(***************************************************************************)

Labels == {"idle", "look", "ask", "store", "done", "failed", "over"}

\* The state of a job of j.
States(j) ==
  [at : Labels, refresh : BOOLEAN, pos : Nat,
   results : [Positions(j) -> Keys \cup {NoVector}],
   missing : Seq(Positions(j)), batch : Seq(Positions(j)),
   attempt : Nat, vectors : Seq(Keys), known : SUBSET Keys]

\* The results so far, and the vectors about to be stored, are of their texts.
OwnVectors(j, b) ==
  /\ \A i \in Positions(j) : b.results[i] \in {TextsOf[j][i], NoVector}
  /\ b.at = "store" => \A k \in 1 .. Len(b.batch) : b.vectors[k] = TextsOf[j][b.batch[k]]

\* How much there is to do, by where the job is.
Shape(j, b) ==
  /\ b.at = "look" => b.pos \in Positions(j) /\ b.batch = <<>>
  /\ b.at \in {"ask", "store"} => Len(b.batch) \in 1 .. BatchSize
  /\ b.at = "store" => Len(b.vectors) = Len(b.batch)
  /\ b.at = "done" => NoVector \notin Range(b.results)

\* A job asks for nothing that was cached when it began.
Unasked(j, b) ==
  b.at \in {"look", "ask", "store"} /\ ~b.refresh =>
    /\ \A k \in DOMAIN b.missing : TextsOf[j][b.missing[k]] \notin b.known
    /\ \A k \in DOMAIN b.batch : TextsOf[j][b.batch[k]] \notin b.known

TextsIn(j, s) == {TextsOf[j][s[k]] : k \in DOMAIN s}

\* What the job was answered is cached but for the batch under way.
AlmostCached(j, b) ==
  /\ b.at = "look" => answered[j] = {}
  /\ b.at = "ask" => answered[j] \subseteq Cached
  /\ b.at = "store" => answered[j] \ Cached \subseteq TextsIn(j, b.batch)
  /\ IsFiniteSet(answered[j] \ Cached) /\ Cardinality(answered[j] \ Cached) <= BatchSize

\* What concerns the job alone.
OwnOK(j, b) ==
  /\ b \in States(j)
  /\ OwnVectors(j, b)
  /\ Shape(j, b)
  /\ Unasked(j, b)

JobOK(j) ==
  /\ OwnOK(j, job[j])
  /\ job[j].known \subseteq Cached
  /\ AlmostCached(j, job[j])

EmbedInv ==
  /\ cache \in [Keys -> Keys \cup {NoVector}]
  /\ DOMAIN job = Jobs
  /\ answered \in [Jobs -> SUBSET Keys]
  /\ \A k \in Keys : cache[k] \in {k, NoVector}
  /\ \A j \in Jobs : JobOK(j)

-----------------------------------------------------------------------------
LEMMA Texts ==
  ASSUME NEW j \in Jobs
  PROVE  /\ TextsOf[j] \in Seq(Keys) /\ Len(TextsOf[j]) \in Nat \ {0}
         /\ Positions(j) = 1 .. Len(TextsOf[j])
         /\ \A i \in Positions(j) : TextsOf[j][i] \in Keys
<1>1. TextsOf[j] \in Seq(Keys) /\ TextsOf[j] # <<>>
  BY JobsAssumption
<1> QED BY <1>1, EmptySeq DEF Positions

\* A whole answer that is taken gives each text its own vector, and no other
\* answer is taken.
LEMMA WholeAnswer ==
  ASSUME NEW texts \in Seq(Keys), texts # <<>>,
         NEW response \in Responses(texts),
         NEW ordered \in OrderedItems(response), WellFormed(ordered, Len(texts))
  PROVE  /\ DOMAIN ordered = 1 .. Len(texts)
         /\ \A k \in 1 .. Len(texts) : ordered[k].vector = texts[k]
<1> DEFINE n     == Len(texts)
           items == [k \in DOMAIN texts |-> [index |-> k, vector |-> texts[k]]]
           whole == Rearrangements(items)
<1>1. n \in Nat \ {0} /\ DOMAIN texts = 1 .. n /\ DOMAIN items = 1 .. n
  BY EmptySeq
<1>2. PICK q \in Bijection(DOMAIN response, DOMAIN response) :
        ordered = [k \in DOMAIN response |-> response[q[k]]]
  BY DEF OrderedItems, Rearrangements
<1>3. /\ DOMAIN ordered = DOMAIN response
      /\ \A k \in DOMAIN response : q[k] \in DOMAIN response /\ ordered[k] = response[q[k]]
      /\ \A i \in DOMAIN response : \E k \in DOMAIN response : q[k] = i
  BY <1>2 DEF Bijection, Injection, Surjection
<1>4. /\ Len(ordered) = n
      /\ \A k \in DOMAIN ordered : ordered[k].index = k /\ ordered[k].vector # Malformed
  BY DEF WellFormed
<1>5. ASSUME NEW r \in whole
      PROVE  /\ DOMAIN r = 1 .. n /\ r \in Seq([index : 1 .. n, vector : Keys]) /\ Len(r) = n
             /\ \A k \in 1 .. n : r[k] \in [index : 1 .. n, vector : Keys]
             /\ \A k \in 1 .. n : \E i \in 1 .. n : r[k] = [index |-> i, vector |-> texts[i]]
  <2>1. PICK p \in Bijection(1 .. n, 1 .. n) : r = [k \in 1 .. n |-> items[p[k]]]
    BY <1>1, <1>5 DEF Rearrangements
  <2>2. \A k \in 1 .. n : p[k] \in 1 .. n
    BY <2>1 DEF Bijection, Injection
  <2>3. \A k \in 1 .. n : r[k] = [index |-> p[k], vector |-> texts[p[k]]]
    BY <1>1, <2>1, <2>2
  <2>4. r \in [1 .. n -> [index : 1 .. n, vector : Keys]]
    BY <1>1, <2>1, <2>2, <2>3
  <2>5. r \in Seq([index : 1 .. n, vector : Keys]) /\ Len(r) = n /\ DOMAIN r = 1 .. n
    <3>1. n \in Nat
      BY <1>1
    <3> HIDE DEF n
    <3> QED BY <2>4, <3>1, Enumerated
  <2> QED BY <2>2, <2>3, <2>4, <2>5
<1> HIDE DEF items, whole
<1>6. CASE response \in whole
  <2>1. DOMAIN ordered = 1 .. n
    BY <1>3, <1>5, <1>6
  <2>2. ASSUME NEW k \in 1 .. n
        PROVE  ordered[k].vector = texts[k]
    <3>1. PICK i \in 1 .. n : ordered[k] = [index |-> i, vector |-> texts[i]]
      <4>1. q[k] \in 1 .. n /\ ordered[k] = response[q[k]]
        BY <1>3, <2>1
      <4> QED BY <1>5, <1>6, <4>1
    <3>2. i = k
      BY <1>4, <2>1, <3>1
    <3> QED BY <3>1, <3>2
  <2> QED BY <2>1, <2>2
<1>7. ASSUME NEW r \in whole, response = Tail(r)
      PROVE  FALSE
  <2>1. DOMAIN response = 1 .. n - 1
    BY <1>1, <1>5, <1>7
  <2>2. ordered \in [1 .. n - 1 -> Range(response)]
    BY <1>2, <1>3, <2>1 DEF Range
  <2>3. Len(ordered) = n - 1
    <3>1. n - 1 \in Nat
      BY <1>1
    <3> QED BY <2>2, <3>1, Enumerated
  <2> QED BY <1>1, <1>4, <2>3
<1>8. ASSUME NEW r \in whole, response = [r EXCEPT ![1].index = 1, ![Len(r)].index = 1]
      PROVE  response \in whole
  <2>1. DOMAIN response = 1 .. n /\ response[1].index = 1 /\ response[n].index = 1
    <3>1. /\ DOMAIN r = 1 .. n /\ Len(r) = n /\ 1 \in 1 .. n /\ n \in 1 .. n
          /\ r[1] \in [index : 1 .. n, vector : Keys]
          /\ r[n] \in [index : 1 .. n, vector : Keys]
      BY <1>1, <1>5
    <3>2. response = [[r EXCEPT ![1] = [@ EXCEPT !.index = 1]]
                         EXCEPT ![n] = [@ EXCEPT !.index = 1]]
      BY <1>8, <3>1
    <3> QED BY <3>1, <3>2
  <2>2. ASSUME NEW i \in DOMAIN response, response[i].index = 1
        PROVE  q[1] = i
    <3>1. PICK k \in DOMAIN response : q[k] = i
      BY <1>3
    <3>2. ordered[k].index = k /\ ordered[k].index = 1
      BY <1>3, <1>4, <2>2, <3>1
    <3> QED BY <3>1, <3>2
  <2>3. 1 \in DOMAIN response /\ n \in DOMAIN response
    BY <1>1, <2>1
  <2>4. n = 1
    BY <2>1, <2>2, <2>3
  <2>5. r[1] = [index |-> 1, vector |-> texts[1]]
    BY <1>5, <2>4
  <2>6. response = r
    BY <1>5, <1>8, <2>4, <2>5
  <2> QED BY <2>6
<1>9. ASSUME NEW r \in whole, response = [r EXCEPT ![1].vector = Malformed]
      PROVE  FALSE
  <2>1. DOMAIN response = 1 .. n /\ response[1].vector = Malformed
    BY <1>1, <1>5, <1>9
  <2>2. PICK k \in 1 .. n : q[k] = 1
    BY <1>1, <1>3, <2>1
  <2>3. ordered[k] = response[1] /\ k \in DOMAIN ordered
    BY <1>3, <2>1, <2>2
  <2> QED BY <1>4, <2>1, <2>3
<1>10. \/ response \in whole
       \/ \E r \in whole : response = Tail(r)
       \/ \E r \in whole : response = [r EXCEPT ![1].index = 1, ![Len(r)].index = 1]
       \/ \E r \in whole : response = [r EXCEPT ![1].vector = Malformed]
  BY DEF Responses, whole, items
<1> QED BY <1>6, <1>7, <1>8, <1>9, <1>10


\* The state of a job is a record with these fields.
LEMMA StateFields ==
  ASSUME NEW j \in Jobs, NEW b \in States(j)
  PROVE  /\ b.at \in Labels /\ b.refresh \in BOOLEAN /\ b.pos \in Nat
         /\ b.results \in [Positions(j) -> Keys \cup {NoVector}]
         /\ b.missing \in Seq(Positions(j)) /\ b.batch \in Seq(Positions(j))
         /\ b.attempt \in Nat /\ b.vectors \in Seq(Keys) /\ b.known \subseteq Keys
BY DEF States

\* What embed goes on to do with the texts still missing.
LEMMA NextBatchOK ==
  ASSUME NEW j \in Jobs, NEW b \in States(j),
         \A i \in Positions(j) : b.results[i] \in {TextsOf[j][i], NoVector},
         ~b.refresh => \A k \in DOMAIN b.missing : TextsOf[j][b.missing[k]] \notin b.known
  PROVE  /\ OwnOK(j, NextBatch(b))
         /\ NextBatch(b).known = b.known
         /\ NextBatch(b).at \in {"ask", "done", "failed"}
<1> DEFINE n == IF Len(b.missing) < BatchSize THEN Len(b.missing) ELSE BatchSize
           x == NextBatch(b)
<1>1. BatchSize \in Nat \ {0}
  BY JobsAssumption
<1>2. /\ b.missing \in Seq(Positions(j)) /\ Len(b.missing) \in Nat
      /\ b.results \in [Positions(j) -> Keys \cup {NoVector}]
  BY StateFields
<1>3. n \in Nat /\ n <= Len(b.missing) /\ n <= BatchSize
  BY <1>1, <1>2
<1>4. CASE n = 0
  <2>1. x = [b EXCEPT !.at = IF NoVector \in Range(b.results) THEN "failed" ELSE "done"]
    BY <1>4 DEF NextBatch
  <2> DEFINE y == IF NoVector \in Range(b.results) THEN "failed" ELSE "done"
  <2>2. y \in {"failed", "done"} /\ y \in Labels /\ (y = "done" => NoVector \notin Range(b.results))
    BY DEF Labels
  <2> HIDE DEF y
  <2>3. x = [b EXCEPT !.at = y]
    BY <2>1 DEF y
  <2>4. /\ x \in States(j) /\ x.at = y /\ x.results = b.results /\ x.known = b.known
    BY <2>2, <2>3 DEF States
  <2> QED BY <2>2, <2>4 DEF OwnOK, OwnVectors, Shape, Unasked
<1>5. CASE n # 0
  <2> DEFINE first == SubSeq(b.missing, 1, n)
             rest  == SubSeq(b.missing, n + 1, Len(b.missing))
  <2>1. x = [b EXCEPT !.at = "ask", !.attempt = 1, !.batch = first, !.missing = rest]
    BY <1>5 DEF NextBatch
  <2>2. /\ first \in Seq(Positions(j)) /\ Len(first) = n
        /\ \A k \in 1 .. n : first[k] = b.missing[k]
    BY <1>2, <1>3, <1>5, SubSeqProperties
  <2>3. rest \in Seq(Positions(j))
    BY <1>2, <1>3, SubSeqProperties
  <2>4. \A k \in DOMAIN rest : k + n \in DOMAIN b.missing /\ rest[k] = b.missing[k + n]
    BY <1>2, <1>3, SubSeqProperties
  <2> HIDE DEF first, rest, n, x
  <2>5. /\ x \in States(j) /\ x.at = "ask" /\ x.batch = first /\ x.missing = rest
        /\ x.results = b.results /\ x.known = b.known /\ x.refresh = b.refresh
    <3>1. "ask" \in Labels /\ 1 \in Nat
      BY DEF Labels
    <3> DEFINE y == [b EXCEPT !.at = "ask", !.attempt = 1, !.batch = first, !.missing = rest]
    <3>2. y \in States(j)
      BY <2>2, <2>3, <3>1 DEF States
    <3>3. /\ y.at = "ask" /\ y.batch = first /\ y.missing = rest
          /\ y.results = b.results /\ y.known = b.known /\ y.refresh = b.refresh
      BY DEF States
    <3> QED BY <2>1, <3>2, <3>3
  <2>6. Len(x.batch) \in 1 .. BatchSize
    BY <1>1, <1>3, <1>5, <2>2, <2>5
  <2>7. \A k \in DOMAIN first : k \in DOMAIN b.missing /\ first[k] = b.missing[k]
    BY <1>2, <1>3, <2>2
  <2>8. Unasked(j, x)
    BY <2>4, <2>5, <2>7 DEF Unasked
  <2>9. OwnVectors(j, x) /\ Shape(j, x)
    BY <2>5, <2>6 DEF OwnVectors, Shape
  <2> QED BY <2>5, <2>8, <2>9 DEF OwnOK, x
<1> QED BY <1>4, <1>5

-----------------------------------------------------------------------------
\* What a step of one job must show: the cache only grows by vectors of their
\* own keys, and the job is right afterwards.
LEMMA JobStep ==
  ASSUME EmbedInv, NEW j \in Jobs,
         cache' \in [Keys -> Keys \cup {NoVector}],
         \A k \in Keys : cache'[k] \in {k, NoVector},
         Cached \subseteq Cached',
         \E b \in States(j) : job' = [job EXCEPT ![j] = b],
         \E A \in SUBSET Keys : answered' = [answered EXCEPT ![j] = A],
         OwnOK(j, job'[j]), job'[j].known \subseteq Cached', AlmostCached(j, job[j])'
  PROVE  EmbedInv'
<1>1. DOMAIN job' = Jobs /\ \A i \in Jobs \ {j} : job'[i] = job[i]
  BY DEF EmbedInv
<1>2. /\ answered' \in [Jobs -> SUBSET Keys]
      /\ \A i \in Jobs \ {j} : answered'[i] = answered[i]
  BY DEF EmbedInv
<1>3. ASSUME NEW i \in Jobs \ {j}
      PROVE  JobOK(i)'
  <2>1. JobOK(i)
    BY <1>3 DEF EmbedInv
  <2>2. answered'[i] \ Cached' \in SUBSET (answered[i] \ Cached)
    BY <1>2, <1>3
  <2>3. /\ IsFiniteSet(answered[i] \ Cached)
        /\ Cardinality(answered[i] \ Cached) <= BatchSize
    BY <2>1 DEF JobOK, AlmostCached
  <2>4. /\ IsFiniteSet(answered'[i] \ Cached')
        /\ Cardinality(answered'[i] \ Cached') \in Nat
        /\ Cardinality(answered[i] \ Cached) \in Nat
        /\ Cardinality(answered'[i] \ Cached') <= Cardinality(answered[i] \ Cached)
    BY <2>2, <2>3, FS_Subset, FS_CardinalityType
  <2>5. Cardinality(answered'[i] \ Cached') <= BatchSize
    BY <2>3, <2>4, JobsAssumption
  <2>6. AlmostCached(i, job[i])'
    BY <1>1, <1>2, <1>3, <2>1, <2>2, <2>4, <2>5 DEF JobOK, AlmostCached
  <2> QED BY <1>1, <1>3, <2>1, <2>6 DEF JobOK, OwnOK, OwnVectors, Shape, Unasked
<1>4. JobOK(j)'
  BY DEF JobOK, OwnOK, OwnVectors, Shape, Unasked
<1> QED BY <1>1, <1>2, <1>3, <1>4 DEF EmbedInv

\* A step of one job that leaves the cache and the answers as they are.
LEMMA QuietJobStep ==
  ASSUME EmbedInv, NEW j \in Jobs, NEW b \in States(j),
         job' = [job EXCEPT ![j] = b], UNCHANGED <<cache, answered>>,
         OwnOK(j, b), b.known \subseteq Cached,
         b.at = "look" => answered[j] = {},
         b.at = "ask" => answered[j] \subseteq Cached,
         b.at # "store"
  PROVE  EmbedInv'
<1>1. job'[j] = b
  BY DEF EmbedInv
<1>2. Cached' = Cached
  BY DEF Cached
<1>3. AlmostCached(j, job[j])
  BY DEF EmbedInv, JobOK
<1>4. AlmostCached(j, job[j])'
  BY <1>1, <1>2, <1>3 DEF AlmostCached
<1>5. answered' = [answered EXCEPT ![j] = answered[j]] /\ answered[j] \in SUBSET Keys
  BY DEF EmbedInv
<1>6. cache' \in [Keys -> Keys \cup {NoVector}] /\ \A k \in Keys : cache'[k] \in {k, NoVector}
  BY DEF EmbedInv
<1> QED BY <1>1, <1>2, <1>4, <1>5, <1>6, JobStep

\* A job that has ended, or was never begun.
LEMMA RestStep ==
  ASSUME EmbedInv, NEW j \in Jobs, NEW b \in States(j),
         job' = [job EXCEPT ![j] = b], UNCHANGED <<cache, answered>>,
         b.at \in {"idle", "failed", "over"}, b.known \subseteq job[j].known,
         b.results \in {job[j].results, [i \in Positions(j) |-> NoVector]}
  PROVE  EmbedInv'
<1>1. /\ \A i \in Positions(j) : job[j].results[i] \in {TextsOf[j][i], NoVector}
      /\ job[j].known \subseteq Cached
  BY DEF EmbedInv, JobOK, OwnOK, OwnVectors
<1>2. OwnOK(j, b)
  BY <1>1 DEF OwnOK, OwnVectors, Shape, Unasked
<1> QED BY <1>1, <1>2, QuietJobStep

LEMMA FailStep ==
  ASSUME EmbedInv, NEW j \in Jobs, Fail(j), UNCHANGED <<cache, answered>>
  PROVE  EmbedInv'
<1> DEFINE b == [job[j] EXCEPT !.at = "failed"]
<1>1. job[j] \in States(j)
  BY DEF EmbedInv, JobOK, OwnOK
<1>2. /\ b \in States(j) /\ b.at = "failed" /\ b.known = job[j].known
      /\ b.results = job[j].results
  BY <1>1 DEF States, Labels
<1>3. job' = [job EXCEPT ![j] = b]
  BY DEF Fail
<1> HIDE DEF b
<1> QED BY <1>2, <1>3, RestStep


-----------------------------------------------------------------------------
(***************************************************************************)
(* The steps of a job                                                      *)
(***************************************************************************)

LEMMA NotBegunState ==
  ASSUME NEW j \in Jobs
  PROVE  NotBegun(j) \in States(j)
<1>1. <<>> \in Seq(Positions(j)) /\ <<>> \in Seq(Keys)
  BY EmptySeq
<1> QED BY <1>1 DEF NotBegun, States, Labels

\* A job begins, with what is cached now.
LEMMA BeginStep ==
  ASSUME EmbedInv, NEW j \in Jobs, NEW refresh \in BOOLEAN, Begin(j, refresh)
  PROVE  EmbedInv'
<1> DEFINE b == [NotBegun(j) EXCEPT !.at = "look", !.refresh = refresh, !.known = Cached]
<1>1. "look" \in Labels /\ Cached \in SUBSET Keys
  BY DEF Labels, Cached
<1>2. b \in States(j)
  BY <1>1, NotBegunState DEF States
<1>3. /\ b.at = "look" /\ b.pos = 1 /\ b.batch = <<>> /\ b.missing = <<>>
      /\ b.known = Cached /\ b.results = [i \in Positions(j) |-> NoVector]
  BY DEF NotBegun
<1>4. /\ job' = [job EXCEPT ![j] = b] /\ answered' = [answered EXCEPT ![j] = {}]
      /\ UNCHANGED cache
  BY DEF Begin
<1> HIDE DEF b
<1>5. 1 \in Positions(j)
  BY Texts
<1>6. OwnOK(j, b)
  BY <1>2, <1>3, <1>5, EmptySeq DEF OwnOK, OwnVectors, Shape, Unasked
<1>7. job'[j] = b /\ answered'[j] = {} /\ Cached' = Cached
  BY <1>4 DEF EmbedInv, Cached
<1>8. AlmostCached(j, job[j])'
  BY <1>3, <1>7, FS_EmptySet, JobsAssumption DEF AlmostCached
<1> QED BY <1>2, <1>3, <1>4, <1>6, <1>7, <1>8, JobStep DEF EmbedInv

\* What the state of a job says, in one place.
LEMMA JobFacts ==
  ASSUME EmbedInv, NEW j \in Jobs
  PROVE  /\ job[j] \in States(j) /\ OwnVectors(j, job[j]) /\ Shape(j, job[j])
         /\ Unasked(j, job[j]) /\ AlmostCached(j, job[j]) /\ job[j].known \subseteq Cached
BY DEF EmbedInv, JobOK, OwnOK

LEMMA LookUpStep ==
  ASSUME EmbedInv, NEW j \in Jobs, LookUp(j)
  PROVE  EmbedInv'
<1> DEFINE b     == job[j]
           found == IF b.refresh THEN NoVector ELSE Get(TextsOf[j][b.pos])
           rest  == IF found = NoVector THEN Append(b.missing, b.pos) ELSE b.missing
           results == [b.results EXCEPT ![b.pos] = found]
           seen  == [b EXCEPT !.pos = b.pos + 1, !.results = results, !.missing = rest]
           next  == IF b.pos = Len(TextsOf[j]) THEN NextBatch(seen) ELSE seen
<1>1. /\ b.at = "look" /\ job' = [job EXCEPT ![j] = next] /\ UNCHANGED <<cache, answered>>
  BY DEF LookUp
<1>2. /\ b \in States(j) /\ b.pos \in Positions(j) /\ b.batch = <<>>
      /\ \A i \in Positions(j) : b.results[i] \in {TextsOf[j][i], NoVector}
      /\ b.known \subseteq Cached /\ answered[j] = {}
      /\ ~b.refresh => \A k \in DOMAIN b.missing : TextsOf[j][b.missing[k]] \notin b.known
  BY <1>1, JobFacts DEF OwnVectors, Shape, Unasked, AlmostCached
<1>3. TextsOf[j][b.pos] \in Keys
  BY <1>2, Texts
<1>4. /\ found \in {TextsOf[j][b.pos], NoVector} /\ found \in Keys \cup {NoVector}
      /\ ~b.refresh /\ found = NoVector => TextsOf[j][b.pos] \notin Cached
  BY <1>3 DEF Get, EmbedInv, Cached
<1>5. /\ b.results \in [Positions(j) -> Keys \cup {NoVector}] /\ b.missing \in Seq(Positions(j))
      /\ b.pos \in Nat
  BY <1>2, StateFields
<1>6. /\ rest \in Seq(Positions(j))
      /\ \A k \in DOMAIN rest : \/ k \in DOMAIN b.missing /\ rest[k] = b.missing[k]
                                \/ rest[k] = b.pos /\ found = NoVector
  BY <1>2, <1>5, AppendProperties
<1> HIDE DEF found, rest
<1>7. seen \in States(j)
  <2>1. b.pos + 1 \in Nat /\ results \in [Positions(j) -> Keys \cup {NoVector}]
    BY <1>2, <1>4, <1>5
  <2> HIDE DEF results, b
  <2> QED BY <1>2, <1>6, <2>1 DEF States
<1>8. /\ seen.at = "look" /\ seen.pos = b.pos + 1 /\ seen.missing = rest
      /\ seen.results = [b.results EXCEPT ![b.pos] = found]
      /\ seen.batch = <<>> /\ seen.known = b.known /\ seen.refresh = b.refresh
  BY <1>1, <1>2 DEF States
<1> HIDE DEF seen
<1>9. \A i \in Positions(j) : seen.results[i] \in {TextsOf[j][i], NoVector}
  BY <1>2, <1>4, <1>5, <1>8
<1>10. ~seen.refresh => \A k \in DOMAIN seen.missing : TextsOf[j][seen.missing[k]] \notin seen.known
  BY <1>2, <1>4, <1>6, <1>8
<1>11. /\ OwnOK(j, next) /\ next.known = b.known
       /\ next.at \in {"look", "ask", "done", "failed"}
  <2>1. CASE b.pos = Len(TextsOf[j])
    BY <1>7, <1>8, <1>9, <1>10, <2>1, NextBatchOK
  <2>2. CASE b.pos # Len(TextsOf[j])
    <3>1. seen.pos \in Positions(j)
      BY <1>2, <1>8, <2>2, Texts
    <3>2. DOMAIN <<>> = {}
      OBVIOUS
    <3> QED BY <1>7, <1>8, <1>9, <1>10, <2>2, <3>1, <3>2 
         DEF OwnOK, OwnVectors, Shape, Unasked
  <2> QED BY <2>1, <2>2
<1> HIDE DEF next
<1>12. next \in States(j)
  BY <1>11 DEF OwnOK
<1> QED BY <1>1, <1>2, <1>11, <1>12, QuietJobStep

\* The texts asked for, as the service gets them.
LEMMA AskedTexts ==
  ASSUME EmbedInv, NEW j \in Jobs, job[j].at = "ask"
  PROVE  /\ Asked(j) \in Seq(Keys) /\ Asked(j) # <<>>
         /\ Len(Asked(j)) = Len(job[j].batch)
         /\ Len(job[j].batch) \in 1 .. BatchSize
         /\ \A k \in 1 .. Len(job[j].batch) : Asked(j)[k] = TextsOf[j][job[j].batch[k]]
         /\ Range(Asked(j)) = TextsIn(j, job[j].batch)
         /\ IsFiniteSet(TextsIn(j, job[j].batch))
         /\ Cardinality(TextsIn(j, job[j].batch)) <= BatchSize
<1> DEFINE batch == job[j].batch
           n     == Len(batch)
<1>1. batch \in Seq(Positions(j)) /\ n \in 1 .. BatchSize /\ BatchSize \in Nat
  BY JobFacts, StateFields, JobsAssumption DEF Shape
<1>2. n \in Nat \ {0} /\ DOMAIN batch = 1 .. n /\ \A k \in 1 .. n : batch[k] \in Positions(j)
  BY <1>1
<1>3. Asked(j) = [k \in 1 .. n |-> TextsOf[j][batch[k]]]
  BY <1>2 DEF Asked
<1>4. Asked(j) \in [1 .. n -> Keys]
  BY <1>2, <1>3, Texts
<1>5. Asked(j) \in Seq(Keys) /\ Len(Asked(j)) = n
  BY <1>2, <1>4, Enumerated
<1>6. Asked(j) # <<>>
  BY <1>2, <1>5
<1>7. \A k \in 1 .. n : Asked(j)[k] = TextsOf[j][batch[k]]
  BY <1>3
<1> DEFINE T == TextsIn(j, batch)
<1>8. Range(Asked(j)) = T
  BY <1>2, <1>3 DEF Range, TextsIn
<1>9. Asked(j) \in Surjection(1 .. n, T)
  BY <1>2, <1>3 DEF TextsIn, Surjection
<1>10. ExistsSurjection(1 .. n, T)
  BY <1>9 DEF ExistsSurjection
<1>11. IsFiniteSet(T) /\ Cardinality(T) <= n
  <2>1. IsFiniteSet(1 .. n)
    BY <1>2, FS_Interval
  <2>2. Cardinality(T) <= n
    BY <1>2, <1>10, FS_SurjCardinalityBound
  <2> QED BY <1>9, <2>1, <2>2, FS_Surjection
<1>12. Cardinality(T) <= BatchSize
  BY <1>1, <1>11, FS_CardinalityType
<1> QED BY <1>1, <1>5, <1>6, <1>7, <1>8, <1>11, <1>12

LEMMA RequestBatchStep ==
  ASSUME EmbedInv, NEW j \in Jobs, RequestBatch(j)
  PROVE  EmbedInv'
<1> DEFINE b == job[j]
           n == Len(b.batch)
<1>1. b.at = "ask" /\ UNCHANGED cache
  BY DEF RequestBatch
<1>2. b \in States(j) /\ OwnVectors(j, b) /\ Unasked(j, b) /\ b.known \subseteq Cached
  BY JobFacts
<1>3. Cached' = Cached
  BY <1>1 DEF Cached
<1>4. CASE Fail(j) /\ UNCHANGED answered
  BY <1>1, <1>4, FailStep
<1>5. ASSUME NEW response \in Responses(Asked(j)),
             NEW ordered \in OrderedItems(response),
             WellFormed(ordered, Len(Asked(j))),
             job' = [job EXCEPT ![j].at = "store",
                                ![j].vectors = [k \in DOMAIN ordered |-> ordered[k].vector]],
             answered' = [answered EXCEPT ![j] = @ \cup Range(Asked(j))]
      PROVE  EmbedInv'
  <2> DEFINE vectors == [k \in DOMAIN ordered |-> ordered[k].vector]
             x == [b EXCEPT !.at = "store", !.vectors = vectors]
  <2>1. /\ DOMAIN ordered = 1 .. n
        /\ \A k \in 1 .. n : ordered[k].vector = TextsOf[j][b.batch[k]]
    BY <1>1, <1>5, AskedTexts, WholeAnswer
  <2>2. n \in Nat /\ b.batch \in Seq(Positions(j))
    BY <1>2, StateFields
  <2>3. \A k \in 1 .. n : vectors[k] = TextsOf[j][b.batch[k]] /\ vectors[k] \in Keys
    BY <2>1, <2>2, Texts
  <2>4. vectors \in [1 .. n -> Keys]
    BY <2>1, <2>3
  <2>5. vectors \in Seq(Keys) /\ Len(vectors) = n
    BY <2>2, <2>4, Enumerated
  <2> HIDE DEF vectors
  <2>6. x \in States(j)
    BY <1>2, <2>5 DEF States, Labels
  <2>7. /\ x.at = "store" /\ x.vectors = vectors /\ x.batch = b.batch /\ x.missing = b.missing
        /\ x.results = b.results /\ x.known = b.known /\ x.refresh = b.refresh
    BY <1>2 DEF States
  <2>8. job' = [job EXCEPT ![j] = x]
    BY <1>5 DEF vectors, EmbedInv
  <2> HIDE DEF x
  <2>9. OwnOK(j, x)
    BY <1>1, <1>2, <2>3, <2>5, <2>6, <2>7, AskedTexts DEF OwnOK, OwnVectors, Shape, Unasked
  <2>10. job'[j] = x
    BY <2>8 DEF EmbedInv
  <2>11. /\ answered' = [answered EXCEPT ![j] = answered[j] \cup TextsIn(j, b.batch)]
         /\ answered[j] \cup TextsIn(j, b.batch) \in SUBSET Keys
    <3>1. Range(Asked(j)) = TextsIn(j, b.batch)
      BY <1>1, AskedTexts
    <3>2. TextsIn(j, b.batch) \subseteq Keys
      BY <2>2, Texts DEF TextsIn
    <3> QED BY <1>5, <3>1, <3>2 DEF EmbedInv
  <2>12. answered'[j] = answered[j] \cup TextsIn(j, b.batch)
    BY <2>11 DEF EmbedInv
  <2>13. answered'[j] \ Cached' \in SUBSET TextsIn(j, b.batch)
    BY <1>1, <1>3, <2>12, JobFacts DEF AlmostCached
  <2>14. /\ IsFiniteSet(answered'[j] \ Cached')
         /\ Cardinality(answered'[j] \ Cached') <= BatchSize
    <3>1. IsFiniteSet(TextsIn(j, b.batch)) /\ Cardinality(TextsIn(j, b.batch)) <= BatchSize
      BY <1>1, AskedTexts
    <3>2. /\ IsFiniteSet(answered'[j] \ Cached')
          /\ Cardinality(answered'[j] \ Cached') <= Cardinality(TextsIn(j, b.batch))
      BY <2>13, <3>1, FS_Subset
    <3> QED BY <3>1, <3>2, FS_CardinalityType, JobsAssumption
  <2>15. AlmostCached(j, job[j])'
    BY <2>7, <2>10, <2>13, <2>14 DEF AlmostCached
  <2> QED BY <1>1, <1>2, <1>3, <2>6, <2>7, <2>8, <2>9, <2>10, <2>11, <2>15, JobStep DEF EmbedInv
<1> QED BY <1>4, <1>5 DEF RequestBatch

LEMMA RetryRequestStep ==
  ASSUME EmbedInv, NEW j \in Jobs, RetryRequest(j)
  PROVE  EmbedInv'
<1> DEFINE x == [job[j] EXCEPT !.attempt = job[j].attempt + 1]
<1>1. job[j].at = "ask" /\ UNCHANGED <<cache, answered>>
  BY DEF RetryRequest
<1>2. CASE Fail(j)
  BY <1>1, <1>2, FailStep
<1>3. CASE job' = [job EXCEPT ![j].attempt = @ + 1]
  <2>1. job[j] \in States(j) /\ job[j].attempt \in Nat
    BY JobFacts, StateFields
  <2>2. /\ x \in States(j) /\ x.at = job[j].at /\ x.batch = job[j].batch
        /\ x.missing = job[j].missing /\ x.results = job[j].results
        /\ x.known = job[j].known /\ x.refresh = job[j].refresh /\ x.vectors = job[j].vectors
    <3>1. x \in States(j)
      BY <2>1 DEF States
    <3>2. DOMAIN job[j] = {"at", "refresh", "pos", "results", "missing", "batch", "attempt",
                           "vectors", "known"}
      BY <2>1 DEF States
    <3>3. QED
      BY <3>1, <3>2
  <2>3. job' = [job EXCEPT ![j] = x]
    BY <1>3 DEF EmbedInv
  <2> HIDE DEF x
  <2>4. OwnOK(j, x)
    BY <1>1, <2>2, JobFacts DEF OwnOK, OwnVectors, Shape, Unasked
  <2> QED BY <1>1, <2>2, <2>3, <2>4, JobFacts, QuietJobStep DEF AlmostCached
<1> QED BY <1>2, <1>3 DEF RetryRequest


LEMMA RequestRefusedStep ==
  ASSUME EmbedInv, NEW j \in Jobs, RequestRefused(j)
  PROVE  EmbedInv'
BY FailStep DEF RequestRefused

\* One vector of the batch is stored: the cache has one key more.
LEMMA StoreVectorStep ==
  ASSUME EmbedInv, NEW j \in Jobs, StoreVector(j)
  PROVE  EmbedInv'
<1> DEFINE b       == job[j]
           p       == Head(b.batch)
           key     == TextsOf[j][p]
           batch   == Tail(b.batch)
           vectors == Tail(b.vectors)
           results == [b.results EXCEPT ![p] = key]
           stored  == [b EXCEPT !.results = results, !.batch = batch, !.vectors = vectors]
           next    == IF Len(b.batch) = 1 THEN NextBatch(stored) ELSE stored
<1>1. /\ b.at = "store" /\ b \in States(j) /\ OwnVectors(j, b) /\ Shape(j, b)
      /\ Unasked(j, b) /\ AlmostCached(j, b) /\ b.known \subseteq Cached
  BY JobFacts DEF StoreVector
<1>2. /\ b.batch \in Seq(Positions(j)) /\ Len(b.batch) \in 1 .. BatchSize
      /\ BatchSize \in Nat /\ b.vectors \in Seq(Keys) /\ Len(b.vectors) = Len(b.batch)
      /\ b.results \in [Positions(j) -> Keys \cup {NoVector}]
  BY <1>1, StateFields, JobsAssumption DEF Shape
<1>3. /\ b.batch # <<>> /\ b.vectors # <<>> /\ Len(b.batch) \in Nat \ {0}
      /\ p = b.batch[1] /\ p \in Positions(j) /\ key \in Keys
  <2>1. b.batch # <<>> /\ b.vectors # <<>> /\ Len(b.batch) \in Nat \ {0}
    BY <1>2
  <2>2. p = b.batch[1] /\ p \in Positions(j)
    BY <1>2, <2>1
  <2> QED BY <2>1, <2>2, Texts
<1>4. Head(b.vectors) = key
  BY <1>1, <1>2, <1>3 DEF OwnVectors
<1>5. /\ batch \in Seq(Positions(j)) /\ Len(batch) = Len(b.batch) - 1
      /\ \A k \in 1 .. Len(batch) : k + 1 \in 1 .. Len(b.batch) /\ batch[k] = b.batch[k + 1]
      /\ vectors \in Seq(Keys) /\ Len(vectors) = Len(b.batch) - 1
      /\ \A k \in 1 .. Len(vectors) : vectors[k] = b.vectors[k + 1]
  BY <1>2, <1>3
<1>6. cache' = [cache EXCEPT ![key] = key]
  BY <1>4 DEF StoreVector, Put
<1>7. job' = [job EXCEPT ![j] = next] /\ UNCHANGED answered
  BY <1>4 DEF StoreVector
<1>8. /\ cache' \in [Keys -> Keys \cup {NoVector}]
      /\ \A k \in Keys : cache'[k] \in {k, NoVector}
      /\ Cached' = Cached \cup {key}
  <2>1. key # NoVector
    BY <1>3, JobsAssumption
  <2> QED BY <1>3, <1>6, <2>1 DEF EmbedInv, Cached
<1>9. /\ \A i \in Positions(j) : results[i] \in {TextsOf[j][i], NoVector}
      /\ results \in [Positions(j) -> Keys \cup {NoVector}]
  BY <1>1, <1>2, <1>3 DEF OwnVectors
<1> HIDE DEF results, batch, vectors
<1>10. stored \in States(j)
  <2> HIDE DEF b
  <2> QED BY <1>1, <1>5, <1>9 DEF States
<1>11. /\ stored.at = "store" /\ stored.results = results /\ stored.batch = batch
       /\ stored.vectors = vectors /\ stored.missing = b.missing
       /\ stored.known = b.known /\ stored.refresh = b.refresh
  <2> HIDE DEF b
  <2> QED BY <1>1 DEF States
<1> HIDE DEF stored
<1>12. ~b.refresh => \A k \in DOMAIN b.missing : TextsOf[j][b.missing[k]] \notin b.known
  BY <1>1 DEF Unasked
<1>13. /\ DOMAIN batch = 1 .. Len(batch) /\ DOMAIN b.batch = 1 .. Len(b.batch)
       /\ Len(batch) \in Nat
  BY <1>2, <1>5
<1>14. /\ OwnOK(j, next) /\ next.known = b.known
       /\ next.at # "look"
       /\ next.at = "store" => next.batch = batch
       /\ next.at = "ask" => Len(b.batch) = 1
  <2>1. CASE Len(b.batch) = 1
    BY <1>9, <1>10, <1>11, <1>12, <2>1, NextBatchOK
  <2>2. CASE Len(b.batch) # 1
    <3>1. Len(batch) \in 1 .. BatchSize
      <4>1. \A m, n \in Nat : n \in 1 .. m /\ n # 1 => n - 1 \in 1 .. m
        OBVIOUS
      <4> QED BY <1>2, <1>3, <1>5, <2>2, <4>1
    <3>2. \A k \in 1 .. Len(batch) : vectors[k] = TextsOf[j][batch[k]]
      BY <1>1, <1>5 DEF OwnVectors
    <3>3. OwnVectors(j, stored) /\ Shape(j, stored)
      BY <1>5, <1>9, <1>11, <3>1, <3>2 DEF OwnVectors, Shape
    <3>4. Unasked(j, stored)
      BY <1>1, <1>5, <1>11, <1>13 DEF Unasked
    <3> QED BY <1>10, <1>11, <2>2, <3>3, <3>4 DEF OwnOK
  <2> QED BY <2>1, <2>2
<1> HIDE DEF next
<1>15. next \in States(j) /\ job'[j] = next
  BY <1>7, <1>14 DEF OwnOK, EmbedInv
<1>16. answered[j] \ Cached' \subseteq TextsIn(j, batch)
  <2> SUFFICES ASSUME NEW k \in 1 .. Len(b.batch), TextsOf[j][b.batch[k]] # key
      PROVE  TextsOf[j][b.batch[k]] \in TextsIn(j, batch)
    BY <1>1, <1>8, <1>13 DEF AlmostCached, TextsIn
  <2>1. k # 1
    BY <1>3
  <2>2. k - 1 \in 1 .. Len(batch) /\ batch[k - 1] = b.batch[k]
    BY <1>2, <1>5, <2>1
  <2> QED BY <1>13, <2>2 DEF TextsIn
<1>17. Len(b.batch) = 1 => answered[j] \subseteq Cached'
  BY <1>5, <1>13, <1>16 DEF TextsIn
<1>18. /\ IsFiniteSet(answered[j] \ Cached')
       /\ Cardinality(answered[j] \ Cached') <= BatchSize
  <2>1. answered[j] \ Cached' \in SUBSET (answered[j] \ Cached)
    BY <1>8
  <2>2. /\ IsFiniteSet(answered[j] \ Cached)
        /\ Cardinality(answered[j] \ Cached) <= BatchSize
    BY <1>1 DEF AlmostCached
  <2>3. /\ IsFiniteSet(answered[j] \ Cached')
        /\ Cardinality(answered[j] \ Cached') <= Cardinality(answered[j] \ Cached)
    BY <2>1, <2>2, FS_Subset
  <2> QED BY <1>2, <2>2, <2>3, FS_CardinalityType
<1>19. AlmostCached(j, job[j])'
  BY <1>7, <1>14, <1>15, <1>16, <1>17, <1>18 DEF AlmostCached
<1>20. answered' = [answered EXCEPT ![j] = answered[j]] /\ answered[j] \in SUBSET Keys
  BY <1>7 DEF EmbedInv
<1> QED BY <1>1, <1>7, <1>8, <1>14, <1>15, <1>19, <1>20, JobStep

LEMMA EmbedStepOK ==
  ASSUME EmbedInv, NEW j \in Jobs, EmbedStep(j)
  PROVE  EmbedInv'
BY LookUpStep, RequestBatchStep, RetryRequestStep, RequestRefusedStep, StoreVectorStep
   DEF EmbedStep

-----------------------------------------------------------------------------
(***************************************************************************)
(* The threads and the index commands                                      *)
(***************************************************************************)

\* The thread of a call that is not known to be a job begins nothing.
LEMMA StartThreadStep ==
  ASSUME EmbedInv, StartThread
  PROVE  EmbedInv'
<1>1. Begin(Head(queue), FALSE)
  BY DEF StartThread
<1>2. CASE Head(queue) \in Jobs
  BY <1>1, <1>2, BeginStep
<1>3. CASE Head(queue) \notin Jobs
  <2>1. /\ DOMAIN job' = Jobs /\ answered' \in [Jobs -> SUBSET Keys]
        /\ \A j \in Jobs : job'[j] = job[j] /\ answered'[j] = answered[j]
        /\ cache' = cache
    BY <1>1, <1>3 DEF Begin, EmbedInv
  <2>2. Cached' = Cached
    BY <2>1 DEF Cached
  <2>3. ASSUME NEW j \in Jobs PROVE JobOK(j)'
    <3>1. AlmostCached(j, job[j])'
      BY <2>1, <2>2, JobFacts DEF AlmostCached
    <3> QED
      BY <2>1, <2>2, <3>1, JobFacts DEF JobOK, OwnOK, OwnVectors, Shape, Unasked
  <2> QED BY <2>1, <2>3 DEF EmbedInv
<1> QED BY <1>2, <1>3

LEMMA ThreadReturnsStep ==
  ASSUME EmbedInv, NEW c \in Calls, ThreadReturns(c)
  PROVE  EmbedInv'
<1> DEFINE b == [job[c] EXCEPT !.at = "over"]
<1>1. c \in Jobs /\ job[c] \in States(c)
  BY JobFacts, PoolAssumption
<1>2. b \in States(c) /\ b.at = "over" /\ b.known = job[c].known /\ b.results = job[c].results
  BY <1>1 DEF States, Labels
<1>3. job' = [job EXCEPT ![c] = b] /\ UNCHANGED <<cache, answered>>
  BY DEF ThreadReturns
<1> HIDE DEF b
<1> QED BY <1>1, <1>2, <1>3, RestStep

LEMMA IndexCutStep ==
  ASSUME EmbedInv, NEW j \in Commands, IndexCut(j)
  PROVE  EmbedInv'
<1>1. j \in Jobs /\ NotBegun(j) \in States(j)
  BY NotBegunState DEF Commands
<1>2. /\ NotBegun(j).at = "idle" /\ NotBegun(j).known = {}
      /\ NotBegun(j).results = [i \in Positions(j) |-> NoVector]
  BY DEF NotBegun
<1>3. job' = [job EXCEPT ![j] = NotBegun(j)] /\ UNCHANGED <<cache, answered>>
  BY DEF IndexCut
<1> QED BY <1>1, <1>2, <1>3, RestStep

LEMMA InitEmbedInv == InitTools => EmbedInv
<1> SUFFICES ASSUME InitTools PROVE EmbedInv
  OBVIOUS
<1>1. /\ cache = [k \in Keys |-> NoVector] /\ job = [j \in Jobs |-> NotBegun(j)]
      /\ answered = [j \in Jobs |-> {}]
  BY DEF InitTools, ClientInit
<1>2. ASSUME NEW j \in Jobs PROVE JobOK(j)
  <2>1. job[j] = NotBegun(j) /\ NotBegun(j) \in States(j) /\ answered[j] = {}
    BY <1>1, NotBegunState
  <2>2. /\ NotBegun(j).at = "idle" /\ NotBegun(j).known = {}
        /\ NotBegun(j).results = [i \in Positions(j) |-> NoVector]
    BY DEF NotBegun
  <2>3. OwnOK(j, job[j])
    BY <2>1, <2>2 DEF OwnOK, OwnVectors, Shape, Unasked
  <2>4. AlmostCached(j, job[j])
    BY <2>1, <2>2, FS_EmptySet, JobsAssumption DEF AlmostCached
  <2> QED BY <2>1, <2>2, <2>3, <2>4 DEF JobOK
<1> QED BY <1>1, <1>2 DEF EmbedInv

LEMMA NextEmbedInv == EmbedInv /\ [NextTools]_toolsVars => EmbedInv'
<1> SUFFICES ASSUME EmbedInv, [NextTools]_toolsVars PROVE EmbedInv'
  OBVIOUS
<1>1. CASE StartThread
  BY <1>1, StartThreadStep
<1>2. CASE UNCHANGED clientVars
  <2>1. cache' = cache /\ job' = job /\ answered' = answered
    BY <1>2 DEF clientVars
  <2>2. Cached' = Cached
    BY <2>1 DEF Cached
  <2>3. ASSUME NEW j \in Jobs, JobOK(j) PROVE JobOK(j)'
    <3>1. OwnOK(j, job'[j]) /\ job'[j].known \subseteq Cached
      BY <2>1, <2>3 DEF JobOK
    <3>2. AlmostCached(j, job[j])'
      BY <2>1, <2>2, <2>3 DEF JobOK, AlmostCached
    <3>3. QED
      BY <2>2, <3>1, <3>2 DEF JobOK
  <2>4. QED
    BY <2>1, <2>3 DEF EmbedInv
<1>3. ASSUME NEW c \in Calls,
             ExecuteTool(c) \/ ThreadStep(c) \/ ThreadReturns(c) \/ ToolTimeout(c)
      PROVE  EmbedInv'
  <2>1. c \in Jobs
    BY PoolAssumption
  <2>2. CASE ExecuteTool(c) \/ ToolTimeout(c)
    BY <1>2, <2>2 DEF ExecuteTool, ToolTimeout
  <2>3. CASE ThreadStep(c)
    BY <2>1, <2>3, EmbedStepOK DEF ThreadStep
  <2> QED BY <1>3, <2>2, <2>3, ThreadReturnsStep
<1>4. ASSUME NEW j \in Commands, StartIndex(j) \/ IndexStep(j) \/ IndexCut(j)
      PROVE  EmbedInv'
  <2>1. j \in Jobs
    BY DEF Commands
  <2>2. CASE StartIndex(j)
    BY <2>1, <2>2, BeginStep DEF StartIndex
  <2>3. CASE IndexStep(j)
    BY <2>1, <2>3, EmbedStepOK DEF IndexStep
  <2> QED BY <1>4, <2>2, <2>3, IndexCutStep
<1>5. UNCHANGED toolsVars => UNCHANGED clientVars
  BY DEF toolsVars
<1> QED BY <1>1, <1>2, <1>3, <1>4, <1>5 DEF NextTools

-----------------------------------------------------------------------------
(***************************************************************************)
(* The results                                                             *)
(***************************************************************************)

\* Every job, cache and record of answers stays in range, with what a job has
\* in hand at each step of AzureEmbeddingClient.embed.
THEOREM EmbedInvAlways == ToolsSpec => []EmbedInv
BY InitEmbedInv, NextEmbedInv, PTL DEF ToolsSpec

\* A vector is cached and returned for the text it was made of, whatever the
\* order of the answers (azure.py), the batches, the threads and the cuts; a
\* job that is done has one for every text.
THEOREM VectorsAlwaysBelong == ToolsSpec => []VectorsBelong
<1>1. EmbedInv => VectorsBelong
  <2> SUFFICES ASSUME EmbedInv, NEW j \in Jobs, NEW i \in Positions(j)
      PROVE  \/ job[j].results[i] = TextsOf[j][i]
             \/ job[j].results[i] = NoVector /\ job[j].at # "done"
    BY DEF EmbedInv, VectorsBelong
  <2>1. OwnVectors(j, job[j]) /\ Shape(j, job[j])
    BY JobFacts
  <2>2. i \in DOMAIN job[j].results
    BY JobFacts, StateFields
  <2> QED BY <2>1, <2>2 DEF OwnVectors, Shape, Range
<1> QED BY <1>1, EmbedInvAlways, PTL

\* A job asks for nothing that was cached when it began, and wherever it is
\* cut, at most one batch of what it was answered is not cached (cache.py:11).
THEOREM AlwaysResumable == ToolsSpec => []Resumable
<1>1. EmbedInv => Resumable
  <2> SUFFICES ASSUME EmbedInv, NEW j \in Jobs
      PROVE  /\ Running(j) /\ ~job[j].refresh => Range(Asked(j)) \cap job[j].known = {}
             /\ Cardinality(answered[j] \ Cached) <= BatchSize
    BY DEF Resumable
  <2>1. Range(Asked(j)) = TextsIn(j, job[j].batch)
    BY DEF Asked, Range, TextsIn
  <2>2. Running(j) /\ ~job[j].refresh => Range(Asked(j)) \cap job[j].known = {}
    BY <2>1, JobFacts DEF Running, Unasked, TextsIn
  <2> QED BY <2>2, JobFacts DEF AlmostCached
<1> QED BY <1>1, EmbedInvAlways, PTL

-----------------------------------------------------------------------------
(***************************************************************************)
(* The chat page                                                           *)
(***************************************************************************)

Kinds    == {"user", "error"} \cup Replies
Backends == {NoBackend} \cup (Nat \ {0})
Messages == [kind : Kinds, of : Nat, from : Backends]
Chats    == [id : Nat, backend : Backends, updated : Nat, messages : Seq(Messages)]

\* An answer follows its question and comes from the chat's backend session; a
\* chat that has none holds no answers but errors.
OwnAnswers(c) ==
  \A i \in DOMAIN c.messages :
    c.messages[i].kind # "user" =>
      /\ i > 1 => c.messages[i - 1] = Question(c.messages[i].of)
      /\ c.messages[i].kind # "error" => c.backend # NoBackend /\ c.messages[i].from = c.backend

\* A chat, when s messages were sent and o backend sessions opened by the time now.
\* Only the chat that is not begun has the number 0.
KnownChat(c, s, o, now) ==
  /\ c \in Chats
  /\ Len(c.messages) <= MaxMessages
  /\ c.id <= s /\ c.updated <= now
  /\ c.backend # NoBackend => c.backend <= o
  /\ c.messages = <<>> <=> c.id = 0
  /\ c.id = 0 => c.backend = NoBackend
  /\ OwnAnswers(c)

Distinct(chats) == \A i, j \in DOMAIN chats : chats[i].id = chats[j].id => i = j

KnownList(chats, s, o, now) ==
  /\ chats \in Seq(Chats)
  /\ \A i \in DOMAIN chats : KnownChat(chats[i], s, o, now)
  /\ Distinct(chats)

\* A submission works on the chat on the screen, which no chat of the tab has
\* changed since.
FlightOK(t, f) ==
  /\ f \in [of : Nat, stage : {"create", "send"}, chat : {active[t]}]
  /\ f.stage = "create" <=> f.chat.backend = NoBackend
  /\ f.chat.messages # <<>> /\ f.chat.messages[Len(f.chat.messages)] = Question(f.of)
  /\ \A i \in DOMAIN sessions[t] : sessions[t][i].updated <= f.chat.updated

TabOK(t) ==
  /\ KnownList(sessions[t], sent, opened, clock)
  /\ KnownChat(active[t], sent, opened, clock)
  /\ active[t].messages # <<>> => \E i \in DOMAIN sessions[t] : sessions[t][i] = active[t]
  /\ flights[t] # {} => busy[t]
  /\ \A f \in flights[t] : FlightOK(t, f) /\ flights[t] = {f}

TypeOK ==
  /\ DOMAIN sessions = Tabs /\ DOMAIN active = Tabs /\ DOMAIN flights = Tabs
  /\ busy \in [Tabs -> BOOLEAN] /\ reloads \in [Tabs -> Nat]
  /\ sent \in Nat /\ opened \in Nat /\ clock \in Nat

OneOwner ==
  \A c, d \in Copies : c.backend # NoBackend /\ c.backend = d.backend => c.id = d.id

Inv ==
  /\ TypeOK
  /\ KnownList(storage, sent, opened, clock)
  /\ \A t \in Tabs : TabOK(t)
  /\ OneOwner

-----------------------------------------------------------------------------
LEMMA Limits == MaxStored \in Nat \ {0} /\ MaxMessages \in Nat \ {0} /\ NoBackend \notin Nat \ {0}
BY BoundsAssumption, NoBackendAssumption

(***************************************************************************)
(* chatStorage.ts: what filtering, sorting and cutting a list leave of it  *)
(***************************************************************************)

\* A sort puts the chats at the positions shown in some order, each once; one
\* that comes first and is not older than another stays first.
LEMMA Sorted ==
  ASSUME NEW chats \in Seq(Chats), NEW shown \in SUBSET DOMAIN chats
  PROVE  /\ Cardinality(shown) \in Nat
         /\ \E pos \in [1 .. Cardinality(shown) -> shown] :
              /\ ByRecency(chats, shown) = [k \in 1 .. Cardinality(shown) |-> chats[pos[k]]]
              /\ \A k, l \in 1 .. Cardinality(shown) : pos[k] = pos[l] => k = l
              /\ 1 \in shown /\ (\A i \in shown : chats[i].updated <= chats[1].updated) =>
                   1 <= Cardinality(shown) /\ pos[1] = 1
<1> DEFINE n         == Cardinality(shown)
           Ahead(i)  == {j \in shown : Before(chats, j, i)}
           rank      == [i \in shown |-> Cardinality(Ahead(i)) + 1]
           pos       == [k \in 1 .. n |-> CHOOSE i \in shown :
                           Cardinality({j \in shown : Before(chats, j, i)}) = k - 1]
<1>1. /\ DOMAIN chats = 1 .. Len(chats) /\ Len(chats) \in Nat
      /\ \A i \in shown : i \in Nat \ {0} /\ chats[i].updated \in Nat
  <2>1. DOMAIN chats = 1 .. Len(chats) /\ Len(chats) \in Nat
    BY LenProperties
  <2>2. \A i \in shown : chats[i] \in Chats
    BY <2>1, ElementOfSeq
  <2>3. \A c \in Chats : c.updated \in Nat
    BY DEF Chats
  <2> QED BY <2>1, <2>2, <2>3
<1>2. IsFiniteSet(shown) /\ n \in Nat
  <2>1. IsFiniteSet(1 .. Len(chats))
    BY <1>1, FS_Interval
  <2> QED BY <1>1, <2>1, FS_Subset, FS_CardinalityType
<1>3. ASSUME NEW i \in shown
      PROVE  /\ Ahead(i) \in SUBSET shown /\ i \notin Ahead(i)
             /\ IsFiniteSet(Ahead(i)) /\ Cardinality(Ahead(i)) \in Nat
             /\ Cardinality(Ahead(i)) < n
  <2>1. Ahead(i) \in SUBSET shown /\ i \notin Ahead(i)
    BY <1>1 DEF Before
  <2>2. /\ IsFiniteSet(Ahead(i)) /\ Cardinality(Ahead(i)) <= n
        /\ n = Cardinality(Ahead(i)) => shown = Ahead(i)
    BY <1>2, <2>1, FS_Subset
  <2>3. Cardinality(Ahead(i)) \in Nat
    BY <2>2, FS_CardinalityType
  <2> QED BY <1>2, <2>1, <2>2, <2>3
<1>4. ASSUME NEW i \in shown, NEW j \in shown, Before(chats, i, j)
      PROVE  Cardinality(Ahead(i)) < Cardinality(Ahead(j))
  <2>1. Ahead(i) \in SUBSET Ahead(j) /\ i \in Ahead(j)
    BY <1>1, <1>4 DEF Before
  <2> HIDE DEF Ahead
  <2>2. /\ Cardinality(Ahead(i)) <= Cardinality(Ahead(j))
        /\ Cardinality(Ahead(j)) = Cardinality(Ahead(i)) => Ahead(j) = Ahead(i)
    BY <1>3, <2>1, FS_Subset
  <2>3. /\ Cardinality(Ahead(i)) \in Nat /\ Cardinality(Ahead(j)) \in Nat
        /\ i \notin Ahead(i)
    BY <1>3
  <2> QED BY <2>1, <2>2, <2>3
<1>5. \A i, j \in shown : i # j => Before(chats, i, j) \/ Before(chats, j, i)
  BY <1>1 DEF Before
<1> HIDE DEF Ahead
<1>6. rank \in Injection(shown, 1 .. n)
  <2>1. \A i \in shown : rank[i] \in 1 .. n
    BY <1>2, <1>3
  <2>2. \A i, j \in shown : rank[i] = rank[j] => i = j
    BY <1>3, <1>4, <1>5
  <2> QED BY <2>1, <2>2 DEF Injection, IsInjective
<1>7. rank \in Surjection(shown, 1 .. n)
  <2>1. IsFiniteSet(1 .. n) /\ Cardinality(1 .. n) = n
    BY <1>2, FS_Interval
  <2> HIDE DEF rank
  <2> QED BY <1>6, <2>1, FS_Injection
<1>8. ASSUME NEW k \in 1 .. n
      PROVE  pos[k] \in shown /\ Cardinality(Ahead(pos[k])) = k - 1
  <2>1. PICK i \in shown : rank[i] = k
    BY <1>7 DEF Surjection
  <2>2. Cardinality(Ahead(i)) = k - 1
    BY <1>3, <2>1
  <2>3. \E i0 \in shown : Cardinality({j \in shown : Before(chats, j, i0)}) = k - 1
    BY <2>2 DEF Ahead
  <2>4. pos[k] = CHOOSE i0 \in shown : Cardinality({j \in shown : Before(chats, j, i0)}) = k - 1
    OBVIOUS
  <2>5. pos[k] \in shown /\ Cardinality({j \in shown : Before(chats, j, pos[k])}) = k - 1
    BY <2>3, <2>4, Zenon
  <2> QED BY <2>5 DEF Ahead
<1>9. ByRecency(chats, shown) = [k \in 1 .. n |-> chats[pos[k]]]
  BY DEF ByRecency
<1> HIDE DEF pos
<1>10. \A k, l \in 1 .. n : pos[k] = pos[l] => k = l
  BY <1>8
<1>11. ASSUME 1 \in shown, \A i \in shown : chats[i].updated <= chats[1].updated
       PROVE  1 <= n /\ pos[1] = 1
  <2>1. 1 <= n
    BY <1>2, <1>3, <1>11
  <2>2. Cardinality(Ahead(pos[1])) = 0 /\ pos[1] \in shown
    BY <1>2, <1>8, <2>1
  <2>3. Ahead(pos[1]) = {}
    BY <1>3, <2>2, FS_EmptySet
  <2>4. pos[1] # 1 => 1 \in Ahead(pos[1])
    BY <1>1, <1>11, <2>2 DEF Ahead, Before
  <2> QED BY <2>1, <2>3, <2>4
<1>12. pos \in [1 .. n -> shown]
  BY <1>8 DEF pos
<1> QED BY <1>2, <1>9, <1>10, <1>11, <1>12

\* A chat that is not too long is kept as it is.
LEMMA RecentKeeps ==
  ASSUME NEW messages \in Seq(Messages), Len(messages) <= MaxMessages
  PROVE  Recent(messages) = messages
<1>1. Len(messages) \in Nat /\ SubSeq(messages, 1, Len(messages)) = messages
  BY SubSeqFull, LenProperties
<1>2. ~(Len(messages) > MaxMessages)
  BY <1>1, Limits
<1> QED BY <1>1, <1>2 DEF Recent

\* What is saved of a list are chats of it, each once, and its first chat if
\* it is the latest.
LEMMA TrimmedList ==
  ASSUME NEW chats \in Seq(Chats), NEW shown \in SUBSET DOMAIN chats,
         \A i \in DOMAIN chats : Len(chats[i].messages) <= MaxMessages,
         \A i, j \in shown : chats[i].id = chats[j].id => i = j
  PROVE  /\ Trimmed(chats, shown) \in Seq(Chats)
         /\ Distinct(Trimmed(chats, shown))
         /\ \A k \in DOMAIN Trimmed(chats, shown) :
              \E i \in shown : Trimmed(chats, shown)[k] = chats[i]
         /\ /\ 1 \in shown /\ chats[1].messages # <<>>
            /\ \A i \in shown : chats[i].updated <= chats[1].updated
            => /\ 1 \in DOMAIN Trimmed(chats, shown) /\ Trimmed(chats, shown)[1] = chats[1]
<1> DEFINE nonempty == {i \in shown : chats[i].messages # <<>>}
           recent   == [i \in DOMAIN chats |-> [chats[i] EXCEPT !.messages = Recent(@)]]
           sorted   == ByRecency(chats, nonempty)
           n        == Cardinality(nonempty)
           m        == IF n > MaxStored THEN MaxStored ELSE n
<1>1. DOMAIN chats = 1 .. Len(chats) /\ Len(chats) \in Nat
  BY LenProperties
<1>2. recent = chats
  <2>1. ASSUME NEW i \in DOMAIN chats
        PROVE  [chats[i] EXCEPT !.messages = Recent(@)] = chats[i]
    <3>1. chats[i] \in Chats
      BY <1>1, ElementOfSeq
    <3>2. Recent(chats[i].messages) = chats[i].messages
      <4>1. chats[i].messages \in Seq(Messages)
        BY <3>1 DEF Chats
      <4> QED BY <4>1, RecentKeeps
    <3> QED BY <3>1, <3>2 DEF Chats
  <2>2. chats \in [DOMAIN chats -> Chats]
    BY LenProperties, <1>1
  <2> QED BY <2>1, <2>2
<1>3. PICK pos \in [1 .. n -> nonempty] :
        /\ sorted = [k \in 1 .. n |-> chats[pos[k]]]
        /\ \A k, l \in 1 .. n : pos[k] = pos[l] => k = l
        /\ 1 \in nonempty /\ (\A i \in nonempty : chats[i].updated <= chats[1].updated) =>
             1 <= n /\ pos[1] = 1
  BY Sorted
<1>4. n \in Nat
  BY Sorted
<1>5. \A k \in 1 .. n : pos[k] \in shown /\ chats[pos[k]] \in Chats
  BY <1>1, <1>3, ElementOfSeq
<1>6. sorted \in Seq(Chats) /\ Len(sorted) = n
  <2>1. [k \in 1 .. n |-> chats[pos[k]]] \in [1 .. n -> Chats]
    BY <1>5
  <2>2. sorted \in [1 .. n -> Chats]
    BY <1>3, <2>1
  <2> HIDE DEF sorted, n
  <2> QED BY <1>4, <2>2, Enumerated
<1>7. Trimmed(chats, shown) = SubSeq(sorted, 1, m)
  BY <1>2, <1>6 DEF Trimmed, Kept
<1>8. m \in Nat /\ m <= n /\ (1 <= n => 1 <= m)
  BY <1>4, Limits
<1> HIDE DEF n, m, sorted
<1>9. /\ SubSeq(sorted, 1, m) \in Seq(Chats)
      /\ Len(SubSeq(sorted, 1, m)) = m
      /\ \A k \in 1 .. m : SubSeq(sorted, 1, m)[k] = sorted[k]
  <2>1. \A k \in 1 .. m : sorted[k] \in Chats
    BY <1>3, <1>4, <1>5, <1>8
  <2> QED BY <2>1, <1>8, SubSeqProperties
<1> DEFINE saved == Trimmed(chats, shown)
<1>10. /\ saved \in Seq(Chats) /\ DOMAIN saved = 1 .. m
       /\ \A k \in 1 .. m : pos[k] \in shown /\ saved[k] = chats[pos[k]]
  BY <1>3, <1>4, <1>5, <1>7, <1>8, <1>9, LenProperties
<1> HIDE DEF saved
<1>11. Distinct(saved)
  BY <1>3, <1>4, <1>8, <1>10 DEF Distinct
<1>12. ASSUME 1 \in shown, chats[1].messages # <<>>,
              \A i \in shown : chats[i].updated <= chats[1].updated
       PROVE  1 \in DOMAIN saved /\ saved[1] = chats[1]
  <2>1. 1 \in nonempty /\ \A i \in nonempty : chats[i].updated <= chats[1].updated
    BY <1>12
  <2>2. 1 <= n /\ pos[1] = 1
    BY <1>3, <2>1
  <2>3. 1 \in 1 .. m
    BY <1>8, <2>2
  <2> QED BY <1>10, <2>2, <2>3
<1>13. \A k \in DOMAIN saved : \E i \in shown : saved[k] = chats[i]
  BY <1>10
<1>14. saved = Trimmed(chats, shown)
  BY DEF saved
<1> QED BY <1>10, <1>11, <1>12, <1>13, <1>14

\* commitSession saves the chat first, before the other chats of the list.
LEMMA CommittedList ==
  ASSUME NEW list \in Seq(Chats), Distinct(list),
         \A i \in DOMAIN list : Len(list[i].messages) <= MaxMessages,
         NEW chat \in Chats, chat.messages # <<>>, Len(chat.messages) <= MaxMessages,
         \A i \in DOMAIN list : list[i].updated <= chat.updated
  PROVE  LET saved == Merged(chat, list)
         IN  /\ saved \in Seq(Chats) /\ Distinct(saved)
             /\ 1 \in DOMAIN saved /\ saved[1] = chat
             /\ \A k \in DOMAIN saved :
                  \/ saved[k] = chat
                  \/ \E i \in DOMAIN list : saved[k] = list[i] /\ list[i].id # chat.id
<1> DEFINE saved  == Merged(chat, list)
           merged == <<chat>> \o list
           shown  == {1} \cup {i \in 2 .. Len(merged) : merged[i].id # chat.id}
<1>1. DOMAIN list = 1 .. Len(list) /\ Len(list) \in Nat
  BY LenProperties
<1>2. /\ merged \in Seq(Chats) /\ Len(merged) = Len(list) + 1
      /\ merged[1] = chat
      /\ \A i \in 2 .. Len(list) + 1 : merged[i] = list[i - 1]
  <2>1. <<chat>> \in Seq(Chats) /\ Len(<<chat>>) = 1 /\ <<chat>>[1] = chat
    OBVIOUS
  <2> QED BY <1>1, <2>1, ConcatProperties
<1>3. DOMAIN merged = 1 .. Len(list) + 1
  BY <1>2, LenProperties
<1> HIDE DEF merged
<1>4. shown \in SUBSET DOMAIN merged
  BY <1>1, <1>2, <1>3
<1>5. \A i \in DOMAIN merged : Len(merged[i].messages) <= MaxMessages
  <2> SUFFICES ASSUME NEW i \in DOMAIN merged
               PROVE  Len(merged[i].messages) <= MaxMessages
    OBVIOUS
  <2>1. CASE i = 1
    BY <1>2, <2>1
  <2>2. CASE i # 1
    <3>1. i \in 2 .. Len(list) + 1 /\ i - 1 \in DOMAIN list
      BY <1>1, <1>3, <2>2
    <3> QED BY <1>2, <3>1
  <2> QED BY <2>1, <2>2
<1>6. \A i \in shown : i # 1 => /\ i - 1 \in DOMAIN list /\ merged[i] = list[i - 1]
                                /\ list[i - 1].id # chat.id
  BY <1>1, <1>2
<1>7. \A i, j \in shown : merged[i].id = merged[j].id => i = j
  <2> SUFFICES ASSUME NEW i \in shown, NEW j \in shown, merged[i].id = merged[j].id
               PROVE  i = j
    OBVIOUS
  <2>1. i \in Nat /\ j \in Nat
    BY <1>1, <1>3, <1>4
  <2>2. CASE i = 1 \/ j = 1
    BY <1>2, <1>6, <2>2
  <2>3. CASE i # 1 /\ j # 1
    <3>1. i - 1 = j - 1
      BY <1>6, <2>3 DEF Distinct
    <3> QED BY <2>1, <3>1
  <2> QED BY <2>2, <2>3
<1>8. \A i \in shown : merged[i].updated <= merged[1].updated
  <2>1. chat.updated \in Nat
    BY DEF Chats
  <2> QED BY <1>2, <1>6, <2>1
<1>9. saved = Trimmed(merged, shown) /\ 1 \in shown
  BY DEF merged, Merged
<1> HIDE DEF shown, saved
<1>10. /\ saved \in Seq(Chats) /\ Distinct(saved)
       /\ \A k \in DOMAIN saved : \E i \in shown : saved[k] = merged[i]
       /\ 1 \in DOMAIN saved /\ saved[1] = merged[1]
  <2>1. merged[1].messages # <<>>
    BY <1>2
  <2>2. /\ Trimmed(merged, shown) \in Seq(Chats)
        /\ Distinct(Trimmed(merged, shown))
        /\ \A k \in DOMAIN Trimmed(merged, shown) :
              \E i \in shown : Trimmed(merged, shown)[k] = merged[i]
        /\ 1 \in DOMAIN Trimmed(merged, shown) /\ Trimmed(merged, shown)[1] = merged[1]
    BY <1>2, <1>4, <1>5, <1>7, <1>8, <1>9, <2>1, TrimmedList
  <2> QED BY <1>9, <2>2
<1>11. ASSUME NEW k \in DOMAIN saved
       PROVE  saved[k] = chat \/ \E i \in DOMAIN list : saved[k] = list[i] /\ list[i].id # chat.id
  <2>1. PICK i \in shown : saved[k] = merged[i]
    BY <1>10
  <2>2. CASE i = 1
    BY <1>2, <2>1, <2>2
  <2>3. CASE i # 1
    BY <1>6, <2>1, <2>3
  <2> QED BY <2>2, <2>3
<1> QED BY <1>2, <1>10, <1>11 DEF saved

\* A message more: the oldest gives way if the chat is full.
LEMMA MessageAdded ==
  ASSUME NEW messages \in Seq(Messages), Len(messages) <= MaxMessages, NEW m \in Messages
  PROVE  LET new == Recent(Append(messages, m))
         IN  /\ new \in Seq(Messages)
             /\ \E k \in 0 .. 1 :
                  /\ Len(new) = Len(messages) + 1 - k
                  /\ Len(new) \in 1 .. MaxMessages
                  /\ k = 1 => Len(new) = MaxMessages
                  /\ \A i \in 1 .. Len(messages) - k : new[i] = messages[i + k]
                  /\ new[Len(new)] = m
<1> DEFINE new  == Recent(Append(messages, m))
           more == Append(messages, m)
           n    == Len(messages)
           k    == IF n = MaxMessages THEN 1 ELSE 0
<1>1. n \in Nat /\ more \in Seq(Messages) /\ Len(more) = n + 1
      /\ (\A i \in 1 .. n : more[i] = messages[i]) /\ more[n + 1] = m
  BY AppendProperties, LenProperties
<1> HIDE DEF more, new
<1>2. new = SubSeq(more, k + 1, n + 1)
  <2>1. new = Recent(more)
    BY DEF more, new
  <2>2. CASE n = MaxMessages
    <3>1. Len(more) > MaxMessages /\ Len(more) - MaxMessages + 1 = k + 1
      BY <1>1, <2>2, Limits
    <3> QED BY <1>1, <2>1, <3>1 DEF Recent
  <2>3. CASE n # MaxMessages
    <3>1. ~(Len(more) > MaxMessages) /\ 1 = k + 1
      BY <1>1, <2>3, Limits
    <3> QED BY <1>1, <2>1, <3>1 DEF Recent
  <2> QED BY <2>2, <2>3
<1>3. \A i \in k + 1 .. n + 1 : more[i] \in Messages
  BY <1>1, ElementOfSeq
<1>4. /\ new \in Seq(Messages)
      /\ Len(new) = n + 1 - k
      /\ \A i \in 1 .. n + 1 - k : new[i] = more[i + k]
  <2> HIDE DEF k
  <2>1. k \in 0 .. 1 /\ k <= n
    BY <1>1, Limits DEF k
  <2>2. k + 1 \in Int /\ n + 1 \in Int /\ k + 1 <= n + 1
    BY <1>1, <2>1
  <2>3. /\ SubSeq(more, k + 1, n + 1) \in Seq(Messages)
        /\ Len(SubSeq(more, k + 1, n + 1)) = IF k + 1 <= n + 1 THEN n + 1 - (k + 1) + 1 ELSE 0
        /\ \A i \in 1 .. n + 1 - (k + 1) + 1 : SubSeq(more, k + 1, n + 1)[i] = more[k + 1 + i - 1]
    BY <1>3, <2>2, SubSeqProperties
  <2> QED BY <1>1, <1>2, <2>1, <2>2, <2>3
<1>5. k \in 0 .. 1 /\ k <= n
  BY <1>1, Limits
<1>6. Len(new) \in 1 .. MaxMessages /\ (k = 1 => Len(new) = MaxMessages) /\ new[Len(new)] = m
  BY <1>1, <1>4, <1>5, Limits
<1>7. \A i \in 1 .. Len(messages) - k : new[i] = messages[i + k]
  BY <1>1, <1>4, <1>5
<1> HIDE DEF k
<1> QED BY <1>4, <1>5, <1>6, <1>7 DEF new

-----------------------------------------------------------------------------
(***************************************************************************)
(* Chats and copies                                                        *)
(***************************************************************************)

\* What is known of a chat stays so as messages, sessions and time go on.
LEMMA KnownLater ==
  ASSUME NEW c, NEW s \in Nat, NEW o \in Nat, NEW now \in Nat, KnownChat(c, s, o, now),
         NEW s2 \in Nat, NEW o2 \in Nat, NEW now2 \in Nat, s <= s2, o <= o2, now <= now2
  PROVE  KnownChat(c, s2, o2, now2)
<1>1. c.id \in Nat /\ c.updated \in Nat /\ (c.backend # NoBackend => c.backend \in Nat)
  BY DEF KnownChat, Chats, Backends
<1>2. c.id <= s2 /\ c.updated <= now2 /\ (c.backend # NoBackend => c.backend <= o2)
  BY <1>1 DEF KnownChat
<1> QED BY <1>2 DEF KnownChat

LEMMA ListLater ==
  ASSUME NEW chats, NEW s \in Nat, NEW o \in Nat, NEW now \in Nat, KnownList(chats, s, o, now),
         NEW s2 \in Nat, NEW o2 \in Nat, NEW now2 \in Nat, s <= s2, o <= o2, now <= now2
  PROVE  KnownList(chats, s2, o2, now2)
BY KnownLater DEF KnownList

\* A chat with one message more, a question or what answers its last one.
LEMMA AnswersKept ==
  ASSUME NEW c \in Chats, Len(c.messages) <= MaxMessages, OwnAnswers(c), NEW now \in Nat,
         NEW m \in Messages,
         \/ m.kind = "user"
         \/ /\ c.messages # <<>> /\ c.messages[Len(c.messages)] = Question(m.of)
            /\ m.kind # "error" => c.backend # NoBackend /\ m.from = c.backend
  PROVE  LET d == WithMessage(c, m, now)
         IN  /\ d \in Chats
             /\ d.id = c.id /\ d.backend = c.backend /\ d.updated = now
             /\ OwnAnswers(d)
             /\ d.messages # <<>> /\ Len(d.messages) <= MaxMessages
             /\ d.messages[Len(d.messages)] = m
<1> DEFINE d   == WithMessage(c, m, now)
           old == c.messages
           new == d.messages
<1>0. old \in Seq(Messages) /\ Recent(Append(old, m)) \in Seq(Messages)
  <2>1. old \in Seq(Messages)
    BY DEF Chats
  <2> HIDE DEF old
  <2> QED BY <2>1, MessageAdded DEF old
<1>1. /\ d \in Chats /\ d.id = c.id /\ d.backend = c.backend /\ d.updated = now
      /\ old \in Seq(Messages) /\ new \in Seq(Messages)
      /\ Len(old) <= MaxMessages /\ new = Recent(Append(old, m))
  BY <1>0 DEF Chats, WithMessage
<1> HIDE DEF d, new, old
<1>2. /\ DOMAIN old = 1 .. Len(old) /\ Len(old) \in Nat
      /\ DOMAIN new = 1 .. Len(new) /\ Len(new) \in Nat
  BY <1>1, LenProperties
<1>3. PICK k \in 0 .. 1 :
        /\ Len(new) = Len(old) + 1 - k
        /\ Len(new) \in 1 .. MaxMessages
        /\ \A i \in 1 .. Len(old) - k : new[i] = old[i + k]
        /\ new[Len(new)] = m
  <2>1. PICK k \in 0 .. 1 :
          /\ Len(Recent(Append(old, m))) = Len(old) + 1 - k
          /\ Len(Recent(Append(old, m))) \in 1 .. MaxMessages
          /\ \A i \in 1 .. Len(old) - k : Recent(Append(old, m))[i] = old[i + k]
          /\ Recent(Append(old, m))[Len(Recent(Append(old, m)))] = m
    BY <1>1, MessageAdded
  <2>2. /\ Len(new) = Len(old) + 1 - k
        /\ Len(new) \in 1 .. MaxMessages
        /\ \A i \in 1 .. Len(old) - k : new[i] = old[i + k]
        /\ new[Len(new)] = m
    BY <1>1, <2>1
  <2> QED BY <2>2
<1>4. ASSUME NEW i \in DOMAIN new, new[i].kind # "user"
      PROVE  /\ i > 1 => new[i - 1] = Question(new[i].of)
             /\ new[i].kind # "error" => d.backend # NoBackend /\ new[i].from = d.backend
  <2>1. CASE i = Len(new)
    <3>1. new[i] = m
      BY <1>3, <2>1
    <3>2. i > 1 => new[i - 1] = old[Len(old)]
      <4> SUFFICES ASSUME i > 1 PROVE new[i - 1] = old[Len(old)]
        OBVIOUS
      <4>1. i - 1 \in 1 .. Len(old) - k /\ (i - 1) + k = Len(old)
        BY <1>2, <1>3, <2>1
      <4> QED BY <1>3, <4>1
    <3> QED BY <1>1, <1>4, <3>1, <3>2 DEF old
  <2>2. CASE i # Len(new)
    <3> DEFINE n == Len(old)
               l == Len(new)
    <3>1. n \in Nat /\ k \in Nat /\ l = n + 1 - k /\ DOMAIN old = 1 .. n /\ DOMAIN new = 1 .. l
      BY <1>2, <1>3, LenProperties
    <3>2. i # l
      BY <2>2
    <3> HIDE DEF n, l
    <3>3. i \in 1 .. n - k
      BY <3>1, <3>2
    <3>4. i + k \in DOMAIN old
      BY <3>1, <3>3
    <3>5. i \in 1 .. Len(old) - k /\ i + k \in DOMAIN old /\ new[i] = old[i + k]
      BY <1>3, <3>3, <3>4 DEF n
    <3>6. i > 1 => i + k > 1 /\ new[i - 1] = old[(i + k) - 1]
      <4> SUFFICES ASSUME i > 1 PROVE i + k > 1 /\ new[i - 1] = old[(i + k) - 1]
        OBVIOUS
      <4>1. i - 1 \in 1 .. Len(old) - k /\ i + k > 1 /\ (i - 1) + k = (i + k) - 1
        BY <1>2, <3>5
      <4>2. new[i - 1] = old[(i - 1) + k]
        BY <1>3, <4>1
      <4> QED BY <4>1, <4>2
    <3> QED BY <1>1, <1>4, <3>5, <3>6 DEF OwnAnswers, old
  <2> QED BY <2>1, <2>2
<1>5. new # <<>>
  BY <1>1, <1>3, EmptySeq
<1>6. Len(new) <= MaxMessages
  BY <1>2, <1>3, Limits
<1>7. OwnAnswers(d)
  BY <1>4 DEF OwnAnswers, new
<1> QED BY <1>1, <1>3, <1>5, <1>6, <1>7 DEF d, new

LEMMA CopyKnown ==
  ASSUME Inv, NEW c \in Copies
  PROVE  KnownChat(c, sent, opened, clock)
<1>1. CASE c \in ToSet(storage)
  BY <1>1 DEF Inv, KnownList, ToSet
<1>2. CASE \E t \in Tabs : c \in ToSet(sessions[t])
  BY <1>2 DEF Inv, TabOK, KnownList, ToSet
<1>3. CASE \E t \in Tabs : c = active[t] \/ c \in {f.chat : f \in flights[t]}
  BY <1>3 DEF Inv, TabOK, FlightOK
<1> QED BY <1>1, <1>2, <1>3 DEF Copies

-----------------------------------------------------------------------------
(***************************************************************************)
(* The steps of the page                                                   *)
(***************************************************************************)

\* What commitSession saves and shows of a chat the tab may go on with.
LEMMA Committed ==
  ASSUME Inv, NEW t \in Tabs, NEW chat \in Chats, CommitSession(t, chat),
         chat.messages # <<>>, Len(chat.messages) <= MaxMessages,
         \A i \in DOMAIN sessions[t] : sessions[t][i].updated <= chat.updated
  PROVE  /\ active' = [active EXCEPT ![t] = chat]
         /\ sessions' = [sessions EXCEPT ![t] = storage']
         /\ storage' \in Seq(Chats) /\ Distinct(storage')
         /\ 1 \in DOMAIN storage' /\ storage'[1] = chat
         /\ \A k \in DOMAIN storage' :
              \/ storage'[k] = chat
              \/ \E i \in DOMAIN sessions[t] :
                   storage'[k] = sessions[t][i] /\ sessions[t][i].id # chat.id
<1> DEFINE list  == sessions[t]
           saved == storage'
<1>1. /\ list \in Seq(Chats) /\ Distinct(list)
      /\ \A i \in DOMAIN list : Len(list[i].messages) <= MaxMessages
  BY DEF Inv, TabOK, KnownList, KnownChat
<1>2. /\ saved = Merged(chat, list)
      /\ active' = [active EXCEPT ![t] = chat]
      /\ sessions' = [sessions EXCEPT ![t] = saved]
  BY DEF CommitSession, Inv, TypeOK
<1>3. \A i \in DOMAIN list : list[i].updated <= chat.updated
  OBVIOUS
<1> HIDE DEF list, saved
<1>4. /\ saved \in Seq(Chats) /\ Distinct(saved)
      /\ 1 \in DOMAIN saved /\ saved[1] = chat
      /\ \A k \in DOMAIN saved :
           saved[k] = chat \/ \E i \in DOMAIN list : saved[k] = list[i] /\ list[i].id # chat.id
  BY <1>1, <1>2, <1>3, CommittedList
<1> QED BY <1>2, <1>4 DEF list, saved

\* The submission a step of tab t leaves under way, if any.
LeftUnderWay(F, chat) ==
  F = {} \/ \E f \in [of : Nat, stage : {"create", "send"}, chat : {chat}] :
               /\ F = {f}
               /\ f.stage = "create" <=> chat.backend = NoBackend
               /\ chat.messages[Len(chat.messages)] = Question(f.of)

\* A chat is committed that continues a copy there is, without a backend
\* session or with one that is new or its own.
LEMMA CommitStep ==
  ASSUME Inv, NEW t \in Tabs, NEW chat, CommitSession(t, chat),
         sent' \in Nat, opened' \in Nat, clock' \in Nat,
         sent <= sent', opened <= opened', clock <= clock',
         KnownChat(chat, sent', opened', clock'), chat.messages # <<>>,
         \A i \in DOMAIN sessions[t] : sessions[t][i].updated <= chat.updated,
         \/ chat.backend \in {NoBackend, opened + 1}
         \/ \E d \in Copies : d.id = chat.id /\ d.backend = chat.backend,
         NEW F, flights' = [flights EXCEPT ![t] = F], LeftUnderWay(F, chat),
         NEW b \in BOOLEAN, busy' = [busy EXCEPT ![t] = b], F # {} => b,
         reloads' = reloads
  PROVE  Inv'
<1>1. chat \in Chats /\ Len(chat.messages) <= MaxMessages
  BY DEF KnownChat
<1>2. /\ active' = [active EXCEPT ![t] = chat]
      /\ sessions' = [sessions EXCEPT ![t] = storage']
      /\ storage' \in Seq(Chats) /\ Distinct(storage')
      /\ 1 \in DOMAIN storage' /\ storage'[1] = chat
      /\ \A k \in DOMAIN storage' :
           \/ storage'[k] = chat
           \/ \E i \in DOMAIN sessions[t] :
                storage'[k] = sessions[t][i] /\ sessions[t][i].id # chat.id
  BY <1>1, Committed
<1>3. TypeOK'
  BY <1>2 DEF Inv, TypeOK
<1>4. KnownList(storage', sent', opened', clock')
  <2>1. ASSUME NEW k \in DOMAIN storage'
        PROVE  KnownChat(storage'[k], sent', opened', clock')
    <3>1. CASE storage'[k] = chat
      BY <3>1
    <3>2. ASSUME NEW i \in DOMAIN sessions[t], storage'[k] = sessions[t][i]
          PROVE  KnownChat(storage'[k], sent', opened', clock')
      <4>1. KnownChat(sessions[t][i], sent, opened, clock)
        BY DEF Inv, TabOK, KnownList
      <4> QED BY <3>2, <4>1, KnownLater DEF Inv, TypeOK
    <3> QED BY <1>2, <3>1, <3>2
  <2> QED BY <1>2, <2>1 DEF KnownList
<1>5. ASSUME NEW s \in Tabs, s # t
      PROVE  TabOK(s)'
  <2>1. /\ sessions'[s] = sessions[s] /\ active'[s] = active[s]
        /\ flights'[s] = flights[s] /\ busy'[s] = busy[s]
    BY <1>2, <1>5 DEF Inv, TypeOK
  <2>2. KnownList(sessions[s], sent', opened', clock')
    BY ListLater DEF Inv, TypeOK, TabOK
  <2>3. KnownChat(active[s], sent', opened', clock')
    BY KnownLater DEF Inv, TypeOK, TabOK
  <2>4. \A f \in flights[s] : FlightOK(s, f)'
    BY <2>1 DEF Inv, TabOK, FlightOK
  <2> QED BY <2>1, <2>2, <2>3, <2>4 DEF Inv, TabOK
<1>6. TabOK(t)'
  <2>1. /\ sessions'[t] = storage' /\ active'[t] = chat
        /\ flights'[t] = F /\ busy'[t] = b
    BY <1>2 DEF Inv, TypeOK
  <2>2. ASSUME NEW f \in F
        PROVE  FlightOK(t, f)' /\ F = {f}
    <3>1. \A k \in DOMAIN storage' : storage'[k].updated <= chat.updated
      <4>1. chat.updated \in Nat
        BY <1>1 DEF Chats
      <4> QED BY <1>2, <4>1
    <3> QED BY <2>1, <2>2, <3>1 DEF LeftUnderWay, FlightOK
  <2> QED BY <1>2, <1>4, <2>1, <2>2 DEF TabOK
<1>7. \A c \in Copies' : c = chat \/ c \in Copies
  <2>1. \A c \in ToSet(storage') : c = chat \/ c \in ToSet(sessions[t])
    BY <1>2 DEF ToSet
  <2>2. ASSUME NEW s \in Tabs
        PROVE  /\ \A c \in ToSet(sessions'[s]) : c = chat \/ c \in ToSet(sessions[s])
               /\ active'[s] \in {chat, active[s]}
               /\ \A c \in {f.chat : f \in flights'[s]} : c \in {chat, active'[s]}
    <3>1. CASE s = t
      <4>1. sessions'[s] = storage' /\ active'[s] = chat
        BY <1>2, <3>1 DEF Inv, TypeOK
      <4>2. \A f \in flights'[s] : f.chat = active'[s]
        BY <1>6, <3>1 DEF TabOK, FlightOK
      <4> QED BY <2>1, <3>1, <4>1, <4>2
    <3>2. CASE s # t
      <4>1. sessions'[s] = sessions[s] /\ active'[s] = active[s]
        BY <1>2, <3>2 DEF Inv, TypeOK
      <4>2. \A f \in flights'[s] : f.chat = active'[s]
        BY <1>5, <3>2 DEF TabOK, FlightOK
      <4> QED BY <4>1, <4>2
    <3> QED BY <3>1, <3>2
  <2> SUFFICES ASSUME NEW c \in Copies' PROVE c = chat \/ c \in Copies
    OBVIOUS
  <2>3. CASE c \in ToSet(storage')
    BY <2>1, <2>3 DEF Copies
  <2>4. ASSUME NEW s \in Tabs,
               c \in ToSet(sessions'[s]) \cup {active'[s]} \cup {f.chat : f \in flights'[s]}
        PROVE  c \in {chat, active[s]} \/ c \in ToSet(sessions[s])
    BY <2>2, <2>4
  <2>5. ASSUME NEW s \in Tabs, c \in {chat, active[s]} \/ c \in ToSet(sessions[s])
        PROVE  c = chat \/ c \in Copies
    BY <2>5 DEF Copies
  <2>6. c \in ToSet(storage') \/ \E s \in Tabs :
          c \in ToSet(sessions'[s]) \cup {active'[s]} \cup {f.chat : f \in flights'[s]}
    BY DEF Copies
  <2> QED BY <2>3, <2>4, <2>5, <2>6
<1>8. OneOwner'
  <2> SUFFICES ASSUME NEW c \in Copies', NEW d \in Copies',
                      c.backend # NoBackend, c.backend = d.backend
               PROVE  c.id = d.id
    BY DEF OneOwner
  <2>1. ASSUME NEW e \in Copies, e.backend = chat.backend, chat.backend # NoBackend
        PROVE  e.id = chat.id
    <3>1. e.backend \in Nat /\ e.backend <= opened /\ opened \in Nat
      BY <2>1, CopyKnown DEF KnownChat, Chats, Backends, Inv, TypeOK
    <3>2. chat.backend # opened + 1
      BY <2>1, <3>1
    <3>3. PICK e2 \in Copies : e2.id = chat.id /\ e2.backend = chat.backend
      BY <2>1, <3>2
    <3> QED BY <2>1, <3>3 DEF Inv, OneOwner
  <2>2. CASE c = chat /\ d = chat
    BY <2>2
  <2>3. CASE c = chat /\ d \in Copies
    BY <2>1, <2>3
  <2>4. CASE c \in Copies /\ d = chat
    BY <2>1, <2>4
  <2>5. CASE c \in Copies /\ d \in Copies
    BY <2>5 DEF Inv, OneOwner
  <2> QED BY <1>7, <2>2, <2>3, <2>4, <2>5
<1> QED BY <1>3, <1>4, <1>5, <1>6, <1>8 DEF Inv

LEMMA MessageTypes ==
  ASSUME NEW n \in Nat, NEW backend \in Backends, NEW kind \in Kinds
  PROVE  Question(n) \in Messages /\ Reply(kind, n, backend) \in Messages
BY DEF Question, Reply, Messages, Kinds, Backends

\* What is known of a tab.
LEMMA TabFacts ==
  ASSUME Inv, NEW t \in Tabs
  PROVE  /\ KnownChat(active[t], sent, opened, clock) /\ active[t] \in Copies
         /\ \A i \in DOMAIN sessions[t] : sessions[t][i].updated <= clock
         /\ \A f \in flights[t] : /\ flights[t] = {f} /\ busy[t]
                                  /\ f.chat = active[t] /\ f.of \in Nat
                                  /\ f.stage \in {"create", "send"}
                                  /\ f.stage = "create" <=> f.chat.backend = NoBackend
                                  /\ f.chat.messages # <<>>
                                  /\ f.chat.messages[Len(f.chat.messages)] = Question(f.of)
BY DEF Inv, TabOK, KnownList, KnownChat, FlightOK, Copies

LEMMA InitInv ==
  ASSUME Init
  PROVE  Inv
<1>1. EmptyChat \in Chats /\ EmptyChat.messages = <<>> /\ EmptyChat.id = 0
      /\ EmptyChat.backend = NoBackend /\ EmptyChat.updated = 0
  BY DEF EmptyChat, Chats, Backends
<1>2. KnownChat(EmptyChat, 0, 0, 1)
  BY <1>1, Limits DEF KnownChat, OwnAnswers
<1>3. KnownList(<<>>, 0, 0, 1)
  BY DEF KnownList, Distinct
<1>4. \A c \in Copies : c = EmptyChat
  BY DEF Copies, Init, ToSet
<1>5. \A t \in Tabs : TabOK(t)
  BY <1>1, <1>2, <1>3 DEF TabOK, Init
<1>6. TypeOK
  BY DEF Init, TypeOK
<1> QED BY <1>1, <1>3, <1>4, <1>5, <1>6 DEF Inv, Init, OneOwner

\* The chat a message is submitted in.
Begun(t) == [active[t] EXCEPT !.id = IF @ = 0 THEN sent + 1 ELSE @]

\* The chat as it is when the message was submitted.
LEMMA Submitted ==
  ASSUME Inv, NEW t \in Tabs, NEW now \in Nat, clock <= now
  PROVE  LET chat == WithMessage(Begun(t), Question(sent + 1), now)
         IN  /\ KnownChat(chat, sent + 1, opened, now) /\ chat.messages # <<>>
             /\ chat.messages[Len(chat.messages)] = Question(sent + 1)
             /\ \A i \in DOMAIN sessions[t] : sessions[t][i].updated <= chat.updated
             /\ \/ chat.backend = NoBackend
                \/ \E d \in Copies : d.id = chat.id /\ d.backend = chat.backend
<1> DEFINE old  == active[t]
           n    == sent + 1
           c    == Begun(t)
           chat == WithMessage(c, Question(n), now)
<1>1. /\ KnownChat(old, sent, opened, clock) /\ old \in Copies
      /\ \A i \in DOMAIN sessions[t] : sessions[t][i].updated <= clock
  BY TabFacts
<1>2. /\ n \in Nat \ {0} /\ sent \in Nat /\ opened \in Nat /\ clock \in Nat /\ sent < n
  BY DEF Inv, TypeOK
<1>3. Question(n) \in Messages /\ Question(n).kind = "user"
  BY <1>2, MessageTypes DEF Question, Kinds, Backends
<1>4. /\ c \in Chats /\ c.id = (IF old.id = 0 THEN n ELSE old.id)
      /\ c.backend = old.backend /\ c.messages = old.messages
  BY <1>1, <1>2 DEF Begun, KnownChat, Chats
<1>5. Len(c.messages) <= MaxMessages /\ OwnAnswers(c)
  BY <1>1, <1>4 DEF KnownChat, OwnAnswers
<1> HIDE DEF n, c, old
<1>6. /\ chat \in Chats
      /\ chat.id = c.id /\ chat.backend = c.backend /\ chat.updated = now
      /\ OwnAnswers(chat)
      /\ chat.messages # <<>> /\ Len(chat.messages) <= MaxMessages
      /\ chat.messages[Len(chat.messages)] = Question(n)
  BY <1>3, <1>4, <1>5, AnswersKept
<1> HIDE DEF chat
<1>8. KnownChat(chat, n, opened, now)
  <2>1. old.id \in Nat /\ old.id <= sent /\ (old.backend # NoBackend => old.backend <= opened)
    BY <1>1 DEF KnownChat, Chats
  <2>2. chat.id # 0 /\ chat.id <= n /\ chat.updated <= now
    BY <1>2, <1>4, <1>6, <2>1
  <2> QED BY <1>4, <1>6, <2>1, <2>2 DEF KnownChat
<1>9. \A i \in DOMAIN sessions[t] : sessions[t][i].updated <= chat.updated
  <2>1. \A i \in DOMAIN sessions[t] : sessions[t][i].updated \in Nat
    BY DEF Inv, TabOK, KnownList, KnownChat, Chats
  <2> QED BY <1>1, <1>2, <1>6, <2>1
<1>10. chat.backend = NoBackend \/ \E d \in Copies : d.id = chat.id /\ d.backend = chat.backend
  BY <1>1, <1>4, <1>6 DEF KnownChat
<1> QED BY <1>6, <1>8, <1>9, <1>10 DEF n, c, chat

LEMMA SubmitInv ==
  ASSUME Inv, NEW t \in Tabs, SubmitMessage(t)
  PROVE  Inv'
<1>1. PICK now \in {clock, clock + 1} :
        LET n == sent + 1
            chat == WithMessage(Begun(t), Question(n), now)
            stage == IF chat.backend = NoBackend THEN "create" ELSE "send"
        IN  /\ Now(now)
            /\ sent' = n
            /\ busy' = [busy EXCEPT ![t] = TRUE]
            /\ flights' = [flights EXCEPT ![t] = @ \cup {Flight(n, stage, chat)}]
            /\ CommitSession(t, chat)
  BY DEF SubmitMessage, Begun
<1> DEFINE chat  == WithMessage(Begun(t), Question(sent + 1), now)
           stage == IF chat.backend = NoBackend THEN "create" ELSE "send"
           F     == {Flight(sent + 1, stage, chat)}
<1>2. /\ sent \in Nat /\ opened \in Nat /\ clock \in Nat /\ now \in Nat /\ clock <= now
      /\ sent + 1 \in Nat /\ sent <= sent + 1
  BY DEF Inv, TypeOK
<1>3. ~busy[t] /\ opened' = opened /\ reloads' = reloads
  BY DEF SubmitMessage, MaySubmit
<1>4. flights[t] = {}
  BY <1>3, TabFacts
<1>5. /\ clock' = now /\ sent' = sent + 1
      /\ busy' = [busy EXCEPT ![t] = TRUE]
      /\ flights' = [flights EXCEPT ![t] = F]
      /\ CommitSession(t, chat)
  BY <1>1, <1>4 DEF Now
<1>6. /\ KnownChat(chat, sent + 1, opened, now) /\ chat.messages # <<>>
      /\ chat.messages[Len(chat.messages)] = Question(sent + 1)
      /\ \A i \in DOMAIN sessions[t] : sessions[t][i].updated <= chat.updated
      /\ chat.backend = NoBackend \/ \E d \in Copies : d.id = chat.id /\ d.backend = chat.backend
  BY <1>2, Submitted
<1> HIDE DEF chat
<1>7. LeftUnderWay(F, chat)
  <2>1. /\ Flight(sent + 1, stage, chat) \in [of : Nat, stage : {"create", "send"}, chat : {chat}]
        /\ Flight(sent + 1, stage, chat).of = sent + 1
        /\ Flight(sent + 1, stage, chat).stage = stage
    BY <1>2 DEF Flight
  <2> QED BY <1>6, <2>1 DEF LeftUnderWay
<1>8. /\ sent' \in Nat /\ opened' \in Nat /\ clock' \in Nat
      /\ sent <= sent' /\ opened <= opened' /\ clock <= clock'
      /\ KnownChat(chat, sent', opened', clock')
  BY <1>2, <1>3, <1>5, <1>6
<1>9. F # {} => TRUE
  OBVIOUS
<1> HIDE DEF F
<1> QED BY <1>3, <1>5, <1>6, <1>7, <1>8, CommitStep

\* A backend session is there for the chat of a submission.
LEMMA CreatedInv ==
  ASSUME Inv, NEW t \in Tabs, SessionCreated(t)
  PROVE  Inv'
<1>1. PICK f \in flights[t] :
        /\ f.stage = "create"
        /\ opened' = opened + 1
        /\ flights' = [flights EXCEPT ![t] =
                         (@ \ {f}) \cup {Flight(f.of, "send", WithSession(f, opened'))}]
        /\ CommitSession(t, [f.chat EXCEPT !.backend = opened'])
  BY DEF SessionCreated
<1> DEFINE chat == WithSession(f, opened + 1)
           F    == {Flight(f.of, "send", chat)}
<1>2. /\ sent \in Nat /\ opened \in Nat /\ clock \in Nat
      /\ opened + 1 \in Nat \ {0} /\ opened <= opened + 1 /\ opened + 1 # NoBackend
  BY Limits DEF Inv, TypeOK
<1>3. /\ flights[t] = {f} /\ f.of \in Nat /\ f.chat.backend = NoBackend /\ busy[t]
      /\ f.chat.messages # <<>>
      /\ f.chat.messages[Len(f.chat.messages)] = Question(f.of)
      /\ KnownChat(f.chat, sent, opened, clock)
  BY <1>1, TabFacts
<1>4. /\ flights' = [flights EXCEPT ![t] = F]
      /\ CommitSession(t, chat)
      /\ sent' = sent /\ clock' = clock /\ reloads' = reloads
      /\ busy' = [busy EXCEPT ![t] = TRUE]
  <2>1. ({f} \ {f}) \cup {Flight(f.of, "send", WithSession(f, opened'))} = F
    BY <1>1
  <2>2. flights' = [flights EXCEPT ![t] = F]
    BY <1>1, <1>3, <2>1
  <2>3. CommitSession(t, chat)
    BY <1>1 DEF WithSession
  <2>4. sent' = sent /\ clock' = clock /\ reloads' = reloads /\ busy' = busy
    BY DEF SessionCreated
  <2>5. busy' = [busy EXCEPT ![t] = TRUE]
    <3>1. busy \in [Tabs -> BOOLEAN]
      BY DEF Inv, TypeOK
    <3> QED BY <1>3, <2>4, <3>1
  <2> QED BY <2>2, <2>3, <2>4, <2>5
<1>5. /\ chat \in Chats /\ chat.backend = opened + 1
      /\ chat.id = f.chat.id /\ chat.updated = f.chat.updated /\ chat.messages = f.chat.messages
  BY <1>2, <1>3 DEF WithSession, KnownChat, Chats, Backends
<1> HIDE DEF chat
<1>6. KnownChat(chat, sent', opened', clock')
  <2>1. OwnAnswers(chat)
    BY <1>3, <1>5 DEF OwnAnswers, KnownChat
  <2> QED BY <1>1, <1>2, <1>3, <1>4, <1>5, <2>1 DEF KnownChat
<1>7. LeftUnderWay(F, chat)
  <2>1. /\ Flight(f.of, "send", chat) \in [of : Nat, stage : {"create", "send"}, chat : {chat}]
        /\ Flight(f.of, "send", chat).of = f.of
        /\ Flight(f.of, "send", chat).stage = "send"
    BY <1>3 DEF Flight
  <2> QED BY <1>2, <1>3, <1>5, <2>1 DEF LeftUnderWay
<1>8. \A i \in DOMAIN sessions[t] : sessions[t][i].updated <= chat.updated
  BY <1>5 DEF Inv, TabOK, FlightOK
<1>9. chat.messages # <<>> /\ chat.backend \in {NoBackend, opened + 1}
  BY <1>3, <1>5
<1>10. /\ sent' \in Nat /\ opened' \in Nat /\ clock' \in Nat
       /\ sent <= sent' /\ opened <= opened' /\ clock <= clock'
  BY <1>1, <1>2, <1>4
<1> HIDE DEF F
<1> QED BY <1>4, <1>6, <1>7, <1>8, <1>9, <1>10, CommitStep

\* The submission of f is over with a reply of its backend session, or an error.
ReplyOf(f) ==
  {Reply("error", f.of, NoBackend)}
  \cup {Reply(kind, f.of, f.chat.backend) : kind \in IF f.stage = "send" THEN Replies ELSE {}}

\* The chat as it is when the submission is over.
LEMMA Ended ==
  ASSUME Inv, NEW t \in Tabs, NEW f \in flights[t], NEW reply \in ReplyOf(f),
         NEW now \in Nat, clock <= now
  PROVE  LET chat == WithMessage(f.chat, reply, now)
         IN  /\ KnownChat(chat, sent, opened, now) /\ chat.messages # <<>>
             /\ \A i \in DOMAIN sessions[t] : sessions[t][i].updated <= chat.updated
             /\ \E d \in Copies : d.id = chat.id /\ d.backend = chat.backend
<1> DEFINE c    == f.chat
           chat == WithMessage(c, reply, now)
<1>1. sent \in Nat /\ opened \in Nat /\ clock \in Nat
  BY DEF Inv, TypeOK
<1>2. /\ KnownChat(c, sent, opened, clock) /\ c \in Copies
      /\ \A i \in DOMAIN sessions[t] : sessions[t][i].updated <= clock
      /\ f.of \in Nat /\ (f.stage = "send" => c.backend # NoBackend)
      /\ c.messages # <<>> /\ c.messages[Len(c.messages)] = Question(f.of)
  BY TabFacts
<1>3. c \in Chats /\ Len(c.messages) <= MaxMessages /\ OwnAnswers(c) /\ c.backend \in Backends
  BY <1>2 DEF KnownChat, Chats
<1>4. /\ reply \in Messages /\ reply.of = f.of
      /\ reply.kind # "error" => c.backend # NoBackend /\ reply.from = c.backend
  <2>1. CASE reply = Reply("error", f.of, NoBackend)
    <3>1. "error" \in Kinds /\ NoBackend \in Backends
      BY DEF Kinds, Backends
    <3>2. reply \in Messages
      BY <1>2, <2>1, <3>1, MessageTypes
    <3> QED BY <2>1, <3>2 DEF Reply
  <2>2. ASSUME NEW kind \in Replies, f.stage = "send", reply = Reply(kind, f.of, c.backend)
        PROVE  /\ reply \in Messages /\ reply.of = f.of
               /\ reply.kind # "error" => c.backend # NoBackend /\ reply.from = c.backend
    <3>1. kind \in Kinds
      BY DEF Kinds
    <3>2. reply \in Messages
      BY <1>2, <1>3, <2>2, <3>1, MessageTypes
    <3> QED BY <1>2, <2>2, <3>2 DEF Reply
  <2> QED BY <2>1, <2>2 DEF ReplyOf
<1> HIDE DEF c
<1>5. /\ chat \in Chats
      /\ chat.id = c.id /\ chat.backend = c.backend /\ chat.updated = now
      /\ OwnAnswers(chat)
      /\ chat.messages # <<>> /\ Len(chat.messages) <= MaxMessages
  BY <1>2, <1>3, <1>4, AnswersKept
<1> HIDE DEF chat
<1>6. KnownChat(chat, sent, opened, now)
  <2>1. c.id \in Nat /\ c.id # 0
    BY <1>2, <1>3 DEF KnownChat, Chats
  <2> QED BY <1>2, <1>5, <2>1 DEF KnownChat, Chats
<1>7. \A i \in DOMAIN sessions[t] : sessions[t][i].updated <= chat.updated
  <2>1. \A i \in DOMAIN sessions[t] : sessions[t][i].updated \in Nat
    BY DEF Inv, TabOK, KnownList, KnownChat, Chats
  <2> QED BY <1>1, <1>2, <1>5, <2>1
<1> QED BY <1>2, <1>5, <1>6, <1>7 DEF c, chat

LEMMA EndInv ==
  ASSUME Inv, NEW t \in Tabs, NEW f \in flights[t], NEW reply \in ReplyOf(f),
         EndSubmission(t, f, reply)
  PROVE  Inv'
<1>1. PICK now \in {clock, clock + 1} :
        Now(now) /\ CommitSession(t, WithMessage(f.chat, reply, now))
  BY DEF EndSubmission
<1> DEFINE chat == WithMessage(f.chat, reply, now)
<1>2. /\ sent \in Nat /\ opened \in Nat /\ clock \in Nat /\ now \in Nat /\ clock <= now
  BY DEF Inv, TypeOK
<1>3. /\ KnownChat(chat, sent, opened, now) /\ chat.messages # <<>>
      /\ \A i \in DOMAIN sessions[t] : sessions[t][i].updated <= chat.updated
      /\ \E d \in Copies : d.id = chat.id /\ d.backend = chat.backend
  BY <1>2, Ended
<1>4. CommitSession(t, chat) /\ clock' = now
  BY <1>1 DEF Now
<1> HIDE DEF chat
<1>5. flights[t] \ {f} = {}
  BY TabFacts
<1>6. /\ flights' = [flights EXCEPT ![t] = {}]
      /\ busy' = [busy EXCEPT ![t] = FALSE]
      /\ sent' = sent /\ opened' = opened /\ reloads' = reloads
  BY <1>5 DEF EndSubmission
<1>7. LeftUnderWay({}, chat)
  BY DEF LeftUnderWay
<1>8. /\ sent' \in Nat /\ opened' \in Nat /\ clock' \in Nat
      /\ sent <= sent' /\ opened <= opened' /\ clock <= clock'
      /\ KnownChat(chat, sent', opened', clock')
  BY <1>2, <1>3, <1>4, <1>6
<1> QED BY <1>3, <1>4, <1>6, <1>7, <1>8, CommitStep

LEMMA EmptyChatKnown ==
  ASSUME Inv
  PROVE  /\ KnownChat(EmptyChat, sent, opened, clock)
         /\ EmptyChat.messages = <<>> /\ EmptyChat.backend = NoBackend
<1>1. /\ EmptyChat \in Chats /\ EmptyChat.messages = <<>> /\ EmptyChat.id = 0
      /\ EmptyChat.backend = NoBackend /\ EmptyChat.updated = 0
  BY DEF EmptyChat, Chats, Backends
<1>2. sent \in Nat /\ opened \in Nat /\ clock \in Nat
  BY DEF Inv, TypeOK
<1> QED BY <1>1, <1>2, Limits DEF KnownChat, OwnAnswers

\* A tab without a submission opens one of its chats, or one not begun.
LEMMA OpenStep ==
  ASSUME Inv, NEW t \in Tabs, storage' = storage, sent' = sent, opened' = opened, clock' = clock,
         DOMAIN sessions' = Tabs, DOMAIN active' = Tabs, DOMAIN flights' = Tabs,
         busy' \in [Tabs -> BOOLEAN], reloads' \in [Tabs -> Nat],
         \A s \in Tabs \ {t} : /\ sessions'[s] = sessions[s] /\ active'[s] = active[s]
                               /\ flights'[s] = flights[s] /\ busy'[s] = busy[s],
         KnownList(sessions'[t], sent, opened, clock), ToSet(sessions'[t]) \subseteq Copies,
         active'[t] = EmptyChat \/ active'[t] \in ToSet(sessions'[t]), flights'[t] = {}
  PROVE  Inv'
<1>1. TypeOK'
  BY DEF Inv, TypeOK
<1>2. ASSUME NEW s \in Tabs \ {t}
      PROVE  TabOK(s)'
  <2>1. \A f \in flights[s] : FlightOK(s, f)'
    BY DEF Inv, TabOK, FlightOK
  <2> QED BY <2>1 DEF Inv, TabOK
<1>3. TabOK(t)'
  <2>1. CASE active'[t] = EmptyChat
    BY <2>1, EmptyChatKnown DEF TabOK
  <2>2. CASE active'[t] \in ToSet(sessions'[t])
    BY <2>2 DEF TabOK, KnownList, ToSet
  <2> QED BY <2>1, <2>2
<1>4. \A c \in Copies' : c = EmptyChat \/ c \in Copies
  <2> SUFFICES ASSUME NEW c \in Copies' PROVE c = EmptyChat \/ c \in Copies
    OBVIOUS
  <2>1. CASE c \in ToSet(storage)
    BY <2>1 DEF Copies
  <2>2. ASSUME NEW s \in Tabs \ {t},
               c \in ToSet(sessions[s]) \cup {active[s]} \cup {f.chat : f \in flights[s]}
        PROVE  c \in Copies
    BY <2>2 DEF Copies
  <2>3. ASSUME c \in ToSet(sessions'[t]) \cup {active'[t]} \cup {f.chat : f \in flights'[t]}
        PROVE  c = EmptyChat \/ c \in Copies
    BY <2>3
  <2>4. c \in ToSet(storage') \/ \E s \in Tabs :
          c \in ToSet(sessions'[s]) \cup {active'[s]} \cup {f.chat : f \in flights'[s]}
    BY DEF Copies
  <2> QED BY <2>1, <2>2, <2>3, <2>4
<1>5. OneOwner'
  <2>1. \A c \in Copies' : c.backend # NoBackend => c \in Copies
    BY <1>4, EmptyChatKnown
  <2> QED BY <2>1 DEF Inv, OneOwner
<1> QED BY <1>1, <1>2, <1>3, <1>5 DEF Inv

LEMMA LeaveInv ==
  ASSUME Inv, NEW t \in Tabs, HandleNewChat(t) \/ SelectSession(t)
  PROVE  Inv'
<1>1. flights[t] = {}
  BY TabFacts DEF HandleNewChat, SelectSession, MayLeave
<1>2. KnownList(sessions[t], sent, opened, clock) /\ ToSet(sessions[t]) \subseteq Copies
  BY DEF Inv, TabOK, Copies
<1>3. /\ storage' = storage /\ sessions' = sessions /\ busy' = busy /\ flights' = flights
      /\ reloads' = reloads /\ sent' = sent /\ opened' = opened /\ clock' = clock
  BY DEF HandleNewChat, SelectSession
<1>4. PICK chat : /\ chat = EmptyChat \/ chat \in ToSet(sessions[t])
                  /\ active' = [active EXCEPT ![t] = chat]
  BY DEF HandleNewChat, SelectSession
<1>5. /\ DOMAIN active' = Tabs /\ active'[t] = chat
      /\ \A s \in Tabs \ {t} : active'[s] = active[s]
  BY <1>4 DEF Inv, TypeOK
<1>6. /\ DOMAIN sessions' = Tabs /\ DOMAIN flights' = Tabs
      /\ busy' \in [Tabs -> BOOLEAN] /\ reloads' \in [Tabs -> Nat]
  BY <1>3 DEF Inv, TypeOK
<1> QED BY <1>1, <1>2, <1>3, <1>4, <1>5, <1>6, OpenStep

\* What a tab loads are stored chats.
LEMMA Loaded ==
  ASSUME Inv
  PROVE  /\ KnownList(loadSessions, sent, opened, clock)
         /\ ToSet(loadSessions) \subseteq Copies
<1> DEFINE shown == {i \in DOMAIN storage : IsSession(storage[i])}
           list  == loadSessions
<1>1. /\ storage \in Seq(Chats) /\ Distinct(storage)
      /\ \A i \in DOMAIN storage : KnownChat(storage[i], sent, opened, clock)
  BY DEF Inv, KnownList
<1>2. \A i \in DOMAIN storage : Len(storage[i].messages) <= MaxMessages
  BY <1>1 DEF KnownChat
<1>3. shown \in SUBSET DOMAIN storage
  OBVIOUS
<1>4. \A i, j \in shown : storage[i].id = storage[j].id => i = j
  BY <1>1 DEF Distinct
<1>5. list = Trimmed(storage, shown)
  BY DEF loadSessions
<1> HIDE DEF shown, list
<1>6. /\ list \in Seq(Chats) /\ Distinct(list)
      /\ \A k \in DOMAIN list : \E i \in shown : list[k] = storage[i]
  BY <1>1, <1>2, <1>3, <1>4, <1>5, TrimmedList
<1>7. KnownList(list, sent, opened, clock)
  BY <1>1, <1>3, <1>6 DEF KnownList
<1>8. ToSet(list) \subseteq Copies
  BY <1>3, <1>6 DEF ToSet, Copies
<1> QED BY <1>7, <1>8 DEF list

LEMMA ReloadInv ==
  ASSUME Inv, NEW t \in Tabs, Reload(t)
  PROVE  Inv'
<1>1. /\ DOMAIN sessions' = Tabs /\ DOMAIN active' = Tabs /\ DOMAIN flights' = Tabs
      /\ busy' \in [Tabs -> BOOLEAN] /\ reloads' \in [Tabs -> Nat]
      /\ \A s \in Tabs \ {t} : /\ sessions'[s] = sessions[s] /\ active'[s] = active[s]
                               /\ flights'[s] = flights[s] /\ busy'[s] = busy[s]
      /\ sessions'[t] = loadSessions /\ active'[t] = EmptyChat /\ flights'[t] = {}
  BY DEF Reload, Inv, TypeOK
<1>2. storage' = storage /\ sent' = sent /\ opened' = opened /\ clock' = clock
  BY DEF Reload
<1> QED BY <1>1, <1>2, Loaded, OpenStep

LEMMA AnswerReply ==
  ASSUME NEW t \in Tabs, MessageAnswered(t) \/ SubmissionFailed(t)
  PROVE  \E f \in flights[t] : \E reply \in ReplyOf(f) : EndSubmission(t, f, reply)
<1>1. CASE MessageAnswered(t)
  <2>1. PICK f \in flights[t], kind \in Replies :
          f.stage = "send" /\ EndSubmission(t, f, Reply(kind, f.of, f.chat.backend))
    BY <1>1 DEF MessageAnswered
  <2>2. Reply(kind, f.of, f.chat.backend) \in ReplyOf(f)
    BY <2>1 DEF ReplyOf
  <2> QED BY <2>1, <2>2
<1>2. CASE SubmissionFailed(t)
  <2>1. PICK f \in flights[t] : EndSubmission(t, f, Reply("error", f.of, NoBackend))
    BY <1>2 DEF SubmissionFailed
  <2>2. Reply("error", f.of, NoBackend) \in ReplyOf(f)
    BY DEF ReplyOf
  <2> QED BY <2>1, <2>2
<1> QED BY <1>1, <1>2

LEMMA NextInv ==
  ASSUME Inv, [Next]_vars
  PROVE  Inv'
<1>1. ASSUME NEW t \in Tabs, SubmitMessage(t)
      PROVE  Inv'
  BY <1>1, SubmitInv
<1>2. ASSUME NEW t \in Tabs, SessionCreated(t)
      PROVE  Inv'
  BY <1>2, CreatedInv
<1>3. ASSUME NEW t \in Tabs, MessageAnswered(t) \/ SubmissionFailed(t)
      PROVE  Inv'
  BY <1>3, AnswerReply, EndInv
<1>4. ASSUME NEW t \in Tabs, HandleNewChat(t) \/ SelectSession(t)
      PROVE  Inv'
  BY <1>4, LeaveInv
<1>5. ASSUME NEW t \in Tabs, Reload(t)
      PROVE  Inv'
  BY <1>5, ReloadInv
<1>6. CASE UNCHANGED vars
  <2>1. /\ TypeOK' = TypeOK /\ OneOwner' = OneOwner
        /\ KnownList(storage, sent, opened, clock)' = KnownList(storage, sent, opened, clock)
        /\ \A t \in Tabs : TabOK(t)' = TabOK(t)
    BY <1>6 DEF vars, TypeOK, OneOwner, Copies, TabOK, FlightOK
  <2> QED BY <2>1 DEF Inv
<1> QED BY <1>1, <1>2, <1>3, <1>4, <1>5, <1>6 DEF Next

-----------------------------------------------------------------------------
(***************************************************************************)
(* What a step adds to the chats on the screen                             *)
(***************************************************************************)

LEMMA SameExtends ==
  ASSUME NEW c \in Chats
  PROVE  Extends(c, c)
<1> DEFINE m == c.messages
<1>1. m \in Seq(Messages)
  BY DEF Chats
<1>2. SubSeq(m, 0 + 1, Len(m)) = m /\ Len(m) \in Nat
  BY <1>1, SubSeqFull, LenProperties
<1>3. 0 \in 0 .. Len(m) /\ IsPrefix(SubSeq(m, 0 + 1, Len(m)), m)
  BY <1>2 DEF IsPrefix
<1> QED BY <1>3 DEF Extends

LEMMA MessageExtends ==
  ASSUME NEW c \in Chats, Len(c.messages) <= MaxMessages, NEW m \in Messages,
         NEW d, d.messages = Recent(Append(c.messages, m)),
         c.backend \in {NoBackend, d.backend}
  PROVE  Extends(d, c)
<1> DEFINE old == c.messages
           new == d.messages
<1>1. old \in Seq(Messages) /\ Len(old) <= MaxMessages /\ new = Recent(Append(old, m))
  BY DEF Chats
<1> HIDE DEF old, new
<1>2. /\ new \in Seq(Messages)
      /\ \E k \in 0 .. 1 :
           /\ Len(Recent(Append(old, m))) = Len(old) + 1 - k
           /\ Len(Recent(Append(old, m))) \in 1 .. MaxMessages
           /\ k = 1 => Len(Recent(Append(old, m))) = MaxMessages
           /\ \A i \in 1 .. Len(old) - k : Recent(Append(old, m))[i] = old[i + k]
  BY <1>1, MessageAdded
<1>3. PICK k \in 0 .. 1 :
           /\ Len(Recent(Append(old, m))) = Len(old) + 1 - k
           /\ Len(Recent(Append(old, m))) \in 1 .. MaxMessages
           /\ k = 1 => Len(Recent(Append(old, m))) = MaxMessages
           /\ \A i \in 1 .. Len(old) - k : Recent(Append(old, m))[i] = old[i + k]
  BY <1>2
<1>4. /\ Len(new) = Len(old) + 1 - k /\ Len(new) \in 1 .. MaxMessages
      /\ k = 1 => Len(new) = MaxMessages
      /\ \A i \in 1 .. Len(old) - k : new[i] = old[i + k]
  BY <1>1, <1>3
<1>5. Len(old) \in Nat /\ DOMAIN old = 1 .. Len(old) /\ DOMAIN new = 1 .. Len(new)
  BY <1>1, <1>2, LenProperties
<1>6. k \in 0 .. Len(old)
  BY <1>4, <1>5
<1> DEFINE rest == SubSeq(old, k + 1, Len(old))
           n    == Len(old) - k
<1>7. n \in Nat /\ n <= Len(new)
  BY <1>4, <1>5, <1>6
<1>8. /\ rest \in Seq(Messages) /\ Len(rest) = n
      /\ \A i \in 1 .. n : rest[i] = new[i]
  <2>1. \A i \in k + 1 .. Len(old) : old[i] \in Messages
    BY <1>1, <1>5, ElementOfSeq
  <2>2. k + 1 \in Int /\ Len(old) \in Int
    BY <1>5
  <2>3. /\ rest \in Seq(Messages)
        /\ Len(rest) = IF k + 1 <= Len(old) THEN Len(old) - (k + 1) + 1 ELSE 0
        /\ \A i \in 1 .. Len(old) - (k + 1) + 1 : rest[i] = old[(k + 1) + i - 1]
    BY <2>1, <2>2, SubSeqProperties
  <2> HIDE DEF rest
  <2>4. Len(rest) = n
    <3>1. CASE k + 1 <= Len(old)
      BY <1>5, <1>6, <2>3, <3>1
    <3>2. CASE ~(k + 1 <= Len(old))
      <4>1. Len(rest) = 0
        BY <2>3, <3>2
      <4>2. Len(old) \in Nat /\ k \in Nat /\ k <= Len(old)
        BY <1>5, <1>6
      <4>3. Len(old) = k
        BY <3>2, <4>2
      <4> QED BY <4>1, <4>2, <4>3
    <3> QED BY <3>1, <3>2
  <2>5. ASSUME NEW i \in 1 .. n
        PROVE  rest[i] = new[i]
    <3>1. i \in 1 .. Len(old) - (k + 1) + 1 /\ (k + 1) + i - 1 = i + k
      BY <1>5, <1>6
    <3> QED BY <1>4, <2>3, <3>1
  <2> QED BY <2>3, <2>4, <2>5
<1> HIDE DEF rest, n
<1>9. IsPrefix(rest, new)
  <2>1. SubSeq(rest, 1, n) = rest
    BY <1>8, SubSeqFull
  <2>2. \A i \in 1 .. n : new[i] \in Messages
    BY <1>2, <1>5, <1>7, ElementOfSeq
  <2>3. /\ SubSeq(new, 1, n) \in Seq(Messages)
        /\ Len(SubSeq(new, 1, n)) = n
        /\ \A i \in 1 .. n : SubSeq(new, 1, n)[i] = new[i]
    BY <1>7, <2>2, SubSeqProperties
  <2>4. SubSeq(new, 1, n) = rest
    BY <1>8, <2>3, SeqEqual
  <2> QED BY <1>7, <1>8, <2>1, <2>4 DEF IsPrefix
<1>10. k > 0 => Len(new) = MaxMessages /\ k <= 1
  BY <1>4
<1> QED BY <1>6, <1>9, <1>10 DEF Extends, rest, old, new

\* What a tab lists after a step continues what it listed before.
Continued(s) ==
  \A i \in DOMAIN sessions[s], j \in DOMAIN sessions'[s] :
    sessions[s][i].id = sessions'[s][j].id => Extends(sessions'[s][j], sessions[s][i])

LEMMA SameContinued ==
  ASSUME Inv, NEW s \in Tabs, sessions'[s] = sessions[s]
  PROVE  Continued(s)
<1>1. \A i \in DOMAIN sessions[s] : sessions[s][i] \in Chats
  BY DEF Inv, TabOK, KnownList, KnownChat
<1> QED BY <1>1, SameExtends DEF Inv, TabOK, KnownList, Distinct, Continued

LEMMA CommitContinued ==
  ASSUME Inv, NEW t \in Tabs, NEW chat \in Chats, CommitSession(t, chat),
         chat.messages # <<>>, Len(chat.messages) <= MaxMessages,
         \A i \in DOMAIN sessions[t] : sessions[t][i].updated <= chat.updated,
         Extends(chat, active[t]),
         chat.id > sent \/ (chat.id = active[t].id /\ active[t].messages # <<>>)
  PROVE  \A s \in Tabs : Continued(s)
<1>1. /\ sessions' = [sessions EXCEPT ![t] = storage']
      /\ \A k \in DOMAIN storage' :
           \/ storage'[k] = chat
           \/ \E i \in DOMAIN sessions[t] :
                storage'[k] = sessions[t][i] /\ sessions[t][i].id # chat.id
  BY Committed
<1>2. ASSUME NEW s \in Tabs, s # t
      PROVE  Continued(s)
  BY <1>1, <1>2, SameContinued DEF Inv, TypeOK
<1>3. sessions'[t] = storage'
  BY <1>1 DEF Inv, TypeOK
<1>4. ASSUME NEW i \in DOMAIN sessions[t], NEW j \in DOMAIN storage',
             sessions[t][i].id = storage'[j].id
      PROVE  Extends(storage'[j], sessions[t][i])
  <2>1. KnownChat(sessions[t][i], sent, opened, clock) /\ Distinct(sessions[t])
    BY DEF Inv, TabOK, KnownList
  <2>2. CASE storage'[j] = chat
    <3>1. sessions[t][i].id = chat.id
      BY <1>4, <2>2
    <3>2. sessions[t][i].id <= sent /\ sessions[t][i].id \in Nat /\ sent \in Nat
      BY <2>1 DEF KnownChat, Chats, Inv, TypeOK
    <3>3. chat.id = active[t].id /\ active[t].messages # <<>>
      BY <3>1, <3>2
    <3>4. PICK k \in DOMAIN sessions[t] : sessions[t][k] = active[t]
      BY <3>3 DEF Inv, TabOK
    <3>5. k = i
      BY <2>1, <3>1, <3>3, <3>4 DEF Distinct
    <3> QED BY <2>2, <3>4, <3>5
  <2>3. ASSUME NEW k \in DOMAIN sessions[t], storage'[j] = sessions[t][k]
        PROVE  Extends(storage'[j], sessions[t][i])
    <3>1. k = i
      BY <1>4, <2>1, <2>3 DEF Distinct
    <3>2. sessions[t][i] \in Chats
      BY <2>1 DEF KnownChat
    <3> QED BY <2>3, <3>1, <3>2, SameExtends
  <2> QED BY <1>1, <2>2, <2>3
<1>5. Continued(t)
  BY <1>3, <1>4 DEF Continued
<1> QED BY <1>2, <1>5

LEMMA SubmitContinued ==
  ASSUME Inv, NEW t \in Tabs, SubmitMessage(t)
  PROVE  \A s \in Tabs : Continued(s)
<1>1. PICK now \in {clock, clock + 1} :
        CommitSession(t, WithMessage(Begun(t), Question(sent + 1), now))
  BY DEF SubmitMessage, Begun
<1> DEFINE old  == active[t]
           chat == WithMessage(Begun(t), Question(sent + 1), now)
<1>2. now \in Nat /\ clock <= now /\ sent \in Nat
  BY DEF Inv, TypeOK
<1>3. /\ KnownChat(chat, sent + 1, opened, now) /\ chat.messages # <<>>
      /\ \A i \in DOMAIN sessions[t] : sessions[t][i].updated <= chat.updated
  BY <1>2, Submitted
<1>4. KnownChat(old, sent, opened, clock)
  BY TabFacts
<1>5. /\ chat.messages = Recent(Append(old.messages, Question(sent + 1)))
      /\ chat.backend = old.backend
      /\ chat.id = IF old.id = 0 THEN sent + 1 ELSE old.id
  BY <1>4 DEF WithMessage, Begun, KnownChat, Chats
<1>6. Question(sent + 1) \in Messages
  BY <1>2, MessageTypes DEF Kinds, Backends
<1>7. chat \in Chats /\ Len(chat.messages) <= MaxMessages
  BY <1>3 DEF KnownChat
<1> HIDE DEF chat
<1>8. Extends(chat, old)
  BY <1>4, <1>5, <1>6, MessageExtends DEF KnownChat
<1>9. chat.id > sent \/ (chat.id = old.id /\ old.messages # <<>>)
  BY <1>2, <1>4, <1>5 DEF KnownChat
<1>10. CommitSession(t, chat)
  BY <1>1 DEF chat
<1> QED BY <1>3, <1>7, <1>8, <1>9, <1>10, CommitContinued

LEMMA CreatedContinued ==
  ASSUME Inv, NEW t \in Tabs, SessionCreated(t)
  PROVE  \A s \in Tabs : Continued(s)
<1>1. PICK f \in flights[t] :
        f.stage = "create" /\ CommitSession(t, [f.chat EXCEPT !.backend = opened + 1])
  BY DEF SessionCreated
<1> DEFINE old  == active[t]
           chat == [old EXCEPT !.backend = opened + 1]
<1>2. /\ f.chat = old /\ old.backend = NoBackend /\ old.messages # <<>>
      /\ KnownChat(old, sent, opened, clock)
  BY <1>1, TabFacts
<1>3. opened + 1 \in Backends
  BY DEF Backends, Inv, TypeOK
<1>4. /\ chat \in Chats /\ chat.backend = opened + 1
      /\ chat.id = old.id /\ chat.updated = old.updated /\ chat.messages = old.messages
  BY <1>2, <1>3 DEF KnownChat, Chats
<1>5. \A i \in DOMAIN sessions[t] : sessions[t][i].updated <= old.updated
  BY <1>2 DEF Inv, TabOK, FlightOK
<1>6. Extends(old, old)
  BY <1>2, SameExtends DEF KnownChat
<1>7. CommitSession(t, chat)
  BY <1>1, <1>2
<1> HIDE DEF chat
<1>8. Extends(chat, old)
  BY <1>2, <1>4, <1>6 DEF Extends
<1>9. Len(chat.messages) <= MaxMessages
  BY <1>2, <1>4 DEF KnownChat
<1> QED BY <1>2, <1>4, <1>5, <1>7, <1>8, <1>9, CommitContinued

LEMMA EndContinued ==
  ASSUME Inv, NEW t \in Tabs, NEW f \in flights[t], NEW reply \in ReplyOf(f),
         EndSubmission(t, f, reply)
  PROVE  \A s \in Tabs : Continued(s)
<1>1. PICK now \in {clock, clock + 1} :
        CommitSession(t, WithMessage(f.chat, reply, now))
  BY DEF EndSubmission
<1> DEFINE old  == active[t]
           chat == WithMessage(old, reply, now)
<1>2. now \in Nat /\ clock <= now
  BY DEF Inv, TypeOK
<1>3. /\ f.chat = old /\ old.messages # <<>> /\ f.of \in Nat
      /\ KnownChat(old, sent, opened, clock)
  BY TabFacts
<1>4. /\ KnownChat(chat, sent, opened, now) /\ chat.messages # <<>>
      /\ \A i \in DOMAIN sessions[t] : sessions[t][i].updated <= chat.updated
  BY <1>2, <1>3, Ended
<1>5. /\ chat.messages = Recent(Append(old.messages, reply))
      /\ chat.backend = old.backend /\ chat.id = old.id
  BY <1>3 DEF WithMessage, KnownChat, Chats
<1>6. reply \in Messages
  <2>1. /\ "error" \in Kinds /\ Replies \subseteq Kinds
        /\ NoBackend \in Backends /\ old.backend \in Backends
    BY <1>3 DEF Kinds, Backends, KnownChat, Chats
  <2> QED BY <1>3, <2>1, MessageTypes DEF ReplyOf
<1>7. chat \in Chats /\ Len(chat.messages) <= MaxMessages
  BY <1>4 DEF KnownChat
<1>8. CommitSession(t, chat)
  BY <1>1, <1>3
<1> HIDE DEF chat
<1>9. Extends(chat, old)
  BY <1>3, <1>5, <1>6, MessageExtends DEF KnownChat
<1> QED BY <1>3, <1>4, <1>5, <1>7, <1>8, <1>9, CommitContinued

-----------------------------------------------------------------------------
(***************************************************************************)
(* The results                                                             *)
(***************************************************************************)

\* Every copy of a chat, in a list, in the storage, on a screen or in the hands
\* of a submission, is a chat of the program, and no list holds one twice.
THEOREM InvAlways == Spec => []Inv
BY InitInv, NextInv, PTL DEF Spec

\* In every copy an answer follows its question and comes from the copy's own
\* backend session (ChatApp.tsx:414), however tabs overwrite the storage.
THEOREM OneConversationAlways == Spec => []OneConversation
<1>1. Inv => OneConversation
  <2> SUFFICES ASSUME Inv PROVE OneConversation
    OBVIOUS
  <2>1. \A c \in Copies : OwnAnswers(c)
    BY CopyKnown DEF KnownChat
  <2> QED BY <2>1 DEF Inv, OneOwner, OneConversation, OwnAnswers
<1> QED BY <1>1, InvAlways, PTL

\* The chat on the screen is saved with all it shows (commitSession,
\* saveSessions), and a submission answers in the chat on the screen.
THEOREM ActiveAlwaysKept == Spec => []ActiveKept
<1>1. Inv => ActiveKept
  BY DEF Inv, TabOK, FlightOK, ActiveKept, ToSet
<1> QED BY <1>1, InvAlways, PTL

\* A tab takes nothing back of a chat it shows until it is loaded anew:
\* saveSessions cuts a chat at its oldest message only, and only when it is full.
THEOREM NothingIsTakenBack == Spec => NothingTakenBack
<1> DEFINE Step == \A t \in Tabs : reloads'[t] = reloads[t] =>
                     \A old \in ToSet(sessions[t]), new \in ToSet(sessions'[t]) :
                       old.id = new.id => Extends(new, old)
<1>1. ASSUME Inv, [Next]_vars
      PROVE  [Step]_vars
  <2> SUFFICES ASSUME NEW s \in Tabs, reloads'[s] = reloads[s], Next
               PROVE  Continued(s)
    BY <1>1 DEF Continued, ToSet
  <2>1. ASSUME NEW t \in Tabs, SubmitMessage(t)
        PROVE  Continued(s)
    BY <1>1, <2>1, SubmitContinued
  <2>2. ASSUME NEW t \in Tabs, SessionCreated(t)
        PROVE  Continued(s)
    BY <1>1, <2>2, CreatedContinued
  <2>3. ASSUME NEW t \in Tabs, MessageAnswered(t) \/ SubmissionFailed(t)
        PROVE  Continued(s)
    BY <1>1, <2>3, AnswerReply, EndContinued
  <2>4. ASSUME NEW t \in Tabs, HandleNewChat(t) \/ SelectSession(t)
        PROVE  Continued(s)
    BY <1>1, <2>4, SameContinued DEF HandleNewChat, SelectSession
  <2>5. ASSUME NEW t \in Tabs, Reload(t)
        PROVE  Continued(s)
    <3>1. s # t
      BY <1>1, <2>5 DEF Reload, Inv, TypeOK
    <3> QED BY <1>1, <2>5, <3>1, SameContinued DEF Reload, Inv, TypeOK
  <2> QED BY <2>1, <2>2, <2>3, <2>4, <2>5 DEF Next
<1> QED BY <1>1, InvAlways, PTL DEF Spec, NothingTakenBack
=============================================================================
