---------------------------- MODULE StorageProofs ---------------------------
(***************************************************************************)
(* Proofs about the two stores.                                            *)
(*                                                                         *)
(* StoreTransactions, for any sessions, runs and limits: type correctness, *)
(* at most one running run per session, gap-free sequence numbers, no lost *)
(* memory update, and the implementation of ConversationStore.             *)
(*                                                                         *)
(* VectorIndex, for any number of collections, releases, items, jobs and   *)
(* servers.                                                                *)
(***************************************************************************)
EXTENDS StoreTransactions, VectorIndex, SequenceTheorems, TLAPS

-----------------------------------------------------------------------------
(***************************************************************************)
(* The message log                                                         *)
(***************************************************************************)

\* On a log without gaps, max(sequence_no) + 1 is one past its length.
LEMMA NextNumberOfSeq ==
  ASSUME NEW log \in Seq(Entries)
  PROVE  NextNumber(log) = Len(log) + 1
<1> DEFINE n == Len(log)
<1>1. n \in Nat /\ DOMAIN log = 1 .. n
  BY LenProperties
<1>2. CASE n = 0
  BY <1>1, <1>2 DEF NextNumber
<1>3. CASE n > 0
  <2>1. n \in 1 .. n /\ \A m \in 1 .. n : m <= n
    BY <1>1, <1>3
  <2>2. ASSUME NEW k \in 1 .. n, \A m \in 1 .. n : m <= k
        PROVE  k = n
    <3>1. n <= k
      BY <2>1, <2>2
    <3>2. n \in Int /\ k \in Int /\ k <= n
      BY <1>1
    <3> HIDE DEF n
    <3> QED
      BY <3>1, <3>2
  <2>3. (CHOOSE k \in 1 .. n : \A m \in 1 .. n : m <= k) = n
    BY <2>1, <2>2
  <2>4. 1 .. n # {}
    BY <2>1
  <2>5. NextNumber(log) = 1 + CHOOSE k \in 1 .. n : \A m \in 1 .. n : m <= k
    <3>1. \A S : S = DOMAIN log /\ S # {} =>
            NextNumber(log) = 1 + CHOOSE k \in S : \A m \in S : m <= k
      BY Zenon DEF NextNumber
    <3> QED
      BY <1>1, <2>4, <3>1, Zenon
  <2>6. NextNumber(log) = 1 + n
    BY <2>3, <2>5, Zenon
  <2> QED
    BY <1>1, <2>6
<1> QED
  BY <1>1, <1>2, <1>3

\* Rows inserted one past the end of a log are appended to it.
LEMMA InsertedAppends ==
  ASSUME NEW log \in Seq(Entries), NEW entries \in Seq(Entries)
  PROVE  Inserted(log, Len(log) + 1, entries) = log \o entries
<1> DEFINE n   == Len(log)
           m   == Len(entries)
           new == Inserted(log, n + 1, entries)
<1>1. /\ n \in Nat /\ DOMAIN log = 1 .. n
      /\ m \in Nat /\ DOMAIN entries = 1 .. m
  BY LenProperties
<1>2. /\ log \o entries \in Seq(Entries)
      /\ Len(log \o entries) = n + m
      /\ \A i \in 1 .. n + m :
           (log \o entries)[i] = IF i <= n THEN log[i] ELSE entries[i - n]
  BY ConcatProperties
<1>3. {(n + 1) + i - 1 : i \in DOMAIN entries} = (n + 1) .. (n + m)
  <2>1. \A k \in (n + 1) .. (n + m) : k - n \in 1 .. m /\ k = (n + 1) + (k - n) - 1
    BY <1>1
  <2>2. \A i \in 1 .. m : (n + 1) + i - 1 \in (n + 1) .. (n + m)
    BY <1>1
  <2> QED
    BY <1>1, <2>1, <2>2
<1>4. DOMAIN log \cup {(n + 1) + i - 1 : i \in DOMAIN entries} = 1 .. n + m
  BY <1>1, <1>3
<1>5. new = [k \in 1 .. n + m |-> IF k \in DOMAIN log THEN log[k]
                                  ELSE entries[k - (n + 1) + 1]]
  BY <1>4 DEF Inserted
<1>6. \A k \in 1 .. n + m : new[k] = (log \o entries)[k]
  BY <1>1, <1>2, <1>5
<1>7. new \in Seq(Entries) /\ Len(new) = n + m
  <2>1. \A k \in 1 .. n + m : new[k] \in Entries
    BY <1>1, <1>2, <1>6, ElementOfSeq
  <2>2. new \in [1 .. n + m -> Entries]
    BY <1>5, <2>1
  <2>3. n + m \in Nat
    BY <1>1
  <2>4. new \in Seq(Entries)
    BY <2>2, <2>3, SeqDef
  <2> QED
    BY <2>2, <2>3, <2>4, LenProperties
<1> QED
  BY <1>2, <1>6, <1>7, SeqEqual

-----------------------------------------------------------------------------
(***************************************************************************)
(* Type correctness                                                        *)
(***************************************************************************)

LEMMA EntriesOfCall ==
  ASSUME NEW r \in Runs, op[r] \in {"start", "exchange", "complete"}
  PROVE  NewEntries(r) \in Seq(Entries)
<1>1. Entry(r, "user") \in Entries /\ Entry(r, "call") \in Entries
      /\ Entry(r, "tool") \in Entries /\ Entry(r, "answer") \in Entries
  BY DEF Entry, Entries, Kinds
<1> QED
  BY <1>1 DEF NewEntries

LEMMA WithMemoryType ==
  ASSUME NEW ctx \in Contexts \cup {NoContext}, NEW memory \in Memory,
         NEW products \in Runs \cup {NoRun}
  PROVE  WithMemory(ctx, memory, products) \in Contexts
BY DEF WithMemory, ProductsIn, Contexts

LEMMA SuccessorsType ==
  ASSUME NEW ctx \in Contexts \cup {NoContext}, NEW r \in Runs,
         NEW memory \in Successors(MemoryIn(ctx), r)
  PROVE  memory \in Memory
<1>1. MemoryIn(ctx) \in Memory
  BY DEF MemoryIn, Contexts, FreshMemory, Memory
<1> QED
  BY <1>1 DEF Successors, Memory

\* The open transaction appends its rows to the log.
LEMMA InsertRowsAppends ==
  ASSUME IndInv, NEW r \in Runs, InsertRows(r)
  PROVE  /\ rows' = [rows EXCEPT ![SessionOf[r]] = @ \o NewEntries(r)]
         /\ rows'[SessionOf[r]] \in Seq(Entries)
         /\ rows' = [s \in Sessions |-> rows'[s]]
         /\ \A s \in Sessions : rows'[s] \in Seq(Entries)
<1> DEFINE s == SessionOf[r]
<1>1. s \in Sessions
  BY ConversationAssumption
<1>2. rows[s] \in Seq(Entries)
  BY <1>1 DEF IndInv, Logs
<1>3. step[r] = "numbered" /\ rows' = [rows EXCEPT ![s] =
                                Inserted(@, nextNo[r], NewEntries(r))]
  BY DEF InsertRows
<1>4. nextNo[r] = Len(rows[s]) + 1
  BY <1>1, <1>2, <1>3, NextNumberOfSeq DEF IndInv, DenseSequence, NextSequence
<1>5. NewEntries(r) \in Seq(Entries)
  BY <1>3, EntriesOfCall DEF IndInv, Phases
<1>6. Inserted(rows[s], nextNo[r], NewEntries(r)) = rows[s] \o NewEntries(r)
  BY <1>2, <1>4, <1>5, InsertedAppends
<1>7. rows[s] \o NewEntries(r) \in Seq(Entries)
  BY <1>2, <1>5, ConcatProperties
<1>8. rows = [t \in Sessions |-> rows[t]]
  BY DEF IndInv, TypeOK
<1>9. rows' = [rows EXCEPT ![s] = @ \o NewEntries(r)]
  BY <1>3, <1>6
<1>10. DOMAIN rows = Sessions /\ DOMAIN rows' = Sessions
  BY <1>8, <1>9
<1>11. rows' = [t \in Sessions |-> rows'[t]]
  BY <1>8, <1>9, <1>10
<1>12. \A t \in Sessions : rows'[t] = IF t = s THEN rows[s] \o NewEntries(r) ELSE rows[t]
  BY <1>9, <1>10
<1> QED
  BY <1>1, <1>7, <1>9, <1>11, <1>12 DEF IndInv, Logs

-----------------------------------------------------------------------------
(***************************************************************************)
(* The inductive invariant, one lemma per kind of step                     *)
(***************************************************************************)

\* Steps that touch neither the log nor a run.
LEMMA SessionSteps ==
  ASSUME IndInv, NEW s \in Sessions,
         CreateSession(s) \/ Lapse(s) \/ Scrub(s)
  PROVE  IndInv'
<1>1. UNCHANGED <<runStatus, rows, rowLock, requests>>
  BY DEF CreateSession, Lapse, Scrub, Expired, store
<1>2. TypeOK'
  <2>1. FreshContext \in Contexts
    BY DEF FreshContext, FreshMemory, Contexts, Memory
  <2>2. /\ status' \in [Sessions -> SessionStatus]
        /\ context' \in [Sessions -> Contexts \cup {NoContext}]
        /\ lapsed' \in [Sessions -> BOOLEAN]
    BY <2>1 DEF IndInv, TypeOK, CreateSession, Lapse, Scrub, Expired, store,
                SessionStatus
  <2> QED
    BY <1>1, <2>2 DEF IndInv, TypeOK, requests
<1>3. Phases'
  BY <1>1, ConversationAssumption
     DEF IndInv, TypeOK, Phases, CreateSession, Lapse, Scrub, Expired, store, requests
<1>4. Locks' /\ Logs' /\ OneRunning'
  BY <1>1 DEF IndInv, Locks, Logs, OneRunning, requests
<1>5. Admitted'
  <2>1. SUFFICES ASSUME NEW r \in Runs, step[r] \in {"checked", "numbered"}
                 PROVE  ~Refused(r)'
    BY <1>1 DEF Admitted, requests
  <2>2. ~Refused(r) /\ rowLock[SessionOf[r]] = r
    BY <2>1 DEF IndInv, Admitted, Locks, Holding
  <2>3. op[r] = "start" => status'[SessionOf[r]] = status[SessionOf[r]]
    BY <2>1, <2>2, ConversationAssumption
       DEF IndInv, TypeOK, Phases, CreateSession, Lapse, Scrub, Expired, store
  <2> QED
    BY <1>1, <2>2, <2>3 DEF Refused, Running, requests
<1>6. DenseSequence'
  <2>1. \A t \in Sessions : NextSequence(t)' = NextSequence(t)
    BY <1>1 DEF NextSequence
  <2> QED
    BY <1>1, <2>1, ConversationAssumption DEF IndInv, DenseSequence, requests
<1>7. SnapshotCurrent'
  BY <1>1, ConversationAssumption
     DEF IndInv, TypeOK, Phases, SnapshotCurrent, CreateSession, Lapse, Scrub,
         Expired, store, requests
<1> QED
  BY <1>2, <1>3, <1>4, <1>5, <1>6, <1>7 DEF IndInv

\* Steps of a request outside a transaction, or inside it before the commit.
LEMMA QuietSteps ==
  ASSUME IndInv, NEW r \in Runs,
         \/ Preflight(r)
         \/ ReadClock(r)
         \/ \E next \in {"exchange", "complete"} : Call(r, next)
         \/ LockRow(r)
         \/ Check(r)
         \/ NumberRows(r)
         \/ Provider(r)
  PROVE  IndInv'
<1> USE ConversationAssumption, MaxExchangesAssumption
<1>1. UNCHANGED <<runStatus, rows, snapshot, exchanges, lapsed>>
  BY DEF Preflight, ReadClock, Call, LockRow, Check, NumberRows, Provider,
         Expired, store
<1>2. TypeOK'
  <2>1. \A t \in Sessions : NextSequence(t) \in Nat
    BY NextNumberOfSeq, LenProperties DEF IndInv, Logs, NextSequence
  <2>2. /\ status' \in [Sessions -> SessionStatus]
        /\ context' \in [Sessions -> Contexts \cup {NoContext}]
        /\ rowLock' \in [Sessions -> Runs \cup {NoRun}]
    <3>1. \/ UNCHANGED <<status, context>>
          \/ Expired(SessionOf[r])
      BY DEF Preflight, ReadClock, Call, LockRow, Check, NumberRows, Provider, store
    <3>2. \/ UNCHANGED rowLock
          \/ rowLock' = [rowLock EXCEPT ![SessionOf[r]] = r]
      BY DEF Preflight, ReadClock, Call, LockRow, Check, NumberRows, Provider
    <3>3. /\ status \in [Sessions -> SessionStatus]
          /\ context \in [Sessions -> Contexts \cup {NoContext}]
          /\ rowLock \in [Sessions -> Runs \cup {NoRun}]
      BY DEF IndInv, TypeOK
    <3>4. rowLock' \in [Sessions -> Runs \cup {NoRun}]
      BY <3>2, <3>3
    <3>5. /\ status' \in [Sessions -> SessionStatus]
          /\ context' \in [Sessions -> Contexts \cup {NoContext}]
      BY <3>1, <3>3 DEF Expired, SessionStatus
    <3> QED BY <3>4, <3>5
  <2>3. /\ op' \in [Runs -> Ops] /\ step' \in [Runs -> Steps]
        /\ late' \in [Runs -> BOOLEAN]
    <3>1. /\ op \in [Runs -> Ops] /\ step \in [Runs -> Steps] /\ late \in [Runs -> BOOLEAN]
          /\ SessionOf[r] \in Sessions /\ lapsed[SessionOf[r]] \in BOOLEAN
      BY DEF IndInv, TypeOK
    <3>2. CASE Preflight(r)
      BY <3>1, <3>2 DEF Preflight, Ops, Steps
    <3>3. CASE ReadClock(r)
      BY <3>1, <3>3 DEF ReadClock, Ops, Steps
    <3>4. CASE \E next \in {"exchange", "complete"} : Call(r, next)
      BY <3>1, <3>4 DEF Call, Ops, Steps
    <3>5. CASE LockRow(r)
      BY <3>1, <3>5 DEF LockRow, Ops, Steps
    <3>6. CASE Check(r)
      BY <3>1, <3>6 DEF Check, Ops, Steps
    <3>7. CASE NumberRows(r)
      BY <3>1, <3>7 DEF NumberRows, Ops, Steps
    <3>8. CASE Provider(r)
      BY <3>1, <3>8 DEF Provider, Ops, Steps
    <3> QED BY <3>2, <3>3, <3>4, <3>5, <3>6, <3>7, <3>8
  <2>4. nextNo' \in [Runs -> Nat]
    BY <2>1 DEF IndInv, TypeOK, Preflight, ReadClock, Call, LockRow, Check,
         NumberRows, Provider
  <2> QED
    BY <1>1, <2>2, <2>3, <2>4 DEF IndInv, TypeOK
<1>3. Phases'
  BY <1>1 DEF IndInv, TypeOK, Phases, Preflight, ReadClock, Call, LockRow, Check,
         NumberRows, Provider, Expired, store
<1>4. Locks'
  BY DEF IndInv, TypeOK, Phases, Locks, Holding, Preflight, ReadClock, Call,
         LockRow, Check, NumberRows, Provider, Expired, store
<1>5. Logs' /\ OneRunning'
  BY <1>1 DEF IndInv, Logs, OneRunning
<1>6. Admitted'
  <2>1. SUFFICES ASSUME NEW q \in Runs, step'[q] \in {"checked", "numbered"}
                 PROVE  ~Refused(q)'
    BY DEF Admitted
  <2>2. ~Refused(q) /\ step[q] \in Holding
    BY <2>1 DEF IndInv, TypeOK, Phases, Admitted, Holding, Preflight, ReadClock,
                Call, LockRow, Check, NumberRows, Provider
  <2>3. rowLock[SessionOf[q]] = q
    BY <2>2 DEF IndInv, Locks
  <2>4. op'[q] = op[q] /\ late'[q] = late[q]
    BY <2>1, <2>2 DEF IndInv, TypeOK, Phases, Holding, Preflight, ReadClock,
                Call, LockRow, Check, NumberRows, Provider
  <2>5. op[q] = "start" => status'[SessionOf[q]] = status[SessionOf[q]]
    BY <2>2, <2>3 DEF IndInv, TypeOK, Preflight, ReadClock, Call, LockRow,
                Check, NumberRows, Provider, Expired, store
  <2> QED
    BY <1>1, <2>2, <2>4, <2>5 DEF Refused, Running
<1>7. DenseSequence'
  <2>1. \A q \in Runs : step'[q] = "numbered" =>
           nextNo'[q] = NextSequence(SessionOf[q])
    BY DEF IndInv, TypeOK, DenseSequence, Preflight, ReadClock, Call, LockRow,
           Check, NumberRows, Provider
  <2>2. \A t \in Sessions : NextSequence(t)' = NextSequence(t)
    BY <1>1 DEF NextSequence
  <2> QED
    BY <1>1, <2>1, <2>2 DEF IndInv, DenseSequence
<1>8. SnapshotCurrent'
  BY <1>1 DEF IndInv, TypeOK, Phases, SnapshotCurrent, Preflight, ReadClock,
              Call, LockRow, Check, NumberRows, Provider, Expired, store
<1> QED
  BY <1>2, <1>3, <1>4, <1>5, <1>6, <1>7, <1>8 DEF IndInv

\* What the end of r's transaction leaves alone: no other transaction of the
\* session is past its SELECT ... FOR UPDATE.
LEMMA EndOfTransaction ==
  ASSUME IndInv, NEW r \in Runs, NEW nextOp \in {"turn", "over", "fail"},
         EndTransaction(r, nextOp), step[r] # "idle"
  PROVE  /\ rowLock' \in [Sessions -> Runs \cup {NoRun}]
         /\ op' \in [Runs -> Ops] /\ op'[r] = nextOp
         /\ step' \in [Runs -> Steps] /\ step'[r] = "idle"
         /\ \A q \in Runs \ {r} : op'[q] = op[q] /\ step'[q] = step[q]
         /\ Locks'
         /\ step[r] \in Holding =>
              \A q \in InSession(SessionOf[r]) : step'[q] \notin Holding
<1> USE ConversationAssumption
<1>1. /\ op' \in [Runs -> Ops] /\ op'[r] = nextOp
      /\ step' \in [Runs -> Steps] /\ step'[r] = "idle"
      /\ \A q \in Runs \ {r} : op'[q] = op[q] /\ step'[q] = step[q]
  BY DEF IndInv, TypeOK, EndTransaction, Ops, Steps
<1>2. /\ rowLock' \in [Sessions -> Runs \cup {NoRun}]
      /\ \A s \in Sessions : rowLock'[s] = rowLock[s]
                            \/ (rowLock[s] = r /\ s = SessionOf[r])
  BY DEF IndInv, TypeOK, EndTransaction
<1>3. Locks'
  BY <1>1, <1>2 DEF IndInv, Locks, Holding
<1>4. step[r] \in Holding =>
        \A q \in InSession(SessionOf[r]) : step'[q] \notin Holding
  BY <1>1 DEF IndInv, Locks, InSession, Holding
<1> QED
  BY <1>1, <1>2, <1>3, <1>4

LEMMA RollbackStep ==
  ASSUME IndInv, NEW r \in Runs, Rollback(r)
  PROVE  IndInv'
<1> USE ConversationAssumption
<1>1. PICK nextOp \in {"over", "fail"} :
        /\ EndTransaction(r, nextOp)
        /\ op[r] = "start" => nextOp = "over"
        /\ op[r] # "start" => nextOp = "fail"
  BY DEF Rollback
<1>2. step[r] # "idle" /\ UNCHANGED <<store, lapsed, late, snapshot, nextNo, exchanges>>
  BY DEF Rollback, EndTransaction
<1>3. /\ rowLock' \in [Sessions -> Runs \cup {NoRun}]
      /\ op' \in [Runs -> Ops] /\ op'[r] = nextOp
      /\ step' \in [Runs -> Steps] /\ step'[r] = "idle"
      /\ \A q \in Runs \ {r} : op'[q] = op[q] /\ step'[q] = step[q]
      /\ Locks'
  BY <1>1, <1>2, EndOfTransaction
<1>4. TypeOK'
  BY <1>2, <1>3 DEF IndInv, TypeOK, store
<1>5. Phases'
  BY <1>1, <1>2, <1>3 DEF IndInv, Phases, store
<1>6. Admitted'
  BY <1>2, <1>3 DEF IndInv, Admitted, Refused, Running, store
<1>7. Logs' /\ OneRunning'
  BY <1>2 DEF IndInv, Logs, OneRunning, store
<1>8. DenseSequence'
  <2>1. \A t \in Sessions : NextSequence(t)' = NextSequence(t)
    BY <1>2 DEF NextSequence, store
  <2> QED
    BY <1>2, <1>3, <2>1 DEF IndInv, DenseSequence, store
<1>9. SnapshotCurrent'
  BY <1>1, <1>2, <1>3 DEF IndInv, SnapshotCurrent, store
<1> QED
  BY <1>3, <1>4, <1>5, <1>6, <1>7, <1>8, <1>9 DEF IndInv

LEMMA MarkFailedStep ==
  ASSUME IndInv, NEW r \in Runs, MarkFailed(r)
  PROVE  IndInv'
<1> USE ConversationAssumption
<1>1. /\ op[r] = "fail" /\ op' = [op EXCEPT ![r] = "over"]
      /\ UNCHANGED <<status, context, rows, lapsed, rowLock, step, late, snapshot,
                     nextNo, exchanges>>
      /\ \/ runStatus' = [runStatus EXCEPT ![r] = "failed"]
         \/ UNCHANGED runStatus
  BY DEF MarkFailed
<1>2. TypeOK'
  BY <1>1 DEF IndInv, TypeOK, Ops, RunStatus
<1>3. Phases'
  BY <1>1 DEF IndInv, TypeOK, Phases
<1>4. Locks' /\ Logs' /\ SnapshotCurrent'
  BY <1>1 DEF IndInv, TypeOK, Locks, Logs, SnapshotCurrent
<1>5. OneRunning'
  BY <1>1 DEF IndInv, TypeOK, OneRunning
<1>6. Admitted'
  BY <1>1 DEF IndInv, TypeOK, Phases, Admitted, Refused, Running, InSession
<1>7. DenseSequence'
  <2>1. \A t \in Sessions : NextSequence(t)' = NextSequence(t)
    BY <1>1 DEF NextSequence
  <2> QED
    BY <1>1, <2>1 DEF IndInv, DenseSequence
<1> QED
  BY <1>2, <1>3, <1>4, <1>5, <1>6, <1>7 DEF IndInv

\* The log after a commit of r, and the number sequences of the other sessions.
LEMMA CommittedLog ==
  ASSUME IndInv, NEW r \in Runs, InsertRows(r), Locks',
         \A q \in InSession(SessionOf[r]) : step'[q] \notin Holding,
         \A q \in Runs \ {r} : step'[q] = step[q],
         UNCHANGED nextNo
  PROVE  Logs' /\ DenseSequence'
<1> USE ConversationAssumption
<1>1. Logs'
  BY InsertRowsAppends DEF Logs
<1>2. \A s \in Sessions : DOMAIN rows'[s] = 1 .. NextSequence(s)' - 1
  <2>1. ASSUME NEW s \in Sessions
        PROVE  NextSequence(s)' = Len(rows'[s]) + 1
    BY <1>1, NextNumberOfSeq DEF Logs, NextSequence
  <2>2. ASSUME NEW s \in Sessions
        PROVE  DOMAIN rows'[s] = 1 .. NextSequence(s)' - 1
    <3>1. Len(rows'[s]) \in Nat /\ DOMAIN rows'[s] = 1 .. Len(rows'[s])
      BY <1>1, LenProperties DEF Logs
    <3> QED
      BY <2>1, <3>1
  <2> QED
    BY <2>2
<1>3. ASSUME NEW q \in Runs, step'[q] = "numbered"
      PROVE  nextNo'[q] = NextSequence(SessionOf[q])'
  <2>1. SessionOf[q] # SessionOf[r]
    BY <1>3 DEF InSession, Holding
  <2>2. step[q] = "numbered"
    BY <1>3, <2>1
  <2>3. rows'[SessionOf[q]] = rows[SessionOf[q]]
    BY <2>1 DEF InsertRows, IndInv, TypeOK
  <2>4. NextSequence(SessionOf[q])' = NextSequence(SessionOf[q])
    BY <2>3 DEF NextSequence
  <2> QED
    BY <2>2, <2>4 DEF IndInv, DenseSequence
<1> QED
  BY <1>1, <1>2, <1>3 DEF DenseSequence

\* A commit changes only the run it belongs to, so what another session's
\* transaction checked stays true.
LEMMA CommitAdmitted ==
  ASSUME IndInv, NEW r \in Runs,
         \A q \in InSession(SessionOf[r]) : step'[q] \notin Holding,
         \A q \in Runs \ {r} : /\ op'[q] = op[q] /\ step'[q] = step[q]
                               /\ runStatus'[q] = runStatus[q],
         UNCHANGED <<status, late>>
  PROVE  Admitted'
<1> USE ConversationAssumption
<1>1. SUFFICES ASSUME NEW q \in Runs, step'[q] \in {"checked", "numbered"}
               PROVE  ~Refused(q)'
  BY DEF Admitted
<1>2. q # r /\ SessionOf[q] # SessionOf[r]
  BY <1>1 DEF InSession, Holding
<1>3. ~Refused(q) /\ op'[q] = op[q]
  BY <1>1, <1>2 DEF IndInv, Admitted
<1>4. \A p \in InSession(SessionOf[q]) : runStatus'[p] = runStatus[p]
  BY <1>2 DEF InSession
<1>5. Running(SessionOf[q])' = Running(SessionOf[q])
  BY <1>4 DEF Running, InSession
<1> QED
  BY <1>3, <1>5 DEF Refused

LEMMA CommitStartStep ==
  ASSUME IndInv, NEW r \in Runs, CommitStart(r)
  PROVE  IndInv'
<1> USE ConversationAssumption
<1>1. /\ op[r] = "start" /\ InsertRows(r) /\ EndTransaction(r, "turn")
      /\ runStatus' = [runStatus EXCEPT ![r] = "running"]
      /\ snapshot'  = [snapshot EXCEPT ![r] = context[SessionOf[r]]]
      /\ UNCHANGED <<status, context, exchanges, lapsed, late, nextNo>>
  BY DEF CommitStart, EndTransaction
<1>2. step[r] = "numbered"
  BY <1>1 DEF InsertRows
<1>3. /\ rowLock' \in [Sessions -> Runs \cup {NoRun}]
      /\ op' \in [Runs -> Ops] /\ op'[r] = "turn"
      /\ step' \in [Runs -> Steps] /\ step'[r] = "idle"
      /\ \A q \in Runs \ {r} : op'[q] = op[q] /\ step'[q] = step[q]
      /\ Locks'
      /\ \A q \in InSession(SessionOf[r]) : step'[q] \notin Holding
  BY <1>1, <1>2, EndOfTransaction DEF Holding
<1>4. /\ rows' = [s \in Sessions |-> rows'[s]]
      /\ \A s \in Sessions : rows'[s] \in Seq(Entries)
  BY <1>1, InsertRowsAppends
<1>5. TypeOK'
  <2>1. \A s \in Sessions : rows'[s] \in [DOMAIN rows'[s] -> Entries]
    BY <1>4, LenProperties
  <2>2. /\ runStatus' \in [Runs -> RunStatus]
        /\ snapshot' \in [Runs -> Contexts \cup {NoContext}]
    BY <1>1 DEF IndInv, TypeOK, RunStatus
  <2> QED
    BY <1>1, <1>3, <1>4, <2>1, <2>2 DEF IndInv, TypeOK
<1>6. Running(SessionOf[r]) = {} /\ status[SessionOf[r]] = "active"
  BY <1>1, <1>2 DEF IndInv, Admitted, Refused
<1>7. /\ runStatus'[r] = "running"
      /\ \A q \in Runs \ {r} : runStatus'[q] = runStatus[q]
  BY <1>1 DEF IndInv, TypeOK
<1>8. Phases'
  BY <1>1, <1>3, <1>6, <1>7 DEF IndInv, Phases
<1>9. Admitted'
  BY <1>1, <1>3, <1>7, CommitAdmitted
<1>10. Logs' /\ DenseSequence'
  BY <1>1, <1>3, CommittedLog
<1>11. OneRunning'
  BY <1>6, <1>7 DEF IndInv, OneRunning, Running, InSession
<1>12. SnapshotCurrent'
  BY <1>1, <1>3 DEF IndInv, TypeOK, SnapshotCurrent
<1> QED
  BY <1>3, <1>5, <1>8, <1>9, <1>10, <1>11, <1>12 DEF IndInv

LEMMA CommitExchangeStep ==
  ASSUME IndInv, NEW r \in Runs, CommitExchange(r)
  PROVE  IndInv'
<1> USE ConversationAssumption, MaxExchangesAssumption
<1>1. /\ op[r] = "exchange" /\ InsertRows(r) /\ EndTransaction(r, "turn")
      /\ exchanges' = [exchanges EXCEPT ![r] = @ + 1]
      /\ UNCHANGED <<status, context, runStatus, snapshot, lapsed, late, nextNo>>
  BY DEF CommitExchange, EndTransaction
<1>2. step[r] = "numbered"
  BY <1>1 DEF InsertRows
<1>3. /\ rowLock' \in [Sessions -> Runs \cup {NoRun}]
      /\ op' \in [Runs -> Ops] /\ op'[r] = "turn"
      /\ step' \in [Runs -> Steps] /\ step'[r] = "idle"
      /\ \A q \in Runs \ {r} : op'[q] = op[q] /\ step'[q] = step[q]
      /\ Locks'
      /\ \A q \in InSession(SessionOf[r]) : step'[q] \notin Holding
  BY <1>1, <1>2, EndOfTransaction DEF Holding
<1>4. /\ rows' = [s \in Sessions |-> rows'[s]]
      /\ \A s \in Sessions : rows'[s] \in Seq(Entries)
  BY <1>1, InsertRowsAppends
<1>5. /\ exchanges' \in [Runs -> 0 .. MaxExchanges]
      /\ \A q \in Runs \ {r} : exchanges'[q] = exchanges[q]
  BY <1>1 DEF IndInv, TypeOK, Phases
<1>6. TypeOK'
  <2>1. \A s \in Sessions : rows'[s] \in [DOMAIN rows'[s] -> Entries]
    BY <1>4, LenProperties
  <2> QED
    BY <1>1, <1>3, <1>4, <1>5, <2>1 DEF IndInv, TypeOK
<1>7. Phases'
  BY <1>1, <1>3, <1>5 DEF IndInv, Phases
<1>8. Admitted'
  BY <1>1, <1>3, CommitAdmitted
<1>9. Logs' /\ DenseSequence'
  BY <1>1, <1>3, CommittedLog
<1>10. OneRunning'
  BY <1>1 DEF IndInv, OneRunning
<1>11. SnapshotCurrent'
  BY <1>1, <1>3 DEF IndInv, SnapshotCurrent
<1> QED
  BY <1>3, <1>6, <1>7, <1>8, <1>9, <1>10, <1>11 DEF IndInv

LEMMA CommitCompleteStep ==
  ASSUME IndInv, NEW r \in Runs,
         NEW memory \in Successors(MemoryIn(snapshot[r]), r),
         NEW products \in {r, NoRun},
         CommitComplete(r, memory, products)
  PROVE  IndInv'
<1> USE ConversationAssumption
<1> DEFINE s == SessionOf[r]
<1>1. /\ op[r] = "complete" /\ InsertRows(r) /\ EndTransaction(r, "over")
      /\ runStatus' = [runStatus EXCEPT ![r] = "completed"]
      /\ context' = [context EXCEPT ![s] = WithMemory(@, memory, products)]
      /\ UNCHANGED <<status, snapshot, exchanges, lapsed, late, nextNo>>
  BY DEF CommitComplete, EndTransaction
<1>2. step[r] = "numbered"
  BY <1>1 DEF InsertRows
<1>3. /\ rowLock' \in [Sessions -> Runs \cup {NoRun}]
      /\ op' \in [Runs -> Ops] /\ op'[r] = "over"
      /\ step' \in [Runs -> Steps] /\ step'[r] = "idle"
      /\ \A q \in Runs \ {r} : op'[q] = op[q] /\ step'[q] = step[q]
      /\ Locks'
      /\ \A q \in InSession(s) : step'[q] \notin Holding
  BY <1>1, <1>2, EndOfTransaction DEF Holding
<1>4. /\ rows' = [t \in Sessions |-> rows'[t]]
      /\ \A t \in Sessions : rows'[t] \in Seq(Entries)
  BY <1>1, InsertRowsAppends
<1>5. WithMemory(context[s], memory, products) \in Contexts
  <2>1. memory \in Memory
    BY SuccessorsType DEF IndInv, TypeOK
  <2> QED
    BY <2>1, WithMemoryType DEF IndInv, TypeOK
<1>6. /\ runStatus' \in [Runs -> RunStatus]
      /\ runStatus'[r] = "completed"
      /\ \A q \in Runs \ {r} : runStatus'[q] = runStatus[q]
  BY <1>1 DEF IndInv, TypeOK, RunStatus
<1>7. TypeOK'
  <2>1. \A t \in Sessions : rows'[t] \in [DOMAIN rows'[t] -> Entries]
    BY <1>4, LenProperties
  <2>2. context' \in [Sessions -> Contexts \cup {NoContext}]
    BY <1>1, <1>5 DEF IndInv, TypeOK
  <2> QED
    BY <1>1, <1>3, <1>4, <1>6, <2>1, <2>2 DEF IndInv, TypeOK
<1>8. Phases'
  BY <1>1, <1>3, <1>6 DEF IndInv, Phases
<1>9. Admitted'
  BY <1>1, <1>3, <1>6, CommitAdmitted
<1>10. Logs' /\ DenseSequence'
  BY <1>1, <1>3, CommittedLog
<1>11. OneRunning'
  BY <1>6 DEF IndInv, OneRunning
<1>12. SnapshotCurrent'
  \* No other request has an open turn in r's session: its run and r's would
  \* both be running.
  <2>1. SUFFICES ASSUME NEW q \in Runs, op'[q] \in {"turn", "exchange", "complete"}
                 PROVE  \/ context'[SessionOf[q]] = snapshot[q]
                        \/ context'[SessionOf[q]] = NoContext /\ lapsed[SessionOf[q]]
    BY <1>1 DEF SnapshotCurrent
  <2>2. q # r /\ op[q] \in {"turn", "exchange", "complete"}
    BY <1>3, <2>1
  <2>3. SessionOf[q] # s
    BY <1>1, <2>2 DEF IndInv, Phases, OneRunning
  <2>4. context'[SessionOf[q]] = context[SessionOf[q]]
    BY <1>1, <2>3 DEF IndInv, TypeOK
  <2> QED
    BY <2>2, <2>4 DEF IndInv, SnapshotCurrent
<1> QED
  BY <1>3, <1>7, <1>8, <1>9, <1>10, <1>11, <1>12 DEF IndInv

-----------------------------------------------------------------------------
(***************************************************************************)
(* The theorems                                                            *)
(***************************************************************************)

LEMMA InitIndInv == Init => IndInv
<1> SUFFICES ASSUME Init PROVE IndInv
  OBVIOUS
<1> USE DEF Init
<1>1. <<>> \in Seq(Entries) /\ NextNumber(<<>>) = 1 /\ DOMAIN <<>> = {}
  <2>1. <<>> \in Seq(Entries) /\ Len(<<>>) = 0
    BY EmptySeq
  <2>2. DOMAIN <<>> = {}
    OBVIOUS
  <2>3. NextNumber(<<>>) = Len(<<>>) + 1
    BY <2>1, NextNumberOfSeq
  <2> QED
    BY <2>1, <2>2, <2>3
<1>2. \A s \in Sessions : rows[s] = <<>> /\ NextSequence(s) = 1
  BY <1>1 DEF NextSequence
<1>3. TypeOK
  <2>1. \A s \in Sessions : rows[s] \in Seq(Entries)
    BY <1>1, <1>2
  <2>2. \A s \in Sessions : rows[s] \in [DOMAIN rows[s] -> Entries]
    BY <2>1, LenProperties
  <2> QED
    BY <2>2, MaxExchangesAssumption
       DEF TypeOK, SessionStatus, RunStatus, Ops, Steps
<1>4. Phases /\ Locks /\ Admitted
  BY DEF Phases, Locks, Holding, Admitted
<1>5. Logs /\ OneRunning /\ SnapshotCurrent
  BY <1>1, <1>2 DEF Logs, OneRunning, SnapshotCurrent
<1>6. DenseSequence
  BY <1>1, <1>2 DEF DenseSequence
<1> QED
  BY <1>3, <1>4, <1>5, <1>6 DEF IndInv

LEMMA NextIndInv == IndInv /\ [Next]_vars => IndInv'
<1> SUFFICES ASSUME IndInv, [Next]_vars PROVE IndInv'
  OBVIOUS
<1>1. ASSUME NEW s \in Sessions, CreateSession(s) \/ Lapse(s) \/ Scrub(s)
      PROVE  IndInv'
  BY <1>1, SessionSteps
<1>2. ASSUME NEW r \in Runs,
             \/ Preflight(r)
             \/ ReadClock(r)
             \/ \E next \in {"exchange", "complete"} : Call(r, next)
             \/ LockRow(r)
             \/ Check(r)
             \/ NumberRows(r)
             \/ Provider(r)
      PROVE  IndInv'
  BY <1>2, QuietSteps
<1>3. ASSUME NEW r \in Runs, Commit(r)
      PROVE  IndInv'
  BY <1>3, CommitStartStep, CommitExchangeStep, CommitCompleteStep DEF Commit
<1>4. ASSUME NEW r \in Runs, Rollback(r) \/ MarkFailed(r)
      PROVE  IndInv'
  BY <1>4, RollbackStep, MarkFailedStep
<1>5. CASE UNCHANGED vars
  <2>1. \A t \in Sessions : NextSequence(t)' = NextSequence(t)
    BY <1>5 DEF NextSequence, vars, store
  <2>2. DenseSequence'
    BY <1>5, <2>1, ConversationAssumption
       DEF IndInv, DenseSequence, vars, store, requests
  <2> QED
    BY <1>5, <2>2 DEF IndInv, TypeOK, Phases, Locks, Admitted, Refused, Running,
          Logs, OneRunning, SnapshotCurrent, vars, store, requests
<1> QED
  BY <1>1, <1>2, <1>3, <1>4, <1>5 DEF Next

\* The inductive invariant holds in every reachable state.
THEOREM Invariance == Spec => []IndInv
BY InitIndInv, NextIndInv, PTL DEF Spec

\* Every variable keeps its type; in particular no run exceeds its tool
\* budget and every log holds well-formed rows.
THEOREM TypeCorrect == Spec => []TypeOK
<1>1. IndInv => TypeOK
  BY DEF IndInv
<1> QED
  BY <1>1, Invariance, PTL

\* The database-level active-run check of start_run: no two runs of one
\* session are ever running, whichever processes their requests come from.
THEOREM AtMostOneRunning == Spec => []OneRunning
<1>1. IndInv => OneRunning
  BY DEF IndInv
<1> QED
  BY <1>1, Invariance, PTL

\* The sequence numbers _next_sequence hands out never collide or leave a
\* gap: the unique index is never violated.
THEOREM SequenceDense == Spec => []DenseSequence
<1>1. IndInv => DenseSequence
  BY DEF IndInv
<1> QED
  BY <1>1, Invariance, PTL

\* complete_run never overwrites a memory its run has not read, except the
\* empty context of a session that lapsed meanwhile.
THEOREM NoLostMemory == Spec => []SnapshotCurrent
<1>1. IndInv => SnapshotCurrent
  BY DEF IndInv
<1> QED
  BY <1>1, Invariance, PTL

-----------------------------------------------------------------------------
(***************************************************************************)
(* Turns stand together                                                    *)
(***************************************************************************)

\* A log holds messages of its own session's runs, which were inserted before
\* them; the messages of a running run are the last ones.
OwnRows ==
  \A s \in Sessions : \A i \in DOMAIN rows[s] :
    LET q == rows[s][i].run IN SessionOf[q] = s /\ runStatus[q] # "none"

OpenTurnLast ==
  \A s \in Sessions : \A i, j \in DOMAIN rows[s] :
    i <= j /\ runStatus[rows[s][i].run] = "running" => rows[s][j].run = rows[s][i].run

TurnInv == OwnRows /\ OpenTurnLast /\ TurnsContiguous

\* The open transaction is its run's: it starts the only open turn of the
\* session or goes on with it.
LEMMA OnlyOpenTurn ==
  ASSUME IndInv, NEW r \in Runs, InsertRows(r)
  PROVE  /\ op[r] \in {"exchange", "complete"} => runStatus[r] = "running"
         /\ \A q \in InSession(SessionOf[r]) \ {r} : runStatus[q] # "running"
<1>1. step[r] = "numbered"
  BY DEF InsertRows
<1>2. op[r] \in {"start", "exchange", "complete"}
  BY <1>1 DEF IndInv, Phases
<1>3. CASE op[r] = "start"
  BY <1>1, <1>3 DEF IndInv, Admitted, Refused, Running
<1>4. CASE op[r] \in {"exchange", "complete"}
  BY <1>4 DEF IndInv, Phases, OneRunning, InSession
<1> QED
  BY <1>2, <1>3, <1>4

\* A commit appends to the log of its session messages of its own run.
LEMMA GrownLog ==
  ASSUME IndInv, NEW r \in Runs, InsertRows(r)
  PROVE  LET s == SessionOf[r]  n == Len(rows[s])
         IN  /\ n \in Nat /\ DOMAIN rows[s] = 1 .. n
             /\ \E m \in Nat : DOMAIN rows'[s] = 1 .. n + m
             /\ \A i \in DOMAIN rows'[s] : IF i <= n THEN rows'[s][i] = rows[s][i]
                                           ELSE rows'[s][i].run = r
             /\ \A x \in Sessions \ {s} : rows'[x] = rows[x]
<1> DEFINE s == SessionOf[r]
           n == Len(rows[s])
           new == NewEntries(r)
<1>1. s \in Sessions
  BY ConversationAssumption
<1>2. rows[s] \in Seq(Entries) /\ n \in Nat /\ DOMAIN rows[s] = 1 .. n
  BY <1>1, LenProperties DEF IndInv, Logs
<1>3. op[r] \in {"start", "exchange", "complete"}
  BY DEF IndInv, Phases, InsertRows
<1>4. new \in Seq(Entries)
  BY <1>3, EntriesOfCall
<1>5. \A k \in DOMAIN new : new[k].run = r
  BY <1>3 DEF NewEntries, Entry
<1>6. /\ rows[s] \o new \in Seq(Entries)
      /\ Len(rows[s] \o new) = n + Len(new)
      /\ \A i \in 1 .. n + Len(new) :
           (rows[s] \o new)[i] = IF i <= n THEN rows[s][i] ELSE new[i - n]
  BY <1>2, <1>4, ConcatProperties
<1>7. Len(new) \in Nat /\ DOMAIN new = 1 .. Len(new)
  BY <1>4, LenProperties
<1>8. DOMAIN (rows[s] \o new) = 1 .. n + Len(new)
  BY <1>6, LenProperties
<1>9. /\ rows'[s] = rows[s] \o new
      /\ \A x \in Sessions \ {s} : rows'[x] = rows[x]
  BY <1>1, InsertRowsAppends DEF IndInv, TypeOK
<1>10. DOMAIN rows'[s] = 1 .. n + Len(new)
  BY <1>8, <1>9
<1>11. ASSUME NEW i \in DOMAIN rows'[s], ~(i <= n)
       PROVE  rows'[s][i].run = r
  <2>1. i - n \in 1 .. Len(new) /\ i \in 1 .. n + Len(new)
    BY <1>2, <1>7, <1>8, <1>9, <1>11
  <2>2. rows'[s][i] = new[i - n]
    BY <1>6, <1>9, <1>11, <2>1
  <2> QED
    BY <1>5, <1>7, <2>1, <2>2
<1> QED
  BY <1>2, <1>6, <1>8, <1>9, <1>10, <1>11

LEMMA CommitTurns ==
  ASSUME IndInv, TurnInv, NEW r \in Runs, InsertRows(r),
         runStatus'[r] # "none",
         \A q \in Runs \ {r} : runStatus'[q] = runStatus[q]
  PROVE  TurnInv'
<1> DEFINE s == SessionOf[r]
           n == Len(rows[s])
<1> USE ConversationAssumption
<1>1. /\ n \in Nat /\ DOMAIN rows[s] = 1 .. n
      /\ \E m \in Nat : DOMAIN rows'[s] = 1 .. n + m
      /\ \A i \in DOMAIN rows'[s] : IF i <= n THEN rows'[s][i] = rows[s][i]
                                    ELSE rows'[s][i].run = r
      /\ \A x \in Sessions \ {s} : rows'[x] = rows[x]
  BY GrownLog
<1>2. /\ op[r] \in {"exchange", "complete"} => runStatus[r] = "running"
      /\ \A q \in InSession(s) \ {r} : runStatus[q] # "running"
  BY OnlyOpenTurn
<1>3. ASSUME NEW x \in Sessions, NEW i \in DOMAIN rows[x]
      PROVE  rows[x][i].run \in Runs
  BY DEF IndInv, TypeOK, Entries
<1>4. runStatus[r] \in {"none", "running"}
  <2>1. op[r] \in {"start", "exchange", "complete"}
    BY DEF IndInv, Phases, InsertRows
  <2>2. op[r] = "start" => runStatus[r] = "none"
    BY DEF IndInv, Phases
  <2> QED
    BY <1>2, <2>1, <2>2
\* The messages r has are the last ones of the log, before and after.
<1>5. ASSUME NEW i \in DOMAIN rows'[s], NEW j \in DOMAIN rows'[s], i <= j,
             rows'[s][i].run = r
      PROVE  rows'[s][j].run = r
  <2>1. CASE j <= n
    <3>1. /\ i <= n /\ i \in DOMAIN rows[s] /\ j \in DOMAIN rows[s]
          /\ rows'[s][i] = rows[s][i] /\ rows'[s][j] = rows[s][j]
      BY <1>1, <1>5, <2>1
    <3>2. runStatus[r] = "running"
      BY <1>4, <1>5, <3>1 DEF TurnInv, OwnRows
    <3> QED
      BY <1>5, <3>1, <3>2 DEF TurnInv, OpenTurnLast
  <2>2. CASE ~(j <= n)
    BY <1>1, <2>2
  <2> QED
    BY <2>1, <2>2
<1>6. OwnRows'
  <2> SUFFICES ASSUME NEW x \in Sessions, NEW i \in DOMAIN rows'[x]
      PROVE  SessionOf[rows'[x][i].run] = x /\ runStatus'[rows'[x][i].run] # "none"
    BY DEF OwnRows
  <2>1. CASE x = s /\ ~(i <= n)
    BY <1>1, <2>1
  <2>2. CASE x # s \/ i <= n
    <3>1. i \in DOMAIN rows[x] /\ rows'[x][i] = rows[x][i]
      BY <1>1, <2>2
    <3> QED
      BY <1>3, <3>1 DEF TurnInv, OwnRows
  <2> QED
    BY <2>1, <2>2
<1>7. OpenTurnLast'
  <2> SUFFICES ASSUME NEW x \in Sessions, NEW i \in DOMAIN rows'[x],
                      NEW j \in DOMAIN rows'[x], i <= j,
                      runStatus'[rows'[x][i].run] = "running"
      PROVE  rows'[x][j].run = rows'[x][i].run
    BY DEF OpenTurnLast
  <2>1. CASE x # s
    <3>1. /\ i \in DOMAIN rows[x] /\ j \in DOMAIN rows[x]
          /\ rows'[x] = rows[x]
      BY <1>1, <2>1
    <3>2. rows[x][i].run \in Runs /\ rows[x][i].run # r
      BY <1>3, <2>1, <3>1 DEF TurnInv, OwnRows
    <3> QED
      BY <3>1, <3>2 DEF TurnInv, OpenTurnLast
  <2>2. CASE x = s
    <3>1. CASE rows'[s][i].run = r
      BY <1>5, <2>2, <3>1
    <3>2. CASE rows'[s][i].run # r
      <4>1. i \in DOMAIN rows[s] /\ rows'[s][i] = rows[s][i]
        BY <1>1, <2>2, <3>2
      <4>2. rows[s][i].run \in InSession(s) \ {r}
        BY <1>3, <3>2, <4>1 DEF TurnInv, OwnRows, InSession
      <4>3. runStatus'[rows[s][i].run] # "running"
        BY <1>2, <4>2 DEF InSession
      <4> QED
        BY <2>2, <4>1, <4>3
    <3> QED
      BY <3>1, <3>2
  <2> QED
    BY <2>1, <2>2
<1>8. TurnsContiguous'
  <2> SUFFICES ASSUME NEW x \in Sessions, NEW i \in DOMAIN rows'[x],
                      NEW j \in DOMAIN rows'[x],
                      rows'[x][i].run = rows'[x][j].run, NEW k \in i .. j
      PROVE  rows'[x][k].run = rows'[x][i].run
    BY DEF TurnsContiguous
  <2>1. CASE x # s
    BY <1>1, <2>1 DEF TurnInv, TurnsContiguous
  <2>2. CASE x = s /\ j <= n
    <3>1. /\ i \in DOMAIN rows[s] /\ j \in DOMAIN rows[s]
          /\ rows[s][i].run = rows[s][j].run
      BY <1>1, <2>2
    <3>2. k \in DOMAIN rows[s] /\ rows[s][k].run = rows[s][i].run
      BY <1>1, <3>1 DEF TurnInv, TurnsContiguous
    <3>3. k \in DOMAIN rows'[s] /\ k <= n
      BY <1>1, <3>2
    <3> QED
      BY <1>1, <2>2, <3>1, <3>2, <3>3
  <2>3. CASE x = s /\ ~(j <= n)
    <3>1. rows'[s][i].run = r
      BY <1>1, <2>3
    <3>2. k \in DOMAIN rows'[s] /\ i <= k
      BY <1>1, <2>3
    <3> QED
      BY <1>5, <2>3, <3>1, <3>2
  <2> QED
    BY <2>1, <2>2, <2>3
<1> QED
  BY <1>6, <1>7, <1>8 DEF TurnInv

\* Steps that leave the logs alone never start a run nor resume one.
LEMMA OtherTurns ==
  ASSUME IndInv, TurnInv, UNCHANGED rows,
         \A q \in Runs : \/ runStatus'[q] = runStatus[q]
                         \/ runStatus'[q] = "failed"
  PROVE  TurnInv'
<1>1. ASSUME NEW x \in Sessions, NEW i \in DOMAIN rows[x]
      PROVE  rows[x][i].run \in Runs
  BY DEF IndInv, TypeOK, Entries
<1> QED
  BY <1>1 DEF TurnInv, OwnRows, OpenTurnLast, TurnsContiguous

LEMMA NextTurns == IndInv /\ TurnInv /\ [Next]_vars => TurnInv'
<1> SUFFICES ASSUME IndInv, TurnInv, [Next]_vars PROVE TurnInv'
  OBVIOUS
<1>1. ASSUME NEW r \in Runs, Commit(r)
      PROVE  TurnInv'
  <2>1. /\ InsertRows(r)
        /\ \/ op[r] \in {"exchange"} /\ UNCHANGED runStatus
           \/ runStatus' = [runStatus EXCEPT ![r] = "running"]
           \/ runStatus' = [runStatus EXCEPT ![r] = "completed"]
    BY <1>1 DEF Commit, CommitStart, CommitExchange, CommitComplete
  <2>2. op[r] = "exchange" => runStatus[r] = "running"
    BY <2>1, OnlyOpenTurn
  <2>3. /\ runStatus'[r] # "none"
        /\ \A q \in Runs \ {r} : runStatus'[q] = runStatus[q]
    BY <2>1, <2>2 DEF IndInv, TypeOK
  <2> QED
    BY <2>1, <2>3, CommitTurns
<1>2. CASE \E r \in Runs : MarkFailed(r)
  <2>1. UNCHANGED rows
    BY <1>2 DEF MarkFailed
  <2>2. \A q \in Runs : runStatus'[q] = runStatus[q] \/ runStatus'[q] = "failed"
    BY <1>2 DEF MarkFailed, IndInv, TypeOK
  <2> QED
    BY <2>1, <2>2, OtherTurns
<1>3. CASE UNCHANGED <<rows, runStatus>>
  BY <1>3, OtherTurns
<1>4. ASSUME NEW r \in Runs,
             \/ Preflight(r)
             \/ ReadClock(r)
             \/ \E next \in {"exchange", "complete"} : Call(r, next)
             \/ LockRow(r)
             \/ Check(r)
             \/ NumberRows(r)
             \/ Rollback(r)
             \/ Provider(r)
      PROVE  UNCHANGED <<rows, runStatus>>
  BY <1>4 DEF Preflight, ReadClock, Call, LockRow, Check, NumberRows, Rollback,
              Provider, Expired, store
<1>5. ASSUME NEW s \in Sessions, CreateSession(s) \/ Lapse(s) \/ Scrub(s)
      PROVE  UNCHANGED <<rows, runStatus>>
  BY <1>5 DEF CreateSession, Lapse, Scrub, Expired, store
<1>6. UNCHANGED vars => UNCHANGED <<rows, runStatus>>
  BY DEF vars, store
<1> QED
  BY <1>1, <1>2, <1>3, <1>4, <1>5, <1>6 DEF Next

\* No turn is interleaved with another: the row lock and the check of
\* start_run keep the messages of a run together in its session's log.
THEOREM TurnsTogether == Spec => []TurnsContiguous
<1>1. Init => TurnInv
  BY DEF Init, TurnInv, OwnRows, OpenTurnLast, TurnsContiguous
<1>2. TurnInv => TurnsContiguous
  BY DEF TurnInv
<1> QED
  BY <1>1, <1>2, NextTurns, Invariance, PTL DEF Spec

-----------------------------------------------------------------------------
(***************************************************************************)
(* The transactions implement the serial store                             *)
(***************************************************************************)

LEMMA InitStore == Init => Store!Init
BY DEF Init, Store!Init

\* A scrub of one session, by the cleanup job or by start_run's preflight.
LEMMA ExpiredStore ==
  ASSUME IndInv, NEW s \in Sessions, status[s] # "none", Expired(s)
  PROVE  Store!Next
<1>1. {s} \in SUBSET Sessions
  OBVIOUS
<1>2. Store!Expire({s})
  BY DEF Store!Expire, Expired, IndInv, TypeOK
<1> QED
  BY <1>1, <1>2 DEF Store!Next

LEMMA CommitStore ==
  ASSUME IndInv, NEW r \in Runs, Commit(r)
  PROVE  Store!Next
<1> USE ConversationAssumption
<1> DEFINE s == SessionOf[r]
<1>1. InsertRows(r)
  BY DEF Commit, CommitStart, CommitExchange, CommitComplete
<1>2. step[r] = "numbered"
  BY <1>1 DEF InsertRows
<1>3. rows' = [rows EXCEPT ![s] = @ \o NewEntries(r)]
  BY <1>1, InsertRowsAppends
<1>4. rows[s] \in Seq(Entries)
  BY DEF IndInv, Logs
<1>5. CASE CommitStart(r)
  <2>1. rows' = [rows EXCEPT ![s] = Append(@, Entry(r, "user"))]
    <3>1. NewEntries(r) = <<Entry(r, "user")>>
      BY <1>5 DEF CommitStart, NewEntries
    <3>2. Entry(r, "user") \in Entries
      BY DEF Entry, Entries, Kinds
    <3> QED
      BY <1>3, <1>4, <3>1, <3>2, AppendIsConcat
  <2>2. op[r] = "start" /\ runStatus[r] = "none" /\ ~Refused(r)
    BY <1>2, <1>5 DEF CommitStart, IndInv, Phases, Admitted
  <2>3. status[s] = "active" /\ Store!Running(s) = {}
    BY <2>2 DEF Refused, Running, InSession, Store!Running, Store!InSession
  <2>4. Store!StartRun(r)
    BY <1>5, <2>1, <2>2, <2>3 DEF CommitStart, Store!StartRun, Entry, Store!Entry
  <2> QED
    BY <2>4 DEF Store!Next
<1>6. CASE CommitExchange(r)
  <2>1. rows' = [rows EXCEPT ![s] =
                   Append(Append(@, Entry(r, "call")), Entry(r, "tool"))]
    <3>1. NewEntries(r) = <<Entry(r, "call"), Entry(r, "tool")>>
      BY <1>6 DEF CommitExchange, NewEntries
    <3>2. Entry(r, "call") \in Entries /\ Entry(r, "tool") \in Entries
      BY DEF Entry, Entries, Kinds
    <3>3. rows[s] \o <<Entry(r, "call"), Entry(r, "tool")>>
            = Append(Append(rows[s], Entry(r, "call")), Entry(r, "tool"))
      BY <1>4, <3>2
    <3> QED
      BY <1>3, <3>1, <3>3
  <2>2. runStatus[r] = "running"
    BY <1>6 DEF CommitExchange, IndInv, Phases
  <2>3. Store!StoreToolExchange(r)
    BY <1>6, <2>1, <2>2 DEF CommitExchange, Store!StoreToolExchange,
                           Entry, Store!Entry
  <2> QED
    BY <2>3 DEF Store!Next
<1>7. ASSUME NEW memory \in Successors(MemoryIn(snapshot[r]), r),
             NEW products \in {r, NoRun},
             CommitComplete(r, memory, products)
      PROVE  Store!Next
  <2>1. rows' = [rows EXCEPT ![s] = Append(@, Entry(r, "answer"))]
    <3>1. NewEntries(r) = <<Entry(r, "answer")>>
      BY <1>7 DEF CommitComplete, NewEntries
    <3>2. Entry(r, "answer") \in Entries
      BY DEF Entry, Entries, Kinds
    <3> QED
      BY <1>3, <1>4, <3>1, <3>2, AppendIsConcat
  <2>2. op[r] = "complete" /\ runStatus[r] = "running"
    BY <1>7 DEF CommitComplete, IndInv, Phases
  <2>3. context' = [context EXCEPT ![s] = WithMemory(@, memory, products)]
    BY <1>7 DEF CommitComplete
  <2>4. context'[s].memory = memory
    BY <2>3 DEF WithMemory, IndInv, TypeOK
  <2>5. \/ memory \in Successors(MemoryIn(context[s]), r)
        \/ context[s] = NoContext
    BY <2>2 DEF IndInv, SnapshotCurrent
  <2>6. Store!CompleteRun(r)
    BY <1>7, <2>1, <2>2, <2>3, <2>4, <2>5 DEF CommitComplete, Store!CompleteRun,
         Entry, Store!Entry, WithMemory, Store!WithMemory,
         ProductsIn, Store!ProductsIn, MemoryIn, Store!MemoryIn,
         FreshMemory, Store!FreshMemory, Successors, Store!Successors
  <2> QED
    BY <2>6 DEF Store!Next
<1> QED
  BY <1>5, <1>6, <1>7 DEF Commit

LEMMA NextStore == IndInv /\ [Next]_vars => [Store!Next]_(Store!vars)
<1> SUFFICES ASSUME IndInv, [Next]_vars
             PROVE  Store!Next \/ UNCHANGED store
  BY DEF store, Store!vars
<1> USE ConversationAssumption
<1>1. ASSUME NEW s \in Sessions, CreateSession(s)
      PROVE  Store!Next
  BY <1>1 DEF CreateSession, Store!CreateSession, Store!Next,
              FreshContext, Store!FreshContext, FreshMemory, Store!FreshMemory
<1>2. ASSUME NEW s \in Sessions, Scrub(s)
      PROVE  Store!Next
  BY <1>2, ExpiredStore DEF Scrub, IndInv, Phases
<1>3. ASSUME NEW r \in Runs, Preflight(r)
      PROVE  Store!Next \/ UNCHANGED store
  BY <1>3, ExpiredStore DEF Preflight
<1>4. ASSUME NEW r \in Runs, Commit(r)
      PROVE  Store!Next
  BY <1>4, CommitStore
<1>5. ASSUME NEW r \in Runs, MarkFailed(r)
      PROVE  Store!Next \/ UNCHANGED store
  <2>1. runStatus[r] = "running"
    BY <1>5 DEF MarkFailed, IndInv, Phases
  <2>2. Store!FailRun(r) \/ UNCHANGED store
    BY <1>5, <2>1 DEF MarkFailed, Store!FailRun, store
  <2> QED
    BY <2>2 DEF Store!Next
<1>6. ASSUME NEW s \in Sessions, Lapse(s)
      PROVE  UNCHANGED store
  BY <1>6 DEF Lapse
<1>7. ASSUME NEW r \in Runs,
             \/ ReadClock(r)
             \/ \E next \in {"exchange", "complete"} : Call(r, next)
             \/ LockRow(r)
             \/ Check(r)
             \/ NumberRows(r)
             \/ Rollback(r)
             \/ Provider(r)
      PROVE  UNCHANGED store
  BY <1>7 DEF ReadClock, Call, LockRow, Check, NumberRows, Rollback, Provider
<1>8. CASE UNCHANGED vars
  BY <1>8 DEF vars
<1> QED
  BY <1>1, <1>2, <1>3, <1>4, <1>5, <1>6, <1>7, <1>8 DEF Next

\* Concurrent transactions of any number of processes look, to anyone who
\* reads committed rows, like turns taken one after the other.
THEOREM Refinement == Spec => ImplementsStore
BY InitStore, NextStore, Invariance, PTL DEF Spec, ImplementsStore, Store!Spec

-----------------------------------------------------------------------------
(***************************************************************************)
(* The vector collections                                                  *)
(***************************************************************************)

\* The tasks of an index job, and whether a tool relies on what it has found in
\* its collection.
IndexTasks == {"write", "list", "delete", "check"}
Relies(x) == x.pc \in IF x.coll = Docs THEN IndexTasks ELSE {"verify", "swap"}

\* What the tools have in hand belongs to their release, only documents are
\* swept and only product collections promoted.
Belongs(x) ==
  /\ x.pc \notin {"over", "failed"} => x.rel \in Releases
  /\ x.pc \in IndexTasks => /\ x.todo \subseteq ItemsOf[x.rel]
                           /\ x.stale \cap ItemsOf[x.rel] = {}
  /\ x.pc \in {"list", "delete"} => x.coll = Docs
  /\ x.pc = "check" /\ x.coll = Docs => x.todo = {}
  /\ x.pc \in {"list", "delete"} => x.todo = {}
  /\ x.pc \in {"verify", "swap"} => x.coll \in Products
  /\ x.pc \in {"write", "delete"} => x.from = 1
  /\ x.pc \in {"write", "list", "delete"} => x.agrees

Tools == \A j \in Jobs : Belongs(job[j])

\* The points p of collection c are those of release r before item n, or all.
AgreeBefore(p, c, r, n) == \A i \in Items : i < n => p[c][i] = Expected(r)[i]
AllAgree(p, c, r) == \A i \in Items : p[c][i] = Expected(r)[i]

\* Job x has listed what it must delete of item i, among points p.
Swept(x, p, i) ==
  i \notin ItemsOf[x.rel] /\ p[x.coll][i] # None => i \in x.stale

\* How far a document index job x has come among points p ...
Repairs(x, p) ==
  /\ \A i \in ItemsOf[x.rel] \ x.todo : p[x.coll][i] = x.rel
  /\ x.pc = "list" => \A i \in Items : i < x.from => Swept(x, p, i)
  /\ x.pc = "delete" => \A i \in Items : Swept(x, p, i)
  /\ x.pc = "check" => AllAgree(p, x.coll, x.rel) /\ x.agrees

\* ... and a promotion.
Promotes(x, p) ==
  /\ x.pc = "verify" /\ x.agrees => AgreeBefore(p, x.coll, x.rel, x.from)
  /\ x.pc = "swap" => AllAgree(p, x.coll, x.rel)

\* What a job may rely on, as long as nobody has disturbed it.
Working(x, p) ==
  /\ Relies(x) /\ x.undisturbed => IF x.coll = Docs THEN Repairs(x, p) ELSE Promotes(x, p)
  /\ x.pc = "failed" /\ x.coll = Docs => ~x.undisturbed

\* What a server may rely on that searches collection c.
Searching(x, p, c) ==
  /\ x.pc # "down" \/ x.products => x.rel \in Releases
  /\ x.undisturbed =>
       /\ x.pc = "products" /\ x.agrees => AgreeBefore(p, c, x.rel, x.from)
       /\ x.products => AllAgree(p, c, x.rel)

JobsInv == \A j \in Jobs : Working(job[j], points)

ServersInv ==
  \A s \in Servers : /\ server[s].products => alias # None
                     /\ Searching(server[s], points, Where(Active))

AliasInv == promoted # None => alias # None /\ AllAgree(points, alias, promoted)

IndexInv == IndexTypeOK /\ Tools /\ JobsInv /\ ServersInv /\ AliasInv

-----------------------------------------------------------------------------
\* The records the steps build keep their types.
LEMMA OverTypes == Over \in JobStates /\ Down \in ServerStates
<1>1. 1 \in 1 .. LastItem + 1
  BY IndexAssumption DEF IndexAssumption
<1>2. Docs \in Collections
  BY DEF Collections
<1> QED BY <1>1, <1>2 DEF Over, Down, JobStates, ServerStates

\* A page ends within the items, so a scan stays within its range.
LEMMA NextPage ==
  ASSUME NEW x, x.from \in 1 .. LastItem + 1, NEW to \in Ends(x)
  PROVE  to \in Items /\ to + 1 \in 1 .. LastItem + 1 /\ x.from .. to \subseteq Items
BY IndexAssumption DEF IndexAssumption, Ends, Items

LEMMA RewoundTypes ==
  ASSUME NEW x \in JobStates,
         NEW p \in {"over", "failed", "delete", "swap", "calibrate"}
  PROVE  [Rewound(x) EXCEPT !.pc = p] \in JobStates
<1>1. 1 \in 1 .. LastItem + 1
  BY IndexAssumption DEF IndexAssumption
<1> QED BY <1>1 DEF Rewound, JobStates

LEMMA AfterTypes ==
  ASSUME NEW x \in ServerStates, NEW ready \in BOOLEAN
  PROVE  AfterProducts(x, ready) \in ServerStates
<1>1. 1 \in 1 .. LastItem + 1
  BY IndexAssumption DEF IndexAssumption
<1>2. (x.undisturbed \/ ~ready) \in BOOLEAN
  OBVIOUS
<1> QED BY <1>1, <1>2 DEF AfterProducts, Rewound, ServerStates

\* What a name stands for is a collection, and a document job works on Docs.
LEMMA WhereType ==
  ASSUME IndexTypeOK, NEW c \in Collections
  PROVE  /\ Where(c) \in Collections
         /\ c # Active => Where(c) = c
         /\ alias # None => Where(Active) = alias
BY DEF IndexTypeOK, Where, Collections

\* An agreement on every item is completeness.
LEMMA CompleteIfAgree ==
  ASSUME IndexTypeOK, NEW c \in Collections, NEW r \in Releases, AllAgree(points, c, r)
  PROVE  Complete(c, r)
<1>1. points[c] \in [Items -> Releases \cup {None}]
  BY DEF IndexTypeOK
<1>2. \A i \in Items : points[c][i] = Expected(r)[i]
  BY DEF AllAgree
<1>3. points[c] = Expected(r)
  BY <1>1, <1>2 DEF Expected
<1> QED BY <1>3 DEF Complete

\* Having read the last page is having read every item.
LEMMA AgreeAtEnd ==
  ASSUME NEW p, NEW c, NEW r, NEW n \in Nat, n > LastItem, AgreeBefore(p, c, r, n)
  PROVE  AllAgree(p, c, r)
<1>1. \A i \in Items : i < n
  BY IndexAssumption DEF IndexAssumption, Items
<1> QED BY <1>1 DEF AgreeBefore, AllAgree

LEMMA AgreeAtStart == ASSUME NEW p, NEW c, NEW r PROVE AgreeBefore(p, c, r, 1)
<1>1. \A i \in Items : ~(i < 1)
  BY IndexAssumption DEF IndexAssumption, Items
<1> QED BY <1>1 DEF AgreeBefore

\* A page that agrees extends what has been read.
LEMMA AgreePage ==
  ASSUME NEW x, x.from \in 1 .. LastItem + 1, NEW to \in Ends(x), NEW c, NEW r,
         AgreeBefore(points, c, r, x.from), Agrees(c, r, x.from, to)
  PROVE  AgreeBefore(points, c, r, to + 1)
<1>1. /\ to \in Nat /\ x.from \in Nat /\ \A i \in Items : i \in Nat
  BY IndexAssumption DEF IndexAssumption, Ends, Items
<1>2. \A i \in Items : i < to + 1 => i < x.from \/ i \in x.from .. to
  BY <1>1
<1> QED BY <1>2 DEF AgreeBefore, Agrees

-----------------------------------------------------------------------------
\* Record y is x, but may have been disturbed.
Disturbed(x, y) == \E b \in BOOLEAN : y = [x EXCEPT !.undisturbed = @ /\ b]

LEMMA DisturbedJob ==
  ASSUME NEW x \in JobStates, NEW y, Disturbed(x, y)
  PROVE  /\ y \in JobStates
         /\ y.pc = x.pc /\ y.coll = x.coll /\ y.rel = x.rel /\ y.todo = x.todo
         /\ y.stale = x.stale /\ y.from = x.from /\ y.agrees = x.agrees
         /\ y.undisturbed => x.undisturbed
<1>1. PICK b \in BOOLEAN : y = [x EXCEPT !.undisturbed = x.undisturbed /\ b]
  BY DEF Disturbed
<1>2. (x.undisturbed /\ b) \in BOOLEAN
  OBVIOUS
<1>3. y.undisturbed = (x.undisturbed /\ b)
  BY <1>1 DEF JobStates
<1>4. y.undisturbed => x.undisturbed
  BY <1>3
<1> QED BY <1>1, <1>2, <1>4 DEF JobStates

LEMMA DisturbedServer ==
  ASSUME NEW x \in ServerStates, NEW y, Disturbed(x, y)
  PROVE  /\ y \in ServerStates
         /\ y.pc = x.pc /\ y.rel = x.rel /\ y.from = x.from /\ y.agrees = x.agrees
         /\ y.products = x.products
         /\ y.undisturbed => x.undisturbed
<1>1. PICK b \in BOOLEAN : y = [x EXCEPT !.undisturbed = x.undisturbed /\ b]
  BY DEF Disturbed
<1>2. (x.undisturbed /\ b) \in BOOLEAN
  OBVIOUS
<1>3. y.undisturbed = (x.undisturbed /\ b)
  BY <1>1 DEF ServerStates
<1>4. y.undisturbed => x.undisturbed
  BY <1>3
<1> QED BY <1>1, <1>2, <1>4 DEF ServerStates

\* A job that has written goes on, and leaves the others as they were, except
\* for those that rely on its collection for another release.
LEMMA DisturbStep ==
  ASSUME IndexTypeOK, NEW j \in Jobs, job[j].rel \in Releases,
         NEW next \in JobStates, Disturb(j, next)
  PROVE  /\ job' \in [Jobs -> JobStates] /\ server' \in [Servers -> ServerStates]
         /\ promoted' \in Releases \cup {None}
         /\ job'[j] = next
         /\ \A k \in Jobs \ {j} :
              /\ Disturbed(job[k], job'[k])
              /\ Relies(job[k]) /\ job'[k].undisturbed /\ job[k].coll = Where(job[j].coll)
                 => job[k].rel = job[j].rel
         /\ \A s \in Servers :
              /\ Disturbed(server[s], server'[s])
              /\ server'[s].undisturbed /\ Where(Active) = Where(job[j].coll)
                 => \/ server[s].rel = job[j].rel
                    \/ server[s].pc # "products" /\ ~server[s].products
         /\ promoted' # None =>
              /\ promoted' = promoted
              /\ Where(Active) = Where(job[j].coll) => promoted = job[j].rel
<1> DEFINE c == Where(job[j].coll)
           r == job[j].rel
<1>0. job \in [Jobs -> JobStates] /\ server \in [Servers -> ServerStates]
  BY DEF IndexTypeOK
<1>1. /\ job' = [k \in Jobs |->
           IF k = j THEN next ELSE [job[k] EXCEPT !.undisturbed = @ /\ ~ConcernsJob(k, c, r)]]
      /\ server' = [s \in Servers |->
           [server[s] EXCEPT !.undisturbed = @ /\ ~ConcernsServer(s, c, r)]]
      /\ promoted' = IF Where(Active) = c /\ promoted # r THEN None ELSE promoted
  BY DEF Disturb
<1> HIDE DEF c, r
<1>2. ASSUME NEW k \in Jobs \ {j}
      PROVE  /\ Disturbed(job[k], job'[k])
             /\ Relies(job[k]) /\ job'[k].undisturbed /\ job[k].coll = c => job[k].rel = r
  <2>1. job'[k] = [job[k] EXCEPT !.undisturbed = @ /\ ~ConcernsJob(k, c, r)]
    BY <1>1
  <2>2. (~ConcernsJob(k, c, r)) \in BOOLEAN
    BY DEF ConcernsJob
  <2>3. Disturbed(job[k], job'[k])
    BY <2>1, <2>2 DEF Disturbed
  <2>4. job'[k].undisturbed = (job[k].undisturbed /\ ~ConcernsJob(k, c, r))
    BY <1>0, <2>1 DEF JobStates
  <2>5. Relies(job[k]) /\ job[k].coll = c /\ job[k].rel # r => ConcernsJob(k, c, r)
    BY DEF Relies, ConcernsJob, IndexTasks
  <2> QED BY <2>3, <2>4, <2>5
<1>3. ASSUME NEW s \in Servers
      PROVE  /\ Disturbed(server[s], server'[s])
             /\ server'[s].undisturbed /\ Where(Active) = c
                => \/ server[s].rel = r
                   \/ server[s].pc # "products" /\ ~server[s].products
  <2>1. server'[s] = [server[s] EXCEPT !.undisturbed = @ /\ ~ConcernsServer(s, c, r)]
    BY <1>1
  <2>2. (~ConcernsServer(s, c, r)) \in BOOLEAN
    BY DEF ConcernsServer
  <2>3. Disturbed(server[s], server'[s])
    BY <2>1, <2>2 DEF Disturbed
  <2>4. server'[s].undisturbed = (server[s].undisturbed /\ ~ConcernsServer(s, c, r))
    BY <1>0, <2>1 DEF ServerStates
  <2> QED BY <2>3, <2>4 DEF ConcernsServer
<1>4. job' \in [Jobs -> JobStates]
  <2>1. \A k \in Jobs : job'[k] \in JobStates
    BY <1>0, <1>1, <1>2, DisturbedJob
  <2> QED BY <1>1, <2>1
<1>5. server' \in [Servers -> ServerStates]
  <2>1. \A s \in Servers : server'[s] \in ServerStates
    BY <1>0, <1>3, DisturbedServer
  <2> QED BY <1>1, <2>1
<1>6. promoted' \in Releases \cup {None}
  BY <1>1 DEF IndexTypeOK
<1>7. promoted' # None => promoted' = promoted /\ (Where(Active) = c => promoted = r)
  BY <1>1
<1> QED BY <1>1, <1>2, <1>3, <1>4, <1>5, <1>6, <1>7 DEF c, r

LEMMA InitIndexInv == InitIndex => IndexInv
<1> SUFFICES ASSUME InitIndex PROVE IndexInv
  OBVIOUS
<1>1. IndexTypeOK
  BY OverTypes DEF InitIndex, IndexTypeOK, Collections, Items
<1>2. Tools /\ JobsInv /\ AliasInv
  BY DEF InitIndex, Tools, Belongs, JobsInv, Working, Relies, IndexTasks, Over, AliasInv
<1>3. ServersInv
  BY DEF InitIndex, ServersInv, Searching, Down
<1> QED BY <1>1, <1>2, <1>3 DEF IndexInv

-----------------------------------------------------------------------------
\* What a tool has in hand when it has written a batch ...
LEMMA UpsertNext ==
  ASSUME IndexTypeOK, Tools, NEW j \in Jobs, NEW batch \in (SUBSET Items) \ {{}},
         Upsert(j, batch)
  PROVE  /\ job[j].rel \in Releases /\ batch \subseteq ItemsOf[job[j].rel]
         /\ \E next \in JobStates :
              /\ Disturb(j, next)
              /\ next.coll = job[j].coll /\ next.rel = job[j].rel
              /\ next.todo = job[j].todo \ batch /\ next.stale = job[j].stale
              /\ next.from = 1 /\ next.agrees
              /\ next.undisturbed = job[j].undisturbed
              /\ next.pc \in {"write", "list", "check"}
              /\ next.pc = "list" => next.todo = {} /\ next.coll = Docs
              /\ next.pc = "check" => next.coll # Docs
<1> DEFINE x == job[j]
           left == x.todo \ batch
           p == IF left # {} THEN "write" ELSE IF x.coll = Docs THEN "list" ELSE "check"
           next == [x EXCEPT !.todo = left, !.pc = p]
<1>1. x \in JobStates /\ Belongs(x) /\ x.pc = "write" /\ batch \subseteq x.todo
  BY DEF IndexTypeOK, Tools, Upsert
<1>2. /\ x.rel \in Releases /\ x.from = 1 /\ x.agrees /\ x.todo \subseteq ItemsOf[x.rel]
      /\ x.agrees \in BOOLEAN
  BY <1>1 DEF Belongs, IndexTasks, JobStates
<1>3. Disturb(j, next)
  BY DEF Upsert
<1>4. left \in SUBSET Items /\ p \in {"write", "list", "check"}
  BY <1>1 DEF JobStates
<1>5. /\ p = "list" => left = {} /\ x.coll = Docs
      /\ p = "check" => x.coll # Docs
  OBVIOUS
<1> HIDE DEF left, p
<1>6. /\ next \in JobStates
      /\ next.coll = x.coll /\ next.rel = x.rel /\ next.todo = left /\ next.stale = x.stale
      /\ next.from = x.from /\ next.agrees = x.agrees /\ next.undisturbed = x.undisturbed
      /\ next.pc = p
  BY <1>1, <1>4 DEF JobStates
<1> HIDE DEF next
<1>7. /\ next.pc = "list" => next.todo = {} /\ next.coll = Docs
      /\ next.pc = "check" => next.coll # Docs
  BY <1>5, <1>6
<1>8. /\ next \in JobStates /\ Disturb(j, next)
      /\ next.coll = job[j].coll /\ next.rel = job[j].rel
      /\ next.todo = job[j].todo \ batch /\ next.stale = job[j].stale
      /\ next.from = 1 /\ next.agrees
      /\ next.undisturbed = job[j].undisturbed
      /\ next.pc \in {"write", "list", "check"}
  BY <1>2, <1>3, <1>4, <1>6 DEF left
<1> QED BY <1>1, <1>2, <1>7, <1>8

\* ... and when it has swept.
LEMMA DeleteNext ==
  ASSUME IndexTypeOK, Tools, NEW j \in Jobs, DeleteStale(j)
  PROVE  /\ job[j].pc = "delete" /\ job[j].rel \in Releases /\ job[j].coll = Docs
         /\ job[j].stale \cap ItemsOf[job[j].rel] = {}
         /\ \E next \in JobStates :
              /\ Disturb(j, next)
              /\ next.coll = job[j].coll /\ next.rel = job[j].rel
              /\ next.todo = {} /\ next.todo = job[j].todo /\ next.stale = {}
              /\ next.from = 1 /\ next.agrees
              /\ next.undisturbed = job[j].undisturbed /\ next.pc = "check"
<1> DEFINE x == job[j]
           next == [x EXCEPT !.stale = {}, !.pc = "check"]
<1>1. x \in JobStates /\ Belongs(x) /\ x.pc = "delete" /\ Disturb(j, next)
  BY DEF IndexTypeOK, Tools, DeleteStale
<1>2. /\ x.rel \in Releases /\ x.coll = Docs /\ x.stale \cap ItemsOf[x.rel] = {}
      /\ x.todo = {} /\ x.from = 1 /\ x.agrees
  BY <1>1 DEF Belongs, IndexTasks
<1>3. /\ next \in JobStates
      /\ next.coll = x.coll /\ next.rel = x.rel /\ next.todo = x.todo /\ next.stale = {}
      /\ next.from = x.from /\ next.agrees = x.agrees /\ next.undisturbed = x.undisturbed
      /\ next.pc = "check"
  BY <1>1 DEF JobStates
<1> HIDE DEF next
<1> QED BY <1>1, <1>2, <1>3

\* The tasks that write nothing leave the other jobs as they are.
LEMMA QuietStep ==
  ASSUME IndexTypeOK, Tools, NEW j \in Jobs, JobStep(j),
         ~(\E batch \in (SUBSET Items) \ {{}} : Upsert(j, batch)), ~DeleteStale(j)
  PROVE  /\ job'[j] \in JobStates /\ Belongs(job'[j])
         /\ job' = [job EXCEPT ![j] = job'[j]]
         /\ points' = points
         /\ \/ server' = server /\ alias' = alias /\ promoted' = promoted
            \/ SwapAlias(j)
            \/ server' = server /\ promoted' = promoted /\ alias = None /\ alias' = Active
<1> DEFINE x == job[j]
           Goal == /\ job'[j] \in JobStates /\ Belongs(job'[j])
                   /\ job' = [job EXCEPT ![j] = job'[j]]
           Same == points' = points /\ server' = server /\ alias' = alias /\ promoted' = promoted
           Named == /\ points' = points /\ server' = server /\ promoted' = promoted
                    /\ alias = None /\ alias' = Active
<1>0. job \in [Jobs -> JobStates] /\ x \in JobStates /\ Belongs(x)
  BY DEF IndexTypeOK, Tools
<1>a. Belongs(Over)
  BY DEF Belongs, Over, IndexTasks
<1>b. ASSUME NEW y \in JobStates, Belongs(y), job' = [job EXCEPT ![j] = y] PROVE Goal
  BY <1>b, <1>0
<1> HIDE DEF Goal
<1>1. ASSUME NEW c \in Collections, NEW r \in Releases, StartIndex(j, c, r)
      PROVE  Goal
  <2>1. ItemsOf[r] \in SUBSET Items
    BY IndexAssumption DEF IndexAssumption
  <2>2. Begin(j, "write", c, r) \in JobStates
    BY <2>1, OverTypes DEF Begin, Over, JobStates
  <2>3. Belongs(Begin(j, "write", c, r))
    BY DEF Begin, Over, Belongs, IndexTasks
  <2> QED BY <1>1, <2>2, <2>3, <1>b DEF StartIndex
<1>2. ASSUME NEW c \in Collections, NEW r \in Releases, StartPromote(j, c, r)
      PROVE  Goal
  <2>1. Begin(j, "verify", c, r) \in JobStates
    BY OverTypes DEF Begin, Over, JobStates
  <2>2. Belongs(Begin(j, "verify", c, r))
    BY <1>2 DEF StartPromote, Begin, Over, Belongs, IndexTasks
  <2> QED BY <1>2, <2>1, <2>2, <1>b DEF StartPromote
<1>3. ASSUME NEW r \in Releases, StartCalibrate(j, r) PROVE Goal
  <2>1. Begin(j, "measure", Docs, r) \in JobStates
    BY OverTypes DEF Begin, Over, JobStates, Collections
  <2>2. Belongs(Begin(j, "measure", Docs, r))
    BY DEF Begin, Over, Belongs, IndexTasks
  <2> QED BY <1>3, <2>1, <2>2, <1>b DEF StartCalibrate
<1>4. ASSUME NEW to \in Ends(x), ListPage(j, to) PROVE Goal
  <2> DEFINE next == [x EXCEPT !.stale = @ \cup Stale(j, to), !.from = to + 1]
  <2>1. /\ to + 1 \in 1 .. LastItem + 1 /\ Stale(j, to) \subseteq Items
        /\ Stale(j, to) \cap ItemsOf[x.rel] = {}
    BY <1>0, NextPage DEF Stale, JobStates
  <2>2. next \in JobStates
    BY <1>0, <2>1 DEF JobStates
  <2>3. [Rewound(next) EXCEPT !.pc = "delete"] \in JobStates
    BY <2>2, RewoundTypes
  <2>4. x.pc = "list"
    BY <1>4 DEF ListPage
  <2>5. Belongs(next) /\ Belongs([Rewound(next) EXCEPT !.pc = "delete"])
    BY <1>0, <2>1, <2>4 DEF Belongs, IndexTasks, Rewound, JobStates
  <2>6. job' = [job EXCEPT ![j] = IF Read(next)
                                  THEN [Rewound(next) EXCEPT !.pc = "delete"] ELSE next]
    BY <1>4 DEF ListPage
  <2> HIDE DEF next
  <2> QED BY <2>2, <2>3, <2>5, <2>6, <1>b
<1>5. ASSUME NEW to \in Ends(x), CheckPage(j, to) PROVE Goal
  <2> DEFINE next == Scanned(x, Where(x.coll), to)
             then == IF next.agrees THEN Passed[next.pc] ELSE Rejected[next.pc]
             last == [Rewound(next) EXCEPT !.pc = then]
  <2>1. to + 1 \in 1 .. LastItem + 1
    BY <1>0, NextPage DEF JobStates
  <2>2. (x.agrees /\ Agrees(Where(x.coll), x.rel, x.from, to)) \in BOOLEAN
    BY DEF Agrees
  <2>3. next \in JobStates /\ next.pc = x.pc /\ next.coll = x.coll /\ next.rel = x.rel
        /\ next.todo = x.todo /\ next.stale = x.stale
    BY <1>0, <2>1, <2>2 DEF Scanned, JobStates
  <2>4. x.pc \in {"check", "verify", "measure"}
    BY <1>5 DEF CheckPage, Passed
  <2>5. /\ then \in {"over", "swap", "calibrate", "failed"}
        /\ then = "swap" => x.pc = "verify"
    BY <2>3, <2>4 DEF Passed, Rejected
  <2>6. Belongs(next)
    BY <1>0, <2>3, <2>4 DEF Belongs, IndexTasks
  <2> HIDE DEF next, then
  <2>7. last \in JobStates /\ last.pc = then /\ last.coll = x.coll /\ last.rel = x.rel
    <3>1. last \in JobStates
      BY <2>3, <2>5, RewoundTypes
    <3>2. last.pc = then /\ last.coll = next.coll /\ last.rel = next.rel
      BY <2>3 DEF Rewound, JobStates
    <3> QED BY <3>1, <3>2, <2>3
  <2> HIDE DEF last
  <2>8. Belongs(last)
    BY <1>0, <2>4, <2>5, <2>7 DEF Belongs, IndexTasks
  <2>9. job' = [job EXCEPT ![j] =
           IF ~Read(next) THEN next ELSE IF then = "over" THEN Over ELSE last]
    BY <1>5 DEF CheckPage, next, then, last
  <2> QED BY <2>3, <2>6, <2>7, <2>8, <2>9, <1>a, <1>b, OverTypes
<1>6. SwapAlias(j) \/ WriteBaseline(j) \/ Abort(j) => Goal
  BY <1>a, <1>b, OverTypes DEF SwapAlias, WriteBaseline, Abort
<1>7. Goal
  BY <1>1, <1>2, <1>3, <1>4, <1>5, <1>6 DEF JobStep
<1>8. Same \/ Named \/ (SwapAlias(j) /\ points' = points)
  <2>1. ASSUME NEW c, NEW r, StartIndex(j, c, r)
        PROVE  Same \/ Named
    BY <2>1 DEF StartIndex
  <2>2. ASSUME NEW c, NEW r, StartPromote(j, c, r) PROVE Same
    BY <2>2 DEF StartPromote
  <2>3. ASSUME NEW r, StartCalibrate(j, r) PROVE Same
    BY <2>3 DEF StartCalibrate
  <2>4. ASSUME NEW to, ListPage(j, to) \/ CheckPage(j, to) PROVE Same
    BY <2>4 DEF ListPage, CheckPage
  <2>5. WriteBaseline(j) \/ Abort(j) => Same
    BY DEF WriteBaseline, Abort
  <2>6. SwapAlias(j) => points' = points
    BY DEF SwapAlias
  <2> HIDE DEF Same, Named
  <2> QED BY <2>1, <2>2, <2>3, <2>4, <2>5, <2>6 DEF JobStep
<1> QED BY <1>7, <1>8 DEF Goal

\* A tool that writes stays with its release, so it helps whoever relies on
\* its collection for that release.
Helps(p, q, c, r) ==
  \A i \in Items : q[c][i] = p[c][i] \/ q[c][i] = Expected(r)[i]

LEMMA Writes ==
  ASSUME IndexTypeOK, Tools, NEW j \in Jobs,
         (\E batch \in (SUBSET Items) \ {{}} : Upsert(j, batch)) \/ DeleteStale(j)
  PROVE  /\ points' \in [Collections -> [Items -> Releases \cup {None}]]
         /\ alias' = alias
         /\ job[j].rel \in Releases
         /\ \A c \in Collections, r \in Releases :
              (c = Where(job[j].coll) => r = job[j].rel) => Helps(points, points', c, r)
<1> DEFINE d == Where(job[j].coll)
           Written(S, v) == points' =
             [points EXCEPT ![d] = [i \in Items |-> IF i \in S THEN v ELSE @[i]]]
           Goal(r) == /\ points' \in [Collections -> [Items -> Releases \cup {None}]]
                      /\ Helps(points, points', d, r)
                      /\ \A c \in Collections : c # d => points'[c] = points[c]
<1>0. job[j] \in JobStates /\ d \in Collections
  BY WhereType DEF IndexTypeOK, JobStates
<1> HIDE DEF d
<1>1. ASSUME NEW S \in SUBSET Items, NEW v \in Releases \cup {None}, Written(S, v),
             NEW r \in Releases, \A i \in S : v = Expected(r)[i]
      PROVE  Goal(r)
  <2>1. points \in [Collections -> [Items -> Releases \cup {None}]]
    BY DEF IndexTypeOK
  <2>2. points'[d] = [i \in Items |-> IF i \in S THEN v ELSE points[d][i]]
    BY <1>0, <1>1, <2>1
  <2>3. points' \in [Collections -> [Items -> Releases \cup {None}]]
    BY <1>0, <1>1, <2>1
  <2>4. \A i \in Items : points'[d][i] = points[d][i] \/ points'[d][i] = Expected(r)[i]
    BY <1>1, <2>2
  <2>5. \A c \in Collections : c # d => points'[c] = points[c]
    BY <1>1, <2>1
  <2> QED BY <2>3, <2>4, <2>5 DEF Helps
<1> HIDE DEF Written, Goal
<1>2. ASSUME NEW batch \in (SUBSET Items) \ {{}}, Upsert(j, batch)
      PROVE  Goal(job[j].rel) /\ job[j].rel \in Releases /\ alias' = alias
  <2>1. job[j].rel \in Releases /\ batch \subseteq ItemsOf[job[j].rel]
    BY <1>2, UpsertNext
  <2>2. Written(batch, job[j].rel)
    BY <1>2 DEF Upsert, Written, d
  <2>3. \A i \in batch : job[j].rel = Expected(job[j].rel)[i]
    BY <2>1 DEF Expected
  <2>4. alias' = alias
    BY <1>2 DEF Upsert
  <2>5. batch \in SUBSET Items /\ job[j].rel \in Releases \cup {None}
    BY <2>1
  <2> QED BY <1>1, <2>1, <2>2, <2>3, <2>4, <2>5
<1>3. ASSUME DeleteStale(j)
      PROVE  Goal(job[j].rel) /\ job[j].rel \in Releases /\ alias' = alias
  <2>1. /\ job[j].rel \in Releases /\ job[j].coll = Docs
        /\ job[j].stale \cap ItemsOf[job[j].rel] = {}
    BY <1>3, DeleteNext
  <2>2. d = Docs
    BY <2>1, WhereType, IndexAssumption DEF d, IndexAssumption, Collections
  <2>3. Written(job[j].stale, None)
    BY <1>3, <2>1, <2>2 DEF DeleteStale, Written
  <2>4. job[j].stale \in SUBSET Items
    BY <1>0 DEF JobStates
  <2>5. \A i \in job[j].stale : None = Expected(job[j].rel)[i]
    BY <2>1, <2>4 DEF Expected
  <2>6. alias' = alias
    BY <1>3 DEF DeleteStale
  <2> QED BY <1>1, <2>1, <2>3, <2>4, <2>5, <2>6
<1>4. Goal(job[j].rel) /\ job[j].rel \in Releases /\ alias' = alias
  BY <1>2, <1>3
<1>5. ASSUME NEW c \in Collections, NEW r \in Releases, c = d => r = job[j].rel
      PROVE  Helps(points, points', c, r)
  BY <1>4, <1>5 DEF Helps, Goal
<1> QED BY <1>4, <1>5 DEF d, Goal

LEMMA HelpedAgree ==
  ASSUME NEW p, NEW q, NEW c, NEW r, Helps(p, q, c, r)
  PROVE  /\ AllAgree(p, c, r) => AllAgree(q, c, r)
         /\ \A n \in Nat : AgreeBefore(p, c, r, n) => AgreeBefore(q, c, r, n)
BY DEF Helps, AllAgree, AgreeBefore

LEMMA HelpedRepairs ==
  ASSUME NEW p, NEW q, NEW x \in JobStates, x.rel \in Releases,
         Helps(p, q, x.coll, x.rel), Repairs(x, p)
  PROVE  Repairs(x, q)
<1>1. ItemsOf[x.rel] \subseteq Items
  BY IndexAssumption DEF IndexAssumption
<1>2. \A i \in ItemsOf[x.rel] \ x.todo : q[x.coll][i] = x.rel
  BY <1>1 DEF Helps, Repairs, Expected
<1>3. ASSUME NEW i \in Items, Swept(x, p, i) PROVE Swept(x, q, i)
  <2>1. i \notin ItemsOf[x.rel] => q[x.coll][i] = p[x.coll][i] \/ q[x.coll][i] = None
    BY DEF Helps, Expected
  <2> QED BY <1>3, <2>1 DEF Swept
<1>4. AllAgree(p, x.coll, x.rel) => AllAgree(q, x.coll, x.rel)
  BY HelpedAgree
<1> QED BY <1>2, <1>3, <1>4 DEF Repairs

\* So what a job may rely on stays, unless it has been disturbed, ...
LEMMA HelpedWorking ==
  ASSUME NEW p, NEW q, NEW x \in JobStates, Belongs(x), Working(x, p),
         NEW y, Disturbed(x, y),
         Relies(x) /\ y.undisturbed => Helps(p, q, x.coll, x.rel)
  PROVE  Working(y, q)
<1>1. /\ y \in JobStates
      /\ y.pc = x.pc /\ y.coll = x.coll /\ y.rel = x.rel /\ y.todo = x.todo
      /\ y.stale = x.stale /\ y.from = x.from /\ y.agrees = x.agrees
      /\ y.undisturbed => x.undisturbed
  BY DisturbedJob
<1>2. ASSUME Relies(x), y.undisturbed
      PROVE  IF x.coll = Docs THEN Repairs(x, q) ELSE Promotes(x, q)
  <2>1. x.rel \in Releases /\ x.from \in Nat
    BY <1>2, IndexAssumption DEF Relies, IndexTasks, Belongs, JobStates, IndexAssumption
  <2>2. IF x.coll = Docs THEN Repairs(x, p) ELSE Promotes(x, p)
    BY <1>1, <1>2 DEF Working
  <2>3. Promotes(x, p) => Promotes(x, q)
    BY <1>2, <2>1, HelpedAgree DEF Promotes
  <2>4. Repairs(x, p) => Repairs(x, q)
    BY <1>2, <2>1, HelpedRepairs
  <2> QED BY <2>2, <2>3, <2>4
<1>3. Relies(y) => Relies(x)
  BY <1>1 DEF Relies
<1>4. Repairs(x, q) => Repairs(y, q)
  BY <1>1 DEF Repairs, Swept
<1>5. Promotes(x, q) => Promotes(y, q)
  BY <1>1 DEF Promotes
<1>6. y.pc = "failed" /\ y.coll = Docs => ~y.undisturbed
  BY <1>1 DEF Working
<1> QED BY <1>1, <1>2, <1>3, <1>4, <1>5, <1>6 DEF Working

\* ... and what a server may rely on.
LEMMA HelpedSearching ==
  ASSUME NEW p, NEW q, NEW c, NEW x \in ServerStates, Searching(x, p, c),
         NEW y, Disturbed(x, y),
         y.undisturbed /\ (x.pc = "products" \/ x.products) => Helps(p, q, c, x.rel)
  PROVE  Searching(y, q, c)
<1>1. /\ y \in ServerStates
      /\ y.pc = x.pc /\ y.rel = x.rel /\ y.from = x.from /\ y.agrees = x.agrees
      /\ y.products = x.products
      /\ y.undisturbed => x.undisturbed
  BY DisturbedServer
<1>2. x.from \in Nat
  BY IndexAssumption DEF ServerStates, IndexAssumption
<1>3. ASSUME y.undisturbed
      PROVE  /\ x.pc = "products" /\ x.agrees => AgreeBefore(q, c, x.rel, x.from)
             /\ x.products => AllAgree(q, c, x.rel)
  BY <1>1, <1>2, <1>3, HelpedAgree DEF Searching
<1> QED BY <1>1, <1>3 DEF Searching

-----------------------------------------------------------------------------
\* What a job does itself brings on what it may rely on.
LEMMA UpsertOwn ==
  ASSUME IndexTypeOK, Tools, NEW j \in Jobs, Working(job[j], points),
         NEW batch \in (SUBSET Items) \ {{}}, Upsert(j, batch)
  PROVE  Working(job'[j], points')
<1> DEFINE x == job[j]
<1>0. x \in JobStates /\ x.coll \in Collections
  BY DEF IndexTypeOK, JobStates
<1>1. x.rel \in Releases /\ batch \subseteq ItemsOf[x.rel] /\ ItemsOf[x.rel] \subseteq Items
  BY UpsertNext, IndexAssumption DEF IndexAssumption
<1>2. PICK y \in JobStates :
        /\ Disturb(j, y)
        /\ y.coll = x.coll /\ y.rel = x.rel
        /\ y.todo = x.todo \ batch /\ y.from = 1 /\ y.undisturbed = x.undisturbed
        /\ y.pc \in {"write", "list", "check"}
        /\ y.pc = "check" => y.coll # Docs
  BY UpsertNext
<1>3. job'[j] = y
  BY <1>1, <1>2, DisturbStep
<1>4. CASE x.coll # Docs
  BY <1>2, <1>3, <1>4 DEF Working, Relies
<1>5. CASE x.coll = Docs
  <2>1. x.pc = "write"
    BY DEF Upsert
  <2>2. Where(Docs) = Docs
    BY WhereType, IndexAssumption DEF IndexAssumption, Collections
  <2>3. \A i \in Items : points'[Docs][i] = IF i \in batch THEN x.rel ELSE points[Docs][i]
    BY <1>0, <1>5, <2>2 DEF Upsert, IndexTypeOK
  <2>4. ASSUME x.undisturbed
        PROVE  \A i \in ItemsOf[x.rel] \ (x.todo \ batch) : points'[Docs][i] = x.rel
    <3>1. \A i \in ItemsOf[x.rel] \ x.todo : points[Docs][i] = x.rel
      BY <1>5, <2>1, <2>4 DEF Working, Relies, IndexTasks, Repairs
    <3> QED BY <1>1, <2>3, <3>1
  <2>5. \A i \in Items : ~(i < 1)
    BY IndexAssumption DEF IndexAssumption, Items
  <2>6. x.undisturbed => Repairs(y, points')
    BY <1>2, <1>5, <2>4, <2>5 DEF Repairs
  <2> QED BY <1>2, <1>3, <1>5, <2>6 DEF Working
<1> QED BY <1>4, <1>5

LEMMA DeleteOwn ==
  ASSUME IndexTypeOK, Tools, NEW j \in Jobs, Working(job[j], points), DeleteStale(j)
  PROVE  Working(job'[j], points')
<1> DEFINE x == job[j]
<1>0. x \in JobStates /\ x.coll \in Collections
  BY DEF IndexTypeOK, JobStates
<1>1. /\ x.pc = "delete" /\ x.rel \in Releases /\ x.coll = Docs /\ x.todo = {}
      /\ x.stale \cap ItemsOf[x.rel] = {}
  BY DeleteNext DEF Tools, Belongs
<1>2. PICK y \in JobStates :
        /\ Disturb(j, y)
        /\ y.coll = x.coll /\ y.rel = x.rel /\ y.agrees
        /\ y.undisturbed = x.undisturbed /\ y.pc = "check"
  BY DeleteNext
<1>3. job'[j] = y
  BY <1>1, <1>2, DisturbStep
<1>4. \A i \in Items : points'[Docs][i] = IF i \in x.stale THEN None ELSE points[Docs][i]
  BY <1>0, <1>1 DEF DeleteStale, IndexTypeOK
<1>5. ASSUME x.undisturbed PROVE Repairs(y, points')
  <2>1. Repairs(x, points)
    BY <1>1, <1>5 DEF Working, Relies, IndexTasks
  <2>2. /\ \A i \in ItemsOf[x.rel] : points[Docs][i] = x.rel
        /\ \A i \in Items : Swept(x, points, i)
    BY <1>1, <2>1 DEF Repairs
  <2>3. \A i \in Items : points'[Docs][i] = Expected(x.rel)[i]
    BY <1>1, <1>4, <2>2 DEF Swept, Expected
  <2>4. \A i \in ItemsOf[x.rel] : points'[Docs][i] = x.rel
    BY <2>3, IndexAssumption, <1>1 DEF IndexAssumption, Expected
  <2> QED BY <1>1, <1>2, <2>3, <2>4 DEF Repairs, AllAgree
<1> QED BY <1>1, <1>2, <1>3, <1>5 DEF Working

LEMMA ListOwn ==
  ASSUME IndexTypeOK, Tools, NEW j \in Jobs, Working(job[j], points),
         NEW to \in Ends(job[j]), ListPage(j, to)
  PROVE  Working(job'[j], points)
<1> DEFINE x == job[j]
           next == [x EXCEPT !.stale = @ \cup Stale(j, to), !.from = to + 1]
<1>0. x \in JobStates /\ job \in [Jobs -> JobStates]
  BY DEF IndexTypeOK
<1>1. x.pc = "list" /\ x.coll = Docs
  BY DEF ListPage, Tools, Belongs
<1>2. to + 1 \in 1 .. LastItem + 1 /\ x.from \in 1 .. LastItem + 1 /\ to \in Items
  BY <1>0, NextPage DEF JobStates
<1>3. /\ next \in JobStates
      /\ next.pc = "list" /\ next.coll = Docs /\ next.rel = x.rel /\ next.todo = x.todo
      /\ next.stale = x.stale \cup Stale(j, to) /\ next.from = to + 1
      /\ next.undisturbed = x.undisturbed
  BY <1>0, <1>1, <1>2, NextPage DEF JobStates, Stale
<1>4. job'[j] = IF Read(next) THEN [Rewound(next) EXCEPT !.pc = "delete"] ELSE next
  BY <1>0 DEF ListPage
<1> HIDE DEF next
<1>5. ASSUME x.undisturbed, NEW i \in Items, i < to + 1 PROVE Swept(next, points, i)
  <2>1. i \in Nat /\ to \in Nat /\ x.from \in Nat
    BY <1>2, IndexAssumption DEF Items, IndexAssumption
  <2>2. CASE i < x.from
    <3>1. Swept(x, points, i)
      BY <1>1, <1>5, <2>2 DEF Working, Relies, IndexTasks, Repairs
    <3> QED BY <3>1, <1>1, <1>3 DEF Swept
  <2>3. CASE i \in x.from .. to
    BY <2>3, <1>1, <1>3 DEF Swept, Stale
  <2> QED BY <2>1, <2>2, <2>3, <1>5
<1>6. x.undisturbed => \A i \in ItemsOf[x.rel] \ x.todo : points[Docs][i] = x.rel
  BY <1>1 DEF Working, Relies, IndexTasks, Repairs
<1>7. CASE ~Read(next)
  <2>1. x.undisturbed => Repairs(next, points)
    BY <1>3, <1>5, <1>6 DEF Repairs
  <2> QED BY <2>1, <1>3, <1>4, <1>7 DEF Working
<1>8. CASE Read(next)
  <2>1. job'[j] = [Rewound(next) EXCEPT !.pc = "delete"]
    BY <1>4, <1>8
  <2>2. /\ job'[j].pc = "delete" /\ job'[j].coll = Docs /\ job'[j].rel = x.rel
        /\ job'[j].todo = x.todo /\ job'[j].stale = next.stale
        /\ job'[j].undisturbed = x.undisturbed
    BY <1>3, <2>1 DEF Rewound, JobStates
  <2>3. \A i \in Items : i < to + 1
    BY <1>2, <1>3, <1>8, IndexAssumption DEF Read, Items, IndexAssumption
  <2>4. x.undisturbed => \A i \in Items : Swept(job'[j], points, i)
    BY <1>3, <1>5, <2>2, <2>3 DEF Swept
  <2>5. x.undisturbed => Repairs(job'[j], points)
    BY <1>6, <2>2, <2>4 DEF Repairs
  <2> QED BY <2>2, <2>5 DEF Working
<1> QED BY <1>7, <1>8

LEMMA CheckOwn ==
  ASSUME IndexTypeOK, Tools, NEW j \in Jobs, Working(job[j], points),
         NEW to \in Ends(job[j]), CheckPage(j, to)
  PROVE  Working(job'[j], points)
<1> DEFINE x == job[j]
           c == Where(x.coll)
           next == Scanned(x, c, to)
           then == IF next.agrees THEN Passed[next.pc] ELSE Rejected[next.pc]
           last == [Rewound(next) EXCEPT !.pc = then]
<1>0. x \in JobStates /\ job \in [Jobs -> JobStates] /\ Belongs(x) /\ x.coll \in Collections
  BY DEF IndexTypeOK, Tools, JobStates
<1>1. to + 1 \in 1 .. LastItem + 1 /\ x.from \in 1 .. LastItem + 1
  BY <1>0, NextPage DEF JobStates
<1>2. /\ next \in JobStates
      /\ next.pc = x.pc /\ next.coll = x.coll /\ next.rel = x.rel /\ next.todo = x.todo
      /\ next.from = to + 1 /\ next.undisturbed = x.undisturbed
      /\ next.agrees = (x.agrees /\ Agrees(c, x.rel, x.from, to))
  <2>1. (x.agrees /\ Agrees(c, x.rel, x.from, to)) \in BOOLEAN
    BY DEF Agrees
  <2> QED BY <1>0, <1>1, <2>1 DEF Scanned, JobStates
<1>3. x.pc \in {"check", "verify", "measure"}
  BY DEF CheckPage, Passed
<1>4. /\ then \in {"over", "swap", "calibrate", "failed"}
      /\ then = "swap" => x.pc = "verify" /\ next.agrees
      /\ then = "failed" => x.pc = "check" /\ ~next.agrees
  BY <1>2, <1>3 DEF Passed, Rejected
<1>5. job'[j] = IF ~Read(next) THEN next ELSE IF then = "over" THEN Over ELSE last
  BY <1>0 DEF CheckPage
<1> HIDE DEF next, then, c
<1>6. /\ last.pc = then /\ last.coll = x.coll /\ last.rel = x.rel
      /\ last.undisturbed = x.undisturbed
  <2>1. last.pc = then /\ last.coll = next.coll /\ last.rel = next.rel
        /\ last.undisturbed = next.undisturbed
    BY <1>2 DEF Rewound, JobStates
  <2> QED BY <2>1, <1>2
<1> HIDE DEF last
<1>7. x.coll # Active => c = x.coll
  BY <1>0, WhereType DEF c
<1>8. CASE x.pc = "check" /\ x.coll = Docs
  <2>1. x.undisturbed => Repairs(x, points)
    BY <1>8 DEF Working, Relies, IndexTasks
  <2>2. c = Docs
    BY <1>7, <1>8, IndexAssumption DEF IndexAssumption
  <2>3. x.undisturbed => next.agrees
    <3>1. x.undisturbed => AllAgree(points, Docs, x.rel) /\ x.agrees
      BY <1>8, <2>1 DEF Repairs
    <3>2. x.from .. to \subseteq Items
      BY <1>1, NextPage
    <3> QED BY <1>2, <2>2, <3>1, <3>2 DEF AllAgree, Agrees
  <2>4. x.undisturbed => Repairs(next, points)
    BY <1>2, <1>8, <2>1, <2>3 DEF Repairs
  <2>5. Working(next, points)
    BY <1>2, <1>8, <2>4 DEF Working
  <2>6. Working(last, points)
    BY <1>4, <1>6, <1>8, <2>3 DEF Working, Relies, IndexTasks
  <2> QED BY <1>5, <2>5, <2>6 DEF Working, Relies, IndexTasks, Over
<1>9. CASE x.pc = "verify"
  <2>1. x.coll \in Products /\ x.rel \in Releases /\ x.coll # Docs /\ c = x.coll
    BY <1>0, <1>7, <1>9, IndexAssumption DEF Belongs, IndexAssumption
  <2>2. x.undisturbed /\ x.agrees => AgreeBefore(points, c, x.rel, x.from)
    BY <1>9, <2>1 DEF Working, Relies, Promotes
  <2>3. x.undisturbed /\ next.agrees => AgreeBefore(points, c, x.rel, to + 1)
    BY <1>1, <1>2, <2>2, AgreePage
  <2>4. Working(next, points)
    BY <1>2, <1>9, <2>1, <2>3 DEF Working, Promotes
  <2>5. ASSUME Read(next), then = "swap", x.undisturbed PROVE AllAgree(points, c, x.rel)
    <3>1. to + 1 \in Nat /\ to + 1 > LastItem
      BY <1>1, <1>2, <2>5, IndexAssumption DEF Read, IndexAssumption
    <3> QED BY <1>4, <2>3, <2>5, <3>1, AgreeAtEnd
  <2>6. Read(next) => Working(last, points)
    BY <1>4, <1>6, <1>9, <2>1, <2>5 DEF Working, Relies, Promotes
  <2> QED BY <1>5, <2>4, <2>6 DEF Working, Relies, IndexTasks, Over
<1>10. CASE x.pc # "verify" /\ ~(x.pc = "check" /\ x.coll = Docs)
  <2>1. Working(next, points)
    BY <1>2, <1>3, <1>10 DEF Working, Relies, IndexTasks
  <2>2. Working(last, points)
    BY <1>3, <1>4, <1>6, <1>10 DEF Working, Relies, IndexTasks
  <2> QED BY <1>5, <2>1, <2>2 DEF Working, Relies, IndexTasks, Over
<1> QED BY <1>8, <1>9, <1>10

LEMMA BeginOwn ==
  ASSUME IndexTypeOK, NEW j \in Jobs,
         \/ \E c \in Collections, r \in Releases : StartIndex(j, c, r) \/ StartPromote(j, c, r)
         \/ \E r \in Releases : StartCalibrate(j, r)
         \/ SwapAlias(j) \/ WriteBaseline(j) \/ Abort(j)
  PROVE  Working(job'[j], points)
<1>0. job \in [Jobs -> JobStates]
  BY DEF IndexTypeOK
<1>1. ASSUME NEW c \in Collections, NEW r \in Releases, StartIndex(j, c, r)
      PROVE  Working(job'[j], points)
  <2>1. /\ job'[j].pc = "write" /\ job'[j].rel = r /\ job'[j].todo = ItemsOf[r]
        /\ job'[j].coll = c
    BY <1>0, <1>1 DEF StartIndex, Begin, Over
  <2> QED BY <2>1 DEF Working, Relies, IndexTasks, Repairs
<1>2. ASSUME NEW c \in Collections, NEW r \in Releases, StartPromote(j, c, r)
      PROVE  Working(job'[j], points)
  <2>1. job'[j].pc = "verify" /\ job'[j].coll = c /\ job'[j].from = 1 /\ job'[j].rel = r
    BY <1>0, <1>2 DEF StartPromote, Begin, Over
  <2>2. c # Docs
    BY <1>2, IndexAssumption DEF StartPromote, IndexAssumption
  <2>3. Promotes(job'[j], points)
    BY <2>1, AgreeAtStart DEF Promotes
  <2> QED BY <2>1, <2>2, <2>3 DEF Working
<1>3. ASSUME NEW r \in Releases, StartCalibrate(j, r) PROVE Working(job'[j], points)
  <2>1. job'[j].pc = "measure"
    BY <1>0, <1>3 DEF StartCalibrate, Begin, Over
  <2> QED BY <2>1 DEF Working, Relies, IndexTasks
<1>4. SwapAlias(j) \/ WriteBaseline(j) \/ Abort(j) => job'[j].pc = "over"
  BY <1>0 DEF SwapAlias, WriteBaseline, Abort, Over
<1>5. job'[j].pc = "over" => Working(job'[j], points)
  BY DEF Working, Relies, IndexTasks
<1> QED BY <1>1, <1>2, <1>3, <1>4, <1>5

-----------------------------------------------------------------------------
\* A server knows no more than the pages it has read.
LEMMA ServerOwn ==
  ASSUME IndexTypeOK, ServersInv, NEW s \in Servers, ServerStep(s)
  PROVE  /\ server' = [server EXCEPT ![s] = server'[s]] /\ server'[s] \in ServerStates
         /\ Searching(server'[s], points, Where(Active))
         /\ server'[s].products => alias # None
         /\ UNCHANGED <<points, alias, job, promoted>> /\ baseline' = baseline
<1> DEFINE x == server[s]
           c == Where(Active)
           Goal(y) == /\ y \in ServerStates /\ Searching(y, points, c)
                      /\ y.products => alias # None
<1>0. /\ server \in [Servers -> ServerStates] /\ x \in ServerStates
      /\ Searching(x, points, c) /\ (x.products => alias # None)
      /\ x.from \in 1 .. LastItem + 1 /\ 1 \in 1 .. LastItem + 1
      /\ alias # None => c = alias
  BY IndexAssumption DEF IndexTypeOK, ServersInv, ServerStates, IndexAssumption, Where
<1> HIDE DEF c
<1>1. ASSUME NEW r \in Releases, StartServer(s, r) PROVE Goal(server'[s])
  <2> DEFINE y == [Down EXCEPT !.pc = "products", !.rel = r]
  <2>1. /\ y \in ServerStates
        /\ y.pc = "products" /\ y.rel = r /\ y.from = 1 /\ y.products = FALSE
    BY OverTypes DEF Down, ServerStates
  <2>2. server'[s] = y
    BY <1>0, <1>1 DEF StartServer
  <2> HIDE DEF y
  <2> QED BY <2>1, <2>2, AgreeAtStart DEF Searching
<1>2. ASSUME NEW ready \in BOOLEAN, NEW z \in ServerStates,
             z.rel \in Releases, z.undisturbed /\ ready => AllAgree(points, c, z.rel),
             ready => alias # None
      PROVE  Goal(AfterProducts(z, ready))
  <2>1. AfterProducts(z, ready) \in ServerStates
    BY <1>2, AfterTypes
  <2>2. /\ AfterProducts(z, ready).pc \in {"documents", "serving"}
        /\ AfterProducts(z, ready).rel = z.rel
        /\ AfterProducts(z, ready).products = ready
        /\ AfterProducts(z, ready).undisturbed = (z.undisturbed \/ ~ready)
    BY <1>2 DEF AfterProducts, Rewound, ServerStates
  <2>3. AfterProducts(z, ready).undisturbed /\ ready => z.undisturbed
    BY <2>2
  <2> QED BY <1>2, <2>1, <2>2, <2>3 DEF Searching
<1>3. ASSUME NEW to \in Ends(x), ScanProducts(s, to) PROVE Goal(server'[s])
  <2> DEFINE next == Scanned(x, alias, to)
  <2>1. x.pc = "products" /\ x.rel \in Releases /\ alias # None /\ c = alias
    BY <1>0, <1>3 DEF ScanProducts, Searching
  <2>2. to + 1 \in 1 .. LastItem + 1
    BY <1>0, NextPage
  <2>3. (x.agrees /\ Agrees(alias, x.rel, x.from, to)) \in BOOLEAN
    BY DEF Agrees
  <2>4. /\ next \in ServerStates
        /\ next.pc = "products" /\ next.rel = x.rel /\ next.products = x.products
        /\ next.from = to + 1 /\ next.undisturbed = x.undisturbed
        /\ next.agrees = (x.agrees /\ Agrees(alias, x.rel, x.from, to))
    BY <1>0, <2>1, <2>2, <2>3 DEF Scanned, ServerStates
  <2>5. server'[s] = IF Read(next) THEN AfterProducts(next, next.agrees) ELSE next
    BY <1>0, <1>3 DEF ScanProducts
  <2> HIDE DEF next
  <2>6. x.undisturbed /\ next.agrees => AgreeBefore(points, c, x.rel, to + 1)
    <3>1. x.undisturbed /\ x.agrees => AgreeBefore(points, c, x.rel, x.from)
      BY <1>0, <2>1 DEF Searching
    <3> QED BY <1>0, <2>1, <2>4, <3>1, AgreePage
  <2>7. x.undisturbed /\ x.products => AllAgree(points, c, x.rel)
    BY <1>0 DEF Searching
  <2>8. Goal(next)
    BY <1>0, <2>1, <2>4, <2>6, <2>7 DEF Searching
  <2>9. Read(next) => Goal(AfterProducts(next, next.agrees))
    <3> SUFFICES ASSUME Read(next) PROVE Goal(AfterProducts(next, next.agrees))
      OBVIOUS
    <3>1. to + 1 \in Nat /\ to + 1 > LastItem
      BY <2>2, <2>4, IndexAssumption DEF Read, IndexAssumption
    <3>2. next.undisturbed /\ next.agrees => AllAgree(points, c, next.rel)
      BY <2>4, <2>6, <3>1, AgreeAtEnd
    <3>3. next.agrees \in BOOLEAN
      BY <2>4 DEF ServerStates
    <3> QED BY <1>2, <2>1, <2>4, <3>2, <3>3
  <2> QED BY <2>5, <2>8, <2>9
<1>4. NoProducts(s) => Goal(server'[s])
  <2> SUFFICES ASSUME NoProducts(s) PROVE Goal(server'[s])
    OBVIOUS
  <2>1. server'[s] = AfterProducts(x, FALSE) /\ x.pc = "products"
    BY <1>0 DEF NoProducts
  <2>2. x.rel \in Releases
    BY <1>0, <2>1 DEF Searching
  <2> QED BY <1>0, <1>2, <2>1, <2>2
<1>5. ASSUME NEW y \in ServerStates, x.pc \in {"documents", "baseline"},
             y.pc \in {"documents", "baseline", "serving"}, y.rel = x.rel,
             y.products = x.products, y.undisturbed = x.undisturbed
      PROVE  Goal(y)
  BY <1>0, <1>5 DEF Searching
<1>6. ASSUME NEW to \in Ends(x), ScanDocs(s, to) PROVE Goal(server'[s])
  <2> DEFINE next == Scanned(x, Docs, to)
             last == [Rewound(next) EXCEPT !.docs = next.agrees,
                                           !.pc = IF next.agrees THEN "baseline" ELSE "serving"]
  <2>1. to + 1 \in 1 .. LastItem + 1 /\ x.pc = "documents"
    BY <1>0, <1>6, NextPage DEF ScanDocs
  <2>2. (x.agrees /\ Agrees(Docs, x.rel, x.from, to)) \in BOOLEAN
    BY DEF Agrees
  <2>3. /\ next \in ServerStates
        /\ next.pc = x.pc /\ next.rel = x.rel /\ next.products = x.products
        /\ next.undisturbed = x.undisturbed
    BY <1>0, <2>1, <2>2 DEF Scanned, ServerStates
  <2>4. server'[s] = IF Read(next) THEN last ELSE next
    BY <1>0, <1>6 DEF ScanDocs
  <2> HIDE DEF next
  <2>5. /\ last \in ServerStates
        /\ last.pc \in {"baseline", "serving"} /\ last.rel = next.rel
        /\ last.products = next.products /\ last.undisturbed = next.undisturbed
    BY <1>0, <2>3 DEF Rewound, ServerStates
  <2> HIDE DEF last
  <2> QED BY <1>5, <2>1, <2>3, <2>4, <2>5
<1>7. NoDocs(s) => Goal(server'[s])
  <2> SUFFICES ASSUME NoDocs(s) PROVE Goal(server'[s])
    OBVIOUS
  <2> DEFINE y == [Rewound(x) EXCEPT !.pc = "serving"]
  <2>1. /\ y \in ServerStates
        /\ y.pc = "serving" /\ y.rel = x.rel /\ y.products = x.products
        /\ y.undisturbed = x.undisturbed
    BY <1>0 DEF Rewound, ServerStates
  <2>2. server'[s] = y /\ x.pc = "documents"
    BY <1>0 DEF NoDocs
  <2> HIDE DEF y
  <2> QED BY <1>5, <2>1, <2>2
<1>8. LoadBaseline(s) => Goal(server'[s])
  <2> SUFFICES ASSUME LoadBaseline(s) PROVE Goal(server'[s])
    OBVIOUS
  <2> DEFINE b == baseline = x.rel
             y == [x EXCEPT !.pc = "serving", !.baseline = b]
  <2>1. server'[s] = y /\ x.pc = "baseline"
    BY <1>0 DEF LoadBaseline
  <2>2. b \in BOOLEAN
    OBVIOUS
  <2> HIDE DEF b
  <2>3. /\ y \in ServerStates
        /\ y.pc = "serving" /\ y.rel = x.rel /\ y.products = x.products
        /\ y.undisturbed = x.undisturbed
    BY <1>0, <2>2 DEF ServerStates
  <2> HIDE DEF y
  <2> QED BY <1>5, <2>1, <2>3
<1>9. Stop(s) => Goal(server'[s])
  <2>1. Goal(Down)
    BY OverTypes DEF Searching, Down
  <2>2. Stop(s) => server'[s] = Down
    BY <1>0 DEF Stop
  <2> QED BY <2>1, <2>2
<1> HIDE DEF Goal
<1>10. Goal(server'[s])
  BY <1>1, <1>3, <1>4, <1>6, <1>7, <1>8, <1>9 DEF ServerStep
<1>11. /\ server' = [server EXCEPT ![s] = server'[s]]
       /\ UNCHANGED <<points, alias, job, promoted>> /\ baseline' = baseline
  BY <1>0 DEF ServerStep, StartServer, ScanProducts, ScanDocs, NoProducts, NoDocs,
              LoadBaseline, Stop
<1> QED BY <1>10, <1>11 DEF Goal, c

-----------------------------------------------------------------------------
\* A step that writes.
LEMMA WriteStep ==
  ASSUME IndexInv, NEW j \in Jobs,
         (\E batch \in (SUBSET Items) \ {{}} : Upsert(j, batch)) \/ DeleteStale(j)
  PROVE  IndexInv'
<1> DEFINE c == Where(job[j].coll)
<1>0. /\ IndexTypeOK /\ Tools /\ JobsInv /\ ServersInv /\ AliasInv
      /\ job \in [Jobs -> JobStates] /\ server \in [Servers -> ServerStates]
  BY DEF IndexInv, IndexTypeOK
<1>1. /\ points' \in [Collections -> [Items -> Releases \cup {None}]]
      /\ alias' = alias /\ baseline' = baseline
      /\ job[j].rel \in Releases
      /\ \A d \in Collections, r \in Releases :
           (d = c => r = job[j].rel) => Helps(points, points', d, r)
  BY <1>0, Writes DEF Upsert, DeleteStale
<1>2. PICK next \in JobStates :
        /\ Disturb(j, next)
        /\ next.coll = job[j].coll /\ next.rel = job[j].rel
        /\ next.todo \subseteq job[j].todo /\ next.stale \subseteq job[j].stale
        /\ next.from = 1 /\ next.agrees
        /\ next.pc \in {"write", "list", "check"}
        /\ next.pc = "list" => next.todo = {} /\ next.coll = Docs
        /\ next.pc = "check" /\ next.coll = Docs => next.todo = {}
        /\ job[j].pc \in {"write", "delete"}
  <2>1. ASSUME NEW batch \in (SUBSET Items) \ {{}}, Upsert(j, batch)
        PROVE  /\ job[j].pc = "write"
               /\ \E next \in JobStates :
                    /\ Disturb(j, next)
                    /\ next.coll = job[j].coll /\ next.rel = job[j].rel
                    /\ next.todo \subseteq job[j].todo /\ next.stale \subseteq job[j].stale
                    /\ next.from = 1 /\ next.agrees
                    /\ next.pc \in {"write", "list", "check"}
                    /\ next.pc = "list" => next.todo = {} /\ next.coll = Docs
                    /\ next.pc = "check" => next.coll # Docs
    <3>1. job[j].pc = "write"
      BY <2>1 DEF Upsert
    <3> QED BY <1>0, <2>1, <3>1, UpsertNext
  <2>2. ASSUME DeleteStale(j)
        PROVE  /\ job[j].pc = "delete"
               /\ \E next \in JobStates :
                    /\ Disturb(j, next)
                    /\ next.coll = job[j].coll /\ next.rel = job[j].rel
                    /\ next.todo = {} /\ next.stale = {}
                    /\ next.from = 1 /\ next.agrees /\ next.pc = "check"
    BY <1>0, <2>2, DeleteNext
  <2> QED BY <2>1, <2>2
<1>3. /\ job' \in [Jobs -> JobStates] /\ server' \in [Servers -> ServerStates]
      /\ promoted' \in Releases \cup {None}
      /\ job'[j] = next
      /\ \A k \in Jobs \ {j} :
           /\ Disturbed(job[k], job'[k])
           /\ Relies(job[k]) /\ job'[k].undisturbed /\ job[k].coll = c
              => job[k].rel = job[j].rel
      /\ \A s \in Servers :
           /\ Disturbed(server[s], server'[s])
           /\ server'[s].undisturbed /\ Where(Active) = c
              => \/ server[s].rel = job[j].rel
                 \/ server[s].pc # "products" /\ ~server[s].products
      /\ promoted' # None => /\ promoted' = promoted
                             /\ Where(Active) = c => promoted = job[j].rel
  BY <1>0, <1>1, <1>2, DisturbStep
<1> HIDE DEF c
<1>4. IndexTypeOK'
  BY <1>0, <1>1, <1>3 DEF IndexTypeOK
<1>5. Tools'
  <2>1. Belongs(job[j]) /\ Belongs(next)
    <3>1. Belongs(job[j])
      BY <1>0 DEF Tools
    <3> QED BY <3>1, <1>1, <1>2 DEF Belongs, IndexTasks
  <2>2. ASSUME NEW k \in Jobs \ {j} PROVE Belongs(job'[k])
    <3>1. Belongs(job[k]) /\ job[k] \in JobStates /\ Disturbed(job[k], job'[k])
      BY <1>0, <1>3 DEF Tools
    <3>2. /\ job'[k].pc = job[k].pc /\ job'[k].coll = job[k].coll /\ job'[k].rel = job[k].rel
          /\ job'[k].todo = job[k].todo /\ job'[k].stale = job[k].stale
          /\ job'[k].from = job[k].from /\ job'[k].agrees = job[k].agrees
      BY <3>1, DisturbedJob
    <3> QED BY <3>1, <3>2 DEF Belongs
  <2> QED BY <1>3, <2>1, <2>2 DEF Tools
<1>6. JobsInv'
  <2>1. Working(job'[j], points')
    BY <1>0, UpsertOwn, DeleteOwn DEF JobsInv
  <2>2. ASSUME NEW k \in Jobs \ {j} PROVE Working(job'[k], points')
    <3>1. /\ job[k] \in JobStates /\ job[k].coll \in Collections
          /\ Belongs(job[k]) /\ Working(job[k], points)
      BY <1>0 DEF Tools, JobsInv, JobStates
    <3>2. Relies(job[k]) => job[k].rel \in Releases
      BY <3>1 DEF Belongs, Relies, IndexTasks
    <3>3. Relies(job[k]) /\ job'[k].undisturbed
          => Helps(points, points', job[k].coll, job[k].rel)
      BY <1>1, <1>3, <3>1, <3>2
    <3> QED BY <1>3, <3>1, <3>3, HelpedWorking
  <2> QED BY <2>1, <2>2 DEF JobsInv
<1>7. Where(Active) \in Collections /\ (alias # None => Where(Active) = alias)
  BY <1>0, WhereType DEF Collections
<1>8. ServersInv'
  <2>1. Where(Active)' = Where(Active)
    BY <1>1 DEF Where
  <2>2. ASSUME NEW s \in Servers
        PROVE  Searching(server'[s], points', Where(Active)) /\ (server'[s].products => alias # None)
    <3>1. /\ server[s] \in ServerStates /\ Searching(server[s], points, Where(Active))
          /\ server[s].products => alias # None
          /\ Disturbed(server[s], server'[s])
      BY <1>0, <1>3 DEF ServersInv
    <3>2. server[s].pc = "products" \/ server[s].products => server[s].rel \in Releases
      BY <3>1 DEF Searching
    <3>3. server'[s].undisturbed /\ (server[s].pc = "products" \/ server[s].products)
          => Helps(points, points', Where(Active), server[s].rel)
      BY <1>1, <1>3, <1>7, <3>2
    <3>4. Searching(server'[s], points', Where(Active))
      BY <3>1, <3>3, HelpedSearching
    <3>5. server'[s].products = server[s].products
      BY <3>1, DisturbedServer
    <3> QED BY <3>1, <3>4, <3>5
  <2> QED BY <1>1, <2>1, <2>2 DEF ServersInv
<1>9. AliasInv'
  <2> SUFFICES ASSUME promoted' # None
               PROVE  alias # None /\ AllAgree(points', alias, promoted)
    BY <1>1, <1>3 DEF AliasInv, AllAgree, Expected
  <2>1. promoted # None /\ promoted \in Releases /\ promoted' = promoted
    BY <1>0, <1>3 DEF IndexTypeOK
  <2>2. alias # None /\ AllAgree(points, alias, promoted)
    BY <1>0, <2>1 DEF AliasInv
  <2>3. Helps(points, points', alias, promoted)
    BY <1>1, <1>3, <1>7, <2>1, <2>2
  <2> QED BY <2>2, <2>3, HelpedAgree
<1> QED BY <1>4, <1>5, <1>6, <1>8, <1>9 DEF IndexInv

\* The swap: a promotion that nobody disturbed finds every item in place, and
\* the servers of its release with it.
LEMMA SwapStep ==
  ASSUME IndexInv, NEW j \in Jobs, SwapAlias(j)
  PROVE  ServersInv' /\ AliasInv' /\ server' \in [Servers -> ServerStates]
         /\ alias' \in Products /\ promoted' \in Releases \cup {None}
<1> DEFINE r == IF job[j].undisturbed THEN job[j].rel ELSE None
           c == job[j].coll
<1>0. /\ IndexTypeOK /\ ServersInv /\ server \in [Servers -> ServerStates]
      /\ Belongs(job[j]) /\ Working(job[j], points) /\ job[j].pc = "swap"
  BY DEF IndexInv, IndexTypeOK, Tools, JobsInv, SwapAlias
<1>1. /\ c \in Products /\ c # None /\ c # Docs
      /\ job[j].rel \in Releases /\ None \notin Releases
  BY <1>0, IndexAssumption DEF Belongs, IndexAssumption, Collections
<1>2. r # None => AllAgree(points, c, r) /\ r \in Releases
  BY <1>0, <1>1 DEF Working, Relies, Promotes
<1>3. /\ alias' = c /\ points' = points /\ promoted' = r
      /\ server' = [s \in Servers |->
           [server[s] EXCEPT !.undisturbed = @ /\ ~ConcernsServer(s, Where(Active), r)]]
  BY DEF SwapAlias
<1> HIDE DEF r, c
<1>4. Where(Active)' = c
  BY <1>1, <1>3 DEF Where
<1>5. ASSUME NEW s \in Servers
      PROVE  server'[s] \in ServerStates /\ Searching(server'[s], points, c)
  <2>1. server'[s] = [server[s] EXCEPT !.undisturbed = @ /\ ~ConcernsServer(s, Where(Active), r)]
    BY <1>3
  <2>2. (~ConcernsServer(s, Where(Active), r)) \in BOOLEAN
    BY DEF ConcernsServer
  <2>3. Disturbed(server[s], server'[s]) /\ server[s] \in ServerStates
    BY <1>0, <2>1, <2>2 DEF Disturbed
  <2>4. /\ server'[s] \in ServerStates
        /\ server'[s].pc = server[s].pc /\ server'[s].rel = server[s].rel
        /\ server'[s].products = server[s].products
    BY <2>3, DisturbedServer
  <2>5. server'[s].undisturbed = (server[s].undisturbed /\ ~ConcernsServer(s, Where(Active), r))
    BY <2>1, <2>3 DEF ServerStates
  <2>6. server[s].pc # "down" \/ server[s].products => server[s].rel \in Releases
    BY <1>0 DEF ServersInv, Searching
  <2>7. server'[s].undisturbed /\ (server[s].pc = "products" \/ server[s].products)
        => server[s].rel = r
    BY <2>5 DEF ConcernsServer
  <2>8. server'[s].undisturbed /\ (server[s].pc = "products" \/ server[s].products)
        => AllAgree(points, c, server[s].rel)
    BY <1>1, <1>2, <2>6, <2>7
  <2>9. AllAgree(points, c, server[s].rel) => AgreeBefore(points, c, server[s].rel, server'[s].from)
    BY DEF AllAgree, AgreeBefore
  <2> QED BY <2>4, <2>6, <2>8, <2>9 DEF Searching
<1>6. server' \in [Servers -> ServerStates]
  BY <1>3, <1>5
<1>7. ServersInv'
  BY <1>1, <1>3, <1>4, <1>5 DEF ServersInv
<1>8. AliasInv'
  BY <1>1, <1>2, <1>3 DEF AliasInv, AllAgree, Expected
<1> QED BY <1>1, <1>2, <1>3, <1>6, <1>7, <1>8

LEMMA IndexStep == IndexInv /\ [NextIndex]_indexVars => IndexInv'
<1> SUFFICES ASSUME IndexInv, [NextIndex]_indexVars PROVE IndexInv'
  OBVIOUS
<1>0. /\ IndexTypeOK /\ Tools /\ JobsInv /\ ServersInv /\ AliasInv
      /\ job \in [Jobs -> JobStates] /\ server \in [Servers -> ServerStates]
  BY DEF IndexInv, IndexTypeOK
<1>1. ASSUME NEW j \in Jobs, JobStep(j),
             ~(\E batch \in (SUBSET Items) \ {{}} : Upsert(j, batch)), ~DeleteStale(j)
      PROVE  IndexInv'
  <2>1. /\ job'[j] \in JobStates /\ Belongs(job'[j])
        /\ job' = [job EXCEPT ![j] = job'[j]]
        /\ points' = points
        /\ \/ server' = server /\ alias' = alias /\ promoted' = promoted
           \/ SwapAlias(j)
           \/ server' = server /\ promoted' = promoted /\ alias = None /\ alias' = Active
    BY <1>0, <1>1, QuietStep
  <2>2. Tools' /\ job' \in [Jobs -> JobStates]
    BY <1>0, <2>1 DEF Tools
  <2>3. Working(job'[j], points)
    <3>1. Working(job[j], points)
      BY <1>0 DEF JobsInv
    <3> QED BY <1>0, <1>1, <3>1, BeginOwn, ListOwn, CheckOwn DEF JobStep
  <2>4. JobsInv'
    BY <1>0, <2>1, <2>3 DEF JobsInv
  <2>5. baseline' \in Releases \cup {None}
    <3>1. job[j].rel \in Releases \cup {None}
      BY <1>0 DEF JobStates
    <3> QED BY <1>0, <1>1, <3>1
        DEF JobStep, StartIndex, StartPromote, StartCalibrate, ListPage, CheckPage,
            SwapAlias, WriteBaseline, Abort, IndexTypeOK
  <2>6. /\ ServersInv' /\ AliasInv' /\ server' \in [Servers -> ServerStates]
        /\ alias' \in Products \cup {Active, None} /\ promoted' \in Releases \cup {None}
    <3> DEFINE Goal ==
          /\ ServersInv' /\ AliasInv' /\ server' \in [Servers -> ServerStates]
          /\ alias' \in Products \cup {Active, None} /\ promoted' \in Releases \cup {None}
    <3>1. ASSUME SwapAlias(j) PROVE Goal
      <4>1. /\ ServersInv' /\ AliasInv' /\ server' \in [Servers -> ServerStates]
            /\ alias' \in Products /\ promoted' \in Releases \cup {None}
        BY <3>1, SwapStep
      <4> QED BY <4>1
    <3>2. ASSUME server' = server, promoted' = promoted,
                 alias' = alias \/ (alias = None /\ alias' = Active)
          PROVE  Goal
      <4>1. Where(Active)' = Where(Active)
        BY <3>2, IndexAssumption DEF Where
      <4>2. Active # None
        BY IndexAssumption DEF IndexAssumption, Collections
      <4>3. ServersInv'
        BY <1>0, <2>1, <3>2, <4>1, <4>2 DEF ServersInv
      <4>4. AliasInv'
        BY <1>0, <2>1, <3>2 DEF AliasInv, AllAgree, Expected
      <4> QED BY <1>0, <3>2, <4>3, <4>4 DEF IndexTypeOK
    <3> HIDE DEF Goal
    <3>3. \/ SwapAlias(j)
          \/ /\ server' = server /\ promoted' = promoted
             /\ alias' = alias \/ (alias = None /\ alias' = Active)
      BY <2>1
    <3>4. Goal
      BY <3>1, <3>2, <3>3
    <3> QED BY <3>4 DEF Goal
  <2>7. IndexTypeOK'
    BY <1>0, <2>1, <2>2, <2>5, <2>6 DEF IndexTypeOK
  <2> QED BY <2>2, <2>4, <2>6, <2>7 DEF IndexInv
<1>2. ASSUME NEW s \in Servers, ServerStep(s) PROVE IndexInv'
  <2>1. /\ server' = [server EXCEPT ![s] = server'[s]] /\ server'[s] \in ServerStates
        /\ Searching(server'[s], points, Where(Active))
        /\ server'[s].products => alias # None
        /\ points' = points /\ alias' = alias /\ job' = job /\ promoted' = promoted
        /\ baseline' = baseline
    BY <1>0, <1>2, ServerOwn
  <2>2. Where(Active)' = Where(Active)
    BY <2>1 DEF Where
  <2>3. ServersInv'
    BY <1>0, <2>1, <2>2 DEF ServersInv
  <2>4. IndexTypeOK'
    BY <1>0, <2>1 DEF IndexTypeOK
  <2>5. Tools' /\ JobsInv' /\ AliasInv'
    BY <1>0, <2>1 DEF Tools, JobsInv, AliasInv, AllAgree, Expected
  <2> QED BY <2>3, <2>4, <2>5 DEF IndexInv
<1>3. CASE UNCHANGED indexVars
  <2>1. /\ points' = points /\ alias' = alias /\ job' = job /\ promoted' = promoted
        /\ server' = server /\ baseline' = baseline
    BY <1>3 DEF indexVars
  <2>2. Where(Active)' = Where(Active)
    BY <2>1 DEF Where
  <2> QED BY <1>0, <2>1, <2>2
      DEF IndexInv, IndexTypeOK, Tools, JobsInv, ServersInv, AliasInv, AllAgree, Expected
<1> QED BY <1>1, <1>2, <1>3, WriteStep DEF NextIndex

-----------------------------------------------------------------------------
\* Collections, alias, baseline, tools and servers keep their types, for any
\* number of releases, jobs and servers.
THEOREM IndexTypeCorrect == IndexSpec => []IndexTypeOK
<1>1. IndexInv => IndexTypeOK
  BY DEF IndexInv
<1> QED BY <1>1, InitIndexInv, IndexStep, PTL DEF IndexSpec

\* The active alias names a complete collection of the release promoted until a
\* job for another release writes in it, although promote checks page by page
\* and swaps later.
THEOREM AliasCorrect == IndexSpec => []AliasComplete
<1>1. ASSUME IndexInv PROVE AliasComplete
  <2> SUFFICES ASSUME promoted # None PROVE Complete(alias, promoted)
    BY DEF AliasComplete
  <2>1. alias # None /\ AllAgree(points, alias, promoted)
    BY <1>1 DEF IndexInv, AliasInv
  <2>2. IndexTypeOK /\ alias \in Collections /\ promoted \in Releases
    BY <1>1, <2>1 DEF IndexInv, IndexTypeOK, Collections
  <2> QED BY <2>1, <2>2, CompleteIfAgree
<1> QED BY <1>1, InitIndexInv, IndexStep, PTL DEF IndexSpec

\* A server that enabled product search has a complete collection of its own
\* release under the active name, however its page-by-page check interleaved
\* with jobs for that release and with promotions, until a job or a promotion
\* for another one comes in.
THEOREM ReadyCorrect == IndexSpec => []ReadyBacked
<1>1. ASSUME IndexInv PROVE ReadyBacked
  <2> SUFFICES ASSUME NEW s \in Servers, server[s].products, server[s].undisturbed
               PROVE  Complete(alias, server[s].rel)
    BY DEF ReadyBacked
  <2>1. /\ alias # None /\ Searching(server[s], points, Where(Active))
        /\ IndexTypeOK
    BY <1>1 DEF IndexInv, ServersInv
  <2>2. alias \in Collections /\ Where(Active) = alias
    BY <2>1 DEF IndexTypeOK, Collections, Where
  <2>3. server[s].rel \in Releases /\ AllAgree(points, alias, server[s].rel)
    BY <2>1, <2>2 DEF Searching
  <2> QED BY <2>1, <2>2, <2>3, CompleteIfAgree
<1> QED BY <1>1, InitIndexInv, IndexStep, PTL DEF IndexSpec

\* Indexing the documents again repairs what an earlier job left when it died:
\* a job in whose collection no job for another release writes or sweeps never
\* fails its own check, whatever the collection held before and however many
\* jobs of its release run side by side.
THEOREM RerunCorrect == IndexSpec => []RerunRepairs
<1>1. IndexInv => RerunRepairs
  BY DEF IndexInv, JobsInv, Working, RerunRepairs
<1> QED BY <1>1, InitIndexInv, IndexStep, PTL DEF IndexSpec
=============================================================================
