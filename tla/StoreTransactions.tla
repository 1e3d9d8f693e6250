------------------------- MODULE StoreTransactions --------------------------
(***************************************************************************)
(* The transactions of app/db/repositories.py under READ COMMITTED, with   *)
(* the row lock that SELECT ... FOR UPDATE takes on the session row.  Two  *)
(* requests for one session may come from two server processes, so nothing *)
(* but the database keeps their transactions apart: this module has no     *)
(* in-process lock.                                                        *)
(*                                                                         *)
(* Each request follows the order routes_chat.py and runtime.py call the   *)
(* repository in: start_run, some store_tool_exchange, complete_run, and   *)
(* fail_run after an error of a transaction that follows start_run.        *)
(***************************************************************************)
EXTENDS Conversation

CONSTANT MaxExchanges   \* the tool budget of a run

ASSUME MaxExchangesAssumption == MaxExchanges \in Nat

VARIABLES
  status, context, runStatus,  \* committed rows
  rows,      \* rows[s]: committed chat_messages of s, by sequence_no
  lapsed,    \* lapsed[s]: the clock has passed expires_at
  rowLock,   \* rowLock[s]: the transaction that holds the session row
  op,        \* op[r]: the repository call request r is in or will make next
  step,      \* step[r]: how far that call's transaction is
  late,      \* late[r]: the session had lapsed when start_run read the clock
  snapshot,  \* snapshot[r]: the context start_run returned
  nextNo,    \* nextNo[r]: the sequence number the open transaction computed
  exchanges  \* exchanges[r]: tool exchanges stored so far

store    == <<status, context, runStatus, rows>>
requests == <<op, step, late, snapshot, nextNo, exchanges>>
vars     == <<store, lapsed, rowLock, requests>>

Ops   == {"get", "start", "turn", "exchange", "complete", "fail", "over"}
Steps == {"idle", "waiting", "locked", "checked", "numbered"}

\* The steps in which a transaction holds the session row.
Holding == {"locked", "checked", "numbered"}

Init ==
  /\ status    = [s \in Sessions |-> "none"]
  /\ context   = [s \in Sessions |-> NoContext]
  /\ runStatus = [r \in Runs |-> "none"]
  /\ rows      = [s \in Sessions |-> <<>>]
  /\ lapsed    = [s \in Sessions |-> FALSE]
  /\ rowLock   = [s \in Sessions |-> NoRun]
  /\ op        = [r \in Runs |-> "get"]
  /\ step      = [r \in Runs |-> "idle"]
  /\ late      = [r \in Runs |-> FALSE]
  /\ snapshot  = [r \in Runs |-> NoContext]
  /\ nextNo    = [r \in Runs |-> 0]
  /\ exchanges = [r \in Runs |-> 0]

\* _next_sequence: coalesce(max(sequence_no), 0) + 1 over the committed rows.
NextNumber(log) ==
  LET used == DOMAIN log IN
  IF used = {} THEN 1 ELSE 1 + CHOOSE n \in used : \A m \in used : m <= n

NextSequence(s) == NextNumber(rows[s])

\* The message rows inserted from sequence number n on.
Inserted(log, n, entries) ==
  [k \in DOMAIN log \cup {n + i - 1 : i \in DOMAIN entries} |->
     IF k \in DOMAIN log THEN log[k] ELSE entries[k - n + 1]]

\* The unique index uq_chat_messages_session_sequence.
Fresh(log, n, entries) ==
  \A i \in DOMAIN entries : n + i - 1 \notin DOMAIN log

\* The rows the call of r inserts.
NewEntries(r) ==
  CASE op[r] = "start"    -> <<Entry(r, "user")>>
    [] op[r] = "exchange" -> <<Entry(r, "call"), Entry(r, "tool")>>
    [] op[r] = "complete" -> <<Entry(r, "answer")>>

-----------------------------------------------------------------------------
CreateSession(s) ==
  /\ status[s] = "none"
  /\ status'  = [status EXCEPT ![s] = "active"]
  /\ context' = [context EXCEPT ![s] = FreshContext]
  /\ UNCHANGED <<runStatus, rows, lapsed, rowLock, requests>>

Lapse(s) ==
  /\ status[s] # "none"
  /\ ~lapsed[s]
  /\ lapsed' = [lapsed EXCEPT ![s] = TRUE]
  /\ UNCHANGED <<store, rowLock, requests>>

Expired(s) ==
  /\ status'  = [status EXCEPT ![s] = "expired"]
  /\ context' = [context EXCEPT ![s] = NoContext]
  /\ UNCHANGED <<runStatus, rows>>

\* The periodic UPDATE over lapsed sessions; an UPDATE waits for row locks.
Scrub(s) ==
  /\ lapsed[s]
  /\ rowLock[s] = NoRun
  /\ status[s] # "expired" \/ context[s] # NoContext
  /\ Expired(s)
  /\ UNCHANGED <<lapsed, rowLock, requests>>

\* start_run's preflight, get_session in a transaction of its own: an active
\* session that has lapsed is expired and scrubbed there, and refused.
Preflight(r) ==
  LET s == SessionOf[r] IN
  /\ op[r] = "get"
  /\ \/ /\ status[s] = "active" /\ ~lapsed[s]
        /\ op' = [op EXCEPT ![r] = "start"]
        /\ UNCHANGED store
     \/ /\ status[s] = "active" /\ lapsed[s]
        /\ rowLock[s] = NoRun
        /\ op' = [op EXCEPT ![r] = "over"]
        /\ Expired(s)
     \/ /\ status[s] # "active"
        /\ op' = [op EXCEPT ![r] = "over"]
        /\ UNCHANGED store
  /\ UNCHANGED <<lapsed, rowLock, step, late, snapshot, nextNo, exchanges>>

\* start_run reads its clock before its write transaction begins, so before
\* it waits for the row.
ReadClock(r) ==
  /\ op[r] = "start" /\ step[r] = "idle"
  /\ late' = [late EXCEPT ![r] = lapsed[SessionOf[r]]]
  /\ step' = [step EXCEPT ![r] = "waiting"]
  /\ UNCHANGED <<store, lapsed, rowLock, op, snapshot, nextNo, exchanges>>

\* The agent loop calls store_tool_exchange or complete_run next.
Call(r, next) ==
  /\ op[r] = "turn"
  /\ next = "exchange" => exchanges[r] < MaxExchanges
  /\ op'   = [op EXCEPT ![r] = next]
  /\ step' = [step EXCEPT ![r] = "waiting"]
  /\ UNCHANGED <<store, lapsed, rowLock, late, snapshot, nextNo, exchanges>>

\* Mutant: a plain SELECT, which takes no row lock.
SelectRow(r) ==
  /\ step[r] = "waiting"
  /\ step' = [step EXCEPT ![r] = "locked"]
  /\ UNCHANGED <<store, lapsed, rowLock, op, late, snapshot, nextNo, exchanges>>

\* SELECT ... FOR UPDATE on the session row.
LockRow(r) ==
  /\ step[r] = "waiting"
  /\ rowLock[SessionOf[r]] = NoRun
  /\ rowLock' = [rowLock EXCEPT ![SessionOf[r]] = r]
  /\ step'    = [step EXCEPT ![r] = "locked"]
  /\ UNCHANGED <<store, lapsed, op, late, snapshot, nextNo, exchanges>>

Running(s) == {q \in InSession(s) : runStatus[q] = "running"}

\* Mutant: running runs are not counted.
RefusedWhenExpired(r) ==
  /\ op[r] = "start"
  /\ late[r] \/ status[SessionOf[r]] # "active"

\* start_run refuses a lapsed or expired session and a session with a
\* running run; the other calls check nothing.
Refused(r) ==
  /\ op[r] = "start"
  /\ \/ late[r]
     \/ status[SessionOf[r]] # "active"
     \/ Running(SessionOf[r]) # {}

Check(r) ==
  /\ step[r] = "locked"
  /\ ~Refused(r)
  /\ step' = [step EXCEPT ![r] = "checked"]
  /\ UNCHANGED <<store, lapsed, rowLock, op, late, snapshot, nextNo, exchanges>>

NumberRows(r) ==
  /\ step[r] = "checked"
  /\ nextNo' = [nextNo EXCEPT ![r] = NextSequence(SessionOf[r])]
  /\ step'   = [step EXCEPT ![r] = "numbered"]
  /\ UNCHANGED <<store, lapsed, rowLock, op, late, snapshot, exchanges>>

\* The transaction ends and its row lock, if it had it, is released.
EndTransaction(r, nextOp) ==
  /\ rowLock' = [rowLock EXCEPT ![SessionOf[r]] = IF @ = r THEN NoRun ELSE @]
  /\ op'      = [op EXCEPT ![r] = nextOp]
  /\ step'    = [step EXCEPT ![r] = "idle"]
  /\ UNCHANGED <<lapsed, late, nextNo>>

InsertRows(r) ==
  LET s == SessionOf[r] IN
  /\ step[r] = "numbered"
  /\ Fresh(rows[s], nextNo[r], NewEntries(r))
  /\ rows' = [rows EXCEPT ![s] = Inserted(@, nextNo[r], NewEntries(r))]

CommitStart(r) ==
  /\ op[r] = "start"
  /\ InsertRows(r)
  /\ runStatus' = [runStatus EXCEPT ![r] = "running"]
  /\ snapshot'  = [snapshot EXCEPT ![r] = context[SessionOf[r]]]
  /\ EndTransaction(r, "turn")
  /\ UNCHANGED <<status, context, exchanges>>

CommitExchange(r) ==
  /\ op[r] = "exchange"
  /\ InsertRows(r)
  /\ exchanges' = [exchanges EXCEPT ![r] = @ + 1]
  /\ EndTransaction(r, "turn")
  /\ UNCHANGED <<status, context, runStatus, snapshot>>

\* Mutant: the new context is built on the one start_run returned.
CommitCompleteStale(r, memory, products) ==
  /\ op[r] = "complete"
  /\ InsertRows(r)
  /\ runStatus' = [runStatus EXCEPT ![r] = "completed"]
  /\ context'   = [context EXCEPT ![SessionOf[r]] =
                     WithMemory(snapshot[r], memory, products)]
  /\ EndTransaction(r, "over")
  /\ UNCHANGED <<status, snapshot, exchanges>>

\* complete_run looks neither at the session's status nor at the run's.
CommitComplete(r, memory, products) ==
  /\ op[r] = "complete"
  /\ InsertRows(r)
  /\ runStatus' = [runStatus EXCEPT ![r] = "completed"]
  /\ context'   = [context EXCEPT ![SessionOf[r]] =
                     WithMemory(@, memory, products)]
  /\ EndTransaction(r, "over")
  /\ UNCHANGED <<status, snapshot, exchanges>>

Commit(r) ==
  \/ CommitStart(r)
  \/ CommitExchange(r)
  \/ \E memory \in Successors(MemoryIn(snapshot[r]), r), products \in {r, NoRun} :
       CommitComplete(r, memory, products)

\* A refusal, a database error or a violated unique index rolls back.  An
\* error of start_run reaches the route, which records nothing; a later one
\* reaches the runtime, which calls fail_run.
Rollback(r) ==
  /\ step[r] # "idle"
  /\ EndTransaction(r, IF op[r] = "start" THEN "over" ELSE "fail")
  /\ UNCHANGED <<store, snapshot, exchanges>>

\* A provider error between two transactions.
Provider(r) ==
  /\ op[r] = "turn"
  /\ op' = [op EXCEPT ![r] = "fail"]
  /\ UNCHANGED <<store, lapsed, rowLock, step, late, snapshot, nextNo, exchanges>>

\* fail_run takes no lock on the session; its own failure is swallowed.
MarkFailed(r) ==
  /\ op[r] = "fail"
  /\ op' = [op EXCEPT ![r] = "over"]
  /\ \/ runStatus' = [runStatus EXCEPT ![r] = "failed"]
     \/ UNCHANGED runStatus
  /\ UNCHANGED <<status, context, rows, lapsed, rowLock, step, late, snapshot,
                 nextNo, exchanges>>

Next ==
  \/ \E s \in Sessions : CreateSession(s) \/ Lapse(s) \/ Scrub(s)
  \/ \E r \in Runs :
       \/ Preflight(r)
       \/ ReadClock(r)
       \/ \E next \in {"exchange", "complete"} : Call(r, next)
       \/ LockRow(r)
       \/ Check(r)
       \/ NumberRows(r)
       \/ Commit(r)
       \/ Rollback(r)
       \/ Provider(r)
       \/ MarkFailed(r)

Spec == Init /\ [][Next]_vars

-----------------------------------------------------------------------------
(***************************************************************************)
(* Properties                                                              *)
(***************************************************************************)

TypeOK ==
  /\ status    \in [Sessions -> SessionStatus]
  /\ context   \in [Sessions -> Contexts \cup {NoContext}]
  /\ runStatus \in [Runs -> RunStatus]
  /\ rows = [s \in Sessions |-> rows[s]]
  /\ \A s \in Sessions : rows[s] \in [DOMAIN rows[s] -> Entries]
  /\ lapsed    \in [Sessions -> BOOLEAN]
  /\ rowLock   \in [Sessions -> Runs \cup {NoRun}]
  /\ op        \in [Runs -> Ops]
  /\ step      \in [Runs -> Steps]
  /\ late      \in [Runs -> BOOLEAN]
  /\ snapshot  \in [Runs -> Contexts \cup {NoContext}]
  /\ nextNo    \in [Runs -> Nat]
  /\ exchanges \in [Runs -> 0 .. MaxExchanges]

\* At most one run of a session is running, although start_run only counts
\* committed rows and then inserts (the database-level active-run check).
OneRunning ==
  \A q, r \in Runs :
    /\ SessionOf[q] = SessionOf[r]
    /\ runStatus[q] = "running"
    /\ runStatus[r] = "running"
    => q = r

\* The sequence numbers of a session are 1 .. n without a gap, and a number
\* a transaction computed is still the next one when it inserts: no insert
\* meets the unique index.
DenseSequence ==
  /\ \A s \in Sessions : DOMAIN rows[s] = 1 .. NextSequence(s) - 1
  /\ \A r \in Runs :
       step[r] = "numbered" => nextNo[r] = NextSequence(SessionOf[r])

\* The messages of a run stand together in its session's log: no turn is
\* interleaved with another.
TurnsContiguous ==
  \A s \in Sessions : \A i, j \in DOMAIN rows[s] :
    rows[s][i].run = rows[s][j].run =>
      \A k \in i .. j : rows[s][k].run = rows[s][i].run

\* While a run is open its snapshot is the session's context, unless the
\* session lapsed and was scrubbed meanwhile: what complete_run writes over
\* is what the run read (no memory update is lost).
SnapshotCurrent ==
  \A r \in Runs :
    op[r] \in {"turn", "exchange", "complete"} =>
      \/ context[SessionOf[r]] = snapshot[r]
      \/ context[SessionOf[r]] = NoContext /\ lapsed[SessionOf[r]]

-----------------------------------------------------------------------------
(***************************************************************************)
(* The inductive invariant the proofs use                                  *)
(***************************************************************************)

\* A request and its run move through their lives together, and only a
\* session that exists lapses.
Phases ==
  /\ \A s \in Sessions : lapsed[s] => status[s] # "none"
  /\ \A r \in Runs :
       /\ op[r] \in {"get", "start"} => runStatus[r] = "none"
       /\ op[r] \in {"turn", "exchange", "complete", "fail"} =>
            runStatus[r] = "running"
       /\ op[r] \in {"start", "turn", "exchange", "complete"} =>
            status[SessionOf[r]] # "none"
       /\ step[r] # "idle" => op[r] \in {"start", "exchange", "complete"}
       /\ op[r] = "exchange" => exchanges[r] < MaxExchanges

\* A transaction past its SELECT ... FOR UPDATE holds the row.
Locks == \A r \in Runs : step[r] \in Holding => rowLock[SessionOf[r]] = r

\* What start_run checked under the lock stays true until it commits.
Admitted ==
  \A r \in Runs : step[r] \in {"checked", "numbered"} => ~Refused(r)

Logs == \A s \in Sessions : rows[s] \in Seq(Entries)

IndInv ==
  /\ TypeOK
  /\ Phases
  /\ Locks
  /\ Admitted
  /\ Logs
  /\ OneRunning
  /\ DenseSequence
  /\ SnapshotCurrent

-----------------------------------------------------------------------------
Store == INSTANCE ConversationStore WITH messages <- rows

\* The transactions implement the serial conversation store.
ImplementsStore == Store!Spec
=============================================================================
