---------------------------- MODULE ChatService -----------------------------
(***************************************************************************)
(* The chat endpoint end to end: requests arrive at server processes, take *)
(* the per-session lock of their process (app/agent/locks.py), run their   *)
(* turn against the shared database (app/api/routes_chat.py,               *)
(* app/agent/runtime.py, app/db/repositories.py) and answer.  Sessions     *)
(* lapse, the background scrubber of every process runs beside the         *)
(* requests (app/main.py), processes crash and restart, and a database     *)
(* call may fail before or after its commit.                               *)
(*                                                                         *)
(* Each repository call is one step here: StoreTransactions shows that the *)
(* row lock makes it so.  The agent loop between two calls is AgentLoop's  *)
(* subject; here it stores up to MaxExchanges tool exchanges and then      *)
(* completes or fails.                                                     *)
(***************************************************************************)
EXTENDS Conversation, FiniteSets

CONSTANTS
  Workers,       \* server processes
  WorkerOf,      \* WorkerOf[r]: the process that serves request r
  MaxExchanges,  \* the tool budget of a run
  HistoryLimit,  \* HISTORY_MESSAGE_LIMIT
  Faults         \* the faults that may happen

ASSUME ServiceAssumption ==
  /\ WorkerOf \in [Runs -> Workers]
  /\ MaxExchanges \in Nat
  /\ HistoryLimit \in Nat \ {0}
  /\ Faults \subseteq {"crash", "database", "lostAck", "provider"}

VARIABLES
  status, context, runStatus, messages,  \* the database
  lapsed,    \* lapsed[s]: the clock has passed expires_at
  up,        \* the processes that are running
  held,      \* held[w]: the sessions whose lock in process w is taken
  pc,        \* pc[r]: where request r is
  late,      \* late[r]: start_run's clock reading was past expires_at
  snapshot,  \* snapshot[r]: the session context start_run returned
  history,   \* history[r]: the messages get_final_history returned
  reply      \* reply[r]: the HTTP status request r was answered with, "503"
             \* standing for the 504 of a provider timeout, too

db    == <<status, context, runStatus, messages>>
local == <<late, snapshot, history>>
vars  == <<db, lapsed, up, held, pc, local, reply>>

Idle == {"unsent", "ready"}
\* Where the request holds the session lock.
Inside == {"locked", "admitted", "starting", "started", "loop", "failing",
           "committed"}
Ended == {"answered", "dead"}

Init ==
  /\ status    = [s \in Sessions |-> "none"]
  /\ context   = [s \in Sessions |-> NoContext]
  /\ runStatus = [r \in Runs |-> "none"]
  /\ messages  = [s \in Sessions |-> <<>>]
  /\ lapsed    = [s \in Sessions |-> FALSE]
  /\ up        = Workers
  /\ held      = [w \in Workers |-> {}]
  /\ pc        = [r \in Runs |-> "unsent"]
  /\ late      = [r \in Runs |-> FALSE]
  /\ snapshot  = [r \in Runs |-> NoContext]
  /\ history   = [r \in Runs |-> <<>>]
  /\ reply     = [r \in Runs |-> "none"]

Goto(r, label) == pc' = [pc EXCEPT ![r] = label]

\* The locals of the handlers of the requests in R are gone.
Forget(R) ==
  /\ late'     = [r \in Runs |-> IF r \in R THEN FALSE ELSE late[r]]
  /\ snapshot' = [r \in Runs |-> IF r \in R THEN NoContext ELSE snapshot[r]]
  /\ history'  = [r \in Runs |-> IF r \in R THEN <<>> ELSE history[r]]

\* Mutant: the lock is released on the successful path only.
AnswerLeaking(r, code) ==
  /\ Goto(r, "answered")
  /\ reply' = [reply EXCEPT ![r] = code]
  /\ held'  = IF code = "200"
              THEN [held EXCEPT ![WorkerOf[r]] = @ \ {SessionOf[r]}] ELSE held
  /\ Forget({r})

\* The request is answered; the context manager of the lock releases it.
Answer(r, code) ==
  /\ Goto(r, "answered")
  /\ reply' = [reply EXCEPT ![r] = code]
  /\ held'  = [held EXCEPT ![WorkerOf[r]] = @ \ {SessionOf[r]}]
  /\ Forget({r})

\* Answered before the lock was taken.
Refuse(r, code) ==
  /\ Goto(r, "answered")
  /\ reply' = [reply EXCEPT ![r] = code]
  /\ UNCHANGED <<held, local>>

Stay == UNCHANGED <<reply, held, local>>

-----------------------------------------------------------------------------
(***************************************************************************)
(* The clock, sessions and the scrubber                                    *)
(***************************************************************************)

CreateSession(s) ==
  /\ up # {}
  /\ status[s] = "none"
  /\ status'  = [status EXCEPT ![s] = "active"]
  /\ context' = [context EXCEPT ![s] = FreshContext]
  /\ UNCHANGED <<runStatus, messages, lapsed, up, held, pc, local, reply>>

Lapse(s) ==
  /\ status[s] # "none"
  /\ ~lapsed[s]
  /\ lapsed' = [lapsed EXCEPT ![s] = TRUE]
  /\ UNCHANGED <<db, up, held, pc, local, reply>>

\* Mutant: the UPDATE only looks at sessions not marked expired yet.
ScrubbableByStatus(s) == lapsed[s] /\ status[s] # "expired"

\* The rows the scrubbing UPDATE matches.
Scrubbable(s) ==
  /\ lapsed[s]
  /\ status[s] # "expired" \/ context[s] # NoContext

ScrubExpired ==
  /\ status'  = [s \in Sessions |->
                   IF Scrubbable(s) THEN "expired" ELSE status[s]]
  /\ context' = [s \in Sessions |->
                   IF Scrubbable(s) THEN NoContext ELSE context[s]]
  /\ UNCHANGED <<runStatus, messages>>

\* A round of a process's scrubber; a round that fails changes nothing.
Scrub ==
  /\ up # {}
  /\ ScrubExpired
  /\ UNCHANGED <<lapsed, up, held, pc, local, reply>>

-----------------------------------------------------------------------------
(***************************************************************************)
(* A request                                                               *)
(***************************************************************************)

\* The message is accepted and is_ready answers, or the client gets a 503.
Submit(r) ==
  /\ pc[r] = "unsent"
  /\ WorkerOf[r] \in up
  /\ \/ Goto(r, "ready") /\ Stay
     \/ "database" \in Faults /\ Refuse(r, "503")
  /\ UNCHANGED <<db, lapsed, up>>

\* SessionLockManager.acquire never waits for a lock: it takes it or refuses.
AcquireLock(r) ==
  LET s == SessionOf[r]  w == WorkerOf[r] IN
  /\ pc[r] = "ready"
  /\ \/ /\ s \in held[w]
        /\ Refuse(r, "409")
     \/ /\ s \notin held[w]
        /\ held' = [held EXCEPT ![w] = @ \cup {s}]
        /\ Goto(r, "locked")
        /\ UNCHANGED <<reply, local>>
  /\ UNCHANGED <<db, lapsed, up>>

\* get_session: an active session that lapsed is expired and scrubbed here.
Preflight(r) ==
  LET s == SessionOf[r] IN
  /\ pc[r] = "locked"
  /\ \/ /\ status[s] = "none"
        /\ Answer(r, "404")
        /\ UNCHANGED db
     \/ /\ status[s] = "active" /\ lapsed[s]
        /\ status'  = [status EXCEPT ![s] = "expired"]
        /\ context' = [context EXCEPT ![s] = NoContext]
        /\ Answer(r, "410")
        /\ UNCHANGED <<runStatus, messages>>
     \/ /\ status[s] = "expired"
        /\ Answer(r, "410")
        /\ UNCHANGED db
     \/ /\ status[s] = "active" /\ ~lapsed[s]
        /\ Goto(r, "admitted")
        /\ Stay
        /\ UNCHANGED db
  /\ UNCHANGED <<lapsed, up>>

\* start_run reads the clock before it waits for the session row.
ReadClock(r) ==
  /\ pc[r] = "admitted"
  /\ late' = [late EXCEPT ![r] = lapsed[SessionOf[r]]]
  /\ Goto(r, "starting")
  /\ UNCHANGED <<db, lapsed, up, held, reply, snapshot, history>>

Running(s) == {q \in InSession(s) : runStatus[q] = "running"}

\* Mutant: running runs are not counted.
InsertRunUnchecked(r) ==
  LET s == SessionOf[r] IN
  /\ ~late[r] /\ status[s] = "active"
  /\ runStatus' = [runStatus EXCEPT ![r] = "running"]
  /\ messages'  = [messages EXCEPT ![s] = Append(@, Entry(r, "user"))]
  /\ UNCHANGED <<status, context>>

InsertRun(r) ==
  LET s == SessionOf[r] IN
  /\ ~late[r] /\ status[s] = "active"
  /\ Running(s) = {}
  /\ runStatus' = [runStatus EXCEPT ![r] = "running"]
  /\ messages'  = [messages EXCEPT ![s] = Append(@, Entry(r, "user"))]
  /\ UNCHANGED <<status, context>>

\* Mutant: the user message is committed before the running runs are counted.
StartRunMessageFirst(r) ==
  LET s == SessionOf[r] IN
  /\ pc[r] = "starting"
  /\ \/ /\ ~late[r] /\ status[s] = "active"
        /\ Running(s) # {}
        /\ messages' = [messages EXCEPT ![s] = Append(@, Entry(r, "user"))]
        /\ Answer(r, "409")
        /\ UNCHANGED <<status, context, runStatus>>
     \/ /\ InsertRun(r)
        /\ snapshot' = [snapshot EXCEPT ![r] = context[s]]
        /\ Goto(r, "started")
        /\ UNCHANGED <<held, reply, late, history>>
  /\ UNCHANGED <<lapsed, up>>

\* start_run's write transaction.  Its "expired" assignment for a late
\* session is rolled back by the exception that follows it.
StartRun(r) ==
  LET s == SessionOf[r] IN
  /\ pc[r] = "starting"
  /\ \/ /\ late[r] \/ status[s] # "active"
        /\ Answer(r, "410")
        /\ UNCHANGED db
     \/ /\ ~late[r] /\ status[s] = "active"
        /\ Running(s) # {}
        /\ Answer(r, "409")
        /\ UNCHANGED db
     \/ /\ InsertRun(r)
        /\ snapshot' = [snapshot EXCEPT ![r] = context[s]]
        /\ Goto(r, "started")
        /\ UNCHANGED <<held, reply, late, history>>
  /\ UNCHANGED <<lapsed, up>>

\* The user messages and answers of the other runs of the session, whatever
\* became of those runs, by their sequence numbers.
FinalRows(r) ==
  LET log == messages[SessionOf[r]] IN
  {n \in DOMAIN log : log[n].run # r /\ log[n].kind \in {"user", "answer"}}

\* ORDER BY sequence_no DESC LIMIT HistoryLimit.
NewestRows(r) ==
  {n \in FinalRows(r) :
     Cardinality({m \in FinalRows(r) : m > n}) < HistoryLimit}

\* get_final_history, each message at its sequence number.
FinalHistory(r) == [n \in NewestRows(r) |-> messages[SessionOf[r]][n]]

LoadHistory(r) ==
  /\ pc[r] = "started"
  /\ history' = [history EXCEPT ![r] = FinalHistory(r)]
  /\ Goto(r, "loop")
  /\ UNCHANGED <<db, lapsed, up, held, reply, late, snapshot>>

\* The exchanges run r has stored (its tool_count).
Exchanges(r) ==
  LET log == messages[SessionOf[r]] IN
  Cardinality({n \in DOMAIN log : log[n] = Entry(r, "call")})

AppendExchange(r) ==
  /\ messages' = [messages EXCEPT ![SessionOf[r]] =
                    @ \o <<Entry(r, "call"), Entry(r, "tool")>>]
  /\ UNCHANGED <<status, context, runStatus>>

StoreToolExchange(r) ==
  /\ pc[r] = "loop"
  /\ Exchanges(r) < MaxExchanges
  /\ AppendExchange(r)
  /\ Stay
  /\ UNCHANGED <<lapsed, up, pc>>

\* Mutant: the run keeps its status.
CommitAnswerOnly(r) ==
  LET s == SessionOf[r] IN
  /\ messages'  = [messages EXCEPT ![s] = Append(@, Entry(r, "answer"))]
  /\ \E memory \in Successors(MemoryIn(snapshot[r]), r) :
       context' = [context EXCEPT ![s] = WithMemory(@, memory, NoRun)]
  /\ UNCHANGED <<status, runStatus>>

\* Mutant: the new context is built on the one start_run returned.
CommitAnswerStale(r) ==
  LET s == SessionOf[r] IN
  /\ runStatus' = [runStatus EXCEPT ![r] = "completed"]
  /\ messages'  = [messages EXCEPT ![s] = Append(@, Entry(r, "answer"))]
  /\ \E memory \in Successors(MemoryIn(snapshot[r]), r), products \in {r, NoRun} :
       context' = [context EXCEPT ![s] = WithMemory(snapshot[r], memory, products)]
  /\ UNCHANGED status

\* complete_run checks neither the session's status nor the run's.
CommitAnswer(r) ==
  LET s == SessionOf[r] IN
  /\ runStatus' = [runStatus EXCEPT ![r] = "completed"]
  /\ messages'  = [messages EXCEPT ![s] = Append(@, Entry(r, "answer"))]
  /\ \E memory \in Successors(MemoryIn(snapshot[r]), r), products \in {r, NoRun} :
       context' = [context EXCEPT ![s] = WithMemory(@, memory, products)]
  /\ UNCHANGED status

CompleteRun(r) ==
  /\ pc[r] = "loop"
  /\ CommitAnswer(r)
  /\ Goto(r, "committed")
  /\ Stay
  /\ UNCHANGED <<lapsed, up>>

Respond(r) ==
  /\ pc[r] = "committed"
  /\ Answer(r, "200")
  /\ UNCHANGED <<db, lapsed, up>>

\* Mutant: the error is recorded and not raised again.
MarkFailedSilently(r) ==
  /\ pc[r] = "failing"
  /\ runStatus' = [runStatus EXCEPT ![r] = "failed"]
  /\ Stay
  /\ UNCHANGED <<status, context, messages, lapsed, up, pc>>

\* _mark_failed: fail_run looks at no status, and its own error is swallowed.
MarkFailed(r) ==
  /\ pc[r] = "failing"
  /\ \/ runStatus' = [runStatus EXCEPT ![r] = "failed"]
     \/ "database" \in Faults /\ UNCHANGED runStatus
  /\ Answer(r, "503")
  /\ UNCHANGED <<status, context, messages, lapsed, up>>

-----------------------------------------------------------------------------
(***************************************************************************)
(* Faults                                                                  *)
(***************************************************************************)

\* A database call of the request fails and its transaction rolls back.
\* Before start_run returns, the route answers; later, the runtime does.
DatabaseError(r) ==
  /\ "database" \in Faults
  /\ \/ /\ pc[r] \in {"locked", "starting"}
        /\ Answer(r, "503")
     \/ /\ pc[r] \in {"started", "loop"}
        /\ Goto(r, "failing")
        /\ Stay
  /\ UNCHANGED <<db, lapsed, up>>

\* A transaction commits but its acknowledgement is lost: the caller takes
\* the exception for a failure.
LostAck(r) ==
  /\ "lostAck" \in Faults
  /\ \/ /\ pc[r] = "starting"
        /\ InsertRun(r)
        /\ Answer(r, "503")
     \/ /\ pc[r] = "loop"
        /\ Exchanges(r) < MaxExchanges
        /\ AppendExchange(r)
        /\ Goto(r, "failing")
        /\ Stay
     \/ /\ pc[r] = "loop"
        /\ CommitAnswer(r)
        /\ Goto(r, "failing")
        /\ Stay
  /\ UNCHANGED <<lapsed, up>>

\* The model provider errors or times out, or the loop raises.
ProviderError(r) ==
  /\ "provider" \in Faults
  /\ pc[r] = "loop"
  /\ Goto(r, "failing")
  /\ Stay
  /\ UNCHANGED <<db, lapsed, up>>

\* The process dies: its locks and its requests are gone, the rows stay.
Crash(w) ==
  LET lost == {r \in Runs : WorkerOf[r] = w /\ pc[r] \in Inside \cup {"ready"}} IN
  /\ "crash" \in Faults
  /\ w \in up
  /\ up'   = up \ {w}
  /\ held' = [held EXCEPT ![w] = {}]
  /\ pc'   = [r \in Runs |-> IF r \in lost THEN "dead" ELSE pc[r]]
  /\ Forget(lost)
  /\ UNCHANGED <<db, lapsed, reply>>

\* Startup scrubs once before the process serves; it repairs no run.
Restart(w) ==
  /\ w \notin up
  /\ up' = up \cup {w}
  /\ ScrubExpired
  /\ UNCHANGED <<lapsed, held, pc, local, reply>>

-----------------------------------------------------------------------------
RequestStep(r) ==
  \/ AcquireLock(r)
  \/ Preflight(r)
  \/ ReadClock(r)
  \/ StartRun(r)
  \/ LoadHistory(r)
  \/ StoreToolExchange(r)
  \/ CompleteRun(r)
  \/ Respond(r)
  \/ MarkFailed(r)

Fault(r) == DatabaseError(r) \/ LostAck(r) \/ ProviderError(r)

Next ==
  \/ \E s \in Sessions : CreateSession(s) \/ Lapse(s)
  \/ Scrub
  \/ \E r \in Runs : Submit(r) \/ RequestStep(r) \/ Fault(r)
  \/ \E w \in Workers : Crash(w) \/ Restart(w)

Spec == Init /\ [][Next]_vars

\* Every provider and tool call has a timeout and the database ends every
\* statement in some way, so a request inside its turn moves on; every process
\* scrubs periodically; a dead process is restarted.
Fairness ==
  /\ \A r \in Runs : WF_vars(RequestStep(r) \/ Fault(r))
  /\ WF_vars(Scrub)
  /\ \A w \in Workers : WF_vars(Restart(w))

FairSpec == Spec /\ Fairness

-----------------------------------------------------------------------------
(***************************************************************************)
(* Properties                                                              *)
(***************************************************************************)

Holds(r, w, s) == WorkerOf[r] = w /\ SessionOf[r] = s /\ pc[r] \in Inside

\* The lock of a session in a process is taken exactly while one request of
\* that process is between acquire and its answer: no path out of the route
\* leaks it, and no request releases another's (SessionLockManager).
LockDiscipline ==
  \A w \in Workers, s \in Sessions :
    /\ s \in held[w] <=> \E r \in Runs : Holds(r, w, s)
    /\ \A q, r \in Runs : Holds(q, w, s) /\ Holds(r, w, s) => q = r

\* Run r has its answer in the log and no message after it.
AnswerLast(r) ==
  LET log == messages[SessionOf[r]] IN
  \E n \in DOMAIN log : /\ log[n] = Entry(r, "answer")
                        /\ \A k \in DOMAIN log : log[k].run = r => k <= n

NoMessage(r) ==
  LET log == messages[SessionOf[r]] IN
  \A n \in DOMAIN log : log[n].run # r

\* A 200 means the run completed, with its answer as the last message of its
\* turn; a refusal means the request left no run and no message behind.  No
\* interleaving with other processes, a crash or the scrubber undoes either.
ReplyTellsOutcome ==
  \A r \in Runs :
    /\ reply[r] = "200" => runStatus[r] = "completed" /\ AnswerLast(r)
    /\ reply[r] \in {"404", "409", "410"} => runStatus[r] = "none" /\ NoMessage(r)

\* A running run is in the hands of a live request inside its turn, or its
\* request ended in a way that could not record the end: its process died or
\* it got a 503.  A request that is inside its turn has its run running.
RunningRunHasOwner ==
  \A r \in Runs :
    /\ pc[r] \in {"started", "loop"} => runStatus[r] = "running"
    /\ runStatus[r] = "running" =>
         \/ pc[r] \in {"started", "loop", "failing", "dead"}
         \/ pc[r] = "answered" /\ reply[r] = "503"

\* The history the model was given stays the session's history until the run
\* ends: no other process slips a message into the conversation meanwhile.
HistoryCurrent ==
  \A r \in Runs : pc[r] = "loop" => history[r] = FinalHistory(r)

Store == INSTANCE ConversationStore

\* Whatever the processes, the clock and the faults do, the database goes
\* through the states of a serial conversation store.
ImplementsStore == Store!Spec

\* The context of a lapsed session is gone for good some time later, although
\* a run that was under way writes a context back when it completes.
ContextFinallyScrubbed ==
  \A s \in Sessions : lapsed[s] ~> [](context[s] = NoContext)

\* Every request that reaches the route is answered or dies with its process.
RequestsEnd ==
  \A r \in Runs : pc[r] = "ready" ~> pc[r] \in Ended

=============================================================================
