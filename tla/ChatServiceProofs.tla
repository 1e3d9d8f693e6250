-------------------------- MODULE ChatServiceProofs -------------------------
(***************************************************************************)
(* What holds of the chat endpoint for any number of processes, sessions   *)
(* and requests and under every fault: the locks of a process are those of *)
(* the requests inside their turn, a run left running belongs to a request *)
(* that is at work or ended where it could record nothing, the database    *)
(* goes through the states of the conversation store, a client is told     *)
(* what became of its turn, and the model sees the current history.        *)
(***************************************************************************)
EXTENDS ChatService, TLAPS

Labels == Idle \cup Inside \cup Ended
Codes  == {"none", "200", "404", "409", "410", "503"}

ControlOK ==
  /\ runStatus \in [Runs -> RunStatus]
  /\ held \in [Workers -> SUBSET Sessions]
  /\ pc \in [Runs -> Labels]
  /\ reply \in [Runs -> Codes]

Inv == ControlOK /\ LockDiscipline /\ RunningRunHasOwner

-----------------------------------------------------------------------------
\* What a step may do to one request: nothing else changes in it.
LEMMA AnswerMoves ==
  ASSUME ControlOK, NEW r \in Runs, NEW code \in Codes, Answer(r, code)
  PROVE  /\ pc' = [pc EXCEPT ![r] = "answered"]
         /\ reply' = [reply EXCEPT ![r] = code]
         /\ held' = [held EXCEPT ![WorkerOf[r]] = @ \ {SessionOf[r]}]
         /\ pc' \in [Runs -> Labels] /\ reply' \in [Runs -> Codes]
         /\ held' \in [Workers -> SUBSET Sessions]
BY DEF Answer, Goto, ControlOK, Labels, Ended

LEMMA GotoMoves ==
  ASSUME ControlOK, NEW r \in Runs, NEW label \in Labels, Goto(r, label)
  PROVE  pc' = [pc EXCEPT ![r] = label] /\ pc' \in [Runs -> Labels]
BY DEF Goto, ControlOK

-----------------------------------------------------------------------------
\* A step in which nobody enters or leaves a turn keeps the locks right.
LEMMA NobodyMoves ==
  ASSUME LockDiscipline, held' = held,
         \A r \in Runs : pc'[r] \in Inside <=> pc[r] \in Inside
  PROVE  LockDiscipline'
BY DEF LockDiscipline, Holds

\* So does one that answers a request inside its turn.
LEMMA LockReleased ==
  ASSUME ControlOK, LockDiscipline, NEW r \in Runs, pc[r] \in Inside,
         NEW code \in Codes, Answer(r, code)
  PROVE  LockDiscipline'
<1>1. /\ pc' = [pc EXCEPT ![r] = "answered"]
      /\ held' = [held EXCEPT ![WorkerOf[r]] = @ \ {SessionOf[r]}]
  BY AnswerMoves
<1>2. WorkerOf[r] \in Workers /\ SessionOf[r] \in Sessions
  BY ServiceAssumption, ConversationAssumption
<1>3. "answered" \notin Inside
  BY DEF Inside
<1>4. \A q \in Runs : pc'[q] \in Inside <=> q # r /\ pc[q] \in Inside
  BY <1>1, <1>3 DEF ControlOK
<1>5. \A w \in Workers : held'[w] = IF w = WorkerOf[r] THEN held[w] \ {SessionOf[r]} ELSE held[w]
  BY <1>1, <1>2 DEF ControlOK
<1>6. \A q \in Runs, w \in Workers, s \in Sessions :
        Holds(q, w, s)' <=> Holds(q, w, s) /\ q # r
  BY <1>4 DEF Holds
<1>7. Holds(r, WorkerOf[r], SessionOf[r])
  BY DEF Holds
<1> SUFFICES ASSUME NEW w \in Workers, NEW s \in Sessions
    PROVE  /\ s \in held'[w] <=> \E q \in Runs : Holds(q, w, s)'
           /\ \A p, q \in Runs : Holds(p, w, s)' /\ Holds(q, w, s)' => p = q
  BY DEF LockDiscipline
<1>8. CASE w = WorkerOf[r] /\ s = SessionOf[r]
  <2>1. s \notin held'[w]
    BY <1>5, <1>8
  <2>2. \A q \in Runs : Holds(q, w, s) => q = r
    BY <1>7, <1>8 DEF LockDiscipline
  <2>3. \A q \in Runs : ~Holds(q, w, s)'
    BY <1>6, <2>2
  <2> QED BY <2>1, <2>3
<1>9. CASE ~(w = WorkerOf[r] /\ s = SessionOf[r])
  <2>1. s \in held'[w] <=> s \in held[w]
    BY <1>5, <1>9
  <2>2. ~Holds(r, w, s)
    BY <1>9 DEF Holds
  <2> QED BY <1>6, <2>1, <2>2 DEF LockDiscipline
<1> QED BY <1>8, <1>9

\* And one that takes a free lock.
LEMMA LockTaken ==
  ASSUME ControlOK, LockDiscipline, NEW r \in Runs, pc[r] = "ready",
         SessionOf[r] \notin held[WorkerOf[r]],
         held' = [held EXCEPT ![WorkerOf[r]] = @ \cup {SessionOf[r]}],
         Goto(r, "locked")
  PROVE  LockDiscipline'
<1>1. "locked" \in Labels /\ "locked" \in Inside /\ "ready" \notin Inside
  BY DEF Labels, Inside
<1>2. pc' = [pc EXCEPT ![r] = "locked"]
  BY DEF Goto
<1>3. WorkerOf[r] \in Workers /\ SessionOf[r] \in Sessions
  BY ServiceAssumption, ConversationAssumption
<1>4. \A q \in Runs, w \in Workers, s \in Sessions :
        Holds(q, w, s)' <=> \/ Holds(q, w, s)
                            \/ q = r /\ w = WorkerOf[r] /\ s = SessionOf[r]
  BY <1>1, <1>2 DEF Holds, ControlOK
<1>5. \A w \in Workers, s \in Sessions :
        s \in held'[w] <=> s \in held[w] \/ (w = WorkerOf[r] /\ s = SessionOf[r])
  BY <1>3 DEF ControlOK
<1>6. \A q \in Runs : ~Holds(q, WorkerOf[r], SessionOf[r])
  BY <1>3 DEF LockDiscipline
<1> SUFFICES ASSUME NEW w \in Workers, NEW s \in Sessions
    PROVE  /\ s \in held'[w] <=> \E q \in Runs : Holds(q, w, s)'
           /\ \A p, q \in Runs : Holds(p, w, s)' /\ Holds(q, w, s)' => p = q
  BY DEF LockDiscipline
<1>7. s \in held[w] <=> \E q \in Runs : Holds(q, w, s)
  BY DEF LockDiscipline
<1>8. \A p, q \in Runs : Holds(p, w, s) /\ Holds(q, w, s) => p = q
  BY DEF LockDiscipline
<1> QED BY <1>3, <1>4, <1>5, <1>6, <1>7, <1>8

\* And the death of a process, whose requests are all gone.
LEMMA LocksLost ==
  ASSUME ControlOK, LockDiscipline, NEW w \in Workers, Crash(w)
  PROVE  LockDiscipline'
<1>1. /\ \A q \in Runs : pc'[q] = IF WorkerOf[q] = w /\ pc[q] \in Inside \cup {"ready"}
                                  THEN "dead" ELSE pc[q]
      /\ \A v \in Workers : held'[v] = IF v = w THEN {} ELSE held[v]
  BY DEF Crash, ControlOK
<1>2. "dead" \notin Inside
  BY DEF Inside
<1>3. \A q \in Runs, v \in Workers, s \in Sessions : Holds(q, v, s)' <=> Holds(q, v, s) /\ v # w
  BY <1>1, <1>2 DEF Holds
<1> QED BY <1>1, <1>3 DEF LockDiscipline

-----------------------------------------------------------------------------
\* What RunningRunHasOwner says of one request.
Owned(r) ==
  /\ pc[r] \in {"started", "loop"} => runStatus[r] = "running"
  /\ runStatus[r] = "running" =>
       \/ pc[r] \in {"started", "loop", "failing", "dead"}
       \/ pc[r] = "answered" /\ reply[r] = "503"

\* A step that leaves the other requests alone need only answer for its own.
LEMMA OthersOwned ==
  ASSUME RunningRunHasOwner, NEW r \in Runs, Owned(r)',
         \A q \in Runs \ {r} : /\ pc'[q] = pc[q]
                               /\ reply'[q] = reply[q]
                               /\ runStatus'[q] = runStatus[q]
  PROVE  RunningRunHasOwner'
BY DEF RunningRunHasOwner, Owned

-----------------------------------------------------------------------------
(***************************************************************************)
(* One step                                                                *)
(***************************************************************************)

LEMMA InitInv == Init => Inv
<1> SUFFICES ASSUME Init PROVE Inv
  OBVIOUS
<1>1. "none" \in RunStatus /\ "unsent" \in Labels /\ "none" \in Codes
  BY DEF RunStatus, Labels, Idle, Codes
<1>2. ControlOK
  BY <1>1 DEF Init, ControlOK
<1>3. LockDiscipline
  BY DEF Init, LockDiscipline, Holds, Inside
<1>4. RunningRunHasOwner
  BY DEF Init, RunningRunHasOwner
<1> QED BY <1>2, <1>3, <1>4 DEF Inv

\* Steps of the clock, the scrubber and a restart touch no request.
LEMMA QuietStep ==
  ASSUME Inv, UNCHANGED <<runStatus, held, pc, reply>>
  PROVE  Inv'
BY DEF Inv, ControlOK, LockDiscipline, Holds, RunningRunHasOwner

\* A request that moves within its turn, or outside it.
LEMMA MoveStep ==
  ASSUME Inv, NEW r \in Runs, NEW label \in Labels, Goto(r, label),
         UNCHANGED <<held, reply>>,
         label \in Inside <=> pc[r] \in Inside,
         runStatus' \in [Runs -> RunStatus],
         \A q \in Runs \ {r} : runStatus'[q] = runStatus[q],
         label \in {"started", "loop"} => runStatus'[r] = "running",
         runStatus'[r] = "running" => label \in {"started", "loop", "failing", "dead"}
  PROVE  Inv'
<1>1. pc' = [pc EXCEPT ![r] = label] /\ pc' \in [Runs -> Labels]
  BY GotoMoves DEF Inv
<1>2. /\ pc'[r] = label
      /\ \A q \in Runs \ {r} : pc'[q] = pc[q]
  BY <1>1 DEF Inv, ControlOK
<1>3. ControlOK'
  BY <1>1 DEF Inv, ControlOK
<1>4. LockDiscipline'
  BY <1>2, NobodyMoves DEF Inv
<1>5. Owned(r)'
  BY <1>2 DEF Owned
<1>6. RunningRunHasOwner'
  BY <1>2, <1>5, OthersOwned DEF Inv
<1> QED BY <1>3, <1>4, <1>6 DEF Inv

\* A request that is answered at the end of its turn.
LEMMA AnswerStep ==
  ASSUME Inv, NEW r \in Runs, NEW code \in Codes, Answer(r, code),
         pc[r] \in Inside,
         runStatus' \in [Runs -> RunStatus],
         \A q \in Runs \ {r} : runStatus'[q] = runStatus[q],
         runStatus'[r] = "running" => code = "503"
  PROVE  Inv'
<1>1. /\ pc' = [pc EXCEPT ![r] = "answered"]
      /\ reply' = [reply EXCEPT ![r] = code]
      /\ pc' \in [Runs -> Labels] /\ reply' \in [Runs -> Codes]
      /\ held' \in [Workers -> SUBSET Sessions]
  BY AnswerMoves DEF Inv
<1>2. /\ pc'[r] = "answered" /\ reply'[r] = code
      /\ \A q \in Runs \ {r} : pc'[q] = pc[q] /\ reply'[q] = reply[q]
  BY <1>1 DEF Inv, ControlOK
<1>3. ControlOK'
  BY <1>1 DEF ControlOK
<1>4. LockDiscipline'
  BY LockReleased DEF Inv
<1>5. Owned(r)'
  BY <1>2 DEF Owned
<1>6. RunningRunHasOwner'
  BY <1>2, <1>5, OthersOwned DEF Inv
<1> QED BY <1>3, <1>4, <1>6 DEF Inv

\* A request that is refused before it takes the lock.
LEMMA RefuseStep ==
  ASSUME Inv, NEW r \in Runs, NEW code \in Codes, Refuse(r, code),
         pc[r] \in Idle, UNCHANGED runStatus
  PROVE  Inv'
<1>1. /\ pc' = [pc EXCEPT ![r] = "answered"] /\ reply' = [reply EXCEPT ![r] = code]
      /\ held' = held
  BY DEF Refuse, Goto
<1>2. /\ pc'[r] = "answered" /\ reply'[r] = code
      /\ \A q \in Runs \ {r} : pc'[q] = pc[q] /\ reply'[q] = reply[q]
  BY <1>1 DEF Inv, ControlOK
<1>3. ControlOK'
  BY <1>1 DEF Inv, ControlOK, Labels, Ended
<1>4. \A q \in Runs : pc'[q] \in Inside <=> pc[q] \in Inside
  BY <1>2 DEF Idle, Inside
<1>5. LockDiscipline'
  BY <1>1, <1>4, NobodyMoves DEF Inv
<1>6. runStatus[r] # "running"
  BY DEF Inv, RunningRunHasOwner, Idle
<1>7. Owned(r)'
  BY <1>2, <1>6 DEF Owned
<1>8. RunningRunHasOwner'
  BY <1>2, <1>7, OthersOwned DEF Inv
<1> QED BY <1>3, <1>5, <1>8 DEF Inv

-----------------------------------------------------------------------------
(***************************************************************************)
(* The actions                                                             *)
(***************************************************************************)

LEMMA SubmitStep ==
  ASSUME Inv, NEW r \in Runs, Submit(r)
  PROVE  Inv'
<1>1. pc[r] = "unsent" /\ UNCHANGED runStatus
  BY DEF Submit, db
<1>2. runStatus[r] # "running" /\ runStatus' \in [Runs -> RunStatus]
  BY <1>1 DEF Inv, RunningRunHasOwner, ControlOK
<1>3. CASE Goto(r, "ready") /\ Stay
  <2>1. "ready" \in Labels /\ "ready" \notin Inside /\ "unsent" \notin Inside
    BY DEF Labels, Idle, Inside
  <2>2. UNCHANGED <<held, reply>>
    BY <1>3 DEF Stay
  <2> QED BY <1>1, <1>2, <1>3, <2>1, <2>2, MoveStep
<1>4. CASE Refuse(r, "503")
  <2>1. "503" \in Codes /\ pc[r] \in Idle
    BY <1>1 DEF Codes, Idle
  <2> QED BY <1>1, <1>4, <2>1, RefuseStep
<1> QED BY <1>3, <1>4 DEF Submit

LEMMA AcquireLockStep ==
  ASSUME Inv, NEW r \in Runs, AcquireLock(r)
  PROVE  Inv'
<1>1. pc[r] = "ready" /\ UNCHANGED runStatus
  BY DEF AcquireLock, db
<1>2. CASE Refuse(r, "409")
  <2>1. "409" \in Codes /\ pc[r] \in Idle
    BY <1>1 DEF Codes, Idle
  <2> QED BY <1>1, <1>2, <2>1, RefuseStep
<1>3. CASE /\ SessionOf[r] \notin held[WorkerOf[r]]
           /\ held' = [held EXCEPT ![WorkerOf[r]] = @ \cup {SessionOf[r]}]
           /\ Goto(r, "locked")
           /\ UNCHANGED <<reply, local>>
  <2>1. LockDiscipline'
    BY <1>1, <1>3, LockTaken DEF Inv
  <2>2. "locked" \in Labels
    BY DEF Labels, Inside
  <2>3. pc' = [pc EXCEPT ![r] = "locked"] /\ pc' \in [Runs -> Labels]
    BY <1>3, <2>2, GotoMoves DEF Inv
  <2>4. WorkerOf[r] \in Workers /\ SessionOf[r] \in Sessions
    BY ServiceAssumption, ConversationAssumption
  <2>5. held' \in [Workers -> SUBSET Sessions]
    BY <1>3, <2>4 DEF Inv, ControlOK
  <2>6. ControlOK'
    BY <1>1, <1>3, <2>3, <2>5 DEF Inv, ControlOK
  <2>7. pc'[r] = "locked" /\ \A q \in Runs \ {r} : pc'[q] = pc[q]
    BY <2>3 DEF Inv, ControlOK
  <2>8. runStatus[r] # "running"
    BY <1>1 DEF Inv, RunningRunHasOwner
  <2>9. Owned(r)'
    BY <1>1, <2>7, <2>8 DEF Owned
  <2>10. RunningRunHasOwner'
    BY <1>1, <1>3, <2>7, <2>9, OthersOwned DEF Inv
  <2> QED BY <2>1, <2>6, <2>10 DEF Inv
<1> QED BY <1>2, <1>3 DEF AcquireLock

LEMMA PreflightStep ==
  ASSUME Inv, NEW r \in Runs, Preflight(r)
  PROVE  Inv'
<1>1. pc[r] = "locked" /\ UNCHANGED runStatus
  BY DEF Preflight, db
<1>2. runStatus[r] # "running" /\ runStatus' \in [Runs -> RunStatus]
  BY <1>1 DEF Inv, RunningRunHasOwner, ControlOK
<1>3. pc[r] \in Inside
  BY <1>1 DEF Inside
<1>4. ASSUME NEW code \in {"404", "410"}, Answer(r, code)
      PROVE  Inv'
  <2>1. code \in Codes
    BY DEF Codes
  <2> QED BY <1>1, <1>2, <1>3, <1>4, <2>1, AnswerStep
<1>5. CASE Goto(r, "admitted") /\ Stay
  <2>1. "admitted" \in Labels /\ "admitted" \in Inside
    BY DEF Labels, Inside
  <2>2. UNCHANGED <<held, reply>>
    BY <1>5 DEF Stay
  <2> QED BY <1>1, <1>2, <1>3, <1>5, <2>1, <2>2, MoveStep
<1> QED BY <1>4, <1>5 DEF Preflight

LEMMA ReadClockStep ==
  ASSUME Inv, NEW r \in Runs, ReadClock(r)
  PROVE  Inv'
<1>1. /\ pc[r] = "admitted" /\ Goto(r, "starting")
      /\ UNCHANGED <<runStatus, held, reply>>
  BY DEF ReadClock, db
<1>2. /\ "starting" \in Labels /\ "starting" \in Inside
      /\ pc[r] \in Inside
  BY <1>1 DEF Labels, Inside
<1>3. runStatus[r] # "running" /\ runStatus' \in [Runs -> RunStatus]
  BY <1>1 DEF Inv, RunningRunHasOwner, ControlOK
<1> QED BY <1>1, <1>2, <1>3, MoveStep

\* The insertion of the run, whatever its caller is told.
LEMMA InsertRunStatus ==
  ASSUME Inv, NEW r \in Runs, InsertRun(r)
  PROVE  /\ runStatus' \in [Runs -> RunStatus]
         /\ runStatus'[r] = "running"
         /\ \A q \in Runs \ {r} : runStatus'[q] = runStatus[q]
BY DEF InsertRun, Inv, ControlOK, RunStatus

LEMMA StartRunStep ==
  ASSUME Inv, NEW r \in Runs, StartRun(r)
  PROVE  Inv'
<1>1. pc[r] = "starting" /\ pc[r] \in Inside
  BY DEF StartRun, Inside
<1>2. runStatus[r] # "running" /\ runStatus \in [Runs -> RunStatus]
  BY <1>1 DEF Inv, RunningRunHasOwner, ControlOK
<1>3. ASSUME NEW code \in {"409", "410"}, Answer(r, code), UNCHANGED db
      PROVE  Inv'
  <2>1. code \in Codes /\ UNCHANGED runStatus
    BY <1>3 DEF Codes, db
  <2> QED BY <1>1, <1>2, <1>3, <2>1, AnswerStep
<1>4. CASE /\ InsertRun(r) /\ Goto(r, "started")
           /\ UNCHANGED <<held, reply, late, history>>
  <2>1. "started" \in Labels /\ "started" \in Inside
    BY DEF Labels, Inside
  <2> QED BY <1>1, <1>4, <2>1, InsertRunStatus, MoveStep
<1> QED BY <1>3, <1>4 DEF StartRun

LEMMA LoadHistoryStep ==
  ASSUME Inv, NEW r \in Runs, LoadHistory(r)
  PROVE  Inv'
<1>1. /\ pc[r] = "started" /\ Goto(r, "loop")
      /\ UNCHANGED <<runStatus, held, reply>>
  BY DEF LoadHistory, db
<1>2. /\ "loop" \in Labels /\ "loop" \in Inside
      /\ pc[r] \in Inside
  BY <1>1 DEF Labels, Inside
<1>3. runStatus[r] = "running" /\ runStatus' \in [Runs -> RunStatus]
  BY <1>1 DEF Inv, RunningRunHasOwner, ControlOK
<1> QED BY <1>1, <1>2, <1>3, MoveStep

LEMMA StoreToolExchangeStep ==
  ASSUME Inv, NEW r \in Runs, StoreToolExchange(r)
  PROVE  Inv'
<1>1. UNCHANGED <<runStatus, held, pc, reply>>
  BY DEF StoreToolExchange, AppendExchange, Stay
<1> QED BY <1>1, QuietStep

\* The commit of the answer, whatever its caller is told.
LEMMA CommitAnswerStatus ==
  ASSUME Inv, NEW r \in Runs, CommitAnswer(r)
  PROVE  /\ runStatus' \in [Runs -> RunStatus]
         /\ runStatus'[r] = "completed"
         /\ \A q \in Runs \ {r} : runStatus'[q] = runStatus[q]
BY DEF CommitAnswer, Inv, ControlOK, RunStatus

LEMMA CompleteRunStep ==
  ASSUME Inv, NEW r \in Runs, CompleteRun(r)
  PROVE  Inv'
<1>1. /\ pc[r] = "loop" /\ CommitAnswer(r) /\ Goto(r, "committed")
      /\ UNCHANGED <<held, reply>>
  BY DEF CompleteRun, Stay
<1>2. /\ "committed" \in Labels /\ "committed" \in Inside
      /\ pc[r] \in Inside
  BY <1>1 DEF Labels, Inside
<1> QED BY <1>1, <1>2, CommitAnswerStatus, MoveStep

LEMMA RespondStep ==
  ASSUME Inv, NEW r \in Runs, Respond(r)
  PROVE  Inv'
<1>1. pc[r] = "committed" /\ Answer(r, "200") /\ UNCHANGED runStatus
  BY DEF Respond, db
<1>2. pc[r] \in Inside /\ "200" \in Codes
  BY <1>1 DEF Inside, Codes
<1>3. runStatus[r] # "running" /\ runStatus' \in [Runs -> RunStatus]
  BY <1>1 DEF Inv, RunningRunHasOwner, ControlOK
<1> QED BY <1>1, <1>2, <1>3, AnswerStep

LEMMA MarkFailedStep ==
  ASSUME Inv, NEW r \in Runs, MarkFailed(r)
  PROVE  Inv'
<1>1. pc[r] = "failing" /\ Answer(r, "503")
  BY DEF MarkFailed
<1>2. pc[r] \in Inside /\ "503" \in Codes
  BY <1>1 DEF Inside, Codes
<1>3. runStatus' = [runStatus EXCEPT ![r] = "failed"] \/ UNCHANGED runStatus
  BY DEF MarkFailed
<1>4. /\ runStatus' \in [Runs -> RunStatus]
      /\ \A q \in Runs \ {r} : runStatus'[q] = runStatus[q]
  BY <1>3 DEF Inv, ControlOK, RunStatus
<1> QED BY <1>1, <1>2, <1>4, AnswerStep

\* A request whose call failed inside its turn, whatever was committed.
LEMMA FailingStep ==
  ASSUME Inv, NEW r \in Runs, pc[r] \in {"started", "loop"},
         Goto(r, "failing"), Stay,
         runStatus' \in [Runs -> RunStatus],
         \A q \in Runs \ {r} : runStatus'[q] = runStatus[q]
  PROVE  Inv'
<1>1. UNCHANGED <<held, reply>>
  BY DEF Stay
<1>2. "failing" \in Labels /\ "failing" \in Inside /\ pc[r] \in Inside
  BY DEF Labels, Inside
<1> QED BY <1>1, <1>2, MoveStep

LEMMA FaultStep ==
  ASSUME Inv, NEW r \in Runs, Fault(r)
  PROVE  Inv'
<1>1. "503" \in Codes
  BY DEF Codes
<1>2. runStatus \in [Runs -> RunStatus]
  BY DEF Inv, ControlOK
<1>3. CASE pc[r] \in {"locked", "starting"} /\ Answer(r, "503") /\ UNCHANGED runStatus
  <2>1. pc[r] \in Inside
    BY <1>3 DEF Inside
  <2> QED BY <1>1, <1>2, <1>3, <2>1, AnswerStep
<1>4. CASE pc[r] = "starting" /\ InsertRun(r) /\ Answer(r, "503")
  <2>1. pc[r] \in Inside
    BY <1>4 DEF Inside
  <2> QED BY <1>1, <1>4, <2>1, InsertRunStatus, AnswerStep
<1>5. CASE /\ pc[r] \in {"started", "loop"} /\ Goto(r, "failing") /\ Stay
           /\ UNCHANGED runStatus
  BY <1>2, <1>5, FailingStep
<1>6. CASE pc[r] = "loop" /\ CommitAnswer(r) /\ Goto(r, "failing") /\ Stay
  BY <1>6, CommitAnswerStatus, FailingStep
<1> QED
  BY <1>3, <1>4, <1>5, <1>6
  DEF Fault, DatabaseError, LostAck, ProviderError, AppendExchange, db

\* Locks and requests die with their process; runs stay as they are.
LEMMA CrashStep ==
  ASSUME Inv, NEW w \in Workers, Crash(w)
  PROVE  Inv'
<1>1. /\ \A q \in Runs : pc'[q] = IF WorkerOf[q] = w /\ pc[q] \in Inside \cup {"ready"}
                                  THEN "dead" ELSE pc[q]
      /\ UNCHANGED <<runStatus, reply>>
  BY DEF Crash, db
<1>2. "dead" \in Labels
  BY DEF Labels, Ended
<1>3. pc' \in [Runs -> Labels]
  BY <1>2 DEF Crash, Inv, ControlOK
<1>4. held' \in [Workers -> SUBSET Sessions]
  BY DEF Crash, Inv, ControlOK
<1>5. ControlOK'
  BY <1>1, <1>3, <1>4 DEF Inv, ControlOK
<1>6. LockDiscipline'
  BY LocksLost DEF Inv
<1>7. RunningRunHasOwner'
  BY <1>1 DEF Inv, RunningRunHasOwner
<1> QED BY <1>5, <1>6, <1>7 DEF Inv

LEMMA NextInv == Inv /\ [Next]_vars => Inv'
<1> SUFFICES ASSUME Inv, [Next]_vars PROVE Inv'
  OBVIOUS
<1>1. CASE UNCHANGED <<runStatus, held, pc, reply>>
  BY <1>1, QuietStep
<1>2. CASE \E r \in Runs : Submit(r) \/ RequestStep(r) \/ Fault(r)
  BY <1>2, SubmitStep, AcquireLockStep, PreflightStep, ReadClockStep,
     StartRunStep, LoadHistoryStep, StoreToolExchangeStep, CompleteRunStep,
     RespondStep, MarkFailedStep, FaultStep DEF RequestStep
<1>3. CASE \E w \in Workers : Crash(w)
  BY <1>3, CrashStep
<1>4. ASSUME NEW s \in Sessions, CreateSession(s) \/ Lapse(s)
      PROVE  UNCHANGED <<runStatus, held, pc, reply>>
  BY <1>4 DEF CreateSession, Lapse, db
<1>5. ASSUME Scrub \/ \E w \in Workers : Restart(w)
      PROVE  UNCHANGED <<runStatus, held, pc, reply>>
  BY <1>5 DEF Scrub, Restart, ScrubExpired
<1>6. UNCHANGED vars => UNCHANGED <<runStatus, held, pc, reply>>
  BY DEF vars, db
<1> QED BY <1>1, <1>2, <1>3, <1>4, <1>5, <1>6 DEF Next

-----------------------------------------------------------------------------
(***************************************************************************)
(* The results                                                             *)
(***************************************************************************)

\* The request labels, locks and run states of chat and its routes stay in
\* range together with the two invariants below.
THEOREM InvAlways == Spec => []Inv
BY InitInv, NextInv, PTL DEF Spec

\* The lock of a session in a process is taken exactly while one request of
\* that process is between acquire and its answer (SessionLockManager),
\* whatever errors, lost acknowledgements and crashes it meets.
THEOREM LocksDisciplined == Spec => []LockDiscipline
<1>1. Inv => LockDiscipline
  BY DEF Inv
<1> QED BY <1>1, InvAlways, PTL

\* A running run is in the hands of a live request inside its turn, or its
\* request died or got a 503 (start_run, complete_run, _mark_failed).
THEOREM RunningRunsOwned == Spec => []RunningRunHasOwner
<1>1. Inv => RunningRunHasOwner
  BY DEF Inv
<1> QED BY <1>1, InvAlways, PTL

-----------------------------------------------------------------------------
(***************************************************************************)
(* The conversation store                                                  *)
(*                                                                         *)
(* Whatever fails, crashes or expires, and however the requests            *)
(* interleave, the database goes through the states of a store whose turns *)
(* happen one after the other.                                             *)
(***************************************************************************)

StoredContexts == Contexts \cup {NoContext}

DataOK ==
  /\ status \in [Sessions -> SessionStatus]
  /\ context \in [Sessions -> StoredContexts]
  /\ messages \in [Sessions -> Seq(Entries)]
  /\ snapshot \in [Runs -> StoredContexts]
  /\ lapsed \in [Sessions -> BOOLEAN]

\* The run of a request is inserted by start_run and ended by the request; it
\* belongs to a session that was created.
InStep(r) ==
  /\ pc[r] \in Idle \cup {"locked", "admitted", "starting"} => runStatus[r] = "none"
  /\ pc[r] = "failing" => runStatus[r] \in {"running", "completed"}
  /\ runStatus[r] # "none" => status[SessionOf[r]] # "none"

\* The memory the turn was given is the one in the row, unless the row was
\* scrubbed meanwhile.
Current(r) ==
  pc[r] \in {"started", "loop"} =>
    \/ MemoryIn(context[SessionOf[r]]) = MemoryIn(snapshot[r])
    \/ context[SessionOf[r]] = NoContext

\* start_run's count: the session has one open turn at most.
OneOpenTurn ==
  \A q, r \in Runs :
    /\ SessionOf[q] = SessionOf[r]
    /\ runStatus[q] = "running" /\ runStatus[r] = "running"
    => q = r

LapsedExist == \A s \in Sessions : lapsed[s] => status[s] # "none"

StoreInv ==
  /\ DataOK
  /\ LapsedExist
  /\ OneOpenTurn
  /\ \A r \in Runs : InStep(r) /\ Current(r)

-----------------------------------------------------------------------------
\* A step keeps StoreInv when sessions stay, a context is replaced only where
\* nobody is inside a turn, and a turn opens only where none is open.
LEMMA StoreStep ==
  ASSUME StoreInv, DataOK', LapsedExist',
         \A s \in Sessions : status[s] # "none" => status'[s] # "none",
         \A s \in Sessions : \/ context'[s] \in {context[s], NoContext}
                             \/ \A q \in InSession(s) : pc'[q] \notin {"started", "loop"},
         \A q \in Runs : \/ /\ pc'[q] = pc[q]
                            /\ runStatus'[q] = runStatus[q]
                            /\ snapshot'[q] = snapshot[q]
                         \/ InStep(q)' /\ Current(q)',
         \A q \in Runs : runStatus'[q] = "running" =>
           \/ runStatus[q] = "running"
           \/ \A p \in InSession(SessionOf[q]) \ {q} : runStatus'[p] # "running"
  PROVE  StoreInv'
<1>1. \A q \in Runs : SessionOf[q] \in Sessions
  BY ConversationAssumption
<1>2. ASSUME NEW q \in Runs
      PROVE  InStep(q)'
  <2>1. CASE pc'[q] = pc[q] /\ runStatus'[q] = runStatus[q]
    BY <1>1, <1>2, <2>1 DEF StoreInv, InStep
  <2> QED BY <2>1
<1>3. ASSUME NEW q \in Runs
      PROVE  Current(q)'
  <2>1. CASE pc'[q] = pc[q] /\ snapshot'[q] = snapshot[q]
    <3> SUFFICES ASSUME pc[q] \in {"started", "loop"}
        PROVE  \/ MemoryIn(context'[SessionOf[q]]) = MemoryIn(snapshot[q])
               \/ context'[SessionOf[q]] = NoContext
      BY <2>1 DEF Current, MemoryIn
    <3>1. q \in InSession(SessionOf[q])
      BY DEF InSession
    <3>2. context'[SessionOf[q]] \in {context[SessionOf[q]], NoContext}
      BY <1>1, <2>1, <3>1
    <3> QED BY <3>2 DEF StoreInv, Current
  <2> QED BY <2>1
<1>4. OneOpenTurn'
  <2> SUFFICES ASSUME NEW q \in Runs, NEW r \in Runs, SessionOf[q] = SessionOf[r],
                      runStatus'[q] = "running", runStatus'[r] = "running", q # r
      PROVE  FALSE
    BY DEF OneOpenTurn
  <2>1. r \in InSession(SessionOf[q]) \ {q} /\ q \in InSession(SessionOf[r]) \ {r}
    BY DEF InSession
  <2>2. runStatus[q] = "running" /\ runStatus[r] = "running"
    BY <2>1
  <2> QED BY <2>2 DEF StoreInv, OneOpenTurn
<1> QED BY <1>2, <1>3, <1>4 DEF StoreInv

\* The common case: one request moves and the rows stay, or its session's do.
LEMMA RequestMoves ==
  ASSUME Inv, StoreInv, NEW r \in Runs, DataOK', UNCHANGED <<lapsed, context>>,
         \A s \in Sessions : status[s] # "none" => status'[s] # "none",
         \A q \in Runs \ {r} : /\ pc'[q] = pc[q]
                               /\ runStatus'[q] = runStatus[q]
                               /\ snapshot'[q] = snapshot[q],
         InStep(r)', Current(r)',
         runStatus'[r] = "running" =>
           runStatus[r] = "running" \/ Running(SessionOf[r]) = {}
  PROVE  StoreInv'
<1>1. LapsedExist'
  BY DEF StoreInv, LapsedExist
<1>2. ASSUME NEW q \in Runs, runStatus'[q] = "running", runStatus[q] # "running"
      PROVE  \A p \in InSession(SessionOf[q]) \ {q} : runStatus'[p] # "running"
  <2>1. q = r /\ Running(SessionOf[r]) = {}
    BY <1>2
  <2> QED BY <2>1 DEF Running, InSession
<1> QED BY <1>1, <1>2, StoreStep

\* The locals of an answered request are gone.
LEMMA Forgotten ==
  ASSUME StoreInv, NEW r \in Runs, Forget({r})
  PROVE  /\ snapshot' \in [Runs -> StoredContexts]
         /\ \A q \in Runs \ {r} : snapshot'[q] = snapshot[q]
BY DEF Forget, StoreInv, DataOK, StoredContexts

\* A request is answered, inside its turn or before it.
LEMMA AnswerStore ==
  ASSUME Inv, StoreInv, NEW r \in Runs, NEW code \in Codes, Answer(r, code),
         UNCHANGED <<lapsed, context, status>>, messages' \in [Sessions -> Seq(Entries)],
         \A q \in Runs \ {r} : runStatus'[q] = runStatus[q],
         runStatus'[r] # "none" => status[SessionOf[r]] # "none",
         runStatus'[r] = "running" =>
           runStatus[r] = "running" \/ Running(SessionOf[r]) = {}
  PROVE  StoreInv'
<1>1. pc' = [pc EXCEPT ![r] = "answered"]
  BY AnswerMoves DEF Inv
<1>2. pc'[r] = "answered" /\ \A q \in Runs \ {r} : pc'[q] = pc[q]
  BY <1>1 DEF Inv, ControlOK
<1>3. /\ snapshot' \in [Runs -> StoredContexts]
      /\ \A q \in Runs \ {r} : snapshot'[q] = snapshot[q]
  BY Forgotten DEF Answer
<1>4. DataOK'
  BY <1>3 DEF StoreInv, DataOK
<1>5. InStep(r)' /\ Current(r)'
  BY <1>2 DEF InStep, Current, Idle
<1> QED BY <1>2, <1>3, <1>4, <1>5, RequestMoves

\* A request moves on and its locals stay.
LEMMA MoveStore ==
  ASSUME Inv, StoreInv, NEW r \in Runs, NEW label \in Labels, Goto(r, label),
         UNCHANGED <<lapsed, context, status, snapshot>>,
         messages' \in [Sessions -> Seq(Entries)],
         \A q \in Runs \ {r} : runStatus'[q] = runStatus[q],
         InStep(r)', Current(r)',
         runStatus'[r] = "running" => runStatus[r] = "running"
  PROVE  StoreInv'
<1>1. pc' = [pc EXCEPT ![r] = label]
  BY GotoMoves DEF Inv
<1>2. \A q \in Runs \ {r} : pc'[q] = pc[q]
  BY <1>1 DEF Inv, ControlOK
<1>3. DataOK'
  BY DEF StoreInv, DataOK
<1> QED BY <1>2, <1>3, RequestMoves

-----------------------------------------------------------------------------
(***************************************************************************)
(* Steps that read the database                                            *)
(***************************************************************************)

LEMMA SubmitStore ==
  ASSUME Inv, StoreInv, NEW r \in Runs, Submit(r)
  PROVE  StoreInv' /\ UNCHANGED db
<1>1. pc[r] = "unsent" /\ UNCHANGED <<db, lapsed>>
  BY DEF Submit
<1>2. PICK label \in {"ready", "answered"} : Goto(r, label)
  BY DEF Submit, Refuse
<1>3. UNCHANGED local
  BY DEF Submit, Refuse, Stay
<1>4. label \in Labels
  BY DEF Labels, Idle, Ended
<1>5. pc' = [pc EXCEPT ![r] = label] /\ pc'[r] = label
  BY <1>2, <1>4, GotoMoves DEF Inv, ControlOK
<1>6. runStatus[r] = "none"
  BY <1>1 DEF StoreInv, InStep, Idle
<1>7. InStep(r)' /\ Current(r)'
  BY <1>1, <1>5, <1>6 DEF InStep, Current, db
<1>8. messages' \in [Sessions -> Seq(Entries)]
  BY <1>1 DEF StoreInv, DataOK, db
<1> QED BY <1>1, <1>2, <1>3, <1>4, <1>6, <1>7, <1>8, MoveStore DEF db, local

LEMMA AcquireLockStore ==
  ASSUME Inv, StoreInv, NEW r \in Runs, AcquireLock(r)
  PROVE  StoreInv' /\ UNCHANGED db
<1>1. pc[r] = "ready" /\ UNCHANGED <<db, lapsed>>
  BY DEF AcquireLock
<1>2. PICK label \in {"locked", "answered"} : Goto(r, label)
  BY DEF AcquireLock, Refuse
<1>3. UNCHANGED local
  BY DEF AcquireLock, Refuse
<1>4. label \in Labels
  BY DEF Labels, Inside, Ended
<1>5. pc' = [pc EXCEPT ![r] = label] /\ pc'[r] = label
  BY <1>2, <1>4, GotoMoves DEF Inv, ControlOK
<1>6. runStatus[r] = "none"
  BY <1>1 DEF StoreInv, InStep, Idle
<1>7. InStep(r)' /\ Current(r)'
  BY <1>1, <1>5, <1>6 DEF InStep, Current, db
<1>8. messages' \in [Sessions -> Seq(Entries)]
  BY <1>1 DEF StoreInv, DataOK, db
<1> QED BY <1>1, <1>2, <1>3, <1>4, <1>6, <1>7, <1>8, MoveStore DEF db, local

LEMMA ReadClockStore ==
  ASSUME Inv, StoreInv, NEW r \in Runs, ReadClock(r)
  PROVE  StoreInv' /\ UNCHANGED db
<1>1. /\ pc[r] = "admitted" /\ Goto(r, "starting")
      /\ UNCHANGED <<db, lapsed, snapshot>>
  BY DEF ReadClock
<1>2. "starting" \in Labels
  BY DEF Labels, Inside
<1>3. pc'[r] = "starting"
  BY <1>1, <1>2, GotoMoves DEF Inv, ControlOK
<1>4. runStatus[r] = "none"
  BY <1>1 DEF StoreInv, InStep
<1>5. InStep(r)' /\ Current(r)'
  BY <1>1, <1>3, <1>4 DEF InStep, Current, db
<1>6. messages' \in [Sessions -> Seq(Entries)]
  BY <1>1 DEF StoreInv, DataOK, db
<1> QED BY <1>1, <1>2, <1>4, <1>5, <1>6, MoveStore DEF db

LEMMA LoadHistoryStore ==
  ASSUME Inv, StoreInv, NEW r \in Runs, LoadHistory(r)
  PROVE  StoreInv' /\ UNCHANGED db
<1>1. /\ pc[r] = "started" /\ Goto(r, "loop")
      /\ UNCHANGED <<db, lapsed, snapshot>>
  BY DEF LoadHistory
<1>2. "loop" \in Labels
  BY DEF Labels, Inside
<1>3. pc'[r] = "loop"
  BY <1>1, <1>2, GotoMoves DEF Inv, ControlOK
<1>4. InStep(r)'
  BY <1>1, <1>3 DEF StoreInv, InStep, db, Idle
<1>5. Current(r)'
  BY <1>1, <1>3 DEF StoreInv, Current, db, MemoryIn
<1>6. messages' \in [Sessions -> Seq(Entries)]
  BY <1>1 DEF StoreInv, DataOK, db
<1> QED BY <1>1, <1>2, <1>4, <1>5, <1>6, MoveStore DEF db

\* The ways to answer that write nothing.
LEMMA AnswerOnly ==
  ASSUME Inv, StoreInv, NEW r \in Runs, NEW code \in Codes, Answer(r, code),
         UNCHANGED <<db, lapsed>>
  PROVE  StoreInv'
<1>1. runStatus[r] # "none" => status[SessionOf[r]] # "none"
  BY DEF StoreInv, InStep
<1>2. messages' \in [Sessions -> Seq(Entries)]
  BY DEF StoreInv, DataOK, db
<1> QED BY <1>1, <1>2, AnswerStore DEF db

-----------------------------------------------------------------------------
(***************************************************************************)
(* Steps that write it                                                     *)
(***************************************************************************)

LEMMA EntryType ==
  ASSUME NEW r \in Runs, NEW k \in Kinds
  PROVE  Entry(r, k) \in Entries
BY DEF Entry, Entries

\* Sessions that expire keep their turns in step.
LEMMA ExpireStore ==
  ASSUME Inv, StoreInv, DataOK', UNCHANGED <<lapsed, runStatus>>,
         \A s \in Sessions : /\ status[s] # "none" => status'[s] # "none"
                             /\ context'[s] \in {context[s], NoContext},
         \A q \in Runs : \/ pc'[q] = pc[q] /\ snapshot'[q] = snapshot[q]
                         \/ InStep(q)' /\ Current(q)'
  PROVE  StoreInv'
<1>1. LapsedExist'
  BY DEF StoreInv, LapsedExist
<1> QED BY <1>1, StoreStep

LEMMA PreflightStore ==
  ASSUME Inv, StoreInv, NEW r \in Runs, Preflight(r)
  PROVE  StoreInv' /\ [Store!Next]_db
<1> DEFINE s == SessionOf[r]
<1>1. pc[r] = "locked" /\ UNCHANGED lapsed
  BY DEF Preflight
<1>2. s \in Sessions /\ runStatus[r] = "none"
  BY <1>1, ConversationAssumption DEF StoreInv, InStep
<1>3. "404" \in Codes /\ "410" \in Codes
  BY DEF Codes
<1>4. CASE (Answer(r, "404") \/ Answer(r, "410")) /\ UNCHANGED db
  BY <1>1, <1>3, <1>4, AnswerOnly
<1>5. CASE Goto(r, "admitted") /\ Stay /\ UNCHANGED db
  <2>1. "admitted" \in Labels
    BY DEF Labels, Inside
  <2>2. pc'[r] = "admitted"
    BY <1>5, <2>1, GotoMoves DEF Inv, ControlOK
  <2>3. InStep(r)' /\ Current(r)'
    BY <1>2, <1>5, <2>2 DEF InStep, Current, db
  <2>4. messages' \in [Sessions -> Seq(Entries)]
    BY <1>5 DEF StoreInv, DataOK, db
  <2> QED BY <1>1, <1>2, <1>5, <2>1, <2>3, <2>4, MoveStore DEF db, Stay, local
<1>6. CASE /\ status[s] = "active" /\ lapsed[s]
           /\ status'  = [status EXCEPT ![s] = "expired"]
           /\ context' = [context EXCEPT ![s] = NoContext]
           /\ Answer(r, "410")
           /\ UNCHANGED <<runStatus, messages>>
  <2>1. /\ pc'[r] = "answered"
        /\ \A q \in Runs \ {r} : pc'[q] = pc[q]
    BY <1>3, <1>6, AnswerMoves DEF Inv, ControlOK
  <2>2. /\ snapshot' \in [Runs -> StoredContexts]
        /\ \A q \in Runs \ {r} : snapshot'[q] = snapshot[q]
    BY <1>6, Forgotten DEF Answer
  <2>3. DataOK'
    BY <1>1, <1>6, <2>2 DEF StoreInv, DataOK, StoredContexts, SessionStatus
  <2>4. \A x \in Sessions : /\ status[x] # "none" => status'[x] # "none"
                            /\ context'[x] \in {context[x], NoContext}
    BY <1>2, <1>6 DEF StoreInv, DataOK
  <2>5. InStep(r)' /\ Current(r)'
    BY <1>2, <1>6, <2>1 DEF InStep, Current, Idle
  <2>6. StoreInv'
    BY <1>1, <1>6, <2>1, <2>2, <2>3, <2>4, <2>5, ExpireStore
  <2>7. Store!Expire({s})
    BY <1>2, <1>6 DEF Store!Expire, StoreInv, DataOK
  <2>8. {s} \in SUBSET Sessions
    BY <1>2
  <2> QED BY <2>6, <2>7, <2>8 DEF Store!Next
<1> QED BY <1>4, <1>5, <1>6 DEF Preflight

\* The insertion of the run, seen from the store.
LEMMA InsertRunStore ==
  ASSUME StoreInv, NEW r \in Runs, pc[r] = "starting", InsertRun(r)
  PROVE  /\ Store!StartRun(r)
         /\ messages' \in [Sessions -> Seq(Entries)]
         /\ status[SessionOf[r]] = "active" /\ Running(SessionOf[r]) = {}
         /\ UNCHANGED <<status, context>>
<1>1. runStatus[r] = "none" /\ SessionOf[r] \in Sessions
  BY ConversationAssumption DEF StoreInv, InStep
<1>2. Entry(r, "user") \in Entries
  BY EntryType DEF Kinds
<1>3. messages' \in [Sessions -> Seq(Entries)]
  BY <1>1, <1>2 DEF InsertRun, StoreInv, DataOK
<1> QED BY <1>1, <1>3 
  DEF InsertRun, Running, InSession, Entry,
      Store!StartRun, Store!Running, Store!InSession, Store!Entry

LEMMA StartRunStore ==
  ASSUME Inv, StoreInv, NEW r \in Runs, StartRun(r)
  PROVE  StoreInv' /\ [Store!Next]_db
<1>1. pc[r] = "starting" /\ UNCHANGED lapsed
  BY DEF StartRun
<1>2. CASE (Answer(r, "409") \/ Answer(r, "410")) /\ UNCHANGED db
  <2>1. "409" \in Codes /\ "410" \in Codes
    BY DEF Codes
  <2> QED BY <1>1, <1>2, <2>1, AnswerOnly
<1>3. CASE /\ InsertRun(r)
           /\ snapshot' = [snapshot EXCEPT ![r] = context[SessionOf[r]]]
           /\ Goto(r, "started")
  <2>1. /\ Store!StartRun(r)
        /\ messages' \in [Sessions -> Seq(Entries)]
        /\ status[SessionOf[r]] = "active" /\ Running(SessionOf[r]) = {}
        /\ UNCHANGED <<status, context>>
    BY <1>1, <1>3, InsertRunStore
  <2>2. /\ runStatus'[r] = "running"
        /\ \A q \in Runs \ {r} : runStatus'[q] = runStatus[q]
    BY <1>3, InsertRunStatus
  <2>3. "started" \in Labels
    BY DEF Labels, Inside
  <2>4. pc'[r] = "started" /\ \A q \in Runs \ {r} : pc'[q] = pc[q]
    BY <1>3, <2>3, GotoMoves DEF Inv, ControlOK
  <2>5. SessionOf[r] \in Sessions
    BY ConversationAssumption
  <2>6. /\ snapshot' \in [Runs -> StoredContexts]
        /\ snapshot'[r] = context[SessionOf[r]]
        /\ \A q \in Runs \ {r} : snapshot'[q] = snapshot[q]
    BY <1>3, <2>5 DEF StoreInv, DataOK
  <2>7. DataOK'
    BY <1>1, <2>1, <2>6 DEF StoreInv, DataOK
  <2>8. InStep(r)'
    BY <2>1, <2>2, <2>4 DEF InStep, Idle
  <2>9. Current(r)'
    BY <2>1, <2>6 DEF Current, MemoryIn
  <2>10. StoreInv'
    BY <1>1, <2>1, <2>2, <2>4, <2>6, <2>7, <2>8, <2>9, RequestMoves
  <2> QED BY <2>1, <2>10 DEF Store!Next
<1> QED BY <1>2, <1>3 DEF StartRun

\* A stored exchange, seen from the store.
LEMMA ExchangeStore ==
  ASSUME StoreInv, NEW r \in Runs, runStatus[r] = "running", AppendExchange(r)
  PROVE  /\ Store!StoreToolExchange(r)
         /\ messages' \in [Sessions -> Seq(Entries)]
         /\ UNCHANGED <<status, context, runStatus>>
<1> DEFINE s    == SessionOf[r]
           log  == messages[s]
           call == Entry(r, "call")
           tool == Entry(r, "tool")
<1>1. s \in Sessions /\ call \in Entries /\ tool \in Entries
  BY ConversationAssumption, EntryType DEF Kinds
<1>2. log \in Seq(Entries)
  BY <1>1 DEF StoreInv, DataOK
<1>3. messages' = [messages EXCEPT ![s] = log \o <<call, tool>>]
  BY DEF AppendExchange
<1>4. log \o <<call, tool>> \in Seq(Entries)
  BY <1>1, <1>2
<1>5. log \o <<call, tool>> = Append(Append(log, call), tool)
  BY <1>1, <1>2
<1>6. messages' \in [Sessions -> Seq(Entries)]
  BY <1>1, <1>3, <1>4 DEF StoreInv, DataOK
<1> QED BY <1>3, <1>5, <1>6 
  DEF AppendExchange, Entry, Store!StoreToolExchange, Store!Entry

LEMMA StoreToolExchangeStore ==
  ASSUME Inv, StoreInv, NEW r \in Runs, StoreToolExchange(r)
  PROVE  StoreInv' /\ [Store!Next]_db
<1>1. pc[r] = "loop" /\ AppendExchange(r) /\ UNCHANGED <<lapsed, pc, snapshot>>
  BY DEF StoreToolExchange, Stay, local
<1>2. runStatus[r] = "running"
  BY <1>1 DEF Inv, RunningRunHasOwner
<1>3. /\ Store!StoreToolExchange(r)
      /\ messages' \in [Sessions -> Seq(Entries)]
      /\ UNCHANGED <<status, context, runStatus>>
  BY <1>1, <1>2, ExchangeStore
<1>4. DataOK'
  BY <1>1, <1>3 DEF StoreInv, DataOK
<1>5. InStep(r)' /\ Current(r)'
  BY <1>1, <1>3 DEF StoreInv, InStep, Current, MemoryIn
<1>6. StoreInv'
  BY <1>1, <1>3, <1>4, <1>5, RequestMoves
<1> QED BY <1>3, <1>6 DEF Store!Next

\* The commit of the answer, seen from the store: the memory it stores goes on
\* from the one the turn was given, which is the one in the row.
LEMMA CommitStore ==
  ASSUME StoreInv, NEW r \in Runs, pc[r] = "loop", runStatus[r] = "running",
         CommitAnswer(r)
  PROVE  /\ Store!CompleteRun(r)
         /\ messages' \in [Sessions -> Seq(Entries)]
         /\ context' \in [Sessions -> StoredContexts]
         /\ \A s \in Sessions \ {SessionOf[r]} : context'[s] = context[s]
         /\ UNCHANGED status
<1> DEFINE s == SessionOf[r]
<1>1. PICK memory \in Successors(MemoryIn(snapshot[r]), r), products \in {r, NoRun} :
        context' = [context EXCEPT ![s] = WithMemory(@, memory, products)]
  BY DEF CommitAnswer
<1>2. s \in Sessions /\ Entry(r, "answer") \in Entries
  BY ConversationAssumption, EntryType DEF Kinds
<1>3. messages' \in [Sessions -> Seq(Entries)]
  BY <1>2 DEF CommitAnswer, StoreInv, DataOK
<1>4. MemoryIn(snapshot[r]) \in Memory
  <2>1. snapshot[r] \in StoredContexts
    BY DEF StoreInv, DataOK
  <2>2. FreshMemory \in Memory
    BY DEF FreshMemory, Memory
  <2> QED BY <2>1, <2>2 DEF StoredContexts, MemoryIn, Contexts
<1>5. memory \in Memory
  <2>1. MemoryIn(snapshot[r]).revision \in Nat
    BY <1>4 DEF Memory
  <2>2. [revision |-> MemoryIn(snapshot[r]).revision + 1, author |-> r] \in Memory
    BY <2>1 DEF Memory
  <2> QED BY <1>1, <1>4, <2>2 DEF Successors
<1>6. context[s] \in StoredContexts
  BY <1>2 DEF StoreInv, DataOK
<1>7. ProductsIn(context[s]) \in Runs \cup {NoRun}
  BY <1>6 DEF ProductsIn, StoredContexts, Contexts
<1>8. WithMemory(context[s], memory, products) \in StoredContexts
  BY <1>5, <1>7 DEF WithMemory, StoredContexts, Contexts
<1>9. /\ context' \in [Sessions -> StoredContexts]
      /\ context'[s] = WithMemory(context[s], memory, products)
      /\ \A x \in Sessions \ {s} : context'[x] = context[x]
  BY <1>1, <1>2, <1>8 DEF StoreInv, DataOK
<1>10. context'[s].memory = memory
  BY <1>9 DEF WithMemory
<1>11. memory \in Successors(MemoryIn(context[s]), r) \/ context[s] = NoContext
  BY <1>1 DEF StoreInv, Current
<1>12. context' = [context EXCEPT ![s] = WithMemory(@, context'[s].memory, products)]
  BY <1>1, <1>10
<1>13. Store!CompleteRun(r)
  BY <1>11, <1>12, <1>10
  DEF CommitAnswer, Store!CompleteRun, Entry, Store!Entry, WithMemory, Store!WithMemory,
      ProductsIn, Store!ProductsIn, Successors, Store!Successors,
      MemoryIn, Store!MemoryIn, FreshMemory, Store!FreshMemory
<1> QED BY <1>3, <1>9, <1>13 DEF CommitAnswer

\* A request commits its answer and goes on to respond, or to fail.
LEMMA CommittedStore ==
  ASSUME Inv, StoreInv, NEW r \in Runs, pc[r] = "loop", CommitAnswer(r),
         NEW label \in {"committed", "failing"}, Goto(r, label),
         UNCHANGED <<lapsed, snapshot>>
  PROVE  StoreInv' /\ Store!Next
<1>1. runStatus[r] = "running"
  BY DEF Inv, RunningRunHasOwner
<1>2. /\ Store!CompleteRun(r)
      /\ messages' \in [Sessions -> Seq(Entries)]
      /\ context' \in [Sessions -> StoredContexts]
      /\ \A s \in Sessions \ {SessionOf[r]} : context'[s] = context[s]
      /\ UNCHANGED status
  BY <1>1, CommitStore
<1>3. /\ runStatus'[r] = "completed"
      /\ \A q \in Runs \ {r} : runStatus'[q] = runStatus[q]
  BY CommitAnswerStatus
<1>4. label \in Labels
  BY DEF Labels, Inside
<1>5. pc'[r] = label /\ \A q \in Runs \ {r} : pc'[q] = pc[q]
  BY <1>4, GotoMoves DEF Inv, ControlOK
<1>6. DataOK' /\ LapsedExist'
  BY <1>2 DEF StoreInv, DataOK, LapsedExist
<1>7. status[SessionOf[r]] # "none"
  BY <1>1 DEF StoreInv, InStep
<1>8. InStep(r)' /\ Current(r)'
  BY <1>2, <1>3, <1>5, <1>7 DEF InStep, Current, Idle
<1>9. \A q \in InSession(SessionOf[r]) : pc'[q] \notin {"started", "loop"}
  <2> SUFFICES ASSUME NEW q \in InSession(SessionOf[r]), q # r,
                      pc[q] \in {"started", "loop"}
      PROVE  FALSE
    BY <1>5 DEF InSession
  <2>1. q \in Runs /\ SessionOf[q] = SessionOf[r]
    BY DEF InSession
  <2>2. runStatus[q] = "running"
    BY <2>1 DEF Inv, RunningRunHasOwner
  <2> QED BY <1>1, <2>1, <2>2 DEF StoreInv, OneOpenTurn
<1>10. \A s \in Sessions : \/ context'[s] \in {context[s], NoContext}
                           \/ \A q \in InSession(s) : pc'[q] \notin {"started", "loop"}
  BY <1>2, <1>9
<1>11. \A q \in Runs : runStatus'[q] = "running" => runStatus[q] = "running"
  BY <1>3
<1>12. StoreInv'
  BY <1>2, <1>3, <1>5, <1>6, <1>8, <1>10, <1>11, StoreStep
<1> QED BY <1>2, <1>12 DEF Store!Next

LEMMA CompleteRunStore ==
  ASSUME Inv, StoreInv, NEW r \in Runs, CompleteRun(r)
  PROVE  StoreInv' /\ Store!Next
BY CommittedStore DEF CompleteRun, Stay, local

LEMMA RespondStore ==
  ASSUME Inv, StoreInv, NEW r \in Runs, Respond(r)
  PROVE  StoreInv' /\ UNCHANGED db
<1>1. "200" \in Codes
  BY DEF Codes
<1> QED BY <1>1, AnswerOnly DEF Respond

LEMMA MarkFailedStore ==
  ASSUME Inv, StoreInv, NEW r \in Runs, MarkFailed(r)
  PROVE  StoreInv' /\ [Store!Next]_db
<1>1. /\ pc[r] = "failing" /\ Answer(r, "503")
      /\ UNCHANGED <<status, context, messages, lapsed>>
  BY DEF MarkFailed
<1>2. "503" \in Codes
  BY DEF Codes
<1>3. runStatus[r] \in {"running", "completed"} /\ status[SessionOf[r]] # "none"
  BY <1>1 DEF StoreInv, InStep
<1>4. CASE runStatus' = [runStatus EXCEPT ![r] = "failed"]
  <2>1. /\ runStatus'[r] = "failed"
        /\ \A q \in Runs \ {r} : runStatus'[q] = runStatus[q]
    BY <1>4 DEF Inv, ControlOK
  <2>2. messages' \in [Sessions -> Seq(Entries)]
    BY <1>1 DEF StoreInv, DataOK
  <2>3. StoreInv'
    BY <1>1, <1>2, <1>3, <2>1, <2>2, AnswerStore
  <2>4. Store!FailRun(r)
    BY <1>1, <1>3, <1>4 DEF Store!FailRun
  <2> QED BY <2>3, <2>4 DEF Store!Next
<1>5. CASE UNCHANGED runStatus
  BY <1>1, <1>2, <1>5, AnswerOnly DEF db
<1> QED BY <1>4, <1>5 DEF MarkFailed

-----------------------------------------------------------------------------
(***************************************************************************)
(* Faults, the clock and the scrubber                                      *)
(***************************************************************************)

\* A request inside its turn turns to failing and no row but the log moves.
LEMMA FailingStore ==
  ASSUME Inv, StoreInv, NEW r \in Runs, pc[r] \in {"started", "loop"},
         Goto(r, "failing"),
         UNCHANGED <<lapsed, context, status, runStatus, snapshot>>,
         messages' \in [Sessions -> Seq(Entries)]
  PROVE  StoreInv'
<1>1. runStatus[r] = "running"
  BY DEF Inv, RunningRunHasOwner
<1>2. status[SessionOf[r]] # "none"
  BY <1>1 DEF StoreInv, InStep
<1>3. "failing" \in Labels
  BY DEF Labels, Inside
<1>4. pc'[r] = "failing"
  BY <1>3, GotoMoves DEF Inv, ControlOK
<1>5. InStep(r)' /\ Current(r)'
  BY <1>1, <1>2, <1>4 DEF InStep, Current, Idle
<1> QED BY <1>1, <1>3, <1>5, MoveStore

LEMMA FaultStore ==
  ASSUME Inv, StoreInv, NEW r \in Runs, Fault(r)
  PROVE  StoreInv' /\ [Store!Next]_db
<1>1. "503" \in Codes
  BY DEF Codes
<1>2. UNCHANGED lapsed
  BY DEF Fault, DatabaseError, LostAck, ProviderError
<1>3. CASE Answer(r, "503") /\ UNCHANGED db
  BY <1>1, <1>2, <1>3, AnswerOnly
<1>4. CASE pc[r] \in {"started", "loop"} /\ Goto(r, "failing") /\ Stay /\ UNCHANGED db
  <2>1. messages' \in [Sessions -> Seq(Entries)]
    BY <1>4 DEF StoreInv, DataOK, db
  <2> QED BY <1>2, <1>4, <2>1, FailingStore DEF db, Stay, local
<1>5. CASE pc[r] = "starting" /\ InsertRun(r) /\ Answer(r, "503")
  <2>1. /\ Store!StartRun(r)
        /\ messages' \in [Sessions -> Seq(Entries)]
        /\ status[SessionOf[r]] = "active" /\ Running(SessionOf[r]) = {}
        /\ UNCHANGED <<status, context>>
    BY <1>5, InsertRunStore
  <2>2. \A q \in Runs \ {r} : runStatus'[q] = runStatus[q]
    BY <1>5, InsertRunStatus
  <2>3. StoreInv'
    BY <1>1, <1>2, <1>5, <2>1, <2>2, AnswerStore
  <2> QED BY <2>1, <2>3 DEF Store!Next
<1>6. CASE pc[r] = "loop" /\ AppendExchange(r) /\ Goto(r, "failing") /\ Stay
  <2>1. runStatus[r] = "running"
    BY <1>6 DEF Inv, RunningRunHasOwner
  <2>2. /\ Store!StoreToolExchange(r)
        /\ messages' \in [Sessions -> Seq(Entries)]
        /\ UNCHANGED <<status, context, runStatus>>
    BY <1>6, <2>1, ExchangeStore
  <2>3. StoreInv'
    BY <1>2, <1>6, <2>2, FailingStore DEF Stay, local
  <2> QED BY <2>2, <2>3 DEF Store!Next
<1>7. CASE pc[r] = "loop" /\ CommitAnswer(r) /\ Goto(r, "failing") /\ Stay
  BY <1>2, <1>7, CommittedStore DEF Stay, local
<1> QED
  BY <1>3, <1>4, <1>5, <1>6, <1>7 DEF Fault, DatabaseError, LostAck, ProviderError

LEMMA CrashStore ==
  ASSUME Inv, StoreInv, NEW w \in Workers, Crash(w)
  PROVE  StoreInv' /\ UNCHANGED db
<1>1. /\ \A q \in Runs :
           \/ pc'[q] = pc[q] /\ snapshot'[q] = snapshot[q]
           \/ pc'[q] = "dead"
      /\ UNCHANGED <<db, lapsed>>
  BY DEF Crash, Forget, Inv, ControlOK
<1>2. snapshot' \in [Runs -> StoredContexts]
  BY DEF Crash, Forget, StoreInv, DataOK, StoredContexts
<1>3. DataOK' /\ LapsedExist'
  BY <1>1, <1>2 DEF StoreInv, DataOK, LapsedExist, db
<1>4. ASSUME NEW q \in Runs, pc'[q] = "dead"
      PROVE  InStep(q)' /\ Current(q)'
  BY <1>1, <1>4 DEF StoreInv, InStep, Current, Idle, db
<1> QED BY <1>1, <1>3, <1>4, StoreStep DEF db

\* A round of the scrubber expires the sessions it matches.
LEMMA ScrubStore ==
  ASSUME Inv, StoreInv, ScrubExpired, UNCHANGED <<lapsed, pc, snapshot>>
  PROVE  StoreInv' /\ Store!Next
<1> DEFINE S == {s \in Sessions : Scrubbable(s)}
<1>1. \A s \in S : status[s] # "none"
  BY DEF Scrubbable, StoreInv, LapsedExist
<1>2. Store!Expire(S)
  BY <1>1 DEF ScrubExpired, Store!Expire
<1>3. \A s \in Sessions : /\ status[s] # "none" => status'[s] # "none"
                          /\ context'[s] \in {context[s], NoContext}
  BY DEF ScrubExpired
<1>4. DataOK'
  BY DEF ScrubExpired, StoreInv, DataOK, StoredContexts, SessionStatus
<1>5. StoreInv'
  BY <1>3, <1>4, ExpireStore DEF ScrubExpired
<1>6. S \in SUBSET Sessions
  OBVIOUS
<1> QED BY <1>2, <1>5, <1>6 DEF Store!Next

LEMMA CreateSessionStore ==
  ASSUME Inv, StoreInv, NEW s \in Sessions, CreateSession(s)
  PROVE  StoreInv' /\ Store!Next
<1>1. FreshContext \in StoredContexts
  BY DEF FreshContext, FreshMemory, StoredContexts, Contexts, Memory
<1>2. UNCHANGED <<runStatus, messages, lapsed, pc, snapshot>>
  BY DEF CreateSession, local
<1>3. DataOK'
  BY <1>1, <1>2 DEF CreateSession, StoreInv, DataOK, SessionStatus
<1>4. \A x \in Sessions \ {s} : status'[x] = status[x] /\ context'[x] = context[x]
  BY DEF CreateSession, StoreInv, DataOK
<1>5. status[s] = "none" /\ status'[s] = "active"
  BY DEF CreateSession, StoreInv, DataOK
<1>6. \A q \in InSession(s) : pc'[q] \notin {"started", "loop"}
  BY <1>2, <1>5 DEF InSession, StoreInv, InStep, Inv, RunningRunHasOwner
<1>7. LapsedExist'
  BY <1>2, <1>4, <1>5 DEF StoreInv, LapsedExist
<1>8. StoreInv'
  BY <1>2, <1>3, <1>4, <1>5, <1>6, <1>7, StoreStep
<1>9. Store!CreateSession(s)
  BY DEF CreateSession, Store!CreateSession, FreshContext, Store!FreshContext,
         FreshMemory, Store!FreshMemory
<1> QED BY <1>8, <1>9 DEF Store!Next

LEMMA LapseStore ==
  ASSUME Inv, StoreInv, NEW s \in Sessions, Lapse(s)
  PROVE  StoreInv' /\ UNCHANGED db
<1>1. UNCHANGED <<db, pc, snapshot>>
  BY DEF Lapse, local
<1>2. DataOK' /\ LapsedExist'
  BY <1>1 DEF Lapse, StoreInv, DataOK, LapsedExist, db
<1> QED BY <1>1, <1>2, StoreStep DEF db

-----------------------------------------------------------------------------
(***************************************************************************)
(* The result                                                              *)
(***************************************************************************)

LEMMA InitStore == Init => StoreInv /\ Store!Init
<1> SUFFICES ASSUME Init PROVE StoreInv /\ Store!Init
  OBVIOUS
<1>1. DataOK
  BY DEF Init, DataOK, StoredContexts, SessionStatus
<1>2. LapsedExist /\ OneOpenTurn
  BY DEF Init, LapsedExist, OneOpenTurn
<1>3. \A r \in Runs : InStep(r) /\ Current(r)
  BY DEF Init, InStep, Current
<1> QED BY <1>1, <1>2, <1>3 DEF StoreInv, Init, Store!Init

LEMMA NextStore == Inv /\ StoreInv /\ [Next]_vars => StoreInv' /\ [Store!Next]_db
<1> SUFFICES ASSUME Inv, StoreInv, [Next]_vars
    PROVE  StoreInv' /\ [Store!Next]_db
  OBVIOUS
<1>1. CASE \E s \in Sessions : CreateSession(s) \/ Lapse(s)
  BY <1>1, CreateSessionStore, LapseStore
<1>2. CASE Scrub \/ \E w \in Workers : Restart(w)
  <2>1. ScrubExpired /\ UNCHANGED <<lapsed, pc, snapshot>>
    BY <1>2 DEF Scrub, Restart, local
  <2> QED BY <2>1, ScrubStore
<1>3. CASE \E r \in Runs : Submit(r) \/ RequestStep(r) \/ Fault(r)
  BY <1>3, SubmitStore, AcquireLockStore, PreflightStore, ReadClockStore,
     StartRunStore, LoadHistoryStore, StoreToolExchangeStore, CompleteRunStore,
     RespondStore, MarkFailedStore, FaultStore DEF RequestStep
<1>4. CASE \E w \in Workers : Crash(w)
  BY <1>4, CrashStore
<1>5. CASE UNCHANGED vars
  <2>1. UNCHANGED <<db, lapsed, pc, snapshot>>
    BY <1>5 DEF vars, local
  <2>2. DataOK' /\ LapsedExist'
    BY <2>1 DEF StoreInv, DataOK, LapsedExist, db
  <2> QED BY <2>1, <2>2, StoreStep DEF db
<1> QED BY <1>1, <1>2, <1>3, <1>4, <1>5 DEF Next

\* The locks of all the processes, every fault and the scrubber leave the
\* database in the states of a serial conversation store: repositories.py
\* under routes_chat.py and runtime.py.
THEOREM Refinement == Spec => ImplementsStore
<1>1. Inv /\ StoreInv /\ [Next]_vars => StoreInv' /\ [Store!Next]_(Store!vars)
  BY NextStore DEF db, Store!vars
<1> QED
  BY <1>1, InitStore, InvAlways, PTL DEF Spec, ImplementsStore, Store!Spec

-----------------------------------------------------------------------------
(***************************************************************************)
(* What a client is told, and what the model is told                       *)
(***************************************************************************)

Refusals == {"404", "409", "410"}

\* The reply of request r against its run and its messages, and the history
\* of a request at work against the log.
Told(r) ==
  /\ runStatus[r] = "none" => NoMessage(r)
  /\ pc[r] = "committed" \/ reply[r] = "200" =>
       runStatus[r] = "completed" /\ AnswerLast(r)
  /\ reply[r] \in Refusals => runStatus[r] = "none"
  /\ reply[r] # "none" => pc[r] = "answered"
  /\ pc[r] = "loop" => history[r] = FinalHistory(r)

TalkInv ==
  /\ DOMAIN history = Runs
  /\ \A r \in Runs : Told(r)

TurnInv == Inv /\ StoreInv /\ TalkInv

\* The step appends rows of run r to the log of its session.
Appends(r, rows) ==
  messages' = [messages EXCEPT ![SessionOf[r]] = @ \o rows]

\* The rows another run appends leave the rows and the answer of run q.
LEMMA OthersRows ==
  ASSUME DataOK, NEW r \in Runs, NEW q \in Runs, q # r, NEW rows \in Seq(Entries),
         \A k \in 1 .. Len(rows) : rows[k].run = r, Appends(r, rows)
  PROVE  /\ NoMessage(q) => NoMessage(q)'
         /\ AnswerLast(q) => AnswerLast(q)'
<1> DEFINE log == messages[SessionOf[q]]
<1>1. SessionOf[q] \in Sessions /\ SessionOf[r] \in Sessions
  BY ConversationAssumption
<1>2. log \in Seq(Entries)
  BY <1>1 DEF DataOK
<1>3. CASE SessionOf[q] # SessionOf[r]
  <2>1. log' = log
    BY <1>1, <1>3 DEF DataOK, Appends
  <2> QED BY <2>1 DEF NoMessage, AnswerLast
<1>4. CASE SessionOf[q] = SessionOf[r]
  <2>1. log' = log \o rows
    BY <1>1, <1>4 DEF DataOK, Appends
  <2>2. /\ DOMAIN log = 1 .. Len(log) /\ DOMAIN log' = 1 .. Len(log) + Len(rows)
        /\ Len(log) \in Nat /\ Len(rows) \in Nat
        /\ \A n \in 1 .. Len(log) : log'[n] = log[n]
    BY <1>2, <2>1
  <2>3. ASSUME NEW n \in DOMAIN log', n \notin DOMAIN log
        PROVE  log'[n].run = r
    <3>1. n - Len(log) \in 1 .. Len(rows) /\ log'[n] = rows[n - Len(log)]
      BY <1>2, <2>1, <2>2, <2>3
    <3> QED BY <3>1
  <2> HIDE DEF log
  <2>4. (\A n \in DOMAIN log : log[n].run # q) => \A n \in DOMAIN log' : log'[n].run # q
    BY <2>2, <2>3
  <2>5. ASSUME NEW n \in DOMAIN log, log[n] = Entry(q, "answer"),
               \A k \in DOMAIN log : log[k].run = q => k <= n
        PROVE  /\ n \in DOMAIN log' /\ log'[n] = Entry(q, "answer")
               /\ \A k \in DOMAIN log' : log'[k].run = q => k <= n
    BY <2>2, <2>3, <2>5
  <2> QED BY <2>4, <2>5 DEF NoMessage, AnswerLast, log
<1> QED BY <1>3, <1>4

\* Its own rows are not part of the history of run r.
LEMMA OwnRowsHidden ==
  ASSUME DataOK, NEW r \in Runs, NEW rows \in Seq(Entries),
         \A k \in 1 .. Len(rows) : rows[k].run = r, Appends(r, rows)
  PROVE  FinalHistory(r)' = FinalHistory(r)
<1> DEFINE log == messages[SessionOf[r]]
<1>1. SessionOf[r] \in Sessions
  BY ConversationAssumption
<1>2. log \in Seq(Entries) /\ log' = log \o rows
  BY <1>1 DEF DataOK, Appends
<1>3. /\ DOMAIN log = 1 .. Len(log) /\ DOMAIN log' = 1 .. Len(log) + Len(rows)
      /\ Len(log) \in Nat /\ Len(rows) \in Nat
      /\ \A n \in 1 .. Len(log) : log'[n] = log[n]
  BY <1>2
<1>4. ASSUME NEW n \in DOMAIN log', n \notin DOMAIN log
      PROVE  log'[n].run = r
  <2>1. n - Len(log) \in 1 .. Len(rows) /\ log'[n] = rows[n - Len(log)]
    BY <1>2, <1>3, <1>4
  <2> QED BY <2>1
<1> HIDE DEF log
<1>5. FinalRows(r)' = FinalRows(r)
  <2>1. {n \in DOMAIN log' : log'[n].run # r /\ log'[n].kind \in {"user", "answer"}}
        = {n \in DOMAIN log : log[n].run # r /\ log[n].kind \in {"user", "answer"}}
    BY <1>3, <1>4
  <2> QED BY <2>1 DEF FinalRows, log
<1>6. NewestRows(r)' = NewestRows(r)
  BY <1>5 DEF NewestRows
<1>7. \A n \in NewestRows(r) : log'[n] = log[n]
  BY <1>3 DEF NewestRows, FinalRows, log
<1> QED BY <1>6, <1>7 DEF FinalHistory, log

\* A log that ends in the answer of its run.
LEMMA AnswerAppended ==
  ASSUME DataOK, NEW r \in Runs, Appends(r, <<Entry(r, "answer")>>)
  PROVE  AnswerLast(r)'
<1> DEFINE log == messages[SessionOf[r]]
<1>1. SessionOf[r] \in Sessions /\ Entry(r, "answer") \in Entries
  BY ConversationAssumption, EntryType DEF Kinds
<1>2. log \in Seq(Entries) /\ log' = log \o <<Entry(r, "answer")>>
  BY <1>1 DEF DataOK, Appends
<1>3. /\ DOMAIN log' = 1 .. Len(log) + 1 /\ Len(log) \in Nat
      /\ log'[Len(log) + 1] = Entry(r, "answer")
  BY <1>1, <1>2
<1> QED BY <1>3 DEF AnswerLast

\* Nothing a log does not change is told otherwise.
LEMMA SameLog ==
  ASSUME NEW q \in Runs, UNCHANGED messages
  PROVE  /\ NoMessage(q)' <=> NoMessage(q)
         /\ AnswerLast(q)' <=> AnswerLast(q)
         /\ FinalHistory(q)' = FinalHistory(q)
BY DEF NoMessage, AnswerLast, FinalHistory, NewestRows, FinalRows

-----------------------------------------------------------------------------
\* One request moves: the log is left alone, or it appends rows of its own at
\* a time when no other request of the session is in its loop.
LEMMA TalkStep ==
  ASSUME TurnInv, NEW r \in Runs, Told(r)', DOMAIN history' = Runs,
         \A q \in Runs \ {r} : /\ pc'[q] = pc[q]
                               /\ reply'[q] = reply[q]
                               /\ runStatus'[q] = runStatus[q]
                               /\ history'[q] = history[q],
         \/ UNCHANGED messages
         \/ /\ \A q \in InSession(SessionOf[r]) \ {r} : pc[q] # "loop"
            /\ \E rows \in Seq(Entries) :
                 /\ \A k \in 1 .. Len(rows) : rows[k].run = r
                 /\ Appends(r, rows)
  PROVE  TalkInv'
<1> SUFFICES ASSUME NEW q \in Runs, q # r PROVE Told(q)'
  BY DEF TalkInv
<1>1. /\ NoMessage(q) => NoMessage(q)'
      /\ AnswerLast(q) => AnswerLast(q)'
  BY SameLog, OthersRows DEF TurnInv, StoreInv
<1>2. pc[q] = "loop" => FinalHistory(q)' = FinalHistory(q)
  <2>1. CASE UNCHANGED messages
    BY <2>1, SameLog
  <2>2. CASE /\ SessionOf[q] # SessionOf[r]
             /\ \E rows \in Seq(Entries) : Appends(r, rows)
    <3>1. SessionOf[q] \in Sessions /\ messages'[SessionOf[q]] = messages[SessionOf[q]]
      BY <2>2, ConversationAssumption DEF Appends, TurnInv, StoreInv, DataOK
    <3> QED BY <3>1 DEF FinalHistory, NewestRows, FinalRows
  <2>3. SessionOf[q] = SessionOf[r] => q \in InSession(SessionOf[r]) \ {r}
    BY DEF InSession
  <2> QED BY <2>1, <2>2, <2>3
<1>3. Told(q)
  BY DEF TurnInv, TalkInv
<1> QED BY <1>1, <1>2, <1>3 DEF Told

\* A request that is inside its turn is the only one of its session there.
LEMMA AloneInLoop ==
  ASSUME TurnInv, NEW r \in Runs,
         runStatus[r] = "running" \/ Running(SessionOf[r]) = {}
  PROVE  \A q \in InSession(SessionOf[r]) \ {r} : pc[q] # "loop"
<1> SUFFICES ASSUME NEW q \in Runs, SessionOf[q] = SessionOf[r], q # r, pc[q] = "loop"
    PROVE  FALSE
  BY DEF InSession
<1>1. runStatus[q] = "running"
  BY DEF TurnInv, Inv, RunningRunHasOwner
<1> QED BY <1>1 DEF Running, InSession, TurnInv, StoreInv, OneOpenTurn

\* What an answer forgets is the answered request's.
LEMMA HistoryForgotten ==
  ASSUME NEW r \in Runs, Forget({r})
  PROVE  DOMAIN history' = Runs /\ \A q \in Runs \ {r} : history'[q] = history[q]
BY DEF Forget

\* A request that has not been answered has no reply.
LEMMA NotTold ==
  ASSUME TurnInv, NEW r \in Runs, pc[r] # "answered"
  PROVE  reply[r] = "none"
BY DEF TurnInv, TalkInv, Told

\* A request is answered, or refused before its turn, and writes nothing but
\* perhaps the end of its run.
LEMMA AnswerTalk ==
  ASSUME TurnInv, NEW r \in Runs, NEW code \in Codes, UNCHANGED messages,
         Answer(r, code) \/ Refuse(r, code),
         \A q \in Runs \ {r} : runStatus'[q] = runStatus[q],
         runStatus'[r] = "none" => runStatus[r] = "none",
         code \in Refusals => runStatus'[r] = "none",
         code = "200" => pc[r] = "committed" /\ runStatus'[r] = runStatus[r]
  PROVE  TalkInv'
<1>1. /\ pc' = [pc EXCEPT ![r] = "answered"] /\ reply' = [reply EXCEPT ![r] = code]
  BY DEF Answer, Refuse, Goto
<1>2. /\ pc'[r] = "answered" /\ reply'[r] = code
      /\ \A q \in Runs \ {r} : pc'[q] = pc[q] /\ reply'[q] = reply[q]
  BY <1>1 DEF TurnInv, Inv, ControlOK
<1>3. DOMAIN history' = Runs /\ \A q \in Runs \ {r} : history'[q] = history[q]
  BY HistoryForgotten DEF Answer, Refuse, local, TurnInv, TalkInv
<1>4. Told(r)
  BY DEF TurnInv, TalkInv
<1>5. Told(r)'
  BY <1>2, <1>4, SameLog DEF Told
<1> QED BY <1>2, <1>3, <1>5, TalkStep

\* A request moves on and writes nothing.
LEMMA MoveTalk ==
  ASSUME TurnInv, NEW r \in Runs, NEW label \in Labels, Goto(r, label),
         UNCHANGED <<messages, runStatus, reply, history>>,
         pc[r] # "answered", label \notin {"committed", "loop"}
  PROVE  TalkInv'
<1>1. pc'[r] = label /\ \A q \in Runs \ {r} : pc'[q] = pc[q]
  BY GotoMoves DEF TurnInv, Inv, ControlOK
<1>2. Told(r) /\ DOMAIN history' = Runs
  BY DEF TurnInv, TalkInv
<1>3. Told(r)'
  BY <1>1, <1>2, NotTold, SameLog DEF Told
<1> QED BY <1>1, <1>2, <1>3, TalkStep

-----------------------------------------------------------------------------
LEMMA SubmitTalk ==
  ASSUME TurnInv, NEW r \in Runs, Submit(r)
  PROVE  TalkInv'
<1>1. pc[r] = "unsent" /\ UNCHANGED <<messages, runStatus>>
  BY DEF Submit, db
<1>2. CASE Goto(r, "ready") /\ Stay
  <2>1. "ready" \in Labels
    BY DEF Labels, Idle
  <2> QED BY <1>1, <1>2, <2>1, MoveTalk DEF Stay, local
<1>3. CASE Refuse(r, "503")
  <2>1. "503" \in Codes /\ "503" \notin Refusals
    BY DEF Codes, Refusals
  <2> QED BY <1>1, <1>3, <2>1, AnswerTalk
<1> QED BY <1>2, <1>3 DEF Submit

LEMMA AcquireLockTalk ==
  ASSUME TurnInv, NEW r \in Runs, AcquireLock(r)
  PROVE  TalkInv'
<1>1. pc[r] = "ready" /\ UNCHANGED <<messages, runStatus>>
  BY DEF AcquireLock, db
<1>2. runStatus[r] = "none"
  BY <1>1 DEF TurnInv, StoreInv, InStep, Idle
<1>3. CASE Refuse(r, "409")
  <2>1. "409" \in Codes
    BY DEF Codes
  <2> QED BY <1>1, <1>2, <1>3, <2>1, AnswerTalk
<1>4. CASE Goto(r, "locked") /\ UNCHANGED <<reply, local>>
  <2>1. "locked" \in Labels
    BY DEF Labels, Inside
  <2> QED BY <1>1, <1>4, <2>1, MoveTalk DEF local
<1> QED BY <1>3, <1>4 DEF AcquireLock

LEMMA PreflightTalk ==
  ASSUME TurnInv, NEW r \in Runs, Preflight(r)
  PROVE  TalkInv'
<1>1. pc[r] = "locked" /\ UNCHANGED <<messages, runStatus>>
  BY DEF Preflight, db
<1>2. runStatus[r] = "none"
  BY <1>1 DEF TurnInv, StoreInv, InStep
<1>3. CASE Answer(r, "404") \/ Answer(r, "410")
  <2>1. "404" \in Codes /\ "410" \in Codes
    BY DEF Codes
  <2> QED BY <1>1, <1>2, <1>3, <2>1, AnswerTalk
<1>4. CASE Goto(r, "admitted") /\ Stay
  <2>1. "admitted" \in Labels
    BY DEF Labels, Inside
  <2> QED BY <1>1, <1>4, <2>1, MoveTalk DEF Stay, local
<1> QED BY <1>3, <1>4 DEF Preflight

LEMMA ReadClockTalk ==
  ASSUME TurnInv, NEW r \in Runs, ReadClock(r)
  PROVE  TalkInv'
<1>1. "starting" \in Labels
  BY DEF Labels, Inside
<1> QED BY <1>1, MoveTalk DEF ReadClock, db

\* The question of a request whose run is inserted, whatever it is told.
LEMMA InsertTalk ==
  ASSUME TurnInv, NEW r \in Runs, pc[r] = "starting", InsertRun(r),
         \/ Goto(r, "started") /\ UNCHANGED <<reply, history>>
         \/ Answer(r, "503")
  PROVE  TalkInv'
<1> DEFINE rows == <<Entry(r, "user")>>
<1>1. Running(SessionOf[r]) = {} /\ Appends(r, rows)
  <2>1. messages[SessionOf[r]] \in Seq(Entries) /\ Entry(r, "user") \in Entries
    BY ConversationAssumption, EntryType DEF TurnInv, StoreInv, DataOK, Kinds
  <2>2. Append(messages[SessionOf[r]], Entry(r, "user")) = messages[SessionOf[r]] \o rows
    BY <2>1
  <2> QED BY <2>2 DEF InsertRun, Appends
<1>2. rows \in Seq(Entries) /\ \A k \in 1 .. Len(rows) : rows[k].run = r
  <2>1. Entry(r, "user") \in Entries
    BY EntryType DEF Kinds
  <2> QED BY <2>1 DEF Entry
<1>3. runStatus'[r] = "running" /\ \A q \in Runs \ {r} : runStatus'[q] = runStatus[q]
  BY InsertRunStatus DEF TurnInv
<1>4. PICK label \in {"started", "answered"} : Goto(r, label)
  BY DEF Answer
<1>5. /\ pc'[r] = label
      /\ \A q \in Runs \ {r} : pc'[q] = pc[q]
      /\ reply'[r] # "none" => label = "answered" /\ reply'[r] = "503"
      /\ \A q \in Runs \ {r} : reply'[q] = reply[q]
  <2>1. label \in Labels /\ "answered" # "started"
    BY DEF Labels, Inside, Ended
  <2>2. pc'[r] = label /\ \A q \in Runs \ {r} : pc'[q] = pc[q]
    BY <1>4, <2>1, GotoMoves DEF TurnInv, Inv, ControlOK
  <2> QED BY <2>2, NotTold DEF Answer, Goto, TurnInv, Inv, ControlOK
<1>6. DOMAIN history' = Runs /\ \A q \in Runs \ {r} : history'[q] = history[q]
  BY HistoryForgotten DEF Answer, TurnInv, TalkInv
<1>7. Told(r)'
  BY <1>3, <1>5 DEF Told, Refusals
<1> QED BY <1>1, <1>2, <1>3, <1>5, <1>6, <1>7, AloneInLoop, TalkStep

LEMMA StartRunTalk ==
  ASSUME TurnInv, NEW r \in Runs, StartRun(r)
  PROVE  TalkInv'
<1>1. pc[r] = "starting"
  BY DEF StartRun
<1>2. runStatus[r] = "none"
  BY <1>1 DEF TurnInv, StoreInv, InStep
<1>3. CASE (Answer(r, "409") \/ Answer(r, "410")) /\ UNCHANGED db
  <2>1. "409" \in Codes /\ "410" \in Codes
    BY DEF Codes
  <2> QED BY <1>2, <1>3, <2>1, AnswerTalk DEF db
<1>4. CASE InsertRun(r) /\ Goto(r, "started") /\ UNCHANGED <<reply, history>>
  BY <1>1, <1>4, InsertTalk
<1> QED BY <1>3, <1>4 DEF StartRun

LEMMA LoadHistoryTalk ==
  ASSUME TurnInv, NEW r \in Runs, LoadHistory(r)
  PROVE  TalkInv'
<1>1. /\ pc[r] = "started" /\ Goto(r, "loop")
      /\ UNCHANGED <<messages, runStatus, reply>>
      /\ history' = [history EXCEPT ![r] = FinalHistory(r)]
  BY DEF LoadHistory, db
<1>2. "loop" \in Labels
  BY DEF Labels, Inside
<1>3. pc'[r] = "loop" /\ \A q \in Runs \ {r} : pc'[q] = pc[q]
  BY <1>1, <1>2, GotoMoves DEF TurnInv, Inv, ControlOK
<1>4. /\ DOMAIN history' = Runs /\ history'[r] = FinalHistory(r)
      /\ \A q \in Runs \ {r} : history'[q] = history[q]
  BY <1>1 DEF TurnInv, TalkInv
<1>5. runStatus[r] = "running" /\ reply[r] = "none"
  BY <1>1, NotTold DEF TurnInv, Inv, RunningRunHasOwner
<1>6. Told(r)'
  BY <1>1, <1>3, <1>4, <1>5, SameLog DEF Told, Refusals
<1> QED BY <1>1, <1>3, <1>4, <1>6, TalkStep

\* A stored exchange, whatever its request goes on to do.
LEMMA ExchangeTalk ==
  ASSUME TurnInv, NEW r \in Runs, pc[r] = "loop", AppendExchange(r), Stay,
         UNCHANGED pc \/ Goto(r, "failing")
  PROVE  TalkInv'
<1> DEFINE rows == <<Entry(r, "call"), Entry(r, "tool")>>
<1>1. Appends(r, rows) /\ UNCHANGED <<runStatus, reply, history>>
  BY DEF AppendExchange, Appends, Stay, local
<1>2. rows \in Seq(Entries) /\ \A k \in 1 .. Len(rows) : rows[k].run = r
  <2>1. Entry(r, "call") \in Entries /\ Entry(r, "tool") \in Entries
    BY EntryType DEF Kinds
  <2> QED BY <2>1 DEF Entry
<1>3. runStatus[r] = "running" /\ reply[r] = "none"
  BY NotTold DEF TurnInv, Inv, RunningRunHasOwner
<1>4. /\ pc'[r] \in {"loop", "failing"}
      /\ \A q \in Runs \ {r} : pc'[q] = pc[q]
  BY DEF Goto, TurnInv, Inv, ControlOK
<1>5. FinalHistory(r)' = FinalHistory(r)
  BY <1>1, <1>2, OwnRowsHidden DEF TurnInv, StoreInv
<1>6. Told(r) /\ DOMAIN history' = Runs
  BY <1>1 DEF TurnInv, TalkInv
<1>7. Told(r)'
  BY <1>1, <1>3, <1>4, <1>5, <1>6 DEF Told, Refusals
<1> QED BY <1>1, <1>2, <1>3, <1>4, <1>6, <1>7, AloneInLoop, TalkStep

\* The commit of the answer, whatever its request is told.
LEMMA CommitTalk ==
  ASSUME TurnInv, NEW r \in Runs, pc[r] = "loop", CommitAnswer(r), Stay,
         NEW label \in {"committed", "failing"}, Goto(r, label)
  PROVE  TalkInv'
<1> DEFINE rows == <<Entry(r, "answer")>>
<1>1. Entry(r, "answer") \in Entries
  BY EntryType DEF Kinds
<1>2. Appends(r, rows) /\ UNCHANGED <<reply, history>>
  <2>1. messages[SessionOf[r]] \in Seq(Entries)
    BY ConversationAssumption DEF TurnInv, StoreInv, DataOK
  <2>2. Append(messages[SessionOf[r]], Entry(r, "answer")) = messages[SessionOf[r]] \o rows
    BY <1>1, <2>1
  <2> QED BY <2>2 DEF CommitAnswer, Appends, Stay, local
<1>3. rows \in Seq(Entries) /\ \A k \in 1 .. Len(rows) : rows[k].run = r
  BY <1>1 DEF Entry
<1>4. runStatus[r] = "running" /\ reply[r] = "none"
  BY NotTold DEF TurnInv, Inv, RunningRunHasOwner
<1>5. /\ runStatus'[r] = "completed"
      /\ \A q \in Runs \ {r} : runStatus'[q] = runStatus[q]
  BY CommitAnswerStatus DEF TurnInv
<1>6. /\ pc'[r] = label
      /\ \A q \in Runs \ {r} : pc'[q] = pc[q]
  BY DEF Goto, TurnInv, Inv, ControlOK
<1>7. AnswerLast(r)'
  BY <1>2, AnswerAppended DEF TurnInv, StoreInv
<1>8. Told(r)'
  BY <1>2, <1>4, <1>5, <1>6, <1>7 DEF Told, Refusals
<1>9. DOMAIN history' = Runs
  BY <1>2 DEF TurnInv, TalkInv
<1> QED BY <1>2, <1>3, <1>4, <1>5, <1>6, <1>8, <1>9, AloneInLoop, TalkStep

LEMMA RespondTalk ==
  ASSUME TurnInv, NEW r \in Runs, Respond(r)
  PROVE  TalkInv'
<1>1. "200" \in Codes /\ "200" \notin Refusals
  BY DEF Codes, Refusals
<1> QED BY <1>1, AnswerTalk DEF Respond, db

LEMMA MarkFailedTalk ==
  ASSUME TurnInv, NEW r \in Runs, MarkFailed(r)
  PROVE  TalkInv'
<1>1. "503" \in Codes /\ "503" \notin Refusals
  BY DEF Codes, Refusals
<1>2. /\ runStatus'[r] = "none" => runStatus[r] = "none"
      /\ \A q \in Runs \ {r} : runStatus'[q] = runStatus[q]
  BY DEF MarkFailed, TurnInv, Inv, ControlOK
<1> QED BY <1>1, <1>2, AnswerTalk DEF MarkFailed

LEMMA FaultTalk ==
  ASSUME TurnInv, NEW r \in Runs, Fault(r)
  PROVE  TalkInv'
<1>1. "503" \in Codes /\ "503" \notin Refusals /\ "failing" \in Labels
  BY DEF Codes, Refusals, Labels, Inside
<1>2. CASE Answer(r, "503") /\ UNCHANGED db
  BY <1>1, <1>2, AnswerTalk DEF db
<1>3. CASE pc[r] \in {"started", "loop"} /\ Goto(r, "failing") /\ Stay /\ UNCHANGED db
  BY <1>1, <1>3, MoveTalk DEF db, Stay, local
<1>4. CASE pc[r] = "starting" /\ InsertRun(r) /\ Answer(r, "503")
  BY <1>4, InsertTalk
<1>5. CASE pc[r] = "loop" /\ AppendExchange(r) /\ Goto(r, "failing") /\ Stay
  BY <1>5, ExchangeTalk
<1>6. CASE pc[r] = "loop" /\ CommitAnswer(r) /\ Goto(r, "failing") /\ Stay
  BY <1>6, CommitTalk
<1> QED
  BY <1>2, <1>3, <1>4, <1>5, <1>6 DEF Fault, DatabaseError, LostAck, ProviderError

\* A request that dies was not answered, and has nobody to tell.
LEMMA CrashTalk ==
  ASSUME TurnInv, NEW w \in Workers, Crash(w)
  PROVE  TalkInv'
<1>1. /\ \A q \in Runs : \/ pc'[q] = pc[q] /\ history'[q] = history[q]
                         \/ pc'[q] = "dead" /\ pc[q] # "answered"
      /\ UNCHANGED <<messages, runStatus, reply>>
  BY DEF Crash, Forget, Inside, TurnInv, Inv, ControlOK, db
<1>2. DOMAIN history' = Runs
  BY DEF Crash, Forget
<1> SUFFICES ASSUME NEW q \in Runs PROVE Told(q)'
  BY <1>2 DEF TalkInv
<1>3. Told(q)
  BY DEF TurnInv, TalkInv
<1> QED BY <1>1, <1>3, NotTold, SameLog DEF Told

LEMMA InitTalk == Init => TalkInv
<1> SUFFICES ASSUME Init PROVE TalkInv
  OBVIOUS
<1>1. DOMAIN history = Runs
  BY DEF Init
<1>2. ASSUME NEW r \in Runs PROVE Told(r)
  <2>1. messages[SessionOf[r]] = <<>> /\ pc[r] = "unsent" /\ reply[r] = "none"
    BY ConversationAssumption DEF Init
  <2>2. NoMessage(r)
    BY <2>1 DEF NoMessage
  <2> QED BY <2>1, <2>2 DEF Told, Refusals
<1> QED BY <1>1, <1>2 DEF TalkInv

LEMMA NextTalk == TurnInv /\ [Next]_vars => TalkInv'
<1> SUFFICES ASSUME TurnInv, [Next]_vars PROVE TalkInv'
  OBVIOUS
<1>1. CASE UNCHANGED <<messages, runStatus, pc, reply, history>>
  BY <1>1, SameLog DEF TurnInv, TalkInv, Told
<1>2. CASE \E r \in Runs : Submit(r) \/ RequestStep(r) \/ Fault(r)
  <2>1. ASSUME NEW r \in Runs, StoreToolExchange(r)
        PROVE  TalkInv'
    BY <2>1, ExchangeTalk DEF StoreToolExchange
  <2>2. ASSUME NEW r \in Runs, CompleteRun(r)
        PROVE  TalkInv'
    BY <2>2, CommitTalk DEF CompleteRun
  <2> QED
    BY <1>2, <2>1, <2>2, SubmitTalk, AcquireLockTalk, PreflightTalk, ReadClockTalk,
       StartRunTalk, LoadHistoryTalk, RespondTalk, MarkFailedTalk, FaultTalk
    DEF RequestStep
<1>3. CASE \E w \in Workers : Crash(w)
  BY <1>3, CrashTalk
<1>4. ASSUME NEW s \in Sessions, CreateSession(s) \/ Lapse(s)
      PROVE  UNCHANGED <<messages, runStatus, pc, reply, history>>
  BY <1>4 DEF CreateSession, Lapse, db, local
<1>5. ASSUME Scrub \/ \E w \in Workers : Restart(w)
      PROVE  UNCHANGED <<messages, runStatus, pc, reply, history>>
  BY <1>5 DEF Scrub, Restart, ScrubExpired, local
<1>6. UNCHANGED vars => UNCHANGED <<messages, runStatus, pc, reply, history>>
  BY DEF vars, db, local
<1> QED BY <1>1, <1>2, <1>3, <1>4, <1>5, <1>6 DEF Next

LEMMA TurnAlways == Spec => []TurnInv
<1>1. Init => TurnInv
  BY InitInv, InitStore, InitTalk DEF TurnInv
<1>2. TurnInv /\ [Next]_vars => TurnInv'
  BY NextInv, NextStore, NextTalk DEF TurnInv
<1> QED BY <1>1, <1>2, PTL DEF Spec

\* What POST /v1/chat answers is what became of the turn (routes_chat.py,
\* repositories.py): after a 200 the run is completed and its answer is the
\* last message of the turn, after a 404, 409 or 410 there is no run and no
\* message, whatever the other processes, crashes and lost commits do later.
THEOREM RepliesTellOutcome == Spec => []ReplyTellsOutcome
<1>1. TurnInv => ReplyTellsOutcome
  BY DEF TurnInv, TalkInv, Told, ReplyTellsOutcome, Refusals
<1> QED BY <1>1, TurnAlways, PTL

\* The history get_final_history returned is the session's until the run ends:
\* start_run admits no second turn, and the turn's own rows are excluded.
THEOREM HistoryStaysCurrent == Spec => []HistoryCurrent
<1>1. TurnInv => HistoryCurrent
  BY DEF TurnInv, TalkInv, Told, HistoryCurrent
<1> QED BY <1>1, TurnAlways, PTL

=============================================================================
