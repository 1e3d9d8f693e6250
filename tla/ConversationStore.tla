------------------------- MODULE ConversationStore --------------------------
(***************************************************************************)
(* What the conversation store promises: every session is a sequence of    *)
(* turns that happen one after the other.  A turn opens with a user        *)
(* message, appends tool exchanges, and ends by committing its answer and  *)
(* a memory derived from the memory that was there, or by failing.         *)
(* The detailed modules StoreTransactions and ChatService implement it.    *)
(***************************************************************************)
EXTENDS Conversation

VARIABLES
  status,     \* chat_sessions.status, "none" before create_session
  context,    \* chat_sessions.context
  runStatus,  \* agent_runs.status, "none" before the run is inserted
  messages    \* chat_messages of a session; an index is its sequence_no

vars == <<status, context, runStatus, messages>>

Init ==
  /\ status    = [s \in Sessions |-> "none"]
  /\ context   = [s \in Sessions |-> NoContext]
  /\ runStatus = [r \in Runs |-> "none"]
  /\ messages  = [s \in Sessions |-> <<>>]

Running(s) == {r \in InSession(s) : runStatus[r] = "running"}

CreateSession(s) ==
  /\ status[s] = "none"
  /\ status'  = [status EXCEPT ![s] = "active"]
  /\ context' = [context EXCEPT ![s] = FreshContext]
  /\ UNCHANGED <<runStatus, messages>>

\* A set of sessions expires: their contexts go, their audit rows stay.
Expire(S) ==
  /\ \A s \in S : status[s] # "none"
  /\ status'  = [s \in Sessions |-> IF s \in S THEN "expired" ELSE status[s]]
  /\ context' = [s \in Sessions |-> IF s \in S THEN NoContext ELSE context[s]]
  /\ UNCHANGED <<runStatus, messages>>

\* A turn opens only when the session is active and no turn is open.
StartRun(r) ==
  LET s == SessionOf[r] IN
  /\ status[s] = "active"
  /\ runStatus[r] = "none"
  /\ Running(s) = {}
  /\ runStatus' = [runStatus EXCEPT ![r] = "running"]
  /\ messages'  = [messages EXCEPT ![s] = Append(@, Entry(r, "user"))]
  /\ UNCHANGED <<status, context>>

\* Only the open turn appends to the log.
StoreToolExchange(r) ==
  LET s == SessionOf[r] IN
  /\ runStatus[r] = "running"
  /\ messages' = [messages EXCEPT ![s] =
                    Append(Append(@, Entry(r, "call")), Entry(r, "tool"))]
  /\ UNCHANGED <<status, context, runStatus>>

\* The answer, the run's status and the memory appear together, and the
\* memory continues the one it replaces.  Only a scrubbed context, which is
\* empty, may be overwritten by a memory that was read before the scrub.
CompleteRun(r) ==
  LET s == SessionOf[r]
      memory == context'[s].memory
  IN
  /\ runStatus[r] = "running"
  /\ runStatus' = [runStatus EXCEPT ![r] = "completed"]
  /\ messages'  = [messages EXCEPT ![s] = Append(@, Entry(r, "answer"))]
  /\ \E products \in {r, NoRun} :
       context' = [context EXCEPT ![s] = WithMemory(@, memory, products)]
  /\ \/ memory \in Successors(MemoryIn(context[s]), r)
     \/ context[s] = NoContext
  /\ UNCHANGED status

\* fail_run changes the run and nothing else.  It may overwrite "completed":
\* the caller of a commit whose acknowledgement is lost takes it for a failure.
FailRun(r) ==
  /\ runStatus[r] \in {"running", "completed"}
  /\ runStatus' = [runStatus EXCEPT ![r] = "failed"]
  /\ UNCHANGED <<status, context, messages>>

Next ==
  \/ \E s \in Sessions : CreateSession(s)
  \/ \E S \in SUBSET Sessions : Expire(S)
  \/ \E r \in Runs :
       \/ StartRun(r)
       \/ StoreToolExchange(r)
       \/ CompleteRun(r)
       \/ FailRun(r)

Spec == Init /\ [][Next]_vars
=============================================================================
