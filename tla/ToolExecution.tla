---------------------------- MODULE ToolExecution ---------------------------
(***************************************************************************)
(* Tool calls (tools/registry.py, product_search.py, document_search.py)   *)
(* and the index commands, on the vectors of EmbeddingClient.  A call runs *)
(* in a thread of the event loop's pool, which may be full, and its caller *)
(* waits no longer than the timeout: a call still queued is then never     *)
(* run, a thread that runs goes on with nobody to answer.  An index        *)
(* command embeds in a process of its own, which may be cut off and run    *)
(* again.                                                                  *)
(***************************************************************************)
EXTENDS EmbeddingClient

CONSTANTS
  Calls,      \* the jobs that are tool calls; the others are index commands
  Workers,    \* threads of the pool
  MaxRuns     \* bound on the runs of an index command

ASSUME PoolAssumption == Calls \subseteq Jobs /\ Workers \in Nat \ {0}

VARIABLES
  queue,      \* the calls that wait for a thread
  caller,     \* what the caller of each call has got
  runs        \* how often each index command was started

toolsVars == <<clientVars, queue, caller, runs>>

Commands == Jobs \ Calls

InitTools ==
  /\ ClientInit
  /\ queue = <<>>
  /\ caller = [c \in Calls |-> "none"]
  /\ runs = [j \in Commands |-> 0]

\* The calls whose thread has begun and not returned.
InThread == {c \in Calls : job[c].at \notin {"idle", "over"}}

-----------------------------------------------------------------------------
\* execute_with_trace: the call is handed to the pool and waited for.
ExecuteTool(c) ==
  /\ caller[c] = "none"
  /\ caller' = [caller EXCEPT ![c] = "waiting"]
  /\ queue' = Append(queue, c)
  /\ UNCHANGED <<clientVars, runs>>

StartThread ==
  /\ queue # <<>> /\ Cardinality(InThread) < Workers
  /\ Begin(Head(queue), FALSE)
  /\ queue' = Tail(queue)
  /\ UNCHANGED <<caller, runs>>

ThreadStep(c) ==
  /\ EmbedStep(c)
  /\ UNCHANGED <<queue, caller, runs>>

\* The search made with the vector answers or fails; an embedding that failed
\* is an error result.  Nobody hears of it when the caller has gone.
ThreadReturns(c) ==
  /\ job[c].at \in {"done", "failed"}
  /\ job' = [job EXCEPT ![c].at = "over"]
  /\ \E outcome \in IF job[c].at = "done" THEN {"result", "error"} ELSE {"error"} :
       caller' = [caller EXCEPT ![c] = IF @ = "waiting" THEN outcome ELSE @]
  /\ UNCHANGED <<cache, answered, queue, runs>>

\* wait_for gives up: the future is cancelled if its thread has not begun.
ToolTimeout(c) ==
  /\ caller[c] = "waiting"
  /\ caller' = [caller EXCEPT ![c] = "timeout"]
  /\ queue' = SelectSeq(queue, LAMBDA x : x # c)
  /\ UNCHANGED <<clientVars, runs>>

-----------------------------------------------------------------------------
\* index_catalog, with --refresh-embeddings or without it.
StartIndex(j) ==
  /\ job[j].at \in {"idle", "failed", "done"} /\ runs[j] < MaxRuns
  /\ runs' = [runs EXCEPT ![j] = @ + 1]
  /\ \E refresh \in BOOLEAN : Begin(j, refresh)
  /\ UNCHANGED <<queue, caller>>

IndexStep(j) ==
  /\ EmbedStep(j)
  /\ UNCHANGED <<queue, caller, runs>>

\* The process ends in the middle: all that is left is in the cache.
IndexCut(j) ==
  /\ Running(j)
  /\ job' = [job EXCEPT ![j] = NotBegun(j)]
  /\ UNCHANGED <<cache, answered, queue, caller, runs>>

NextTools ==
  \/ StartThread
  \/ \E c \in Calls : ExecuteTool(c) \/ ThreadStep(c) \/ ThreadReturns(c) \/ ToolTimeout(c)
  \/ \E j \in Commands : StartIndex(j) \/ IndexStep(j) \/ IndexCut(j)

\* A free thread takes the next call, and the step a thread is at ends, a
\* request by an answer or by the timeout of its client.  Nothing is asked of
\* the callers: no timeout need ever come.
Fairness ==
  /\ WF_toolsVars(StartThread)
  /\ \A c \in Calls : WF_toolsVars(ThreadStep(c) \/ ThreadReturns(c))

ToolsSpec == InitTools /\ [][NextTools]_toolsVars /\ Fairness
-----------------------------------------------------------------------------
\* Properties.

\* The pool does not fill up for good: a call that waits for a thread or has one
\* gives it up in the end, through lookups, batches, answers out of order, rows
\* of other jobs and retries, whether its caller is still there or has gone and
\* left it running (product_search.py:47).
QueueMoves ==
  \A c \in Calls : c \in Range(queue) \cup InThread ~> c \notin Range(queue) \cup InThread
=============================================================================
