---------------------------- MODULE Conversation ----------------------------
(***************************************************************************)
(* The data every module about the conversation store shares: sessions,    *)
(* agent runs, the message log of a session and the context JSON that      *)
(* carries the session memory (app/db/models.py, app/agent/memory.py).     *)
(*                                                                         *)
(* A chat request and the agent run it creates are one identity: the       *)
(* route draws one request_id and start_run inserts at most one run for    *)
(* it.  The session a request names is fixed when it is sent, so it is the *)
(* constant function SessionOf.                                            *)
(***************************************************************************)
EXTENDS Integers, Sequences

CONSTANTS
  Sessions,   \* rows of chat_sessions
  Runs,       \* chat requests, and the rows of agent_runs they create
  SessionOf,  \* SessionOf[r]: the session request r names
  NoRun,      \* "no run": the author of a fresh memory, a free row lock
  NoContext   \* the empty context {} of a scrubbed session

ASSUME ConversationAssumption ==
  /\ SessionOf \in [Runs -> Sessions]
  /\ NoRun \notin Runs

(***************************************************************************)
(* The verified memory: its revision counter and the run whose result it   *)
(* describes.  The contents are what SessionMemory.tla is about; here two  *)
(* memories differ when their revision or their author does.               *)
(***************************************************************************)
Memory == [revision : Nat, author : Runs \cup {NoRun}]

FreshMemory == [revision |-> 0, author |-> NoRun]

(***************************************************************************)
(* chat_sessions.context: the memory and the run that last replaced        *)
(* last_product_ids (NoRun: the list create_session stored, or no list).   *)
(***************************************************************************)
Contexts == [memory : Memory, products : Runs \cup {NoRun}]

FreshContext == [memory |-> FreshMemory, products |-> NoRun]

ASSUME NoContextAssumption == NoContext \notin Contexts

\* load_session_memory: a context without a memory reads as a fresh one.
MemoryIn(ctx) == IF ctx = NoContext THEN FreshMemory ELSE ctx.memory

ProductsIn(ctx) == IF ctx = NoContext THEN NoRun ELSE ctx.products

\* What update_session_memory may return for run r: the memory it was given,
\* untouched, or its next revision.
Successors(m, r) ==
  {m, [revision |-> m.revision + 1, author |-> r]}

(***************************************************************************)
(* The context complete_run stores: the memory it is given and, when the   *)
(* run has searched products with success, its ids, over what the row      *)
(* holds.                                                                  *)
(***************************************************************************)
WithMemory(ctx, memory, products) ==
  [memory   |-> memory,
   products |-> IF products = NoRun THEN ProductsIn(ctx) ELSE products]

SessionStatus == {"none", "active", "expired"}
RunStatus     == {"none", "running", "completed", "failed"}

\* A chat_messages row: "call" is the assistant row that carries tool_calls,
\* "answer" the assistant row without them.
Kinds   == {"user", "call", "tool", "answer"}
Entries == [run : Runs, kind : Kinds]

Entry(r, k) == [run |-> r, kind |-> k]

InSession(s) == {r \in Runs : SessionOf[r] = s}
=============================================================================
