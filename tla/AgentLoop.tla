----------------------------- MODULE AgentLoop ------------------------------
(***************************************************************************)
(* AgentRuntime.run (app/agent/runtime.py) for one run: rounds of model    *)
(* calls, at most one tool call each, the safe retry after a broken        *)
(* provider reply, the deterministic guards on the answer, and the cards   *)
(* shown with it.  The model may reply anything; a tool, the provider and  *)
(* the database may fail at every call.  The conversation store itself is  *)
(* in StoreTransactions, the session memory in SessionMemory.              *)
(***************************************************************************)
EXTENDS Evidence, FiniteSets

CONSTANTS
  MaxRounds,   \* settings.max_model_rounds
  Budget,      \* min(session.max_tool_count, settings.max_tool_count)
  Registered   \* the tools of the registry

ASSUME LoopAssumption ==
  /\ MaxRounds \in Nat \ {0}
  /\ Budget \in Nat
  /\ Registered \in {{"product_search"}, {"product_search", "document_search"}}

VARIABLES
  pc,         \* where the run is; "answered" and "failed" are final
  round,      \* model_rounds
  chats,      \* completed and failed calls of llm.chat
  posts,      \* HTTP requests sent to the provider
  retried,    \* the current llm.chat has used its second attempt
  toolCount,  \* tool_count
  call,       \* the tool call in hand and its result
  stored,     \* the tool exchanges stored, which the model is shown
  product,    \* last_product_result, and the tool call it came from
  document,   \* last_document_result
  products,   \* the tool call last_product_ids came from, 0 for None
  blocked,    \* blocked_tool_names
  reply,      \* the answer after the guards
  cards,      \* the tool call the cards in the reply came from, 0 for none
  error       \* the error the run fails with

vars == <<pc, round, chats, posts, retried, toolCount, call, stored, product,
          document, products, blocked, reply, cards, error>>

\* What a step that learns nothing from a tool leaves alone.
findings == <<stored, product, document, products, blocked>>

NoCall == [tool |-> "none", result |-> "none"]

Errors == {"none", "internal", "provider", "timeout", "model_round_limit"}

TypeOK ==
  /\ pc \in {"context", "ask", "repair", "tool", "store", "complete", "failing",
             "answered", "failed"}
  /\ round \in 0 .. MaxRounds
  /\ chats \in Nat
  /\ posts \in Nat
  /\ retried \in BOOLEAN
  /\ toolCount \in 0 .. Budget
  /\ call \in Exchanges \cup {NoCall} \cup [tool : ToolNames, result : {"none"}]
  /\ stored \in Seq(Exchanges)
  /\ product \in [result : ResultsOf("product_search") \cup {"none"}, at : 0 .. Budget]
  /\ document \in ResultsOf("document_search") \cup {"none"}
  /\ products \in 0 .. Budget
  /\ blocked \subseteq {"product_search"}
  /\ reply \in Answers \cup {"none"}
  /\ cards \in 0 .. Budget
  /\ error \in Errors

Init ==
  /\ pc = "context"
  /\ round = 0
  /\ chats = 0
  /\ posts = 0
  /\ retried = FALSE
  /\ toolCount = 0
  /\ call = NoCall
  /\ stored = <<>>
  /\ product = [result |-> "none", at |-> 0]
  /\ document = "none"
  /\ products = 0
  /\ blocked = {}
  /\ reply = "none"
  /\ cards = 0
  /\ error = "none"

-----------------------------------------------------------------------------
\* Tools are offered in every round but the last, within the budget, and
\* unless the only tool is blocked.
AllowTools ==
  /\ round < MaxRounds
  /\ toolCount < Budget
  /\ Registered \ blocked # {}

\* The product answer the code composes from a successful product search.
ProductSentence(result) ==
  CASE result \in Decisive -> AnswerFor[result]
    [] result = "matches"  -> "match"
    [] result = "empty"    -> "no_information"

\* _safe_degraded_answer; a result that is not a success counts as absent.
Degraded(p, d) ==
  CASE p \in ProductSuccess -> ProductSentence(p)
    [] p \notin ProductSuccess /\ d \in DocumentSuccess ->
         IF d = "docs_missing" THEN "docs_missing" ELSE "docs_degraded"
    [] OTHER -> "refusal"

\* _guard_product_answer; "leak" is JSON or names an internal field.
GuardProduct(words, p) ==
  IF words = "leak" THEN Degraded(p, "none")
  ELSE IF p \in ProductSuccess \cap Decisive THEN AnswerFor[p]
  ELSE words

\* _guard_document_answer
GuardDocument(words, d) ==
  IF d \in {"unavailable", "docs_missing"} THEN AnswerFor[d] ELSE words

\* Mutant: the guards in the other order.
GuardedDocumentFirst(words) ==
  GuardProduct(GuardDocument(words, document), product.result)

Guarded(words) == GuardDocument(GuardProduct(words, product.result), document)

\* Mutant: cards for every successful search.
CardsForSuccess(p) ==
  IF p.result \in ProductSuccess THEN p.at ELSE 0

\* build_product_cards: none for a question, for nothing found, and for a
\* result with neither a product to display nor a requested one.  The guards
\* may have replaced the answer.
CardsFor(p) ==
  IF p.result \in ProductSuccess \ {"clarify", "not_found", "empty"} THEN p.at ELSE 0

-----------------------------------------------------------------------------
\* History and context are read before the first round.
LoadContext ==
  /\ pc = "context"
  /\ pc' = "ask"
  /\ round' = 1
  /\ UNCHANGED <<chats, posts, retried, toolCount, call, findings, reply, cards, error>>

\* Mutant: every attempt is retried.
RetryAlways ==
  /\ pc \in {"ask", "repair"}
  /\ retried' = TRUE
  /\ posts' = posts + 1
  /\ UNCHANGED <<pc, round, chats, toolCount, call, findings, reply, cards, error>>

\* The first attempt of llm.chat timed out, met a network error or a status
\* worth a retry.
RetryRequest ==
  /\ pc \in {"ask", "repair"}
  /\ ~retried
  /\ retried' = TRUE
  /\ posts' = posts + 1
  /\ UNCHANGED <<pc, round, chats, toolCount, call, findings, reply, cards, error>>

\* One llm.chat returns or raises.
EndChat ==
  /\ chats' = chats + 1
  /\ posts' = posts + 1
  /\ retried' = FALSE

\* Model replies: words, none, a filtered reply, or tool calls.  The tools
\* offered do not restrict the tool called.
Words == {"text", "leak"}
CallsTool(r) == r \in ToolNames \cup {"several"}
ProtocolIssue(r) ==
  \/ r \in {"filtered", "blank"}
  \/ r = "several"
  \/ CallsTool(r) /\ ~AllowTools

Conclude(words) ==
  /\ pc' = "complete"
  /\ reply' = Guarded(words)

\* The model answers in words.
AnswerDirectly(words) ==
  /\ pc = "ask"
  /\ EndChat
  /\ Conclude(words)
  /\ UNCHANGED <<round, toolCount, call, findings, cards, error>>

\* The reply breaks the protocol: one retry without tools follows.
BreakProtocol(r) ==
  /\ pc = "ask"
  /\ ProtocolIssue(r)
  /\ EndChat
  /\ pc' = "repair"
  /\ UNCHANGED <<round, toolCount, call, findings, reply, cards, error>>

\* The safe retry yields words, or anything else (a raised error included) and
\* the code composes the answer itself.
Repair(words) ==
  /\ pc = "repair"
  /\ EndChat
  /\ Conclude(words)
  /\ UNCHANGED <<round, toolCount, call, findings, cards, error>>

Degrade ==
  /\ pc = "repair"
  /\ EndChat
  /\ Conclude(Degraded(product.result, document))
  /\ UNCHANGED <<round, toolCount, call, findings, cards, error>>

\* Mutant: a call is executed although none was offered.
CallToolUnoffered(t) ==
  /\ pc = "ask"
  /\ EndChat
  /\ pc' = "tool"
  /\ toolCount' = toolCount + 1
  /\ call' = [tool |-> t, result |-> "none"]
  /\ UNCHANGED <<round, findings, reply, cards, error>>

\* One tool call: it is counted before it is executed.
CallTool(t) ==
  /\ pc = "ask"
  /\ ~ProtocolIssue(t)
  /\ EndChat
  /\ pc' = "tool"
  /\ toolCount' = toolCount + 1
  /\ call' = [tool |-> t, result |-> "none"]
  /\ UNCHANGED <<round, findings, reply, cards, error>>

\* A tool that is not registered yields an error result.
Possible(t) == IF t \in Registered THEN ResultsOf(t) ELSE {"error"}

\* The tool returns, fails or times out; every failure becomes a result.
ExecuteTool(r) ==
  /\ pc = "tool"
  /\ r \in Possible(call.tool)
  /\ call' = [call EXCEPT !.result = r]
  /\ product' = IF call.tool = "product_search"
                THEN [result |-> r, at |-> toolCount] ELSE product
  /\ document' = IF call.tool = "document_search" THEN r ELSE document
  /\ products' = IF r \in ProductSuccess THEN toolCount ELSE products
  /\ blocked' = IF r = "clarify" THEN blocked \cup {"product_search"} ELSE blocked
  /\ pc' = "store"
  /\ UNCHANGED <<round, chats, posts, retried, toolCount, stored, reply, cards, error>>

\* store_tool_exchange commits, the exchange joins the messages, and the
\* loop goes on to its next round or runs out of rounds.
StoreExchange ==
  /\ pc = "store"
  /\ stored' = Append(stored, call)
  /\ call' = NoCall
  /\ IF round < MaxRounds
     THEN pc' = "ask" /\ round' = round + 1 /\ error' = error
     ELSE pc' = "failing" /\ round' = round /\ error' = "model_round_limit"
  /\ UNCHANGED <<chats, posts, retried, toolCount, product, document, products,
                 blocked, reply, cards>>

\* complete_run commits, then the cards are built.
CompleteRun ==
  /\ pc = "complete"
  /\ pc' = "answered"
  /\ cards' = CardsFor(product)
  /\ UNCHANGED <<round, chats, posts, retried, toolCount, call, findings, reply, error>>

\* llm.chat raises in a round; in the safe retry its errors are swallowed.
ProviderError(e) ==
  /\ pc = "ask"
  /\ EndChat
  /\ pc' = "failing"
  /\ error' = e
  /\ UNCHANGED <<round, toolCount, call, findings, reply, cards>>

\* The repository raises: history, tool exchange or completion.
RepositoryError ==
  /\ pc \in {"context", "store", "complete"}
  /\ pc' = "failing"
  /\ error' = "internal"
  /\ UNCHANGED <<round, chats, posts, retried, toolCount, call, findings, reply, cards>>

\* Mutant: a failed run starts again.
RestartFailed ==
  /\ pc = "failing"
  /\ pc' = "context"
  /\ round' = 0 /\ chats' = 0 /\ posts' = 0 /\ retried' = FALSE
  /\ toolCount' = 0 /\ call' = NoCall /\ stored' = <<>>
  /\ product' = [result |-> "none", at |-> 0] /\ document' = "none"
  /\ products' = 0 /\ blocked' = {} /\ error' = "none"
  /\ UNCHANGED <<reply, cards>>

\* _mark_failed swallows its own failure, and the error is raised again.
MarkFailed ==
  /\ pc = "failing"
  /\ pc' = "failed"
  /\ UNCHANGED <<round, chats, posts, retried, toolCount, call, findings, reply,
                 cards, error>>

\* The run is over.
Over ==
  /\ pc \in {"answered", "failed"}
  /\ UNCHANGED vars

Step ==
  \/ LoadContext
  \/ RetryRequest
  \/ \E w \in Words : AnswerDirectly(w)
  \/ \E r \in ToolNames \cup {"several", "filtered", "blank"} : BreakProtocol(r)
  \/ \E w \in Words : Repair(w)
  \/ Degrade
  \/ \E t \in ToolNames : CallTool(t)
  \/ \E r \in UNION {ResultsOf(t) : t \in ToolNames} : ExecuteTool(r)
  \/ StoreExchange
  \/ CompleteRun
  \/ \E e \in {"provider", "timeout"} : ProviderError(e)
  \/ RepositoryError
  \/ MarkFailed

Next == Step \/ Over

Spec == Init /\ [][Next]_vars

\* The event loop keeps running the coroutine, and every call it awaits has a
\* timeout (httpx, asyncio.wait_for, the database driver).
FairSpec == Spec /\ WF_vars(Step)
-----------------------------------------------------------------------------
\* The loop never runs out of rounds: the last round offers no tools, so it
\* always ends in an answer and model_round_limit (runtime.py:677) is dead.
NoRoundLimit == error # "model_round_limit"

\* What complete_run records is what happened: tool_count is the number of
\* exchanges stored, and each took a round of its own (runtime.py:404).
CountersMatchRecord ==
  pc = "answered" => /\ toolCount = Len(stored)
                     /\ round = Len(stored) + 1

\* A run costs at most one model call per round and one safe retry, within the
\* tool budget, each at most two requests to the provider.
ProviderBounded ==
  /\ chats <= MaxRounds + 1
  /\ chats <= Budget + 2
  /\ posts <= 2 * (MaxRounds + 1)

\* Cards, answer and the product ids remembered for the next turn speak of
\* the same search: cards come from the search whose ids are stored, they
\* never stand beside a question, a "not found" or a "no information", and a
\* sentence that names products always has its cards.
CardsAgree ==
  pc = "answered" =>
    /\ cards # 0 =>
         cards = products /\ reply \notin {"question", "not_found", "no_information"}
    /\ reply \in {"conflict", "alternatives", "match"} => cards # 0

\* The loop implements the turn: evidence within the budget, stored before it
\* counts, and an answer the stored evidence permits.
Turn == INSTANCE AgentTurn WITH
  evidence <- stored,
  ending   <- CASE pc = "answered" -> "answered"
                [] pc = "failed"   -> "failed"
                [] OTHER           -> "open",
  answer   <- IF pc = "answered" THEN reply ELSE "none"

ImplementsTurn == Turn!Spec

\* Whatever the model, the tools, the provider and the database do, the run
\* ends (runtime.py:87).
Terminates == <>(pc \in {"answered", "failed"})

=============================================================================
