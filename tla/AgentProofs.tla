----------------------------- MODULE AgentProofs ----------------------------
(***************************************************************************)
(* The agent for every number of rounds, every tool budget and every       *)
(* registry: the loop's invariants hold and it implements AgentTurn.  What *)
(* outlives a run of it, for any number of sessions, keys, plans and turns *)
(* and any limits: the plan cache replays what it should, and the session  *)
(* memory fits, carries on what was said and keeps to what was said last.  *)
(***************************************************************************)
EXTENDS AgentLoop, PlanCache, SessionMemory, FiniteSetTheorems, SequenceTheorems,
        WellFoundedInduction, TLAPS

-----------------------------------------------------------------------------
(***************************************************************************)
(* The inductive invariant.  The counters and the place in the round       *)
(* determine each other, the last results are the last words of the        *)
(* stored exchanges, and a chosen answer came through the guards.          *)
(***************************************************************************)
Typed ==
  /\ pc \in {"context", "ask", "repair", "tool", "store", "complete", "failing",
             "answered", "failed"}
  /\ round \in Nat
  /\ chats \in Nat
  /\ posts \in Nat
  /\ toolCount \in Nat
  /\ stored \in Seq(Exchanges)
  /\ product \in [result : ResultsOf("product_search") \cup {"none"}, at : Nat]
  /\ document \in ResultsOf("document_search") \cup {"none"}
  /\ products \in Nat
  /\ blocked \subseteq {"product_search"}
  /\ reply \in Answers \cup {"none"}
  /\ cards \in Nat
  /\ error \in Errors \ {"model_round_limit"}

Flag == retried \in BOOLEAN

Calls ==
  /\ pc \notin {"tool", "store"} => call \in Exchanges \cup {NoCall}
  /\ pc = "tool" => call \in [tool : ToolNames, result : {"none"}]
  /\ pc = "store" => call \in Exchanges

Counters ==
  /\ Len(stored) < MaxRounds
  /\ toolCount <= Budget
  /\ Len(stored) <= toolCount
  /\ round <= MaxRounds
  /\ pc = "context" => round = 0 /\ toolCount = 0 /\ chats = 0
  /\ pc \in {"ask", "repair", "tool", "store", "complete", "answered"} =>
       round = Len(stored) + 1
  /\ pc \in {"ask", "repair", "complete", "answered"} => toolCount = Len(stored)
  /\ pc \in {"tool", "store"} => toolCount = Len(stored) + 1 /\ round < MaxRounds

Costs ==
  /\ chats <= Len(stored) + 2
  /\ pc \in {"context", "ask"} => chats = Len(stored)
  /\ pc \in {"repair", "tool", "store"} => chats = Len(stored) + 1
  /\ posts <= 2 * chats + IF retried THEN 1 ELSE 0
  /\ retried => pc \in {"ask", "repair"}

Searches ==
  /\ product.at <= toolCount /\ products <= toolCount
  /\ product.result \in ProductSuccess => product.at = products /\ products # 0

\* The last words of the tools, the exchange in hand included.
Spoken(tool) == IF pc = "store" /\ call.tool = tool THEN {call.result} ELSE Turn!LastWord(tool)

LastWords ==
  pc \notin {"failing", "failed"} =>
    /\ Spoken("product_search") = {product.result} \ {"none"}
    /\ Spoken("document_search") = {document} \ {"none"}

Answering ==
  /\ pc \in {"complete", "answered"} =>
       \E w \in Words \cup {Degraded(product.result, document)} : reply = Guarded(w)
  /\ pc = "answered" => cards = CardsFor(product)
  /\ pc # "answered" => cards = 0

IInv ==
  /\ Typed
  /\ Flag
  /\ Calls
  /\ Counters
  /\ Costs
  /\ Searches
  /\ LastWords
  /\ Answering

-----------------------------------------------------------------------------
\* The results of different tools are told apart by the cases below.
LEMMA ResultSets ==
  /\ ResultsOf("product_search") = ProductSuccess \cup {"error"}
  /\ ResultsOf("document_search") = DocumentSuccess \cup {"unavailable", "error"}
  /\ ResultsOf("other") = {"error"}
BY DEF ResultsOf

\* An exchange is a tool with one of its results.
LEMMA ExchangeFields ==
  \A e : e \in Exchanges <=>
    \E t \in ToolNames : e \in [tool : {t}, result : ResultsOf(t)]
BY DEF Exchanges

\* Appending an exchange replaces the last word of its tool and of no other.
LEMMA LastWordAppend ==
  ASSUME NEW e \in Exchanges, stored \in Seq(Exchanges),
         stored' = Append(stored, e), NEW t
  PROVE  Turn!LastWord(t)' = IF e.tool = t THEN {e.result} ELSE Turn!LastWord(t)
<1> DEFINE n == Len(stored)
<1>1. n \in Nat /\ DOMAIN stored = 1 .. n
  OBVIOUS
<1>2. /\ Len(stored') = n + 1
      /\ DOMAIN stored' = 1 .. n + 1
      /\ stored'[n + 1] = e
      /\ \A k \in 1 .. n : stored'[k] = stored[k]
  BY <1>1
<1> HIDE DEF n
<1> DEFINE Latest == {k \in DOMAIN stored : stored[k].tool = t
                      /\ \A m \in k + 1 .. Len(stored) : stored[m].tool # t}
           Latest1 == {k \in DOMAIN stored' : stored'[k].tool = t
                      /\ \A m \in k + 1 .. Len(stored') : stored'[m].tool # t}
<1>3. CASE e.tool = t
  <2>1. Latest1 = {n + 1}
    BY <1>1, <1>2, <1>3
  <2>2. Turn!LastWord(t)' = {stored'[k].result : k \in Latest1}
    BY DEF Turn!LastWord
  <2> QED BY <2>1, <2>2, <1>2, <1>3
<1>4. CASE e.tool # t
  <2>1. Latest1 = Latest
    <3>1. ASSUME NEW k \in Latest1 PROVE k \in Latest
      BY <1>1, <1>2, <1>4 DEF n
    <3>2. ASSUME NEW k \in Latest PROVE k \in Latest1
      BY <1>1, <1>2, <1>4 DEF n
    <3> QED BY <3>1, <3>2
  <2>2. \A k \in Latest : stored'[k] = stored[k]
    BY <1>1, <1>2 DEF n
  <2>3. Turn!LastWord(t)' = {stored'[k].result : k \in Latest1}
    BY DEF Turn!LastWord
  <2>4. Turn!LastWord(t) = {stored[k].result : k \in Latest}
    BY DEF Turn!LastWord
  <2> HIDE DEF Latest, Latest1
  <2>5. {stored'[k].result : k \in Latest1} = {stored[k].result : k \in Latest}
    BY <2>1, <2>2
  <2>6. Turn!LastWord(t)' = Turn!LastWord(t)
    BY <2>3, <2>4, <2>5
  <2> QED BY <2>6, <1>4
<1> QED BY <1>3, <1>4

\* The decisive results and their sentences, one by one.
LEMMA DecisiveResults ==
  /\ Decisive = {"clarify", "conflict", "alternatives", "not_found",
                 "docs_missing", "unavailable"}
  /\ AnswerFor["clarify"] = "question"
  /\ AnswerFor["conflict"] = "conflict"
  /\ AnswerFor["alternatives"] = "alternatives"
  /\ AnswerFor["not_found"] = "not_found"
  /\ AnswerFor["docs_missing"] = "docs_missing"
  /\ AnswerFor["unavailable"] = "docs_unavailable"
BY DEF Decisive, AnswerFor

\* What the guards let through, whatever the results are.
LEMMA GuardedAnswers ==
  ASSUME product.result \in ResultsOf("product_search") \cup {"none"},
         document \in ResultsOf("document_search") \cup {"none"},
         NEW w \in Words \cup {Degraded(product.result, document)}
  PROVE  /\ Guarded(w) \in Answers
         /\ document = "docs_missing" => Guarded(w) = "docs_missing"
         /\ document = "unavailable" => Guarded(w) = "docs_unavailable"
         /\ document \notin {"docs_missing", "unavailable"} =>
              /\ product.result \in Decisive => Guarded(w) = AnswerFor[product.result]
              /\ product.result \notin Decisive =>
                   /\ Guarded(w) \in {"text", "match", "no_information",
                                      "docs_degraded", "refusal"}
                   /\ Guarded(w) = "match" => product.result = "matches"
                   /\ Guarded(w) = "no_information" => product.result = "empty"
<1>1. /\ product.result \in ProductSuccess \cup {"error", "none"}
      /\ document \in DocumentSuccess \cup {"unavailable", "error", "none"}
  BY ResultSets
<1>2. Degraded(product.result, document) =
        IF product.result \in ProductSuccess THEN ProductSentence(product.result)
        ELSE IF document = "docs_missing" THEN "docs_missing"
        ELSE IF document = "found" THEN "docs_degraded" ELSE "refusal"
  BY <1>1 DEF Degraded, DocumentSuccess
<1>3. Degraded(product.result, "none") =
        IF product.result \in ProductSuccess THEN ProductSentence(product.result)
        ELSE "refusal"
  BY <1>1 DEF Degraded, DocumentSuccess
<1>4. ASSUME product.result \in ProductSuccess
      PROVE  GuardProduct(w, product.result) =
               IF product.result \in Decisive THEN AnswerFor[product.result]
               ELSE IF w = "text" THEN "text"
               ELSE IF product.result = "empty" THEN "no_information" ELSE "match"
  BY <1>1, <1>2, <1>3, <1>4, DecisiveResults
     DEF GuardProduct, ProductSentence, ProductSuccess, Words
<1>5. ASSUME product.result \notin ProductSuccess
      PROVE  GuardProduct(w, product.result) =
               IF w = "leak" THEN "refusal" ELSE w
  BY <1>1, <1>3, <1>5 DEF GuardProduct
<1>6. product.result \notin ProductSuccess => product.result \notin Decisive
  BY <1>1, DecisiveResults
<1>7. Guarded(w) = GuardDocument(GuardProduct(w, product.result), document)
  BY DEF Guarded
<1>8. \A x : GuardDocument(x, document) =
        IF document = "docs_missing" THEN "docs_missing"
        ELSE IF document = "unavailable" THEN "docs_unavailable" ELSE x
  BY DecisiveResults DEF GuardDocument
<1>9. CASE product.result \in ProductSuccess
  BY <1>1, <1>4, <1>7, <1>8, <1>9, DecisiveResults DEF ProductSuccess, Answers
<1>10. CASE product.result \notin ProductSuccess
  BY <1>1, <1>2, <1>5, <1>6, <1>7, <1>8, <1>10 DEF Words, Answers
<1> QED BY <1>9, <1>10

\* A step that stores nothing leaves every last word as it was.
LEMMA SameLastWord ==
  ASSUME stored' = stored
  PROVE  \A t : Turn!LastWord(t)' = Turn!LastWord(t)
BY DEF Turn!LastWord

\* What a tool may return is one of its results, and an exchange with it.
LEMMA ResultFacts ==
  ASSUME NEW t \in ToolNames, NEW r \in Possible(t)
  PROVE  /\ r \in ResultsOf(t) /\ r # "none"
         /\ [tool |-> t, result |-> r] \in Exchanges
         /\ r \in ProductSuccess <=> t = "product_search" /\ r # "error"
BY ResultSets DEF Possible, ToolNames, Exchanges, ProductSuccess, DocumentSuccess

\* The invariant holds initially.
LEMMA InitInv == Init => IInv
<1> SUFFICES ASSUME Init PROVE IInv
  OBVIOUS
<1>1. Turn!LastWord("product_search") = {} /\ Turn!LastWord("document_search") = {}
  BY DEF Init, Turn!LastWord
<1>2. Typed
  BY DEF Init, Typed, Errors, ResultsOf, Exchanges
<1>3. Calls /\ Counters /\ Costs /\ Searches
  BY LoopAssumption DEF Init, Calls, Counters, Costs, Searches, ProductSuccess, NoCall
<1>4. LastWords /\ Answering
  BY <1>1 DEF Init, LastWords, Spoken, Answering
<1>5. Flag
  BY DEF Init, Flag
<1> QED BY <1>2, <1>3, <1>4, <1>5 DEF IInv

\* Every step preserves the invariant.
LEMMA StepInv == IInv /\ [Next]_vars => IInv'
<1> SUFFICES ASSUME IInv, [Next]_vars PROVE IInv'
  OBVIOUS
<1> USE DEF IInv
<1>1. ASSUME LoadContext PROVE IInv'
  <2>1. Typed'
    BY <1>1 DEF LoadContext, findings, Typed
  <2>2. Flag'
    BY <1>1 DEF LoadContext, findings, Flag
  <2>3. Calls'
    BY <1>1 DEF LoadContext, findings, Calls, Typed
  <2>4. Counters'
    BY <1>1, LoopAssumption DEF LoadContext, findings, Typed, Counters
  <2>5. Costs'
    BY <1>1, LoopAssumption DEF LoadContext, findings, Typed, Counters, Costs
  <2>6. Searches'
    BY <1>1 DEF LoadContext, findings, Typed, Counters, Searches
  <2>7. LastWords'
    BY <1>1, SameLastWord DEF LoadContext, findings, LastWords, Spoken
  <2>8. Answering'
    BY <1>1 DEF LoadContext, findings, Answering, Guarded
  <2> QED BY <2>1, <2>2, <2>3, <2>4, <2>5, <2>6, <2>7, <2>8
<1>2. ASSUME RetryRequest PROVE IInv'
  <2>1. Typed'
    BY <1>2 DEF RetryRequest, findings, Typed
  <2>2. Flag'
    BY <1>2 DEF RetryRequest, findings, Flag
  <2>3. Calls'
    BY <1>2 DEF RetryRequest, findings, Calls, Typed
  <2>4. Counters'
    BY <1>2 DEF RetryRequest, findings, Typed, Counters
  <2>5. Costs'
    BY <1>2 DEF RetryRequest, findings, Typed, Counters, Costs
  <2>6. Searches'
    BY <1>2 DEF RetryRequest, findings, Typed, Counters, Searches
  <2>7. LastWords'
    BY <1>2, SameLastWord DEF RetryRequest, findings, LastWords, Spoken
  <2>8. Answering'
    BY <1>2 DEF RetryRequest, findings, Answering, Guarded
  <2> QED BY <2>1, <2>2, <2>3, <2>4, <2>5, <2>6, <2>7, <2>8
<1>3. ASSUME NEW w \in Words, AnswerDirectly(w) PROVE IInv'
  <2>1. Typed'
    BY <1>3, GuardedAnswers DEF AnswerDirectly, EndChat, Conclude, findings, Typed
  <2>2. Flag'
    BY <1>3 DEF AnswerDirectly, EndChat, Conclude, findings, Flag
  <2>3. Calls'
    BY <1>3 DEF AnswerDirectly, Conclude, findings, Calls, Typed
  <2>4. Counters'
    BY <1>3 DEF AnswerDirectly, Conclude, findings, Typed, Counters
  <2>5. Costs'
    BY <1>3 DEF AnswerDirectly, EndChat, Conclude, findings, Typed, Counters, Costs
  <2>6. Searches'
    BY <1>3 DEF AnswerDirectly, Conclude, findings, Typed, Counters, Searches
  <2>7. LastWords'
    BY <1>3, SameLastWord DEF AnswerDirectly, Conclude, findings, LastWords, Spoken
  <2>8. Answering'
    BY <1>3 DEF AnswerDirectly, Conclude, findings, Answering, Guarded
  <2> QED BY <2>1, <2>2, <2>3, <2>4, <2>5, <2>6, <2>7, <2>8
<1>4. ASSUME NEW r \in ToolNames \cup {"several", "filtered", "blank"}, BreakProtocol(r) PROVE IInv'
  <2>1. Typed'
    BY <1>4 DEF BreakProtocol, EndChat, findings, Typed
  <2>2. Flag'
    BY <1>4 DEF BreakProtocol, EndChat, findings, Flag
  <2>3. Calls'
    BY <1>4 DEF BreakProtocol, findings, Calls, Typed
  <2>4. Counters'
    BY <1>4 DEF BreakProtocol, findings, Typed, Counters
  <2>5. Costs'
    BY <1>4 DEF BreakProtocol, EndChat, findings, Typed, Counters, Costs
  <2>6. Searches'
    BY <1>4 DEF BreakProtocol, findings, Typed, Counters, Searches
  <2>7. LastWords'
    BY <1>4, SameLastWord DEF BreakProtocol, findings, LastWords, Spoken
  <2>8. Answering'
    BY <1>4 DEF BreakProtocol, findings, Answering, Guarded
  <2> QED BY <2>1, <2>2, <2>3, <2>4, <2>5, <2>6, <2>7, <2>8
<1>5. ASSUME NEW w \in Words, Repair(w) PROVE IInv'
  <2>1. Typed'
    BY <1>5, GuardedAnswers DEF Repair, EndChat, Conclude, findings, Typed
  <2>2. Flag'
    BY <1>5 DEF Repair, EndChat, Conclude, findings, Flag
  <2>3. Calls'
    BY <1>5 DEF Repair, Conclude, findings, Calls, Typed
  <2>4. Counters'
    BY <1>5 DEF Repair, Conclude, findings, Typed, Counters
  <2>5. Costs'
    BY <1>5 DEF Repair, EndChat, Conclude, findings, Typed, Counters, Costs
  <2>6. Searches'
    BY <1>5 DEF Repair, Conclude, findings, Typed, Counters, Searches
  <2>7. LastWords'
    BY <1>5, SameLastWord DEF Repair, Conclude, findings, LastWords, Spoken
  <2>8. Answering'
    BY <1>5 DEF Repair, Conclude, findings, Answering, Guarded
  <2> QED BY <2>1, <2>2, <2>3, <2>4, <2>5, <2>6, <2>7, <2>8
<1>6. ASSUME Degrade PROVE IInv'
  <2>1. Typed'
    BY <1>6, GuardedAnswers DEF Degrade, EndChat, Conclude, findings, Typed
  <2>2. Flag'
    BY <1>6 DEF Degrade, EndChat, Conclude, findings, Flag
  <2>3. Calls'
    BY <1>6 DEF Degrade, Conclude, findings, Calls, Typed
  <2>4. Counters'
    BY <1>6 DEF Degrade, Conclude, findings, Typed, Counters
  <2>5. Costs'
    BY <1>6 DEF Degrade, EndChat, Conclude, findings, Typed, Counters, Costs
  <2>6. Searches'
    BY <1>6 DEF Degrade, Conclude, findings, Typed, Counters, Searches
  <2>7. LastWords'
    BY <1>6, SameLastWord DEF Degrade, Conclude, findings, LastWords, Spoken
  <2>8. Answering'
    BY <1>6 DEF Degrade, Conclude, findings, Answering, Guarded
  <2> QED BY <2>1, <2>2, <2>3, <2>4, <2>5, <2>6, <2>7, <2>8
<1>7. ASSUME NEW t \in ToolNames, CallTool(t) PROVE IInv'
  <2>1. Typed'
    BY <1>7 DEF CallTool, EndChat, findings, Typed
  <2>2. Flag'
    BY <1>7 DEF CallTool, EndChat, findings, Flag
  <2>3. Calls'
    BY <1>7 DEF CallTool, findings, Calls, Typed
  <2>4. Counters'
    BY <1>7, LoopAssumption DEF CallTool, ProtocolIssue, CallsTool, AllowTools, findings, Typed, Counters, ToolNames
  <2>5. Costs'
    BY <1>7 DEF CallTool, EndChat, findings, Typed, Counters, Costs
  <2>6. Searches'
    BY <1>7 DEF CallTool, findings, Typed, Counters, Searches
  <2>7. LastWords'
    BY <1>7, SameLastWord DEF CallTool, findings, LastWords, Spoken
  <2>8. Answering'
    BY <1>7 DEF CallTool, findings, Answering, Guarded
  <2> QED BY <2>1, <2>2, <2>3, <2>4, <2>5, <2>6, <2>7, <2>8
<1>8. ASSUME NEW r \in UNION {ResultsOf(t) : t \in ToolNames}, ExecuteTool(r) PROVE IInv'
  <2>1. Typed'
    BY <1>8, ResultSets, ResultFacts DEF ExecuteTool, Typed, Calls, ToolNames
  <2>2. Flag'
    BY <1>8 DEF ExecuteTool, Flag
  <2>3. Calls'
    BY <1>8, ExchangeFields, ResultFacts DEF ExecuteTool, Calls, Typed, ToolNames
  <2>4. Counters'
    BY <1>8 DEF ExecuteTool, Typed, Counters
  <2>5. Costs'
    BY <1>8 DEF ExecuteTool, Typed, Counters, Costs
  <2>6. Searches'
    BY <1>8, ResultSets, ResultFacts DEF ExecuteTool, Typed, Counters, Searches, Calls, ToolNames, ProductSuccess, DocumentSuccess
  <2>7. LastWords'
    BY <1>8, ResultFacts, SameLastWord DEF ExecuteTool, LastWords, Spoken, Calls, Typed, ToolNames
  <2>8. Answering'
    BY <1>8 DEF ExecuteTool, Answering, Guarded
  <2> QED BY <2>1, <2>2, <2>3, <2>4, <2>5, <2>6, <2>7, <2>8
<1>9. ASSUME StoreExchange PROVE IInv'
  <2>1. Typed'
    BY <1>9 DEF StoreExchange, Typed, Calls, Counters, Errors
  <2>2. Flag'
    BY <1>9 DEF StoreExchange, Flag
  <2>3. Calls'
    BY <1>9 DEF StoreExchange, Calls, Typed
  <2>4. Counters'
    BY <1>9, LoopAssumption DEF StoreExchange, Typed, Counters, Calls
  <2>5. Costs'
    BY <1>9 DEF StoreExchange, Typed, Counters, Costs, Calls
  <2>6. Searches'
    BY <1>9 DEF StoreExchange, Typed, Counters, Searches
  <2>7. LastWords'
    BY <1>9, LastWordAppend, ExchangeFields DEF StoreExchange, LastWords, Spoken, Calls, Typed, ToolNames
  <2>8. Answering'
    BY <1>9 DEF StoreExchange, Answering, Guarded
  <2> QED BY <2>1, <2>2, <2>3, <2>4, <2>5, <2>6, <2>7, <2>8
<1>10. ASSUME CompleteRun PROVE IInv'
  <2>1. Typed'
    BY <1>10 DEF CompleteRun, findings, Typed, CardsFor
  <2>2. Flag'
    BY <1>10 DEF CompleteRun, findings, Flag
  <2>3. Calls'
    BY <1>10 DEF CompleteRun, findings, Calls, Typed
  <2>4. Counters'
    BY <1>10 DEF CompleteRun, findings, Typed, Counters
  <2>5. Costs'
    BY <1>10 DEF CompleteRun, findings, Typed, Counters, Costs
  <2>6. Searches'
    BY <1>10 DEF CompleteRun, findings, Typed, Counters, Searches
  <2>7. LastWords'
    BY <1>10, SameLastWord DEF CompleteRun, findings, LastWords, Spoken
  <2>8. Answering'
    BY <1>10 DEF CompleteRun, findings, Answering, Guarded, CardsFor
  <2> QED BY <2>1, <2>2, <2>3, <2>4, <2>5, <2>6, <2>7, <2>8
<1>11. ASSUME NEW e \in {"provider", "timeout"}, ProviderError(e) PROVE IInv'
  <2>1. Typed'
    BY <1>11 DEF ProviderError, EndChat, findings, Typed, Errors
  <2>2. Flag'
    BY <1>11 DEF ProviderError, EndChat, findings, Flag
  <2>3. Calls'
    BY <1>11 DEF ProviderError, findings, Calls, Typed
  <2>4. Counters'
    BY <1>11 DEF ProviderError, findings, Typed, Counters
  <2>5. Costs'
    BY <1>11 DEF ProviderError, EndChat, findings, Typed, Counters, Costs
  <2>6. Searches'
    BY <1>11 DEF ProviderError, findings, Typed, Counters, Searches
  <2>7. LastWords'
    BY <1>11, SameLastWord DEF ProviderError, findings, LastWords, Spoken
  <2>8. Answering'
    BY <1>11 DEF ProviderError, findings, Answering, Guarded
  <2> QED BY <2>1, <2>2, <2>3, <2>4, <2>5, <2>6, <2>7, <2>8
<1>12. ASSUME RepositoryError PROVE IInv'
  <2>1. Typed'
    BY <1>12 DEF RepositoryError, findings, Typed, Errors
  <2>2. Flag'
    BY <1>12 DEF RepositoryError, findings, Flag
  <2>3. Calls'
    BY <1>12 DEF RepositoryError, findings, Calls, Typed
  <2>4. Counters'
    BY <1>12 DEF RepositoryError, findings, Typed, Counters
  <2>5. Costs'
    BY <1>12 DEF RepositoryError, findings, Typed, Counters, Costs
  <2>6. Searches'
    BY <1>12 DEF RepositoryError, findings, Typed, Counters, Searches
  <2>7. LastWords'
    BY <1>12, SameLastWord DEF RepositoryError, findings, LastWords, Spoken
  <2>8. Answering'
    BY <1>12 DEF RepositoryError, findings, Answering, Guarded
  <2> QED BY <2>1, <2>2, <2>3, <2>4, <2>5, <2>6, <2>7, <2>8
<1>13. ASSUME MarkFailed PROVE IInv'
  <2>1. Typed'
    BY <1>13 DEF MarkFailed, findings, Typed
  <2>2. Flag'
    BY <1>13 DEF MarkFailed, findings, Flag
  <2>3. Calls'
    BY <1>13 DEF MarkFailed, findings, Calls, Typed
  <2>4. Counters'
    BY <1>13 DEF MarkFailed, findings, Typed, Counters
  <2>5. Costs'
    BY <1>13 DEF MarkFailed, findings, Typed, Counters, Costs
  <2>6. Searches'
    BY <1>13 DEF MarkFailed, findings, Typed, Counters, Searches
  <2>7. LastWords'
    BY <1>13, SameLastWord DEF MarkFailed, findings, LastWords, Spoken
  <2>8. Answering'
    BY <1>13 DEF MarkFailed, findings, Answering, Guarded
  <2> QED BY <2>1, <2>2, <2>3, <2>4, <2>5, <2>6, <2>7, <2>8
<1>14. CASE UNCHANGED vars
  <2>1. Typed'
    BY <1>14 DEF vars, Typed
  <2>2. Flag'
    BY <1>14 DEF vars, Flag
  <2>3. Calls'
    BY <1>14 DEF vars, Calls
  <2>4. Counters'
    BY <1>14 DEF vars, Counters
  <2>5. Costs'
    BY <1>14 DEF vars, Costs
  <2>6. Searches'
    BY <1>14 DEF vars, Searches
  <2>7. LastWords'
    BY <1>14, SameLastWord DEF vars, LastWords, Spoken
  <2>8. Answering'
    BY <1>14 DEF vars, Answering, Guarded
  <2> QED BY <2>1, <2>2, <2>3, <2>4, <2>5, <2>6, <2>7, <2>8
<1> QED
  BY <1>1, <1>2, <1>3, <1>4, <1>5, <1>6, <1>7, <1>8, <1>9, <1>10, <1>11, <1>12, <1>13, <1>14 DEF Next, Step, Over

-----------------------------------------------------------------------------
\* The invariant holds in every reachable state.
THEOREM Invariance == Spec => []IInv
<1>1. Init => IInv
  BY InitInv
<1>2. IInv /\ [Next]_vars => IInv'
  BY StepInv
<1> QED BY <1>1, <1>2, PTL DEF Spec

\* Every variable keeps its type; no run exceeds its round or tool limits
\* (runtime.py:162).
THEOREM TypeCorrect == Spec => []TypeOK
<1>1. IInv => TypeOK
  <2> SUFFICES ASSUME IInv PROVE TypeOK
    OBVIOUS
  <2>1. retried \in BOOLEAN
    BY DEF IInv, Flag
  <2>2. /\ toolCount \in 0 .. Budget
        /\ round \in 0 .. MaxRounds
        /\ products \in 0 .. Budget
    BY LoopAssumption DEF IInv, Typed, Counters, Searches
  <2>3. cards \in 0 .. Budget
    BY <2>2, LoopAssumption DEF IInv, Typed, Counters, Searches, Answering, CardsFor
  <2>4. product \in [result : ResultsOf("product_search") \cup {"none"}, at : 0 .. Budget]
    BY LoopAssumption DEF IInv, Typed, Counters, Searches
  <2>5. call \in Exchanges \cup {NoCall} \cup [tool : ToolNames, result : {"none"}]
    BY DEF IInv, Typed, Calls
  <2>6. /\ chats \in Nat /\ posts \in Nat /\ stored \in Seq(Exchanges)
        /\ document \in ResultsOf("document_search") \cup {"none"}
        /\ blocked \subseteq {"product_search"}
        /\ reply \in Answers \cup {"none"} /\ error \in Errors
        /\ pc \in {"context", "ask", "repair", "tool", "store", "complete", "failing",
                   "answered", "failed"}
    BY DEF IInv, Typed
  <2> QED BY <2>1, <2>2, <2>3, <2>4, <2>5, <2>6 DEF TypeOK
<1> QED BY <1>1, Invariance, PTL

\* The loop never runs out of rounds, so runtime.py:677 is dead code.
THEOREM RoundLimitUnreachable == Spec => []NoRoundLimit
<1>1. IInv => NoRoundLimit
  BY DEF IInv, Typed, NoRoundLimit
<1> QED BY <1>1, Invariance, PTL

\* What complete_run records is what was stored (runtime.py:404).
THEOREM CountersCorrect == Spec => []CountersMatchRecord
<1>1. IInv => CountersMatchRecord
  BY DEF IInv, Counters, CountersMatchRecord
<1> QED BY <1>1, Invariance, PTL

\* Rounds, safe retry and repeated requests are bounded together
\* (runtime.py:160, azure_client.py:69).
THEOREM CostBounded == Spec => []ProviderBounded
<1>1. IInv => ProviderBounded
  <2> SUFFICES ASSUME IInv PROVE ProviderBounded
    OBVIOUS
  <2>1. Len(stored) \in Nat
    BY DEF IInv, Typed
  <2>2. chats <= MaxRounds + 1 /\ chats <= Budget + 2
    BY <2>1, LoopAssumption DEF IInv, Typed, Counters, Costs
  <2>3. CASE retried
    BY <2>1, <2>2, <2>3, LoopAssumption
       DEF IInv, Typed, Counters, Costs, ProviderBounded
  <2>4. CASE ~retried
    BY <2>2, <2>4, LoopAssumption DEF IInv, Typed, Costs, ProviderBounded
  <2> QED BY <2>3, <2>4
<1> QED BY <1>1, Invariance, PTL

\* Cards, answer and remembered product ids speak of the same search
\* (runtime.py:438, presentation.py:9).
THEOREM CardsMatchAnswer == Spec => []CardsAgree
<1>1. IInv => CardsAgree
  <2> SUFFICES ASSUME IInv, pc = "answered" PROVE
        /\ cards # 0 =>
             cards = products /\ reply \notin {"question", "not_found", "no_information"}
        /\ reply \in {"conflict", "alternatives", "match"} => cards # 0
    BY DEF CardsAgree
  <2>1. PICK w \in Words \cup {Degraded(product.result, document)} : reply = Guarded(w)
    BY DEF IInv, Answering
  <2>2. /\ product.result \in ResultsOf("product_search") \cup {"none"}
        /\ document \in ResultsOf("document_search") \cup {"none"}
    BY DEF IInv, Typed
  <2>3. cards = CardsFor(product)
    BY DEF IInv, Answering
  <2>4. product.result \in ProductSuccess => product.at = products /\ products # 0
    BY DEF IInv, Searches
  <2>5. product.result \in ProductSuccess \cup {"error", "none"}
    BY <2>2, ResultSets
  <2>6. CASE document \in {"docs_missing", "unavailable"}
    BY <2>1, <2>2, <2>3, <2>4, <2>6, GuardedAnswers DEF CardsFor
  <2>7. CASE document \notin {"docs_missing", "unavailable"}
    BY <2>1, <2>2, <2>3, <2>4, <2>5, <2>7, GuardedAnswers, DecisiveResults
       DEF CardsFor, ProductSuccess
  <2> QED BY <2>6, <2>7
<1> QED BY <1>1, Invariance, PTL

-----------------------------------------------------------------------------
\* A chosen answer is one the stored evidence permits.
LEMMA ChosenPermitted ==
  ASSUME IInv, pc = "complete"
  PROVE  reply \in Turn!Permitted /\ reply \in Answers
<1>1. PICK w \in Words \cup {Degraded(product.result, document)} : reply = Guarded(w)
  BY DEF IInv, Answering
<1>2. /\ product.result \in ResultsOf("product_search") \cup {"none"}
      /\ document \in ResultsOf("document_search") \cup {"none"}
  BY DEF IInv, Typed
<1>3. /\ Turn!LastWord("product_search") = {product.result} \ {"none"}
      /\ Turn!LastWord("document_search") = {document} \ {"none"}
  BY DEF IInv, LastWords, Spoken
<1>4. /\ Turn!Decisive = Decisive
      /\ Turn!AnswerFor = AnswerFor
  BY DEF Turn!Decisive, Turn!AnswerFor, Decisive, AnswerFor
<1>5. Turn!Decided("product_search") =
        IF product.result \in Decisive THEN {AnswerFor[product.result]} ELSE {}
  BY <1>3, <1>4, DecisiveResults DEF Turn!Decided
<1>6. Turn!Decided("document_search") =
        IF document \in Decisive THEN {AnswerFor[document]} ELSE {}
  BY <1>3, <1>4, DecisiveResults DEF Turn!Decided
<1>7. document \in Decisive <=> document \in {"docs_missing", "unavailable"}
  BY <1>2, ResultSets, DecisiveResults DEF DocumentSuccess
<1>8. reply \in Answers
  BY <1>1, <1>2, GuardedAnswers
<1>9. reply \in Turn!Permitted
  BY <1>1, <1>2, <1>5, <1>6, <1>7, GuardedAnswers, DecisiveResults DEF Turn!Permitted
<1> QED BY <1>8, <1>9

\* The loop implements the turn: evidence within the budget, on record before
\* the answer, and an answer it permits or none.
THEOREM Refinement == Spec => ImplementsTurn
<1>1. Init => Turn!Init
  BY DEF Init, Turn!Init
<1>2. IInv /\ [Next]_vars => [Turn!Next]_(Turn!vars)
  <2> SUFFICES ASSUME IInv, [Next]_vars PROVE [Turn!Next]_(Turn!vars)
    OBVIOUS
  <2>1. CASE StoreExchange
    <3>1. call \in Turn!Exchanges /\ Len(stored) < Budget
      BY <2>1, LoopAssumption
         DEF StoreExchange, IInv, Typed, Calls, Counters, Exchanges, Turn!Exchanges,
             ToolNames, Turn!ToolNames, ResultsOf, Turn!ResultsOf, ProductSuccess,
             Turn!ProductSuccess, DocumentSuccess, Turn!DocumentSuccess
    <3>2. Turn!Gather(call)
      BY <2>1, <3>1 DEF StoreExchange, Turn!Gather
    <3> QED BY <3>1, <3>2 DEF Turn!Next
  <2>2. CASE CompleteRun
    <3>1. reply \in Turn!Permitted /\ reply \in Turn!Answers
      BY <2>2, ChosenPermitted DEF CompleteRun, Answers, Turn!Answers
    <3>2. Turn!Reply(reply)
      BY <2>2, <3>1 DEF CompleteRun, findings, Turn!Reply
    <3> QED BY <3>1, <3>2 DEF Turn!Next
  <2>3. CASE MarkFailed
    <3>1. Turn!Fail
      BY <2>3 DEF MarkFailed, findings, Turn!Fail
    <3> QED BY <3>1 DEF Turn!Next
  <2>4. ASSUME stored' = stored, pc \notin {"answered", "failed"},
               pc' \notin {"answered", "failed"}
        PROVE  UNCHANGED Turn!vars
    BY <2>4 DEF Turn!vars
  <2>5. CASE \/ LoadContext \/ RetryRequest
             \/ \E w \in Words : AnswerDirectly(w)
             \/ \E r \in ToolNames \cup {"several", "filtered", "blank"} : BreakProtocol(r)
             \/ \E w \in Words : Repair(w)
             \/ Degrade
    BY <2>4, <2>5 DEF LoadContext, RetryRequest, AnswerDirectly, BreakProtocol, Repair,
                      Degrade, Conclude, findings
  <2>6. CASE \/ \E t \in ToolNames : CallTool(t)
             \/ \E r \in UNION {ResultsOf(t) : t \in ToolNames} : ExecuteTool(r)
             \/ \E e \in {"provider", "timeout"} : ProviderError(e)
             \/ RepositoryError
    BY <2>4, <2>6 DEF CallTool, ExecuteTool, ProviderError, RepositoryError, findings
  <2>7. CASE UNCHANGED vars
    BY <2>7 DEF vars, Turn!vars
  <2> QED BY <2>1, <2>2, <2>3, <2>5, <2>6, <2>7 DEF Next, Step, Over
<1> QED BY <1>1, <1>2, Invariance, PTL DEF Spec, ImplementsTurn, Turn!Spec

-----------------------------------------------------------------------------
(***************************************************************************)
(* The plan cache                                                          *)
(***************************************************************************)

\* An entry holds the plan that last succeeded for its owner at its key.
EntriesLatest == \A e \in cache : latest[e.owner][e.key] = e.plan

CacheInv == CacheTypeOK /\ EntriesLatest /\ ReplaysOwnLatest

\* What a step leaves in the cache was there, or is the entry it stores; the
\* order is one of keys.
LEMMA Left ==
  ASSUME CacheTypeOK
  PROVE  /\ Pruned \subseteq cache
         /\ \A k : Without(k) \subseteq {e \in cache : e.key # k}
         /\ \A entries \in SUBSET cache : Keep(entries) =>
              cache' \subseteq entries /\ older' \subseteq Keys \X Keys
         /\ \A e \in Entries : Use(e) \/ Insert(e) =>
              /\ cache' \subseteq {x \in cache : x.key # e.key} \cup {e}
              /\ older' \subseteq Keys \X Keys
<1>1. \A e \in cache : e.key \in Keys
  BY DEF CacheTypeOK, Entries
<1>2. \A entries \in SUBSET cache : KeysOf(entries) \subseteq Keys
  BY <1>1 DEF KeysOf
<1>3. \A k : Without(k) \subseteq {e \in cache : e.key # k} /\ Without(k) \in SUBSET cache
  BY DEF Without
<1>4. ASSUME NEW e \in Entries PROVE Ordered(e) \subseteq Keys \X Keys
  <2>1. e.key \in Keys
    BY DEF Entries
  <2>2. KeysOf(Without(e.key)) \subseteq Keys
    BY <1>2, <1>3
  <2> QED BY <2>1, <2>2 DEF Ordered
<1>5. ASSUME NEW e \in Entries, Use(e)
      PROVE  /\ cache' \subseteq {x \in cache : x.key # e.key} \cup {e}
             /\ older' \subseteq Keys \X Keys
  BY <1>3, <1>4, <1>5 DEF Use
<1>6. ASSUME NEW e \in Entries, Insert(e)
      PROVE  /\ cache' \subseteq {x \in cache : x.key # e.key} \cup {e}
             /\ older' \subseteq Keys \X Keys
  <2>1. cache' \subseteq Without(e.key) \cup {e}
    BY <1>6 DEF Insert
  <2>2. older' \subseteq Ordered(e)
    BY <1>6 DEF Insert
  <2> QED BY <2>1, <2>2, <1>3, <1>4
<1> QED BY <1>2, <1>3, <1>5, <1>6 DEF Pruned, Keep, CacheTypeOK

LEMMA CacheInit == InitCache => CacheInv
BY CacheAssumption
   DEF InitCache, CacheInv, CacheTypeOK, PlanNumbers, NoPlan, EntriesLatest, ReplaysOwnLatest

\* Between lookup and insertion a run changes nothing: the plan it replays and
\* the entries of other sessions and keys stay what they were.
LEMMA CacheStep == CacheInv /\ [NextCache]_cacheVars => CacheInv'
<1> SUFFICES ASSUME CacheInv, [NextCache]_cacheVars PROVE CacheInv'
  OBVIOUS
<1> USE DEF CacheInv
<1>1. ASSUME NEW s \in Sessions, NEW k \in Keys, BeginRun(s, k) PROVE CacheInv'
  <2>1. cache' \subseteq cache /\ older' \subseteq Keys \X Keys
    BY <1>1, Left DEF BeginRun
  <2>2. CacheTypeOK'
    BY <1>1, <2>1 DEF BeginRun, CacheTypeOK
  <2>3. EntriesLatest'
    BY <1>1, <2>1 DEF BeginRun, EntriesLatest
  <2>4. ReplaysOwnLatest'
    BY <1>1 DEF BeginRun, ReplaysOwnLatest, CacheTypeOK
  <2> QED BY <2>2, <2>3, <2>4
<1>2. ASSUME NEW s \in Sessions, NEW p \in PlanNumbers, Search(s, p) PROVE CacheInv'
  <2>1. key[s] \in Keys /\ 0 \in PlanNumbers
    BY CacheAssumption DEF CacheTypeOK, PlanNumbers
  <2>2. CASE \E e \in EntriesAt(key[s]) :
               /\ Usable(s, e)
               /\ hit' = [hit EXCEPT ![s] = p # 0]
               /\ planned' = [planned EXCEPT ![s] = IF p = 0 THEN 0 ELSE e.plan]
               /\ IF p = 0 THEN UNCHANGED store ELSE Use(e)
    <3>1. PICK e \in EntriesAt(key[s]) :
               /\ Usable(s, e)
               /\ hit' = [hit EXCEPT ![s] = p # 0]
               /\ planned' = [planned EXCEPT ![s] = IF p = 0 THEN 0 ELSE e.plan]
               /\ IF p = 0 THEN UNCHANGED store ELSE Use(e)
      BY <2>2
    <3>2. e \in cache /\ e \in Entries /\ e.key = key[s] /\ e.owner = s /\ e.plan \in PlanNumbers
      BY <3>1 DEF EntriesAt, Usable, CacheTypeOK, Entries
    <3>3. cache' \subseteq cache /\ older' \subseteq Keys \X Keys
      BY <3>1, <3>2, Left DEF store, CacheTypeOK
    <3>4. latest[s][key[s]] = e.plan
      BY <3>2 DEF EntriesLatest
    <3>5. CacheTypeOK'
      BY <1>2, <2>1, <3>1, <3>2, <3>3 DEF Search, CacheTypeOK
    <3>6. EntriesLatest'
      BY <1>2, <3>3 DEF Search, EntriesLatest
    <3>7. ReplaysOwnLatest'
      BY <1>2, <3>1, <3>4 DEF Search, ReplaysOwnLatest, CacheTypeOK
    <3> QED BY <3>5, <3>6, <3>7
  <2>3. CASE /\ \A e \in EntriesAt(key[s]) : ~Usable(s, e)
             /\ hit' = [hit EXCEPT ![s] = FALSE]
             /\ planned' = [planned EXCEPT ![s] = p]
             /\ Keep(Without(key[s]))
    <3>1. cache' \subseteq cache /\ older' \subseteq Keys \X Keys
      BY <2>3, Left
    <3>2. CacheTypeOK'
      BY <1>2, <2>1, <2>3, <3>1 DEF Search, CacheTypeOK
    <3>3. EntriesLatest'
      BY <1>2, <3>1 DEF Search, EntriesLatest
    <3>4. ReplaysOwnLatest'
      BY <1>2, <2>3 DEF Search, ReplaysOwnLatest, CacheTypeOK
    <3> QED BY <3>2, <3>3, <3>4
  <2> QED BY <1>2, <2>2, <2>3 DEF Search
<1>3. ASSUME NEW s \in Sessions, Succeed(s) PROVE CacheInv'
  <2>1. CASE planned[s] = 0
    BY <1>3, <2>1 DEF Succeed, store, CacheTypeOK, EntriesLatest, ReplaysOwnLatest
  <2>2. CASE planned[s] # 0
    <3> DEFINE e == [key |-> key[s], owner |-> s, plan |-> planned[s]]
    <3>1. e \in Entries /\ planned[s] \in PlanNumbers
      BY <2>2 DEF Entries, CacheTypeOK
    <3>2. Insert(e) /\ latest' = [latest EXCEPT ![s][key[s]] = planned[s]]
      BY <1>3, <2>2 DEF Succeed
    <3>3. /\ cache' \subseteq {x \in cache : x.key # key[s]} \cup {e}
          /\ older' \subseteq Keys \X Keys
      BY <3>1, <3>2, Left
    <3>4. CacheTypeOK'
      BY <1>3, <3>1, <3>2, <3>3 DEF Succeed, CacheTypeOK
    <3>5. EntriesLatest'
      <4>1. latest \in [Sessions -> [Keys -> PlanNumbers \cup {NoPlan}]] /\ key[s] \in Keys
        BY DEF CacheTypeOK
      <4>2. latest'[s][key[s]] = planned[s]
        BY <3>2, <4>1
      <4>3. ASSUME NEW x \in cache, x.key # key[s] PROVE latest'[x.owner][x.key] = x.plan
        BY <3>2, <4>3 DEF EntriesLatest, CacheTypeOK, Entries
      <4> QED BY <3>3, <4>2, <4>3 DEF EntriesLatest
    <3>6. ReplaysOwnLatest'
      <4>1. ASSUME NEW t \in Sessions, t # s PROVE latest'[t][key[t]] = latest[t][key[t]]
        BY <3>2, <4>1
      <4> QED BY <1>3, <4>1 DEF Succeed, ReplaysOwnLatest, CacheTypeOK
    <3> QED BY <3>4, <3>5, <3>6
  <2> QED BY <2>1, <2>2
<1>4. ASSUME NEW s \in Sessions, Fail(s) \/ EndRun(s) PROVE CacheInv'
  BY <1>4 DEF Fail, EndRun, store, CacheTypeOK, EntriesLatest, ReplaysOwnLatest
<1>5. CASE Tick
  BY <1>5, CacheAssumption DEF Tick, store, CacheTypeOK, EntriesLatest, ReplaysOwnLatest
<1>6. CASE UNCHANGED cacheVars
  BY <1>6 DEF cacheVars, store, CacheTypeOK, EntriesLatest, ReplaysOwnLatest
<1> QED BY <1>1, <1>2, <1>3, <1>4, <1>5, <1>6 DEF NextCache

LEMMA CacheAlways == CacheSpec => []CacheInv
BY CacheInit, CacheStep, PTL DEF CacheSpec

\* The variables of the cache and of its runs keep their types; every entry
\* has an owner, a key and a plan that was proposed.
THEOREM CacheTypeCorrect == CacheSpec => []CacheTypeOK
<1>1. CacheInv => CacheTypeOK
  BY DEF CacheInv
<1> QED BY <1>1, CacheAlways, PTL

\* A plan replayed from the cache is the one that last succeeded for this very
\* session and key, however many sessions meet at one key.
THEOREM ReplayCorrect == CacheSpec => []ReplaysOwnLatest
<1>1. CacheInv => ReplaysOwnLatest
  BY DEF CacheInv
<1> QED BY <1>1, CacheAlways, PTL

\* No plan is replayed once its session has lapsed, whatever the clock does
\* while its run goes on.
THEOREM ExpiryRespected == CacheSpec => NoReplayAfterExpiry
<1> DEFINE Replayed == \A s \in Sessions :
             stage[s] = "ready" /\ stage'[s] = "searching" /\ hit'[s] => now < Expiry[s]
<1>1. CacheInv /\ [NextCache]_cacheVars => [Replayed]_cacheVars
  <2> SUFFICES ASSUME CacheInv, NextCache, NEW s \in Sessions,
                      stage[s] = "ready", stage'[s] = "searching", hit'[s]
               PROVE  now < Expiry[s]
    OBVIOUS
  <2>1. PICK p \in PlanNumbers : Search(s, p)
    <3>1. stage \in [Sessions -> {"idle", "ready", "searching"}]
      BY DEF CacheInv, CacheTypeOK
    <3>2. ~Tick
      BY DEF Tick
    <3>3. PICK x \in Sessions :
             \/ \E k \in Keys : BeginRun(x, k)
             \/ \E p \in PlanNumbers : Search(x, p)
             \/ Succeed(x) \/ Fail(x) \/ EndRun(x)
      BY <3>2 DEF NextCache
    <3>4. ~Succeed(x) /\ ~Fail(x) /\ ~EndRun(x)
      BY <3>1 DEF Succeed, Fail, EndRun
    <3>5. ~(\E k \in Keys : BeginRun(x, k))
      BY <3>1 DEF BeginRun
    <3>6. PICK p \in PlanNumbers : Search(x, p)
      BY <3>3, <3>4, <3>5
    <3>7. x = s
      BY <3>1, <3>6 DEF Search
    <3> QED BY <3>6, <3>7
  <2>2. PICK e \in EntriesAt(key[s]) : Usable(s, e)
    BY <2>1 DEF Search, CacheInv, CacheTypeOK
  <2>3. now \in Nat /\ Expiry[s] \in Nat
    BY CacheAssumption DEF CacheInv, CacheTypeOK
  <2> QED BY <2>2, <2>3 DEF Usable, Lapsed
<1> QED BY <1>1, CacheAlways, PTL DEF CacheSpec, NoReplayAfterExpiry

-----------------------------------------------------------------------------
(***************************************************************************)
(* The session memory: what it is made of                                  *)
(***************************************************************************)

\* All that plans say.
Things ==
  UNION {ToSet(p.entities) \cup ToSet(p.hard) \cup ToSet(p.prefs) \cup ToSet(p.ranking)
         \cup ToSet(p.questions) \cup ToSet(p.conflicts) \cup ToSet(p.selection) : p \in Plans}

States ==
  [entities : Seq(Things), hard : Seq(Things), prefs : Seq(Things), ranking : Seq(Things),
   questions : Seq(Things), conflicts : Seq(Things), selection : Seq(Things)]

Memories ==
  [revision : Nat, summary : Nat, confirmed : States, pending : States \cup {NoPending},
   document : BOOLEAN]

Bounded(s) ==
  /\ Len(s.hard) + Len(s.prefs) <= Limit
  /\ Len(s.entities) <= EntityLimit /\ Len(s.ranking) <= EntityLimit

Inv ==
  /\ memory \in Memories
  /\ Bounded(memory.confirmed)
  /\ memory.pending # NoPending => Bounded(memory.pending)
  /\ Size(memory) <= MaxSize

-----------------------------------------------------------------------------
(***************************************************************************)
(* Lists                                                                   *)
(***************************************************************************)

LEMMA Limits ==
  /\ Limit \in Nat \ {0} /\ EntityLimit \in Nat \ {0}
  /\ MaxSize \in Nat /\ SummarySize \in Nat
BY MemoryAssumption

\* A sequence given as a function is as long as its domain.
LEMMA Enumerated ==
  ASSUME NEW S, NEW n \in Nat, NEW f \in [1 .. n -> S]
  PROVE  f \in Seq(S) /\ Len(f) = n
<1>1. f \in Seq(S)
  BY SeqDef
<1> QED BY <1>1, LenProperties

\* A set of natural numbers has a least element.
LEMMA LeastOne ==
  ASSUME NEW T, T \subseteq Nat, T # {}
  PROVE  \E n \in T : \A m \in T : n <= m
<1>1. PICK n \in T : \A m \in T : ~ (<<m, n>> \in OpToRel(<, Nat))
  BY NatLessThanWellFounded, WFMin
<1>2. \A m \in T : ~ (m < n)
  BY <1>1 DEF OpToRel
<1> QED BY <1>2

\* What a filter leaves of a list are the items of it that the filter passes.
LEMMA ChosenItems ==
  ASSUME NEW S, NEW s \in Seq(S), NEW P \in SUBSET DOMAIN s
  PROVE  /\ Chosen(s, P) \in Seq(S)
         /\ \A k \in DOMAIN Chosen(s, P) : \E i \in P : Chosen(s, P)[k] = s[i]
         /\ \A i \in P : \E k \in DOMAIN Chosen(s, P) : Chosen(s, P)[k] = s[i]
         /\ Len(Chosen(s, P)) <= Len(s)
<1> DEFINE n         == Cardinality(P)
           Ahead(i)  == {j \in P : j < i}
           rank      == [i \in P |-> Cardinality(Ahead(i)) + 1]
           pos       == [k \in 1 .. n |-> CHOOSE i \in P : Cardinality({j \in P : j < i}) = k - 1]
<1>1. DOMAIN s = 1 .. Len(s) /\ Len(s) \in Nat /\ \A i \in P : i \in Nat
  BY LenProperties
<1>2. IsFiniteSet(P) /\ n \in Nat /\ n <= Len(s)
  <2>1. IsFiniteSet(1 .. Len(s)) /\ Cardinality(1 .. Len(s)) = Len(s)
    BY <1>1, FS_Interval
  <2> QED BY <1>1, <2>1, FS_Subset, FS_CardinalityType
<1>3. ASSUME NEW i \in P
      PROVE  /\ Ahead(i) \in SUBSET P
             /\ IsFiniteSet(Ahead(i)) /\ Cardinality(Ahead(i)) \in Nat
             /\ Cardinality(Ahead(i)) < n
  <2>1. Ahead(i) \in SUBSET P /\ i \notin Ahead(i)
    BY <1>1
  <2>2. /\ IsFiniteSet(Ahead(i)) /\ Cardinality(Ahead(i)) <= n
        /\ n = Cardinality(Ahead(i)) => P = Ahead(i)
    BY <1>2, <2>1, FS_Subset
  <2>3. Cardinality(Ahead(i)) \in Nat
    BY <2>2, FS_CardinalityType
  <2> QED BY <1>2, <2>1, <2>2, <2>3
<1>4. ASSUME NEW i \in P, NEW j \in P, i < j
      PROVE  Cardinality(Ahead(i)) < Cardinality(Ahead(j))
  <2>1. Ahead(i) \in SUBSET Ahead(j) /\ i \in Ahead(j) /\ i \notin Ahead(i)
    BY <1>1, <1>4
  <2> HIDE DEF Ahead
  <2>2. /\ Cardinality(Ahead(i)) <= Cardinality(Ahead(j))
        /\ Cardinality(Ahead(j)) = Cardinality(Ahead(i)) => Ahead(j) = Ahead(i)
    BY <1>3, <2>1, FS_Subset
  <2>3. Cardinality(Ahead(i)) \in Nat /\ Cardinality(Ahead(j)) \in Nat
    BY <1>3
  <2> QED BY <2>1, <2>2, <2>3
<1>5. \A i, j \in P : i # j => i < j \/ j < i
  BY <1>1
<1> HIDE DEF Ahead
<1>6. rank \in Injection(P, 1 .. n)
  <2>1. \A i \in P : rank[i] \in 1 .. n
    BY <1>2, <1>3
  <2>2. \A i, j \in P : rank[i] = rank[j] => i = j
    BY <1>3, <1>4, <1>5
  <2> QED BY <2>1, <2>2 DEF Injection, IsInjective
<1>7. rank \in Surjection(P, 1 .. n)
  <2>1. IsFiniteSet(1 .. n) /\ Cardinality(1 .. n) = n
    BY <1>2, FS_Interval
  <2> HIDE DEF rank
  <2> QED BY <1>6, <2>1, FS_Injection
<1>8. ASSUME NEW k \in 1 .. n
      PROVE  pos[k] \in P /\ Cardinality(Ahead(pos[k])) = k - 1
  <2>1. PICK i \in P : rank[i] = k
    BY <1>7 DEF Surjection
  <2>2. Cardinality(Ahead(i)) = k - 1
    BY <1>3, <2>1
  <2>3. \E j \in P : Cardinality({l \in P : l < j}) = k - 1
    BY <2>2 DEF Ahead
  <2>4. pos[k] = CHOOSE j \in P : Cardinality({l \in P : l < j}) = k - 1
    OBVIOUS
  <2>5. pos[k] \in P /\ Cardinality({l \in P : l < pos[k]}) = k - 1
    BY <2>3, <2>4, Zenon
  <2> QED BY <2>5 DEF Ahead
<1>13. ASSUME NEW i \in P
       PROVE  rank[i] \in 1 .. n /\ pos[rank[i]] = i
  <2>1. rank[i] \in 1 .. n /\ rank[i] = Cardinality(Ahead(i)) + 1
    BY <1>6 DEF Injection
  <2>2. pos[rank[i]] \in P /\ rank[pos[rank[i]]] = rank[i]
    <3> DEFINE k == rank[i]
               j == pos[k]
    <3>1. j \in P /\ Cardinality(Ahead(j)) = k - 1 /\ k \in 1 .. n
      BY <1>8, <2>1
    <3>2. k - 1 + 1 = k
      BY <1>2, <3>1
    <3>3. rank[j] = Cardinality(Ahead(j)) + 1
      BY <3>1
    <3> HIDE DEF k, j
    <3>4. j \in P /\ rank[j] = k
      BY <3>1, <3>2, <3>3
    <3> QED BY <3>4 DEF k, j
  <2> HIDE DEF rank, pos
  <2> QED BY <1>6, <2>1, <2>2 DEF Injection, IsInjective
<1>9. Chosen(s, P) = [k \in 1 .. n |-> s[pos[k]]]
  BY DEF Chosen
<1> HIDE DEF pos, n, rank
<1>10. Chosen(s, P) \in [1 .. n -> S]
  <2>1. \A k \in 1 .. n : s[pos[k]] \in S
    BY <1>1, <1>8, ElementOfSeq
  <2> QED BY <1>9, <2>1
<1>11. Chosen(s, P) \in Seq(S) /\ Len(Chosen(s, P)) = n
  BY <1>2, <1>10, Enumerated
<1>12. \A k \in DOMAIN Chosen(s, P) : \E i \in P : Chosen(s, P)[k] = s[i]
  BY <1>8, <1>9
<1>14. \A i \in P : rank[i] \in DOMAIN Chosen(s, P) /\ Chosen(s, P)[rank[i]] = s[i]
  BY <1>9, <1>13
<1> QED BY <1>2, <1>11, <1>12, <1>14

\* A list cut to its last n items, if any are allowed.
LEMMA LastItemsKept ==
  ASSUME NEW S, NEW s \in Seq(S), NEW n \in Nat
  PROVE  /\ LastItems(s, n) \in Seq(S)
         /\ n # 0 => Len(LastItems(s, n)) <= n
         /\ ToSet(LastItems(s, n)) \subseteq ToSet(s)
         /\ Len(s) <= n => LastItems(s, n) = s
<1>1. Len(s) \in Nat /\ DOMAIN s = 1 .. Len(s)
  BY LenProperties
<1>2. CASE n = 0 \/ Len(s) <= n
  BY <1>2 DEF LastItems
<1>3. CASE ~(n = 0 \/ Len(s) <= n)
  <2> DEFINE last == SubSeq(s, Len(s) - n + 1, Len(s))
  <2>1. LastItems(s, n) = last
    BY <1>3 DEF LastItems
  <2>2. \A i \in Len(s) - n + 1 .. Len(s) : i \in DOMAIN s /\ s[i] \in S
    BY <1>1, <1>3, ElementOfSeq
  <2>3. Len(s) - n + 1 \in Int /\ Len(s) \in Int /\ Len(s) - n + 1 <= Len(s)
    BY <1>1, <1>3
  <2>4. /\ last \in Seq(S)
        /\ Len(last) = IF Len(s) - n + 1 <= Len(s) THEN Len(s) - (Len(s) - n + 1) + 1 ELSE 0
        /\ \A i \in 1 .. Len(s) - (Len(s) - n + 1) + 1 : last[i] = s[(Len(s) - n + 1) + i - 1]
    BY <2>2, <2>3, SubSeqProperties
  <2> HIDE DEF last
  <2>5. Len(last) = n
    BY <1>1, <2>3, <2>4
  <2>6. ASSUME NEW x \in ToSet(last)
        PROVE  x \in ToSet(s)
    <3>1. PICK i \in 1 .. n : x = last[i]
      BY <2>4, <2>5, LenProperties DEF ToSet
    <3>2. i \in 1 .. Len(s) - (Len(s) - n + 1) + 1 /\ (Len(s) - n + 1) + i - 1 \in DOMAIN s
      BY <1>1, <1>3
    <3> QED BY <2>4, <3>1, <3>2 DEF ToSet
  <2>7. ~ (Len(s) <= n)
    BY <1>3
  <2> QED BY <2>1, <2>4, <2>5, <2>6, <2>7
<1> QED BY <1>2, <1>3

LEMMA MergedById ==
  ASSUME NEW S, NEW existing \in Seq(S), NEW current \in Seq(S), NEW n \in Nat
  PROVE  LET merged == MergeById(existing, current, n)
         IN  /\ merged \in Seq(S)
             /\ n # 0 => Len(merged) <= n
             /\ ToSet(merged) \subseteq ToSet(existing) \cup ToSet(current)
             /\ Len(existing) + Len(current) <= n => ToSet(existing) \subseteq ToSet(merged)
<1> DEFINE all   == existing \o current
           P     == {i \in DOMAIN all : \A j \in DOMAIN all : j < i => all[j] # all[i]}
           union == Union(existing, current)
<1>1. /\ all \in Seq(S) /\ Len(all) = Len(existing) + Len(current)
      /\ \A i \in 1 .. Len(existing) + Len(current) :
           all[i] = IF i <= Len(existing) THEN existing[i] ELSE current[i - Len(existing)]
  BY ConcatProperties
<1>2. /\ Len(existing) \in Nat /\ Len(current) \in Nat
      /\ DOMAIN existing = 1 .. Len(existing) /\ DOMAIN current = 1 .. Len(current)
      /\ DOMAIN all = 1 .. Len(all)
  BY <1>1, LenProperties
<1>3. \A i \in DOMAIN all : all[i] \in ToSet(existing) \cup ToSet(current)
  <2> SUFFICES ASSUME NEW i \in DOMAIN all
               PROVE  all[i] \in ToSet(existing) \cup ToSet(current)
    OBVIOUS
  <2>1. CASE i <= Len(existing)
    <3>1. i \in DOMAIN existing /\ all[i] = existing[i]
      BY <1>1, <1>2, <2>1
    <3> QED BY <3>1 DEF ToSet
  <2>2. CASE ~(i <= Len(existing))
    <3>1. i - Len(existing) \in DOMAIN current /\ all[i] = current[i - Len(existing)]
      BY <1>1, <1>2, <2>2
    <3> QED BY <3>1 DEF ToSet
  <2> QED BY <2>1, <2>2
<1>4. union = Chosen(all, P) /\ P \in SUBSET DOMAIN all
  BY DEF Union
<1>7. ASSUME NEW x \in ToSet(existing)
      PROVE  \E i \in P : all[i] = x
  <2> DEFINE T == {i \in DOMAIN all : all[i] = x}
  <2>1. PICK i \in DOMAIN existing : existing[i] = x
    BY DEF ToSet
  <2>2. i \in T
    BY <1>1, <1>2, <2>1
  <2>3. T \subseteq Nat
    BY <1>2
  <2>4. PICK k \in T : \A m \in T : k <= m
    BY <2>2, <2>3, LeastOne
  <2>5. \A j \in DOMAIN all : j < k => all[j] # all[k]
    BY <1>2, <2>3, <2>4
  <2> QED BY <2>4, <2>5
<1> HIDE DEF all, P, union
<1>5. /\ union \in Seq(S) /\ ToSet(union) \subseteq ToSet(existing) \cup ToSet(current)
      /\ ToSet(existing) \subseteq ToSet(union) /\ Len(union) <= Len(existing) + Len(current)
  <2>1. /\ union \in Seq(S)
        /\ \A k \in DOMAIN union : \E i \in P : union[k] = all[i]
        /\ \A i \in P : \E k \in DOMAIN union : union[k] = all[i]
        /\ Len(union) <= Len(existing) + Len(current)
    BY <1>1, <1>4, ChosenItems
  <2>2. ToSet(existing) \subseteq ToSet(union)
    BY <1>7, <2>1 DEF ToSet
  <2>3. ToSet(union) \subseteq ToSet(existing) \cup ToSet(current)
    BY <1>3, <1>4, <2>1 DEF ToSet
  <2> QED BY <2>1, <2>2, <2>3
<1>6. MergeById(existing, current, n) = LastItems(union, n)
  BY DEF MergeById, union
<1>8. Len(union) \in Nat
  BY <1>5, LenProperties
<1>9. Len(existing) + Len(current) <= n => LastItems(union, n) = union
  BY <1>2, <1>5, <1>8, LastItemsKept
<1> QED BY <1>5, <1>6, <1>9, LastItemsKept

\* What is kept of what was said of other fields, and what is said now.
LEMMA MergedByField ==
  ASSUME NEW S, NEW existing \in Seq(S), NEW current \in Seq(S), NEW n \in Nat
  PROVE  LET merged == MergeByField(existing, current, n)
         IN  /\ merged \in Seq(S)
             /\ n # 0 => Len(merged) <= n
             /\ ToSet(merged) \subseteq ToSet(existing) \cup ToSet(current)
             /\ \A x \in ToSet(merged), y \in ToSet(current) :
                  x.field = y.field => x \in ToSet(current)
             /\ Len(existing) + Len(current) <= n =>
                  \A x \in ToSet(existing) :
                    x \in ToSet(merged) \/ \E y \in ToSet(current) : y.field = x.field
<1> DEFINE P      == {i \in DOMAIN existing : \A y \in ToSet(current) : y.field # existing[i].field}
           others == Chosen(existing, P)
<1>1. P \in SUBSET DOMAIN existing
  OBVIOUS
<1>2. \A i \in P : existing[i] \in ToSet(existing)
                   /\ \A y \in ToSet(current) : y.field # existing[i].field
  BY DEF ToSet
<1>3. MergeByField(existing, current, n) = MergeById(others, current, n)
  BY DEF MergeByField
<1> HIDE DEF P, others
<1>4. /\ others \in Seq(S) /\ Len(others) <= Len(existing)
      /\ \A k \in DOMAIN others : \E i \in P : others[k] = existing[i]
      /\ \A i \in P : \E k \in DOMAIN others : others[k] = existing[i]
  BY <1>1, ChosenItems DEF others
<1>5. \A x \in ToSet(others) : x \in ToSet(existing) /\ \A y \in ToSet(current) : y.field # x.field
  BY <1>2, <1>4 DEF ToSet
<1>9. \A x \in ToSet(existing) : x \in ToSet(others) \/ \E y \in ToSet(current) : y.field = x.field
  <2> SUFFICES ASSUME NEW x \in ToSet(existing), \A y \in ToSet(current) : y.field # x.field
               PROVE  x \in ToSet(others)
    OBVIOUS
  <2>1. PICK i \in DOMAIN existing : existing[i] = x
    BY DEF ToSet
  <2>2. i \in P
    BY <2>1 DEF P
  <2> QED BY <1>4, <2>1, <2>2 DEF ToSet
<1>10. Len(others) \in Nat /\ Len(existing) \in Nat /\ Len(current) \in Nat
  BY <1>4, LenProperties
<1> DEFINE merged == MergeById(others, current, n)
<1>6. /\ merged \in Seq(S)
      /\ n # 0 => Len(merged) <= n
      /\ ToSet(merged) \subseteq ToSet(others) \cup ToSet(current)
      /\ Len(others) + Len(current) <= n => ToSet(others) \subseteq ToSet(merged)
  BY <1>4, MergedById
<1> HIDE DEF merged
<1>7. ToSet(merged) \subseteq ToSet(existing) \cup ToSet(current)
  BY <1>5, <1>6
<1>8. \A x \in ToSet(merged), y \in ToSet(current) : x.field = y.field => x \in ToSet(current)
  BY <1>5, <1>6
<1>11. Len(existing) + Len(current) <= n =>
         \A x \in ToSet(existing) :
           x \in ToSet(merged) \/ \E y \in ToSet(current) : y.field = x.field
  <2>1. Len(existing) + Len(current) <= n => Len(others) + Len(current) <= n
    BY <1>4, <1>10
  <2> QED BY <1>6, <1>9, <2>1
<1> QED BY <1>3, <1>6, <1>7, <1>8, <1>11 DEF merged

\* What is not removed.
LEMMA KeptItems ==
  ASSUME NEW S, NEW s \in Seq(S), NEW removed
  PROVE  /\ Kept(s, removed) \in Seq(S) /\ Len(Kept(s, removed)) <= Len(s)
         /\ ToSet(Kept(s, removed)) = ToSet(s) \ removed
<1> DEFINE P == {i \in DOMAIN s : s[i] \notin removed}
<1>1. P \in SUBSET DOMAIN s /\ \A i \in P : s[i] \in ToSet(s) \ removed
  BY DEF ToSet
<1>2. Kept(s, removed) = Chosen(s, P)
  BY DEF Kept
<1>4. \A x \in ToSet(s) \ removed : \E i \in P : s[i] = x
  BY DEF ToSet
<1> HIDE DEF P
<1>3. /\ Chosen(s, P) \in Seq(S) /\ Len(Chosen(s, P)) <= Len(s)
      /\ \A k \in DOMAIN Chosen(s, P) : \E i \in P : Chosen(s, P)[k] = s[i]
      /\ \A i \in P : \E k \in DOMAIN Chosen(s, P) : Chosen(s, P)[k] = s[i]
  BY <1>1, ChosenItems
<1>5. ToSet(Chosen(s, P)) \subseteq ToSet(s) \ removed
  BY <1>1, <1>3 DEF ToSet
<1>6. ToSet(s) \ removed \subseteq ToSet(Chosen(s, P))
  BY <1>3, <1>4 DEF ToSet
<1> QED BY <1>2, <1>3, <1>5, <1>6

-----------------------------------------------------------------------------
(***************************************************************************)
(* States                                                                  *)
(***************************************************************************)

LEMMA PlanStates ==
  ASSUME NEW p \in Plans
  PROVE  p \in States /\ Bounded(p)
<1>1. p \in [entities : Seq(ToSet(p.entities)), hard : Seq(ToSet(p.hard)),
             prefs : Seq(ToSet(p.prefs)), ranking : Seq(ToSet(p.ranking)),
             questions : Seq(ToSet(p.questions)), conflicts : Seq(ToSet(p.conflicts)),
             selection : Seq(ToSet(p.selection))]
  BY PlansAssumption
<1>2. /\ ToSet(p.entities) \subseteq Things /\ ToSet(p.hard) \subseteq Things
      /\ ToSet(p.prefs) \subseteq Things /\ ToSet(p.ranking) \subseteq Things
      /\ ToSet(p.questions) \subseteq Things /\ ToSet(p.conflicts) \subseteq Things
      /\ ToSet(p.selection) \subseteq Things
  BY DEF Things
<1>3. /\ p.entities \in Seq(ToSet(p.entities)) /\ p.hard \in Seq(ToSet(p.hard))
      /\ p.prefs \in Seq(ToSet(p.prefs)) /\ p.ranking \in Seq(ToSet(p.ranking))
      /\ p.questions \in Seq(ToSet(p.questions)) /\ p.conflicts \in Seq(ToSet(p.conflicts))
      /\ p.selection \in Seq(ToSet(p.selection))
  BY <1>1
<1>4. /\ p.entities \in Seq(Things) /\ p.hard \in Seq(Things) /\ p.prefs \in Seq(Things)
      /\ p.ranking \in Seq(Things) /\ p.questions \in Seq(Things)
      /\ p.conflicts \in Seq(Things) /\ p.selection \in Seq(Things)
  BY <1>2, <1>3, SeqMonotonic
<1>5. p \in States
  BY <1>1, <1>4 DEF States
<1>6. Bounded(p)
  BY MemoryAssumption DEF Bounded
<1> QED BY <1>5, <1>6

LEMMA NoPendingIsNoState == NoPending \notin States
<1>1. DOMAIN NoPending = {"hard"}
  BY DEF NoPending
<1>2. \A s \in States : "entities" \in DOMAIN s
  BY DEF States
<1> QED BY <1>1, <1>2

LEMMA NoStateIsEmpty == NoState \in States /\ Bounded(NoState) /\ StateSize(NoState) = 0
<1>1. <<>> \in Seq(Things) /\ Len(<<>>) = 0
  BY EmptySeq
<1>2. NoState \in States
  BY <1>1 DEF NoState, States
<1>3. Bounded(NoState) /\ StateSize(NoState) = 0
  BY <1>1, Limits DEF NoState, Bounded, StateSize
<1> QED BY <1>2, <1>3

\* The parts of a state and their lengths.
LEMMA StateParts ==
  ASSUME NEW s \in States
  PROVE  /\ s.entities \in Seq(Things) /\ s.hard \in Seq(Things) /\ s.prefs \in Seq(Things)
         /\ s.ranking \in Seq(Things) /\ s.questions \in Seq(Things)
         /\ s.conflicts \in Seq(Things) /\ s.selection \in Seq(Things)
         /\ Len(s.entities) \in Nat /\ Len(s.hard) \in Nat /\ Len(s.prefs) \in Nat
         /\ Len(s.ranking) \in Nat /\ StateSize(s) \in Nat
<1>1. /\ s.entities \in Seq(Things) /\ s.hard \in Seq(Things) /\ s.prefs \in Seq(Things)
      /\ s.ranking \in Seq(Things) /\ s.questions \in Seq(Things)
      /\ s.conflicts \in Seq(Things) /\ s.selection \in Seq(Things)
  BY DEF States
<1>2. /\ Len(s.entities) \in Nat /\ Len(s.hard) \in Nat /\ Len(s.prefs) \in Nat
      /\ Len(s.ranking) \in Nat /\ Len(s.questions) \in Nat
      /\ Len(s.conflicts) \in Nat /\ Len(s.selection) \in Nat
  BY <1>1, LenProperties
<1> DEFINE a == Len(s.entities)
           b == Len(s.hard)
           c == Len(s.prefs)
           d == Len(s.ranking)
           e == Len(s.questions)
           f == Len(s.conflicts)
           g == Len(s.selection)
<1>3. StateSize(s) = a + b + c + d + e + f + g
  BY DEF StateSize
<1>4. a \in Nat /\ b \in Nat /\ c \in Nat /\ d \in Nat /\ e \in Nat /\ f \in Nat /\ g \in Nat
  BY <1>2
<1> HIDE DEF a, b, c, d, e, f, g
<1>5. StateSize(s) \in Nat
  BY <1>3, <1>4
<1> QED BY <1>1, <1>2, <1>5

\* What a plan says of a field is all the state says of it.
LastWord(s, plan) ==
  /\ \A x \in ToSet(s.hard), y \in ToSet(plan.hard) : x.field = y.field => x \in ToSet(plan.hard)
  /\ \A x \in ToSet(s.prefs), y \in ToSet(plan.prefs) : x.field = y.field => x \in ToSet(plan.prefs)
  /\ \A x \in ToSet(s.ranking), y \in ToSet(plan.ranking) :
       x.field = y.field => x \in ToSet(plan.ranking)

Gone(s, plan, removed) == removed \cap Mergeable(s) \subseteq Mergeable(plan)

LEMMA Merged ==
  ASSUME NEW base \in States, NEW current \in States, NEW removed
  PROVE  LET s == Merge(base, current, removed)
         IN  /\ s \in States
             /\ Len(s.entities) <= EntityLimit /\ Len(s.ranking) <= EntityLimit
             /\ LastWord(s, current) /\ Gone(s, current, removed)
             /\ CarriesOn(s, base, current, removed)
<1> DEFINE s       == Merge(base, current, removed)
           keptE   == Kept(base.entities, removed)
           keptH   == Kept(base.hard, removed)
           keptP   == Kept(base.prefs, removed)
           keptR   == Kept(base.ranking, removed)
           hard    == MergeByField(keptH, current.hard, Limit)
           n       == Limit - Len(hard)
           entities == MergeById(keptE, current.entities, EntityLimit)
           prefs   == MergeByField(keptP, current.prefs, n)
           ranking == MergeByField(keptR, current.ranking, EntityLimit)
<1>1. /\ base.entities \in Seq(Things) /\ base.hard \in Seq(Things)
      /\ base.prefs \in Seq(Things) /\ base.ranking \in Seq(Things)
      /\ base.questions \in Seq(Things) /\ base.selection \in Seq(Things)
      /\ current.entities \in Seq(Things) /\ current.hard \in Seq(Things)
      /\ current.prefs \in Seq(Things) /\ current.ranking \in Seq(Things)
      /\ current.questions \in Seq(Things) /\ current.conflicts \in Seq(Things)
      /\ current.selection \in Seq(Things)
  BY StateParts
<1>2. /\ keptE \in Seq(Things) /\ keptH \in Seq(Things)
      /\ keptP \in Seq(Things) /\ keptR \in Seq(Things)
      /\ removed \cap (ToSet(keptE) \cup ToSet(keptH) \cup ToSet(keptP) \cup ToSet(keptR)) = {}
      /\ ToSet(keptE) = ToSet(base.entities) \ removed /\ Len(keptE) <= Len(base.entities)
      /\ ToSet(keptH) = ToSet(base.hard) \ removed /\ Len(keptH) <= Len(base.hard)
  BY <1>1, KeptItems
<1> HIDE DEF keptE, keptH, keptP, keptR
<1>3. /\ hard \in Seq(Things) /\ Len(hard) <= Limit
      /\ ToSet(hard) \subseteq ToSet(keptH) \cup ToSet(current.hard)
      /\ \A x \in ToSet(hard), y \in ToSet(current.hard) :
           x.field = y.field => x \in ToSet(current.hard)
      /\ Len(keptH) + Len(current.hard) <= Limit =>
           \A x \in ToSet(keptH) :
             x \in ToSet(hard) \/ \E y \in ToSet(current.hard) : y.field = x.field
  BY <1>1, <1>2, Limits, MergedByField
<1>4. n \in Nat
  BY <1>3, Limits, LenProperties
<1> HIDE DEF n, hard
<1>5. /\ entities \in Seq(Things) /\ Len(entities) <= EntityLimit
      /\ ToSet(entities) \subseteq ToSet(keptE) \cup ToSet(current.entities)
      /\ Len(keptE) + Len(current.entities) <= EntityLimit =>
           ToSet(keptE) \subseteq ToSet(entities)
  <2>1. /\ keptE \in Seq(Things) /\ current.entities \in Seq(Things)
        /\ EntityLimit \in Nat /\ EntityLimit # 0
    BY <1>1, <1>2, Limits
  <2> QED BY <2>1, MergedById
<1>6. /\ prefs \in Seq(Things)
      /\ ToSet(prefs) \subseteq ToSet(keptP) \cup ToSet(current.prefs)
      /\ \A x \in ToSet(prefs), y \in ToSet(current.prefs) :
           x.field = y.field => x \in ToSet(current.prefs)
  BY <1>1, <1>2, <1>4, MergedByField
<1>7. /\ ranking \in Seq(Things) /\ Len(ranking) <= EntityLimit
      /\ ToSet(ranking) \subseteq ToSet(keptR) \cup ToSet(current.ranking)
      /\ \A x \in ToSet(ranking), y \in ToSet(current.ranking) :
           x.field = y.field => x \in ToSet(current.ranking)
  BY <1>1, <1>2, Limits, MergedByField
<1>8. s = [entities |-> entities, hard |-> hard, prefs |-> prefs, ranking |-> ranking,
           questions |-> Current(current.questions, base.questions),
           conflicts |-> current.conflicts,
           selection |-> Current(current.selection, base.selection)]
  BY DEF Merge, hard, n, keptE, keptH, keptP, keptR
<1>9. /\ Current(current.questions, base.questions) \in Seq(Things)
      /\ Current(current.selection, base.selection) \in Seq(Things)
  BY <1>1 DEF Current
<1> HIDE DEF s, entities, prefs, ranking
<1>10. /\ s.entities = entities /\ s.hard = hard /\ s.prefs = prefs /\ s.ranking = ranking
       /\ s \in States
  BY <1>1, <1>3, <1>5, <1>6, <1>7, <1>8, <1>9 DEF States
<1>11. LastWord(s, current)
  BY <1>3, <1>6, <1>7, <1>10 DEF LastWord
<1>12. Gone(s, current, removed)
  BY <1>2, <1>3, <1>5, <1>6, <1>7, <1>10 DEF Gone, Mergeable
<1>13. /\ Len(keptE) \in Nat /\ Len(keptH) \in Nat
       /\ Len(base.entities) \in Nat /\ Len(base.hard) \in Nat
       /\ Len(current.entities) \in Nat /\ Len(current.hard) \in Nat
  BY <1>1, <1>2, LenProperties
<1>14. /\ Len(base.hard) + Len(current.hard) <= Limit =>
            Len(keptH) + Len(current.hard) <= Limit
       /\ Len(base.entities) + Len(current.entities) <= EntityLimit =>
            Len(keptE) + Len(current.entities) <= EntityLimit
  <2>1. \A a, b, c, d \in Nat : a <= b /\ b + c <= d => a + c <= d
    OBVIOUS
  <2>2. Len(keptE) <= Len(base.entities) /\ Len(keptH) <= Len(base.hard)
    BY <1>2
  <2> QED BY <1>13, <2>1, <2>2, Limits
<1>15. CarriesOn(s, base, current, removed)
  BY <1>2, <1>3, <1>5, <1>10, <1>14 DEF CarriesOn
<1> QED BY <1>5, <1>7, <1>10, <1>11, <1>12, <1>15 DEF s

\* A state that kept only the questions and conflicts of the turn.
LEMMA Preserved ==
  ASSUME NEW base \in States, NEW current \in States
  PROVE  /\ Preserve(base, current) \in States
         /\ Bounded(base) => Bounded(Preserve(base, current))
         /\ Preserve(base, current).hard = base.hard
         /\ Preserve(base, current).entities = base.entities
<1> DEFINE q == Current(current.questions, base.questions)
           s == Preserve(base, current)
<1>1. q \in Seq(Things) /\ current.conflicts \in Seq(Things)
  BY StateParts DEF Current
<1>2. /\ s \in States /\ s.hard = base.hard /\ s.prefs = base.prefs
      /\ s.entities = base.entities /\ s.ranking = base.ranking
  BY <1>1 DEF Preserve, States
<1> QED BY <1>2 DEF Bounded

-----------------------------------------------------------------------------
(***************************************************************************)
(* Fitting a memory                                                        *)
(***************************************************************************)

LEMMA SizeType ==
  ASSUME NEW m \in Memories
  PROVE  Size(m) \in Nat /\ Overflow(m) \in Nat
<1>1. m.summary \in Nat /\ StateSize(m.confirmed) \in Nat
  BY StateParts DEF Memories
<1>2. m.pending # NoPending => StateSize(m.pending) \in Nat
  BY StateParts DEF Memories
<1>3. Size(m) \in Nat
  BY <1>1, <1>2 DEF Size
<1> QED BY <1>3, Limits DEF Overflow

\* The first items of a list.
Starts(a, b) ==
  /\ a \in Seq(Things) /\ Len(a) <= Len(b)
  /\ \A i \in 1 .. Len(a) : a[i] = b[i]

\* A state that gave up only what _fit_memory may, from the ends of its lists.
Shorter(a, b) ==
  /\ a \in States
  /\ a.entities = b.entities /\ a.hard = b.hard
  /\ Starts(a.prefs, b.prefs) /\ Starts(a.ranking, b.ranking)

\* A memory that gave up only what _fit_memory may.
Trimmed(a, m) ==
  /\ a \in Memories
  /\ Shorter(a.confirmed, m.confirmed)
  /\ m.pending = NoPending => a.pending = NoPending
  /\ m.pending # NoPending => a.pending # NoPending /\ Shorter(a.pending, m.pending)

LEMMA StartsItself ==
  ASSUME NEW s \in Seq(Things)
  PROVE  Starts(s, s)
BY LenProperties DEF Starts

LEMMA ShorterItself ==
  ASSUME NEW s \in States
  PROVE  Shorter(s, s)
BY StateParts, StartsItself DEF Shorter

LEMMA ShorterLonger ==
  ASSUME NEW a, NEW b, NEW c \in States, Shorter(b, c), Shorter(a, b)
  PROVE  Shorter(a, c)
<1>1. a \in States /\ b \in States /\ a.entities = c.entities /\ a.hard = c.hard
  BY DEF Shorter
<1>2. \A x, y, z \in Seq(Things) : Starts(x, y) /\ Starts(y, z) => Starts(x, z)
  <2> SUFFICES ASSUME NEW x \in Seq(Things), NEW y \in Seq(Things), NEW z \in Seq(Things),
                      Starts(x, y), Starts(y, z)
               PROVE  Starts(x, z)
    OBVIOUS
  <2>1. Len(x) \in Nat /\ Len(y) \in Nat /\ Len(z) \in Nat
    BY LenProperties
  <2>2. Len(x) <= Len(z) /\ \A i \in 1 .. Len(x) : i \in 1 .. Len(y)
    BY <2>1 DEF Starts
  <2> QED BY <2>2 DEF Starts
<1>3. /\ a.prefs \in Seq(Things) /\ b.prefs \in Seq(Things) /\ c.prefs \in Seq(Things)
      /\ a.ranking \in Seq(Things) /\ b.ranking \in Seq(Things) /\ c.ranking \in Seq(Things)
  BY <1>1, StateParts
<1>4. /\ Starts(a.prefs, b.prefs) /\ Starts(b.prefs, c.prefs)
      /\ Starts(a.ranking, b.ranking) /\ Starts(b.ranking, c.ranking)
  BY DEF Shorter
<1> QED BY <1>1, <1>2, <1>3, <1>4 DEF Shorter

LEMMA TrimmedFurther ==
  ASSUME NEW a, NEW b, NEW c \in Memories, Trimmed(b, c), Trimmed(a, b)
  PROVE  Trimmed(a, c)
<1>1. c.confirmed \in States /\ (c.pending # NoPending => c.pending \in States)
  BY DEF Memories
<1>2. Shorter(a.confirmed, c.confirmed)
  BY <1>1, ShorterLonger DEF Trimmed
<1>3. c.pending # NoPending => a.pending # NoPending /\ Shorter(a.pending, c.pending)
  BY <1>1, ShorterLonger DEF Trimmed
<1> QED BY <1>2, <1>3 DEF Trimmed

LEMMA ShortenedList ==
  ASSUME NEW s \in Seq(Things), NEW n \in Nat
  PROVE  Shortened(s, n) \in Seq(Things) /\ Starts(Shortened(s, n), s)
<1> DEFINE short == SubSeq(s, 1, Len(s) - n)
<1>1. Len(s) \in Nat /\ DOMAIN s = 1 .. Len(s) /\ Len(s) - n \in Int
  BY LenProperties
<1>2. \A i \in 1 .. Len(s) - n : s[i] \in Things
  BY <1>1, ElementOfSeq
<1>3. /\ short \in Seq(Things)
      /\ Len(short) = IF 1 <= Len(s) - n THEN Len(s) - n - 1 + 1 ELSE 0
      /\ \A i \in 1 .. Len(s) - n - 1 + 1 : short[i] = s[1 + i - 1]
  BY <1>1, <1>2, SubSeqProperties
<1>4. Shortened(s, n) = short
  BY DEF Shortened
<1> HIDE DEF short
<1>5. Len(short) \in Nat /\ Len(short) <= Len(s)
  BY <1>1, <1>3
<1>6. ASSUME NEW i \in 1 .. Len(short)
      PROVE  short[i] = s[i]
  <2> DEFINE l == Len(s)
  <2>1. l \in Nat /\ n \in Nat /\ i \in Nat /\ 1 <= i /\ i <= Len(short)
    BY <1>1, <1>5
  <2>2. Len(short) = IF 1 <= l - n THEN l - n - 1 + 1 ELSE 0
    BY <1>3
  <2>3. \A j \in 1 .. l - n - 1 + 1 : short[j] = s[1 + j - 1]
    BY <1>3
  <2> HIDE DEF l
  <2>4. i <= l - n
    BY <2>1, <2>2
  <2>5. i \in 1 .. l - n - 1 + 1
    BY <2>1, <2>4
  <2>6. 1 + i - 1 = i
    BY <2>1
  <2> QED BY <2>3, <2>5, <2>6
<1> QED BY <1>3, <1>4, <1>5, <1>6 DEF Starts

\* What of a state _fit_memory shortens.
TrimmedParts == {"questions", "prefs", "ranking", "conflicts", "selection"}

LEMMA ShortenedState ==
  ASSUME NEW s \in States, NEW part \in TrimmedParts, NEW n \in Nat
  PROVE  Shorter(Shorten(s, part, n), s)
<1>1. /\ s.prefs \in Seq(Things) /\ s.ranking \in Seq(Things) /\ s.questions \in Seq(Things)
      /\ s.conflicts \in Seq(Things) /\ s.selection \in Seq(Things)
  BY StateParts
<1>2. /\ Starts(s.prefs, s.prefs) /\ Starts(s.ranking, s.ranking)
  BY <1>1, StartsItself
<1>3. CASE part = "questions"
  <2>1. Shortened(s.questions, n) \in Seq(Things)
    BY <1>1, ShortenedList
  <2>2. Shorten(s, part, n) = [s EXCEPT !.questions = Shortened(s.questions, n)]
    BY <1>3 DEF Shorten
  <2> QED BY <1>2, <2>1, <2>2 DEF Shorter, States
<1>4. CASE part = "prefs"
  <2>1. Shortened(s.prefs, n) \in Seq(Things) /\ Starts(Shortened(s.prefs, n), s.prefs)
    BY <1>1, ShortenedList
  <2>2. Shorten(s, part, n) = [s EXCEPT !.prefs = Shortened(s.prefs, n)]
    BY <1>4 DEF Shorten
  <2> QED BY <1>2, <2>1, <2>2 DEF Shorter, States
<1>5. CASE part = "ranking"
  <2>1. Shortened(s.ranking, n) \in Seq(Things) /\ Starts(Shortened(s.ranking, n), s.ranking)
    BY <1>1, ShortenedList
  <2>2. Shorten(s, part, n) = [s EXCEPT !.ranking = Shortened(s.ranking, n)]
    BY <1>5 DEF Shorten
  <2> QED BY <1>2, <2>1, <2>2 DEF Shorter, States
<1>6. CASE part = "conflicts"
  <2>1. Shortened(s.conflicts, n) \in Seq(Things)
    BY <1>1, ShortenedList
  <2>2. Shorten(s, part, n) = [s EXCEPT !.conflicts = Shortened(s.conflicts, n)]
    BY <1>6 DEF Shorten
  <2> QED BY <1>2, <2>1, <2>2 DEF Shorter, States
<1>7. CASE part = "selection"
  <2>1. Shortened(s.selection, n) \in Seq(Things)
    BY <1>1, ShortenedList
  <2>2. Shorten(s, part, n) = [s EXCEPT !.selection = Shortened(s.selection, n)]
    BY <1>7 DEF Shorten
  <2> QED BY <1>2, <2>1, <2>2 DEF Shorter, States
<1> QED BY <1>3, <1>4, <1>5, <1>6, <1>7 DEF TrimmedParts

LEMMA TrimmedOnce ==
  ASSUME NEW m \in Memories, NEW part \in TrimmedParts
  PROVE  Trimmed(Trim(m, part), m)
<1> DEFINE a == TrimConfirmed(m, part)
           c == Shorten(m.confirmed, part, Overflow(m))
           p == Shorten(m.pending, part, Overflow(a))
<1>1. /\ m.confirmed \in States /\ m.pending \in States \cup {NoPending}
      /\ Overflow(m) \in Nat
  BY SizeType DEF Memories
<1>2. Shorter(c, m.confirmed)
  BY <1>1, ShortenedState
<1> HIDE DEF c
<1>3. a = [m EXCEPT !.confirmed = c]
  BY DEF TrimConfirmed, c
<1>4. a \in Memories /\ a.confirmed = c /\ a.pending = m.pending
  BY <1>2, <1>3 DEF Memories, Shorter
<1> HIDE DEF a
<1>5. Trim(m, part) = TrimPending(a, part)
  BY DEF Trim, a
<1>6. CASE m.pending = NoPending
  BY <1>2, <1>4, <1>5, <1>6 DEF TrimPending, Trimmed
<1>7. CASE m.pending # NoPending
  <2>1. m.pending \in States /\ Overflow(a) \in Nat
    BY <1>1, <1>4, <1>7, SizeType
  <2>2. Shorter(p, m.pending)
    BY <2>1, ShortenedState
  <2> HIDE DEF p
  <2>3. TrimPending(a, part) = [a EXCEPT !.pending = p]
    BY <1>4, <1>7 DEF TrimPending, p
  <2>4. p \in States /\ p # NoPending
    BY <2>2, NoPendingIsNoState DEF Shorter
  <2>5. /\ TrimPending(a, part) \in Memories
        /\ TrimPending(a, part).confirmed = c
        /\ TrimPending(a, part).pending = p
    BY <1>4, <2>3, <2>4 DEF Memories
  <2> QED BY <1>2, <1>5, <1>7, <2>2, <2>4, <2>5 DEF Trimmed
<1> QED BY <1>6, <1>7

LEMMA Fitted ==
  ASSUME NEW m \in Memories
  PROVE  Trimmed(Fit(m), m)
<1> DEFINE a == TrimSummary(m)
           b == Trim(a, "questions")
           c == Trim(b, "prefs")
           d == Trim(c, "ranking")
           e == Trim(d, "conflicts")
           f == Trim(e, "selection")
<1>1. Trimmed(a, m)
  <2>1. Overflow(m) \in Nat /\ m.summary \in Nat
    BY SizeType DEF Memories
  <2>2. (IF m.summary > Overflow(m) THEN m.summary - Overflow(m) ELSE 0) \in Nat
    BY <2>1
  <2>3. a \in Memories /\ a.confirmed = m.confirmed /\ a.pending = m.pending
    BY <2>2 DEF TrimSummary, Memories
  <2>4. Shorter(m.confirmed, m.confirmed) /\ (m.pending # NoPending => Shorter(m.pending, m.pending))
    BY ShorterItself DEF Memories
  <2> QED BY <2>3, <2>4 DEF Trimmed
<1> HIDE DEF a
<1>2. Trimmed(b, m)
  BY <1>1, TrimmedOnce, TrimmedFurther DEF Trimmed, TrimmedParts
<1> HIDE DEF b
<1>3. Trimmed(c, m)
  BY <1>2, TrimmedOnce, TrimmedFurther DEF Trimmed, TrimmedParts
<1> HIDE DEF c
<1>4. Trimmed(d, m)
  BY <1>3, TrimmedOnce, TrimmedFurther DEF Trimmed, TrimmedParts
<1> HIDE DEF d
<1>5. Trimmed(e, m)
  BY <1>4, TrimmedOnce, TrimmedFurther DEF Trimmed, TrimmedParts
<1> HIDE DEF e
<1>6. Trimmed(f, m)
  BY <1>5, TrimmedOnce, TrimmedFurther DEF Trimmed, TrimmedParts
<1> HIDE DEF f
<1>7. Fit(m) = f
  BY DEF Fit, a, b, c, d, e, f
<1> QED BY <1>6, <1>7

-----------------------------------------------------------------------------
(***************************************************************************)
(* What a shortened state still says                                       *)
(***************************************************************************)

LEMMA StartsSays ==
  ASSUME NEW a, NEW b \in Seq(Things), Starts(a, b)
  PROVE  ToSet(a) \subseteq ToSet(b)
<1>1. Len(a) \in Nat /\ DOMAIN a = 1 .. Len(a) /\ Len(b) \in Nat /\ DOMAIN b = 1 .. Len(b)
  BY LenProperties DEF Starts
<1>2. \A i \in DOMAIN a : i \in DOMAIN b /\ a[i] = b[i]
  BY <1>1 DEF Starts
<1> QED BY <1>2 DEF ToSet

LEMMA StartsPrefix ==
  ASSUME NEW a, NEW b \in Seq(Things), Starts(a, b)
  PROVE  IsPrefix(a, b)
<1> DEFINE first == SubSeq(b, 1, Len(a))
<1>1. /\ a \in Seq(Things) /\ Len(a) \in Nat /\ DOMAIN a = 1 .. Len(a)
      /\ Len(b) \in Nat /\ DOMAIN b = 1 .. Len(b) /\ Len(a) <= Len(b)
  BY LenProperties DEF Starts
<1>2. \A i \in 1 .. Len(a) : b[i] \in Things /\ a[i] = b[i]
  BY <1>1, ElementOfSeq DEF Starts
<1>3. /\ first \in Seq(Things)
      /\ Len(first) = IF 1 <= Len(a) THEN Len(a) - 1 + 1 ELSE 0
      /\ \A i \in 1 .. Len(a) - 1 + 1 : first[i] = b[1 + i - 1]
  BY <1>1, <1>2, SubSeqProperties
<1> HIDE DEF first
<1>4. Len(first) = Len(a)
  BY <1>1, <1>3
<1>5. ASSUME NEW i \in 1 .. Len(a)
      PROVE  first[i] = a[i]
  <2>1. i \in 1 .. Len(a) - 1 + 1 /\ 1 + i - 1 = i
    BY <1>1
  <2> QED BY <1>2, <1>3, <2>1
<1>6. first = a
  BY <1>1, <1>3, <1>4, <1>5, SeqEqual
<1>7. SubSeq(a, 1, Len(a)) = a
  BY <1>1, SubSeqFull
<1> QED BY <1>1, <1>6, <1>7 DEF IsPrefix, first

LEMMA ShorterSays ==
  ASSUME NEW a, NEW b \in States, Shorter(a, b)
  PROVE  /\ Bounded(b) => Bounded(a)
         /\ \A plan : LastWord(b, plan) => LastWord(a, plan)
         /\ \A plan, removed : Gone(b, plan, removed) => Gone(a, plan, removed)
         /\ \A old, plan, removed :
              CarriesOn(b, old, plan, removed) => CarriesOn(a, old, plan, removed)
<1>1. /\ a \in States /\ a.entities = b.entities /\ a.hard = b.hard
      /\ Starts(a.prefs, b.prefs) /\ Starts(a.ranking, b.ranking)
  BY DEF Shorter
<1>2. /\ b.prefs \in Seq(Things) /\ b.ranking \in Seq(Things)
      /\ Len(a.hard) \in Nat /\ Len(a.prefs) \in Nat /\ Len(a.ranking) \in Nat
      /\ Len(b.prefs) \in Nat /\ Len(b.ranking) \in Nat
  BY <1>1, StateParts
<1>3. ToSet(a.prefs) \subseteq ToSet(b.prefs) /\ ToSet(a.ranking) \subseteq ToSet(b.ranking)
  BY <1>1, <1>2, StartsSays
<1>4. Bounded(b) => Bounded(a)
  <2>1. Len(a.prefs) <= Len(b.prefs) /\ Len(a.ranking) <= Len(b.ranking)
    BY <1>1 DEF Starts
  <2> DEFINE h == Len(a.hard)
             k == Len(a.prefs)
             l == Len(b.prefs)
             r == Len(a.ranking)
             z == Len(b.ranking)
  <2>2. /\ h \in Nat /\ k \in Nat /\ l \in Nat /\ r \in Nat /\ z \in Nat
        /\ k <= l /\ r <= z
    BY <1>2, <2>1
  <2>3. /\ Bounded(b) <=> h + l <= Limit /\ Len(b.entities) <= EntityLimit /\ z <= EntityLimit
        /\ Bounded(a) <=> h + k <= Limit /\ Len(b.entities) <= EntityLimit /\ r <= EntityLimit
    BY <1>1 DEF Bounded
  <2> HIDE DEF h, k, l, r, z
  <2>4. h + l <= Limit => h + k <= Limit
    BY <2>2, Limits
  <2>5. z <= EntityLimit => r <= EntityLimit
    BY <2>2, Limits
  <2> QED BY <2>3, <2>4, <2>5
<1>5. \A plan : LastWord(b, plan) => LastWord(a, plan)
  BY <1>1, <1>3 DEF LastWord
<1>6. Mergeable(a) \subseteq Mergeable(b)
  BY <1>1, <1>3 DEF Mergeable
<1>7. \A old, plan, removed :
        CarriesOn(b, old, plan, removed) => CarriesOn(a, old, plan, removed)
  BY <1>1 DEF CarriesOn
<1>8. \A plan, removed : Gone(b, plan, removed) => Gone(a, plan, removed)
  BY <1>6 DEF Gone
<1> QED BY <1>4, <1>5, <1>7, <1>8

-----------------------------------------------------------------------------
(***************************************************************************)
(* Turns                                                                   *)
(***************************************************************************)

\* A state carries on what the action lets it start from.
Onwards(s, action, plan, removed) ==
  /\ action = "merge" => CarriesOn(s, Active(memory), plan, removed)
  /\ action = "preserve" => /\ s.hard = memory.confirmed.hard
                            /\ s.entities = memory.confirmed.entities

\* The state a turn leads to, before it is trimmed.
LEMMA NextStates ==
  ASSUME Inv, NEW action \in Actions, NEW current \in Plans, NEW removed
  PROVE  LET s == NextState(action, current, removed)
         IN  /\ s \in States /\ (Valid(s) => Bounded(s))
             /\ action \in {"merge", "replace"} => LastWord(s, current)
             /\ action = "merge" => Gone(s, current, removed)
             /\ Onwards(s, action, current, removed)
<1>1. current \in States /\ Bounded(current)
  BY PlanStates
<1>2. /\ memory.confirmed \in States /\ Bounded(memory.confirmed)
      /\ memory.pending # NoPending => memory.pending \in States
  BY DEF Inv, Memories
<1>3. CASE action = "replace"
  <2>1. NextState(action, current, removed) = current
    BY <1>3 DEF NextState
  <2>2. LastWord(current, current)
    BY DEF LastWord
  <2> QED BY <1>1, <1>3, <2>1, <2>2 DEF Onwards
<1>4. CASE action = "preserve"
  <2>1. NextState(action, current, removed) = Preserve(memory.confirmed, current)
    BY <1>4 DEF NextState
  <2> QED BY <1>1, <1>2, <1>4, <2>1, Preserved DEF Onwards
<1>5. CASE action = "merge"
  <2> DEFINE base == Active(memory)
  <2>1. NextState(action, current, removed) = Merge(base, current, removed)
    BY <1>5 DEF NextState
  <2>2. base \in States
    BY <1>2 DEF Active
  <2> HIDE DEF base
  <2>3. CarriesOn(NextState(action, current, removed), base, current, removed)
    BY <1>1, <2>1, <2>2, Merged
  <2>4. Onwards(NextState(action, current, removed), action, current, removed)
    BY <1>5, <2>3 DEF Onwards, base
  <2> QED BY <1>1, <1>5, <2>1, <2>2, <2>4, Merged DEF Valid, Bounded
<1> QED BY <1>3, <1>4, <1>5 DEF Actions

\* A new revision is no larger.
LEMMA Renumbered ==
  ASSUME NEW m \in Memories, NEW r \in Nat
  PROVE  LET n == [m EXCEPT !.revision = r]
         IN  /\ n \in Memories /\ Size(n) = Size(m)
             /\ n.confirmed = m.confirmed /\ n.pending = m.pending
<1> DEFINE n == [m EXCEPT !.revision = r]
<1>1. /\ n \in Memories /\ n.confirmed = m.confirmed /\ n.pending = m.pending
      /\ n.summary = m.summary /\ n.document = m.document
  BY DEF Memories
<1> HIDE DEF n
<1>2. Size(n) = Size(m)
  BY <1>1 DEF Size
<1> QED BY <1>1, <1>2 DEF n

\* An update that is stored fits and gave up no more than it may; any other
\* leaves the memory as it was.
LEMMA Updated ==
  ASSUME Inv, NEW valid \in BOOLEAN, NEW after \in Memories
  PROVE  LET u == Update(valid, after)
         IN  \/ /\ u.outcome = "stored" /\ valid
                /\ Size(u.memory) <= MaxSize /\ Trimmed(u.memory, after)
             \/ u.outcome \in {"rejected", "oversized"} /\ u.memory = memory
<1> DEFINE fit == Fit(after)
           new == [fit EXCEPT !.revision = memory.revision + 1]
           u   == Update(valid, after)
<1>1. Trimmed(fit, after)
  BY Fitted
<1> HIDE DEF fit
<1>2. fit \in Memories /\ memory.revision + 1 \in Nat
  BY <1>1 DEF Trimmed, Inv, Memories
<1>3. /\ new \in Memories /\ Size(new) = Size(fit)
      /\ new.confirmed = fit.confirmed /\ new.pending = fit.pending
  BY <1>2, Renumbered
<1> HIDE DEF new
<1>4. Trimmed(new, after)
  BY <1>1, <1>3 DEF Trimmed
<1>5. CASE ~valid
  <2>1. u = [outcome |-> "rejected", memory |-> memory]
    BY <1>5 DEF Update
  <2> QED BY <2>1
<1>6. CASE valid /\ Size(fit) > MaxSize
  <2>1. u = [outcome |-> "oversized", memory |-> memory]
    BY <1>6 DEF Update, fit
  <2> QED BY <2>1
<1>7. CASE valid /\ ~(Size(fit) > MaxSize)
  <2>1. u = [outcome |-> "stored", memory |-> new]
    BY <1>7 DEF Update, fit, new
  <2>2. Size(fit) <= MaxSize
    BY <1>2, <1>7, SizeType, Limits
  <2>3. u.outcome = "stored" /\ u.memory = new
    BY <2>1
  <2>4. Size(new) <= MaxSize
    BY <1>3, <2>2
  <2> QED BY <1>4, <1>7, <2>3, <2>4
<1> QED BY <1>5, <1>6, <1>7

\* What any step leaves behind and what it may not do.
Settled ==
  /\ turn.outcome = "stored" /\ turn.result \in {"found", "pending"} =>
       /\ turn.action \in {"merge", "replace"} => LastWord(Target, turn.plan)
       /\ turn.action = "merge" => Gone(Target, turn.plan, turn.removed)

Careful ==
  /\ turn'.result # "found" => Shorter(memory'.confirmed, memory.confirmed)
  /\ turn'.outcome = "stored" /\ turn'.result \in {"found", "pending"} =>
       Onwards(Target', turn'.action, turn'.plan, turn'.removed)

\* A turn whose update could not be built, or that made none.
LEMMA Unmoved ==
  ASSUME Inv, memory' = memory, turn'.outcome # "stored"
  PROVE  Inv' /\ Settled' /\ Careful
<1>1. Inv'
  BY DEF Inv
<1>2. Shorter(memory'.confirmed, memory.confirmed)
  BY ShorterItself DEF Inv, Memories
<1> QED BY <1>1, <1>2 DEF Settled, Careful

LEMMA ProductSettled ==
  ASSUME Inv, NEW action \in Actions, NEW current \in Plans, NEW removed, NEW result,
         ProductTurn(action, current, removed, result)
  PROVE  Inv' /\ Settled' /\ Careful
<1> DEFINE next  == NextState(action, current, removed)
           after == [WithProduct(result, next) EXCEPT !.summary = SummarySize]
           u     == Update(Valid(next), after)
<1>1. /\ next \in States /\ (Valid(next) => Bounded(next))
      /\ action \in {"merge", "replace"} => LastWord(next, current)
      /\ action = "merge" => Gone(next, current, removed)
      /\ Onwards(next, action, current, removed)
  BY NextStates
<1>2. /\ result \in {"found", "pending"} /\ memory' = u.memory
      /\ turn' = [action |-> action, result |-> result, outcome |-> u.outcome,
                  plan |-> current, removed |-> removed]
  BY DEF ProductTurn, ConcludeTurn
<1> HIDE DEF next
<1>3. memory \in Memories /\ memory.confirmed \in States /\ SummarySize \in Nat
  BY Limits DEF Inv, Memories
<1>4. /\ after \in Memories
      /\ result = "found" => after.confirmed = next /\ after.pending = NoPending
      /\ result # "found" => after.confirmed = memory.confirmed /\ after.pending = next
  BY <1>1, <1>3 DEF WithProduct, Memories
<1> HIDE DEF after
<1>5. Valid(next) \in BOOLEAN
  BY DEF Valid
<1>6. \/ /\ u.outcome = "stored" /\ Valid(next)
         /\ Size(u.memory) <= MaxSize /\ Trimmed(u.memory, after)
      \/ u.outcome \in {"rejected", "oversized"} /\ u.memory = memory
  BY <1>4, <1>5, Updated
<1> HIDE DEF u
<1>7. /\ turn'.action = action /\ turn'.result = result /\ turn'.outcome = u.outcome
      /\ turn'.plan = current /\ turn'.removed = removed
  BY <1>2
<1>8. CASE u.outcome # "stored"
  BY <1>2, <1>6, <1>7, <1>8, Unmoved
<1>9. CASE u.outcome = "stored"
  <2>1. /\ Valid(next) /\ Size(memory') <= MaxSize /\ Trimmed(memory', after)
        /\ Bounded(next)
    BY <1>1, <1>2, <1>6, <1>9
  <2>2. next # NoPending
    BY <1>1, NoPendingIsNoState
  <2>3. CASE result = "found"
    <3>1. /\ memory' \in Memories /\ Shorter(memory'.confirmed, next)
          /\ memory'.pending = NoPending
      BY <1>4, <2>1, <2>3 DEF Trimmed
    <3>2. /\ Bounded(memory'.confirmed)
          /\ LastWord(next, current) => LastWord(memory'.confirmed, current)
          /\ Gone(next, current, removed) => Gone(memory'.confirmed, current, removed)
          /\ Onwards(memory'.confirmed, action, current, removed)
      BY <1>1, <2>1, <3>1, ShorterSays DEF Onwards, Shorter
    <3>3. Inv'
      BY <2>1, <3>1, <3>2 DEF Inv
    <3>4. Target' = memory'.confirmed
      BY <1>7, <2>3 DEF Target
    <3>5. Settled'
      BY <1>1, <1>7, <3>2, <3>4 DEF Settled
    <3>6. Careful
      BY <1>7, <1>9, <2>3, <3>2, <3>4 DEF Careful
    <3> QED BY <3>3, <3>5, <3>6
  <2>4. CASE result # "found"
    <3>1. /\ memory' \in Memories /\ Shorter(memory'.confirmed, memory.confirmed)
          /\ memory'.pending # NoPending /\ Shorter(memory'.pending, next)
      BY <1>4, <2>1, <2>2, <2>4 DEF Trimmed
    <3>2. /\ Bounded(memory'.pending)
          /\ LastWord(next, current) => LastWord(memory'.pending, current)
          /\ Gone(next, current, removed) => Gone(memory'.pending, current, removed)
          /\ Onwards(memory'.pending, action, current, removed)
      BY <1>1, <2>1, <3>1, ShorterSays DEF Onwards, Shorter
    <3>3. Bounded(memory'.confirmed)
      BY <1>3, <3>1, ShorterSays DEF Inv
    <3>4. Inv'
      BY <2>1, <3>1, <3>2, <3>3 DEF Inv
    <3>5. Target' = memory'.pending
      BY <1>7, <2>4 DEF Target
    <3>6. Settled'
      BY <1>1, <1>7, <3>2, <3>5 DEF Settled
    <3>7. Careful
      BY <1>7, <3>1, <3>2, <3>5 DEF Careful
    <3> QED BY <3>4, <3>6, <3>7
  <2> QED BY <2>3, <2>4
<1> QED BY <1>8, <1>9

LEMMA DocumentSettled ==
  ASSUME Inv, NEW result, DocumentTurn(result)
  PROVE  Inv' /\ Settled' /\ Careful
<1> DEFINE after == [memory EXCEPT !.document = TRUE, !.summary = SummarySize]
           u     == Update(TRUE, after)
<1>1. /\ result \in {"unsafe", "failed"} /\ memory' = u.memory
      /\ turn' = [action |-> "merge", result |-> result, outcome |-> u.outcome,
                  plan |-> NoState, removed |-> {}]
  BY DEF DocumentTurn, ConcludeTurn
<1>2. memory \in Memories /\ memory.confirmed \in States /\ SummarySize \in Nat
  BY Limits DEF Inv, Memories
<1>3. after \in Memories /\ after.confirmed = memory.confirmed /\ after.pending = memory.pending
  BY <1>2 DEF Memories
<1> HIDE DEF after
<1>4. \/ /\ u.outcome = "stored" /\ Size(u.memory) <= MaxSize /\ Trimmed(u.memory, after)
      \/ u.outcome \in {"rejected", "oversized"} /\ u.memory = memory
  BY <1>3, Updated
<1> HIDE DEF u
<1>5. turn'.result = result /\ turn'.outcome = u.outcome
  BY <1>1
<1>6. CASE u.outcome # "stored"
  BY <1>1, <1>4, <1>5, <1>6, Unmoved
<1>7. CASE u.outcome = "stored"
  <2>1. /\ Size(memory') <= MaxSize /\ memory' \in Memories
        /\ Shorter(memory'.confirmed, memory.confirmed)
        /\ memory.pending = NoPending => memory'.pending = NoPending
        /\ memory.pending # NoPending =>
             memory'.pending # NoPending /\ Shorter(memory'.pending, memory.pending)
    BY <1>1, <1>3, <1>4, <1>7 DEF Trimmed
  <2>2. Bounded(memory'.confirmed)
    BY <1>2, <2>1, ShorterSays DEF Inv
  <2>3. memory'.pending # NoPending => Bounded(memory'.pending)
    <3> SUFFICES ASSUME memory'.pending # NoPending
                 PROVE  Bounded(memory'.pending)
      OBVIOUS
    <3>1. memory.pending \in States /\ Bounded(memory.pending)
      BY <2>1 DEF Inv, Memories
    <3> QED BY <2>1, <3>1, ShorterSays
  <2>4. Inv'
    BY <2>1, <2>2, <2>3 DEF Inv
  <2>5. Settled'
    BY <1>1, <1>5 DEF Settled
  <2>6. Careful
    BY <1>1, <1>5, <2>1 DEF Careful
  <2> QED BY <2>4, <2>5, <2>6
<1> QED BY <1>6, <1>7

LEMMA OtherSettled ==
  ASSUME Inv, NEW result, OtherTurn(result)
  PROVE  Inv' /\ Settled' /\ Careful
<1>1. memory' = memory /\ turn'.outcome = "kept"
  BY DEF OtherTurn, ConcludeTurn
<1> QED BY <1>1, Unmoved

-----------------------------------------------------------------------------
(***************************************************************************)
(* The session memory                                                      *)
(***************************************************************************)

LEMMA InitMemoryInv == InitMemory => Inv /\ Settled
<1> SUFFICES ASSUME InitMemory
             PROVE  Inv /\ Settled
  OBVIOUS
<1>1. /\ memory = [revision |-> 0, summary |-> 0, confirmed |-> NoState,
                   pending |-> NoPending, document |-> FALSE]
      /\ turn.outcome = "kept"
  BY DEF InitMemory
<1>2. memory \in Memories /\ memory.confirmed = NoState /\ memory.pending = NoPending
  BY <1>1, NoStateIsEmpty DEF Memories
<1>3. Size(memory) = 0
  BY <1>1, NoStateIsEmpty DEF Size
<1>4. Inv
  BY <1>2, <1>3, NoStateIsEmpty, Limits DEF Inv
<1> QED BY <1>1, <1>4 DEF Settled

LEMMA NextSettled ==
  ASSUME Inv, NextMemory
  PROVE  Inv' /\ Settled' /\ Careful
<1>1. CASE \E current \in Plans, result \in Results :
             \/ \E removed \in UpTo(MaxRemoved, Removable) :
                  ProductTurn("merge", current, removed, result)
             \/ \E action \in Actions \ {"merge"} : ProductTurn(action, current, {}, result)
  <2>1. PICK current \in Plans, result \in Results :
             \/ \E removed \in UpTo(MaxRemoved, Removable) :
                  ProductTurn("merge", current, removed, result)
             \/ \E action \in Actions \ {"merge"} : ProductTurn(action, current, {}, result)
    BY <1>1
  <2>2. "merge" \in Actions
    BY DEF Actions
  <2> QED BY <2>1, <2>2, ProductSettled
<1>2. CASE \E result \in Results : DocumentTurn(result)
  BY <1>2, DocumentSettled
<1>3. CASE \E result \in Results : OtherTurn(result)
  BY <1>3, OtherSettled
<1> QED BY <1>1, <1>2, <1>3 DEF NextMemory

LEMMA StutterSettled ==
  ASSUME Inv, Settled, UNCHANGED memoryVars
  PROVE  Inv' /\ Settled'
<1>1. memory' = memory /\ turn' = turn
  BY DEF memoryVars
<1>2. Inv'
  BY <1>1 DEF Inv
<1>3. Settled'
  BY <1>1 DEF Settled, Target
<1> QED BY <1>2, <1>3

\* However turns merge, replace, remove and trim, the memory is five fields of
\* their types, within every limit of the validator and of the configuration
\* (memory.py:65, 1010).
THEOREM InvAlways == MemorySpec => []Inv
<1>1. InitMemory => Inv
  BY InitMemoryInv
<1>2. Inv /\ [NextMemory]_memoryVars => Inv'
  BY NextSettled DEF Inv, memoryVars
<1> QED BY <1>1, <1>2, PTL DEF MemorySpec

LEMMA SettledAlways == MemorySpec => [](Inv /\ Settled)
<1>1. InitMemory => Inv /\ Settled
  BY InitMemoryInv
<1>2. Inv /\ Settled /\ [NextMemory]_memoryVars => (Inv /\ Settled)'
  BY NextSettled, StutterSettled
<1> QED BY <1>1, <1>2, PTL DEF MemorySpec

\* What is stored fits: twenty constraints and preferences, three entities and
\* ranking objectives, and the configured size, pending intent included.
THEOREM AlwaysBounded == MemorySpec => []MemoryBounded
<1>1. Inv => MemoryBounded
  BY DEF Inv, MemoryBounded, Held, Bounded
<1> QED BY <1>1, InvAlways, PTL

\* What the last turn says of a field is all the memory says of it: neither an
\* older condition nor an older direction survives next to it (memory.py:985).
THEOREM LatestWordStands == MemorySpec => []LatestWordOnField
<1>1. Settled => LatestWordOnField
  BY DEF Settled, LastWord, LatestWordOnField
<1> QED BY <1>1, SettledAlways, PTL

\* What a merge was told to remove is gone, unless the turn states it again,
\* from the pending intent as from the confirmed state (memory.py:641).
THEOREM RemovedStaysGone == MemorySpec => []RemovedGone
<1>1. Settled => RemovedGone
  BY DEF Settled, Gone, RemovedGone
<1> QED BY <1>1, SettledAlways, PTL

\* A turn that found nothing confirms nothing: constraints and entities of the
\* confirmed state stay, and its preferences and ranking objectives are at
\* most cut at their ends (memory.py:449, 1010).
THEOREM OnlyFoundConfirms == MemorySpec => ConfirmedVerified
<1> DEFINE Cautious ==
      LET old == memory.confirmed
          new == memory'.confirmed
      IN  turn'.result # "found" =>
            /\ new.hard = old.hard /\ new.entities = old.entities
            /\ IsPrefix(new.prefs, old.prefs) /\ IsPrefix(new.ranking, old.ranking)
<1>1. Inv /\ NextMemory => Cautious
  <2> SUFFICES ASSUME Inv, NextMemory, turn'.result # "found"
               PROVE  Cautious
    OBVIOUS
  <2>1. Shorter(memory'.confirmed, memory.confirmed)
    BY NextSettled DEF Careful
  <2>2. /\ memory.confirmed.prefs \in Seq(Things) /\ memory.confirmed.ranking \in Seq(Things)
    BY StateParts DEF Inv, Memories
  <2> QED BY <2>1, <2>2, StartsPrefix DEF Shorter
<1>2. Inv /\ [NextMemory]_memoryVars => [Cautious]_memoryVars
  BY <1>1
<1>3. ConfirmedVerified <=> [][Cautious]_memoryVars
  BY DEF ConfirmedVerified
<1> QED BY <1>2, <1>3, InvAlways, PTL DEF MemorySpec

\* A merge carries the active state on, an open intent before the confirmed
\* state, through clarifications, empty searches and found products, and a
\* preserve with no intent open changes no constraint and no entity
\* (memory.py:412, 429, 473).
THEOREM ActiveStateCarriedOn == MemorySpec => ActiveCarriedOn
<1> DEFINE Carrying ==
      turn'.outcome = "stored" /\ turn'.result \in {"found", "pending"} =>
        /\ turn'.action = "merge" =>
             CarriesOn(Target', Active(memory), turn'.plan, turn'.removed)
        /\ turn'.action = "preserve" /\ memory.pending = NoPending =>
             /\ Target'.hard = memory.confirmed.hard
             /\ Target'.entities = memory.confirmed.entities
<1>1. Inv /\ NextMemory => Carrying
  BY NextSettled DEF Careful, Onwards
<1>2. Inv /\ [NextMemory]_memoryVars => [Carrying]_memoryVars
  BY <1>1
<1>3. ActiveCarriedOn <=> [][Carrying]_memoryVars
  BY DEF ActiveCarriedOn
<1> QED BY <1>2, <1>3, InvAlways, PTL DEF MemorySpec

=============================================================================
