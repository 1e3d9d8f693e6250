----------------------------- MODULE AgentTurn ------------------------------
(***************************************************************************)
(* What the agent loop promises: a turn gathers evidence from its tools,   *)
(* within its budget, and ends with an answer that the evidence permits or *)
(* as failed.  Every piece of evidence is on record before the answer.     *)
(***************************************************************************)
EXTENDS Evidence

CONSTANT Budget   \* the tool budget of the run

VARIABLES
  evidence,  \* the tool exchanges of the turn, in order
  ending,    \* "open", "answered" or "failed"
  answer     \* what the client is told, "none" while the turn is open

vars == <<evidence, ending, answer>>

Init ==
  /\ evidence = <<>>
  /\ ending = "open"
  /\ answer = "none"

\* The last word of a tool on the matter: none when it was not asked.
LastWord(tool) ==
  {evidence[i].result : i \in
    {n \in DOMAIN evidence :
       /\ evidence[n].tool = tool
       /\ \A m \in n + 1 .. Len(evidence) : evidence[m].tool # tool}}

\* The sentences that the last word of a tool decides on.
Decided(tool) == {AnswerFor[r] : r \in LastWord(tool) \cap Decisive}

(***************************************************************************)
(* The answers the evidence permits.  A document search that found nothing *)
(* or could not run decides the answer; after it a product search that     *)
(* needs a clarification, found a conflict, alternatives or nothing does.  *)
(* Otherwise the model's own words or a fixed sentence are permitted, and  *)
(* never an internal payload.                                              *)
(***************************************************************************)
Permitted ==
  IF Decided("document_search") # {} THEN Decided("document_search")
  ELSE IF Decided("product_search") # {} THEN Decided("product_search")
  ELSE {"text", "match", "no_information", "docs_degraded", "refusal"}

Gather(e) ==
  /\ ending = "open"
  /\ Len(evidence) < Budget
  /\ evidence' = Append(evidence, e)
  /\ UNCHANGED <<ending, answer>>

Reply(a) ==
  /\ ending = "open"
  /\ a \in Permitted
  /\ ending' = "answered"
  /\ answer' = a
  /\ UNCHANGED evidence

Fail ==
  /\ ending = "open"
  /\ ending' = "failed"
  /\ UNCHANGED <<evidence, answer>>

Next ==
  \/ \E e \in Exchanges : Gather(e)
  \/ \E a \in Answers : Reply(a)
  \/ Fail

Spec == Init /\ [][Next]_vars
=============================================================================
