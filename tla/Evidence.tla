------------------------------ MODULE Evidence ------------------------------
(***************************************************************************)
(* Tool results and answers as the agent loop tells them apart             *)
(* (app/tools/schemas.py, app/agent/runtime.py).  The wording of a result  *)
(* or an answer is left out; what it claims is kept.                       *)
(***************************************************************************)
EXTENDS Integers, Sequences

ToolNames == {"product_search", "document_search", "other"}

\* match_status of a product search that succeeded; exact_match and
\* matching_products are "matches", or "empty" when they come without a
\* product, as a comparison of entities that resolve to nothing does.
ProductSuccess ==
  {"matches", "empty", "conflict", "alternatives", "clarify", "not_found"}
DocumentSuccess == {"found", "docs_missing"}

\* "error" is any error result but document_search_unavailable.
ResultsOf(tool) ==
  CASE tool = "product_search"  -> ProductSuccess \cup {"error"}
    [] tool = "document_search" -> DocumentSuccess \cup {"unavailable", "error"}
    [] tool = "other"           -> {"error"}

Exchanges == UNION {[tool : {t}, result : ResultsOf(t)] : t \in ToolNames}

\* "text" is the model's own words; the rest are sentences the code composes.
Answers ==
  {"text", "question", "conflict", "alternatives", "not_found", "match",
   "no_information", "docs_missing", "docs_unavailable", "docs_degraded", "refusal"}

\* The results that decide the answer, and the sentence each decides on.
AnswerFor ==
  [clarify      |-> "question",
   conflict     |-> "conflict",
   alternatives |-> "alternatives",
   not_found    |-> "not_found",
   docs_missing |-> "docs_missing",
   unavailable  |-> "docs_unavailable"]

Decisive == DOMAIN AnswerFor
=============================================================================
