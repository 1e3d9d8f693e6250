---------------------------- MODULE MCAgentLoop -----------------------------
(***************************************************************************)
(* The instance of AgentLoop for TLC: both tools are registered.           *)
(***************************************************************************)
EXTENDS AgentLoop

BothTools == {"product_search", "document_search"}
=============================================================================
