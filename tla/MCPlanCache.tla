---------------------------- MODULE MCPlanCache -----------------------------
(***************************************************************************)
(* A small instance of PlanCache for TLC: the session s1 lapses before s2. *)
(***************************************************************************)
EXTENDS PlanCache, TLC

CONSTANTS s1, s2, k1, k2, k3

ExpiryOf == (s1 :> 1) @@ (s2 :> 2)
Symmetry == Permutations(Keys)
=============================================================================
