--------------------------- MODULE MCVectorIndex ----------------------------
(***************************************************************************)
(* A small instance of VectorIndex for TLC: a collection for each of two   *)
(* releases, the later of which has more items; the earlier one is also    *)
(* indexed under the active name, and documents for both.                  *)
(***************************************************************************)
EXTENDS VectorIndex, TLC

CONSTANTS j1, j2, v1, blue, green, active, docs

GrowingReleases == 1 :> {1} @@ 2 :> {1, 2}

BlueGreen == blue :> {1} @@ green :> {2} @@ active :> {1} @@ docs :> {1, 2}

Symmetry == Permutations({j1, j2})
=============================================================================
