------------------------ MODULE MCStoreTransactions -------------------------
(***************************************************************************)
(* Small instances of StoreTransactions for TLC.                           *)
(***************************************************************************)
EXTENDS StoreTransactions, TLC

CONSTANTS s1, r1, r2, r3

\* Three requests contend for one session.
OneSession == (r1 :> s1) @@ (r2 :> s1) @@ (r3 :> s1)
=============================================================================
