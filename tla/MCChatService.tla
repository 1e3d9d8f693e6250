--------------------------- MODULE MCChatService ----------------------------
(***************************************************************************)
(* Small instances of ChatService for TLC.                                 *)
(***************************************************************************)
EXTENDS ChatService, TLC

CONSTANTS s1, s2, r1, r2, r3, w1, w2

\* Three requests for one session, two of them through the same process.
OneSession == (r1 :> s1) @@ (r2 :> s1) @@ (r3 :> s1)
TwoWorkers == (r1 :> w1) @@ (r2 :> w2) @@ (r3 :> w1)

\* Two requests, through two processes.
Pair        == (r1 :> s1) @@ (r2 :> s1)
PairWorkers == (r1 :> w1) @@ (r2 :> w2)
=============================================================================
