---------------------------- MODULE MCBrowserChat ---------------------------
(***************************************************************************)
(* Two tabs, a list of two chats and chats of three messages for TLC.      *)
(***************************************************************************)
EXTENDS BrowserChat, TLC

CONSTANTS left, right

Symmetry == Permutations(Tabs)
=============================================================================
