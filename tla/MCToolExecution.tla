--------------------------- MODULE MCToolExecution --------------------------
(***************************************************************************)
(* Two tool calls, a pool of one thread and an index command of four       *)
(* texts for TLC.                                                          *)
(***************************************************************************)
EXTENDS ToolExecution

CONSTANTS product, document, index, red, size, delivery

\* The index command embeds the texts of the calls too, and one of them twice.
TextsOfJobs == product :> <<red>> @@ document :> <<size>> @@ index :> <<size, delivery, red, size>>

\* main.py:152: the client of the tools does not retry.
AttemptsOfJobs == product :> 1 @@ document :> 1 @@ index :> 2
=============================================================================
