------------------------ MODULE MCDurableOperations -------------------------
(***************************************************************************)
(* Small instances of the operations of one tool call for TLC.             *)
(***************************************************************************)
EXTENDS DurableOperations

CONSTANTS c1, h1, h2
=============================================================================
