-------------------------- MODULE MCExecutionClient --------------------------
(* ExecutionClient for TLC: two runs of one browser. *)
EXTENDS ExecutionClient

CONSTANTS e1, e2

=============================================================================
