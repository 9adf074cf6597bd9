--------------------------- MODULE MCExecutorWorker ---------------------------
(* ExecutorWorker for TLC: two jobs, one after the other, on one worker. *)
EXTENDS ExecutorWorker

=============================================================================
