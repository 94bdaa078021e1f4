---------------------------- MODULE MCAttemptTask ----------------------------
(* AttemptTask for TLC: it has no constants, and its state space is finite. *)
EXTENDS AttemptTask

=============================================================================
