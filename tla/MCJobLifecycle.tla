-------------------------- MODULE MCJobLifecycle --------------------------
(* Small instances of JobLifecycle for TLC. *)
EXTENDS JobLifecycle

MCStages == {"IMPLEMENTING", "PUBLISHING"}

\* only the stage that matters to anybody else
MCPublishing == {"PUBLISHING"}

=============================================================================
