-------------------------- MODULE MCAttemptEvidence --------------------------
(* What an Attempt leaves behind, on small instances: its evidence in the    *)
(* Artifact store and the database, and its resources at Docker.  The two    *)
(* modules share no variable; a behaviour exercises one of them, which Init  *)
(* chooses, and the fairness of AttemptEnvironment binds only that part.     *)
EXTENDS AttemptEvidence, AttemptEnvironment

VARIABLE part

MCInit == part \in {"evidence", "environment"} /\ Init /\ EnvironmentInit

MCNext ==
    \/ part = "evidence" /\ Next /\ UNCHANGED <<part, environmentVars>>
    \/ part = "environment" /\ EnvironmentNext /\ UNCHANGED <<part, vars>>

MCSpec ==
    /\ MCInit /\ [][MCNext]_<<part, vars, environmentVars>>
    /\ WF_environmentVars(part = "environment" /\ ThreadStep)
    /\ WF_environmentVars(part = "environment" /\ SweepOrphans)
=============================================================================
