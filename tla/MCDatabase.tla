------------------------------ MODULE MCDatabase ------------------------------
(* What processes do to the database, on small instances: Workers and their  *)
(* registry, claims and recoveries statement by statement, submissions, and  *)
(* the event log read by a stream.  These share no variable: a behaviour     *)
(* exercises one of them, which Init chooses, and the fairness of WorkerPool *)
(* binds that part only.                                                     *)
EXTENDS WorkerPool, LeaseCapacity, ControlApi

VARIABLE part

\* Two calls of one body, and one of another.
MCBodyOf == [c \in Calls |-> IF c = 3 THEN 2 ELSE 1]

MCInit ==
    /\ part \in {"pool", "capacity", "submissions", "events"}
    /\ Init /\ CapacityInit /\ ControlInit

MCNext ==
    \/ part = "pool" /\ Next /\ UNCHANGED <<part, capacityVars, controlVars>>
    \/ part = "capacity" /\ CapacityNext /\ UNCHANGED <<part, vars, controlVars>>
    \/ part = "submissions" /\ Submit /\ UNCHANGED <<part, vars, capacityVars>>
    \/ part = "events" /\ (Log \/ Stream) /\ UNCHANGED <<part, vars, capacityVars>>

\* FairSpec of WorkerPool
MCFairness ==
    /\ \A w \in Workers : /\ WF_vars(part = "pool" /\ (Register(w) \/ Refused(w)))
                          /\ WF_vars(part = "pool" /\ Run(w))
                          /\ WF_vars(part = "pool" /\ Drain(w))
                          /\ WF_vars(part = "pool" /\ Recover(w))
    /\ \A j \in Jobs : WF_vars(part = "pool" /\ Orphaned(j) /\ Lapse(j))

MCSpec == MCInit /\ [][MCNext]_<<part, vars, capacityVars, controlVars>> /\ MCFairness
=============================================================================
