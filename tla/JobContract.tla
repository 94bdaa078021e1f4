---------------------------- MODULE JobContract -----------------------------
(***************************************************************************)
(* What a Requester is promised about a Job, without Workers, leases or    *)
(* time: the status diagram of domain/state.py with the causes of a new    *)
(* Attempt.  JobLifecycle implements it.                                   *)
(***************************************************************************)
EXTENDS Integers

CONSTANTS Jobs, AutomaticRetryLimit

VARIABLES
  status,     \* what GET /v1/jobs/{id} shows; ABSENT and DELETED answer 404
  attempts,   \* Attempts the Job has had
  automatic   \* of those, the ones the platform started on its own account

vars == <<status, attempts, automatic>>

Init ==
  /\ status = [j \in Jobs |-> "ABSENT"]
  /\ attempts = [j \in Jobs |-> 0]
  /\ automatic = [j \in Jobs |-> 0]

Move(j, from, to) ==
  /\ status[j] \in from
  /\ status' = [status EXCEPT ![j] = to]

SameAttempt == UNCHANGED <<attempts, automatic>>
NewAttempt(j) == attempts' = [attempts EXCEPT ![j] = @ + 1]

Submit(j) == Move(j, {"ABSENT"}, "QUEUED") /\ NewAttempt(j) /\ UNCHANGED automatic

Start(j) == Move(j, {"QUEUED"}, "RUNNING") /\ SameAttempt

Conclude(j) ==
  \E to \in {"SUCCEEDED", "FAILED", "NEEDS_INPUT"} : Move(j, {"RUNNING"}, to) /\ SameAttempt

\* The Requester's two ways to reopen a Job.
Reopen(j) ==
  Move(j, {"NEEDS_INPUT", "FAILED"}, "QUEUED") /\ NewAttempt(j) /\ UNCHANGED automatic

\* The platform's own second chance, within its budget.
RetryAutomatically(j) ==
  /\ automatic[j] < AutomaticRetryLimit
  /\ Move(j, {"RUNNING"}, "QUEUED")
  /\ NewAttempt(j)
  /\ automatic' = [automatic EXCEPT ![j] = @ + 1]

RequestCancel(j) == Move(j, {"RUNNING"}, "CANCEL_REQUESTED") /\ SameAttempt

\* From RUNNING the request and its completion may be one step.
Cancel(j) ==
  /\ Move(j, {"QUEUED", "NEEDS_INPUT", "RUNNING", "CANCEL_REQUESTED"}, "CANCELLED")
  /\ SameAttempt

Delete(j) ==
  /\ Move(j, {"SUCCEEDED", "FAILED", "CANCELLED"}, "DELETED")
  /\ attempts' = [attempts EXCEPT ![j] = 0]
  /\ automatic' = [automatic EXCEPT ![j] = 0]

Next ==
  \E j \in Jobs :
    \/ Submit(j) \/ Start(j) \/ Conclude(j) \/ Reopen(j)
    \/ RetryAutomatically(j) \/ RequestCancel(j) \/ Cancel(j) \/ Delete(j)

Spec == Init /\ [][Next]_vars

=============================================================================
