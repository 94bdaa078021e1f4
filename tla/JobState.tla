------------------------------ MODULE JobState ------------------------------
(***************************************************************************)
(* The status vocabularies and the two transition tables every state       *)
(* change of a Job or an Attempt is checked against                        *)
(* (mewcode/platform/domain/state.py and models.py).                       *)
(***************************************************************************)

JobStatuses ==
  {"RECEIVED", "QUEUED", "RUNNING", "NEEDS_INPUT", "CANCEL_REQUESTED",
   "SUCCEEDED", "FAILED", "CANCELLED"}

AttemptStatuses ==
  {"QUEUED", "RUNNING", "COMPLETED", "NEEDS_INPUT", "FAILED", "CANCELLED"}

OutcomeStatuses == {"COMPLETED", "NEEDS_INPUT", "FAILED", "CANCELLED"}

AttemptStages ==
  {"PREPARING", "ANALYZING", "IMPLEMENTING", "VERIFYING", "PUBLISHING",
   "CLEANING_UP"}

JobTransitions ==
  {<<"RECEIVED", "QUEUED">>, <<"RECEIVED", "FAILED">>,
   <<"QUEUED", "RUNNING">>, <<"QUEUED", "CANCELLED">>,
   <<"RUNNING", "NEEDS_INPUT">>, <<"RUNNING", "CANCEL_REQUESTED">>,
   <<"RUNNING", "SUCCEEDED">>, <<"RUNNING", "FAILED">>, <<"RUNNING", "QUEUED">>,
   <<"NEEDS_INPUT", "QUEUED">>, <<"NEEDS_INPUT", "CANCELLED">>,
   <<"CANCEL_REQUESTED", "CANCELLED">>,
   <<"FAILED", "QUEUED">>}

AttemptTransitions ==
  {<<"QUEUED", "RUNNING">>, <<"QUEUED", "CANCELLED">>,
   <<"RUNNING", "COMPLETED">>, <<"RUNNING", "NEEDS_INPUT">>,
   <<"RUNNING", "FAILED">>, <<"RUNNING", "CANCELLED">>}

\* ensure_job_transition: SUCCEEDED is reachable only with delivery evidence
\* (Pull Request number and URL, owned branch, head SHA, successful
\* Verification), abstracted to one Boolean.
JobMayMove(from, to, evidence) ==
  /\ <<from, to>> \in JobTransitions
  /\ to = "SUCCEEDED" => evidence

AttemptMayMove(from, to) == <<from, to>> \in AttemptTransitions

TerminalJobStatuses == {"SUCCEEDED", "FAILED", "CANCELLED"}
EndedAttemptStatuses == {"COMPLETED", "NEEDS_INPUT", "FAILED", "CANCELLED"}

=============================================================================
