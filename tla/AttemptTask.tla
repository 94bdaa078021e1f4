----------------------------- MODULE AttemptTask -----------------------------
(***************************************************************************)
(* One Attempt inside a Worker process: the asyncio task that runs the     *)
(* Attempt Processor (_run_claimed_in_context, process, JobRunner.run),    *)
(* the lease monitor beside it, the Worker's drain, and the row of its Job *)
(* in the database.  Each action runs from one await to the next.  The     *)
(* Attempts that follow it, on whichever Worker, appear as what they do to *)
(* the Job's row.                                                          *)
(*                                                                         *)
(* asyncio: task.cancel() makes the await the task is suspended in raise   *)
(* CancelledError; if the task is awaiting another task, that one is       *)
(* cancelled instead.  Two tasks awaiting each other can therefore not be  *)
(* cancelled: the call recurses until RecursionError.                      *)
(***************************************************************************)
EXTENDS Naturals

VARIABLES
  job,        \* jobs.status; RUNNING with stage PUBLISHING is "PUBLISHING"
  leased,     \* the database still honours the Attempt's lease
  asked,      \* history: the Requester has asked to cancel
  publication, \* history: "none"; "begun" when an Attempt has reported PUBLISHING;
              \* "requeued" when the Job was queued again after that
  followed,   \* history: another Attempt of the Job was claimed
  attempt,    \* what the Attempt task is doing
  cancelled,  \* attempt.cancel() was called and is not yet delivered
  result,     \* what process() is about to return: an outcome, or it raises
  monitor,    \* what the lease monitor is doing
  cancelSent, \* the monitor's cancel_sent
  failed,     \* the monitor_failed event
  cancelling, \* the cancellation event
  published,  \* history: the Job has a branch, or a Draft Pull Request
  worker      \* the Worker's run_forever and stop

vars == <<job, leased, asked, publication, followed, attempt, cancelled, result,
          monitor, cancelSent, failed, cancelling, published, worker>>

database == <<job, leased, asked, publication, followed>>
taskVars == <<attempt, cancelled, result>>
signals == <<cancelSent, failed, cancelling>>

Phases == {"prepare", "setup", "agent", "verify", "wrapup", "publish"}

Init ==
  /\ job = "RUNNING" /\ leased = TRUE
  /\ asked = FALSE /\ publication = "none" /\ followed = FALSE
  /\ attempt = "prepare" /\ cancelled = FALSE /\ result = "none"
  /\ monitor = "beat" /\ cancelSent = FALSE /\ failed = FALSE /\ cancelling = FALSE
  /\ published = FALSE /\ worker = "serving"

\* The monitor awaits the Attempt task, which awaits the monitor.
MutualAwait == attempt = "join" /\ monitor = "await_attempt"

-----------------------------------------------------------------------------
(* The database *)

\* cancel_job: a Job that waits is cancelled at once, one that runs is asked to
\* stop, whichever Attempt runs it, and one that publishes is refused.
CancelFrom(running) ==
  /\ job \in {"QUEUED", "NEEDS_INPUT"} \union running
  /\ job' = IF job \in running THEN "CANCEL_REQUESTED" ELSE "CANCELLED"
  /\ asked' = TRUE
  /\ UNCHANGED <<leased, publication, followed, taskVars, monitor, signals, published, worker>>

RequestCancel_AnyStage == CancelFrom({"RUNNING", "PUBLISHING"})

RequestCancel == CancelFrom({"RUNNING"})

\* _queue_new_attempt, which also resets jobs.stage
QueueNewAttempt ==
  /\ job' = "QUEUED"
  /\ publication' = IF publication = "begun" THEN "requeued" ELSE publication

\* add_input and retry_job
Requeue ==
  /\ job \in {"NEEDS_INPUT", "FAILED"}
  /\ QueueNewAttempt
  /\ UNCHANGED <<leased, asked, followed, taskVars, monitor, signals, published, worker>>

\* recover_expired_leases: the Job is queued again while it has automatic
\* retries left
Recovered ==
  \/ job = "CANCEL_REQUESTED" /\ job' = "CANCELLED" /\ UNCHANGED publication
  \/ job \in {"RUNNING", "PUBLISHING"} /\ QueueNewAttempt
  \/ job \in {"RUNNING", "PUBLISHING"} /\ job' = "FAILED" /\ UNCHANGED publication

\* the lease runs out, and recovery takes the Attempt from the Worker
LoseLease ==
  /\ leased
  /\ Recovered
  /\ leased' = FALSE
  /\ UNCHANGED <<asked, followed, taskVars, monitor, signals, published, worker>>

\* Another Attempt is claimed, begins to publish, ends with an outcome, or is
\* lost in its turn.
LaterIsClaimed ==
  /\ job = "QUEUED" /\ job' = "RUNNING"
  /\ followed' = TRUE
  /\ UNCHANGED <<publication, published>>

LaterPublishes ==
  /\ job = "RUNNING" /\ job' = "PUBLISHING"
  /\ publication' = "begun"
  /\ UNCHANGED <<followed, published>>

LaterEnds ==
  /\ \/ job = "PUBLISHING" /\ job' = "SUCCEEDED" /\ published' = TRUE
     \/ job = "PUBLISHING" /\ job' = "FAILED" /\ published' \in {published, TRUE}
     \/ /\ job = "RUNNING" /\ job' \in {"NEEDS_INPUT", "CANCELLED", "FAILED"}
        /\ UNCHANGED published
     \/ job = "CANCEL_REQUESTED" /\ job' = "CANCELLED" /\ UNCHANGED published
  /\ UNCHANGED <<publication, followed>>

LaterIsLost ==
  /\ Recovered
  /\ published' \in {published, published \/ job = "PUBLISHING"}
  /\ UNCHANGED followed

LaterAttempt ==
  /\ ~leased
  /\ LaterIsClaimed \/ LaterPublishes \/ LaterEnds \/ LaterIsLost
  /\ UNCHANGED <<leased, asked, taskVars, monitor, signals, worker>>

-----------------------------------------------------------------------------
(* The Attempt task.  A pending cancellation is delivered before it goes on. *)

\* process() is left: done is set and the monitor is cancelled, which ends it
\* unless it is awaiting this very task.
Leave(r) ==
  /\ attempt' = "join"
  /\ result' = r
  /\ monitor' = IF monitor = "await_attempt" THEN monitor ELSE "ended"

\* the phase ends with an outcome: evidence is exported and the executor closed
Terminal(r) ==
  /\ attempt' = "wrapup"
  /\ result' = r
  /\ UNCHANGED monitor

\* report_stage
StageAccepted == leased /\ job = "RUNNING"

Following(phase) ==
  CASE phase = "prepare" -> {"setup"}
    [] phase = "setup"   -> {"agent"}
    [] phase = "agent"   -> {"verify"}
    [] phase = "verify"  -> {"agent", "wrapup"}

\* a phase succeeds; the agent and the verification are first reported as the
\* Job's stage, which may be refused
PhaseSucceeds ==
  /\ attempt \in {"prepare", "setup", "agent", "verify"}
  /\ ~cancelled
  /\ \E next \in Following(attempt) :
       \/ /\ next \in {"agent", "verify"} => StageAccepted
          /\ attempt' = next
          /\ UNCHANGED <<result, monitor>>
       \/ /\ next \in {"agent", "verify"} /\ ~StageAccepted
          /\ Terminal("FAILED")
  /\ UNCHANGED <<database, cancelled, signals, published, worker>>

\* a command fails, the agent fails or asks for input, the executor is lost
PhaseFails ==
  /\ attempt \in {"prepare", "setup", "agent", "verify"}
  /\ ~cancelled
  /\ \E r \in {"FAILED", "NEEDS_INPUT"} : Terminal(r)
  /\ UNCHANGED <<database, cancelled, signals, published, worker>>

\* _run_command sees the cancellation event, before or during a command
CommandCancelled ==
  /\ attempt \in {"setup", "verify"}
  /\ ~cancelled
  /\ cancelling
  /\ Terminal("CANCELLED")
  /\ UNCHANGED <<database, cancelled, signals, published, worker>>

\* report_stage(PUBLISHING), tested and set in one transaction
Publishable == leased /\ job = "RUNNING"

\* the executor is closed and evidence persisted; then the terminal outcome,
\* the cancellation event and the PUBLISHING stage are looked at in this order
WrapUp ==
  /\ attempt = "wrapup"
  /\ ~cancelled
  /\ \/ Leave("FAILED") /\ UNCHANGED job  \* not closed, or evidence not persisted
     \/ result # "none" /\ Leave(result) /\ UNCHANGED job
     \/ result = "none" /\ cancelling /\ Leave("CANCELLED") /\ UNCHANGED job
     \/ /\ result = "none" /\ ~cancelling /\ Publishable
        /\ job' = "PUBLISHING"
        /\ attempt' = "publish"
        /\ UNCHANGED <<result, monitor>>
     \/ /\ result = "none" /\ ~cancelling /\ ~Publishable
        /\ Leave(IF leased THEN "CANCELLED" ELSE "FAILED")
        /\ UNCHANGED job
  /\ publication' = IF attempt' = "publish" THEN "begun" ELSE publication
  /\ UNCHANGED <<leased, asked, followed, cancelled, signals, published, worker>>

\* publish_verified: branch, commit and Draft Pull Request, or an SCM error
Deliver ==
  \/ published' = TRUE /\ Leave("COMPLETED")
  \/ published' \in {published, TRUE} /\ Leave("FAILED")

\* once, or a second time when the deadline interrupts it
Publish ==
  /\ attempt = "publish"
  /\ ~cancelled
  /\ Deliver
  /\ UNCHANGED <<database, cancelled, signals, worker>>

\* the Attempt deadline: what is left is the cleanup and a FAILED outcome
DeadlineExpires ==
  /\ attempt \in Phases \ {"publish"}
  /\ ~cancelled
  /\ Terminal("FAILED")
  /\ UNCHANGED <<database, cancelled, signals, published, worker>>

\* the monitor has been awaited, and the outcome goes to finish_attempt
Join ==
  /\ attempt = "join"
  /\ monitor = "ended"
  /\ ~cancelled
  /\ attempt' = IF result = "raises" THEN "ended" ELSE "finish"
  /\ UNCHANGED <<database, cancelled, result, monitor, signals, published, worker>>

\* monitor_failed overrides what the Processor returned
Reported == IF failed THEN "FAILED" ELSE result

\* finish_attempt: the status the Job gets from the reported outcome
Finished ==
  IF ~leased THEN job
  ELSE CASE job = "CANCEL_REQUESTED" -> "CANCELLED"
         [] Reported = "COMPLETED"   -> "SUCCEEDED"
         [] OTHER                    -> Reported

Finish ==
  /\ attempt = "finish"
  /\ ~cancelled
  /\ job' = Finished
  /\ leased' = FALSE
  /\ attempt' = "ended"
  /\ UNCHANGED <<asked, publication, followed, cancelled, result, monitor, signals, published, worker>>

\* CancelledError is raised where the task is suspended.  JobRunner.run turns
\* it into a CANCELLED result; publication is replayed unless the cancellation
\* event is set, when what it has already sent to the SCM may have its effect;
\* everywhere else the exception goes up through process().
CancelDelivered ==
  /\ cancelled
  /\ cancelled' = FALSE
  /\ \/ /\ attempt = "agent"
        /\ Terminal("CANCELLED")
        /\ UNCHANGED <<job, leased, cancelling, published>>
     \/ /\ attempt = "publish" /\ ~cancelling
        /\ Deliver
        /\ UNCHANGED <<job, leased, cancelling>>
     \/ /\ attempt \in Phases \ {"agent"} /\ (attempt = "publish" => cancelling)
        /\ cancelling' = TRUE
        /\ Leave("raises")
        /\ published' \in {published, published \/ attempt = "publish"}
        /\ UNCHANGED <<job, leased>>
     \/ /\ attempt = "join"
        /\ attempt' = "ended"
        /\ UNCHANGED <<job, leased, result, monitor, cancelling, published>>
     \/ /\ attempt = "finish"  \* the transaction had committed, or is rolled back
        /\ attempt' = "ended"
        /\ \/ job' = Finished /\ leased' = FALSE
           \/ UNCHANGED <<job, leased>>
        /\ UNCHANGED <<result, monitor, cancelling, published>>
  /\ UNCHANGED <<asked, publication, followed, cancelSent, failed, worker>>

-----------------------------------------------------------------------------
(* The lease monitor *)

\* Processor.cancel, which is JobRunner.cancel while the agent runs: the
\* Attempt task is cancelled and awaited.  Otherwise the environment is closed.
CancelProcessor(close) ==
  IF attempt = "agent"
  THEN cancelled' = TRUE /\ monitor' = "await_attempt"
  ELSE monitor' = close /\ UNCHANGED cancelled

LostSignal == cancelling' = TRUE

\* heartbeat_lease and is_cancel_requested
Beat ==
  /\ monitor = "beat"
  /\ \/ /\ leased                            \* nothing new
        /\ job # "CANCEL_REQUESTED" \/ cancelSent
        /\ monitor' = "sleep"
        /\ UNCHANGED <<cancelled, cancelSent, failed, cancelling>>
     \/ /\ leased                            \* cancellation requested
        /\ job = "CANCEL_REQUESTED" /\ ~cancelSent
        /\ cancelSent' = TRUE /\ cancelling' = TRUE
        /\ CancelProcessor("close")
        /\ UNCHANGED failed
     \/ /\ ~leased                           \* LeaseLost
        /\ cancelSent' = TRUE /\ LostSignal
        /\ IF cancelSent THEN monitor' = "ended" /\ UNCHANGED cancelled
                         ELSE CancelProcessor("last_close")
        /\ UNCHANGED failed
     \/ /\ failed' = TRUE /\ cancelling' = TRUE   \* any other exception
        /\ IF cancelSent THEN monitor' = "ended" /\ UNCHANGED cancelled
                         ELSE CancelProcessor("last_close")
        /\ UNCHANGED cancelSent
  /\ UNCHANGED <<database, attempt, result, published, worker>>

\* the environment is closed: the loop goes on after a cancellation request, and
\* ends after a lost lease or a failure
CancelReturns ==
  /\ monitor \in {"close", "last_close"}
  /\ monitor' = IF monitor = "close" THEN "sleep" ELSE "ended"
  /\ UNCHANGED <<database, attempt, cancelled, result, signals, published, worker>>

\* heartbeat_seconds pass
Wake ==
  /\ monitor = "sleep"
  /\ monitor' = "beat"
  /\ UNCHANGED <<database, attempt, cancelled, result, signals, published, worker>>

-----------------------------------------------------------------------------
(* stop() and the drain of run_forever *)

Stop ==
  /\ worker = "serving"
  /\ worker' = "draining"
  /\ UNCHANGED <<database, attempt, cancelled, result, monitor, signals, published>>

\* worker_shutdown_grace_seconds are over: task.cancel()
ForceStop ==
  /\ worker = "draining"
  /\ attempt # "ended"
  /\ IF MutualAwait
     THEN worker' = "broken" /\ UNCHANGED cancelled
     ELSE worker' = "forced" /\ cancelled' = TRUE
  /\ UNCHANGED <<database, attempt, result, monitor, signals, published>>

Stopped_Drained ==
  /\ worker = "draining"
  /\ attempt = "ended"
  /\ worker' = "stopped"
  /\ UNCHANGED <<database, attempt, cancelled, result, monitor, signals, published>>

Stopped ==
  /\ worker \in {"draining", "forced"}
  /\ attempt = "ended"
  /\ worker' = "stopped"
  /\ UNCHANGED <<database, attempt, cancelled, result, monitor, signals, published>>

-----------------------------------------------------------------------------

AttemptStep ==
  \/ PhaseSucceeds \/ PhaseFails \/ CommandCancelled \/ WrapUp \/ Publish
  \/ DeadlineExpires \/ Join \/ Finish \/ CancelDelivered

MonitorStep == Beat \/ CancelReturns \/ Wake

Next ==
  \/ RequestCancel \/ Requeue \/ LoseLease \/ LaterAttempt
  \/ AttemptStep
  \/ MonitorStep
  \/ Stop \/ ForceStop \/ Stopped

Spec == Init /\ [][Next]_vars

Unrenewed == monitor \in {"await_attempt", "ended"}

\* Tasks that can run do run; the deadline bounds every phase, so an Attempt
\* does not work for ever; a lease that is not renewed runs out and some Worker's
\* recovery loop takes it; a draining Worker waits its grace period only.
Fairness ==
  /\ WF_vars(AttemptStep) /\ WF_vars(DeadlineExpires \/ Publish)
  /\ WF_vars(MonitorStep)
  /\ WF_vars(Unrenewed /\ LoseLease)
  /\ WF_vars(ForceStop) /\ WF_vars(Stopped)

FairSpec == Spec /\ Fairness

-----------------------------------------------------------------------------
(* Properties *)

Outcomes == {"COMPLETED", "NEEDS_INPUT", "CANCELLED", "FAILED"}

\* Every variable has its range; the statuses are the ones jobs.status admits.
TypeOK ==
  /\ job \in {"RUNNING", "PUBLISHING", "CANCEL_REQUESTED", "QUEUED",
              "SUCCEEDED", "NEEDS_INPUT", "CANCELLED", "FAILED"}
  /\ attempt \in Phases \union {"join", "finish", "ended"}
  /\ result \in Outcomes \union {"none", "raises"}
  /\ monitor \in {"beat", "sleep", "close", "last_close", "await_attempt", "ended"}
  /\ worker \in {"serving", "draining", "forced", "stopped", "broken"}
  /\ publication \in {"none", "begun", "requeued"} /\ followed \in BOOLEAN
  /\ leased \in BOOLEAN /\ asked \in BOOLEAN /\ published \in BOOLEAN
  /\ cancelled \in BOOLEAN /\ cancelSent \in BOOLEAN /\ failed \in BOOLEAN /\ cancelling \in BOOLEAN

\* An Attempt whose lease nobody renews any more has been told to stop.
NobodyWorksUnwatched == attempt \in Phases /\ Unrenewed => cancelling

\* From PUBLISHING on no cancellation is taken, whatever the monitor, the drain
\* and recovery do: a Job with a branch or a pull request is CANCELLED, or about
\* to be, only if it was queued again after that publication had begun.
\* (docs/platform/phase5-verification-artifacts.md: the PUBLISHING gate.  Its
\* threat RACE-001, a CANCELLED Job with a pull request, is the exception: a
\* lease lost while publishing, or a retry after a failed one, opens the gate.)
PublicationBarsCancel ==
  published /\ job \in {"CANCEL_REQUESTED", "CANCELLED"} => publication = "requeued"

\* docs/platform/phase7-local-operations.md: after the grace period the Job
\* stays under its lease until recovery.  Nobody's Job is cancelled unasked,
\* as far as its first Attempt goes.
CancelledOnlyIfAsked == job = "CANCELLED" => asked \/ followed

\* The one way to an unasked CANCELLED Job is a drain that ran out of patience.
CancelledOnlyIfAskedOrForced ==
  job = "CANCELLED" => asked \/ followed \/ worker \in {"forced", "stopped"}

\* tests/platform/test_phase3_postgres.py: the Worker observes a cancellation
\* and finishes its cleanup, after which the Attempt task is over.
CancelledTaskEnds == leased /\ job = "CANCEL_REQUESTED" ~> attempt = "ended"

\* The Attempt task ends, unless it and its monitor await each other.
TaskEndsOrAwaitsMutually == <>(attempt = "ended" \/ MutualAwait)

\* A Worker told to stop does stop, unless such a task makes its drain fail.
StopsOrMutualAwait == worker = "draining" ~> worker = "stopped" \/ MutualAwait

=============================================================================
