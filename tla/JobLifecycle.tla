---------------------------- MODULE JobLifecycle ----------------------------
(***************************************************************************)
(* The durable life of Jobs and Attempts: every transaction of             *)
(* PlatformRepository (mewcode/platform/persistence/repositories.py) that  *)
(* changes a Job, an Attempt or a Worker Lease, interleaved with Workers   *)
(* that keep acting on the lease they were handed, whether or not the      *)
(* database still honours it.  Each transaction is one atomic action here; *)
(* LeaseCapacity opens the transactions up.                                 *)
(*                                                                         *)
(* Time is relative: ttl is lease_expires_at - now() in ticks.  The event  *)
(* log is abstracted to `told', the status carried by the Job's most       *)
(* recent event that carries one, which is what a client following the     *)
(* stream believes.                                                        *)
(***************************************************************************)
EXTENDS Integers, FiniteSets, JobState

CONSTANTS
  Jobs,                 \* Job identities (Work Requests accepted at most once each)
  Workers,              \* Worker processes
  NoWorker,             \* worker_id IS NULL
  Capacity,             \* settings.max_concurrent_jobs
  Slots,                \* settings.worker_max_concurrent_attempts
  LeaseTicks,           \* settings.lease_seconds, in ticks
  AutomaticRetryLimit,  \* recover_expired_leases(automatic_retry_limit = 1)
  MaxAttempts,          \* bound of the model on Attempts per Job
  ReportedStages        \* stages an Attempt Processor reports

ASSUME CapacityAssumption == Capacity \in Nat \ {0}
ASSUME SlotsAssumption == Slots \in Nat \ {0}
ASSUME LeaseAssumption == LeaseTicks \in Nat \ {0}
ASSUME RetryAssumption == AutomaticRetryLimit \in Nat
ASSUME BoundAssumption == MaxAttempts \in Nat /\ AutomaticRetryLimit < MaxAttempts
ASSUME StageAssumption == ReportedStages \subseteq AttemptStages
ASSUME NoWorkerAssumption == NoWorker \notin Workers
ASSUME FiniteAssumption == IsFiniteSet(Jobs)

VARIABLES
  job,      \* the jobs table, one row per Job
  attempt,  \* the attempts table: attempt[j][n] is Attempt number n of Job j
  ahead,    \* <<i, j>>: the queued Attempt of i has an earlier queued_at than j's
  held,     \* held[w]: leases of the Attempt tasks that work in Worker w
  stuck     \* stuck[w]: slots of Worker w whose Attempt task hangs; held and stuck
            \* are the _active tasks

vars == <<job, attempt, ahead, held, stuck>>

-----------------------------------------------------------------------------
(* Rows *)

AttemptNos == 1..MaxAttempts
NoStage == "NONE"

JobRow ==
  [status    : JobStatuses \union {"ABSENT", "DELETED"},
   stage     : AttemptStages \union {NoStage},
   no        : 0..MaxAttempts,             \* current_attempt_no
   auto      : 0..AutomaticRetryLimit,     \* automatic_retry_count
   inputs    : 0..MaxAttempts,             \* rows in job_inputs
   claims    : 0..MaxAttempts,             \* fencing tokens issued for the Job
   evidence  : BOOLEAN,                    \* pr_url, head_sha, ... are set
   told      : JobStatuses \union {NoStage},
   retention : {"none", "running", "elapsed"}]

AttemptRow ==
  [status : AttemptStatuses \union {"ABSENT"},
   worker : Workers \union {NoWorker},
   token  : 0..MaxAttempts,
   ttl    : 0..LeaseTicks,
   code   : {"none", "ATTEMPT_FAILED", "WORKER_LEASE_EXPIRED"}]

\* AttemptLease, as handed to a Worker by claim_attempt.  The token is
\* uuid4: fresh for every claim, so a per-Job count of claims stands for it.
Lease ==
  [job : Jobs, no : AttemptNos, token : 0..MaxAttempts, inputs : 0..MaxAttempts]

\* no row: not yet inserted, or deleted
NoJob(status) ==
  [status |-> status, stage |-> NoStage, no |-> 0, auto |-> 0, inputs |-> 0,
   claims |-> 0, evidence |-> FALSE, told |-> NoStage, retention |-> "none"]

\* the row create_job inserts
NewJob ==
  [status |-> "QUEUED", stage |-> NoStage, no |-> 1, auto |-> 0, inputs |-> 0,
   claims |-> 0, evidence |-> FALSE, told |-> "QUEUED", retention |-> "none"]

\* an Attempt nobody has claimed
Unclaimed(status) ==
  [status |-> status, worker |-> NoWorker, token |-> 0, ttl |-> 0, code |-> "none"]

-----------------------------------------------------------------------------
(* Reading the tables *)

Current(j) == attempt[j][job[j].no]
Created(j) == job[j].status \notin {"ABSENT", "DELETED"}

\* attempts whose lease counts against Platform Capacity
Live(j, n) == attempt[j][n].status = "RUNNING" /\ attempt[j][n].ttl > 0
LiveAttempts == {p \in Jobs \X AttemptNos : Live(p[1], p[2])}

Claimable(j) ==
  /\ job[j].status = "QUEUED"
  /\ Current(j).status = "QUEUED"

\* _locked_lease: the row lock is taken only on a RUNNING Attempt with this
\* worker, this token, an unexpired lease, and current for its Job.
Fenced(w, l) ==
  LET a == attempt[l.job][l.no] IN
  /\ a.status = "RUNNING"
  /\ a.worker = w
  /\ a.token = l.token
  /\ a.ttl > 0
  /\ job[l.job].no = l.no

\* claim_attempt's test, under the claim advisory lock
CapacityLeft == Cardinality(LiveAttempts) < Capacity

\* the rows recover_expired_leases selects and does not skip
Expired(j) ==
  /\ job[j].no \in AttemptNos
  /\ Current(j).status = "RUNNING"
  /\ Current(j).ttl = 0

\* bound of the model: room is kept for the automatic retries still due
RoomForReopening(j) ==
  job[j].no + (AutomaticRetryLimit - job[j].auto) < MaxAttempts

-----------------------------------------------------------------------------
(* Writing the tables *)

\* j's queued_at becomes the latest; unlinked, j is in no queue.
Unlinked(j) == {p \in ahead : p[1] # j /\ p[2] # j}
Enqueued(j) == Unlinked(j) \union {<<i, j>> : i \in {i \in Jobs \ {j} : Claimable(i)}}

Requeued_Silent(r) ==
  [r EXCEPT !.no = @ + 1, !.status = "QUEUED", !.stage = NoStage, !.retention = "none"]

\* _queue_new_attempt, on the Job row r
Requeued(r) ==
  [r EXCEPT !.no = @ + 1, !.status = "QUEUED", !.stage = NoStage,
            !.retention = "none", !.told = "QUEUED"]

QueueNewAttempt(j, row, attempts) ==
  /\ job' = [job EXCEPT ![j] = Requeued(row)]
  /\ attempt' = [attempt EXCEPT ![j] = [attempts EXCEPT ![row.no + 1] = Unclaimed("QUEUED")]]
  /\ ahead' = Enqueued(j)

\* the Job row r on reaching a final status: finished_at and retention_until
Ended(r, status) ==
  [r EXCEPT !.status = status, !.told = status, !.retention = "running"]

-----------------------------------------------------------------------------
(* Control API *)

Init ==
  /\ job = [j \in Jobs |-> NoJob("ABSENT")]
  /\ attempt = [j \in Jobs |-> [n \in AttemptNos |-> Unclaimed("ABSENT")]]
  /\ ahead = {}
  /\ held = [w \in Workers |-> {}]
  /\ stuck = [w \in Workers |-> 0]

\* create_job: Job, Attempt 1 and the job_received and job_queued events
CreateJob(j) ==
  /\ job[j].status = "ABSENT"
  /\ job' = [job EXCEPT ![j] = NewJob]
  /\ attempt' = [attempt EXCEPT ![j] = [@ EXCEPT ![1] = Unclaimed("QUEUED")]]
  /\ ahead' = Enqueued(j)
  /\ UNCHANGED <<held, stuck>>

\* add_input: answers the open question and queues a new Attempt
AddInput(j) ==
  /\ job[j].status = "NEEDS_INPUT"
  /\ JobMayMove(job[j].status, "QUEUED", FALSE)
  /\ RoomForReopening(j)
  /\ QueueNewAttempt(j, [job[j] EXCEPT !.inputs = @ + 1], attempt[j])
  /\ UNCHANGED <<held, stuck>>

RetryJob_AnyStatus(j) ==
  /\ Created(j)
  /\ RoomForReopening(j)
  /\ QueueNewAttempt(j, job[j], attempt[j])
  /\ UNCHANGED <<held, stuck>>

\* retry_job
RetryJob(j) ==
  /\ job[j].status = "FAILED"
  /\ JobMayMove(job[j].status, "QUEUED", FALSE)
  /\ RoomForReopening(j)
  /\ QueueNewAttempt(j, job[j], attempt[j])
  /\ UNCHANGED <<held, stuck>>

CancelWaiting_AttemptLeftQueued(j) ==
  /\ job[j].status \in {"QUEUED", "NEEDS_INPUT"}
  /\ job' = [job EXCEPT ![j] = Ended(@, "CANCELLED")]
  /\ ahead' = Unlinked(j)
  /\ UNCHANGED <<attempt, held, stuck>>

\* cancel_job on a Job no Worker is executing
CancelWaiting(j) ==
  /\ job[j].status \in {"QUEUED", "NEEDS_INPUT"}
  /\ JobMayMove(job[j].status, "CANCELLED", FALSE)
  /\ job' = [job EXCEPT ![j] = Ended(@, "CANCELLED")]
  /\ attempt' =
       IF Current(j).status = "QUEUED"
       THEN [attempt EXCEPT ![j][job[j].no].status = "CANCELLED"]
       ELSE attempt
  /\ ahead' = Unlinked(j)
  /\ UNCHANGED <<held, stuck>>

\* cancel_job on a running Job: refused once publication has begun
CancelRunning(j) ==
  /\ job[j].status = "RUNNING"
  /\ job[j].stage # "PUBLISHING"
  /\ JobMayMove("RUNNING", "CANCEL_REQUESTED", FALSE)
  /\ job' = [job EXCEPT ![j].status = "CANCEL_REQUESTED",
                        ![j].told = "CANCEL_REQUESTED"]
  /\ UNCHANGED <<attempt, ahead, held, stuck>>

-----------------------------------------------------------------------------
(* Worker *)

\* claim_attempt, under the claim advisory lock, by a Worker with a free slot
\* (run_forever): the oldest claimable Attempt, if Platform Capacity allows.
Claim(w) ==
  /\ Cardinality(held[w]) + stuck[w] < Slots
  /\ CapacityLeft
  /\ \E j \in Jobs :
       LET n == job[j].no
           token == job[j].claims + 1 IN
       /\ Claimable(j)
       /\ \A i \in Jobs : Claimable(i) => <<i, j>> \notin ahead
       /\ AttemptMayMove("QUEUED", "RUNNING") /\ JobMayMove("QUEUED", "RUNNING", FALSE)
       /\ job' = [job EXCEPT ![j] = [@ EXCEPT !.status = "RUNNING", !.told = "RUNNING",
                                              !.stage = "PREPARING", !.claims = token]]
       /\ attempt' = [attempt EXCEPT ![j][n] =
                        [@ EXCEPT !.status = "RUNNING", !.worker = w,
                                  !.token = token, !.ttl = LeaseTicks]]
       /\ held' = [held EXCEPT ![w] = @ \union
                     {[job |-> j, no |-> n, token |-> token, inputs |-> job[j].inputs]}]
       /\ ahead' = Unlinked(j)
  /\ UNCHANGED stuck

\* heartbeat_lease
Heartbeat(w, l) ==
  /\ l \in held[w]
  /\ Fenced(w, l)
  /\ attempt' = [attempt EXCEPT ![l.job][l.no].ttl = LeaseTicks]
  /\ UNCHANGED <<job, ahead, held, stuck>>

\* report_stage: refused unless the Job is still RUNNING
ReportStage(w, l, stage) ==
  /\ l \in held[w]
  /\ Fenced(w, l)
  /\ job[l.job].status = "RUNNING"
  /\ job' = [job EXCEPT ![l.job].stage = stage]
  /\ UNCHANGED <<attempt, ahead, held, stuck>>

Outcomes ==
  {[status |-> "COMPLETED", evidence |-> TRUE]}
    \union [status : OutcomeStatuses, evidence : {FALSE}]

\* finish_attempt: what the reported outcome becomes.  A requested
\* cancellation wins; a completion without full delivery evidence is a failure.
EffectiveStatus(j, o) ==
  IF job[j].status = "CANCEL_REQUESTED" THEN "CANCELLED"
  ELSE IF o.status = "COMPLETED" /\ ~JobMayMove(job[j].status, "SUCCEEDED", o.evidence)
       THEN "FAILED"
       ELSE o.status

FinishedJob(r, status, evidence) ==
  LET row == [r EXCEPT !.stage = "CLEANING_UP"] IN
  CASE status = "COMPLETED"   -> [Ended(row, "SUCCEEDED") EXCEPT !.evidence = evidence]
    [] status = "NEEDS_INPUT" -> [row EXCEPT !.status = "NEEDS_INPUT", !.told = "NEEDS_INPUT"]
    [] status = "CANCELLED"   -> Ended(row, "CANCELLED")
    [] status = "FAILED"      -> Ended(row, "FAILED")

FinishedAttempt(a, status) ==
  [a EXCEPT !.status = status, !.ttl = 0,
            !.code = IF status = "FAILED" THEN "ATTEMPT_FAILED" ELSE @]

\* finish_attempt accepted
Finish(w, l, o) ==
  LET status == EffectiveStatus(l.job, o) IN
  /\ l \in held[w]
  /\ Fenced(w, l)
  /\ AttemptMayMove("RUNNING", status)
  /\ job' = [job EXCEPT ![l.job] = FinishedJob(@, status, o.evidence)]
  /\ attempt' = [attempt EXCEPT ![l.job][l.no] = FinishedAttempt(@, status)]
  /\ held' = [held EXCEPT ![w] = @ \ {l}]
  /\ UNCHANGED <<ahead, stuck>>

\* finish_attempt raising LeaseLost: the outcome is discarded
DiscardOutcome(w, l) ==
  /\ l \in held[w]
  /\ ~Fenced(w, l)
  /\ held' = [held EXCEPT ![w] = @ \ {l}]
  /\ UNCHANGED <<job, attempt, ahead, stuck>>

\* the Attempt task ends without reporting, or dies with its process
Abandon(w, l) ==
  /\ l \in held[w]
  /\ held' = [held EXCEPT ![w] = @ \ {l}]
  /\ UNCHANGED <<job, attempt, ahead, stuck>>

\* The lease monitor learns of a cancellation or of the lost lease, or fails,
\* while the agent runs: it cancels and awaits the Attempt task, which awaits it
\* (AttemptTask's MutualAwait).  Neither acts again, and the slot stays taken.
Hang(w, l) ==
  /\ l \in held[w]
  /\ held' = [held EXCEPT ![w] = @ \ {l}]
  /\ stuck' = [stuck EXCEPT ![w] = @ + 1]
  /\ UNCHANGED <<job, attempt, ahead>>

\* the process ends, with all of its tasks, and its container is started again
Restart(w) ==
  /\ held[w] # {} \/ stuck[w] > 0
  /\ held' = [held EXCEPT ![w] = {}]
  /\ stuck' = [stuck EXCEPT ![w] = 0]
  /\ UNCHANGED <<job, attempt, ahead>>

-----------------------------------------------------------------------------
(* Recovery, retention and time *)

\* recover_expired_leases, for one of the rows its SKIP LOCKED query returns
RecoverCancelled(j) ==
  /\ Expired(j)
  /\ job[j].status = "CANCEL_REQUESTED"
  /\ job' = [job EXCEPT ![j] = Ended(@, "CANCELLED")]
  /\ attempt' = [attempt EXCEPT ![j][job[j].no].status = "CANCELLED"]
  /\ UNCHANGED <<ahead, held, stuck>>

LeaseExpired_CodeOnly(a) == [a EXCEPT !.code = "WORKER_LEASE_EXPIRED"]
LeaseExpired(a) == [a EXCEPT !.status = "FAILED", !.code = "WORKER_LEASE_EXPIRED"]

RecoverRetried(j) ==
  /\ Expired(j)
  /\ job[j].status # "CANCEL_REQUESTED"
  /\ job[j].auto < AutomaticRetryLimit
  /\ QueueNewAttempt(j, [job[j] EXCEPT !.auto = @ + 1],
                     [attempt[j] EXCEPT ![job[j].no] = LeaseExpired(@)])
  /\ UNCHANGED <<held, stuck>>

RecoverFailed(j) ==
  /\ Expired(j)
  /\ job[j].status # "CANCEL_REQUESTED"
  /\ job[j].auto >= AutomaticRetryLimit
  /\ job' = [job EXCEPT ![j] = Ended(@, "FAILED")]
  /\ attempt' = [attempt EXCEPT ![j][job[j].no] = LeaseExpired(@)]
  /\ UNCHANGED <<ahead, held, stuck>>

Recover_NotCancelling(j) == RecoverRetried(j) \/ RecoverFailed(j)
Recover_NoRetry(j) == RecoverCancelled(j) \/ (RecoverFailed(j) /\ job[j].auto > 0)

Recover(j) == RecoverCancelled(j) \/ RecoverRetried(j) \/ RecoverFailed(j)

\* metadata_retention_days pass
ElapseRetention(j) ==
  /\ job[j].retention = "running"
  /\ job' = [job EXCEPT ![j].retention = "elapsed"]
  /\ UNCHANGED <<attempt, ahead, held, stuck>>

\* delete_expired_terminal_jobs: the Job goes, its Attempts cascade.  (The
\* condition on undelivered notifications belongs to NotificationOutbox.)
DeleteExpired(j) ==
  /\ job[j].status \in TerminalJobStatuses
  /\ job[j].retention = "elapsed"
  /\ job' = [job EXCEPT ![j] = NoJob("DELETED")]
  /\ attempt' = [attempt EXCEPT ![j] = [n \in AttemptNos |-> Unclaimed("ABSENT")]]
  /\ UNCHANGED <<ahead, held, stuck>>

\* now() advances
Tick ==
  /\ LiveAttempts # {}
  /\ attempt' = [j \in Jobs |-> [n \in AttemptNos |->
                   IF Live(j, n) THEN [attempt[j][n] EXCEPT !.ttl = @ - 1]
                                 ELSE attempt[j][n]]]
  /\ UNCHANGED <<job, ahead, held, stuck>>

-----------------------------------------------------------------------------

\* the Attempt task behind lease l ends, one way or another
End(w, l) ==
  \/ \E o \in Outcomes : Finish(w, l, o)
  \/ DiscardOutcome(w, l)
  \/ Abandon(w, l)

WorkerStep(w) ==
  \/ Claim(w)
  \/ \E l \in held[w] :
       \/ Heartbeat(w, l)
       \/ \E stage \in ReportedStages : ReportStage(w, l, stage)
       \/ End(w, l)
       \/ Hang(w, l)
  \/ Restart(w)

JobStep(j) ==
  \/ CreateJob(j) \/ AddInput(j) \/ RetryJob(j)
  \/ CancelWaiting(j) \/ CancelRunning(j)
  \/ Recover(j)
  \/ ElapseRetention(j) \/ DeleteExpired(j)

Next ==
  \/ \E j \in Jobs : JobStep(j)
  \/ \E w \in Workers : WorkerStep(w)
  \/ Tick

Spec == Init /\ [][Next]_vars

(* Fairness.  Time passes; some Worker keeps polling claim_attempt, and some *)
(* recovery loop keeps running: an exception in either loop ends its process *)
(* (run_forever raises), which the deployment starts again.  An Attempt task *)
(* ends, dies or hangs (the Attempt Deadline bounds it); one that hangs is   *)
(* not assumed to be let go of, nor any process to restart.  Nobody is       *)
(* obliged to submit, retry, answer or cancel.                               *)
EndsFor(w, j) == \E l \in held[w] : l.job = j /\ (End(w, l) \/ Hang(w, l))

Fairness ==
  /\ WF_vars(Tick)
  /\ WF_vars(\E w \in Workers : Claim(w))
  /\ \A j \in Jobs : WF_vars(Recover(j))
  /\ \A w \in Workers, j \in Jobs : WF_vars(EndsFor(w, j))

FairSpec == Spec /\ Fairness

-----------------------------------------------------------------------------
(* Properties *)

\* Every row has the shape its table gives it, and every lease that of a lease.
RowsOK ==
  /\ job \in [Jobs -> JobRow]
  /\ attempt \in [Jobs -> [AttemptNos -> AttemptRow]]
  /\ ahead \subseteq Jobs \X Jobs
  /\ held \in [Workers -> SUBSET Lease]

TypeOK == RowsOK /\ stuck \in [Workers -> Nat]

\* Job status and current Attempt status that go together.
AgreeingStatuses ==
  {<<"QUEUED", "QUEUED">>, <<"RUNNING", "RUNNING">>, <<"CANCEL_REQUESTED", "RUNNING">>,
   <<"NEEDS_INPUT", "NEEDS_INPUT">>, <<"SUCCEEDED", "COMPLETED">>, <<"FAILED", "FAILED">>,
   <<"CANCELLED", "CANCELLED">>, <<"CANCELLED", "NEEDS_INPUT">>}

\* A Job and its Attempts tell one story: the current Attempt is in the state
\* the Job's status implies, every earlier Attempt has ended, and no later
\* one exists.  So no Job ever has two Attempts that could run.
JobAttemptAgreement ==
  \A j \in Jobs : Created(j) =>
    /\ job[j].no \in AttemptNos
    /\ <<job[j].status, Current(j).status>> \in AgreeingStatuses
    /\ \A n \in AttemptNos :
         /\ n < job[j].no => attempt[j][n].status \in EndedAttemptStatuses
         /\ n > job[j].no => attempt[j][n].status = "ABSENT"

\* The counters that bound a Job's life.  A row that is not there is empty; a
\* Job has fewer inputs than Attempts, one fencing token per claimed Attempt,
\* and room for the automatic retries it is still due.
Bookkeeping ==
  \A j \in Jobs :
    /\ ~Created(j) => /\ job[j] = NoJob(job[j].status)
                      /\ \A n \in AttemptNos : attempt[j][n] = Unclaimed("ABSENT")
    /\ Created(j) => /\ job[j].inputs < job[j].no
                     /\ job[j].claims <= job[j].no
                     /\ job[j].status = "QUEUED" => job[j].claims < job[j].no
                     /\ job[j].no + (AutomaticRetryLimit - job[j].auto) <= MaxAttempts

\* A lease in a Worker's hands names an Attempt that was claimed, and while
\* that Attempt runs the row names the same Worker, token and inputs.
HeldMatchesRow ==
  \A w \in Workers : \A l \in held[w] :
    LET a == attempt[l.job][l.no] IN
    /\ a.status # "QUEUED"
    /\ a.status = "ABSENT" => job[l.job].status = "DELETED"
    /\ a.status = "RUNNING" =>
         a.worker = w /\ a.token = l.token /\ l.inputs = job[l.job].inputs

\* Two Workers (or one twice) never both hold a lease on running Attempts of
\* one Job: after recovery the old holder is fenced out for good.
OneRunningHolder ==
  \A v, w \in Workers : \A k \in held[v], l \in held[w] :
    /\ k.job = l.job
    /\ attempt[k.job][k.no].status = "RUNNING"
    /\ attempt[l.job][l.no].status = "RUNNING"
    => v = w /\ k = l

\* A cancellation is never pending on a Job that is publishing: whichever of
\* cancel_job and report_stage(PUBLISHING) comes first shuts the other out.
NoCancelWhilePublishing ==
  \A j \in Jobs : job[j].status = "CANCEL_REQUESTED" => job[j].stage # "PUBLISHING"

\* A Job carries delivery evidence exactly when it SUCCEEDED.
EvidenceMeansSucceeded ==
  \A j \in Jobs : job[j].evidence <=> job[j].status = "SUCCEEDED"

\* A client that follows the event stream to its end believes the status the
\* Job really has.
StreamTellsStatus == \A j \in Jobs : Created(j) => job[j].told = job[j].status

\* A Worker that can still write holds every input the Requester has given.
LeaseCarriesAllInputs ==
  \A w \in Workers : \A l \in held[w] :
    Fenced(w, l) => l.inputs = job[l.job].inputs

\* A retention deadline is armed exactly on finished Jobs, so that a reopened
\* Job cannot be deleted by the deadline of its earlier failure.
RetentionOnlyWhenFinished ==
  \A j \in Jobs : Created(j) =>
    (job[j].retention # "none" <=> job[j].status \in TerminalJobStatuses)

\* An Attempt that has ended is never changed again, except by deletion.
EndedAttemptsFrozen ==
  [][\A j \in Jobs, n \in AttemptNos :
       attempt[j][n].status \in EndedAttemptStatuses
         => attempt'[j][n] = attempt[j][n] \/ job'[j].status = "DELETED"]_vars

\* A new Attempt always has a cause: an answer, a retry of a failed Job, or
\* an expired lease within the automatic retry budget.
NewAttemptHasCause ==
  [][\A j \in Jobs : job[j].no > 0 /\ job'[j].no > job[j].no =>
       /\ job'[j].no = job[j].no + 1
       /\ \/ job[j].status = "NEEDS_INPUT" /\ job'[j].inputs = job[j].inputs + 1
          \/ job[j].status = "FAILED" /\ job'[j].inputs = job[j].inputs
          \/ /\ Expired(j)
             /\ job'[j].auto = job[j].auto + 1
             /\ job'[j].auto <= AutomaticRetryLimit]_vars

\* Leases, fencing and recovery implement what the Requester is promised
\* (JobContract): legal status moves only, each new Attempt accounted for.
Contract == INSTANCE JobContract WITH
  status    <- [j \in Jobs |-> job[j].status],
  attempts  <- [j \in Jobs |-> job[j].no],
  automatic <- [j \in Jobs |-> job[j].auto]

ImplementsContract == Contract!Spec

\* A requested cancellation is carried out, by the Worker or by recovery.
CancelIsCarriedOut ==
  \A j \in Jobs : job[j].status = "CANCEL_REQUESTED" ~> job[j].status \in {"CANCELLED", "DELETED"}

\* Every Worker's slots are taken by tasks that hang: nobody claims any more.
NoSlotLeft == \A w \in Workers : stuck[w] >= Slots

\* A queued or running Job comes to rest: it finishes or asks for input, though
\* Workers die and tasks hang on the way, unless hanging tasks come to take every
\* slot there is.
JobComesToRest ==
  \A j \in Jobs : job[j].status \in {"QUEUED", "RUNNING"} ~>
    job[j].status \in TerminalJobStatuses \union {"NEEDS_INPUT", "DELETED"} \/ NoSlotLeft

=============================================================================
