----------------------------- MODULE WorkerPool -----------------------------
(***************************************************************************)
(* The Worker processes around the Attempts they run: registration under    *)
(* one Platform Capacity, the claiming loop with its background tasks,      *)
(* drain on SIGTERM or on a failure, forced stop, crash and restart, the    *)
(* heartbeat row that the API's readiness reads, and the leases that a      *)
(* process leaves behind (workers/service.py, register_worker and its       *)
(* neighbours in persistence/repositories.py).                              *)
(*                                                                         *)
(* One process at a time has a worker id: ids are made of the host name     *)
(* and a UUID unless they are configured, and a configured one belongs to   *)
(* one container, restarted after it has exited.  A process may come back   *)
(* with another MEWCODE_PLATFORM_MAX_CONCURRENT_JOBS.                       *)
(*                                                                         *)
(* What happens inside an Attempt is AttemptTask's, what a lease is worth   *)
(* LeaseCapacity's and what becomes of a Job JobLifecycle's; here a Job is  *)
(* queued, leased, left with a lapsed lease, or over.                       *)
(***************************************************************************)
EXTENDS Integers, FiniteSets

CONSTANTS
  Workers,      \* worker ids
  Jobs,
  Nobody,
  Capacities,   \* values of MEWCODE_PLATFORM_MAX_CONCURRENT_JOBS in use
  Restarting,   \* ids whose process is started again when it has exited
  Pausing,      \* ids whose heartbeats may be late while their process runs
  Fragile,      \* ids whose process may be killed or lose one of its loops
  Slots,        \* MEWCODE_PLATFORM_WORKER_MAX_CONCURRENT_ATTEMPTS
  MaxAttempts   \* Attempts of a Job: the first one and its automatic retries

ASSUME NobodyIsNoWorker == Nobody \notin Workers
ASSUME CapacitiesArePositive == Capacities \subseteq Nat \ {0}
ASSUME SlotsArePositive == Slots \in Nat \ {0}
ASSUME AttemptsArePositive == MaxAttempts \in Nat \ {0}

VARIABLES
  row,      \* row[w]: w's worker_nodes row; "fresh" is a heartbeat within worker_stale_seconds
  proc,     \* proc[w]: where run_forever of w's process is
  conf,     \* conf[w]: the Platform Capacity in the process's settings, 0 without a process
  tasks,    \* tasks[w]: its background tasks that are not done
  drain,    \* drain[w]: _draining, and what became of its publication
  stop,     \* stop[w]: the event _stop
  active,   \* active[w]: the Attempts in _active
  hung,     \* hung[w]: those whose task and lease monitor await each other
  work,     \* work[j]: the Job's current Attempt and its lease
  late      \* history: the processes whose row went stale while they served

vars == <<row, proc, conf, tasks, drain, stop, active, hung, work, late>>

Background == {"heartbeat", "recovery"}
Looping == {"looping", "claiming"}
Serving == Looping \union {"leaving", "draining"}
Attempts == Jobs \X (1 .. MaxAttempts)

Row == [fresh : BOOLEAN, draining : BOOLEAN, capacity : Capacities \union {0}]
Work == [state : {"queued", "leased", "lapsed", "over"},
         by : Workers \union {Nobody}, no : 1 .. MaxAttempts]

NoRow == [fresh |-> FALSE, draining |-> FALSE, capacity |-> 0]
Queued(n) == [state |-> "queued", by |-> Nobody, no |-> n]
Over(n) == [state |-> "over", by |-> Nobody, no |-> n]

Known(w) == row[w].capacity # 0

TypeOK ==
  /\ row \in [Workers -> Row]
  /\ proc \in [Workers -> Serving \union {"starting", "down"}]
  /\ conf \in [Workers -> Capacities \union {0}]
  /\ tasks \in [Workers -> SUBSET Background]
  /\ drain \in [Workers -> {"no", "by_stop", "published", "lost"}]
  /\ stop \in [Workers -> BOOLEAN]
  /\ active \in [Workers -> SUBSET Attempts]
  /\ hung \in [Workers -> SUBSET Attempts]
  /\ work \in [Jobs -> Work]
  /\ late \subseteq Workers

Init ==
  /\ row = [w \in Workers |-> NoRow]
  /\ proc = [w \in Workers |-> "down"]
  /\ conf = [w \in Workers |-> 0]
  /\ tasks = [w \in Workers |-> {}]
  /\ drain = [w \in Workers |-> "no"]
  /\ stop = [w \in Workers |-> FALSE]
  /\ active = [w \in Workers |-> {}]
  /\ hung = [w \in Workers |-> {}]
  /\ work = [j \in Jobs |-> Queued(1)]
  /\ late = {}

-----------------------------------------------------------------------------
(* Start and registration *)

\* a new process with w's id, its settings read
Start(w) ==
  /\ proc[w] = "down"
  /\ Known(w) => w \in Restarting
  /\ proc' = [proc EXCEPT ![w] = "starting"]
  /\ \E c \in Capacities : conf' = [conf EXCEPT ![w] = c]
  /\ drain' = [drain EXCEPT ![w] = "no"]
  /\ UNCHANGED <<row, tasks, stop, active, hung, work, late>>

\* the process ends, however; of a drain only a committed publication is left
Gone(w) ==
  /\ proc' = [proc EXCEPT ![w] = "down"]
  /\ conf' = [conf EXCEPT ![w] = 0]
  /\ tasks' = [tasks EXCEPT ![w] = {}]
  /\ drain' = [drain EXCEPT ![w] = IF @ = "published" THEN @ ELSE "no"]
  /\ stop' = [stop EXCEPT ![w] = FALSE]
  /\ active' = [active EXCEPT ![w] = {}]
  /\ hung' = [hung EXCEPT ![w] = {}]
  /\ late' = late \ {w}
  /\ UNCHANGED <<row, work>>

\* register_worker's checks: the row of this id, unless draining, and the
\* rows of all others, draining or not, as far as their heartbeats are fresh
OwnRowAgrees(w) ==
  row[w].fresh /\ ~row[w].draining => row[w].capacity = conf[w]

OthersAgree_UnlessDraining(w) ==
  \A v \in Workers \ {w} :
    row[v].fresh /\ ~row[v].draining => row[v].capacity = conf[w]
OthersAgree(w) ==
  \A v \in Workers \ {w} : row[v].fresh => row[v].capacity = conf[w]

Registered(capacity) == [fresh |-> TRUE, draining |-> FALSE, capacity |-> capacity]

\* register_worker, under the registration advisory lock; then the
\* background tasks are created
Register(w) ==
  /\ proc[w] = "starting"
  /\ OwnRowAgrees(w) /\ OthersAgree(w)
  /\ row' = [row EXCEPT ![w] = Registered(conf[w])]
  /\ proc' = [proc EXCEPT ![w] = "looping"]
  /\ tasks' = [tasks EXCEPT ![w] = Background]
  /\ UNCHANGED <<conf, drain, stop, active, hung, work, late>>

\* CAPACITY_CONFIGURATION_MISMATCH (or a database error) ends the process
\* before run_forever's try block
Refused(w) ==
  /\ proc[w] = "starting"
  /\ Gone(w)

-----------------------------------------------------------------------------
(* The rows *)

Refreshed(r) == [r EXCEPT !.fresh = TRUE]

\* heartbeat_service, by the heartbeat loop: no look at any capacity
Heartbeat(w) ==
  /\ "heartbeat" \in tasks[w]
  /\ Known(w)
  /\ row' = [row EXCEPT ![w] = Refreshed(@)]
  /\ UNCHANGED <<proc, conf, tasks, drain, stop, active, hung, work, late>>

Stale(r) == [r EXCEPT !.fresh = FALSE]

\* worker_stale_seconds pass without a heartbeat: the process is gone, or it
\* is paused, its database slow or its heartbeat loop dead
GoStale(w) ==
  /\ row[w].fresh
  /\ proc[w] \in Serving => w \in Pausing
  /\ row' = [row EXCEPT ![w] = Stale(@)]
  /\ late' = IF proc[w] \in Serving THEN late \union {w} ELSE late
  /\ UNCHANGED <<proc, conf, tasks, drain, stop, active, hung, work>>

\* has_fresh_worker, as far as w's row is concerned: what /health/ready reports
Available(w) == row[w].fresh /\ ~row[w].draining

-----------------------------------------------------------------------------
(* The claiming loop *)

\* the top of the loop: _stop, then the background tasks
LoopTop(w) ==
  /\ proc[w] = "looping"
  /\ proc' = [proc EXCEPT ![w] = IF stop[w] \/ tasks[w] # Background
                                 THEN "leaving" ELSE "claiming"]
  /\ UNCHANGED <<row, conf, tasks, drain, stop, active, hung, work, late>>

\* claim_attempt finds room: by the claimer's own idea of Platform Capacity
MayClaim(w, j) ==
  /\ Cardinality(active[w]) < Slots
  /\ Cardinality({i \in Jobs : work[i].state = "leased"}) < conf[w]
  /\ work[j].state = "queued"

Leased(r, w) == [r EXCEPT !.state = "leased", !.by = w]

\* the inner loop looks neither at _stop nor at the background tasks
Claim(w, j) ==
  /\ proc[w] = "claiming"
  /\ MayClaim(w, j)
  /\ work' = [work EXCEPT ![j] = Leased(@, w)]
  /\ active' = [active EXCEPT ![w] = @ \union {<<j, work[j].no>>}]
  /\ UNCHANGED <<row, proc, conf, tasks, drain, stop, hung, late>>

PassEnds(w) ==
  /\ proc[w] = "claiming"
  /\ \A j \in Jobs : ~MayClaim(w, j)
  /\ proc' = [proc EXCEPT ![w] = "looping"]
  /\ UNCHANGED <<row, conf, tasks, drain, stop, active, hung, work, late>>

\* job_queue_stats or claim_attempt raises: to the finally block
LoopFails(w) ==
  /\ w \in Fragile
  /\ proc[w] \in Looping
  /\ proc' = [proc EXCEPT ![w] = "leaving"]
  /\ UNCHANGED <<row, conf, tasks, drain, stop, active, hung, work, late>>

\* heartbeat_worker or recover_expired_leases raises
BackgroundFails(w) ==
  /\ w \in Fragile
  /\ \E t \in tasks[w] : tasks' = [tasks EXCEPT ![w] = @ \ {t}]
  /\ UNCHANGED <<row, proc, conf, drain, stop, active, hung, work, late>>

-----------------------------------------------------------------------------
(* Drain *)

\* SIGTERM: stop() sets _draining and starts publishing it.  (With _draining
\* set already it only sets _stop, which the finally block does as well.)
Signal(w) ==
  /\ proc[w] # "down"
  /\ drain[w] = "no"
  /\ drain' = [drain EXCEPT ![w] = "by_stop"]
  /\ UNCHANGED <<row, proc, conf, tasks, stop, active, hung, work, late>>

Draining(r) == [r EXCEPT !.draining = TRUE, !.fresh = TRUE]

\* set_worker_draining commits: lost when register_worker is still to come
MarkDraining(w) ==
  /\ row' = IF Known(w) THEN [row EXCEPT ![w] = Draining(@)] ELSE row
  /\ drain' = [drain EXCEPT ![w] = IF proc[w] = "starting" THEN "lost" ELSE "published"]

\* it raises, which _begin_drain logs
NotMarked(w) ==
  /\ drain' = [drain EXCEPT ![w] = "lost"]
  /\ UNCHANGED row

Publish(w) ==
  /\ proc[w] # "down"
  /\ drain[w] = "by_stop"
  /\ MarkDraining(w) \/ NotMarked(w)
  /\ UNCHANGED <<proc, conf, tasks, stop, active, hung, work, late>>

\* stop() goes on after _begin_drain
SetStop(w) ==
  /\ proc[w] # "down"
  /\ drain[w] \in {"published", "lost"}
  /\ ~stop[w]
  /\ stop' = [stop EXCEPT ![w] = TRUE]
  /\ UNCHANGED <<row, proc, conf, tasks, drain, active, hung, work, late>>

\* The finally block: _begin_drain publishes, or returns at once when stop()
\* has begun to; then no more recovery, and the heartbeat goes on.
Leave(w) ==
  /\ proc[w] = "leaving"
  /\ IF drain[w] = "no" THEN MarkDraining(w) \/ NotMarked(w) ELSE UNCHANGED <<row, drain>>
  /\ proc' = [proc EXCEPT ![w] = "draining"]
  /\ stop' = [stop EXCEPT ![w] = TRUE]
  /\ tasks' = [tasks EXCEPT ![w] = @ \ {"recovery"}]
  /\ UNCHANGED <<conf, active, hung, work, late>>

\* An Attempt task ends: with its Job's outcome while its lease is good, or
\* without (lease lost, database error).
TaskEnds(w, j, n) ==
  /\ <<j, n>> \in active[w] \ hung[w]
  /\ active' = [active EXCEPT ![w] = @ \ {<<j, n>>}]
  /\ \/ /\ work[j] = [state |-> "leased", by |-> w, no |-> n]
        /\ work' = [work EXCEPT ![j] = Over(n)]
     \/ UNCHANGED work
  /\ UNCHANGED <<row, proc, conf, tasks, drain, stop, hung, late>>

\* The lease monitor awaits the task it cancels, and the task awaits the
\* monitor (AttemptTask's MutualAwait): neither ends, nor renews the lease.
Hang(w, j, n) ==
  /\ <<j, n>> \in active[w] \ hung[w]
  /\ hung' = [hung EXCEPT ![w] = @ \union {<<j, n>>}]
  /\ UNCHANGED <<row, proc, conf, tasks, drain, stop, active, work, late>>

\* _drain_active: all tasks ended, or the grace period did and they were
\* cancelled; their leases stand
Exit_NoGrace(w) ==
  /\ proc[w] = "draining"
  /\ active[w] = {}
  /\ Gone(w)

\* The cancelled tasks are awaited once more, without a limit.
Exit(w) ==
  /\ proc[w] = "draining"
  /\ hung[w] = {}
  /\ Gone(w)

\* Cancelling a task that hangs recurses: the RecursionError ends run_forever,
\* if it does.
ExitBroken(w) ==
  /\ proc[w] = "draining"
  /\ hung[w] # {}
  /\ Gone(w)

\* SIGKILL, the host goes down
Crash(w) ==
  /\ w \in Fragile
  /\ proc[w] # "down"
  /\ Gone(w)

-----------------------------------------------------------------------------
(* Leases *)

Lapsed(r) == [r EXCEPT !.state = "lapsed"]

\* the holder no longer renews, or its renewals come too late
Lapse(j) ==
  /\ work[j].state = "leased"
  /\ work' = [work EXCEPT ![j] = Lapsed(@)]
  /\ UNCHANGED <<row, proc, conf, tasks, drain, stop, active, hung, late>>

Recovered(r) == IF r.no < MaxAttempts THEN Queued(r.no + 1) ELSE Over(r.no)

\* recover_expired_leases: whoever held them
Recover(w) ==
  /\ "recovery" \in tasks[w]
  /\ \E j \in Jobs : work[j].state = "lapsed"
  /\ work' = [j \in Jobs |-> IF work[j].state = "lapsed" THEN Recovered(work[j]) ELSE work[j]]
  /\ UNCHANGED <<row, proc, conf, tasks, drain, stop, active, hung, late>>

-----------------------------------------------------------------------------
Run(w) ==
  \/ LoopTop(w) \/ PassEnds(w) \/ LoopFails(w)
  \/ \E j \in Jobs : Claim(w, j)

Drain(w) ==
  \/ Publish(w) \/ SetStop(w) \/ Leave(w) \/ Exit(w)

Next ==
  \/ \E w \in Workers :
       \/ Start(w) \/ Register(w) \/ Refused(w)
       \/ Heartbeat(w) \/ GoStale(w) \/ BackgroundFails(w) \/ Recover(w)
       \/ Run(w) \/ Signal(w) \/ Drain(w) \/ Crash(w)
       \/ ExitBroken(w)
       \/ \E j \in Jobs, n \in 1 .. MaxAttempts : TaskEnds(w, j, n) \/ Hang(w, j, n)
  \/ \E j \in Jobs : Lapse(j)

Spec == Init /\ [][Next]_vars

\* A lease nobody renews: its Attempt is no task of its Worker's process, or hangs.
Orphaned(j) ==
  /\ work[j].state \in {"leased", "lapsed"}
  /\ <<j, work[j].no>> \notin active[work[j].by] \ hung[work[j].by]

\* The event loop runs what is ready, database calls return or raise, the
\* grace period ends, and a lease nobody renews lapses.  Nothing makes an
\* Attempt end, a process start or a registration succeed, and a drain with a
\* task that hangs may last for ever.
FairSpec ==
  /\ Spec
  /\ \A w \in Workers : /\ WF_vars(Register(w) \/ Refused(w)) /\ WF_vars(Run(w))
                         /\ WF_vars(Drain(w)) /\ WF_vars(Recover(w))
  /\ \A j \in Jobs : WF_vars(Orphaned(j) /\ Lapse(j))

-----------------------------------------------------------------------------
(* Safety *)

\* docs/adr/0014: "Active Workers must agree on Platform Capacity or the
\* later registration fails closed."  Two processes that may claim agree,
\* unless the row of one went stale while it served: then another was let in
\* past it, and its next heartbeat asks no question.
ClaimersAgree ==
  \A v, w \in Workers :
    /\ proc[v] \in Looping /\ proc[w] \in Looping
    /\ v \notin late /\ w \notin late
    => conf[v] = conf[w]

\* A Worker that has published its drain is not reported ready again before
\* another process with its id registers: neither its heartbeats nor a
\* publication racing its own registration undo it.
NotReadyOnceDrained == \A w \in Workers : drain[w] = "published" => ~Available(w)

-----------------------------------------------------------------------------
(* Liveness *)

\* A Worker asked to stop stops, however much is queued and however long its
\* Attempts work: stop() needs the loop, the publication and the grace period
\* to come to an end.  It may wait for ever only if an Attempt's task hangs,
\* which _drain_active awaits again, without a limit, when it has cancelled it.
StopEnds ==
  \A w \in Workers : drain[w] = "by_stop" ~> proc[w] = "down" \/ hung[w] # {}

\* A Worker that has lost its heartbeat or recovery loop does not serve on
\* half dead: it drains and exits, to be restarted.
NoHalfDeadWorker ==
  \A w \in Workers :
    proc[w] \in Looping /\ tasks[w] # Background ~> proc[w] \notin Looping

\* Whatever a crash or a forced stop leaves leased is released by any Worker
\* that stays.
OrphansAreReleased ==
  \A w \in Workers : \A j \in Jobs :
    <>[]("recovery" \in tasks[w]) => (Orphaned(j) ~> ~Orphaned(j))

=============================================================================
