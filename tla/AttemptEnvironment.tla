-------------------------- MODULE AttemptEnvironment --------------------------
(***************************************************************************)
(* The Docker environment of one Attempt (platform/execution/docker.py),   *)
(* the way the Attempt Processor drives and closes it, and the sweep for   *)
(* orphaned resources of the Worker's recovery loop.                       *)
(*                                                                         *)
(* Every Docker request runs in a thread.  Cancelling the task that awaits *)
(* the thread does not stop the thread: it goes on as a stray.  Resources  *)
(* are named by their kind, as their labels name them.                     *)
(***************************************************************************)
EXTENDS Naturals, Sequences

CONSTANTS
    HelperTries,    \* 1 + Len(_WORKSPACE_HELPER_RETRY_DELAYS)
    MaxFaults       \* bound: Docker requests that fail

ASSUME EnvironmentAssumption == HelperTries \in Nat \ {0} /\ MaxFaults \in Nat

VARIABLES
    envState,    \* ExecutionState
    doing,       \* what the Attempt task is doing
    envOutcome,     \* how the Attempt ended, as far as the environment decides it
    thread,      \* Docker requests left to the thread that is awaited
    stray,       \* and to the threads nobody awaits any more
    threadFailed,
    helper,      \* the generation of the holder and the tries of this request
    command,     \* the command container: none, creating, created, running
    commandTask, \* run_command: none, of the agent, of the processor, or left by it
    known,       \* the volumes the environment object refers to
    there,       \* resources that exist
    workspace,   \* the tmpfs: empty, filled, or lost
    cleaner,     \* the next step of the thread in _cleanup_sync
    cleanErrors,
    abandoned,   \* ghost: a thread was left running
    monitorClose,\* aclose as called by the lease monitor: none, begun, clean, failed
    late,        \* the Attempt's deadline has passed
    claim,       \* the Attempt in the database: live, or over
    faults

attemptVars == <<envState, doing, envOutcome, thread, stray, threadFailed, helper>>
commandVars == <<command, commandTask>>
dockerVars == <<known, there, workspace, faults>>
cleanVars == <<cleaner, cleanErrors, abandoned, monitorClose, late>>
environmentVars == <<attemptVars, commandVars, dockerVars, cleanVars, claim>>

Volumes == {"volume"}      \* the three volumes come and go together
Containers == {"holder", "proxy", "seed", "export", "command"}

Create(r) == <<"create", r>>
Remove(r) == <<"remove", r>>
CheckVolumes == <<"check", "volumes">>     \* the assertions before a container is created

StartRequests == <<Create("volume"), Create("network"),
                   CheckVolumes, Create("holder"), Create("seed"), Remove("seed"), CheckVolumes, Create("proxy")>>
ImportRequests == <<Create("seed"), Remove("seed")>>
ExportRequests == <<Create("export"), Remove("export")>>
RestartRequests == <<Remove("holder"), CheckVolumes, Create("holder")>>
HelperRequests == <<<<"exec", "holder">>>>

NoHelper == [generation |-> 0, tries |-> 0]

EnvironmentInit ==
    /\ envState = "CREATED" /\ doing = "begin" /\ envOutcome = "none"
    /\ thread = <<>> /\ stray = <<>> /\ threadFailed = FALSE
    /\ helper = NoHelper
    /\ command = "none" /\ commandTask = "none"
    /\ known = {} /\ there = {} /\ workspace = "empty" /\ faults = 0
    /\ cleaner = "idle" /\ cleanErrors = FALSE /\ abandoned = FALSE
    /\ monitorClose = "none" /\ late = FALSE
    /\ claim = "live"

-----------------------------------------------------------------------------
(* Docker.  A tmpfs volume loses its content when the last running container *)
(* that mounts it ends; a volume in use and a network with a running         *)
(* container on it cannot be removed.                                        *)

Mounting(present, cmd) ==
    (present \cap {"holder", "seed", "export"}) \cup (IF cmd = "running" THEN {"command"} ELSE {})

Unmounted(present, cmd) == IF workspace = "filled" /\ Mounting(present, cmd) = {} THEN "lost" ELSE workspace

Fault == faults < MaxFaults /\ faults' = faults + 1

Removable(r) ==
    CASE r \in Volumes -> there \cap Containers = {}
      [] r = "network" -> "proxy" \notin there /\ command # "running"
      [] OTHER -> TRUE

\* A sweep over resources of one kind: what cannot be removed stays, and a
\* request that fails is only logged.
Swept(kind) ==
    \E left \in SUBSET (there \cap kind) :
        /\ {r \in there \cap kind : ~Removable(r)} \subseteq left
        /\ IF \A r \in left : ~Removable(r) THEN UNCHANGED faults ELSE Fault
        /\ there' = (there \ kind) \cup left
        /\ command' = IF "command" \in there \ there' THEN "none" ELSE command
        /\ workspace' = Unmounted(there', command')

\* the `finally` clauses of a thread whose request failed
Finally(mine) == SelectSeq(Tail(mine), LAMBDA o : o[1] = "remove" /\ o[2] \in there)

\* A request of a thread; when it fails, the `finally` clauses still remove what
\* the thread has made for itself.
Request(mine, done, failed) ==
    LET op == Head(mine)
        r == op[2]
        possible == CASE op[1] = "check" -> Volumes \subseteq known
                      [] op[1] = "create" -> r = "proxy" => "network" \in there
                      [] op[1] = "exec" -> "holder" \in there
                      [] OTHER -> TRUE
    IN  \/ /\ possible /\ done
           /\ there' = CASE op[1] = "create" -> there \cup {r}
                         [] op[1] = "remove" -> there \ {r}
                         [] OTHER -> there
           /\ known' = IF op[1] = "create" THEN known \cup ({r} \cap Volumes) ELSE known
           /\ workspace' = Unmounted(there', command)
           /\ UNCHANGED faults
        \/ /\ IF possible THEN Fault ELSE UNCHANGED faults
           /\ failed
           /\ UNCHANGED <<known, there, workspace>>

AwaitedThread ==
    /\ thread # <<>>
    /\ Request(thread, thread' = Tail(thread) /\ UNCHANGED threadFailed,
                       thread' = Finally(thread) /\ threadFailed' = TRUE)
    /\ UNCHANGED <<envState, doing, envOutcome, stray, helper, commandVars, cleanVars, claim>>

StrayThread ==
    /\ stray # <<>>
    /\ Request(stray, stray' = Tail(stray), stray' = Finally(stray))
    /\ UNCHANGED <<envState, doing, envOutcome, thread, threadFailed, helper, commandVars, cleanVars, claim>>

-----------------------------------------------------------------------------
(* The Attempt task. *)

LeaseLost ==
    /\ claim = "live" /\ claim' = "over"
    /\ UNCHANGED <<attemptVars, commandVars, dockerVars, cleanVars>>

Call(what, requests, state) ==
    /\ doing' = what /\ thread' = requests /\ threadFailed' = FALSE /\ envState' = state
    /\ UNCHANGED <<envOutcome, stray, commandVars, dockerVars, cleanVars, claim>>

\* the processor has made the Attempt's state directory
Start ==
    /\ doing = "begin" /\ envState = "CREATED"
    /\ doing' = "start" /\ thread' = StartRequests /\ envState' = "STARTING"
    /\ there' = there \cup {"stateDir"}
    /\ UNCHANGED <<envOutcome, stray, threadFailed, helper, commandVars, known, workspace, faults, cleanVars, claim>>

ImportWorkspace ==
    /\ doing = "started" /\ envState = "READY"
    /\ Call("import", ImportRequests, envState) /\ UNCHANGED helper

\* between two calls; after AttemptProcessor.cancel the next command or stage is refused
Ready == doing = "idle" /\ envState = "READY" /\ monitorClose = "none"

HelperRequest ==
    /\ Ready
    /\ helper' = [generation |-> 0, tries |-> 1]
    /\ Call("helper", HelperRequests, envState)

ExportFinal ==
    /\ Ready
    /\ Call("export", ExportRequests, envState) /\ UNCHANGED helper

Goes(what) ==
    /\ doing' = what /\ helper' = NoHelper /\ threadFailed' = FALSE
    /\ UNCHANGED <<envOutcome, thread, stray, commandVars, known, there, faults, cleanVars, claim>>

Awaits(what) == doing = what /\ thread = <<>>

\* start, import_archive_file, export_archive_file: what a failure makes of the
\* state.  After a failed start everything is cleaned up at once.
Returns ==
    \/ /\ Awaits("start") /\ ~threadFailed /\ Goes("started") /\ envState' = "READY"
       /\ UNCHANGED workspace
    \/ /\ Awaits("import") /\ ~threadFailed /\ Goes("idle")
       /\ workspace' = (IF "holder" \in there THEN "filled" ELSE "lost")
       /\ UNCHANGED envState
    \/ /\ Awaits("import") /\ threadFailed /\ Goes("failing") /\ envState' = "BROKEN"
       /\ UNCHANGED workspace
    \/ /\ Awaits("export") /\ Goes(IF threadFailed THEN "failing" ELSE "closing")
       /\ UNCHANGED <<envState, workspace>>
    \/ /\ Awaits("lateExport") /\ Goes("closing")
       /\ UNCHANGED <<envState, workspace>>

StartFails ==
    /\ Awaits("start") /\ threadFailed
    /\ cleaner = "idle" /\ cleaner' = "containers" /\ cleanErrors' = FALSE
    /\ envState' = "BROKEN" /\ doing' = "cleaning" /\ threadFailed' = FALSE
    /\ UNCHANGED <<envOutcome, thread, stray, helper, commandVars, dockerVars, abandoned, monitorClose, late, claim>>

\* _run_workspace_helper: a transient failure, which may also be read from the
\* answer itself, is tried again; after the last try the holder is replaced once.
HelperReturns ==
    /\ Awaits("helper")
    /\ \/ ~threadFailed /\ Goes("idle") /\ UNCHANGED <<envState, workspace>>
       \/ /\ helper.tries < HelperTries
          /\ helper' = [helper EXCEPT !.tries = @ + 1]
          /\ Call("helper", HelperRequests, envState)
       \/ /\ helper.tries = HelperTries /\ helper.generation = 0
          /\ Call("restart", RestartRequests, envState) /\ UNCHANGED helper
       \/ threadFailed /\ Goes("failing") /\ envState' = "BROKEN" /\ UNCHANGED workspace
       \/ /\ helper.tries = HelperTries /\ helper.generation = 1
          /\ Goes("failing") /\ envState' = "BROKEN" /\ UNCHANGED workspace

RestartReturns ==
    /\ Awaits("restart")
    /\ IF threadFailed
       THEN Goes("failing") /\ envState' = "BROKEN" /\ UNCHANGED workspace
       ELSE helper' = [generation |-> 1, tries |-> 1] /\ Call("helper", HelperRequests, envState)

\* every call but start asks first whether the environment is READY
Refused ==
    /\ doing \in {"started", "idle"} /\ envState # "READY" /\ Goes("failing")
    /\ UNCHANGED <<envState, workspace>>

\* the agent has ended, with what it changed or with an error of its own
AgentEnds ==
    /\ doing = "idle" /\ Goes("failing") /\ UNCHANGED <<envState, workspace>>

-----------------------------------------------------------------------------
(* Commands. *)

RunCommand ==
    /\ Ready /\ commandTask = "none" /\ command = "none"
    /\ doing' = "command" /\ command' = "creating" /\ commandTask' \in {"agent", "processor"}
    /\ UNCHANGED <<envState, envOutcome, thread, stray, threadFailed, helper, dockerVars, cleanVars, claim>>

\* The thread creates the container, whether or not somebody still awaits it.
CommandCreated ==
    /\ command = "creating" /\ command' = "created" /\ there' = there \cup {"command"}
    /\ UNCHANGED <<attemptVars, commandTask, known, workspace, faults, cleanVars, claim>>

CommandStarted ==
    /\ command = "created" /\ commandTask # "none" /\ "network" \in there
    /\ command' = "running"
    /\ UNCHANGED <<attemptVars, commandTask, dockerVars, cleanVars, claim>>

Terminated ==
    /\ command' = "none" /\ there' = there \ {"command"}
    /\ workspace' = Unmounted(there', command')

\* the command ends, exceeds its time, or exceeds a limit
CommandEnds ==
    /\ command = "running" /\ commandTask # "none" /\ Terminated
    /\ commandTask' = "none"
    /\ \E limit \in BOOLEAN :
          /\ envState' = IF limit THEN "BROKEN" ELSE envState
          /\ doing' = IF doing # "command" THEN doing ELSE IF limit THEN "failing" ELSE "idle"
    /\ UNCHANGED <<envOutcome, thread, stray, threadFailed, helper, known, faults, cleanVars, claim>>

\* A request of the command's task fails, because Docker does or because its
\* container or network is gone: the container is removed if it can be.
CommandFails ==
    /\ commandTask # "none"
    /\ \/ command = "none" /\ UNCHANGED <<command, there, workspace, faults>>
       \/ command = "created" /\ "network" \notin there /\ Terminated /\ UNCHANGED faults
       \/ command = "creating" /\ command' = "none" /\ Fault /\ UNCHANGED <<there, workspace>>
       \/ command \in {"created", "running"} /\ Fault /\ Terminated
       \/ command \in {"created", "running"} /\ Fault /\ UNCHANGED <<command, there, workspace>>
    /\ commandTask' = "none" /\ envState' = "BROKEN"
    /\ doing' = IF doing = "command" THEN "failing" ELSE doing
    /\ UNCHANGED <<envOutcome, thread, stray, threadFailed, helper, known, cleanVars, claim>>

-----------------------------------------------------------------------------
(* Cancellation.  The task of a command is told if it is the agent's, or the *)
(* processor's and the Requester cancels; a deadline or the Worker leaves    *)
(* the processor's behind.                                                   *)

Interrupt(next, isLate, told) ==
    /\ doing \in {"start", "started", "import", "idle", "helper", "restart", "export", "command"}
    /\ doing' = next /\ late' = isLate
    /\ stray' = stray \o thread /\ thread' = <<>> /\ threadFailed' = FALSE /\ helper' = NoHelper
    /\ abandoned' = (abandoned \/ thread # <<>> \/ command = "creating")
    /\ \/ doing = "command" /\ told /\ commandTask' = "none"
          /\ \/ command \in {"created", "running"} /\ Terminated /\ UNCHANGED <<envState, faults>>
             \/ command \in {"created", "running"} /\ Fault /\ envState' = "BROKEN"
                /\ UNCHANGED <<command, there, workspace>>
             \/ command \in {"none", "creating"}
                /\ UNCHANGED <<command, there, workspace, envState, faults>>
       \/ doing = "command" /\ ~told /\ commandTask' = "left"
          /\ UNCHANGED <<command, there, workspace, envState, faults>>
       \/ doing # "command" /\ UNCHANGED <<commandTask, command, there, workspace, envState, faults>>
    /\ UNCHANGED <<envOutcome, known, cleaner, cleanErrors, monitorClose, claim>>

DeadlineHits == Interrupt("failing", TRUE, commandTask = "agent")
WorkerCancels == Interrupt("closing", FALSE, commandTask = "agent")
RequesterCancels == doing = "command" /\ Interrupt("failing", FALSE, TRUE)

\* AttemptProcessor.cancel, when no agent is running, closes the environment
\* beside the call that is under way.
MonitorCloses ==
    /\ doing \in {"start", "started", "import", "idle", "export", "command"} /\ commandTask # "agent"
    /\ envState # "CLOSED" /\ cleaner = "idle"
    /\ envState' = "CLOSING" /\ cleaner' = "containers" /\ cleanErrors' = FALSE /\ monitorClose' = "begun"
    /\ UNCHANGED <<doing, envOutcome, thread, stray, threadFailed, helper, commandVars, dockerVars,
                   abandoned, late, claim>>

\* _export_failure_workspace, then _close_executor
Failing ==
    /\ doing = "failing"
    /\ IF envState = "READY" THEN Call("lateExport", ExportRequests, envState) /\ UNCHANGED helper
       ELSE Goes("closing") /\ UNCHANGED <<envState, workspace>>

-----------------------------------------------------------------------------
(* _cleanup_sync, aclose and the end of the Attempt. *)

CleanStep(at, kind, next) ==
    /\ cleaner = at /\ cleaner' = next
    /\ \/ Swept(kind) /\ UNCHANGED cleanErrors
       \/ Fault /\ cleanErrors' = TRUE /\ UNCHANGED <<there, command, workspace>>
    /\ known' = IF kind = Volumes THEN {} ELSE known
    /\ UNCHANGED <<attemptVars, commandTask, abandoned, monitorClose, late, claim>>

CleanContainers == CleanStep("containers", Containers, "network")
CleanNetwork == CleanStep("network", {"network"}, "volumes")
CleanVolumes == CleanStep("volumes", Volumes, "verify")

\* Mutant of Verify: nobody looks for leftovers
Verify_Skipped ==
    /\ cleaner = "verify" /\ cleaner' = "over"
    /\ \/ Fault /\ cleanErrors' = TRUE
       \/ UNCHANGED faults /\ cleanErrors' = cleanErrors
    /\ UNCHANGED <<attemptVars, commandVars, known, there, workspace, abandoned, monitorClose, late, claim>>

Verify ==
    /\ cleaner = "verify" /\ cleaner' = "over"
    /\ \/ Fault /\ cleanErrors' = TRUE
       \/ UNCHANGED faults /\ cleanErrors' = (cleanErrors \/ there \ {"stateDir"} # {})
    /\ UNCHANGED <<attemptVars, commandVars, known, there, workspace, abandoned, monitorClose, late, claim>>

End(result) ==
    /\ doing' = "done" /\ envOutcome' = IF late THEN "deadline" ELSE result
    /\ \/ there' = there \ {"stateDir"} /\ UNCHANGED faults
       \/ Fault /\ UNCHANGED there

ByMonitor == monitorClose = "begun"

\* Whoever waits for the cleanup learns its result; a start that failed and the
\* cleanup after a deadline only log it.
CleanReturns ==
    /\ cleaner = "over" /\ cleaner' = "idle" /\ cleanErrors' = FALSE
    /\ monitorClose' = IF ByMonitor THEN (IF cleanErrors THEN "failed" ELSE "clean") ELSE monitorClose
    /\ CASE ByMonitor -> envState' = "CLOSED" /\ UNCHANGED <<doing, envOutcome, there, faults>>
         [] ~ByMonitor /\ doing = "cleaning" ->
              doing' = "failing" /\ UNCHANGED <<envState, envOutcome, there, faults>>
         [] ~ByMonitor /\ doing = "close" ->
              envState' = "CLOSED" /\ End(IF cleanErrors THEN "cleanupFailed" ELSE "closed")
         [] OTHER -> UNCHANGED <<envState, doing, envOutcome, there, faults>>
    /\ UNCHANGED <<thread, stray, threadFailed, helper, commandVars, known, workspace,
                   abandoned, late, claim>>

BeginClose ==
    /\ doing = "closing" /\ cleaner = "idle"
    /\ IF envState = "CLOSED"
       THEN End("closed") /\ UNCHANGED <<envState, cleaner, cleanErrors>>
       ELSE /\ doing' = "close" /\ envState' = "CLOSING" /\ cleaner' = "containers" /\ cleanErrors' = FALSE
            /\ UNCHANGED <<envOutcome, there, faults>>
    /\ UNCHANGED <<thread, stray, threadFailed, helper, commandVars, known, workspace, abandoned, monitorClose, late, claim>>

\* aclose waits ten seconds; the thread goes on
CloseTimesOut ==
    /\ doing = "close" /\ cleaner # "idle" /\ ~ByMonitor
    /\ envState' = "CLOSED" /\ End("cleanupFailed")
    /\ UNCHANGED <<thread, stray, threadFailed, helper, commandVars, known, workspace, cleanVars, claim>>

\* The thirty seconds after the deadline are over before the environment is closed.
LateTimesOut ==
    /\ late /\ doing = "lateExport" /\ End("deadline")
    /\ stray' = stray \o thread /\ thread' = <<>>
    /\ UNCHANGED <<envState, threadFailed, helper, commandVars, known, workspace, cleanVars, claim>>

-----------------------------------------------------------------------------
(* The sweep for orphans: the live Attempts are read once, then directories, *)
(* containers, networks and volumes of all others are removed, round after   *)
(* round.  Only the rounds that read the Attempt as over touch it.           *)

\* Mutant of SweepKind: volumes are not looked for
SweepKind_KeepsVolumes(kind) ==
    /\ claim = "over" /\ kind # Volumes /\ there \cap kind # {} /\ Swept(kind)
    /\ UNCHANGED <<attemptVars, commandTask, known, cleanVars, claim>>

SweepKind(kind) ==
    /\ claim = "over" /\ there \cap kind # {} /\ Swept(kind)
    /\ UNCHANGED <<attemptVars, commandTask, known, cleanVars, claim>>

\* directories of the state root, and resources with the label of an Attempt
SweptKinds == {{"stateDir"}, Containers, {"network"}, Volumes}
SweepOrphans == \E kind \in SweptKinds : SweepKind(kind)

EnvironmentStep ==
    \/ Start \/ ImportWorkspace \/ HelperRequest \/ ExportFinal \/ AgentEnds
    \/ Returns \/ StartFails \/ HelperReturns \/ RestartReturns \/ Refused
    \/ RunCommand \/ CommandEnds \/ CommandFails \/ Failing \/ BeginClose
Interruption ==
    \/ LeaseLost \/ DeadlineHits \/ WorkerCancels \/ RequesterCancels \/ MonitorCloses
    \/ CloseTimesOut \/ LateTimesOut
ThreadStep ==
    \/ AwaitedThread \/ StrayThread \/ CommandCreated \/ CommandStarted
    \/ CleanContainers \/ CleanNetwork \/ CleanVolumes \/ Verify \/ CleanReturns
EnvironmentNext == EnvironmentStep \/ Interruption \/ ThreadStep \/ SweepOrphans
EnvironmentSpec ==
    /\ EnvironmentInit /\ [][EnvironmentNext]_environmentVars
    /\ WF_environmentVars(ThreadStep) /\ WF_environmentVars(SweepOrphans)

-----------------------------------------------------------------------------
Leftovers == there \ {"stateDir"}

\* When an Attempt is over without EXECUTOR_CLEANUP_FAILED, no thread was left
\* running and the monitor did not close the environment beside a call, none of
\* its Docker resources is left (_cleanup_sync).
CleanUnlessAbandoned ==
    envOutcome = "closed" /\ ~abandoned /\ monitorClose = "none" => Leftovers = {}

\* No command of an Attempt runs once its environment was closed without any
\* error, not even one whose task was left behind by a cancellation: its
\* container was swept, or can no longer start without its network.
NoCommandOutlivesTheAttempt ==
    envOutcome = "closed" /\ monitorClose # "failed" => command # "running"

\* What an Attempt leaves behind is removed by the sweep of some Worker
\* (cleanup_orphaned in the recovery loop).
LeftoversAreSwept == claim = "over" /\ doing = "done" /\ there # {} ~> there = {}

\* "unless the resources are proven to be gone the result is forced to be
\* FAILED/EXECUTOR_CLEANUP_FAILED"
\* (docs/platform/phase2-docker-execution-environment.md:60)
UncleanIsReported == envOutcome = "closed" => Leftovers = {}

\* "a networkless holder keeps the tmpfs mounted for the Attempt lifetime"
\* (docs/adr/0010-isolate-each-attempt-in-a-disposable-docker-environment.md:7)
HolderKeepsTheWorkspace ==
    envState = "READY" /\ claim = "live" /\ monitorClose = "none" => workspace # "lost"
=============================================================================
