------------------------------ MODULE AgentLoop ------------------------------
(***************************************************************************)
(* One Agent and its `run` generator (src/mewcode/agent.py): the model is  *)
(* asked, its tool calls pass the serial policy gate, are executed in      *)
(* batches and answered in the conversation, until the model stops calling *)
(* tools or a limit ends the run.  The lifecycle hooks wrap every turn and *)
(* the session; the task that consumes the generator may be cancelled at   *)
(* every await, also while a hook runs.  A conversation outlives its runs: *)
(* the terminal user interface calls `run` again with the same history.    *)
(*                                                                         *)
(* Message texts, token counts and events that change no state are left    *)
(* out.  A tool call is its kind; what the conversation remembers of it is *)
(* whether its tool_use block has a tool_result.                           *)
(***************************************************************************)
EXTENDS Naturals, Sequences, FiniteSets

CONSTANTS
    MaxIterations,      \* Agent.max_iterations, 0 when there is no limit
    MaxRuns,            \* bound: how often `run` is called on the conversation
    MaxCancels,         \* bound: cancellations of the consuming task
    Replies             \* the sequences of tool calls a model may answer with

ASSUME LoopAssumption ==
    /\ MaxIterations \in Nat /\ MaxRuns \in Nat /\ MaxCancels \in Nat
    /\ Replies \subseteq Seq({"safe", "unsafe", "unknown", "disabled", "exit_plan"})

MaxRecoveries == 3      \* MAX_OUTPUT_TOKENS_RECOVERIES

VARIABLES
    loopPc,         \* where the generator is suspended
    iteration,      \* of the current run
    reply,          \* tool calls of the response at hand
    batchAt,        \* index in `reply` of the first call of the batch at hand
    gate,           \* what the gate said of the batch's calls, in model order
    executing,      \* indices of the calls being executed
    answered,       \* tool_results collected so far for this response
    fatal,          \* a result carried fatal_error_code
    unknowns,       \* consecutive_unknown
    escalated,      \* max_tokens_escalated
    recoveries,     \* output_recoveries
    turnOpen,       \* turn_open
    sessionOpen,    \* session_open /\ ~session_closed
    ending,         \* why the run ended; "no" while it runs
    dangling,       \* tool_use blocks in the history without a tool_result
    fired,          \* completed lifecycle hooks: [name |-> count], of this run
    loopRuns, loopCancels

loopVars == <<loopPc, iteration, reply, batchAt, gate, executing, answered, fatal,
              unknowns, escalated, recoveries, turnOpen, sessionOpen, ending,
              dangling, fired, loopRuns, loopCancels>>

respVars == <<reply, batchAt, gate, executing, answered, fatal>>
hookVars == <<turnOpen, sessionOpen, fired>>
countVars == <<unknowns, escalated, recoveries>>
boundVars == <<loopRuns, loopCancels>>

LifecycleHooks == {"session_start", "turn_start", "turn_end", "session_end"}
NoHooks == [h \in LifecycleHooks |-> 0]
Fire(h) == fired' = [fired EXCEPT ![h] = @ + 1]

LoopInit ==
    /\ loopPc = "idle" /\ iteration = 0
    /\ reply = <<>> /\ batchAt = 1 /\ gate = <<>> /\ executing = {}
    /\ answered = 0 /\ fatal = FALSE
    /\ unknowns = 0 /\ escalated = FALSE /\ recoveries = 0
    /\ turnOpen = FALSE /\ sessionOpen = FALSE
    /\ ending = "no" /\ dangling = {} /\ fired = NoHooks
    /\ loopRuns = 0 /\ loopCancels = 0

-----------------------------------------------------------------------------
(* The batches of a response. *)

Safe(call) == call = "safe"

\* partition_tool_calls: the batch that starts at i.  Consecutive concurrency-
\* safe calls form one batch, every other call is a batch of its own.
BatchEnd(calls, i) ==
    IF ~Safe(calls[i]) THEN i
    ELSE CHOOSE j \in i .. Len(calls) :
            /\ \A k \in i .. j : Safe(calls[k])
            /\ j < Len(calls) => ~Safe(calls[j + 1])

Batch == batchAt .. BatchEnd(reply, batchAt)
GateAt == batchAt + Len(gate)           \* the call the gate looks at next
Authorized == {i \in Batch : gate[i - batchAt + 1] = "run"}

-----------------------------------------------------------------------------
(* The run and its hooks. *)

\* run: a fresh generator over the same conversation; session_start is awaited.
Run ==
    /\ loopPc = "idle" /\ loopRuns < MaxRuns
    /\ loopPc' = "session_start" /\ loopRuns' = loopRuns + 1
    /\ sessionOpen' = TRUE /\ turnOpen' = FALSE /\ fired' = NoHooks
    /\ iteration' = 0 /\ ending' = "no"
    /\ unknowns' = 0 /\ escalated' = FALSE /\ recoveries' = 0
    /\ UNCHANGED <<respVars, dangling, loopCancels>>

SessionStarted ==
    /\ loopPc = "session_start"
    /\ Fire("session_start") /\ loopPc' = "top"
    /\ UNCHANGED <<iteration, respVars, countVars, turnOpen, sessionOpen, ending,
                   dangling, boundVars>>

\* The head of `while True`: the limit, or _TurnStarted.  A turn that a
\* recovery left open is ended before the next one starts.
Top ==
    /\ loopPc = "top"
    /\ iteration' = iteration + 1
    /\ IF MaxIterations > 0 /\ iteration' > MaxIterations
       THEN loopPc' = "final_turn" /\ ending' = "max_iterations"
       ELSE /\ loopPc' = (IF turnOpen THEN "reopen" ELSE "turn_start")
            /\ UNCHANGED ending
    /\ UNCHANGED <<respVars, countVars, hookVars, dangling, boundVars>>

\* end_turn inside the loop: before the next turn, on TurnComplete, on
\* LoopComplete.  turn_open is cleared only after the hooks have run.
EndTurn ==
    /\ loopPc \in {"reopen", "turn_complete", "loop_complete"}
    /\ IF turnOpen THEN Fire("turn_end") /\ turnOpen' = FALSE
                   ELSE UNCHANGED <<fired, turnOpen>>
    /\ loopPc' = CASE loopPc = "reopen" -> "turn_start"
                   [] loopPc = "turn_complete" ->
                        (IF ending = "exit_plan" THEN "loop_complete" ELSE "top")
                   [] loopPc = "loop_complete" -> "session_end"
    /\ UNCHANGED <<iteration, respVars, countVars, sessionOpen, ending, dangling, boundVars>>

\* turn_open is set before the turn_start hooks are awaited.
OpenTurn ==
    /\ loopPc = "turn_start"
    /\ turnOpen' = TRUE /\ loopPc' = "turn_start_hook"
    /\ UNCHANGED <<iteration, respVars, countVars, sessionOpen, fired, ending,
                   dangling, boundVars>>

TurnStarted ==
    /\ loopPc = "turn_start_hook"
    /\ Fire("turn_start") /\ loopPc' = "prepare"
    /\ UNCHANGED <<iteration, respVars, countVars, turnOpen, sessionOpen, ending,
                   dangling, boundVars>>

\* end_session on LoopComplete.
EndSession ==
    /\ loopPc = "session_end"
    /\ Fire("session_end") /\ sessionOpen' = FALSE
    /\ loopPc' = "final_turn"
    /\ UNCHANGED <<iteration, respVars, countVars, turnOpen, ending, dangling, boundVars>>

\* The finally block of `run`: whatever is still open is closed.
FinalTurn ==
    /\ loopPc = "final_turn"
    /\ IF turnOpen THEN Fire("turn_end") /\ turnOpen' = FALSE
                   ELSE UNCHANGED <<fired, turnOpen>>
    /\ loopPc' = "final_session"
    /\ UNCHANGED <<iteration, respVars, countVars, sessionOpen, ending, dangling, boundVars>>

FinalSession ==
    /\ loopPc = "final_session"
    /\ IF sessionOpen THEN Fire("session_end") /\ sessionOpen' = FALSE
                      ELSE UNCHANGED <<fired, sessionOpen>>
    /\ loopPc' = "closed"
    /\ UNCHANGED <<iteration, respVars, countVars, turnOpen, ending, dangling, boundVars>>

\* The consumer lets go of a finished generator and may start the next run.
Release ==
    /\ loopPc = "closed"
    /\ loopPc' = "idle" /\ fired' = NoHooks
    /\ UNCHANGED <<iteration, respVars, countVars, turnOpen, sessionOpen, ending,
                   dangling, boundVars>>

-----------------------------------------------------------------------------
(* Asking the model. *)

\* Mailbox, notes, pre_send hooks, plan reminder, tool-result budget and
\* auto_compact; its failure to compact is only reported, a failure of
\* anything else is raised through the generator.
Prepare ==
    /\ loopPc = "prepare"
    /\ \/ loopPc' = "streaming" /\ UNCHANGED ending
       \/ loopPc' = "final_turn" /\ ending' = "raised"
    /\ UNCHANGED <<iteration, respVars, countVars, hookVars, dangling, boundVars>>

\* StreamCollector.consume: the response is complete, or the client raised and
\* whatever had arrived is dropped with the collector.
Stream ==
    /\ loopPc = "streaming"
    /\ \/ \E r \in Replies : reply' = r /\ loopPc' \in {"received", "cut_short"}
          /\ UNCHANGED ending
       \/ loopPc' = "final_turn" /\ ending' = "raised" /\ UNCHANGED reply
    /\ batchAt' = 1 /\ gate' = <<>> /\ executing' = {} /\ answered' = 0 /\ fatal' = FALSE
    /\ UNCHANGED <<iteration, countVars, hookVars, dangling, boundVars>>

\* stop_reason max_tokens: escalate the limit once, then ask to resume at most
\* MaxRecoveries times.  The calls of the cut response are dropped; the turn
\* stays open.  With both exhausted the response is taken as it is.
CutShort ==
    /\ loopPc = "cut_short"
    /\ \/ ~escalated /\ escalated' = TRUE /\ loopPc' = "top" /\ UNCHANGED recoveries
       \/ /\ escalated /\ recoveries < MaxRecoveries
          /\ recoveries' = recoveries + 1 /\ loopPc' = "top" /\ UNCHANGED escalated
       \/ /\ escalated /\ recoveries = MaxRecoveries
          /\ loopPc' = "take" /\ UNCHANGED <<escalated, recoveries>>
    /\ UNCHANGED <<iteration, respVars, unknowns, hookVars, ending, dangling, boundVars>>

\* Any other stop reason resets the recoveries.
Received ==
    /\ loopPc = "received"
    /\ recoveries' = 0 /\ loopPc' = "take"
    /\ UNCHANGED <<iteration, respVars, unknowns, escalated, hookVars, ending,
                   dangling, boundVars>>

\* No calls: the answer is final (memory extraction and the file snapshot are
\* started here).
FinishRun ==
    /\ loopPc = "take" /\ reply = <<>>
    /\ loopPc' = "loop_complete" /\ ending' = "complete"
    /\ UNCHANGED <<iteration, respVars, countVars, hookVars, dangling, boundVars>>

\* Calls: they enter the history before any of them is executed.
TakeCalls ==
    /\ loopPc = "take" /\ reply # <<>>
    /\ dangling' = dangling \cup {<<loopRuns, iteration, i>> : i \in 1 .. Len(reply)}
    /\ loopPc' = "gate"
    /\ UNCHANGED <<iteration, respVars, countVars, hookVars, ending, boundVars>>

-----------------------------------------------------------------------------
(* The calls of one response, batch by batch. *)

\* _prepare_tool_call: an unknown or disabled tool is answered at once; a known
\* one passes the pre_tool_use hooks, the permission check and, if that asks,
\* the user.  One call at a time, in model order.
GateCall ==
    /\ loopPc = "gate" /\ GateAt \in Batch
    /\ LET call == reply[GateAt]
       IN \E verdict \in CASE call = "unknown"  -> {"unknown"}
                           [] call = "disabled" -> {"refused"}
                           [] OTHER -> {"run", "refused"} :
            gate' = Append(gate, verdict)
    /\ UNCHANGED <<loopPc, iteration, reply, batchAt, executing, answered, fatal, countVars,
                   hookVars, ending, dangling, boundVars>>

\* The whole batch is through the gate: a concurrent batch is gathered, any
\* other is executed call by call (it has one).
Execute ==
    /\ loopPc = "gate" /\ GateAt \notin Batch
    /\ executing' = Authorized /\ loopPc' = "execute"
    /\ UNCHANGED <<iteration, reply, batchAt, gate, answered, fatal, countVars, hookVars,
                   ending, dangling, boundVars>>

\* _execute_prepared_tool never raises: an exception becomes an error result.
\* A tool of an execution environment may report a fatal error.
CallDone(i) ==
    /\ loopPc = "execute" /\ i \in executing
    /\ executing' = executing \ {i}
    /\ fatal' \in {fatal, TRUE}
    /\ UNCHANGED <<loopPc, iteration, reply, batchAt, gate, answered, countVars, hookVars,
                   ending, dangling, boundVars>>

\* Results are taken in gate order, each executed one after its post_tool_use
\* hooks; consecutive_unknown counts over batches and turns.
TakeResult ==
    /\ loopPc = "execute" /\ executing = {}
    /\ answered < BatchEnd(reply, batchAt)
    /\ answered' = answered + 1
    /\ unknowns' = IF gate[answered' - batchAt + 1] = "unknown" THEN unknowns + 1 ELSE 0
    /\ UNCHANGED <<loopPc, iteration, reply, batchAt, gate, executing, fatal, escalated,
                   recoveries, hookVars, ending, dangling, boundVars>>

\* Mutant of NextBatch: the next batch begins with the last call of this one.
NextBatch_OffByOne ==
    /\ loopPc = "execute" /\ executing = {}
    /\ answered = BatchEnd(reply, batchAt)
    /\ IF answered < Len(reply)
       THEN batchAt' = answered /\ gate' = <<>> /\ loopPc' = "gate"
       ELSE loopPc' = "answers" /\ UNCHANGED <<batchAt, gate>>
    /\ UNCHANGED <<iteration, reply, executing, answered, fatal, countVars, hookVars,
                   ending, dangling, boundVars>>

NextBatch ==
    /\ loopPc = "execute" /\ executing = {}
    /\ answered = BatchEnd(reply, batchAt)
    /\ IF answered < Len(reply)
       THEN batchAt' = answered + 1 /\ gate' = <<>> /\ loopPc' = "gate"
       ELSE loopPc' = "answers" /\ UNCHANGED <<batchAt, gate>>
    /\ UNCHANGED <<iteration, reply, executing, answered, fatal, countVars, hookVars,
                   ending, dangling, boundVars>>

ThisResponse == {<<loopRuns, iteration, i>> : i \in 1 .. Len(reply)}

\* Three unknown calls in a row end the run before the results are added.
TooManyUnknown ==
    /\ loopPc = "answers" /\ unknowns >= 3
    /\ ending' = "too_many_unknown" /\ loopPc' = "final_turn"
    /\ UNCHANGED <<iteration, respVars, countVars, hookVars, dangling, boundVars>>

\* Mutant of AddResults: a fatal error ends the run before the results are added.
AddResults_FatalFirst ==
    /\ loopPc = "answers" /\ unknowns < 3
    /\ dangling' = IF fatal THEN dangling ELSE dangling \ ThisResponse
    /\ \/ fatal /\ ending' = "fatal" /\ loopPc' = "final_turn"
       \/ ~fatal /\ loopPc' = "turn_complete"
          /\ ending' = IF \E i \in 1 .. Len(reply) : reply[i] = "exit_plan"
                       THEN "exit_plan" ELSE "no"
    /\ UNCHANGED <<iteration, respVars, countVars, hookVars, boundVars>>

\* The results are added as one message; then the fatal error, the end of plan
\* mode, or the next turn.
AddResults ==
    /\ loopPc = "answers" /\ unknowns < 3
    /\ dangling' = dangling \ ThisResponse
    /\ \/ fatal /\ ending' = "fatal" /\ loopPc' = "final_turn"
       \/ ~fatal /\ loopPc' = "turn_complete"
          /\ ending' = IF \E i \in 1 .. Len(reply) : reply[i] = "exit_plan"
                       THEN "exit_plan" ELSE "no"
    /\ UNCHANGED <<iteration, respVars, countVars, hookVars, boundVars>>

-----------------------------------------------------------------------------
(* Cancellation of the consuming task. *)

Awaiting == {"session_start", "reopen", "turn_complete", "loop_complete",
             "turn_start_hook", "prepare", "streaming", "gate", "execute", "session_end"}

\* CancelledError surfaces at the await; the finally block of `run` closes what
\* is open.  Calls being gathered are cancelled with their parent.
CancelRun ==
    /\ loopPc \in Awaiting /\ loopCancels < MaxCancels
    /\ loopCancels' = loopCancels + 1
    /\ loopPc' = "final_turn" /\ executing' = {}
    /\ ending' = "cancelled"
    /\ UNCHANGED <<iteration, reply, batchAt, gate, answered, fatal, countVars, hookVars,
                   dangling, loopRuns>>

\* A second cancellation while the finally block awaits its hooks: what
\* follows in the block is skipped.
CancelFinally ==
    /\ \/ loopPc = "final_turn" /\ turnOpen
       \/ loopPc = "final_session" /\ sessionOpen
    /\ loopCancels < MaxCancels
    /\ loopCancels' = loopCancels + 1
    /\ loopPc' = "closed" /\ ending' = "cancelled_closing"
    /\ UNCHANGED <<iteration, respVars, countVars, hookVars, dangling, loopRuns>>

LoopWorks ==
    \/ SessionStarted \/ Top \/ EndTurn \/ OpenTurn \/ TurnStarted
    \/ EndSession \/ FinalTurn \/ FinalSession
    \/ Prepare \/ Stream \/ CutShort \/ Received \/ FinishRun \/ TakeCalls
    \/ GateCall \/ Execute \/ (\E i \in 1 .. Len(reply) : CallDone(i))
    \/ TakeResult \/ NextBatch \/ TooManyUnknown \/ AddResults

LoopNext == LoopWorks \/ Run \/ Release \/ CancelRun \/ CancelFinally

\* The event loop runs the task, the model, the hooks and the tools answer, and
\* run_to_completion answers every PermissionRequest itself.
LoopFairness == WF_loopVars(LoopWorks)
LoopSpec == LoopInit /\ [][LoopNext]_loopVars /\ LoopFairness

-----------------------------------------------------------------------------
(* Properties. *)

LoopTypeOK ==
    /\ iteration \in Nat /\ unknowns \in Nat /\ recoveries \in 0 .. MaxRecoveries
    /\ gate \in Seq({"run", "refused", "unknown"})
    /\ executing \subseteq 1 .. Len(reply) /\ answered \in 0 .. Len(reply)
    /\ turnOpen \in BOOLEAN /\ sessionOpen \in BOOLEAN /\ fired \in [LifecycleHooks -> Nat]

\* "Run the canonical Agent loop with symmetric lifecycle hooks": however a run
\* ends - done, at a limit, by an error, cancelled at any await, even while a
\* hook ran - every turn and the session that were opened have had their
\* closing hooks, once; only a cancellation of the finally block itself
\* may leave them out.
HooksBalanced ==
    loopPc = "closed" /\ ending # "cancelled_closing" =>
        /\ fired["session_end"] = 1
        /\ fired["turn_end"] - fired["turn_start"] \in
              IF ending = "cancelled" THEN {0, 1} ELSE {0}

\* A tool that is not concurrency-safe never runs beside another one, and no
\* call is put to the policy gate while another executes: what the gate decided
\* of a call is decided in the state the earlier calls left.
UnsafeRunsAlone ==
    /\ \A i \in executing : reply[i] # "safe" => executing = {i}
    /\ executing # {} =>
         /\ loopPc = "execute"
         /\ \A i \in 1 .. Len(reply) : reply[i] # "safe" /\ i < batchAt => i <= answered

\* Whatever is sent to the model has a tool_result for every tool_use, unless an
\* earlier run on the conversation was cancelled or stopped at three unknown
\* tools: those runs leave calls without an answer for good.
PairedUnlessCut ==
    loopPc \in {"streaming", "closed"} =>
        \A d \in dangling : d[1] < loopRuns \/ ending \in {"cancelled", "cancelled_closing", "too_many_unknown"}

\* With a limit on iterations every run ends, whatever the model answers.
RunEnds == (loopPc = "session_start") ~> (loopPc = "closed")
=============================================================================
