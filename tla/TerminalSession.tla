--------------------------- MODULE TerminalSession ---------------------------
(***************************************************************************)
(* The terminal user interface (app.py) around runs of the agent: messages *)
(* that are typed, Escape and Ctrl-C, permission and plan dialogs, the     *)
(* AskUserQuestion tool, the wait for MCP servers, and the runs that       *)
(* finished background tasks and mail start by themselves.                 *)
(*                                                                         *)
(* Each run is an asyncio task that executes _send_message; a step is what *)
(* a task does between two awaits.  The App handles one user event at a    *)
(* time: while it waits for an interrupted run, it handles no other.       *)
(***************************************************************************)
EXTENDS Naturals, FiniteSets

CONSTANTS
    MaxRuns,        \* bound: runs started
    MaxNews         \* bound: background tasks that end, and mails, together

ASSUME TerminalAssumption == MaxRuns \in Nat /\ MaxNews \in Nat

Runs == 1..MaxRuns
NoRun == 0

VARIABLES
    runAt,          \* run -> where _send_message is
    cancelled,      \* runs whose task was cancelled
    agentTask,      \* _agent_task, NoRun for None
    streaming,      \* _streaming
    mcp,            \* _mcp_init_task: "connecting", "done" or "cancelled"
    submitWaits,    \* the run for which on_chat_input_submitted waits
    dialog,         \* the run whose permission dialog is on the screen
    planDialog,     \* the plan dialog is on the screen
    inputOn,        \* the input is not disabled
    ended,          \* background tasks that ended and were not reported
    mail,           \* the lead has mail
    news,           \* how much of both there has been
    onScreen,          \* runs whose question is on the screen
    unseen,         \* ghost: a question timed out that was never shown
    crashed,        \* an exception ended the App
    disturbed       \* ghost: "overlap" after what lets runs overlap, "escape", "none"

runVars == <<runAt, cancelled, agentTask, streaming, mcp>>
screenVars == <<submitWaits, dialog, planDialog, inputOn, onScreen, unseen, crashed>>
newsVars == <<ended, mail, news>>
terminalVars == <<runVars, screenVars, newsVars, disturbed>>

TerminalInit ==
    /\ runAt = [r \in Runs |-> "free"] /\ cancelled = {} /\ agentTask = NoRun
    /\ streaming = FALSE /\ mcp \in {"connecting", "done"}
    /\ submitWaits = NoRun /\ dialog = NoRun /\ planDialog = FALSE /\ inputOn = TRUE
    /\ ended = 0 /\ mail = FALSE /\ news = 0
    /\ onScreen = {} /\ unseen = FALSE /\ crashed = FALSE /\ disturbed = "none"

FreeRuns == {r \in Runs : runAt[r] = "free"}
FreeRun == CHOOSE r \in FreeRuns : \A q \in FreeRuns : r <= q
Alive(r) == r # NoRun /\ runAt[r] \notin {"free", "over"}
Working == {r \in Runs : runAt[r] \in {"mounts", "works", "asks", "question", "unwinds"}}

\* _agent_task = asyncio.create_task(self._send_message(..))
Starts(p) == FreeRuns # {} /\ runAt' = [p EXCEPT ![FreeRun] = "created"] /\ agentTask' = FreeRun

\* send_user_message does nothing during a run
SendUserMessage == IF streaming THEN UNCHANGED <<runAt, agentTask>> ELSE Starts(runAt)

FinishStreaming == streaming' = FALSE
PlanShown == planDialog' = TRUE /\ inputOn' = FALSE

-----------------------------------------------------------------------------
(* _send_message. *)

\* up to the wait for MCP, or to the mounting of the rows for message and answer
Begin(r) ==
    /\ runAt[r] = "created"
    /\ IF mcp = "connecting"
       THEN /\ runAt' = [runAt EXCEPT ![r] = "mcp"] /\ disturbed' = "overlap"
            /\ UNCHANGED streaming
       ELSE runAt' = [runAt EXCEPT ![r] = "mounts"] /\ streaming' = TRUE /\ UNCHANGED disturbed
    /\ UNCHANGED <<cancelled, agentTask, mcp, screenVars, newsVars>>

\* runtime.start returns; the runs that wait go on.  Cancelling such a run cancels
\* the task that it waits for, and with it every other run that waits.
Connected ==
    /\ mcp = "connecting" /\ mcp' = "done"
    /\ UNCHANGED <<runAt, cancelled, agentTask, streaming, screenVars, newsVars, disturbed>>
AfterMcp(r) ==
    /\ runAt[r] = "mcp"
    /\ \/ /\ mcp = "done" /\ r \notin cancelled
          /\ runAt' = [runAt EXCEPT ![r] = "mounts"] /\ streaming' = TRUE /\ UNCHANGED mcp
       \/ /\ mcp = "cancelled" \/ r \in cancelled
          /\ runAt' = [runAt EXCEPT ![r] = "over"]
          /\ mcp' = IF mcp = "connecting" THEN "cancelled" ELSE mcp
          /\ UNCHANGED streaming
    /\ UNCHANGED <<cancelled, agentTask, screenVars, newsVars, disturbed>>

\* The awaits before the try: a run cancelled at one of them ends without the
\* finally, and _streaming and _agent_task stay as they are.
Mounted(r) ==
    /\ runAt[r] = "mounts"
    /\ runAt' = [runAt EXCEPT ![r] = IF r \in cancelled THEN "over" ELSE "works"]
    /\ UNCHANGED <<cancelled, agentTask, streaming, mcp, screenVars, newsVars, disturbed>>

\* PermissionRequest: a second dialog has the id of the one on the screen, and
\* mounting it raises.
AskPermission(r) ==
    /\ runAt[r] = "works" /\ r \notin cancelled
    /\ dialog' = r
    /\ IF dialog = NoRun
       THEN runAt' = [runAt EXCEPT ![r] = "asks"] /\ inputOn' = FALSE
       ELSE runAt' = [runAt EXCEPT ![r] = "unwinds"] /\ UNCHANGED inputOn
    /\ UNCHANGED <<cancelled, agentTask, streaming, mcp, submitWaits, planDialog, onScreen, unseen,
                   crashed, newsVars, disturbed>>

\* AskUserQuestion executes: it sets _pending_event and waits, 300 s at most.
Question(r) ==
    /\ runAt[r] = "works" /\ r \notin cancelled
    /\ runAt' = [runAt EXCEPT ![r] = "question"]
    /\ UNCHANGED <<cancelled, agentTask, streaming, mcp, screenVars, newsVars, disturbed>>
QuestionTimesOut(r) ==
    /\ runAt[r] = "question" /\ r \notin cancelled
    /\ runAt' = [runAt EXCEPT ![r] = "works"]
    /\ unseen' = (unseen \/ r \notin onScreen)
    /\ UNCHANGED <<cancelled, agentTask, streaming, mcp, submitWaits, dialog, planDialog, inputOn,
                   onScreen, crashed, newsVars, disturbed>>

\* ToolResultEvent, for the tool results of a batch: now the screen looks for a question.
ToolResult(r) ==
    /\ runAt[r] = "works" /\ r \notin cancelled
    /\ LET asking == {q \in Runs : runAt[q] = "question"}
       IN  /\ asking # {}
           /\ onScreen' = onScreen \cup asking /\ inputOn' = FALSE
    /\ UNCHANGED <<runVars, submitWaits, dialog, planDialog, unseen, crashed, newsVars, disturbed>>

\* LoopComplete, an error or a cancellation: the hooks of turn and session run.
Leave(r) ==
    /\ \/ runAt[r] = "works" /\ r \notin cancelled /\ PlanShown
       \/ runAt[r] = "works" /\ r \notin cancelled /\ UNCHANGED <<planDialog, inputOn>>
       \/ /\ runAt[r] \in {"works", "asks", "question"} /\ r \in cancelled
          /\ UNCHANGED <<planDialog, inputOn>>
    /\ runAt' = [runAt EXCEPT ![r] = "unwinds"]
    /\ UNCHANGED <<cancelled, agentTask, streaming, mcp, submitWaits, dialog, onScreen, unseen,
                   crashed, newsVars, disturbed>>

\* finally: _finish_streaming, then a run for the background tasks that ended
Unwound(r) ==
    /\ runAt[r] = "unwinds" /\ FinishStreaming
    /\ LET over == [runAt EXCEPT ![r] = "over"]
       IN  IF ended > 0 THEN Starts(over) /\ ended' = 0 /\ disturbed' = "overlap"
           ELSE runAt' = over /\ agentTask' = NoRun /\ UNCHANGED <<ended, disturbed>>
    /\ UNCHANGED <<cancelled, mcp, screenVars, mail, news>>

-----------------------------------------------------------------------------
(* The user. *)

\* a run that was created begins before the next event of a user
Listens == submitWaits = NoRun /\ ~crashed /\ \A r \in Runs : runAt[r] # "created"

\* Mutant of Submit: the interrupted run is not waited for
Submit_NoWait ==
    /\ Listens /\ inputOn
    /\ IF streaming /\ Alive(agentTask)
       THEN /\ cancelled' = cancelled \cup {agentTask} /\ submitWaits' = NoRun
            /\ streaming' = FALSE /\ Starts(runAt)
       ELSE FinishStreaming /\ Starts(runAt) /\ UNCHANGED <<cancelled, submitWaits>>
    /\ UNCHANGED <<mcp, dialog, planDialog, inputOn, onScreen, unseen, crashed, newsVars, disturbed>>

\* on_chat_input_submitted: a message typed during a run interrupts it.
Submit ==
    /\ Listens /\ inputOn
    /\ IF streaming /\ Alive(agentTask)
       THEN /\ cancelled' = cancelled \cup {agentTask} /\ submitWaits' = agentTask
            /\ UNCHANGED <<streaming, runAt, agentTask>>
       ELSE FinishStreaming /\ Starts(runAt) /\ UNCHANGED <<cancelled, submitWaits>>
    /\ UNCHANGED <<mcp, dialog, planDialog, inputOn, onScreen, unseen, crashed, newsVars, disturbed>>
SubmitGoesOn ==
    /\ submitWaits # NoRun /\ ~Alive(submitWaits)
    /\ submitWaits' = NoRun /\ FinishStreaming /\ Starts(runAt)
    /\ UNCHANGED <<cancelled, mcp, dialog, planDialog, inputOn, onScreen, unseen, crashed, newsVars, disturbed>>

\* action_cancel, the App's binding, which comes before one of a dialog
Escape ==
    /\ Listens /\ Alive(agentTask) /\ agentTask \notin cancelled
    /\ cancelled' = cancelled \cup {agentTask}
    /\ disturbed' = IF disturbed = "none" THEN "escape" ELSE disturbed
    /\ UNCHANGED <<runAt, agentTask, streaming, mcp, screenVars, newsVars>>

\* action_handle_ctrl_c, during a run: it is cancelled and not waited for.  (At
\* rest, Ctrl-C ends the App.)
CtrlC ==
    /\ Listens /\ streaming
    /\ cancelled' = IF Alive(agentTask) THEN cancelled \cup {agentTask} ELSE cancelled
    /\ FinishStreaming /\ agentTask' = NoRun /\ inputOn' = TRUE
    /\ disturbed' = "overlap"
    /\ UNCHANGED <<runAt, mcp, submitWaits, dialog, planDialog, onScreen, unseen, crashed, newsVars>>

\* on_inline_permission_widget_responded: the result of a cancelled future cannot
\* be set.
AnswerDialog ==
    /\ Listens /\ dialog # NoRun
    /\ IF dialog \in cancelled THEN crashed' = TRUE /\ UNCHANGED <<runAt, dialog, inputOn>>
       ELSE /\ dialog' = NoRun /\ inputOn' = TRUE /\ UNCHANGED crashed
            /\ runAt' = [runAt EXCEPT ![dialog] = IF @ = "asks" THEN "works" ELSE @]
    /\ UNCHANGED <<cancelled, agentTask, streaming, mcp, submitWaits, planDialog, onScreen, unseen,
                   newsVars, disturbed>>

AnswerQuestion(r) ==
    /\ Listens /\ r \in onScreen /\ onScreen' = onScreen \ {r} /\ inputOn' = TRUE
    /\ runAt' = [runAt EXCEPT ![r] = IF @ = "question" /\ r \notin cancelled THEN "works" ELSE @]
    /\ UNCHANGED <<cancelled, agentTask, streaming, mcp, submitWaits, dialog, planDialog, unseen,
                   crashed, newsVars, disturbed>>

\* on_inline_plan_widget_responded: the plan is sent to the agent
AnswerPlan ==
    /\ Listens /\ planDialog /\ planDialog' = FALSE /\ inputOn' = TRUE
    /\ SendUserMessage
    /\ UNCHANGED <<cancelled, streaming, mcp, submitWaits, dialog, onScreen, unseen, crashed, newsVars, disturbed>>

-----------------------------------------------------------------------------
(* Background tasks and mail. *)

\* a background task ends, or a teammate writes to the lead
TaskEnds ==
    /\ news < MaxNews /\ news' = news + 1 /\ ended' = ended + 1
    /\ UNCHANGED <<runVars, screenVars, mail, disturbed>>
MailComes ==
    /\ news < MaxNews /\ news' = news + 1 /\ mail' = TRUE
    /\ UNCHANGED <<runVars, screenVars, ended, disturbed>>

\* _start_notification_polling, every two seconds: a run for the tasks, and one
\* for the mail, since the first has not begun
Poll ==
    /\ ~streaming /\ ~crashed /\ (ended > 0 \/ mail)
    /\ LET runs == (IF ended > 0 THEN 1 ELSE 0) + (IF mail THEN 1 ELSE 0)
       IN  /\ Cardinality(FreeRuns) >= runs
           /\ runAt' = [r \in Runs |-> IF r \in FreeRuns /\ r < FreeRun + runs THEN "created" ELSE runAt[r]]
           /\ agentTask' = FreeRun + runs - 1
    /\ ended' = 0 /\ mail' = FALSE /\ disturbed' = "overlap"
    /\ UNCHANGED <<cancelled, streaming, mcp, screenVars, news>>

TerminalNext ==
    \/ \E r \in Runs :
          \/ Begin(r) \/ AfterMcp(r) \/ Mounted(r) \/ AskPermission(r) \/ Question(r) \/ QuestionTimesOut(r)
          \/ ToolResult(r) \/ Leave(r) \/ Unwound(r) \/ AnswerQuestion(r)
    \/ Connected \/ Submit \/ SubmitGoesOn \/ Escape \/ CtrlC \/ AnswerDialog \/ AnswerPlan
    \/ TaskEnds \/ MailComes \/ Poll
TerminalSpec == TerminalInit /\ [][TerminalNext]_terminalVars

-----------------------------------------------------------------------------
\* Unless runs were waiting for MCP, Ctrl-C or Escape interrupted one, or news
\* started some: at most one run works on the conversation, it is the one that
\* the user can interrupt, and a dialog on the screen is answered to the run that
\* asked (_agent_task and _streaming, which every entry point consults).
RunIsInHand ==
    disturbed # "overlap" =>
        /\ Cardinality(Working) <= 1
        /\ \A r \in Working : runAt[r] # "unwinds" => streaming /\ agentTask = r
        /\ dialog # NoRun /\ disturbed = "none" => runAt[dialog] = "asks"

\* "User did not respond within 5 minutes" (tools/ask_user.py:68): the question
\* was on the screen.
QuestionWasShown == ~unseen
=============================================================================
