----------------------------- MODULE AgentTeam -----------------------------
(***************************************************************************)
(* A lead and its in-process teammates: spawning (tools/agent_tool.py),    *)
(* the background task each runs in (agents/task_manager.py), mail between *)
(* them (tools/send_message.py, Agent._consume_mailbox), the notice that a *)
(* task has ended (app.py), and deletion of the team (teams/manager.py).   *)
(*                                                                         *)
(* Everything runs in one event loop, so a step is the code between two    *)
(* awaits.  A message is only counted.  LeadInbox is the inbox named by    *)
(* the lead's agent id, which the lead drains; "lead" is an inbox of its   *)
(* own, to which TaskManager writes.                                       *)
(***************************************************************************)
EXTENDS Naturals, FiniteSets

CONSTANTS
    Members,        \* teammates that may be spawned
    LeadInbox,
    MaxPolls,       \* 60 in the code: seconds of waiting for a follow-up
    MaxTeamMail     \* bound: messages sent

ASSUME TeamAssumption == LeadInbox \notin Members /\ MaxPolls \in Nat \ {0}

Boxes == Members \cup {LeadInbox, "lead"}

VARIABLES
    interactive,    \* the terminal interface, or `-p`
    team,           \* "none", "live", "deleted"
    memberPc,       \* "absent", "turn", "waiting", "ended"
    firstTurn,      \* the turn is the one the teammate was spawned for
    polls,
    taskStatus,     \* BackgroundTask.status
    memberActive,   \* TeammateInfo.is_active
    box,            \* unread messages
    worktrees,      \* members whose worktree exists
    notifyQueue,    \* TaskManager._notify_queue
    leadBusy,       \* App._streaming
    quitting,
    teamMail        \* messages sent

memberVars == <<memberPc, firstTurn, polls, taskStatus>>
rosterVars == <<team, memberActive, worktrees, quitting>>
teamVars == <<interactive, memberVars, rosterVars, box, notifyQueue, leadBusy, teamMail>>

TeamInit ==
    /\ interactive \in BOOLEAN
    /\ team = "none" /\ memberPc = [m \in Members |-> "absent"]
    /\ firstTurn = [m \in Members |-> FALSE] /\ polls = [m \in Members |-> 0]
    /\ taskStatus = [m \in Members |-> "none"] /\ memberActive = [m \in Members |-> FALSE]
    /\ box = [b \in Boxes |-> 0] /\ worktrees = {} /\ notifyQueue = {}
    /\ leadBusy = FALSE /\ quitting = FALSE /\ teamMail = 0

Registered == IF team = "live" THEN {m \in Members : memberPc[m] # "absent"} ELSE {}
DeliverNotes(b) == [box EXCEPT ![b] = @ + 1]

-----------------------------------------------------------------------------
(* The lead. *)

\* A user message starts a run of the lead.
LeadStarts ==
    /\ ~leadBusy /\ ~quitting
    /\ leadBusy' = TRUE
    /\ UNCHANGED <<interactive, memberVars, rosterVars, box, notifyQueue, teamMail>>

TeamCreate ==
    /\ leadBusy /\ ~quitting /\ team = "none"
    /\ team' = "live"
    /\ UNCHANGED <<interactive, memberVars, memberActive, worktrees, quitting, box, notifyQueue,
                   leadBusy, teamMail>>

\* AgentTool._execute_as_teammate: a worktree, the name, the member, and a task
\* that starts at the next await.
Spawn(m) ==
    /\ leadBusy /\ ~quitting /\ team = "live" /\ memberPc[m] = "absent"
    /\ worktrees' = worktrees \cup {m}
    /\ memberActive' = [memberActive EXCEPT ![m] = TRUE]
    /\ memberPc' = [memberPc EXCEPT ![m] = "turn"]
    /\ firstTurn' = [firstTurn EXCEPT ![m] = TRUE]
    /\ taskStatus' = [taskStatus EXCEPT ![m] = "running"]
    /\ UNCHANGED <<interactive, polls, team, quitting, box, notifyQueue, leadBusy, teamMail>>

\* TeamDelete, refused while a member is not marked idle.
TeamDelete ==
    /\ leadBusy /\ ~quitting /\ team = "live"
    /\ \A m \in Registered : ~memberActive[m]
    /\ team' = "deleted" /\ worktrees' = {}
    /\ box' = [b \in Boxes |-> 0]
    /\ UNCHANGED <<interactive, memberVars, memberActive, quitting, notifyQueue, leadBusy, teamMail>>

\* The lead's mail is drained at the head of a turn, or by the poll when idle.
DrainLead ==
    /\ box[LeadInbox] > 0 /\ ~quitting
    /\ box' = [box EXCEPT ![LeadInbox] = 0] /\ leadBusy' = TRUE
    /\ UNCHANGED <<interactive, memberVars, rosterVars, notifyQueue, teamMail>>

\* poll_completed, and for each ended task on_teammate_completed, which marks
\* the member idle and writes to the lead.  `-p` only polls.
Noticed(completed) ==
    /\ notifyQueue' = {}
    /\ memberActive' = [m \in Members |->
            memberActive[m] /\ ~(interactive /\ m \in completed /\ team = "live")]
    /\ box' = [box EXCEPT ![LeadInbox] =
            @ + IF interactive /\ team = "live" THEN Cardinality(completed) ELSE 0]

\* A run of the lead ends; _process_task_notifications starts the next one if
\* tasks have ended.
LeadEnds ==
    /\ leadBusy /\ ~quitting
    /\ leadBusy' = (interactive /\ notifyQueue # {})
    /\ IF interactive THEN Noticed(notifyQueue) ELSE UNCHANGED <<notifyQueue, memberActive, box>>
    /\ UNCHANGED <<interactive, memberVars, team, worktrees, quitting, teamMail>>

\* The poll every two seconds while the lead is idle.
PollNotices ==
    /\ ~leadBusy /\ ~quitting /\ notifyQueue # {}
    /\ Noticed(notifyQueue) /\ leadBusy' = TRUE
    /\ UNCHANGED <<interactive, memberVars, team, worktrees, quitting, teamMail>>

\* Leaving the interface marks all members idle and deletes the team.
Quit ==
    /\ ~leadBusy /\ ~quitting /\ interactive /\ team = "live"
    /\ quitting' = TRUE /\ team' = "deleted" /\ worktrees' = {}
    /\ memberActive' = [m \in Members |-> FALSE] /\ box' = [b \in Boxes |-> 0]
    /\ UNCHANGED <<interactive, memberVars, notifyQueue, leadBusy, teamMail>>

-----------------------------------------------------------------------------
(* A teammate's background task. *)

\* SendMessage by a teammate: to a registered name, or to all with "*".  The
\* lead is in no registry; only "*" reaches it.
SendMessage(m) ==
    /\ memberPc[m] = "turn" /\ team = "live" /\ teamMail < MaxTeamMail
    /\ teamMail' = teamMail + 1
    /\ \/ \E to \in Registered : box' = DeliverNotes(to)
       \/ box' = [b \in Boxes |-> box[b] + IF b \in (Registered \cup {LeadInbox}) \ {m} THEN 1 ELSE 0]
    /\ UNCHANGED <<interactive, memberVars, rosterVars, notifyQueue, leadBusy>>

\* Agent._consume_mailbox at the head of every turn of a run.
ReadMail(m) ==
    /\ memberPc[m] = "turn" /\ box[m] > 0
    /\ box' = [box EXCEPT ![m] = 0]
    /\ UNCHANGED <<interactive, memberVars, rosterVars, notifyQueue, leadBusy, teamMail>>

\* The finally block of _run_background.
Ends(m) ==
    /\ memberPc' = [memberPc EXCEPT ![m] = "ended"]
    /\ notifyQueue' = notifyQueue \cup {m}

\* Mutant of TurnDone: the end is announced when the first turn is complete
TurnDone_Announced(m) ==
    /\ memberPc[m] = "turn"
    /\ taskStatus' = [taskStatus EXCEPT ![m] = "completed"]
    /\ firstTurn' = [firstTurn EXCEPT ![m] = FALSE]
    /\ memberPc' = [memberPc EXCEPT ![m] = "waiting"] /\ box' = DeliverNotes("lead")
    /\ notifyQueue' = notifyQueue \cup {m}
    /\ UNCHANGED <<interactive, polls, rosterVars, leadBusy, teamMail>>

\* A run is complete.  The status is set after the first; the note goes to
\* "lead"; then the task waits, unless the waits are used up.
TurnDone(m) ==
    /\ memberPc[m] = "turn"
    /\ taskStatus' = IF firstTurn[m] THEN [taskStatus EXCEPT ![m] = "completed"] ELSE taskStatus
    /\ firstTurn' = [firstTurn EXCEPT ![m] = FALSE]
    /\ IF team = "live" THEN box' = DeliverNotes("lead") ELSE UNCHANGED box
    /\ IF team = "live" /\ polls[m] < MaxPolls
       THEN memberPc' = [memberPc EXCEPT ![m] = "waiting"] /\ UNCHANGED notifyQueue
       ELSE Ends(m)
    /\ UNCHANGED <<interactive, polls, rosterVars, leadBusy, teamMail>>

\* An exception in any run ends the task.
TurnFails(m) ==
    /\ memberPc[m] = "turn"
    /\ taskStatus' = [taskStatus EXCEPT ![m] = "failed"]
    /\ Ends(m)
    /\ UNCHANGED <<interactive, firstTurn, polls, rosterVars, box, leadBusy, teamMail>>

\* One second later: follow-up mail starts a run with a new conversation;
\* without it the loop goes on, and after the last wait the task ends.
PollMail(m) ==
    /\ memberPc[m] = "waiting"
    /\ polls' = [polls EXCEPT ![m] = @ + 1]
    /\ IF box[m] > 0
       THEN /\ memberPc' = [memberPc EXCEPT ![m] = "turn"]
            /\ box' = [box EXCEPT ![m] = 0] /\ UNCHANGED notifyQueue
       ELSE /\ UNCHANGED box
            /\ IF polls'[m] < MaxPolls THEN UNCHANGED <<memberPc, notifyQueue>> ELSE Ends(m)
    /\ UNCHANGED <<interactive, firstTurn, taskStatus, rosterVars, leadBusy, teamMail>>

\* `/tasks cancel` reaches a task only while its status is "running".
CancelTask(m) ==
    /\ memberPc[m] \in {"turn", "waiting"} /\ taskStatus[m] = "running" /\ interactive
    /\ taskStatus' = [taskStatus EXCEPT ![m] = "cancelled"]
    /\ Ends(m)
    /\ UNCHANGED <<interactive, firstTurn, polls, rosterVars, box, leadBusy, teamMail>>

-----------------------------------------------------------------------------
TeammateStep(m) == TurnDone(m) \/ TurnFails(m) \/ PollMail(m)
LeadStep == DrainLead \/ LeadEnds \/ PollNotices
TeamNext ==
    \/ LeadStarts \/ TeamCreate \/ TeamDelete \/ Quit \/ LeadStep
    \/ \E m \in Members : \/ Spawn(m) \/ SendMessage(m) \/ ReadMail(m) \/ CancelTask(m)
                          \/ TeammateStep(m)

\* Runs of agents return or raise (their iterations are bounded), sleeps
\* expire and the application polls until it quits.
TeamFairness ==
    /\ \A m \in Members : WF_teamVars(TeammateStep(m))
    /\ WF_teamVars(LeadEnds) /\ WF_teamVars(PollNotices) /\ WF_teamVars(DrainLead)
TeamSpec == TeamInit /\ [][TeamNext]_teamVars /\ TeamFairness

-----------------------------------------------------------------------------
\* No teammate works in a worktree that was removed: while the team exists a
\* member keeps its worktree until its task has ended, because TeamDelete waits
\* for on_teammate_completed and that for the end of the follow-up loop.
NoTeardownUnderWork ==
    ~quitting => \A m \in Members : memberPc[m] \in {"turn", "waiting"} => m \in worktrees

\* In the terminal interface every teammate whose task has ended is marked
\* idle, so that the team can be deleted, or the team is gone.
EndedBecomesIdle ==
    \A m \in Members :
        (interactive /\ memberPc[m] = "ended") ~> (~memberActive[m] \/ quitting)

\* A teammate that completed its task, is marked idle and has mail reads it, or
\* the team is deleted: "Sending a message to an idle teammate wakes them up" (description
\* of TeamCreate).
IdleTeammateWakes ==
    \A m \in Members :
        (team = "live" /\ taskStatus[m] = "completed" /\ ~memberActive[m] /\ box[m] > 0)
            ~> (box[m] = 0)
=============================================================================
