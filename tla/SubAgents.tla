------------------------------ MODULE SubAgents ------------------------------
(***************************************************************************)
(* Sub-agents: which of its three ways a call of the Agent tool takes      *)
(* (tools/agent_tool.py), the tools each of them gets                      *)
(* (agents/tool_filter.py), whether it knows the dialogue (agents/fork.py),*)
(* its node in the trace (agents/trace.py), and coordinator mode, in which *)
(* the main agent has fewer tools while there are teams                    *)
(* (tools/team_create.py, team_delete.py).                                 *)
(*                                                                         *)
(* A tool stands for those that the filters treat alike: "Ask" for what no *)
(* sub-agent gets, "Bash" for what background tasks get, "Team" for        *)
(* TeamCreate and TeamDelete, "Send" for a team's, "Edit" for what a       *)
(* coordinator has not.  0 is the main agent, and every copy of the Agent  *)
(* tool has it as _parent_agent.                                           *)
(***************************************************************************)
EXTENDS Naturals, FiniteSets

CONSTANTS
    MaxAgents,      \* bound: sub-agents started
    TeamNames,      \* names of teams
    Definitions,    \* agent definitions: their lists of tools, and background
    EnableFork,     \* enable_fork of the configuration
    Coordinator     \* enable_coordinator_mode

ASSUME SubAgentAssumption ==
    MaxAgents \in Nat /\ EnableFork \in BOOLEAN /\ Coordinator \in BOOLEAN

AllTools == {"Agent", "Ask", "Bash", "Edit", "Team", "Send", "mcp"}
Forbidden == {"Agent", "Ask"}
BackgroundTools == {"Bash", "Edit"}
CoordinatorTools == {"Agent", "Bash", "Team", "Send", "mcp"}

Subs == 1..MaxAgents
Everyone == 0..MaxAgents

VARIABLES
    kind,           \* "free", "main", "defined", "fork", "worktree" or "teammate"
    tools,          \* of a sub-agent, those it was given
    marked,         \* agents whose Agent tool has query_source "fork"
    dialogue,       \* it began with the dialogue of the main agent
    ground,         \* "fore": its caller waits for it; "back"
    caller,         \* ghost: who called the Agent tool
    askedType,      \* ghost: subagent_type of that call: "none", "empty" or "named"
    status,         \* "free", "running", "completed", "failed" or "cancelled"
    node,           \* TraceNode.status
    teams,          \* the teams that there are
    registry,       \* the tools of the main agent
    snapshot,       \* _full_registry, {} for None
    coordinating    \* coordinator_mode

agentVars == <<kind, tools, marked, dialogue, ground, caller, askedType, status, node>>
treeTeamVars == <<teams, registry, snapshot, coordinating>>
subVars == <<agentVars, treeTeamVars>>

SubInit ==
    /\ kind = [a \in Everyone |-> IF a = 0 THEN "main" ELSE "free"]
    /\ tools = [a \in Everyone |-> {}] /\ marked = {}
    /\ dialogue = [a \in Everyone |-> a = 0] /\ ground = [a \in Everyone |-> "back"]
    /\ caller = [a \in Everyone |-> 0] /\ askedType = [a \in Everyone |-> "none"]
    /\ status = [a \in Everyone |-> IF a = 0 THEN "running" ELSE "free"]
    /\ node = [a \in Everyone |-> "none"]
    /\ teams = {} /\ registry = AllTools /\ snapshot = {} /\ coordinating = FALSE

-----------------------------------------------------------------------------
(* The tools of a sub-agent. *)

\* what the tools of a sub-agent are taken from
Base == IF snapshot # {} THEN snapshot ELSE registry

\* the lists of a definition; an empty one of allowed tools is no list
ByDefinition(set, d) ==
    {t \in set \ d.disallowed : d.tools = {} \/ t \in d.tools}

\* resolve_agent_tools: MCP tools always; the rest layer by layer
ResolvedTools(d, background) ==
    LET own == Base \ ({"mcp"} \cup Forbidden)
    IN  (Base \cap {"mcp"})
            \cup ByDefinition(IF background THEN own \cap BackgroundTools ELSE own, d)

\* build_teammate_tools, in process: those of a background task, and always the team's
TeammateTools(d) == ByDefinition(Base \cap BackgroundTools, d) \cup {"Send"}

\* Mutant of ForkMarks: the copy of the Agent tool is not marked
ForkMarks_Not == FALSE

\* clone_registry_for_fork: every tool, and a mark on the Agent tool
ForkMarks == TRUE

\* apply_coordinator_filter
Narrowed(set) == set \cap CoordinatorTools

\* AgentDef of a fork, or of an agent for a worktree or a team without a type
Plain == [tools |-> {}, disallowed |-> {}, background |-> FALSE]

\* build_forked_messages: not from a dialogue that is a fork's; the main agent's is not
MayForkDialogue == EnableFork /\ dialogue[0]

-----------------------------------------------------------------------------
(* The Agent tool. *)

\* The caller is at work, and not waiting for a sub-agent in the foreground.
Holds(a, t) == t \in IF a = 0 THEN registry ELSE tools[a]
Calling(a) ==
    /\ status[a] = "running" /\ Holds(a, "Agent")
    /\ \A b \in Subs : status[b] = "running" /\ caller[b] = a => ground[b] = "back"

\* the agent object, its trace node and, in the background, its task
Launch(a, k, itsTools, withDialogue, where, type) ==
    /\ \E b \in Subs : kind[b] = "free"
    /\ LET new == CHOOSE b \in Subs : kind[b] = "free" /\ \A c \in Subs : kind[c] = "free" => b <= c
       IN  /\ kind' = [kind EXCEPT ![new] = k] /\ tools' = [tools EXCEPT ![new] = itsTools]
           /\ marked' = IF k = "fork" /\ withDialogue /\ ForkMarks THEN marked \cup {new} ELSE marked
           /\ dialogue' = [dialogue EXCEPT ![new] = withDialogue]
           /\ ground' = [ground EXCEPT ![new] = where] /\ caller' = [caller EXCEPT ![new] = a]
           /\ askedType' = [askedType EXCEPT ![new] = type]
           /\ status' = [status EXCEPT ![new] = "running"] /\ node' = [node EXCEPT ![new] = "running"]
    /\ UNCHANGED treeTeamVars

\* with a subagent_type: the definition's tools, and a dialogue of its own
CallDefined(a, d, background) ==
    LET back == background \/ d.background
    IN  /\ Calling(a)
        /\ Launch(a, "defined", ResolvedTools(d, back), FALSE, IF back THEN "back" ELSE "fore", "named")

\* without one: a fork, in the background; not by a fork.  An empty type passes
\* the same checks, but then counts as a type: its agent is not given the dialogue.
CallFork(a, type, background) ==
    /\ Calling(a) /\ type \in {"none", "empty"}
    /\ MayForkDialogue /\ a \notin marked
    /\ IF type = "none" THEN Launch(a, "fork", Base, TRUE, "back", type)
       ELSE Launch(a, "fork", ResolvedTools(Plain, background), FALSE,
                   IF background THEN "back" ELSE "fore", type)

\* isolation "worktree": in the foreground, with a dialogue of its own
CallIsolated(a, d) ==
    /\ Calling(a) /\ Launch(a, "worktree", ResolvedTools(d, FALSE), FALSE, "fore", "named")

\* with a team_name: a teammate; without a type it is given the dialogue
CallTeammate(a, type, d) ==
    /\ Calling(a) /\ teams # {} /\ (type # "named" => d = Plain)
    /\ Launch(a, "teammate", TeammateTools(d), type # "named" /\ EnableFork, "back", type)

\* run_to_completion returns or fails: in the foreground the tool completes the
\* trace node, of a background task nobody does.
Return(b, how) ==
    /\ b \in Subs /\ status[b] = "running"
    /\ ground[b] = "fore" => \A c \in Subs : caller[c] = b /\ ground[c] = "fore" => status[c] # "running"
    /\ status' = [status EXCEPT ![b] = how]
    /\ node' = IF ground[b] = "fore" THEN [node EXCEPT ![b] = how] ELSE node
    /\ UNCHANGED <<kind, tools, marked, dialogue, ground, caller, askedType, treeTeamVars>>

\* The run of the caller is cancelled while it waits: CancelledError is no
\* Exception, and the node stays.
Interrupt(b) ==
    /\ b \in Subs /\ status[b] = "running" /\ ground[b] = "fore"
    /\ status' = [status EXCEPT ![b] = "cancelled"]
    /\ UNCHANGED <<kind, tools, marked, dialogue, ground, caller, askedType, node, treeTeamVars>>

-----------------------------------------------------------------------------
(* Teams and coordinator mode: only the main agent and forks have these tools. *)

MayTeam(a) == Calling(a) /\ Holds(a, "Team")

\* TeamCreateTool: the tools are narrowed, and saved, when the first team is made
CreateTeam(a, t) ==
    /\ MayTeam(a) /\ t \notin teams /\ teams' = teams \cup {t}
    /\ IF Coordinator /\ ~coordinating
       THEN snapshot' = registry /\ registry' = Narrowed(registry) /\ coordinating' = TRUE
       ELSE UNCHANGED <<registry, snapshot, coordinating>>
    /\ UNCHANGED agentVars

\* TeamDeleteTool: they are restored with the last team
DeleteTeam(a, t) ==
    /\ MayTeam(a) /\ t \in teams /\ teams' = teams \ {t}
    /\ IF coordinating /\ teams' = {}
       THEN /\ registry' = IF snapshot = {} THEN registry ELSE snapshot
            /\ snapshot' = {} /\ coordinating' = FALSE
       ELSE UNCHANGED <<registry, snapshot, coordinating>>
    /\ UNCHANGED agentVars

SubNext ==
    \/ \E a \in Everyone :
          \/ \E b \in BOOLEAN :
                \/ \E d \in Definitions : CallDefined(a, d, b)
                \/ \E type \in {"none", "empty"} : CallFork(a, type, b)
          \/ \E d \in Definitions \cup {Plain} :
                CallIsolated(a, d) \/ \E type \in {"none", "named"} : CallTeammate(a, type, d)
          \/ \E how \in {"completed", "failed"} : Return(a, how)
          \/ Interrupt(a)
          \/ \E t \in TeamNames : CreateTeam(a, t) \/ DeleteTeam(a, t)
SubSpec == SubInit /\ [][SubNext]_subVars

-----------------------------------------------------------------------------
\* Sub-agents of sub-agents come from forks only, and never call again: there is
\* no agent four levels deep ("to prevent endless nesting", tools/agent_tool.py:189,
\* which rests on the tool lists, the mark of a fork's tool and each way of execute).
NestingIsBounded ==
    \A b \in Subs : kind[b] # "free" /\ kind[caller[b]] # "main" =>
        kind[caller[b]] = "fork" /\ ~Holds(b, "Agent")

\* The main agent's tools are narrowed while coordinator mode has a team, in which
\* the full set is kept, and whole otherwise ("avoid saving the filtered registry
\* as the full one", tools/team_create.py:103; restored with the last team).
NarrowedWhileTeams ==
    IF Coordinator /\ teams # {}
    THEN registry = Narrowed(AllTools) /\ snapshot = AllTools
    ELSE registry = AllTools /\ snapshot = {}

\* "or leave it empty to fork the current conversation" (tools/agent_tool.py:107)
EmptyTypeForks ==
    \A b \in Subs : kind[b] = "fork" /\ askedType[b] = "empty" => dialogue[b]
=============================================================================
