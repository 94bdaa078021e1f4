------------------------------ MODULE Worktrees ------------------------------
(***************************************************************************)
(* Git worktrees: creating, entering, leaving and removing them            *)
(* (worktree/manager.py), the two ways to do so (the /worktree command and *)
(* the EnterWorktree and ExitWorktree tools), sub-agents and members of a  *)
(* team that run in one of their own (tools/agent_tool.py), deleting the   *)
(* team (teams/manager.py), the hourly sweep (worktree/cleanup.py) and the *)
(* session file that outlives the process.                                 *)
(*                                                                         *)
(* Work in a worktree is the number of commits on its branch that are      *)
(* nowhere else, those of them that were pushed, and whether files are     *)
(* uncommitted.  A baseline is the number of commits when it was taken.    *)
(***************************************************************************)
EXTENDS Naturals, FiniteSets

CONSTANTS
    Chosen,         \* worktrees named by the user or the model
    Agents,         \* names of sub-agents' worktrees: never given twice
    Mates,          \* those of a team's members, "team-<team>/<member>"
    MaxCommits      \* bound: commits on a branch

ASSUME WorktreeAssumption ==
    /\ Agents \cap (Chosen \cup Mates) = {}
    /\ MaxCommits \in Nat

Names == Chosen \cup Agents \cup Mates
NoBase == MaxCommits + 1
NoSession == [name |-> "none", base |-> 0]

VARIABLES
    checkout,       \* names whose directory is there
    branch,         \* commits on the branch, NoBase if there is no branch
    pushed,         \* and how many of them a remote has
    dirty,          \* uncommitted files
    baseline,       \* Worktree.head_commit of the active ones, NoBase of others
    entered,        \* current_session: its name and original_head_commit
    sessionFile,    \* what is saved of it
    agentRuns,      \* sub-agents at work
    mates,          \* members of the team on disk: "none", "active" or "idle"
    made,           \* ghost: commits made since the process took a worktree over
    by              \* ghost: who may have lost work in the last step, or "other"

gitVars == <<checkout, branch, pushed, dirty>>
managerVars == <<baseline, entered, sessionFile>>
worktreeVars == <<gitVars, managerVars, agentRuns, mates, made, by>>

WorktreeInit ==
    /\ checkout = {} /\ branch = [n \in Names |-> NoBase]
    /\ pushed = [n \in Names |-> 0] /\ dirty = {}
    /\ baseline = [n \in Names |-> NoBase]
    /\ entered = NoSession /\ sessionFile = NoSession
    /\ agentRuns = {} /\ mates = [m \in Mates |-> "none"]
    /\ made = [n \in Names |-> 0] /\ by = "other"

Active == {n \in Names : baseline[n] # NoBase}

\* count_worktree_changes: of the commands that git answers; one that it refuses
\* with an error code counts as no changes, one that cannot run as a change
Answers == {"status", "rev-list"}
Changed(n, base, seen) ==
    \/ n \notin checkout
    \/ n \in dirty /\ "status" \in seen
    \/ branch[n] > base /\ "rev-list" \in seen

-----------------------------------------------------------------------------
(* The manager. *)

\* create: a directory that is there is taken over as it is; otherwise the branch
\* is made, or moved, to the current HEAD.
Created(n) ==
    /\ n \notin Active
    /\ made' = [made EXCEPT ![n] = 0]
    /\ baseline' = [baseline EXCEPT ![n] = IF n \in checkout THEN branch[n] ELSE 0]
    /\ IF n \in checkout THEN UNCHANGED gitVars
       ELSE /\ checkout' = checkout \cup {n}
            /\ branch' = [branch EXCEPT ![n] = 0] /\ pushed' = [pushed EXCEPT ![n] = 0]
            /\ dirty' = dirty \ {n}

\* enter: the HEAD of the main checkout, which has none of the commits
Entered(n) ==
    /\ entered' = [name |-> n, base |-> 0] /\ sessionFile' = entered'

\* _remove_worktree: a failed removal is only logged, and then git keeps a branch
\* that is checked out
Removed(n) ==
    /\ \/ /\ checkout' = checkout \ {n} /\ branch' = [branch EXCEPT ![n] = NoBase]
          /\ pushed' = [pushed EXCEPT ![n] = 0] /\ dirty' = dirty \ {n}
       \/ UNCHANGED gitVars
    /\ baseline' = [baseline EXCEPT ![n] = NoBase]

\* exit, for the session's worktree
Exit(n, remove, discard, seen) ==
    /\ n \in Active
    /\ remove /\ ~discard => ~Changed(n, baseline[n], seen)
    /\ entered' = NoSession /\ sessionFile' = NoSession
    /\ IF remove THEN Removed(n) ELSE UNCHANGED <<gitVars, baseline>>

-----------------------------------------------------------------------------
(* The command and the tools. *)

CommandCreate(n) ==
    /\ n \in Chosen /\ Created(n) /\ Entered(n) /\ by' = "create"
    /\ UNCHANGED <<agentRuns, mates>>

CommandEnter(n) ==
    /\ n \in Active /\ Entered(n) /\ by' = "other"
    /\ UNCHANGED <<gitVars, baseline, agentRuns, mates, made>>

\* EnterWorktreeTool: not from within a worktree session
ToolEnter(n) == entered = NoSession /\ CommandCreate(n)

CommandExit(remove, discard) ==
    /\ entered # NoSession
    /\ \E seen \in SUBSET Answers :
          /\ Exit(entered.name, remove, discard, seen)
          /\ ~remove => seen = Answers
          /\ by' = IF discard THEN "discard"
                   ELSE IF seen = Answers THEN "command" ELSE "blind"
    /\ UNCHANGED <<agentRuns, mates, made>>

\* ExitWorktreeTool counts against the original HEAD before it asks the manager
ToolExit(remove, discard) ==
    /\ entered # NoSession
    /\ \E seen \in SUBSET Answers :
          /\ remove /\ ~discard => ~Changed(entered.name, entered.base, seen)
          /\ Exit(entered.name, remove, discard, seen)
          /\ ~remove => seen = Answers
          /\ by' = IF discard THEN "discard"
                   ELSE IF seen = Answers THEN "other" ELSE "blind"
    /\ UNCHANGED <<agentRuns, mates, made>>

-----------------------------------------------------------------------------
(* Sub-agents, and work. *)

\* _execute_with_worktree
AgentStarts(a) ==
    /\ a \in Agents /\ branch[a] = NoBase /\ a \notin checkout /\ a \notin agentRuns
    /\ Created(a) /\ agentRuns' = agentRuns \cup {a} /\ by' = "other"
    /\ UNCHANGED <<entered, sessionFile, mates>>

\* run_to_completion returns, and auto_cleanup; or it fails or is cancelled, and
\* the worktree is left as it is
AgentEnds(a) ==
    /\ a \in agentRuns /\ agentRuns' = agentRuns \ {a}
    /\ \/ /\ a \in Active
          /\ \E seen \in SUBSET Answers :
                /\ by' = IF seen = Answers THEN "other" ELSE "blind"
                /\ IF Changed(a, baseline[a], seen) THEN UNCHANGED <<gitVars, baseline>>
                   ELSE Removed(a)
       \/ UNCHANGED <<gitVars, baseline>> /\ by' = "other"
    /\ UNCHANGED <<entered, sessionFile, mates, made>>

\* _spawn_teammate: the worktree, then the member in the team's file.
MateStarts(m) ==
    /\ m \in Mates /\ mates[m] = "none" /\ Created(m) /\ by' = "create"
    /\ mates' = [mates EXCEPT ![m] = "active"]
    /\ UNCHANGED <<entered, sessionFile, agentRuns>>

\* on_teammate_completed: the worktree is left as it is.
MateEnds(m) ==
    /\ m \in Mates /\ mates[m] = "active" /\ mates' = [mates EXCEPT ![m] = "idle"] /\ by' = "other"
    /\ UNCHANGED <<gitVars, managerVars, agentRuns, made>>

\* delete_team: `git worktree remove --force` for every member, without asking
\* what is in it, and without telling the manager.  Branches stay, and where git
\* fails the worktree does.
TeamGoes ==
    /\ \E gone \in SUBSET {m \in Mates : mates[m] # "none"} :
          checkout' = checkout \ gone /\ dirty' = dirty \ gone
    /\ mates' = [m \in Mates |-> "none"] /\ by' = "team"
    /\ UNCHANGED <<branch, pushed, managerVars, made>>

\* TeamDeleteTool: refused while a member is active.
TeamDelete ==
    /\ \A m \in Mates : mates[m] # "active"
    /\ TeamGoes /\ UNCHANGED agentRuns

\* Ctrl-C at rest: every member is set inactive, and every team deleted.
Quit == TeamGoes /\ agentRuns' = {}

\* The user or an agent works in the worktree, or pushes its branch.
Work(n) ==
    /\ n \in checkout /\ by' = "other"
    /\ \/ dirty' = dirty \cup {n} /\ UNCHANGED <<branch, pushed, made>>
       \/ /\ n \in dirty /\ branch[n] < MaxCommits
          /\ branch' = [branch EXCEPT ![n] = @ + 1] /\ dirty' = dirty \ {n} /\ UNCHANGED pushed
          /\ made' = [made EXCEPT ![n] = @ + 1]
       \/ /\ pushed[n] < branch[n] /\ pushed' = [pushed EXCEPT ![n] = branch[n]]
          /\ UNCHANGED <<branch, dirty, made>>
    /\ UNCHANGED <<checkout, managerVars, agentRuns, mates>>

-----------------------------------------------------------------------------
\* Mutant of Sweep: commits that were not pushed are not looked for
Sweep_NoRemotes(a) ==
    /\ a \in Agents \cap checkout /\ entered.name # a
    /\ \E seen \in SUBSET Answers :
          /\ ~Changed(a, branch[a], seen)
          /\ "rev-list" \in seen
          /\ by' = IF "status" \in seen THEN "other" ELSE "blind"
    /\ Removed(a)
    /\ UNCHANGED <<entered, sessionFile, agentRuns, mates, made>>

\* cleanup_stale_worktrees: an old worktree with a sub-agent's name, not that of
\* the session.  Its HEAD is compared with itself, so that only uncommitted files
\* count; commits that no remote has keep it, and so does an error of git there.
Sweep(a) ==
    /\ a \in Agents \cap checkout /\ entered.name # a
    /\ \E seen \in SUBSET Answers :
          /\ ~Changed(a, branch[a], seen)
          /\ branch[a] = pushed[a] /\ "rev-list" \in seen
          /\ by' = IF "status" \in seen THEN "other" ELSE "blind"
    /\ Removed(a)
    /\ UNCHANGED <<entered, sessionFile, agentRuns, mates, made>>

\* The process ends and another starts: restore_session takes over the worktree
\* that the file names, if it is still there.
Restart ==
    /\ by' = "other" /\ agentRuns' = {} /\ made' = [n \in Names |-> 0]
    /\ LET kept == sessionFile # NoSession /\ sessionFile.name \in checkout
       IN  /\ entered' = IF kept THEN sessionFile ELSE NoSession
           /\ sessionFile' = entered'
           /\ baseline' = [n \in Names |-> IF kept /\ n = sessionFile.name THEN branch[n] ELSE NoBase]
    /\ UNCHANGED <<gitVars, mates>>

\* The user removes a worktree with git; its branch stays.
UserRemoves(n) ==
    /\ n \in checkout /\ checkout' = checkout \ {n} /\ dirty' = dirty \ {n} /\ by' = "user"
    /\ UNCHANGED <<branch, pushed, managerVars, agentRuns, mates, made>>

WorktreeNext ==
    \/ \E n \in Names :
          \/ CommandCreate(n) \/ CommandEnter(n) \/ ToolEnter(n) \/ AgentStarts(n) \/ AgentEnds(n)
          \/ MateStarts(n) \/ MateEnds(n) \/ Work(n) \/ Sweep(n) \/ UserRemoves(n)
    \/ \E remove, discard \in BOOLEAN : CommandExit(remove, discard) \/ ToolExit(remove, discard)
    \/ TeamDelete \/ Quit \/ Restart
WorktreeSpec == WorktreeInit /\ [][WorktreeNext]_worktreeVars

-----------------------------------------------------------------------------
\* Work that is nowhere else goes away in this step.
Loses(n) ==
    \/ n \in dirty /\ n \notin dirty' /\ branch'[n] = branch[n]
    \/ n \in dirty /\ branch'[n] = NoBase
    \/ branch[n] # NoBase /\ branch[n] > pushed[n] /\ (branch'[n] = NoBase \/ branch'[n] < branch[n])

\* Work in a worktree is lost only if the user or the model asked for that, or
\* the user deleted the directory; if git failed to tell of it; if a worktree is
\* created over the branch that one without a directory has left (which deleting
\* a team does); if the team of the member who did it is deleted, and then what
\* was not committed; or if the /worktree command removes commits of which this
\* process has seen none made.  What the tools, the end of a sub-agent and the
\* sweep remove has never held work (count_worktree_changes,
\* has_unpushed_commits and the callers that combine them).
WorkLossIsExplained ==
    [][\A n \in Names : Loses(n) =>
          \/ by' \in {"discard", "user", "blind"}
          \/ by' = "create" /\ n \notin checkout
          \/ /\ by' = "team" /\ n \in Mates /\ mates[n] # "none" /\ mates'[n] = "none"
             /\ branch'[n] = branch[n]
          \/ by' = "command" /\ n \notin dirty /\ made[n] = 0]_worktreeVars

\* "worktree has changes (.. new commits). Set discard_changes=True to force
\* removal." (worktree/manager.py:211-214): while git answers, work is not lost
\* otherwise.
RemovalNeedsDiscard ==
    [][\A n \in Names : Loses(n) => by' \in {"discard", "user", "blind", "create"}]_worktreeVars
=============================================================================
