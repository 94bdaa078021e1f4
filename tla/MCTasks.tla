------------------------------- MODULE MCTasks -------------------------------
(* Tasks of one event loop, and whether what was started ends: the Attempt's *)
(* task and its lease monitor, the agent's loop, and the team a lead agent   *)
(* runs.  They share no variable; a behaviour exercises one of them, which   *)
(* Init chooses, and the fairness of the others does not bind it.            *)
EXTENDS AttemptTask, AgentLoop, AgentTeam

VARIABLE part

\* AgentLoop: a last answer, a batch with an unsafe call, tools that do not
\* exist, and the plan's end.
MCReplies == {<<>>, <<"safe", "safe", "unsafe">>, <<"unknown", "unknown">>,
              <<"exit_plan">>}

MCInit ==
    /\ part \in {"task", "loop", "team"}
    /\ Init /\ LoopInit /\ TeamInit
    /\ part # "team" => interactive

MCNext ==
    \/ part = "task" /\ Next /\ UNCHANGED <<part, loopVars, teamVars>>
    \/ part = "loop" /\ LoopNext /\ UNCHANGED <<part, vars, teamVars>>
    \/ part = "team" /\ TeamNext /\ UNCHANGED <<part, vars, loopVars>>

\* Fairness of the component that runs: Fairness of AttemptTask, and the WF
\* conjuncts of LoopFairness and TeamFairness.
MCFairness ==
    /\ WF_vars(part = "task" /\ AttemptStep)
    /\ WF_vars(part = "task" /\ (DeadlineExpires \/ Publish))
    /\ WF_vars(part = "task" /\ MonitorStep)
    /\ WF_vars(part = "task" /\ Unrenewed /\ LoseLease)
    /\ WF_vars(part = "task" /\ ForceStop) /\ WF_vars(part = "task" /\ Stopped)
    /\ WF_loopVars(part = "loop" /\ LoopWorks)
    /\ \A m \in Members : WF_teamVars(part = "team" /\ TeammateStep(m))
    /\ WF_teamVars(part = "team" /\ LeadEnds)
    /\ WF_teamVars(part = "team" /\ PollNotices)
    /\ WF_teamVars(part = "team" /\ DrainLead)

mcVars == <<part, vars, loopVars, teamVars>>
MCSpec == MCInit /\ [][MCNext]_mcVars /\ MCFairness
=============================================================================
