----------------------------- MODULE TasksProofs -----------------------------
(***************************************************************************)
(* Proofs about the tasks of one event loop, for any set of teammates, any *)
(* limits and whatever the model replies:                                  *)
(*                                                                         *)
(*   - the Attempt's task and its lease monitor (AttemptTask);             *)
(*   - the agent's loop (AgentLoop): PairedUnlessCut and HooksBalanced     *)
(*     speak of single places of the generator, so Unanswered and Opened   *)
(*     say what is open at every place; UnsafeRunsAlone needs that what    *)
(*     executes is of the batch at hand (InBatch), and where that ends;    *)
(*   - the lead and its teammates (AgentTeam): a teammate at work is       *)
(*     marked active for as long as its team exists.                       *)
(***************************************************************************)
EXTENDS AttemptTask, AgentLoop, AgentTeam, SequenceTheorems, NumberLemmas, TLAPS

-----------------------------------------------------------------------------
(* The lead and its teammates.                                             *)

TeamTypeOK ==
    /\ interactive \in BOOLEAN /\ team \in {"none", "live", "deleted"}
    /\ memberPc \in [Members -> {"absent", "turn", "waiting", "ended"}]
    /\ memberActive \in [Members -> BOOLEAN]
    /\ notifyQueue \subseteq Members /\ quitting \in BOOLEAN

AtWork(m) == memberPc[m] \in {"turn", "waiting"}

\* While the team exists whoever works is marked active and has its worktree;
\* only those that have ended are announced.  Nobody works for a team that is
\* not there yet, or that TeamDelete has removed.
Working ==
    /\ \A m \in Members : AtWork(m) /\ team = "live" => memberActive[m] /\ m \in worktrees
    /\ \A m \in notifyQueue : memberPc[m] = "ended"
    /\ \A m \in Members : AtWork(m) /\ team # "live" => quitting

TeamIInv == TeamTypeOK /\ Working

LEMMA TeamStepIInv == TeamIInv /\ [TeamNext]_teamVars => TeamIInv'
<1> SUFFICES ASSUME TeamIInv, [TeamNext]_teamVars PROVE TeamIInv'
  OBVIOUS
<1> USE DEF TeamIInv, TeamTypeOK, Working, AtWork, memberVars, rosterVars
<1>1. CASE LeadStarts
  BY <1>1 DEF LeadStarts
<1>2. CASE TeamCreate
  BY <1>2 DEF TeamCreate
<1>3. CASE TeamDelete
  BY <1>3 DEF TeamDelete, Registered
<1>4. CASE Quit
  BY <1>4 DEF Quit
<1>5. CASE DrainLead
  BY <1>5 DEF DrainLead
<1>6. CASE LeadEnds
  BY <1>6 DEF LeadEnds, Noticed
<1>7. CASE PollNotices
  BY <1>7 DEF PollNotices, Noticed
<1>8. ASSUME NEW m \in Members, Spawn(m) PROVE TeamIInv'
  BY <1>8 DEF Spawn
<1>9. ASSUME NEW m \in Members, SendMessage(m) \/ ReadMail(m) PROVE TeamIInv'
  BY <1>9 DEF SendMessage, ReadMail
<1>10. ASSUME NEW m \in Members, CancelTask(m) PROVE TeamIInv'
  BY <1>10 DEF CancelTask, Ends
<1>11. ASSUME NEW m \in Members, TurnDone(m) PROVE TeamIInv'
  BY <1>11 DEF TurnDone, Ends
<1>12. ASSUME NEW m \in Members, TurnFails(m) PROVE TeamIInv'
  BY <1>12 DEF TurnFails, Ends
<1>13. ASSUME NEW m \in Members, PollMail(m) PROVE TeamIInv'
  BY <1>13 DEF PollMail, Ends
<1>14. CASE UNCHANGED teamVars
  BY <1>14 DEF teamVars
<1>15. QED
  BY <1>1, <1>2, <1>3, <1>4, <1>5, <1>6, <1>7, <1>8, <1>9, <1>10, <1>11, <1>12, <1>13, <1>14
     DEF TeamNext, LeadStep, TeammateStep

LEMMA TeamInvariance == TeamSpec => []TeamIInv
<1>1. TeamInit => TeamIInv
  BY DEF TeamInit, TeamIInv, TeamTypeOK, Working, AtWork
<1>2. QED BY <1>1, TeamStepIInv, PTL DEF TeamSpec

\* A teammate keeps its worktree until its task has ended, whoever is spawned,
\* cancelled, announced or deleted in between (teams/manager.py,
\* agents/task_manager.py).
THEOREM NoTeardown == TeamSpec => []NoTeardownUnderWork
<1>1. TeamIInv => NoTeardownUnderWork
  BY DEF TeamIInv, Working, AtWork, NoTeardownUnderWork
<1>2. QED BY <1>1, TeamInvariance, PTL

-----------------------------------------------------------------------------
(* The Attempt's task and its lease monitor.                               *)

\* For as long as the lease is honoured the Job is running, publishing, or asked
\* to be cancelled; it publishes only when the Attempt does.
Unpublished ==
    /\ leased => job \in {"RUNNING", "PUBLISHING", "CANCEL_REQUESTED"}
    /\ attempt \in Phases \ {"publish"} /\ leased => job # "PUBLISHING"

\* From the PUBLISHING stage on the Job waits for the Attempt's outcome, or has
\* it, until it is queued again; and nothing is published before that stage.
Publishing ==
    /\ attempt = "publish" => publication # "none" /\ (leased => job = "PUBLISHING")
    /\ published => publication # "none"
    /\ job = "PUBLISHING" => publication = "begun"
    /\ publication = "begun" => job \in {"PUBLISHING", "SUCCEEDED", "FAILED"}
    /\ job = "PUBLISHING" /\ attempt \in {"join", "finish"} /\ leased =>
         result \in {"COMPLETED", "FAILED", "raises"}

\* The monitor has told an Attempt to stop before it stops to renew its lease.
Told ==
    attempt \in Phases /\ monitor \in {"close", "last_close", "await_attempt", "ended"} => cancelling

\* Why an Attempt may end as cancelled: it was asked, its monitor failed, its
\* lease is lost, or the Worker's drain ran out of patience.
Excused == asked \/ failed \/ ~leased \/ worker \in {"forced", "stopped"}

Reasons ==
    /\ job = "CANCEL_REQUESTED" => asked
    /\ cancelling \/ cancelled => Excused
    /\ result = "CANCELLED" => Excused
    /\ worker = "stopped" => attempt = "ended"
    /\ job \in {"RUNNING", "PUBLISHING"} => leased \/ followed

\* What process() hands on: the monitor is awaited with an outcome, or with the
\* exception that is raised again then.
HandedOn ==
    /\ attempt \in {"join", "finish"} => result # "none"
    /\ attempt = "finish" => result # "raises"

TaskIInv ==
    /\ TypeOK /\ Unpublished /\ Publishing /\ Told /\ Reasons /\ HandedOn
    /\ CancelledOnlyIfAskedOrForced

\* TypeOK in two halves, for the two provers.
Ranges ==
    /\ job \in {"RUNNING", "PUBLISHING", "CANCEL_REQUESTED", "QUEUED",
                "SUCCEEDED", "NEEDS_INPUT", "CANCELLED", "FAILED"}
    /\ attempt \in Phases \union {"join", "finish", "ended"}
    /\ result \in Outcomes \union {"none", "raises"}
    /\ monitor \in {"beat", "sleep", "close", "last_close", "await_attempt", "ended"}
    /\ worker \in {"serving", "draining", "forced", "stopped", "broken"}
    /\ publication \in {"none", "begun", "requeued"}
Flags ==
    /\ followed \in BOOLEAN
    /\ leased \in BOOLEAN /\ asked \in BOOLEAN /\ published \in BOOLEAN
    /\ cancelled \in BOOLEAN /\ cancelSent \in BOOLEAN /\ failed \in BOOLEAN /\ cancelling \in BOOLEAN

LEMMA TaskStepIInv == TaskIInv /\ [Next]_vars => TaskIInv'
<1> SUFFICES ASSUME TaskIInv, [Next]_vars PROVE TaskIInv'
  OBVIOUS
<1> USE DEF TaskIInv, TypeOK, Unpublished, Publishing, Told, Reasons, HandedOn, Excused,
            CancelledOnlyIfAskedOrForced, Phases, Outcomes, database, signals, taskVars
<1>1. CASE RequestCancel
  <2>1. TypeOK'
    <3>1. Ranges'
      BY <1>1 DEF RequestCancel, CancelFrom, Ranges
    <3>2. Flags'
      BY <1>1, Zenon DEF RequestCancel, CancelFrom, Flags
    <3>3. QED BY <3>1, <3>2 DEF Ranges, Flags
  <2>2. Unpublished'
    BY <1>1 DEF RequestCancel, CancelFrom
  <2>3. Publishing'
    BY <1>1 DEF RequestCancel, CancelFrom
  <2>4. Told'
    BY <1>1 DEF RequestCancel, CancelFrom
  <2>5. (Reasons /\ HandedOn)'
    BY <1>1 DEF RequestCancel, CancelFrom
  <2>6. CancelledOnlyIfAskedOrForced'
    BY <1>1 DEF RequestCancel, CancelFrom
  <2>7. QED BY <2>1, <2>2, <2>3, <2>4, <2>5, <2>6
<1>2. CASE LoseLease
  <2>1. TypeOK'
    <3>1. Ranges'
      BY <1>2 DEF LoseLease, Recovered, QueueNewAttempt, Ranges
    <3>2. Flags'
      BY <1>2, Zenon DEF LoseLease, Recovered, QueueNewAttempt, Flags
    <3>3. QED BY <3>1, <3>2 DEF Ranges, Flags
  <2>2. Unpublished'
    BY <1>2 DEF LoseLease, Recovered, QueueNewAttempt
  <2>3. Publishing'
    BY <1>2 DEF LoseLease, Recovered, QueueNewAttempt
  <2>4. Told'
    BY <1>2 DEF LoseLease, Recovered, QueueNewAttempt
  <2>5. (Reasons /\ HandedOn)'
    BY <1>2 DEF LoseLease, Recovered, QueueNewAttempt
  <2>6. CancelledOnlyIfAskedOrForced'
    BY <1>2 DEF LoseLease, Recovered, QueueNewAttempt
  <2>7. QED BY <2>1, <2>2, <2>3, <2>4, <2>5, <2>6
<1>3. CASE PhaseSucceeds
  BY <1>3 DEF PhaseSucceeds, Following, StageAccepted, Terminal
<1>4. CASE PhaseFails
  BY <1>4 DEF PhaseFails, Terminal
<1>5. CASE CommandCancelled
  BY <1>5 DEF CommandCancelled, Terminal
<1>6. CASE WrapUp
  BY <1>6 DEF WrapUp, Leave, Publishable
<1>7. CASE Publish
  <2>1. /\ UNCHANGED <<database, cancelled, signals, worker>> /\ attempt = "publish"
        /\ attempt' = "join" /\ result' \in {"COMPLETED", "FAILED"}
        /\ monitor' = IF monitor = "await_attempt" THEN monitor ELSE "ended"
    BY <1>7, Zenon DEF Publish, Deliver, Leave
  <2>2. published' \in BOOLEAN
    BY <1>7, Zenon DEF Publish, Deliver
  <2>3. QED
    <3>1. Ranges'
      BY <2>1, <2>2 DEF Ranges
    <3>2. Flags'
      BY <2>1, <2>2, Zenon DEF Flags
    <3>3. Unpublished'
      BY <2>1, <2>2
    <3>4. Publishing'
      BY <2>1, <2>2
    <3>5. Told'
      BY <2>1, <2>2
    <3>6. (Reasons /\ HandedOn)'
      BY <2>1, <2>2
    <3>7. CancelledOnlyIfAskedOrForced'
      BY <2>1, <2>2
    <3>8. QED BY <3>1, <3>2, <3>3, <3>4, <3>5, <3>6, <3>7 DEF Ranges, Flags
<1>8. CASE DeadlineExpires
  BY <1>8 DEF DeadlineExpires, Terminal
<1>9. CASE Join
  BY <1>9 DEF Join
<1>10. CASE Finish
  <2>1. TypeOK'
    <3>1. Ranges'
      BY <1>10 DEF Finish, Finished, Reported, Ranges
    <3>2. Flags'
      BY <1>10, Zenon DEF Finish, Finished, Reported, Flags
    <3>3. QED BY <3>1, <3>2 DEF Ranges, Flags
  <2>2. Unpublished'
    BY <1>10 DEF Finish, Finished, Reported
  <2>3. Publishing'
    BY <1>10 DEF Finish, Finished, Reported
  <2>4. Told'
    BY <1>10 DEF Finish, Finished, Reported
  <2>5. (Reasons /\ HandedOn)'
    BY <1>10 DEF Finish, Finished, Reported
  <2>6. CancelledOnlyIfAskedOrForced'
    BY <1>10 DEF Finish, Finished, Reported
  <2>7. QED BY <2>1, <2>2, <2>3, <2>4, <2>5, <2>6
<1>11. CASE CancelDelivered
  <2>1. UNCHANGED <<asked, publication, followed, cancelSent, failed, worker>> /\ cancelled /\ cancelled' = FALSE
    BY <1>11 DEF CancelDelivered
  <2>2. CASE attempt = "agent" /\ Terminal("CANCELLED") /\ UNCHANGED <<job, leased, cancelling, published>>
    <3>1. Ranges'
      BY <2>1, <2>2 DEF Terminal, Ranges
    <3>2. Flags'
      BY <2>1, <2>2, Zenon DEF Terminal, Flags
    <3>3. Unpublished'
      BY <2>1, <2>2 DEF Terminal
    <3>4. Publishing'
      BY <2>1, <2>2 DEF Terminal
    <3>5. Told'
      BY <2>1, <2>2 DEF Terminal
    <3>6. (Reasons /\ HandedOn)'
      BY <2>1, <2>2 DEF Terminal
    <3>7. CancelledOnlyIfAskedOrForced'
      BY <2>1, <2>2 DEF Terminal
    <3>8. QED BY <3>1, <3>2, <3>3, <3>4, <3>5, <3>6, <3>7 DEF Ranges, Flags
  <2>3. CASE attempt = "publish" /\ ~cancelling /\ Deliver /\ UNCHANGED <<job, leased, cancelling>>
    <3>1. Ranges'
      BY <2>1, <2>3 DEF Deliver, Leave, Ranges
    <3>2. Flags'
      BY <2>1, <2>3, Zenon DEF Deliver, Leave, Flags
    <3>3. Unpublished'
      BY <2>1, <2>3 DEF Deliver, Leave
    <3>4. Publishing'
      BY <2>1, <2>3 DEF Deliver, Leave
    <3>5. Told'
      BY <2>1, <2>3 DEF Deliver, Leave
    <3>6. (Reasons /\ HandedOn)'
      BY <2>1, <2>3 DEF Deliver, Leave
    <3>7. CancelledOnlyIfAskedOrForced'
      BY <2>1, <2>3 DEF Deliver, Leave
    <3>8. QED BY <3>1, <3>2, <3>3, <3>4, <3>5, <3>6, <3>7 DEF Ranges, Flags
  <2>4. CASE /\ attempt \in Phases \ {"agent"} /\ (attempt = "publish" => cancelling)
             /\ cancelling' = TRUE /\ Leave("raises") /\ UNCHANGED <<job, leased>>
             /\ published' \in {published, published \/ attempt = "publish"}
    <3>1. Ranges'
      BY <2>1, <2>4 DEF Leave, Ranges
    <3>2. Flags'
      BY <2>1, <2>4, Zenon DEF Leave, Flags
    <3>3. Unpublished'
      BY <2>1, <2>4 DEF Leave
    <3>4. Publishing'
      BY <2>1, <2>4 DEF Leave
    <3>5. Told'
      BY <2>1, <2>4 DEF Leave
    <3>6. (Reasons /\ HandedOn)'
      BY <2>1, <2>4 DEF Leave
    <3>7. CancelledOnlyIfAskedOrForced'
      BY <2>1, <2>4 DEF Leave
    <3>8. QED BY <3>1, <3>2, <3>3, <3>4, <3>5, <3>6, <3>7 DEF Ranges, Flags
  <2>5. CASE /\ attempt = "join" /\ attempt' = "ended"
             /\ UNCHANGED <<job, leased, result, monitor, cancelling, published>>
    <3>1. Ranges'
      BY <2>1, <2>5 DEF Ranges
    <3>2. Flags'
      BY <2>1, <2>5, Zenon DEF Flags
    <3>3. Unpublished'
      BY <2>1, <2>5
    <3>4. Publishing'
      BY <2>1, <2>5
    <3>5. Told'
      BY <2>1, <2>5
    <3>6. (Reasons /\ HandedOn)'
      BY <2>1, <2>5
    <3>7. CancelledOnlyIfAskedOrForced'
      BY <2>1, <2>5
    <3>8. QED BY <3>1, <3>2, <3>3, <3>4, <3>5, <3>6, <3>7 DEF Ranges, Flags
  <2>6. CASE /\ attempt = "finish" /\ attempt' = "ended"
             /\ (job' = Finished /\ leased' = FALSE) \/ UNCHANGED <<job, leased>>
             /\ UNCHANGED <<result, monitor, cancelling, published>>
    <3>1. Ranges'
      BY <2>1, <2>6 DEF Finished, Reported, Ranges
    <3>2. Flags'
      BY <2>1, <2>6, Zenon DEF Finished, Reported, Flags
    <3>3. Unpublished'
      BY <2>1, <2>6 DEF Finished, Reported
    <3>4. Publishing'
      BY <2>1, <2>6 DEF Finished, Reported
    <3>5. Told'
      BY <2>1, <2>6 DEF Finished, Reported
    <3>6. (Reasons /\ HandedOn)'
      BY <2>1, <2>6 DEF Finished, Reported
    <3>7. CancelledOnlyIfAskedOrForced'
      BY <2>1, <2>6 DEF Finished, Reported
    <3>8. QED BY <3>1, <3>2, <3>3, <3>4, <3>5, <3>6, <3>7 DEF Ranges, Flags
  <2>7. QED
    BY <1>11, <2>2, <2>3, <2>4, <2>5, <2>6 DEF CancelDelivered
<1>12. CASE Beat
  <2>1. TypeOK'
    <3>1. Ranges'
      BY <1>12 DEF Beat, CancelProcessor, LostSignal, Ranges
    <3>2. Flags'
      BY <1>12, Zenon DEF Beat, CancelProcessor, LostSignal, Flags
    <3>3. QED BY <3>1, <3>2 DEF Ranges, Flags
  <2>2. Unpublished'
    BY <1>12 DEF Beat, CancelProcessor, LostSignal
  <2>3. Publishing'
    BY <1>12 DEF Beat, CancelProcessor, LostSignal
  <2>4. Told'
    BY <1>12 DEF Beat, CancelProcessor, LostSignal
  <2>5. (Reasons /\ HandedOn)'
    BY <1>12 DEF Beat, CancelProcessor, LostSignal
  <2>6. CancelledOnlyIfAskedOrForced'
    BY <1>12 DEF Beat, CancelProcessor, LostSignal
  <2>7. QED BY <2>1, <2>2, <2>3, <2>4, <2>5, <2>6
<1>13. CASE CancelReturns \/ Wake
  BY <1>13 DEF CancelReturns, Wake
<1>14. CASE Stop \/ ForceStop \/ Stopped
  <2>1. TypeOK'
    <3>1. Ranges'
      BY <1>14 DEF Stop, ForceStop, Stopped, Ranges
    <3>2. Flags'
      BY <1>14, Zenon DEF Stop, ForceStop, Stopped, Flags
    <3>3. QED BY <3>1, <3>2 DEF Ranges, Flags
  <2>2. Unpublished'
    BY <1>14 DEF Stop, ForceStop, Stopped
  <2>3. Publishing'
    BY <1>14 DEF Stop, ForceStop, Stopped
  <2>4. Told'
    BY <1>14 DEF Stop, ForceStop, Stopped
  <2>5. (Reasons /\ HandedOn)'
    BY <1>14 DEF Stop, ForceStop, Stopped
  <2>6. CancelledOnlyIfAskedOrForced'
    BY <1>14 DEF Stop, ForceStop, Stopped
  <2>7. QED BY <2>1, <2>2, <2>3, <2>4, <2>5, <2>6
<1>15. CASE UNCHANGED vars
  BY <1>15 DEF vars
<1>16. CASE Requeue
  <2>1. TypeOK'
    <3>1. Ranges'
      BY <1>16 DEF Requeue, QueueNewAttempt, Ranges
    <3>2. Flags'
      BY <1>16, Zenon DEF Requeue, QueueNewAttempt, Flags
    <3>3. QED BY <3>1, <3>2 DEF Ranges, Flags
  <2>2. Unpublished'
    BY <1>16 DEF Requeue, QueueNewAttempt
  <2>3. Publishing'
    BY <1>16 DEF Requeue, QueueNewAttempt
  <2>4. Told'
    BY <1>16 DEF Requeue, QueueNewAttempt
  <2>5. (Reasons /\ HandedOn)'
    BY <1>16 DEF Requeue, QueueNewAttempt
  <2>6. CancelledOnlyIfAskedOrForced'
    BY <1>16 DEF Requeue, QueueNewAttempt
  <2>7. QED BY <2>1, <2>2, <2>3, <2>4, <2>5, <2>6
<1>17. CASE LaterAttempt
  <2>1. ~leased /\ UNCHANGED <<leased, asked, taskVars, monitor, signals, worker>>
    BY <1>17 DEF LaterAttempt
  <2>2. published' \in BOOLEAN /\ (published' => published \/ job = "PUBLISHING")
    <3>1. published \in BOOLEAN
      OBVIOUS
    <3>2. CASE LaterIsClaimed \/ LaterPublishes
      <4>1. published' = published
        BY <3>2, SMT DEF LaterIsClaimed, LaterPublishes
      <4>2. QED BY <3>1, <4>1, Zenon
    <3>3. CASE LaterEnds
      <4>1. CASE job = "PUBLISHING" /\ published' = TRUE
        BY <4>1, Zenon
      <4>2. CASE job = "PUBLISHING" /\ published' \in {published, TRUE}
        BY <3>1, <4>2, Zenon
      <4>3. CASE UNCHANGED published
        BY <3>1, <4>3, Zenon
      <4>4. QED BY <3>3, <4>1, <4>2, <4>3, Zenon DEF LaterEnds
    <3>4. CASE LaterIsLost
      BY <3>1, <3>4, Zenon DEF LaterIsLost
    <3>5. QED BY <1>17, <3>2, <3>3, <3>4 DEF LaterAttempt
  <2>3. CASE LaterIsClaimed
    <3>1. Ranges'
      BY <2>1, <2>2, <2>3 DEF LaterIsClaimed, Ranges
    <3>2. Flags'
      BY <2>1, <2>2, <2>3, Zenon DEF LaterIsClaimed, Flags
    <3>3. Unpublished'
      BY <2>1, <2>2, <2>3 DEF LaterIsClaimed
    <3>4. Publishing'
      BY <2>1, <2>2, <2>3 DEF LaterIsClaimed
    <3>5. Told'
      BY <2>1, <2>2, <2>3 DEF LaterIsClaimed
    <3>6. (Reasons /\ HandedOn)'
      BY <2>1, <2>2, <2>3 DEF LaterIsClaimed
    <3>7. CancelledOnlyIfAskedOrForced'
      BY <2>1, <2>2, <2>3 DEF LaterIsClaimed
    <3>8. QED BY <3>1, <3>2, <3>3, <3>4, <3>5, <3>6, <3>7 DEF Ranges, Flags
  <2>4. CASE LaterPublishes
    <3>1. Ranges'
      BY <2>1, <2>2, <2>4 DEF LaterPublishes, Ranges
    <3>2. Flags'
      BY <2>1, <2>2, <2>4, Zenon DEF LaterPublishes, Flags
    <3>3. Unpublished'
      BY <2>1, <2>2, <2>4 DEF LaterPublishes
    <3>4. Publishing'
      BY <2>1, <2>2, <2>4 DEF LaterPublishes
    <3>5. Told'
      BY <2>1, <2>2, <2>4 DEF LaterPublishes
    <3>6. (Reasons /\ HandedOn)'
      BY <2>1, <2>2, <2>4 DEF LaterPublishes
    <3>7. CancelledOnlyIfAskedOrForced'
      BY <2>1, <2>2, <2>4 DEF LaterPublishes
    <3>8. QED BY <3>1, <3>2, <3>3, <3>4, <3>5, <3>6, <3>7 DEF Ranges, Flags
  <2>5. CASE LaterEnds
    <3>1. Ranges'
      <4>1. job' \in {"SUCCEEDED", "NEEDS_INPUT", "CANCELLED", "FAILED"} /\ UNCHANGED <<publication, followed>>
        BY <2>5, Zenon DEF LaterEnds
      <4>2. QED BY <2>1, <4>1 DEF Ranges
    <3>2. Flags'
      BY <2>1, <2>2, <2>5, Zenon DEF LaterEnds, Flags
    <3>3. Unpublished'
      BY <2>1, <2>2, <2>5 DEF LaterEnds
    <3>4. Publishing'
      BY <2>1, <2>2, <2>5 DEF LaterEnds
    <3>5. Told'
      BY <2>1, <2>2, <2>5 DEF LaterEnds
    <3>6. (Reasons /\ HandedOn)'
      BY <2>1, <2>2, <2>5 DEF LaterEnds
    <3>7. CancelledOnlyIfAskedOrForced'
      BY <2>1, <2>2, <2>5 DEF LaterEnds
    <3>8. QED BY <3>1, <3>2, <3>3, <3>4, <3>5, <3>6, <3>7 DEF Ranges, Flags
  <2>6. CASE LaterIsLost
    <3>1. Ranges'
      BY <2>1, <2>2, <2>6 DEF LaterIsLost, Recovered, QueueNewAttempt, Ranges
    <3>2. Flags'
      BY <2>1, <2>2, <2>6, Zenon DEF LaterIsLost, Recovered, QueueNewAttempt, Flags
    <3>3. Unpublished'
      BY <2>1, <2>2, <2>6 DEF LaterIsLost, Recovered, QueueNewAttempt
    <3>4. Publishing'
      BY <2>1, <2>2, <2>6 DEF LaterIsLost, Recovered, QueueNewAttempt
    <3>5. Told'
      BY <2>1, <2>2, <2>6 DEF LaterIsLost, Recovered, QueueNewAttempt
    <3>6. (Reasons /\ HandedOn)'
      BY <2>1, <2>2, <2>6 DEF LaterIsLost, Recovered, QueueNewAttempt
    <3>7. CancelledOnlyIfAskedOrForced'
      BY <2>1, <2>2, <2>6 DEF LaterIsLost, Recovered, QueueNewAttempt
    <3>8. QED BY <3>1, <3>2, <3>3, <3>4, <3>5, <3>6, <3>7 DEF Ranges, Flags
  <2>7. QED BY <1>17, <2>3, <2>4, <2>5, <2>6 DEF LaterAttempt
<1>18. QED
  BY <1>1, <1>2, <1>3, <1>4, <1>5, <1>6, <1>7, <1>8, <1>9, <1>10, <1>11, <1>12, <1>13,
     <1>14, <1>15, <1>16, <1>17 DEF Next, AttemptStep, MonitorStep

LEMMA TaskInvariance == Spec => []TaskIInv
<1>1. Init => TaskIInv
  BY DEF Init, TaskIInv, TypeOK, Unpublished, Publishing, Told, Reasons, HandedOn, Excused,
         CancelledOnlyIfAskedOrForced, Phases, Outcomes
<1>2. QED BY <1>1, TaskStepIInv, PTL DEF Spec

\* A Job with a branch or a pull request is neither CANCELLED nor about to be,
\* unless it was queued again after that publication had begun: the PUBLISHING
\* gate, whatever the monitor, the drain, recovery and later Attempts do
\* meanwhile (processor.py, runner.py, persistence/repositories.py).
THEOREM PublicationExcludesCancel == Spec => []PublicationBarsCancel
<1>1. TaskIInv => PublicationBarsCancel
  BY DEF TaskIInv, TypeOK, Publishing, PublicationBarsCancel
<1>2. QED BY <1>1, TaskInvariance, PTL

\* An Attempt whose lease nobody renews any more has been told to stop
\* (worker/service.py, the lease monitor).
THEOREM NobodyUnwatched == Spec => []NobodyWorksUnwatched
<1>1. TaskIInv => NobodyWorksUnwatched
  BY DEF TaskIInv, Told, NobodyWorksUnwatched, Unrenewed
<1>2. QED BY <1>1, TaskInvariance, PTL

\* A Job is CANCELLED only when somebody asked for it, or its Worker's drain
\* ran out of patience: a lost lease or a failed monitor never does it.
THEOREM CancelledForAReason == Spec => []CancelledOnlyIfAskedOrForced
<1>1. TaskIInv => CancelledOnlyIfAskedOrForced
  BY DEF TaskIInv
<1>2. QED BY <1>1, TaskInvariance, PTL

-----------------------------------------------------------------------------
(* The agent's loop: what is open at each of its places.                   *)

Closing == {"final_turn", "final_session", "closed", "idle"}
CutEndings == {"cancelled", "cancelled_closing", "too_many_unknown"}

\* An unanswered call belongs to a run that is over, to one that is cut, or to
\* the response at hand.
Unanswered ==
    /\ loopRuns \in Nat /\ iteration \in Nat /\ dangling \subseteq Nat \X Nat \X Nat
    /\ ending \in CutEndings => loopPc \in Closing
    /\ \A d \in dangling : d[1] <= loopRuns
    /\ \A d \in dangling :
         \/ d[1] < loopRuns
         \/ ending \in CutEndings
         \/ (loopPc \in {"gate", "execute", "answers"} /\ d \in ThisResponse)

\* What is open at each place of the generator.
Open ==
    /\ loopPc \notin Closing => sessionOpen
    /\ loopPc \in {"session_start", "turn_start", "session_end", "final_session"} => ~turnOpen
    /\ loopPc = "turn_start_hook" => turnOpen
    /\ loopPc = "closed" /\ ending # "cancelled_closing" => ~sessionOpen /\ ~turnOpen

\* The closing hook of the session has run exactly when the session is shut.
SessionHooks ==
    loopPc # "idle" =>
        \/ (sessionOpen /\ fired["session_end"] = 0)
        \/ (~sessionOpen /\ fired["session_end"] = 1)

\* The closing hooks of the turns are one behind the opening ones while a turn
\* is open, level while none is, but for the turn whose opening hook was
\* cancelled: that one is closed without having been opened.
TurnHooks ==
    /\ turnOpen /\ loopPc \notin {"closed", "idle"} =>
         \/ (loopPc # "turn_start_hook" /\ fired["turn_start"] = fired["turn_end"] + 1)
         \/ (loopPc = "turn_start_hook" /\ fired["turn_start"] = fired["turn_end"])
         \/ (loopPc = "final_turn" /\ ending = "cancelled" /\ fired["turn_start"] = fired["turn_end"])
    /\ ~turnOpen /\ loopPc # "idle" /\ ending # "cancelled_closing" =>
         \/ fired["turn_start"] = fired["turn_end"]
         \/ (loopPc \in {"final_session", "closed"} /\ ending = "cancelled"
             /\ fired["turn_start"] + 1 = fired["turn_end"])

Booleans == turnOpen \in BOOLEAN /\ sessionOpen \in BOOLEAN

Opened == fired \in [LifecycleHooks -> Nat] /\ Open /\ SessionHooks /\ TurnHooks

\* The batch at hand, what the gate has said of it and what of it is answered.
Kinds == {"safe", "unsafe", "unknown", "disabled", "exit_plan"}
Verdicts == {"run", "refused", "unknown"}

Responses ==
    /\ reply \in Seq(Kinds) /\ gate \in Seq(Verdicts)
    /\ batchAt \in Nat /\ answered \in 0 .. Len(reply)

InBatch ==
    /\ loopPc \in {"received", "cut_short", "take"} => batchAt = 1 /\ gate = <<>> /\ answered = 0
    /\ loopPc \in {"gate", "execute"} => batchAt \in 1 .. Len(reply)
    /\ loopPc = "gate" => /\ answered = batchAt - 1
                          /\ Len(gate) <= BatchEnd(reply, batchAt) - batchAt + 1
    /\ loopPc = "execute" => /\ answered \in (batchAt - 1) .. BatchEnd(reply, batchAt)
                             /\ executing \subseteq Batch
    /\ loopPc # "execute" => executing = {}

Counted == unknowns \in Nat /\ recoveries \in 0 .. MaxRecoveries

LoopIInv ==
    Booleans /\ Unanswered /\ Opened /\ Counted /\ Responses /\ InBatch

-----------------------------------------------------------------------------
(* The batch that starts at a call exists and is what it should be.         *)

LEMMA BatchEnds ==
    ASSUME NEW S, NEW calls \in Seq(S), NEW i \in 1 .. Len(calls)
    PROVE  /\ BatchEnd(calls, i) \in i .. Len(calls)
           /\ ~Safe(calls[i]) => BatchEnd(calls, i) = i
           /\ Safe(calls[i]) => \A k \in i .. BatchEnd(calls, i) : Safe(calls[k])
<1>1. Len(calls) \in Nat
  BY LenProperties
<1>2. CASE ~Safe(calls[i])
  BY <1>1, <1>2 DEF BatchEnd
<1>3. CASE Safe(calls[i])
  <2> DEFINE Closes(j) == (\A k \in i .. j : Safe(calls[k])) /\ (j < Len(calls) => ~Safe(calls[j + 1]))
  <2>1. \E j \in i .. Len(calls) : Closes(j)
    <3> DEFINE T == {j \in i .. Len(calls) : ~Safe(calls[j])}
    <3>1. CASE T = {}
      <4>1. Closes(Len(calls)) /\ Len(calls) \in i .. Len(calls)
        BY <1>1, <3>1
      <4>2. QED BY <4>1
    <3>2. CASE T # {}
      <4>1. T \subseteq Nat
        BY <1>1
      <4>2. PICK n \in T : \A m \in T : n <= m
        BY <3>2, <4>1, LeastNumber
      <4>3. n \in i .. Len(calls) /\ ~Safe(calls[n]) /\ n # i
        BY <4>2, <1>3
      <4>4. n - 1 \in i .. Len(calls) /\ (n - 1) + 1 = n
        BY <1>1, <4>3
      <4>5. ASSUME NEW k \in i .. (n - 1) PROVE Safe(calls[k])
        <5>1. k \in i .. Len(calls) /\ ~(n <= k)
          BY <1>1, <4>3
        <5>2. k \notin T
          BY <4>2, <5>1
        <5>3. QED BY <5>1, <5>2
      <4>6. Closes(n - 1)
        BY <4>3, <4>4, <4>5
      <4>7. QED BY <4>4, <4>6
    <3>3. QED BY <3>1, <3>2
  <2>2. BatchEnd(calls, i) = CHOOSE j \in i .. Len(calls) : Closes(j)
    BY <1>3 DEF BatchEnd
  <2> HIDE DEF Closes
  <2>3. BatchEnd(calls, i) \in i .. Len(calls) /\ Closes(BatchEnd(calls, i))
    BY <2>1, <2>2
  <2>4. QED BY <1>3, <2>3 DEF Closes
<1>4. QED BY <1>2, <1>3

-----------------------------------------------------------------------------
(* The steps of the loop, for each part of the invariant. *)

LEMMA UnansweredStep == Unanswered /\ [LoopNext]_loopVars => Unanswered'
<1> SUFFICES ASSUME Unanswered, [LoopNext]_loopVars PROVE Unanswered'
  OBVIOUS
<1> USE DEF Unanswered, ThisResponse, Closing, CutEndings, respVars, countVars, hookVars, boundVars
<1>1. CASE Run
  BY <1>1 DEF Run
<1>2. CASE SessionStarted \/ EndTurn \/ OpenTurn \/ TurnStarted
  BY <1>2 DEF SessionStarted, EndTurn, OpenTurn, TurnStarted
<1>3. CASE Top
  BY <1>3 DEF Top
<1>4. CASE EndSession \/ FinalTurn \/ FinalSession \/ Release
  BY <1>4 DEF EndSession, FinalTurn, FinalSession, Release
<1>5. CASE Prepare \/ CutShort \/ Received \/ FinishRun
  BY <1>5 DEF Prepare, CutShort, Received, FinishRun
<1>6. CASE Stream
  BY <1>6 DEF Stream
<1>7. CASE TakeCalls
  BY <1>7 DEF TakeCalls
<1>8. CASE GateCall \/ Execute \/ (\E i \in 1 .. Len(reply) : CallDone(i)) \/ TakeResult \/ NextBatch
  BY <1>8 DEF GateCall, Execute, CallDone, TakeResult, NextBatch
<1>9. CASE TooManyUnknown \/ AddResults
  BY <1>9 DEF TooManyUnknown, AddResults
<1>10. CASE CancelRun \/ CancelFinally
  BY <1>10 DEF CancelRun, CancelFinally, Awaiting
<1>11. CASE UNCHANGED loopVars
  BY <1>11 DEF loopVars
<1>12. QED
  BY <1>1, <1>2, <1>3, <1>4, <1>5, <1>6, <1>7, <1>8, <1>9, <1>10, <1>11 DEF LoopNext, LoopWorks

LEMMA Fired ==
    ASSUME NEW h \in LifecycleHooks, fired \in [LifecycleHooks -> Nat], Fire(h)
    PROVE  /\ fired' \in [LifecycleHooks -> Nat]
           /\ fired'[h] = fired[h] + 1
           /\ \A g \in LifecycleHooks : g # h => fired'[g] = fired[g]
  BY DEF Fire

LEMMA BooleansStep == Booleans /\ [LoopNext]_loopVars => Booleans'
<1> SUFFICES ASSUME Booleans, [LoopNext]_loopVars PROVE Booleans'
  OBVIOUS
<1> USE DEF Booleans, respVars, countVars, hookVars, boundVars
<1>1. CASE Run \/ SessionStarted \/ Top \/ OpenTurn \/ TurnStarted
  BY <1>1, Zenon DEF Run, SessionStarted, Top, OpenTurn, TurnStarted
<1>2. CASE EndTurn \/ EndSession \/ FinalTurn \/ FinalSession \/ Release
  BY <1>2, Zenon DEF EndTurn, EndSession, FinalTurn, FinalSession, Release
<1>3. CASE Prepare \/ Stream \/ CutShort \/ Received \/ FinishRun \/ TakeCalls
  BY <1>3, Zenon DEF Prepare, Stream, CutShort, Received, FinishRun, TakeCalls
<1>4. CASE GateCall \/ Execute \/ (\E i \in 1 .. Len(reply) : CallDone(i)) \/ TakeResult \/ NextBatch
  BY <1>4, Zenon DEF GateCall, Execute, CallDone, TakeResult, NextBatch
<1>5. CASE TooManyUnknown \/ AddResults \/ CancelRun \/ CancelFinally
  BY <1>5, Zenon DEF TooManyUnknown, AddResults, CancelRun, CancelFinally
<1>6. CASE UNCHANGED loopVars
  BY <1>6, Zenon DEF loopVars
<1>7. QED
  BY <1>1, <1>2, <1>3, <1>4, <1>5, <1>6, Zenon DEF LoopNext, LoopWorks

LEMMA OpenStep == Booleans /\ Unanswered /\ Opened /\ [LoopNext]_loopVars => Open'
<1> SUFFICES ASSUME Booleans, Unanswered, Opened, [LoopNext]_loopVars PROVE Open'
  OBVIOUS
<1>0. /\ fired \in [LifecycleHooks -> Nat] /\ Open /\ SessionHooks /\ TurnHooks
      /\ ending \in CutEndings => loopPc \in Closing
      /\ turnOpen \in BOOLEAN /\ sessionOpen \in BOOLEAN
  BY DEF Opened, Unanswered, Booleans
<1> USE <1>0 DEF Open, Open, Closing, CutEndings, respVars, countVars, hookVars, boundVars
<1>1. CASE Run
  BY <1>1 DEF Run
<1>2. CASE SessionStarted
  BY <1>2 DEF SessionStarted
<1>3. CASE Top
  BY <1>3 DEF Top
<1>4. CASE EndTurn /\ turnOpen
  BY <1>4 DEF EndTurn
<1>5. CASE EndTurn /\ ~turnOpen
  BY <1>5 DEF EndTurn
<1>6. CASE OpenTurn
  BY <1>6 DEF OpenTurn
<1>7. CASE TurnStarted
  BY <1>7 DEF TurnStarted
<1>8. CASE EndSession
  BY <1>8 DEF EndSession
<1>9. CASE FinalTurn /\ turnOpen
  BY <1>9 DEF FinalTurn
<1>10. CASE FinalTurn /\ ~turnOpen
  BY <1>10 DEF FinalTurn
<1>11. CASE FinalSession /\ sessionOpen
  BY <1>11 DEF FinalSession
<1>12. CASE FinalSession /\ ~sessionOpen
  BY <1>12 DEF FinalSession
<1>13. CASE Release
  BY <1>13 DEF Release
<1>14. CASE Prepare \/ Stream \/ CutShort \/ Received \/ FinishRun \/ TakeCalls
  BY <1>14 DEF Prepare, Stream, CutShort, Received, FinishRun, TakeCalls
<1>15. CASE GateCall \/ Execute \/ (\E i \in 1 .. Len(reply) : CallDone(i)) \/ TakeResult \/ NextBatch
  BY <1>15 DEF GateCall, Execute, CallDone, TakeResult, NextBatch
<1>16. CASE TooManyUnknown \/ AddResults
  BY <1>16 DEF TooManyUnknown, AddResults
<1>17. CASE CancelRun
  BY <1>17 DEF CancelRun, Awaiting
<1>18. CASE CancelFinally
  BY <1>18 DEF CancelFinally
<1>19. CASE UNCHANGED loopVars
  BY <1>19 DEF loopVars
<1>20. QED
  BY <1>1, <1>2, <1>3, <1>4, <1>5, <1>6, <1>7, <1>8, <1>9, <1>10, <1>11, <1>12, <1>13, <1>14, <1>15, <1>16, <1>17, <1>18, <1>19 DEF LoopNext, LoopWorks

LEMMA SessionHooksStep == Booleans /\ Unanswered /\ Opened /\ [LoopNext]_loopVars => SessionHooks'
<1> SUFFICES ASSUME Booleans, Unanswered, Opened, [LoopNext]_loopVars PROVE SessionHooks'
  OBVIOUS
<1>0. /\ fired \in [LifecycleHooks -> Nat] /\ Open /\ SessionHooks /\ TurnHooks
      /\ ending \in CutEndings => loopPc \in Closing
      /\ turnOpen \in BOOLEAN /\ sessionOpen \in BOOLEAN
  BY DEF Opened, Unanswered, Booleans
<1> USE <1>0 DEF SessionHooks, Open, Closing, CutEndings, respVars, countVars, hookVars, boundVars
<1>1. CASE Run
  BY <1>1 DEF Run, NoHooks, LifecycleHooks
<1>2. CASE SessionStarted
  <2>1. Fire("session_start")
    BY <1>2 DEF SessionStarted
  <2>2. /\ fired' \in [LifecycleHooks -> Nat] /\ fired'["session_start"] = fired["session_start"] + 1
        /\ fired'["turn_start"] = fired["turn_start"]
        /\ fired'["turn_end"] = fired["turn_end"]
        /\ fired'["session_end"] = fired["session_end"]
    BY <2>1, Fired DEF LifecycleHooks
  <2>3. QED BY <1>2, <2>2 DEF SessionStarted, LifecycleHooks
<1>3. CASE Top
  BY <1>3 DEF Top
<1>4. CASE EndTurn /\ turnOpen
  <2>1. Fire("turn_end")
    BY <1>4 DEF EndTurn
  <2>2. /\ fired' \in [LifecycleHooks -> Nat] /\ fired'["turn_end"] = fired["turn_end"] + 1
        /\ fired'["turn_start"] = fired["turn_start"]
        /\ fired'["session_end"] = fired["session_end"]
    BY <2>1, Fired DEF LifecycleHooks
  <2>3. QED BY <1>4, <2>2 DEF EndTurn, LifecycleHooks
<1>5. CASE EndTurn /\ ~turnOpen
  BY <1>5 DEF EndTurn
<1>6. CASE OpenTurn
  BY <1>6 DEF OpenTurn
<1>7. CASE TurnStarted
  <2>1. Fire("turn_start")
    BY <1>7 DEF TurnStarted
  <2>2. /\ fired' \in [LifecycleHooks -> Nat] /\ fired'["turn_start"] = fired["turn_start"] + 1
        /\ fired'["turn_end"] = fired["turn_end"]
        /\ fired'["session_end"] = fired["session_end"]
    BY <2>1, Fired DEF LifecycleHooks
  <2>3. QED BY <1>7, <2>2 DEF TurnStarted, LifecycleHooks
<1>8. CASE EndSession
  <2>1. Fire("session_end")
    BY <1>8 DEF EndSession
  <2>2. /\ fired' \in [LifecycleHooks -> Nat] /\ fired'["session_end"] = fired["session_end"] + 1
        /\ fired'["turn_start"] = fired["turn_start"]
        /\ fired'["turn_end"] = fired["turn_end"]
    BY <2>1, Fired DEF LifecycleHooks
  <2>3. QED BY <1>8, <2>2 DEF EndSession, LifecycleHooks
<1>9. CASE FinalTurn /\ turnOpen
  <2>1. Fire("turn_end")
    BY <1>9 DEF FinalTurn
  <2>2. /\ fired' \in [LifecycleHooks -> Nat] /\ fired'["turn_end"] = fired["turn_end"] + 1
        /\ fired'["turn_start"] = fired["turn_start"]
        /\ fired'["session_end"] = fired["session_end"]
    BY <2>1, Fired DEF LifecycleHooks
  <2>3. QED BY <1>9, <2>2 DEF FinalTurn, LifecycleHooks
<1>10. CASE FinalTurn /\ ~turnOpen
  BY <1>10 DEF FinalTurn
<1>11. CASE FinalSession /\ sessionOpen
  <2>1. Fire("session_end")
    BY <1>11 DEF FinalSession
  <2>2. /\ fired' \in [LifecycleHooks -> Nat] /\ fired'["session_end"] = fired["session_end"] + 1
        /\ fired'["turn_start"] = fired["turn_start"]
        /\ fired'["turn_end"] = fired["turn_end"]
    BY <2>1, Fired DEF LifecycleHooks
  <2>3. QED BY <1>11, <2>2 DEF FinalSession, LifecycleHooks
<1>12. CASE FinalSession /\ ~sessionOpen
  BY <1>12 DEF FinalSession
<1>13. CASE Release
  BY <1>13 DEF Release, NoHooks, LifecycleHooks
<1>14. CASE Prepare \/ Stream \/ CutShort \/ Received \/ FinishRun \/ TakeCalls
  BY <1>14 DEF Prepare, Stream, CutShort, Received, FinishRun, TakeCalls
<1>15. CASE GateCall \/ Execute \/ (\E i \in 1 .. Len(reply) : CallDone(i)) \/ TakeResult \/ NextBatch
  BY <1>15 DEF GateCall, Execute, CallDone, TakeResult, NextBatch
<1>16. CASE TooManyUnknown \/ AddResults
  BY <1>16 DEF TooManyUnknown, AddResults
<1>17. CASE CancelRun
  BY <1>17 DEF CancelRun, Awaiting
<1>18. CASE CancelFinally
  BY <1>18 DEF CancelFinally
<1>19. CASE UNCHANGED loopVars
  BY <1>19 DEF loopVars
<1>20. QED
  BY <1>1, <1>2, <1>3, <1>4, <1>5, <1>6, <1>7, <1>8, <1>9, <1>10, <1>11, <1>12, <1>13, <1>14, <1>15, <1>16, <1>17, <1>18, <1>19 DEF LoopNext, LoopWorks

LEMMA TurnHooksStep == Booleans /\ Unanswered /\ Opened /\ [LoopNext]_loopVars => TurnHooks'
<1> SUFFICES ASSUME Booleans, Unanswered, Opened, [LoopNext]_loopVars PROVE TurnHooks'
  OBVIOUS
<1>0. /\ fired \in [LifecycleHooks -> Nat] /\ Open /\ SessionHooks /\ TurnHooks
      /\ ending \in CutEndings => loopPc \in Closing
      /\ turnOpen \in BOOLEAN /\ sessionOpen \in BOOLEAN
  BY DEF Opened, Unanswered, Booleans
<1> USE <1>0 DEF TurnHooks, Open, Closing, CutEndings, respVars, countVars, hookVars, boundVars
<1>1. CASE Run
  BY <1>1 DEF Run, NoHooks, LifecycleHooks
<1>2. CASE SessionStarted
  <2>1. Fire("session_start")
    BY <1>2 DEF SessionStarted
  <2>2. /\ fired' \in [LifecycleHooks -> Nat] /\ fired'["session_start"] = fired["session_start"] + 1
        /\ fired'["turn_start"] = fired["turn_start"]
        /\ fired'["turn_end"] = fired["turn_end"]
        /\ fired'["session_end"] = fired["session_end"]
    BY <2>1, Fired DEF LifecycleHooks
  <2>3. QED BY <1>2, <2>2 DEF SessionStarted, LifecycleHooks
<1>3. CASE Top
  BY <1>3 DEF Top
<1>4. CASE EndTurn /\ turnOpen
  <2>1. Fire("turn_end")
    BY <1>4 DEF EndTurn
  <2>2. /\ fired' \in [LifecycleHooks -> Nat] /\ fired'["turn_end"] = fired["turn_end"] + 1
        /\ fired'["turn_start"] = fired["turn_start"]
        /\ fired'["session_end"] = fired["session_end"]
    BY <2>1, Fired DEF LifecycleHooks
  <2>3. QED BY <1>4, <2>2 DEF EndTurn, LifecycleHooks
<1>5. CASE EndTurn /\ ~turnOpen
  BY <1>5 DEF EndTurn
<1>6. CASE OpenTurn
  BY <1>6 DEF OpenTurn
<1>7. CASE TurnStarted
  <2>1. Fire("turn_start")
    BY <1>7 DEF TurnStarted
  <2>2. /\ fired' \in [LifecycleHooks -> Nat] /\ fired'["turn_start"] = fired["turn_start"] + 1
        /\ fired'["turn_end"] = fired["turn_end"]
        /\ fired'["session_end"] = fired["session_end"]
    BY <2>1, Fired DEF LifecycleHooks
  <2>3. QED BY <1>7, <2>2 DEF TurnStarted, LifecycleHooks
<1>8. CASE EndSession
  <2>1. Fire("session_end")
    BY <1>8 DEF EndSession
  <2>2. /\ fired' \in [LifecycleHooks -> Nat] /\ fired'["session_end"] = fired["session_end"] + 1
        /\ fired'["turn_start"] = fired["turn_start"]
        /\ fired'["turn_end"] = fired["turn_end"]
    BY <2>1, Fired DEF LifecycleHooks
  <2>3. QED BY <1>8, <2>2 DEF EndSession, LifecycleHooks
<1>9. CASE FinalTurn /\ turnOpen
  <2>1. Fire("turn_end")
    BY <1>9 DEF FinalTurn
  <2>2. /\ fired' \in [LifecycleHooks -> Nat] /\ fired'["turn_end"] = fired["turn_end"] + 1
        /\ fired'["turn_start"] = fired["turn_start"]
        /\ fired'["session_end"] = fired["session_end"]
    BY <2>1, Fired DEF LifecycleHooks
  <2>3. QED BY <1>9, <2>2 DEF FinalTurn, LifecycleHooks
<1>10. CASE FinalTurn /\ ~turnOpen
  BY <1>10 DEF FinalTurn
<1>11. CASE FinalSession /\ sessionOpen
  <2>1. Fire("session_end")
    BY <1>11 DEF FinalSession
  <2>2. /\ fired' \in [LifecycleHooks -> Nat] /\ fired'["session_end"] = fired["session_end"] + 1
        /\ fired'["turn_start"] = fired["turn_start"]
        /\ fired'["turn_end"] = fired["turn_end"]
    BY <2>1, Fired DEF LifecycleHooks
  <2>3. QED BY <1>11, <2>2 DEF FinalSession, LifecycleHooks
<1>12. CASE FinalSession /\ ~sessionOpen
  BY <1>12 DEF FinalSession
<1>13. CASE Release
  BY <1>13 DEF Release, NoHooks, LifecycleHooks
<1>14. CASE Prepare \/ Stream \/ CutShort \/ Received \/ FinishRun \/ TakeCalls
  BY <1>14 DEF Prepare, Stream, CutShort, Received, FinishRun, TakeCalls
<1>15. CASE GateCall \/ Execute \/ (\E i \in 1 .. Len(reply) : CallDone(i)) \/ TakeResult \/ NextBatch
  <2>1. /\ UNCHANGED <<ending, fired, turnOpen, sessionOpen>> /\ loopPc \notin Closing /\ loopPc' \notin Closing
        /\ loopPc # "turn_start_hook" /\ loopPc' # "turn_start_hook"
    BY <1>15 DEF GateCall, Execute, CallDone, TakeResult, NextBatch
  <2>2. QED BY <2>1 DEF TurnHooks
<1>16. CASE TooManyUnknown \/ AddResults
  BY <1>16 DEF TooManyUnknown, AddResults
<1>17. CASE CancelRun
  BY <1>17 DEF CancelRun, Awaiting
<1>18. CASE CancelFinally
  BY <1>18 DEF CancelFinally
<1>19. CASE UNCHANGED loopVars
  BY <1>19 DEF loopVars
<1>20. QED
  BY <1>1, <1>2, <1>3, <1>4, <1>5, <1>6, <1>7, <1>8, <1>9, <1>10, <1>11, <1>12, <1>13, <1>14, <1>15, <1>16, <1>17, <1>18, <1>19 DEF LoopNext, LoopWorks

LEMMA OpenedStep == Booleans /\ Unanswered /\ Opened /\ [LoopNext]_loopVars => Opened'
<1> SUFFICES ASSUME Booleans, Unanswered, Opened, [LoopNext]_loopVars PROVE Opened'
  OBVIOUS
<1>1. fired' \in [LifecycleHooks -> Nat]
  <2> USE DEF Opened, Fire, NoHooks, LifecycleHooks, respVars, countVars, hookVars, boundVars
  <2>1. CASE Run \/ SessionStarted \/ Top \/ OpenTurn \/ TurnStarted
    BY <2>1 DEF Run, SessionStarted, Top, OpenTurn, TurnStarted
  <2>2. CASE EndTurn \/ EndSession \/ FinalTurn \/ FinalSession \/ Release
    BY <2>2 DEF EndTurn, EndSession, FinalTurn, FinalSession, Release
  <2>3. CASE Prepare \/ Stream \/ CutShort \/ Received \/ FinishRun \/ TakeCalls
    BY <2>3 DEF Prepare, Stream, CutShort, Received, FinishRun, TakeCalls
  <2>4. CASE GateCall \/ Execute \/ (\E i \in 1 .. Len(reply) : CallDone(i)) \/ TakeResult \/ NextBatch
    BY <2>4 DEF GateCall, Execute, CallDone, TakeResult, NextBatch
  <2>5. CASE TooManyUnknown \/ AddResults \/ CancelRun \/ CancelFinally
    BY <2>5 DEF TooManyUnknown, AddResults, CancelRun, CancelFinally
  <2>6. CASE UNCHANGED loopVars
    BY <2>6 DEF loopVars
  <2>7. QED
    BY <2>1, <2>2, <2>3, <2>4, <2>5, <2>6 DEF LoopNext, LoopWorks
<1>2. QED BY <1>1, OpenStep, SessionHooksStep, TurnHooksStep DEF Opened

\* The batch at hand lies in the response.
LEMMA BatchInReply ==
    ASSUME Responses, InBatch, loopPc \in {"gate", "execute"}
    PROVE  /\ Len(reply) \in Nat /\ Len(gate) \in Nat /\ batchAt \in 1 .. Len(reply)
           /\ BatchEnd(reply, batchAt) \in batchAt .. Len(reply)
<1>1. Len(reply) \in Nat /\ Len(gate) \in Nat /\ batchAt \in 1 .. Len(reply) /\ reply \in Seq(Kinds)
  BY LenProperties DEF Responses, InBatch
<1>2. BatchEnd(reply, batchAt) \in batchAt .. Len(reply)
  BY <1>1, BatchEnds
<1>3. QED BY <1>1, <1>2

LEMMA CountedStep == Counted /\ [LoopNext]_loopVars => Counted'
<1> SUFFICES ASSUME Counted, [LoopNext]_loopVars PROVE Counted'
  OBVIOUS
<1> USE DEF Counted, MaxRecoveries, respVars, countVars, hookVars, boundVars
<1>1. CASE Run \/ SessionStarted \/ Top \/ EndTurn \/ OpenTurn \/ TurnStarted
  BY <1>1 DEF Run, SessionStarted, Top, EndTurn, OpenTurn, TurnStarted
<1>2. CASE EndSession \/ FinalTurn \/ FinalSession \/ Release \/ CancelRun \/ CancelFinally
  BY <1>2 DEF EndSession, FinalTurn, FinalSession, Release, CancelRun, CancelFinally
<1>3. CASE Prepare \/ Stream \/ CutShort \/ Received \/ FinishRun \/ TakeCalls
  BY <1>3 DEF Prepare, Stream, CutShort, Received, FinishRun, TakeCalls
<1>4. CASE GateCall \/ Execute \/ (\E i \in 1 .. Len(reply) : CallDone(i)) \/ TakeResult \/ NextBatch
  <2>1. CASE TakeResult
    <3>1. unknowns' \in {unknowns + 1, 0} /\ UNCHANGED recoveries
      BY <2>1, Zenon DEF TakeResult
    <3>2. QED BY <3>1
  <2>2. CASE ~TakeResult
    BY <1>4, <2>2 DEF GateCall, Execute, CallDone, NextBatch
  <2>3. QED BY <2>1, <2>2
<1>5. CASE TooManyUnknown \/ AddResults \/ UNCHANGED loopVars
  BY <1>5 DEF TooManyUnknown, AddResults, loopVars
<1>6. QED
  BY <1>1, <1>2, <1>3, <1>4, <1>5 DEF LoopNext, LoopWorks

\* Most steps leave the response as it is.
LEMMA Elsewhere ==
    ASSUME Responses, InBatch, UNCHANGED respVars, loopPc \notin {"gate", "execute"},
           loopPc' \notin {"gate", "execute"},
           loopPc' = "take" => loopPc \in {"received", "cut_short", "take"},
           loopPc' \in {"received", "cut_short"} => loopPc' = loopPc
    PROVE  Responses' /\ InBatch'
  BY DEF Responses, InBatch, respVars

LEMMA InBatchStep == Responses /\ InBatch /\ [LoopNext]_loopVars => Responses' /\ InBatch'
<1> SUFFICES ASSUME Responses, InBatch, [LoopNext]_loopVars PROVE Responses' /\ InBatch'
  OBVIOUS
<1> USE DEF respVars, countVars, hookVars, boundVars
<1>1. CASE Run \/ SessionStarted \/ Top \/ EndTurn \/ OpenTurn \/ TurnStarted
  BY <1>1, Elsewhere DEF Run, SessionStarted, Top, EndTurn, OpenTurn, TurnStarted
<1>2. CASE EndSession \/ FinalTurn \/ FinalSession \/ Release \/ CancelFinally
  BY <1>2, Elsewhere DEF EndSession, FinalTurn, FinalSession, Release, CancelFinally
<1>3. CASE Prepare \/ CutShort \/ Received \/ FinishRun \/ TooManyUnknown \/ AddResults
  BY <1>3, Elsewhere DEF Prepare, CutShort, Received, FinishRun, TooManyUnknown, AddResults
<1>4. CASE Stream
  <2>1. /\ reply' \in Seq(Kinds) /\ batchAt' = 1 /\ gate' = <<>> /\ executing' = {} /\ answered' = 0
        /\ loopPc' \in {"received", "cut_short", "final_turn"}
    BY <1>4, LoopAssumption DEF Stream, Kinds, Responses
  <2>2. Len(reply') \in Nat
    BY <2>1, LenProperties
  <2>3. QED BY <2>1, <2>2 DEF Responses, InBatch
<1>5. CASE TakeCalls
  <2>1. /\ reply \in Seq(Kinds) /\ Len(reply) \in Nat /\ Len(reply) # 0 /\ Len(gate) = 0
        /\ batchAt = 1 /\ answered = 0 /\ executing = {}
    BY <1>5, LenProperties, EmptySeq DEF TakeCalls, Responses, InBatch
  <2>2. BatchEnd(reply, 1) \in 1 .. Len(reply)
    BY <2>1, BatchEnds
  <2>3. QED BY <1>5, <2>1, <2>2 DEF TakeCalls, Responses, InBatch
<1>6. CASE GateCall
  <2>1. PICK verdict \in Verdicts : gate' = Append(gate, verdict)
    BY <1>6 DEF GateCall, Verdicts
  <2>2. /\ loopPc = "gate" /\ batchAt + Len(gate) \in batchAt .. BatchEnd(reply, batchAt)
        /\ UNCHANGED <<loopPc, reply, batchAt, executing, answered>>
    BY <1>6 DEF GateCall, GateAt, Batch
  <2>3. gate' \in Seq(Verdicts) /\ Len(gate') = Len(gate) + 1
    BY <2>1 DEF Responses
  <2>4. QED BY <2>2, <2>3, BatchInReply DEF Responses, InBatch
<1>7. CASE Execute
  <2>1. Authorized \subseteq Batch
    BY DEF Authorized
  <2>2. loopPc = "gate" /\ BatchEnd(reply, batchAt) \in batchAt .. Len(reply) /\ batchAt \in Nat
        /\ Len(reply) \in Nat
    BY <1>7, BatchInReply DEF Execute
  <2>3. QED BY <1>7, <2>1, <2>2 DEF Execute, Responses, InBatch, Batch
<1>8. CASE \E i \in 1 .. Len(reply) : CallDone(i)
  <2>1. /\ UNCHANGED <<loopPc, reply, batchAt, gate, answered>> /\ executing' \subseteq executing
        /\ loopPc = "execute"
    BY <1>8 DEF CallDone
  <2>2. QED BY <2>1 DEF Responses, InBatch, Batch
<1>9. CASE TakeResult
  <2>1. loopPc = "execute" /\ BatchEnd(reply, batchAt) \in batchAt .. Len(reply) /\ batchAt \in Nat
        /\ Len(reply) \in Nat
    BY <1>9, BatchInReply DEF TakeResult
  <2>2. answered' = answered + 1 /\ answered < BatchEnd(reply, batchAt)
        /\ UNCHANGED <<loopPc, reply, batchAt, gate, executing>>
    BY <1>9 DEF TakeResult
  <2>3. QED BY <2>1, <2>2 DEF Responses, InBatch, Batch
<1>10. CASE NextBatch
  <2>1. loopPc = "execute" /\ batchAt \in Nat /\ Len(reply) \in Nat /\ reply \in Seq(Kinds)
        /\ answered \in Nat /\ executing = {} /\ executing' = {}
        /\ UNCHANGED <<reply, answered>>
    BY <1>10, BatchInReply DEF NextBatch, Responses
  <2>2. CASE answered < Len(reply)
    <3>1. batchAt' = answered + 1 /\ gate' = <<>> /\ loopPc' = "gate" /\ answered + 1 \in 1 .. Len(reply)
      BY <1>10, <2>1, <2>2 DEF NextBatch
    <3>2. BatchEnd(reply, answered + 1) \in (answered + 1) .. Len(reply)
      BY <2>1, <3>1, BatchEnds
    <3>3. QED BY <2>1, <3>1, <3>2 DEF Responses, InBatch
  <2>3. CASE ~(answered < Len(reply))
    BY <1>10, <2>1, <2>3 DEF NextBatch, Responses, InBatch
  <2>4. QED BY <2>2, <2>3
<1>11. CASE CancelRun
  BY <1>11 DEF CancelRun, Responses, InBatch
<1>12. CASE UNCHANGED loopVars
  BY <1>12 DEF loopVars, Responses, InBatch, Batch
<1>13. QED
  BY <1>1, <1>2, <1>3, <1>4, <1>5, <1>6, <1>7, <1>8, <1>9, <1>10, <1>11, <1>12
  DEF LoopNext, LoopWorks

LEMMA LoopInvariance == LoopSpec => []LoopIInv
<1>1. LoopInit => LoopIInv
  <2> SUFFICES ASSUME LoopInit PROVE LoopIInv
    OBVIOUS
  <2>1. Booleans
    BY Zenon DEF LoopInit, Booleans
  <2>2. Unanswered
    BY DEF LoopInit, Unanswered, Closing, CutEndings
  <2>3. Opened
    BY DEF LoopInit, Opened, Open, SessionHooks, TurnHooks, Closing, NoHooks, LifecycleHooks
  <2>4. Counted /\ Responses /\ InBatch
    BY EmptySeq DEF LoopInit, Counted, Responses, InBatch, MaxRecoveries
  <2>5. QED BY <2>1, <2>2, <2>3, <2>4 DEF LoopIInv
<1>2. LoopIInv /\ [LoopNext]_loopVars => LoopIInv'
  BY BooleansStep, UnansweredStep, OpenedStep, CountedStep, InBatchStep DEF LoopIInv
<1>3. QED BY <1>1, <1>2, PTL DEF LoopSpec

\* The generator's state keeps its shape (agent.py).
THEOREM LoopTypeCorrect == LoopSpec => []LoopTypeOK
<1>1. LoopIInv => LoopTypeOK
  <2> SUFFICES ASSUME LoopIInv PROVE LoopTypeOK
    OBVIOUS
  <2>1. executing \subseteq 1 .. Len(reply)
    BY BatchInReply DEF LoopIInv, InBatch, Batch
  <2>2. turnOpen \in BOOLEAN /\ sessionOpen \in BOOLEAN
    BY Zenon DEF LoopIInv, Booleans
  <2>3. /\ iteration \in Nat /\ unknowns \in Nat /\ recoveries \in 0 .. MaxRecoveries
        /\ gate \in Seq(Verdicts) /\ answered \in 0 .. Len(reply) /\ fired \in [LifecycleHooks -> Nat]
    BY DEF LoopIInv, Unanswered, Counted, Responses, Opened
  <2>4. QED BY <2>1, <2>2, <2>3, Zenon DEF LoopTypeOK, Verdicts
<1>2. QED BY <1>1, LoopInvariance, PTL

\* Every tool_use that reaches the model has its tool_result, but for those of
\* runs that were cut (agent.py, add_tool_results after the last batch).
THEOREM Paired == LoopSpec => []PairedUnlessCut
<1>1. LoopIInv => PairedUnlessCut
  BY DEF LoopIInv, Unanswered, PairedUnlessCut, CutEndings
<1>2. QED BY <1>1, LoopInvariance, PTL

\* However a run ends, every turn and the session that were opened have had
\* their closing hooks once; only a cancellation of the finally block itself
\* may leave them out (agent.py, run).
THEOREM HooksAreBalanced == LoopSpec => []HooksBalanced
<1>1. LoopIInv => HooksBalanced
  <2> SUFFICES ASSUME LoopIInv, loopPc = "closed", ending # "cancelled_closing"
               PROVE  /\ fired["session_end"] = 1
                      /\ fired["turn_end"] - fired["turn_start"] \in
                            IF ending = "cancelled" THEN {0, 1} ELSE {0}
    BY DEF HooksBalanced
  <2>1. fired["turn_start"] \in Nat /\ fired["turn_end"] \in Nat
    BY DEF LoopIInv, Opened, LifecycleHooks
  <2>2. fired["session_end"] = 1
    BY DEF LoopIInv, Opened, Open, SessionHooks
  <2>3. \/ fired["turn_start"] = fired["turn_end"]
        \/ (ending = "cancelled" /\ fired["turn_start"] + 1 = fired["turn_end"])
    BY DEF LoopIInv, Opened, Open, TurnHooks
  <2>4. QED BY <2>1, <2>2, <2>3
<1>2. QED BY <1>1, LoopInvariance, PTL

\* A tool that is not concurrency-safe never runs beside another one, whatever
\* the model asks for (agent.py, partition_tool_calls).
THEOREM UnsafeAlone == LoopSpec => []UnsafeRunsAlone
<1>1. LoopIInv => UnsafeRunsAlone
  <2> SUFFICES ASSUME LoopIInv, executing # {} PROVE UnsafeRunsAlone
    BY DEF UnsafeRunsAlone
  <2>1. /\ loopPc = "execute" /\ executing \subseteq Batch /\ answered \in Nat /\ answered >= batchAt - 1
        /\ reply \in Seq(Kinds) /\ batchAt \in 1 .. Len(reply) /\ Len(reply) \in Nat
    BY BatchInReply DEF LoopIInv, Responses, InBatch
  <2>2. ASSUME NEW i \in executing, reply[i] # "safe" PROVE executing = {i}
    <3>1. /\ ~Safe(reply[batchAt]) => BatchEnd(reply, batchAt) = batchAt
          /\ Safe(reply[batchAt]) => \A k \in batchAt .. BatchEnd(reply, batchAt) : Safe(reply[k])
      BY <2>1, BatchEnds
    <3>2. i \in batchAt .. BatchEnd(reply, batchAt)
      BY <2>1, <2>2 DEF Batch
    <3>3. BatchEnd(reply, batchAt) = batchAt
      BY <2>2, <3>1, <3>2 DEF Safe
    <3>4. Batch = {batchAt} /\ i = batchAt
      BY <2>1, <3>2, <3>3 DEF Batch
    <3>5. QED BY <2>1, <2>2, <3>4
  <2>3. \A i \in 1 .. Len(reply) : reply[i] # "safe" /\ i < batchAt => i <= answered
    BY <2>1
  <2>4. QED BY <2>1, <2>2, <2>3 DEF UnsafeRunsAlone
<1>2. QED BY <1>1, LoopInvariance, PTL
=============================================================================
