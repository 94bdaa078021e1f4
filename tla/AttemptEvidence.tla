--------------------------- MODULE AttemptEvidence ---------------------------
(***************************************************************************)
(* The evidence of a Job's Attempts: agent log, command log, diff and       *)
(* verification report, each a file in the Artifact store and a row in the  *)
(* database.  An Attempt saves them when its work is over, and once more    *)
(* when its deadline cuts it short (processing/processor.py,                *)
(* artifacts/service.py); the janitors of several Workers remove what has   *)
(* expired, and then the Job (workers/service.py).                          *)
(*                                                                         *)
(* File and row are written by two systems with no transaction over both.   *)
(* Sizes are counted in coarse units; the Artifacts of one Attempt expire   *)
(* together, and a Job's retention ends days after that, as by default      *)
(* (7 and 30 days), so that no janitor pass spans both.                     *)
(***************************************************************************)
EXTENDS Integers, FiniteSets

CONSTANTS
  MaxAttempts,   \* Attempts the Job may come to
  Janitors,      \* Workers, each with its janitor loop
  Batch,         \* most Artifacts and most Jobs of one janitor pass, 100
  MaxArtifact,   \* MEWCODE_PLATFORM_MAX_ARTIFACT_BYTES
  MaxAttempt,    \* MEWCODE_PLATFORM_MAX_ATTEMPT_ARTIFACT_BYTES
  Report,        \* the number of the Artifact saved last, the verification report
  ReportSizes    \* its possible sizes: it is not truncated

ASSUME AttemptsArePositive == MaxAttempts \in Nat \ {0}
ASSUME BatchIsPositive == Batch \in Nat \ {0}
ASSUME LimitsAreOrdered ==
  MaxArtifact \in Nat \ {0} /\ MaxAttempt \in Nat /\ MaxArtifact =< MaxAttempt
ASSUME ReportFollowsDiff == Report \in Nat /\ Report > 1
ASSUME ReportsHaveSizes == ReportSizes \subseteq Nat \ {0}

VARIABLES
  job,        \* the Job: queued, running, ended, succeeded or deleted
  current,    \* its current Attempt's number
  leased,     \* the database honours the current Attempt's lease
  due,        \* retention_until has passed
  at,         \* at[n]: how far process() has come for Attempt n
  kind,       \* kind[n]: the Artifact it is saving
  step,       \* step[n]: the await of persist_bytes it is suspended in
  size,       \* size[n]: the bytes in its hand
  outcome,    \* outcome[n]: how process() ended; "deadline" if nothing but the
              \* limits stood in the way of its evidence
  used,       \* used[n]: bytes in the rows of Attempt n while it is processed
  files,      \* ids with bytes in the store
  rows,       \* ids with a row in artifacts
  expired,    \* Attempts the expires_at of whose Artifacts has passed
  janitor,    \* janitor[j]: what the janitor is doing and what it still has to
  crowded,    \* history: ids whose rows went with the Job in a pass that had not
              \* listed all that had expired
  mishap      \* history: ids whose saving was interrupted or misreported so that
              \* row and bytes may have parted

vars == <<job, current, leased, due, at, kind, step, size, outcome, used,
          files, rows, expired, janitor, crowded, mishap>>

theJob == <<job, current, leased, due>>
theSaving == <<kind, step, size, used>>
theStore == <<files, rows, expired>>

Attempts == 1 .. MaxAttempts
Kinds == 1 .. Report
Rounds == {1, 2}
Ids == Attempts \X Rounds \X Kinds

Job == {"queued", "running", "ended", "succeeded", "deleted"}
At == {"waiting", "working", "saving", "saved", "publishing", "closing", "over"}
Step == {"check", "put", "add", "undo"}
Janitor == [doing : {"idle", "file", "row", "jobs"}, todo : SUBSET Ids, all : BOOLEAN]

\* _persist_evidence: what each of the others, the logs and the diff, is
\* truncated to
LogReserveDivisor == 3
Min2(a, b) == IF a < b THEN a ELSE b
Max2(a, b) == IF a > b THEN a ELSE b
Reserve_OfTotal == Min2(MaxArtifact, MaxAttempt \div LogReserveDivisor)
Reserve == Min2(MaxArtifact, Max2(1, (MaxAttempt - MaxArtifact) \div LogReserveDivisor))

Sizes(k) == IF k = Report THEN ReportSizes ELSE {0, Reserve}

Saving(n) == at[n] \in {"saving", "closing"}
Round(n) == IF at[n] = "closing" THEN 2 ELSE 1
InHand(n) == <<n, Round(n), kind[n]>>
Expired == {id \in rows : id[1] \in expired}

TypeOK ==
  /\ job \in Job /\ current \in 0 .. MaxAttempts
  /\ leased \in BOOLEAN /\ due \in BOOLEAN
  /\ at \in [Attempts -> At]
  /\ kind \in [Attempts -> Kinds]
  /\ step \in [Attempts -> Step]
  /\ size \in [Attempts -> Nat]
  /\ outcome \in [Attempts -> {"none", "published", "failed", "deadline"}]
  /\ used \in [Attempts -> 0 .. MaxAttempt]
  /\ files \subseteq Ids /\ rows \subseteq Ids /\ expired \subseteq Attempts
  /\ janitor \in [Janitors -> Janitor]
  /\ crowded \subseteq Ids /\ mishap \subseteq Ids

Idle == [doing |-> "idle", todo |-> {}, all |-> FALSE]

Init ==
  /\ job = "queued" /\ current = 0 /\ leased = FALSE /\ due = FALSE
  /\ at = [n \in Attempts |-> "waiting"]
  /\ kind = [n \in Attempts |-> 1]
  /\ step = [n \in Attempts |-> "check"]
  /\ size = [n \in Attempts |-> 0]
  /\ outcome = [n \in Attempts |-> "none"]
  /\ used = [n \in Attempts |-> 0]
  /\ files = {} /\ rows = {} /\ expired = {}
  /\ janitor = [j \in Janitors |-> Idle]
  /\ crowded = {} /\ mishap = {}

-----------------------------------------------------------------------------
(* The Job and its lease *)

\* claim_attempt
Claim ==
  /\ job = "queued" /\ current < MaxAttempts
  /\ job' = "running"
  /\ current' = current + 1
  /\ leased' = TRUE
  /\ at' = [at EXCEPT ![current + 1] = "working"]
  /\ UNCHANGED <<due, theSaving, outcome, theStore, janitor, crowded, mishap>>

\* _locked_lease for Attempt n
Holds(n) == leased /\ n = current /\ job = "running"

\* the lease runs out and recovery queues the next Attempt or fails the Job
LoseLease ==
  /\ job = "running"
  /\ leased' = FALSE
  /\ job' \in {"queued", "ended"}
  /\ UNCHANGED <<current, due, at, theSaving, outcome, theStore, janitor, crowded, mishap>>

\* retry_job, or an answer to a Job that needs input: retention is disarmed
Retry ==
  /\ job = "ended"
  /\ job' = "queued"
  /\ due' = FALSE
  /\ UNCHANGED <<current, leased, at, theSaving, outcome, theStore, janitor, crowded, mishap>>

\* process() comes to another part, nothing in its hand
Enter(n, where) ==
  /\ at' = [at EXCEPT ![n] = where]
  /\ kind' = [kind EXCEPT ![n] = 1]
  /\ step' = [step EXCEPT ![n] = "check"]
  /\ size' = [size EXCEPT ![n] = 0]

\* process() returns or raises; finish_attempt is refused without the lease
Over(n, how) ==
  /\ Enter(n, "over")
  /\ outcome' = [outcome EXCEPT ![n] = how]
  /\ used' = [used EXCEPT ![n] = 0]

Finish(n, how) ==
  /\ Over(n, how)
  /\ job' = IF ~Holds(n) THEN job ELSE IF how = "published" THEN "succeeded" ELSE "ended"
  /\ leased' = IF Holds(n) THEN FALSE ELSE leased
  /\ UNCHANGED <<current, due>>

-----------------------------------------------------------------------------
(* Saving one Artifact: persist_bytes *)

GoesOn(n, s) ==
  /\ step' = [step EXCEPT ![n] = s]
  /\ UNCHANGED <<at, kind, outcome>>

\* _persist_evidence raises: ARTIFACT_PERSIST_FAILED, or a deadline cleanup
\* that was incomplete
SavingFails(n) == Finish(n, "failed")

AfterRound(n) == IF at[n] = "saving" THEN "failed" ELSE "deadline"

\* the limits, against the rows the Attempt has by now
Fits(n, s) == s =< MaxArtifact /\ used[n] + s =< MaxAttempt

Check(n) ==
  /\ Saving(n) /\ step[n] = "check"
  /\ \E s \in Sizes(kind[n]) :
       \/ /\ Fits(n, s)
          /\ size' = [size EXCEPT ![n] = s]
          /\ GoesOn(n, "put")
          /\ UNCHANGED <<theJob, used>>
       \/ ~Fits(n, s) /\ Finish(n, AfterRound(n))
  /\ UNCHANGED <<theStore, janitor, crowded, mishap>>

\* LocalArtifactStore.put: a temporary file, renamed
Put(n) ==
  /\ Saving(n) /\ step[n] = "put"
  /\ files' = files \union {InHand(n)}
  /\ GoesOn(n, "add")
  /\ UNCHANGED <<theJob, size, used, rows, expired, janitor, crowded, mishap>>

\* put or the query of the Attempt's bytes raises, no bytes left behind
SaveRaises(n) ==
  /\ Saving(n) /\ step[n] \in {"check", "put"}
  /\ SavingFails(n)
  /\ UNCHANGED <<theStore, janitor, crowded, mishap>>

RowAdded(n) == rows' = rows \union {InHand(n)}
Counted(n) == used' = [used EXCEPT ![n] = @ + size[n]]

\* add_artifact_fenced commits; the next Artifact, or the round is complete.
\* A complete first round is the way to publication unless the Attempt's work
\* had failed.
Add(n) ==
  /\ Saving(n) /\ step[n] = "add"
  /\ Holds(n)
  /\ RowAdded(n)
  /\ \/ /\ kind[n] # Report
        /\ kind' = [kind EXCEPT ![n] = @ + 1]
        /\ step' = [step EXCEPT ![n] = "check"]
        /\ size' = [size EXCEPT ![n] = 0]
        /\ Counted(n)
        /\ UNCHANGED <<theJob, at, outcome>>
     \/ /\ kind[n] = Report /\ at[n] = "saving"
        /\ Enter(n, "saved")
        /\ Counted(n)
        /\ UNCHANGED <<theJob, outcome>>
     \/ kind[n] = Report /\ Finish(n, AfterRound(n))
  /\ UNCHANGED <<files, expired, janitor, crowded, mishap>>

\* it raises: LeaseLost or a database error before the commit
AddRefused(n) ==
  /\ Saving(n) /\ step[n] = "add"
  /\ GoesOn(n, "undo")
  /\ UNCHANGED <<theJob, size, used, theStore, janitor, crowded, mishap>>

\* the connection is lost after the commit
AddUnheard(n) ==
  /\ Saving(n) /\ step[n] = "add"
  /\ Holds(n)
  /\ RowAdded(n) /\ Counted(n)
  /\ GoesOn(n, "undo")
  /\ mishap' = mishap \union {InHand(n)}
  /\ UNCHANGED <<theJob, size, files, expired, janitor, crowded>>

\* the file is deleted, which may raise, and the exception goes on
Undo(n) ==
  /\ Saving(n) /\ step[n] = "undo"
  /\ \/ files' = files \ {InHand(n)} /\ UNCHANGED mishap
     \/ mishap' = mishap \union {InHand(n)} /\ UNCHANGED files
  /\ SavingFails(n)
  /\ UNCHANGED <<rows, expired, janitor, crowded>>

-----------------------------------------------------------------------------
(* Around it: process() *)

\* the work is over, the executor closed; without a workspace archive
\* nothing is saved
WorkEnds(n) ==
  /\ at[n] = "working"
  /\ \/ Enter(n, "saving") /\ UNCHANGED <<theJob, used, outcome>>
     \/ Finish(n, "failed")
  /\ UNCHANGED <<theStore, janitor, crowded, mishap>>

\* report_stage(PUBLISHING), or a cancellation seen before or by it
EnterPublishing(n) ==
  /\ at[n] = "saved"
  /\ \/ /\ Holds(n)
        /\ at' = [at EXCEPT ![n] = "publishing"]
        /\ UNCHANGED <<theJob, theSaving, outcome>>
     \/ Finish(n, "failed")
  /\ UNCHANGED <<theStore, janitor, crowded, mishap>>

PublishEnds(n) ==
  /\ at[n] = "publishing"
  /\ Finish(n, "published") \/ Finish(n, "failed")
  /\ UNCHANGED <<theStore, janitor, crowded, mishap>>

\* A cancellation hits the await persist_bytes is suspended in: the thread
\* writing the file goes on, a commit has been reached or has not, and the
\* exception is none that has the file deleted.
Interrupted(n) ==
  \/ /\ Saving(n) => step[n] \in {"check", "put"}
     /\ UNCHANGED <<files, rows, mishap>>
  \/ /\ Saving(n) /\ step[n] = "put"
     /\ files' = files \union {InHand(n)}
     /\ mishap' = mishap \union {InHand(n)}
     /\ UNCHANGED rows
  \/ /\ Saving(n) /\ step[n] = "add"
     /\ Holds(n) /\ RowAdded(n)
     /\ UNCHANGED <<files, mishap>>
  \/ /\ Saving(n) /\ step[n] \in {"add", "undo"}
     /\ mishap' = mishap \union {InHand(n)}
     /\ UNCHANGED <<files, rows>>
  \/ /\ Saving(n) /\ step[n] = "undo"
     /\ files' = files \ {InHand(n)}
     /\ UNCHANGED <<rows, mishap>>

\* The Attempt's deadline: with what has been exported, the evidence is saved
\* from the start, in the 30 seconds left.  (A publication it interrupts is
\* replayed first.)
Deadline(n) ==
  /\ at[n] \in {"working", "saving", "saved", "publishing"}
  /\ Interrupted(n)
  /\ Enter(n, "closing")
  /\ IF rows' = rows THEN UNCHANGED used ELSE Counted(n)
  /\ UNCHANGED <<theJob, outcome, expired, janitor, crowded>>

\* the 30 seconds are over, or the executor could not be closed
CleanupCutShort(n) ==
  /\ at[n] = "closing"
  /\ Interrupted(n)
  /\ Finish(n, "failed")
  /\ UNCHANGED <<expired, janitor, crowded>>

\* the task is cancelled for good (drain, lease lost) or its process killed
Cut(n) ==
  /\ at[n] \notin {"waiting", "over"}
  /\ Interrupted(n)
  /\ Over(n, "failed")
  /\ UNCHANGED <<theJob, expired, janitor, crowded>>

-----------------------------------------------------------------------------
(* Retention *)

\* artifact_retention_days after Attempt n
Expire(n) ==
  /\ at[n] = "over"
  /\ expired' = expired \union {n}
  /\ UNCHANGED <<theJob, at, theSaving, outcome, files, rows, janitor, crowded, mishap>>

\* metadata_retention_days after the Job's end
RetentionPasses ==
  /\ job \in {"ended", "succeeded"}
  /\ rows = Expired
  /\ \A n \in Attempts : at[n] \in {"waiting", "over"}
  /\ \A j \in Janitors : janitor[j] = Idle
  /\ due' = TRUE
  /\ UNCHANGED <<job, current, leased, at, theSaving, outcome, theStore, janitor, crowded, mishap>>

NotAfter(a, b) ==
  \/ a[1] < b[1]
  \/ a[1] = b[1] /\ a[2] < b[2]
  \/ a[1] = b[1] /\ a[2] = b[2] /\ a[3] =< b[3]

\* list_expired_artifacts orders by expires_at
Foremost(j, id) ==
  /\ id \in janitor[j].todo
  /\ \A other \in janitor[j].todo : NotAfter(id, other)

Doing(j, what, todo) ==
  janitor' = [janitor EXCEPT ![j] = [doing |-> what, todo |-> todo, all |-> @.all]]

\* What the limit leaves of the list: other Jobs' Artifacts may come before
\* some or all of this Job's.
Listed(found) ==
  /\ found \subseteq Expired /\ Cardinality(found) =< Batch
  /\ \A id \in found, other \in Expired \ found : NotAfter(id, other)

ListExpired(j) ==
  /\ janitor[j].doing = "idle"
  /\ \E found \in SUBSET Expired :
       /\ Listed(found)
       /\ janitor' = [janitor EXCEPT ![j] =
                        [doing |-> IF found = {} THEN "jobs" ELSE "file",
                         todo |-> found, all |-> found = Expired]]
  /\ UNCHANGED <<theJob, at, theSaving, outcome, theStore, crowded, mishap>>

\* LocalArtifactStore.delete: also when the file is not there
DeleteFile(j) ==
  /\ janitor[j].doing = "file"
  /\ \E id \in janitor[j].todo : Foremost(j, id) /\ files' = files \ {id}
  /\ Doing(j, "row", janitor[j].todo)
  /\ UNCHANGED <<theJob, at, theSaving, outcome, rows, expired, crowded, mishap>>

DeleteRow(j) ==
  /\ janitor[j].doing = "row"
  /\ \E id \in janitor[j].todo :
       /\ Foremost(j, id)
       /\ rows' = rows \ {id}
       /\ mishap' = mishap \ {id}
       /\ Doing(j, IF janitor[j].todo = {id} THEN "jobs" ELSE "file", janitor[j].todo \ {id})
  /\ UNCHANGED <<theJob, at, theSaving, outcome, files, expired, crowded>>

PassFails_JobsFirst(j) ==
  /\ janitor[j].doing \in {"file", "row"}
  /\ Doing(j, "jobs", {})
  /\ UNCHANGED <<theJob, at, theSaving, outcome, theStore, crowded, mishap>>

\* an exception ends the pass, as does the end of the process
PassFails(j) ==
  /\ janitor[j].doing # "idle"
  /\ janitor' = [janitor EXCEPT ![j] = Idle]
  /\ UNCHANGED <<theJob, at, theSaving, outcome, theStore, crowded, mishap>>

\* delete_expired_terminal_jobs, with the Artifact rows by cascade; the Job may
\* have to wait behind a batch of others
DeleteJobs(j) ==
  /\ janitor[j].doing = "jobs"
  /\ \/ /\ due /\ job \in {"ended", "succeeded"}
        /\ job' = "deleted" /\ rows' = {}
        /\ crowded' = IF janitor[j].all THEN crowded ELSE crowded \union rows
     \/ UNCHANGED <<job, rows, crowded>>
  /\ janitor' = [janitor EXCEPT ![j] = Idle]
  /\ UNCHANGED <<current, leased, due, at, theSaving, outcome, files, expired, mishap>>

-----------------------------------------------------------------------------
Save(n) == Check(n) \/ Put(n) \/ SaveRaises(n) \/ Add(n) \/ AddRefused(n) \/ AddUnheard(n) \/ Undo(n)
Process(n) == Save(n) \/ WorkEnds(n) \/ EnterPublishing(n) \/ PublishEnds(n) \/ Deadline(n) \/ CleanupCutShort(n) \/ Cut(n)
Clean(j) == ListExpired(j) \/ DeleteFile(j) \/ DeleteRow(j) \/ DeleteJobs(j)

Next ==
  \/ Claim \/ LoseLease \/ Retry \/ RetentionPasses
  \/ \E n \in Attempts : Process(n) \/ Expire(n)
  \/ \E j \in Janitors : Clean(j) \/ PassFails(j)

Spec == Init /\ [][Next]_vars

-----------------------------------------------------------------------------
(* Safety *)

\* docs/adr/0012: "publication is allowed only after ... every required
\* Artifact" is stored.  What a published Attempt refers to has its row and
\* its bytes until it expires, whatever fails, is interrupted or is cleaned
\* up beside it.
PublishedIsBacked ==
  \A n \in Attempts :
    at[n] = "publishing" \/ outcome[n] = "published" =>
      n \in expired \/ \A k \in Kinds : <<n, 1, k>> \in rows \intersect files

\* What the API lists can be downloaded, unless the answer to the very commit
\* was lost and the file deleted for it.
ListedIsThere == rows \ Expired \subseteq files \union mishap

\* docs/platform/phase5-verification-artifacts.md: the janitor deletes Artifact
\* files and metadata first, and then the Jobs beyond their retention.  No bytes
\* stay in the store without a row by which a janitor would find them, except
\* those being saved, those of an interrupted saving, and those of a Job that
\* was deleted in a pass whose limited list did not hold all that had expired
\* (artifacts/service.py:127-135).
OrphanNeedsMishap ==
  \A id \in files \ rows :
    id \in mishap \union crowded \/ \E n \in Attempts : Saving(n) /\ step[n] \in {"add", "undo"} /\ id = InHand(n)

\* Both rounds stay within the limits if the first has no diff and no report.
\* Under the default limits, 64 and 128 MiB, a report of up to 21 MiB does; with a
\* total of 256 MiB, say, the reserve is 64 MiB and four of five logs take it all.
TwoRoundsFit ==
  \A s \in ReportSizes \union {0} : s =< MaxArtifact /\ (2 * Report - 3) * Reserve + s =< MaxAttempt

\* processor.py:846: a deadline "must leave all four downloadable diagnostic
\* Artifact kinds".  Under limits such as the default ones (TwoRoundsFit) it does
\* when nothing fails in the 30 seconds it has, unless it came between the diff
\* and the report of the first round: then the total limit may have no room for
\* the report of the second.
DeadlineLeavesEvidence ==
  \A n \in Attempts :
    outcome[n] = "deadline" /\ n \notin expired =>
      \/ \A k \in Kinds : \E r \in Rounds : <<n, r, k>> \in rows
      \/ <<n, 1, Report - 1>> \in rows

=============================================================================
