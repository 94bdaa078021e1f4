------------------------- MODULE JobLifecycleProofs -------------------------
(***************************************************************************)
(* What holds of JobLifecycle for every number of Jobs, Workers, Attempts, *)
(* slots and retries: type correctness, the agreement of a Job with its    *)
(* Attempts, and fencing; then, from the one row a transaction writes,     *)
(* what a Requester relies on: the status its event stream tells, when it  *)
(* is too late to cancel, and the contract (JobContract).                  *)
(***************************************************************************)
EXTENDS JobLifecycle, TLAPS

USE DEF AttemptNos

\* The inductive invariant.  JobAttemptAgreement alone is not inductive: that
\* a new Attempt's number is within the table needs the counters of
\* Bookkeeping, and fencing needs every lease in a Worker's hands related to
\* its row (HeldMatchesRow).
IInv == RowsOK /\ JobAttemptAgreement /\ Bookkeeping /\ HeldMatchesRow

\* Agreement and bookkeeping of one Job row r with its Attempts.
RowsAgree(r, rows) ==
  LET created == r.status \notin {"ABSENT", "DELETED"} IN
  /\ ~created => r = NoJob(r.status) /\ \A n \in AttemptNos : rows[n] = Unclaimed("ABSENT")
  /\ created =>
       /\ r.no \in AttemptNos
       /\ <<r.status, rows[r.no].status>> \in AgreeingStatuses
       /\ \A n \in AttemptNos : /\ n < r.no => rows[n].status \in EndedAttemptStatuses
                                /\ n > r.no => rows[n].status = "ABSENT"
       /\ r.inputs < r.no
       /\ r.claims <= r.no
       /\ r.status = "QUEUED" => r.claims < r.no
       /\ r.no + (AutomaticRetryLimit - r.auto) <= MaxAttempts

LEMMA RowsAgreeInv ==
  JobAttemptAgreement /\ Bookkeeping <=> \A j \in Jobs : RowsAgree(job[j], attempt[j])
BY DEF JobAttemptAgreement, Bookkeeping, RowsAgree, Created, Current

LEMMA RowsAgreeInvNext ==
  (\A j \in Jobs : RowsAgree(job'[j], attempt'[j])) => JobAttemptAgreement' /\ Bookkeeping'
BY DEF JobAttemptAgreement, Bookkeeping, RowsAgree, Created, Current

\* Worker w's lease l against the Job row r and its Attempts.
LeaseMatches(w, l, r, rows) ==
  LET a == rows[l.no] IN
  /\ a.status # "QUEUED"
  /\ a.status = "ABSENT" => r.status = "DELETED"
  /\ a.status = "RUNNING" => a.worker = w /\ a.token = l.token /\ l.inputs = r.inputs

LEMMA HeldMatchesRowInv ==
  HeldMatchesRow <=>
    \A w \in Workers : \A l \in held[w] : LeaseMatches(w, l, job[l.job], attempt[l.job])
BY DEF HeldMatchesRow, LeaseMatches

LEMMA HeldMatchesRowInvNext ==
  (\A w \in Workers : \A l \in held'[w] : LeaseMatches(w, l, job'[l.job], attempt'[l.job]))
    => HeldMatchesRow'
BY DEF HeldMatchesRow, LeaseMatches

\* A transaction that writes the rows of one Job keeps the invariant if the
\* rows it writes agree with each other and with the leases held on them.
LEMMA OneJobWritten ==
  ASSUME IInv, NEW j \in Jobs, NEW r \in JobRow, NEW rows \in [AttemptNos -> AttemptRow],
         job' = [job EXCEPT ![j] = r],
         attempt' = [attempt EXCEPT ![j] = rows],
         ahead' \subseteq Jobs \X Jobs,
         held' \in [Workers -> SUBSET Lease],
         RowsAgree(r, rows),
         \A w \in Workers : \A l \in held'[w] :
           IF l.job = j THEN LeaseMatches(w, l, r, rows) ELSE l \in held[w]
  PROVE  IInv'
<1>1. RowsOK'
  BY DEF IInv, RowsOK
<1>2. ASSUME NEW i \in Jobs PROVE RowsAgree(job'[i], attempt'[i])
  <2>1. RowsAgree(job[i], attempt[i])
    BY RowsAgreeInv DEF IInv
  <2>2. CASE i = j
    <3>1. job'[i] = r /\ attempt'[i] = rows
      BY <2>2 DEF IInv, RowsOK
    <3>2. QED
      BY <3>1
  <2>3. CASE i # j
    <3>1. job'[i] = job[i] /\ attempt'[i] = attempt[i]
      BY <2>3 DEF IInv, RowsOK
    <3>2. QED
      BY <3>1, <2>1
  <2>4. QED
    BY <2>2, <2>3
<1>3. JobAttemptAgreement' /\ Bookkeeping'
  BY <1>2, RowsAgreeInvNext
<1>4. ASSUME NEW w \in Workers, NEW l \in held'[w]
      PROVE  LeaseMatches(w, l, job'[l.job], attempt'[l.job])
  <2>1. l.job \in Jobs
    BY DEF Lease
  <2>2. CASE l.job = j
    <3>1. job'[l.job] = r /\ attempt'[l.job] = rows
      BY <2>2 DEF IInv, RowsOK
    <3>2. QED
      BY <3>1, <2>2
  <2>3. CASE l.job # j
    <3>1. job'[l.job] = job[l.job] /\ attempt'[l.job] = attempt[l.job]
      BY <2>1, <2>3 DEF IInv, RowsOK
    <3>2. LeaseMatches(w, l, job[l.job], attempt[l.job])
      BY <2>3, HeldMatchesRowInv DEF IInv
    <3>3. QED
      BY <3>1, <3>2
  <2>4. QED
    BY <2>2, <2>3
<1>5. QED
  BY <1>1, <1>3, <1>4, HeldMatchesRowInvNext DEF IInv

\* What IInv says of one Job, ready for use.
LEMMA RowsOf ==
  ASSUME IInv, NEW j \in Jobs
  PROVE  /\ job[j] \in JobRow
         /\ attempt[j] \in [AttemptNos -> AttemptRow]
         /\ RowsAgree(job[j], attempt[j])
         /\ \A w \in Workers : \A l \in held[w] :
              l \in Lease /\ (l.job = j => LeaseMatches(w, l, job[j], attempt[j]))
BY RowsAgreeInv, HeldMatchesRowInv DEF IInv, RowsOK

LEMMA CreateJobStep ==
  ASSUME IInv, NEW j \in Jobs, CreateJob(j) PROVE IInv'
<1> DEFINE rows == [attempt[j] EXCEPT ![1] = Unclaimed("QUEUED")]
<1> USE BoundAssumption, RetryAssumption, LeaseAssumption
<1>1. /\ job[j].status = "ABSENT"
      /\ \A n \in AttemptNos : attempt[j][n] = Unclaimed("ABSENT")
  BY RowsOf DEF CreateJob, RowsAgree
<1>2. NewJob \in JobRow
  BY DEF NewJob, JobRow, JobStatuses, NoStage
<1>3. rows \in [AttemptNos -> AttemptRow]
  BY RowsOf DEF AttemptRow, Unclaimed, AttemptStatuses
<1>4. RowsAgree(NewJob, rows)
  BY <1>1, <1>3 DEF RowsAgree, NewJob, AgreeingStatuses, Unclaimed
<1>5. /\ job' = [job EXCEPT ![j] = NewJob]
      /\ attempt' = [attempt EXCEPT ![j] = rows]
      /\ held' = held
  BY DEF CreateJob, IInv, RowsOK
<1>6. ahead' \subseteq Jobs \X Jobs
  BY DEF CreateJob, Enqueued, Unlinked, IInv, RowsOK
<1>7. \A w \in Workers : \A l \in held[w] : l.job # j
  BY <1>1, RowsOf DEF LeaseMatches, Unclaimed, Lease
<1>8. held' \in [Workers -> SUBSET Lease]
  BY <1>5 DEF IInv, RowsOK
<1> HIDE DEF rows
<1>9. QED
  BY <1>2, <1>3, <1>4, <1>5, <1>6, <1>7, <1>8, OneJobWritten

LEMMA JobRowNumbers ==
  ASSUME NEW r \in JobRow
  PROVE  r.no \in Nat /\ r.auto \in Nat /\ r.inputs \in Nat /\ r.claims \in Nat
BY BoundAssumption, RetryAssumption DEF JobRow

\* A lease is held only on an Attempt that exists.
LEMMA HeldLeaseNo ==
  ASSUME IInv, NEW j \in Jobs, Created(j),
         NEW w \in Workers, NEW l \in held[w], l.job = j
  PROVE  l.no \in AttemptNos /\ l.no <= job[j].no
<1>1. l \in Lease /\ l.no \in AttemptNos
  BY DEF IInv, RowsOK, Lease
<1>2. attempt[j][l.no].status # "ABSENT"
  BY RowsOf DEF LeaseMatches, Created
<1>3. \A n \in AttemptNos : n > job[j].no => attempt[j][n].status = "ABSENT"
  <2>1. RowsAgree(job[j], attempt[j])
    BY RowsOf
  <2>2. QED
    BY <2>1 DEF RowsAgree, Created
<1>4. job[j].no \in Nat
  BY RowsOf, JobRowNumbers
<1>5. QED
  BY <1>1, <1>2, <1>3, <1>4

LEMMA UnclaimedRow ==
  ASSUME NEW status \in AttemptStatuses \union {"ABSENT"}
  PROVE  Unclaimed(status) \in AttemptRow /\ Unclaimed(status).status = status
BY BoundAssumption, LeaseAssumption DEF Unclaimed, AttemptRow

LEMMA RequeuedRow ==
  ASSUME NEW row \in JobRow, row.no + 1 \in AttemptNos
  PROVE  /\ Requeued(row) \in JobRow
         /\ Requeued(row).no = row.no + 1
         /\ Requeued(row).status = "QUEUED"
         /\ Requeued(row).auto = row.auto
         /\ Requeued(row).inputs = row.inputs
         /\ Requeued(row).claims = row.claims
<1> DEFINE r1 == [row EXCEPT !.no = @ + 1]
           r2 == [r1 EXCEPT !.status = "QUEUED"]
           r3 == [r2 EXCEPT !.stage = NoStage]
           r4 == [r3 EXCEPT !.retention = "none"]
           r5 == [r4 EXCEPT !.told = "QUEUED"]
<1> USE DEF JobRow
<1>1. r1 \in JobRow /\ r1.no = row.no + 1 /\ r1.auto = row.auto
      /\ r1.inputs = row.inputs /\ r1.claims = row.claims
  BY BoundAssumption
<1> HIDE DEF r1
<1>2. r2 \in JobRow /\ r2.no = r1.no /\ r2.auto = r1.auto /\ r2.status = "QUEUED"
      /\ r2.inputs = r1.inputs /\ r2.claims = r1.claims
  BY <1>1 DEF JobStatuses
<1> HIDE DEF r2
<1>3. r3 \in JobRow /\ r3.no = r2.no /\ r3.auto = r2.auto /\ r3.status = "QUEUED"
      /\ r3.inputs = r2.inputs /\ r3.claims = r2.claims
  BY <1>2
<1> HIDE DEF r3
<1>4. r4 \in JobRow /\ r4.no = r3.no /\ r4.auto = r3.auto /\ r4.status = "QUEUED"
      /\ r4.inputs = r3.inputs /\ r4.claims = r3.claims
  BY <1>3
<1> HIDE DEF r4
<1>5. r5 \in JobRow /\ r5.no = r4.no /\ r5.auto = r4.auto /\ r5.status = "QUEUED"
      /\ r5.inputs = r4.inputs /\ r5.claims = r4.claims
  BY <1>4 DEF JobStatuses
<1>6. Requeued(row) = r5
  BY DEF Requeued, r1, r2, r3, r4
<1>7. QED
  BY <1>1, <1>2, <1>3, <1>4, <1>5, <1>6

LEMMA QueuedRowsAgree ==
  ASSUME NEW r \in JobRow, NEW no \in Nat, no + 1 \in AttemptNos,
         NEW rows \in [AttemptNos -> AttemptRow], NEW before \in [AttemptNos -> AttemptRow],
         r.no = no + 1, r.status = "QUEUED", rows[no + 1].status = "QUEUED",
         r.inputs <= no, r.claims <= no,
         no + 1 + (AutomaticRetryLimit - r.auto) <= MaxAttempts,
         \A n \in AttemptNos : n # no + 1 => rows[n] = before[n],
         \A n \in AttemptNos : /\ n <= no => before[n].status \in EndedAttemptStatuses
                               /\ n > no => before[n].status = "ABSENT"
  PROVE  RowsAgree(r, rows)
<1>1. r.auto \in Nat /\ r.inputs \in Nat /\ r.claims \in Nat
  BY JobRowNumbers
<1>2. ASSUME NEW n \in AttemptNos
      PROVE  /\ n < no + 1 => rows[n].status \in EndedAttemptStatuses
             /\ n > no + 1 => rows[n].status = "ABSENT"
  <2>1. n \in Int
    OBVIOUS
  <2>2. CASE n = no + 1
    BY <2>1, <2>2
  <2>3. CASE n # no + 1
    BY <2>1, <2>3
  <2>4. QED
    BY <2>2, <2>3
<1>3. QED
  BY <1>1, <1>2, RetryAssumption DEF RowsAgree, AgreeingStatuses

LEMMA QueueNewAttemptStep ==
  ASSUME IInv, NEW j \in Jobs, Created(j),
         NEW row \in JobRow, NEW attempts \in [AttemptNos -> AttemptRow],
         QueueNewAttempt(j, row, attempts), held' = held,
         row.no = job[j].no, row.no \in AttemptNos,
         row.no + 1 + (AutomaticRetryLimit - row.auto) <= MaxAttempts,
         row.inputs <= row.no, row.claims <= row.no,
         \A n \in AttemptNos : /\ n <= row.no => attempts[n].status \in EndedAttemptStatuses
                               /\ n > row.no => attempts[n].status = "ABSENT"
  PROVE  IInv'
<1> DEFINE r == Requeued(row)
           rows == [attempts EXCEPT ![row.no + 1] = Unclaimed("QUEUED")]
<1> USE BoundAssumption, RetryAssumption, LeaseAssumption
<1>1. row.no + 1 \in AttemptNos
  BY DEF JobRow
<1>2. r \in JobRow
  BY <1>1, RequeuedRow
<1>3. rows \in [AttemptNos -> AttemptRow]
  BY UnclaimedRow DEF AttemptStatuses
<1>4. RowsAgree(r, rows)
  <2>1. /\ r.no = row.no + 1 /\ r.status = "QUEUED" /\ r.auto = row.auto
        /\ r.inputs = row.inputs /\ r.claims = row.claims
    BY <1>1, RequeuedRow
  <2>2. rows[row.no + 1].status = "QUEUED"
    BY <1>1, UnclaimedRow DEF AttemptStatuses
  <2>3. \A n \in AttemptNos : n # row.no + 1 => rows[n] = attempts[n]
    OBVIOUS
  <2>4. row.inputs \in Nat /\ row.claims \in Nat /\ row.no \in Nat /\ row.auto \in Nat
    BY JobRowNumbers
  <2> HIDE DEF rows, r
  <2>5. rows \in [AttemptNos -> AttemptRow] /\ r \in JobRow
    BY <1>2, <1>3 DEF rows, r
  <2>6. QED
    BY <1>1, <2>1, <2>2, <2>3, <2>4, <2>5, QueuedRowsAgree
<1>5. /\ job' = [job EXCEPT ![j] = r]
      /\ attempt' = [attempt EXCEPT ![j] = rows]
  BY DEF QueueNewAttempt
<1>6. ahead' \subseteq Jobs \X Jobs
  BY DEF QueueNewAttempt, Enqueued, Unlinked, IInv, RowsOK
<1>7. \A w \in Workers : \A l \in held[w] : l.job = j => LeaseMatches(w, l, r, rows)
  <2> SUFFICES ASSUME NEW w \in Workers, NEW l \in held[w], l.job = j
               PROVE  LeaseMatches(w, l, r, rows)
    OBVIOUS
  <2>1. l.no \in AttemptNos /\ l.no <= row.no
    BY HeldLeaseNo
  <2>2. rows[l.no].status \in EndedAttemptStatuses
    BY <2>1 DEF JobRow
  <2>3. QED
    BY <2>2 DEF LeaseMatches, EndedAttemptStatuses
<1>8. held' \in [Workers -> SUBSET Lease]
  BY DEF IInv, RowsOK
<1> HIDE DEF rows, r
<1>9. QED
  BY <1>2, <1>3, <1>4, <1>5, <1>6, <1>7, <1>8, OneJobWritten

\* A Job that waits for its Requester has only ended Attempts.
LEMMA AttemptsEnded ==
  ASSUME IInv, NEW j \in Jobs, job[j].status \in {"NEEDS_INPUT", "FAILED"}
  PROVE  /\ Created(j)
         /\ job[j].no \in AttemptNos
         /\ job[j].inputs < job[j].no /\ job[j].claims <= job[j].no
         /\ \A n \in AttemptNos :
              /\ n <= job[j].no => attempt[j][n].status \in EndedAttemptStatuses
              /\ n > job[j].no => attempt[j][n].status = "ABSENT"
BY RowsOf DEF RowsAgree, Created, JobRow, AgreeingStatuses, EndedAttemptStatuses

LEMMA AddInputStep ==
  ASSUME IInv, NEW j \in Jobs, AddInput(j) PROVE IInv'
<1> DEFINE row == [job[j] EXCEPT !.inputs = @ + 1]
<1> USE BoundAssumption, RetryAssumption
<1>1. job[j].status = "NEEDS_INPUT"
  BY DEF AddInput
<1>2. row \in JobRow
  BY <1>1, AttemptsEnded, RowsOf, SMTT(30) DEF JobRow
<1>3. /\ row.no = job[j].no /\ row.auto = job[j].auto
      /\ row.claims = job[j].claims /\ row.inputs <= job[j].no
  BY <1>1, AttemptsEnded, RowsOf DEF JobRow
<1>4. row.no + 1 + (AutomaticRetryLimit - row.auto) <= MaxAttempts
  BY <1>3, RowsOf DEF AddInput, RoomForReopening, JobRow
<1>5. QueueNewAttempt(j, row, attempt[j]) /\ held' = held
  BY DEF AddInput
<1> HIDE DEF row
<1>6. QED
  BY <1>1, <1>2, <1>3, <1>4, <1>5, AttemptsEnded, RowsOf, QueueNewAttemptStep

LEMMA RetryJobStep ==
  ASSUME IInv, NEW j \in Jobs, RetryJob(j) PROVE IInv'
<1> USE BoundAssumption, RetryAssumption
<1>1. job[j].status = "FAILED"
  BY DEF RetryJob
<1>2. job[j].no + 1 + (AutomaticRetryLimit - job[j].auto) <= MaxAttempts
  BY RowsOf DEF RetryJob, RoomForReopening, JobRow
<1>3. job[j].inputs <= job[j].no
  BY <1>1, AttemptsEnded, RowsOf DEF JobRow
<1>4. QueueNewAttempt(j, job[j], attempt[j]) /\ held' = held
  BY DEF RetryJob
<1>5. QED
  BY <1>1, <1>2, <1>3, <1>4, AttemptsEnded, RowsOf, QueueNewAttemptStep

\* An expired lease belongs to a running Attempt of a running or cancelling Job.
LEMMA ExpiredRows ==
  ASSUME IInv, NEW j \in Jobs, Expired(j)
  PROVE  /\ Created(j)
         /\ job[j].no \in AttemptNos
         /\ attempt[j][job[j].no].status = "RUNNING"
         /\ job[j].status \in {"RUNNING", "CANCEL_REQUESTED"}
         /\ job[j].inputs < job[j].no /\ job[j].claims <= job[j].no
         /\ job[j].no + (AutomaticRetryLimit - job[j].auto) <= MaxAttempts
         /\ \A n \in AttemptNos :
              /\ n < job[j].no => attempt[j][n].status \in EndedAttemptStatuses
              /\ n > job[j].no => attempt[j][n].status = "ABSENT"
BY RowsOf DEF Expired, Current, Created, RowsAgree, AgreeingStatuses, Unclaimed

LEMMA LeaseExpiredRow ==
  ASSUME NEW a \in AttemptRow
  PROVE  LeaseExpired(a) \in AttemptRow /\ LeaseExpired(a).status = "FAILED"
BY DEF AttemptRow, AttemptStatuses, LeaseExpired

LEMMA RecoverRetriedStep ==
  ASSUME IInv, NEW j \in Jobs, RecoverRetried(j) PROVE IInv'
<1> DEFINE row == [job[j] EXCEPT !.auto = @ + 1]
           rows == [attempt[j] EXCEPT ![job[j].no] = LeaseExpired(@)]
<1> USE BoundAssumption, RetryAssumption
<1>1. Expired(j) /\ job[j].auto < AutomaticRetryLimit
  BY DEF RecoverRetried
<1>2. row \in JobRow
  <2>1. job[j] \in JobRow
    BY RowsOf
  <2>2. job[j].auto + 1 \in 0..AutomaticRetryLimit
    BY <1>1, <2>1 DEF JobRow
  <2>3. QED
    BY <2>1, <2>2 DEF JobRow
<1>3. rows \in [AttemptNos -> AttemptRow]
  BY <1>1, ExpiredRows, RowsOf, LeaseExpiredRow
<1>4. /\ row.no = job[j].no /\ row.auto = job[j].auto + 1
      /\ row.claims = job[j].claims /\ row.inputs = job[j].inputs
  BY RowsOf DEF JobRow
<1>5. \A n \in AttemptNos : /\ n <= row.no => rows[n].status \in EndedAttemptStatuses
                            /\ n > row.no => rows[n].status = "ABSENT"
  BY <1>1, <1>4, ExpiredRows, RowsOf, LeaseExpiredRow DEF EndedAttemptStatuses, JobRow
<1>6. QueueNewAttempt(j, row, rows) /\ held' = held
  BY DEF RecoverRetried
<1>7. row.no + 1 + (AutomaticRetryLimit - row.auto) <= MaxAttempts
  BY <1>1, <1>4, ExpiredRows, RowsOf DEF JobRow
<1>8. row.inputs <= row.no
  BY <1>1, <1>4, ExpiredRows, RowsOf DEF JobRow
<1> HIDE DEF row, rows
<1>9. QED
  BY <1>1, <1>2, <1>3, <1>4, <1>5, <1>6, <1>7, <1>8, ExpiredRows, QueueNewAttemptStep

\* The Job row of a finished, cancelled or failed Job keeps its counters.
LEMMA EndedRow ==
  ASSUME NEW r \in JobRow, NEW status \in JobStatuses
  PROVE  /\ Ended(r, status) \in JobRow
         /\ Ended(r, status).status = status
         /\ Ended(r, status).no = r.no
         /\ Ended(r, status).auto = r.auto
         /\ Ended(r, status).inputs = r.inputs
         /\ Ended(r, status).claims = r.claims
<1> DEFINE r1 == [r EXCEPT !.status = status]
           r2 == [r1 EXCEPT !.told = status]
           r3 == [r2 EXCEPT !.retention = "running"]
<1> USE DEF JobRow
<1>1. r1 \in JobRow /\ r1.no = r.no /\ r1.auto = r.auto /\ r1.status = status
      /\ r1.inputs = r.inputs /\ r1.claims = r.claims
  OBVIOUS
<1> HIDE DEF r1
<1>2. r2 \in JobRow /\ r2.no = r1.no /\ r2.auto = r1.auto /\ r2.status = r1.status
      /\ r2.inputs = r1.inputs /\ r2.claims = r1.claims
  BY <1>1
<1> HIDE DEF r2
<1>3. r3 \in JobRow /\ r3.no = r2.no /\ r3.auto = r2.auto /\ r3.status = r2.status
      /\ r3.inputs = r2.inputs /\ r3.claims = r2.claims
  BY <1>2
<1>4. Ended(r, status) = r3
  BY DEF Ended, r1, r2
<1>5. QED
  BY <1>1, <1>2, <1>3, <1>4

\* Writing a Job row with the same counters, and an ended current Attempt
\* that goes with its new status, keeps the rows in agreement.
LEMMA SettledRowsAgree ==
  ASSUME NEW r \in JobRow, NEW rows \in [AttemptNos -> AttemptRow], RowsAgree(r, rows),
         r.status \notin {"ABSENT", "DELETED"},
         NEW q \in JobRow, NEW s \in AttemptStatuses, NEW after \in [AttemptNos -> AttemptRow],
         q.no = r.no, q.auto = r.auto, q.inputs = r.inputs, q.claims = r.claims,
         q.status \notin {"ABSENT", "DELETED", "QUEUED"},
         after[r.no].status = s,
         \A n \in AttemptNos : n # r.no => after[n] = rows[n],
         <<q.status, s>> \in AgreeingStatuses
  PROVE  RowsAgree(q, after)
<1>1. r.no \in Nat /\ r.no \in AttemptNos
  BY JobRowNumbers DEF RowsAgree
<1>2. ASSUME NEW n \in AttemptNos
      PROVE  /\ n < r.no => after[n].status \in EndedAttemptStatuses
             /\ n > r.no => after[n].status = "ABSENT"
  <2>1. n \in Int
    BY <1>1
  <2>2. CASE n = r.no
    BY <1>1, <2>1, <2>2
  <2>3. CASE n # r.no
    BY <1>1, <2>1, <2>3 DEF RowsAgree
  <2>4. QED
    BY <2>2, <2>3
<1>3. QED
  BY <1>1, <1>2 DEF RowsAgree

\* A transaction that ends the current Attempt and gives the Job a status
\* that goes with it keeps the invariant, whatever leases are let go.
LEMMA SettleStep ==
  ASSUME IInv, NEW j \in Jobs, Created(j),
         NEW q \in JobRow, NEW after \in [AttemptNos -> AttemptRow],
         job' = [job EXCEPT ![j] = q], attempt' = [attempt EXCEPT ![j] = after],
         ahead' \subseteq Jobs \X Jobs,
         held' \in [Workers -> SUBSET Lease], \A w \in Workers : held'[w] \subseteq held[w],
         q.no = job[j].no, q.auto = job[j].auto,
         q.inputs = job[j].inputs, q.claims = job[j].claims,
         q.status \notin {"ABSENT", "DELETED", "QUEUED"},
         after[job[j].no].status \in EndedAttemptStatuses,
         <<q.status, after[job[j].no].status>> \in AgreeingStatuses,
         \A n \in AttemptNos : n # job[j].no => after[n] = attempt[j][n]
  PROVE  IInv'
<1>1. job[j].status \notin {"ABSENT", "DELETED"}
  BY DEF Created
<1>2. RowsAgree(q, after)
  <2>1. after[job[j].no].status \in AttemptStatuses
    BY DEF EndedAttemptStatuses, AttemptStatuses
  <2>2. /\ job[j] \in JobRow /\ attempt[j] \in [AttemptNos -> AttemptRow]
        /\ RowsAgree(job[j], attempt[j])
    BY RowsOf
  <2>3. QED
    BY <1>1, <2>1, <2>2, SettledRowsAgree
<1>3. ASSUME NEW w \in Workers, NEW l \in held'[w], l.job = j
      PROVE  LeaseMatches(w, l, q, after)
  <2>1. l \in held[w]
    OBVIOUS
  <2>2. l.no \in AttemptNos /\ l.no <= job[j].no
    BY <1>3, <2>1, HeldLeaseNo
  <2>3. after[l.no].status \in EndedAttemptStatuses
    <3>1. CASE l.no = job[j].no
      BY <3>1
    <3>2. CASE l.no # job[j].no
      <4>1. after[l.no] = attempt[j][l.no] /\ l.no < job[j].no
        BY <2>2, <3>2, RowsOf, JobRowNumbers
      <4>2. RowsAgree(job[j], attempt[j])
        BY RowsOf
      <4>3. QED
        BY <1>1, <2>2, <4>1, <4>2 DEF RowsAgree
    <3>3. QED
      BY <3>1, <3>2
  <2>4. QED
    BY <2>3 DEF LeaseMatches, EndedAttemptStatuses
<1>4. QED
  BY <1>2, <1>3, OneJobWritten

\* Writing status and failure code leaves an Attempt row well formed.
LEMMA AttemptRowWrites ==
  ASSUME NEW a \in AttemptRow, NEW s \in AttemptStatuses
  PROVE  /\ [a EXCEPT !.status = s] \in AttemptRow
         /\ [a EXCEPT !.status = s].status = s
BY DEF AttemptRow

LEMMA CurrentAttempt ==
  ASSUME IInv, NEW j \in Jobs, Created(j)
  PROVE  /\ job[j].no \in AttemptNos
         /\ attempt[j][job[j].no] \in AttemptRow
         /\ <<job[j].status, attempt[j][job[j].no].status>> \in AgreeingStatuses
<1>1. RowsAgree(job[j], attempt[j]) /\ attempt[j] \in [AttemptNos -> AttemptRow]
  BY RowsOf
<1>2. QED
  BY <1>1 DEF RowsAgree, Created

LEMMA CancelWaitingStep ==
  ASSUME IInv, NEW j \in Jobs, CancelWaiting(j) PROVE IInv'
<1> DEFINE q == Ended(job[j], "CANCELLED")
           no == job[j].no
           rows == IF attempt[j][no].status = "QUEUED"
                   THEN [attempt[j] EXCEPT ![no] = [@ EXCEPT !.status = "CANCELLED"]]
                   ELSE attempt[j]
<1>1. job[j].status \in {"QUEUED", "NEEDS_INPUT"} /\ Created(j)
  BY DEF CancelWaiting, Created
<1>2. /\ no \in AttemptNos
      /\ attempt[j][no] \in AttemptRow
      /\ attempt[j][no].status \in {"QUEUED", "NEEDS_INPUT"}
  BY <1>1, CurrentAttempt DEF AgreeingStatuses
<1>3. q \in JobRow /\ q.status = "CANCELLED" /\ q.no = no /\ q.auto = job[j].auto
      /\ q.inputs = job[j].inputs /\ q.claims = job[j].claims
  BY RowsOf, EndedRow DEF JobStatuses
<1>4. attempt[j] \in [AttemptNos -> AttemptRow]
  BY RowsOf
<1>5. /\ rows \in [AttemptNos -> AttemptRow]
      /\ rows[no].status \in {"CANCELLED", "NEEDS_INPUT"}
      /\ \A n \in AttemptNos : n # no => rows[n] = attempt[j][n]
  BY <1>2, <1>4, AttemptRowWrites DEF AttemptStatuses
<1>6. job' = [job EXCEPT ![j] = q]
  BY DEF CancelWaiting
<1>7. attempt' = [attempt EXCEPT ![j] = rows]
  BY DEF CancelWaiting, Current, IInv, RowsOK
<1>8. ahead' \subseteq Jobs \X Jobs /\ held' = held /\ held \in [Workers -> SUBSET Lease]
  BY DEF CancelWaiting, Unlinked, IInv, RowsOK
<1>9. rows[no].status \in EndedAttemptStatuses /\ <<q.status, rows[no].status>> \in AgreeingStatuses
  BY <1>3, <1>5 DEF EndedAttemptStatuses, AgreeingStatuses
<1> HIDE DEF q, rows
<1>10. QED
  BY <1>1, <1>3, <1>5, <1>6, <1>7, <1>8, <1>9, SettleStep

LEMMA RecoverCancelledStep ==
  ASSUME IInv, NEW j \in Jobs, RecoverCancelled(j) PROVE IInv'
<1> DEFINE q == Ended(job[j], "CANCELLED")
           no == job[j].no
           rows == [attempt[j] EXCEPT ![no] = [@ EXCEPT !.status = "CANCELLED"]]
<1>1. Expired(j) /\ Created(j) /\ no \in AttemptNos
  BY ExpiredRows DEF RecoverCancelled
<1>2. q \in JobRow /\ q.status = "CANCELLED" /\ q.no = no /\ q.auto = job[j].auto
      /\ q.inputs = job[j].inputs /\ q.claims = job[j].claims
  BY RowsOf, EndedRow DEF JobStatuses
<1>3. attempt[j] \in [AttemptNos -> AttemptRow]
  BY RowsOf
<1>4. /\ rows \in [AttemptNos -> AttemptRow]
      /\ rows[no].status = "CANCELLED"
      /\ \A n \in AttemptNos : n # no => rows[n] = attempt[j][n]
  BY <1>1, <1>3, AttemptRowWrites DEF AttemptStatuses
<1>5. job' = [job EXCEPT ![j] = q] /\ attempt' = [attempt EXCEPT ![j] = rows]
  BY DEF RecoverCancelled
<1>6. ahead' \subseteq Jobs \X Jobs /\ held' = held /\ held \in [Workers -> SUBSET Lease]
  BY DEF RecoverCancelled, IInv, RowsOK
<1>7. rows[no].status \in EndedAttemptStatuses /\ <<q.status, rows[no].status>> \in AgreeingStatuses
  BY <1>2, <1>4 DEF EndedAttemptStatuses, AgreeingStatuses
<1> HIDE DEF q, rows
<1>8. QED
  BY <1>1, <1>2, <1>4, <1>5, <1>6, <1>7, SettleStep

LEMMA RecoverFailedStep ==
  ASSUME IInv, NEW j \in Jobs, RecoverFailed(j) PROVE IInv'
<1> DEFINE q == Ended(job[j], "FAILED")
           no == job[j].no
           rows == [attempt[j] EXCEPT ![no] = LeaseExpired(@)]
<1>1. Expired(j) /\ Created(j) /\ no \in AttemptNos
  BY ExpiredRows DEF RecoverFailed
<1>2. q \in JobRow /\ q.status = "FAILED" /\ q.no = no /\ q.auto = job[j].auto
      /\ q.inputs = job[j].inputs /\ q.claims = job[j].claims
  BY RowsOf, EndedRow DEF JobStatuses
<1>3. attempt[j] \in [AttemptNos -> AttemptRow]
  BY RowsOf
<1>4. /\ rows \in [AttemptNos -> AttemptRow]
      /\ rows[no].status = "FAILED"
      /\ \A n \in AttemptNos : n # no => rows[n] = attempt[j][n]
  BY <1>1, <1>3, LeaseExpiredRow
<1>5. job' = [job EXCEPT ![j] = q] /\ attempt' = [attempt EXCEPT ![j] = rows]
  BY DEF RecoverFailed
<1>6. ahead' \subseteq Jobs \X Jobs /\ held' = held /\ held \in [Workers -> SUBSET Lease]
  BY DEF RecoverFailed, IInv, RowsOK
<1>7. rows[no].status \in EndedAttemptStatuses /\ <<q.status, rows[no].status>> \in AgreeingStatuses
  BY <1>2, <1>4 DEF EndedAttemptStatuses, AgreeingStatuses
<1> HIDE DEF q, rows
<1>8. QED
  BY <1>1, <1>2, <1>4, <1>5, <1>6, <1>7, SettleStep

LEMMA SettleHeld ==
  ASSUME IInv, NEW w \in Workers, NEW l \in held[w],
         held' = [held EXCEPT ![w] = @ \ {l}]
  PROVE  held' \in [Workers -> SUBSET Lease] /\ \A v \in Workers : held'[v] \subseteq held[v]
BY DEF IInv, RowsOK

\* A fenced lease is on the current, running Attempt of a live Job.
LEMMA FencedRows ==
  ASSUME IInv, NEW w \in Workers, NEW l \in held[w], Fenced(w, l)
  PROVE  /\ l.job \in Jobs /\ l.no \in AttemptNos
         /\ job[l.job].no = l.no
         /\ Created(l.job)
         /\ attempt[l.job][l.no] \in AttemptRow
         /\ attempt[l.job][l.no].status = "RUNNING"
         /\ job[l.job].status \in {"RUNNING", "CANCEL_REQUESTED"}
<1>1. l.job \in Jobs /\ l.no \in AttemptNos
  BY DEF IInv, RowsOK, Lease
<1>2. job[l.job].no = l.no /\ attempt[l.job][l.no].status = "RUNNING"
  BY DEF Fenced
<1>3. RowsAgree(job[l.job], attempt[l.job]) /\ attempt[l.job] \in [AttemptNos -> AttemptRow]
  BY <1>1, RowsOf
<1>4. Created(l.job)
  BY <1>1, <1>2, <1>3 DEF RowsAgree, Created, Unclaimed
<1>5. job[l.job].status \in {"RUNNING", "CANCEL_REQUESTED"}
  BY <1>1, <1>2, <1>4, CurrentAttempt DEF AgreeingStatuses
<1>6. QED
  BY <1>1, <1>2, <1>3, <1>4, <1>5

LEMMA FinishedRows ==
  ASSUME NEW r \in JobRow, NEW a \in AttemptRow, NEW s \in OutcomeStatuses, NEW e \in BOOLEAN
  PROVE  /\ FinishedJob(r, s, e) \in JobRow
         /\ FinishedJob(r, s, e).no = r.no /\ FinishedJob(r, s, e).auto = r.auto
         /\ FinishedJob(r, s, e).inputs = r.inputs /\ FinishedJob(r, s, e).claims = r.claims
         /\ FinishedJob(r, s, e).status \notin {"ABSENT", "DELETED", "QUEUED"}
         /\ FinishedAttempt(a, s) \in AttemptRow
         /\ FinishedAttempt(a, s).status \in EndedAttemptStatuses
         /\ <<FinishedJob(r, s, e).status, FinishedAttempt(a, s).status>> \in AgreeingStatuses
<1> DEFINE row == [r EXCEPT !.stage = "CLEANING_UP"]
<1>1. row \in JobRow /\ row.no = r.no /\ row.auto = r.auto
      /\ row.inputs = r.inputs /\ row.claims = r.claims
  BY DEF JobRow, AttemptStages
<1>2. FinishedAttempt(a, s) \in AttemptRow /\ FinishedAttempt(a, s).status = s
  <2> DEFINE a1 == [a EXCEPT !.status = s]
             a2 == [a1 EXCEPT !.ttl = 0]
             c == IF s = "FAILED" THEN "ATTEMPT_FAILED" ELSE a2.code
  <2>1. a1 \in AttemptRow /\ a1.status = s /\ a1.code = a.code
    BY AttemptRowWrites DEF AttemptRow, OutcomeStatuses, AttemptStatuses
  <2> HIDE DEF a1
  <2>2. a2 \in AttemptRow /\ a2.status = s /\ a2.code = a.code
    BY <2>1, LeaseAssumption DEF AttemptRow
  <2> HIDE DEF a2
  <2>3. [a2 EXCEPT !.code = c] \in AttemptRow /\ [a2 EXCEPT !.code = c].status = s
    BY <2>2 DEF AttemptRow
  <2>4. FinishedAttempt(a, s) = [a2 EXCEPT !.code = c]
    BY <2>2 DEF FinishedAttempt, a1, a2
  <2>5. QED
    BY <2>3, <2>4
<1> DEFINE q == FinishedJob(r, s, e)
<1>3. CASE s = "COMPLETED"
  <2> DEFINE f == Ended(row, "SUCCEEDED")
  <2>1. f \in JobRow /\ f.no = r.no /\ f.auto = r.auto /\ f.inputs = r.inputs
        /\ f.claims = r.claims /\ f.status = "SUCCEEDED"
    BY <1>1, EndedRow DEF JobStatuses
  <2>2. q = [f EXCEPT !.evidence = e]
    BY <1>3 DEF FinishedJob
  <2> HIDE DEF f, q
  <2>3. q \in JobRow /\ q.no = r.no /\ q.auto = r.auto /\ q.inputs = r.inputs
        /\ q.claims = r.claims /\ q.status = "SUCCEEDED"
    BY <2>1, <2>2 DEF JobRow
  <2>4. QED
    BY <1>2, <1>3, <2>3 DEF q, EndedAttemptStatuses, AgreeingStatuses
<1>4. CASE s = "NEEDS_INPUT"
  <2> DEFINE f == [row EXCEPT !.status = "NEEDS_INPUT"]
  <2>1. f \in JobRow /\ f.no = r.no /\ f.auto = r.auto /\ f.inputs = r.inputs
        /\ f.claims = r.claims /\ f.status = "NEEDS_INPUT"
    <3> HIDE DEF row
    <3>1. QED
      BY <1>1 DEF JobRow, JobStatuses
  <2>2. q = [f EXCEPT !.told = "NEEDS_INPUT"]
    BY <1>4 DEF FinishedJob
  <2> HIDE DEF f, q
  <2>3. q \in JobRow /\ q.no = r.no /\ q.auto = r.auto /\ q.inputs = r.inputs
        /\ q.claims = r.claims /\ q.status = "NEEDS_INPUT"
    BY <2>1, <2>2 DEF JobRow, JobStatuses
  <2>4. QED
    BY <1>2, <1>4, <2>3 DEF q, EndedAttemptStatuses, AgreeingStatuses
<1>5. CASE s \in {"CANCELLED", "FAILED"}
  <2>1. q = Ended(row, s)
    BY <1>5 DEF FinishedJob
  <2>2. q \in JobRow /\ q.no = r.no /\ q.auto = r.auto /\ q.inputs = r.inputs
        /\ q.claims = r.claims /\ q.status = s
    <3>1. s \in JobStatuses
      BY <1>5 DEF JobStatuses
    <3> HIDE DEF row, q
    <3>2. QED
      BY <1>1, <2>1, <3>1, EndedRow
  <2>3. QED
    BY <1>2, <1>5, <2>2 DEF EndedAttemptStatuses, AgreeingStatuses
<1>6. QED
  BY <1>3, <1>4, <1>5 DEF OutcomeStatuses

LEMMA FinishStep ==
  ASSUME IInv, NEW w \in Workers, NEW l \in held[w], NEW o \in Outcomes, Finish(w, l, o)
  PROVE  IInv'
<1> DEFINE j == l.job
           s == EffectiveStatus(j, o)
           q == FinishedJob(job[j], s, o.evidence)
           a == FinishedAttempt(attempt[j][l.no], s)
           rows == [attempt[j] EXCEPT ![l.no] = a]
<1>1. /\ j \in Jobs /\ l.no \in AttemptNos /\ job[j].no = l.no
      /\ Created(j) /\ attempt[j][l.no] \in AttemptRow
  BY FencedRows DEF Finish
<1>2. s \in OutcomeStatuses /\ o.evidence \in BOOLEAN
  <2>1. o.status \in OutcomeStatuses /\ o.evidence \in BOOLEAN
    <3>1. CASE o = [status |-> "COMPLETED", evidence |-> TRUE]
      BY <3>1 DEF OutcomeStatuses
    <3>2. CASE o \in [status : OutcomeStatuses, evidence : {FALSE}]
      BY <3>2
    <3>3. QED
      BY <3>1, <3>2 DEF Outcomes
  <2>2. QED
    BY <2>1 DEF EffectiveStatus, OutcomeStatuses
<1>3. job[j] \in JobRow /\ attempt[j] \in [AttemptNos -> AttemptRow]
  BY <1>1, RowsOf
<1>4. job' = [job EXCEPT ![j] = q] /\ attempt' = [attempt EXCEPT ![j] = rows]
  BY DEF Finish
<1>5. ahead' \subseteq Jobs \X Jobs
  BY DEF Finish, IInv, RowsOK
<1>6. held' \in [Workers -> SUBSET Lease] /\ \A v \in Workers : held'[v] \subseteq held[v]
  BY SettleHeld DEF Finish
<1> HIDE DEF s
<1>7. /\ q \in JobRow /\ q.no = job[j].no /\ q.auto = job[j].auto
      /\ q.inputs = job[j].inputs /\ q.claims = job[j].claims
      /\ q.status \notin {"ABSENT", "DELETED", "QUEUED"}
      /\ a \in AttemptRow /\ a.status \in EndedAttemptStatuses
      /\ <<q.status, a.status>> \in AgreeingStatuses
  BY <1>1, <1>2, <1>3, FinishedRows
<1> HIDE DEF q, a
<1>8. /\ rows \in [AttemptNos -> AttemptRow] /\ rows[l.no] = a
      /\ \A n \in AttemptNos : n # l.no => rows[n] = attempt[j][n]
  BY <1>1, <1>3, <1>7
<1> HIDE DEF rows, j
<1>9. QED
  BY <1>1, <1>4, <1>5, <1>6, <1>7, <1>8, SettleStep

\* A transaction that writes only the Job row, to a status that still goes
\* with the current Attempt, keeps the invariant.
LEMMA JobOnlyStep ==
  ASSUME IInv, NEW j \in Jobs, Created(j),
         NEW q \in JobRow, job' = [job EXCEPT ![j] = q], UNCHANGED <<attempt, ahead, held>>,
         q.no = job[j].no, q.auto = job[j].auto,
         q.inputs = job[j].inputs, q.claims = job[j].claims,
         q.status \notin {"ABSENT", "DELETED"},
         q.status = "QUEUED" => job[j].status = "QUEUED",
         <<q.status, attempt[j][job[j].no].status>> \in AgreeingStatuses
  PROVE  IInv'
<1>1. job[j] \in JobRow /\ RowsAgree(job[j], attempt[j]) /\ job[j].status \notin {"ABSENT", "DELETED"}
  BY RowsOf DEF Created
<1>2. RowsAgree(q, attempt[j])
  BY <1>1 DEF RowsAgree
<1>3. attempt[j] \in [AttemptNos -> AttemptRow] /\ attempt' = [attempt EXCEPT ![j] = attempt[j]]
  BY DEF IInv, RowsOK
<1>4. held' = held /\ held' \in [Workers -> SUBSET Lease] /\ ahead' \subseteq Jobs \X Jobs
  BY DEF IInv, RowsOK
<1>5. ASSUME NEW w \in Workers, NEW l \in held[w], l.job = j
      PROVE  LeaseMatches(w, l, q, attempt[j])
  <2>1. LeaseMatches(w, l, job[j], attempt[j])
    BY <1>5, RowsOf
  <2>2. QED
    BY <1>1, <2>1 DEF LeaseMatches
<1>6. QED
  BY <1>2, <1>3, <1>4, <1>5, OneJobWritten

\* The fields a Job-only transaction sets.
LEMMA JobRowWrites ==
  ASSUME NEW r \in JobRow
  PROVE  /\ \A stage \in AttemptStages :
              LET q == [r EXCEPT !.stage = stage] IN
              /\ q \in JobRow /\ q.status = r.status /\ q.no = r.no /\ q.auto = r.auto
              /\ q.inputs = r.inputs /\ q.claims = r.claims
         /\ LET q == [r EXCEPT !.retention = "elapsed"] IN
              /\ q \in JobRow /\ q.status = r.status /\ q.no = r.no /\ q.auto = r.auto
              /\ q.inputs = r.inputs /\ q.claims = r.claims
         /\ LET q == [r EXCEPT !.status = "CANCEL_REQUESTED", !.told = "CANCEL_REQUESTED"] IN
              /\ q \in JobRow /\ q.status = "CANCEL_REQUESTED" /\ q.no = r.no /\ q.auto = r.auto
              /\ q.inputs = r.inputs /\ q.claims = r.claims
BY DEF JobRow, JobStatuses

LEMMA CancelRunningStep ==
  ASSUME IInv, NEW j \in Jobs, CancelRunning(j) PROVE IInv'
<1> DEFINE q == [job[j] EXCEPT !.status = "CANCEL_REQUESTED", !.told = "CANCEL_REQUESTED"]
<1>1. job[j].status = "RUNNING" /\ Created(j)
  BY DEF CancelRunning, Created
<1>2. attempt[j][job[j].no].status = "RUNNING"
  BY <1>1, CurrentAttempt DEF AgreeingStatuses
<1>3. /\ q \in JobRow /\ q.status = "CANCEL_REQUESTED" /\ q.no = job[j].no
      /\ q.auto = job[j].auto /\ q.inputs = job[j].inputs /\ q.claims = job[j].claims
  BY RowsOf, JobRowWrites
<1>4. job' = [job EXCEPT ![j] = q] /\ UNCHANGED <<attempt, ahead, held>>
  BY DEF CancelRunning
<1>5. <<q.status, attempt[j][job[j].no].status>> \in AgreeingStatuses
  BY <1>2, <1>3 DEF AgreeingStatuses
<1> HIDE DEF q
<1>6. QED
  BY <1>1, <1>3, <1>4, <1>5, JobOnlyStep

LEMMA ElapseRetentionStep ==
  ASSUME IInv, NEW j \in Jobs, ElapseRetention(j) PROVE IInv'
<1> DEFINE q == [job[j] EXCEPT !.retention = "elapsed"]
<1>1. Created(j)
  <2>1. RowsAgree(job[j], attempt[j])
    BY RowsOf
  <2>2. QED
    BY <2>1 DEF ElapseRetention, RowsAgree, Created, NoJob
<1>2. /\ q \in JobRow /\ q.status = job[j].status /\ q.no = job[j].no
      /\ q.auto = job[j].auto /\ q.inputs = job[j].inputs /\ q.claims = job[j].claims
  BY RowsOf, JobRowWrites
<1>3. job' = [job EXCEPT ![j] = q] /\ UNCHANGED <<attempt, ahead, held>>
  BY DEF ElapseRetention
<1> HIDE DEF q
<1>4. <<q.status, attempt[j][job[j].no].status>> \in AgreeingStatuses
  BY <1>1, <1>2, CurrentAttempt
<1>5. QED
  BY <1>1, <1>2, <1>3, <1>4, JobOnlyStep DEF Created

LEMMA ReportStageStep ==
  ASSUME IInv, NEW w \in Workers, NEW l \in held[w], NEW stage \in ReportedStages,
         ReportStage(w, l, stage)
  PROVE  IInv'
<1> DEFINE j == l.job
           q == [job[j] EXCEPT !.stage = stage]
<1>1. j \in Jobs /\ Created(j)
  BY FencedRows DEF ReportStage
<1>2. /\ q \in JobRow /\ q.status = job[j].status /\ q.no = job[j].no
      /\ q.auto = job[j].auto /\ q.inputs = job[j].inputs /\ q.claims = job[j].claims
  BY <1>1, RowsOf, JobRowWrites, StageAssumption, ZenonT(40)
<1>3. job' = [job EXCEPT ![j] = q] /\ UNCHANGED <<attempt, ahead, held>>
  BY DEF ReportStage
<1> HIDE DEF q, j
<1>4. <<q.status, attempt[j][job[j].no].status>> \in AgreeingStatuses
  BY <1>1, <1>2, CurrentAttempt
<1>5. QED
  BY <1>1, <1>2, <1>3, <1>4, JobOnlyStep DEF Created

\* Moving now() or renewing a lease changes ttl fields only.
LEMMA OnlyTtlStep ==
  ASSUME IInv, UNCHANGED <<job, ahead, held>>,
         attempt' \in [Jobs -> [AttemptNos -> AttemptRow]],
         \A j \in Jobs, n \in AttemptNos :
           /\ attempt'[j][n].status = attempt[j][n].status
           /\ attempt'[j][n].worker = attempt[j][n].worker
           /\ attempt'[j][n].token = attempt[j][n].token
           /\ attempt[j][n] = Unclaimed("ABSENT") => attempt'[j][n] = attempt[j][n]
  PROVE  IInv'
<1>1. RowsOK'
  BY DEF IInv, RowsOK
<1>2. ASSUME NEW j \in Jobs PROVE RowsAgree(job'[j], attempt'[j])
  <2>1. RowsAgree(job[j], attempt[j])
    BY RowsOf
  <2>2. \A n \in AttemptNos :
          /\ attempt'[j][n].status = attempt[j][n].status
          /\ attempt[j][n] = Unclaimed("ABSENT") => attempt'[j][n] = attempt[j][n]
    OBVIOUS
  <2>3. QED
    BY <2>1, <2>2 DEF RowsAgree
<1>3. ASSUME NEW w \in Workers, NEW l \in held'[w]
      PROVE  LeaseMatches(w, l, job'[l.job], attempt'[l.job])
  <2>1. l \in held[w] /\ l.job \in Jobs /\ l.no \in AttemptNos
    BY DEF IInv, RowsOK, Lease
  <2>2. LeaseMatches(w, l, job[l.job], attempt[l.job])
    BY <2>1, RowsOf
  <2>3. QED
    BY <2>1, <2>2 DEF LeaseMatches
<1>4. QED
  BY <1>1, <1>2, <1>3, RowsAgreeInvNext, HeldMatchesRowInvNext DEF IInv

LEMMA HeartbeatStep ==
  ASSUME IInv, NEW w \in Workers, NEW l \in held[w], Heartbeat(w, l) PROVE IInv'
<1>1. /\ l.job \in Jobs /\ l.no \in AttemptNos
      /\ attempt[l.job][l.no] \in AttemptRow /\ attempt[l.job][l.no].status = "RUNNING"
  BY FencedRows DEF Heartbeat
<1> DEFINE a == [attempt[l.job][l.no] EXCEPT !.ttl = LeaseTicks]
<1>2. /\ a \in AttemptRow /\ a.status = attempt[l.job][l.no].status
      /\ a.worker = attempt[l.job][l.no].worker /\ a.token = attempt[l.job][l.no].token
  BY <1>1, LeaseAssumption DEF AttemptRow
<1>3. /\ attempt' = [attempt EXCEPT ![l.job] = [@ EXCEPT ![l.no] = a]]
      /\ UNCHANGED <<job, ahead, held>>
  BY DEF Heartbeat
<1>4. attempt \in [Jobs -> [AttemptNos -> AttemptRow]]
  BY DEF IInv, RowsOK
<1> HIDE DEF a
<1>5. attempt' \in [Jobs -> [AttemptNos -> AttemptRow]]
  BY <1>1, <1>2, <1>3, <1>4
<1>6. \A j \in Jobs, n \in AttemptNos :
        attempt'[j][n] = IF j = l.job /\ n = l.no THEN a ELSE attempt[j][n]
  BY <1>1, <1>3, <1>4
<1>7. attempt[l.job][l.no] # Unclaimed("ABSENT")
  BY <1>1 DEF Unclaimed
<1>8. QED
  BY <1>2, <1>3, <1>5, <1>6, <1>7, OnlyTtlStep

LEMMA TickStep == ASSUME IInv, Tick PROVE IInv'
<1>1. attempt \in [Jobs -> [AttemptNos -> AttemptRow]]
  BY DEF IInv, RowsOK
<1>2. ASSUME NEW a \in AttemptRow, a.ttl > 0
      PROVE  /\ [a EXCEPT !.ttl = @ - 1] \in AttemptRow
             /\ [a EXCEPT !.ttl = @ - 1].status = a.status
             /\ [a EXCEPT !.ttl = @ - 1].worker = a.worker
             /\ [a EXCEPT !.ttl = @ - 1].token = a.token
  BY <1>2, LeaseAssumption DEF AttemptRow
<1>3. \A j \in Jobs, n \in AttemptNos :
        attempt'[j][n] = IF Live(j, n) THEN [attempt[j][n] EXCEPT !.ttl = @ - 1]
                                       ELSE attempt[j][n]
  BY DEF Tick
<1>4. ASSUME NEW j \in Jobs, NEW n \in AttemptNos
      PROVE  /\ attempt'[j][n] \in AttemptRow
             /\ attempt'[j][n].status = attempt[j][n].status
             /\ attempt'[j][n].worker = attempt[j][n].worker
             /\ attempt'[j][n].token = attempt[j][n].token
             /\ attempt[j][n] = Unclaimed("ABSENT") => attempt'[j][n] = attempt[j][n]
  <2>1. attempt[j][n] \in AttemptRow
    BY <1>1
  <2>2. CASE Live(j, n)
    <3>1. /\ attempt'[j][n] = [attempt[j][n] EXCEPT !.ttl = @ - 1]
          /\ attempt[j][n].status = "RUNNING" /\ attempt[j][n].ttl > 0
      BY <1>3, <2>2 DEF Live
    <3>2. attempt[j][n] # Unclaimed("ABSENT")
      BY <3>1 DEF Unclaimed
    <3>3. QED
      BY <1>2, <2>1, <3>1, <3>2
  <2>3. CASE ~Live(j, n)
    BY <1>3, <2>1, <2>3
  <2>4. QED
    BY <2>2, <2>3
<1>5. attempt' \in [Jobs -> [AttemptNos -> AttemptRow]]
  BY <1>4 DEF Tick
<1>6. UNCHANGED <<job, ahead, held>>
  BY DEF Tick
<1>7. QED
  BY <1>4, <1>5, <1>6, OnlyTtlStep

\* Letting a lease go touches no row.
LEMMA LeaseDroppedStep ==
  ASSUME IInv, NEW w \in Workers, NEW l \in held[w],
         held' = [held EXCEPT ![w] = @ \ {l}], UNCHANGED <<job, attempt, ahead>>
  PROVE  IInv'
<1>1. held' \in [Workers -> SUBSET Lease] /\ \A v \in Workers : held'[v] \subseteq held[v]
  BY SettleHeld
<1>2. QED
  BY <1>1 DEF IInv, RowsOK, JobAttemptAgreement, Bookkeeping, HeldMatchesRow, Created, Current

LEMMA LeaseHungStep ==
  ASSUME IInv, NEW w \in Workers, NEW l \in held[w], Hang(w, l) PROVE IInv'
BY LeaseDroppedStep DEF Hang

LEMMA RestartStep ==
  ASSUME IInv, NEW w \in Workers, Restart(w) PROVE IInv'
<1>1. held' \in [Workers -> SUBSET Lease] /\ \A v \in Workers : held'[v] \subseteq held[v]
  BY DEF Restart, IInv, RowsOK
<1>2. UNCHANGED <<job, attempt, ahead>>
  BY DEF Restart
<1>3. QED
  BY <1>1, <1>2 DEF IInv, RowsOK, JobAttemptAgreement, Bookkeeping, HeldMatchesRow, Created, Current

LEMMA DeleteExpiredStep ==
  ASSUME IInv, NEW j \in Jobs, DeleteExpired(j) PROVE IInv'
<1> DEFINE q == NoJob("DELETED")
           rows == [n \in AttemptNos |-> Unclaimed("ABSENT")]
<1>1. q \in JobRow /\ q.status = "DELETED"
  BY BoundAssumption, RetryAssumption DEF NoJob, JobRow, NoStage
<1>2. rows \in [AttemptNos -> AttemptRow]
  BY UnclaimedRow
<1>3. RowsAgree(q, rows)
  BY DEF RowsAgree, NoJob
<1>4. \A w \in Workers : \A l \in held[w] : l.job = j => LeaseMatches(w, l, q, rows)
  <2>1. \A w \in Workers : \A l \in held[w] : l.no \in AttemptNos
    BY DEF IInv, RowsOK, Lease
  <2>2. \A n \in AttemptNos : rows[n].status = "ABSENT"
    BY DEF Unclaimed
  <2> HIDE DEF q, rows
  <2>3. QED
    BY <1>1, <2>1, <2>2 DEF LeaseMatches
<1>5. job' = [job EXCEPT ![j] = q] /\ attempt' = [attempt EXCEPT ![j] = rows]
  BY DEF DeleteExpired
<1>6. ahead' \subseteq Jobs \X Jobs /\ held' = held /\ held' \in [Workers -> SUBSET Lease]
  BY DEF DeleteExpired, IInv, RowsOK
<1> HIDE DEF q, rows
<1>7. QED
  BY <1>1, <1>2, <1>3, <1>4, <1>5, <1>6, OneJobWritten

\* The rows a claim writes, and the lease it hands out.
LEMMA ClaimStep ==
  ASSUME IInv, NEW w \in Workers, NEW j \in Jobs, Claimable(j),
         job' = [job EXCEPT ![j] = [@ EXCEPT !.status = "RUNNING", !.told = "RUNNING",
                                   !.stage = "PREPARING", !.claims = job[j].claims + 1]],
         attempt' = [attempt EXCEPT ![j][job[j].no] =
                       [@ EXCEPT !.status = "RUNNING", !.worker = w,
                                 !.token = job[j].claims + 1, !.ttl = LeaseTicks]],
         held' = [held EXCEPT ![w] = @ \union
                    {[job |-> j, no |-> job[j].no, token |-> job[j].claims + 1,
                      inputs |-> job[j].inputs]}],
         ahead' = Unlinked(j)
  PROVE  IInv'
<1> DEFINE no == job[j].no
           token == job[j].claims + 1
           q1 == [job[j] EXCEPT !.status = "RUNNING", !.told = "RUNNING", !.stage = "PREPARING"]
           q == [q1 EXCEPT !.claims = token]
           a1 == [attempt[j][no] EXCEPT !.status = "RUNNING", !.worker = w]
           a == [a1 EXCEPT !.token = token, !.ttl = LeaseTicks]
           rows == [attempt[j] EXCEPT ![no] = a]
           lease == [job |-> j, no |-> no, token |-> token, inputs |-> job[j].inputs]
<1>1. /\ job[j].status = "QUEUED" /\ attempt[j][no].status = "QUEUED" /\ Created(j)
  BY DEF Claimable, Current, Created
<1>2. /\ job[j] \in JobRow /\ attempt[j] \in [AttemptNos -> AttemptRow]
      /\ RowsAgree(job[j], attempt[j])
  BY RowsOf
<1>3. /\ no \in AttemptNos /\ attempt[j][no] \in AttemptRow
      /\ job[j].claims < no /\ job[j].inputs < no
      /\ no + (AutomaticRetryLimit - job[j].auto) <= MaxAttempts
      /\ \A n \in AttemptNos : /\ n < no => attempt[j][n].status \in EndedAttemptStatuses
                               /\ n > no => attempt[j][n].status = "ABSENT"
  BY <1>1, <1>2 DEF RowsAgree
<1>4. /\ job[j].claims \in Nat /\ job[j].inputs \in Nat /\ no \in Nat /\ MaxAttempts \in Nat
      /\ job[j].auto \in Nat
  BY <1>2, JobRowNumbers, BoundAssumption
<1>5. token \in 0..MaxAttempts /\ token <= no
  BY <1>3, <1>4
<1> HIDE DEF token, no
<1>6. q1 \in JobRow /\ q1.status = "RUNNING" /\ q1.no = no /\ q1.auto = job[j].auto
      /\ q1.inputs = job[j].inputs
  BY <1>2 DEF JobRow, JobStatuses, AttemptStages, no
<1>7. a1 \in AttemptRow /\ a1.status = "RUNNING" /\ a1.worker = w
  BY <1>3 DEF AttemptRow, AttemptStatuses
<1> HIDE DEF q1, a1
<1>8. q \in JobRow /\ q.status = "RUNNING" /\ q.no = no /\ q.auto = job[j].auto
      /\ q.inputs = job[j].inputs /\ q.claims = token
  BY <1>5, <1>6 DEF JobRow
<1>9. a \in AttemptRow /\ a.status = "RUNNING" /\ a.worker = w /\ a.token = token
  <2> DEFINE a2 == [a1 EXCEPT !.token = token]
  <2>1. a2 \in AttemptRow /\ a2.status = "RUNNING" /\ a2.worker = w /\ a2.token = token
    BY <1>5, <1>7 DEF AttemptRow
  <2> HIDE DEF a2
  <2>2. LET b == [a2 EXCEPT !.ttl = LeaseTicks] IN
        b \in AttemptRow /\ b.status = "RUNNING" /\ b.worker = w /\ b.token = token
    BY <2>1, LeaseAssumption DEF AttemptRow
  <2>3. QED
    BY <2>2 DEF a2
<1>10. job' = [job EXCEPT ![j] = q] /\ attempt' = [attempt EXCEPT ![j] = rows]
  BY DEF q1, a1, token, no
<1> HIDE DEF q, a
<1>11. /\ rows \in [AttemptNos -> AttemptRow] /\ rows[no] = a
       /\ \A n \in AttemptNos : n # no => rows[n] = attempt[j][n]
  BY <1>2, <1>3, <1>9
<1> HIDE DEF rows
<1>12. RowsAgree(q, rows)
  <2>1. ASSUME NEW n \in AttemptNos
        PROVE  /\ n < no => rows[n].status \in EndedAttemptStatuses
               /\ n > no => rows[n].status = "ABSENT"
    <3>1. CASE n = no
      BY <1>4, <3>1
    <3>2. CASE n # no
      BY <1>3, <1>11, <3>2
    <3>3. QED
      BY <3>1, <3>2
  <2>2. QED
    BY <1>3, <1>5, <1>8, <1>9, <1>11, <2>1 DEF RowsAgree, AgreeingStatuses
<1>13. lease \in Lease /\ lease.job = j /\ lease.no = no /\ lease.token = token
       /\ lease.inputs = job[j].inputs
  BY <1>2, <1>3, <1>5 DEF Lease, JobRow
<1>14. held' = [held EXCEPT ![w] = @ \union {lease}]
  BY DEF token, no
<1> HIDE DEF lease
<1>15. held \in [Workers -> SUBSET Lease]
  BY DEF IInv, RowsOK
<1>16. held' \in [Workers -> SUBSET Lease]
  BY <1>13, <1>14, <1>15
<1>17. ahead' \subseteq Jobs \X Jobs
  BY DEF Unlinked, IInv, RowsOK
<1>18. ASSUME NEW v \in Workers, NEW l \in held'[v]
       PROVE  IF l.job = j THEN LeaseMatches(v, l, q, rows) ELSE l \in held[v]
  <2>1. CASE l \in held[v]
    <3> SUFFICES ASSUME l.job = j PROVE LeaseMatches(v, l, q, rows)
      BY <2>1
    <3>1. LeaseMatches(v, l, job[j], attempt[j]) /\ l.no \in AttemptNos
      BY <2>1, RowsOf DEF Lease
    <3>2. l.no # no
      BY <1>1, <3>1 DEF LeaseMatches, no
    <3>3. rows[l.no] = attempt[j][l.no]
      BY <1>11, <3>1, <3>2
    <3>4. attempt[j][l.no].status \notin {"ABSENT", "RUNNING"}
      <4>1. attempt[j][l.no].status # "ABSENT"
        BY <1>1, <3>1 DEF LeaseMatches
      <4>2. l.no < no
        BY <1>3, <1>4, <3>1, <3>2, <4>1
      <4>3. QED
        BY <1>3, <3>1, <4>2 DEF EndedAttemptStatuses
    <3>5. QED
      BY <3>1, <3>3, <3>4 DEF LeaseMatches
  <2>2. CASE l \notin held[v]
    <3>1. v = w /\ l = lease
      BY <1>14, <1>15, <2>2
    <3>2. QED
      BY <1>8, <1>9, <1>11, <1>13, <3>1 DEF LeaseMatches
  <2>3. QED
    BY <2>1, <2>2
<1>19. \A v \in Workers : \A l \in held'[v] :
          IF l.job = j THEN LeaseMatches(v, l, q, rows) ELSE l \in held[v]
  BY <1>18
<1>20. q \in JobRow /\ rows \in [AttemptNos -> AttemptRow]
  BY <1>8, <1>11
<1>21. QED
  BY ONLY IInv, j \in Jobs, <1>10, <1>12, <1>16, <1>17, <1>19, <1>20, OneJobWritten

LEMMA InitIInv == Init => IInv
<1> SUFFICES ASSUME Init PROVE IInv
  OBVIOUS
<1> USE DEF Init, NoJob, Unclaimed, NoStage
<1>1. \A j \in Jobs : ~Created(j)
  BY DEF Created
<1>2. RowsOK
  <2>1. job \in [Jobs -> JobRow]
    BY BoundAssumption, RetryAssumption DEF JobRow
  <2>2. attempt \in [Jobs -> [AttemptNos -> AttemptRow]]
    BY BoundAssumption, LeaseAssumption DEF AttemptRow
  <2>3. QED
    BY <2>1, <2>2 DEF RowsOK
<1>3. JobAttemptAgreement /\ Bookkeeping /\ HeldMatchesRow
  BY <1>1 DEF JobAttemptAgreement, Bookkeeping, HeldMatchesRow
<1>4. QED
  BY <1>2, <1>3 DEF IInv

LEMMA NextIInv == IInv /\ [Next]_vars => IInv'
<1> SUFFICES ASSUME IInv, [Next]_vars PROVE IInv'
  OBVIOUS
<1>1. ASSUME NEW j \in Jobs, JobStep(j) PROVE IInv'
  <2>1. CASE CreateJob(j)
    BY <2>1, CreateJobStep
  <2>2. CASE AddInput(j)
    BY <2>2, AddInputStep
  <2>3. CASE RetryJob(j)
    BY <2>3, RetryJobStep
  <2>4. CASE CancelWaiting(j)
    BY <2>4, CancelWaitingStep
  <2>5. CASE CancelRunning(j)
    BY <2>5, CancelRunningStep
  <2>6. CASE Recover(j)
    BY <2>6, RecoverCancelledStep, RecoverRetriedStep, RecoverFailedStep DEF Recover
  <2>7. CASE ElapseRetention(j)
    BY <2>7, ElapseRetentionStep
  <2>8. CASE DeleteExpired(j)
    BY <2>8, DeleteExpiredStep
  <2>9. QED
    BY <1>1, <2>1, <2>2, <2>3, <2>4, <2>5, <2>6, <2>7, <2>8 DEF JobStep
<1>2. ASSUME NEW w \in Workers, WorkerStep(w) PROVE IInv'
  <2>1. CASE Claim(w)
    BY <2>1, ClaimStep DEF Claim
  <2>2. ASSUME NEW l \in held[w], Heartbeat(w, l) PROVE IInv'
    BY <2>2, HeartbeatStep
  <2>3. ASSUME NEW l \in held[w], NEW stage \in ReportedStages, ReportStage(w, l, stage)
        PROVE  IInv'
    BY <2>3, ReportStageStep
  <2>4. ASSUME NEW l \in held[w], End(w, l) PROVE IInv'
    <3>1. ASSUME NEW o \in Outcomes, Finish(w, l, o) PROVE IInv'
      BY <3>1, FinishStep
    <3>2. CASE DiscardOutcome(w, l) \/ Abandon(w, l)
      BY <3>2, LeaseDroppedStep DEF DiscardOutcome, Abandon
    <3>3. QED
      BY <2>4, <3>1, <3>2 DEF End
  <2>5. ASSUME NEW l \in held[w], Hang(w, l) PROVE IInv'
    BY <2>5, LeaseHungStep
  <2>6. CASE Restart(w)
    BY <2>6, RestartStep
  <2>7. QED
    BY <1>2, <2>1, <2>2, <2>3, <2>4, <2>5, <2>6 DEF WorkerStep
<1>3. CASE Tick
  BY <1>3, TickStep
<1>4. CASE UNCHANGED vars
  BY <1>4 DEF vars, IInv, RowsOK, JobAttemptAgreement, Bookkeeping, HeldMatchesRow,
     Created, Current
<1>5. QED
  BY <1>1, <1>2, <1>3, <1>4 DEF Next

-----------------------------------------------------------------------------

\* The invariant holds of every reachable state of every instance.
LEMMA Invariance == Spec => []IInv
BY InitIInv, NextIInv, PTL DEF Spec

\* The hanging tasks of a Worker are counted.
Counted == stuck \in [Workers -> Nat]

LEMMA CountedStep == Counted /\ [Next]_vars => Counted'
<1> SUFFICES ASSUME Counted, [Next]_vars PROVE Counted'
  OBVIOUS
<1> USE DEF Counted
<1>1. ASSUME NEW j \in Jobs, JobStep(j) PROVE Counted'
  BY <1>1 DEF JobStep, CreateJob, AddInput, RetryJob, CancelWaiting, CancelRunning, Recover,
     RecoverCancelled, RecoverRetried, RecoverFailed, ElapseRetention, DeleteExpired
<1>2. ASSUME NEW w \in Workers, WorkerStep(w) PROVE Counted'
  <2>1. CASE Claim(w)
    BY <2>1 DEF Claim
  <2>2. CASE Restart(w)
    BY <2>2 DEF Restart
  <2>3. ASSUME NEW l \in held[w], Hang(w, l) PROVE Counted'
    BY <2>3 DEF Hang
  <2>4. ASSUME NEW l \in held[w],
               \/ Heartbeat(w, l) \/ DiscardOutcome(w, l) \/ Abandon(w, l)
               \/ \E stage \in ReportedStages : ReportStage(w, l, stage)
               \/ \E o \in Outcomes : Finish(w, l, o)
        PROVE  Counted'
    <3>1. UNCHANGED stuck
      BY <2>4 DEF Heartbeat, DiscardOutcome, Abandon, ReportStage, Finish
    <3>2. QED BY <3>1
  <2>5. QED
    BY <1>2, <2>1, <2>2, <2>3, <2>4 DEF WorkerStep, End
<1>3. CASE Tick \/ UNCHANGED vars
  BY <1>3 DEF Tick, vars
<1>4. QED
  BY <1>1, <1>2, <1>3 DEF Next

\* Every row always has the shape its table gives it: no counter leaves its
\* range, in particular automatic_retry_count never exceeds its limit.
THEOREM TypeCorrect == Spec => []TypeOK
<1>1. IInv => RowsOK
  BY DEF IInv
<1>2. Init => Counted
  BY DEF Init, Counted
<1>3. RowsOK /\ Counted => TypeOK
  BY DEF Counted, TypeOK
<1>4. QED
  BY Invariance, CountedStep, <1>1, <1>2, <1>3, PTL DEF Spec

\* A Job and its Attempts always tell one story, whatever Workers, Requesters
\* and recovery do: at most its current Attempt is unfinished.
THEOREM Agreement == Spec => []JobAttemptAgreement
<1>1. IInv => JobAttemptAgreement
  BY DEF IInv
<1>2. QED
  BY Invariance, <1>1, PTL

\* Fencing: never two holders of running Attempts of one Job.
LEMMA HolderUnique == IInv => OneRunningHolder
<1> SUFFICES ASSUME IInv,
                    NEW v \in Workers, NEW w \in Workers,
                    NEW k \in held[v], NEW l \in held[w],
                    k.job = l.job,
                    attempt[k.job][k.no].status = "RUNNING",
                    attempt[l.job][l.no].status = "RUNNING"
             PROVE  v = w /\ k = l
  BY DEF OneRunningHolder
<1>1. k \in Lease /\ l \in Lease
  BY DEF IInv, RowsOK
<1>2. k.job \in Jobs /\ k.no \in AttemptNos /\ l.no \in AttemptNos
  BY <1>1 DEF Lease
<1>3. RowsAgree(job[k.job], attempt[k.job]) /\ job[k.job] \in JobRow
  BY <1>2, RowsOf
<1>4. ASSUME NEW n \in AttemptNos, attempt[k.job][n].status = "RUNNING"
      PROVE  n = job[k.job].no
  <2>1. job[k.job].status \notin {"ABSENT", "DELETED"}
    BY <1>3, <1>4 DEF RowsAgree, Unclaimed
  <2>2. job[k.job].no \in Nat /\ n \in Int
    BY <1>3, JobRowNumbers
  <2>3. ~(n < job[k.job].no) /\ ~(n > job[k.job].no)
    BY <1>3, <1>4, <2>1 DEF RowsAgree, EndedAttemptStatuses
  <2>4. QED
    BY <2>2, <2>3
<1>5. k.no = l.no
  BY <1>2, <1>4
<1>6. LeaseMatches(v, k, job[k.job], attempt[k.job]) /\ LeaseMatches(w, l, job[k.job], attempt[k.job])
  BY <1>2, RowsOf
<1>7. v = w /\ k.token = l.token /\ k.inputs = l.inputs
  BY <1>5, <1>6 DEF LeaseMatches
<1>8. k = l
  BY <1>1, <1>5, <1>7 DEF Lease
<1>9. QED
  BY <1>7, <1>8

THEOREM Fencing == Spec => []OneRunningHolder
BY Invariance, HolderUnique, PTL

\* The lease a Worker can still write with carries every input given so far.
THEOREM InputsDelivered == Spec => []LeaseCarriesAllInputs
<1>1. IInv => LeaseCarriesAllInputs
  BY DEF IInv, HeldMatchesRow, LeaseCarriesAllInputs, Fenced
<1>2. QED
  BY Invariance, <1>1, PTL

-----------------------------------------------------------------------------
(* What a Requester sees of a Job: the row never misleads, and the Job's   *)
(* life is the one JobContract promises.  Both are about single Job rows,  *)
(* so every transaction is first reduced to the one row it writes.         *)

\* What a Job row says of itself: the stream tells its status, no
\* cancellation is pending while it publishes, evidence means success, and
\* the retention deadline runs exactly on finished Jobs.
Truthful(r) ==
  LET created == r.status \notin {"ABSENT", "DELETED"} IN
  /\ created => r.told = r.status
  /\ r.status = "CANCEL_REQUESTED" => r.stage # "PUBLISHING"
  /\ r.evidence <=> r.status = "SUCCEEDED"
  /\ created => (r.retention # "none" <=> r.status \in TerminalJobStatuses)

AllTruthful == \A j \in Jobs : Truthful(job[j])

\* The ways a transaction may move a Job, in the terms of JobContract.
RowMove(r, q) ==
  LET moves(from, to) == r.status \in from /\ q.status = to
      sameAttempt == q.no = r.no /\ q.auto = r.auto IN
  \/ q.status = r.status /\ sameAttempt
  \/ moves({"ABSENT", "NEEDS_INPUT", "FAILED"}, "QUEUED") /\ q.no = r.no + 1 /\ q.auto = r.auto
  \/ moves({"QUEUED"}, "RUNNING") /\ sameAttempt
  \/ \E to \in {"SUCCEEDED", "FAILED", "NEEDS_INPUT", "CANCEL_REQUESTED"} :
       moves({"RUNNING"}, to) /\ sameAttempt
  \/ moves({"QUEUED", "NEEDS_INPUT", "RUNNING", "CANCEL_REQUESTED"}, "CANCELLED") /\ sameAttempt
  \/ /\ r.auto < AutomaticRetryLimit
     /\ moves({"RUNNING"}, "QUEUED") /\ q.no = r.no + 1 /\ q.auto = r.auto + 1
  \/ moves(TerminalJobStatuses, "DELETED") /\ q.no = 0 /\ q.auto = 0

\* The row q is a truthful, lawful successor of r.
Follows(r, q) == (Truthful(r) => Truthful(q)) /\ RowMove(r, q)

\* A transaction writes at most one Job row, and that one lawfully.
RowStep ==
  \/ job' = job
  \/ \E j \in Jobs : /\ job' = [job EXCEPT ![j] = job'[j]]
                     /\ Follows(job[j], job'[j])

LEMMA WritesRow ==
  ASSUME IInv, NEW j \in Jobs, NEW q, job' = [job EXCEPT ![j] = q], Follows(job[j], q)
  PROVE  RowStep
<1>1. job'[j] = q
  BY DEF IInv, RowsOK
<1>2. QED
  BY <1>1 DEF RowStep

-----------------------------------------------------------------------------
(* The rows that are written *)

LEMMA RequeuedFields ==
  ASSUME NEW r \in JobRow
  PROVE  LET q == Requeued(r) IN
         /\ q.status = "QUEUED" /\ q.told = "QUEUED" /\ q.retention = "none"
         /\ q.no = r.no + 1 /\ q.auto = r.auto /\ q.evidence = r.evidence
BY DEF Requeued, JobRow

LEMMA EndedFields ==
  ASSUME NEW r \in JobRow, NEW status
  PROVE  LET q == Ended(r, status) IN
         /\ q.status = status /\ q.told = status /\ q.retention = "running"
         /\ q.no = r.no /\ q.auto = r.auto /\ q.evidence = r.evidence
BY DEF Ended, JobRow

LEMMA EndsLawfully ==
  ASSUME NEW r \in JobRow, NEW status \in {"FAILED", "CANCELLED"},
         \/ r.status = "RUNNING"
         \/ status = "CANCELLED" /\ r.status \in {"QUEUED", "NEEDS_INPUT", "CANCEL_REQUESTED"}
  PROVE  Follows(r, Ended(r, status))
<1> DEFINE q == Ended(r, status)
<1>1. /\ q.status = status /\ q.told = status /\ q.retention = "running"
      /\ q.no = r.no /\ q.auto = r.auto /\ q.evidence = r.evidence
  BY EndedFields
<1> HIDE DEF q
<1>2. RowMove(r, q)
  BY <1>1 DEF RowMove
<1>3. Truthful(r) => Truthful(q)
  BY <1>1 DEF Truthful, TerminalJobStatuses
<1>4. QED
  BY <1>2, <1>3 DEF Follows, q

LEMMA RequeuesLawfully ==
  ASSUME IInv, NEW j \in Jobs, NEW row \in JobRow, NEW attempts,
         QueueNewAttempt(j, row, attempts),
         row.no = job[j].no, row.evidence = job[j].evidence,
         \/ job[j].status \in {"NEEDS_INPUT", "FAILED"} /\ row.auto = job[j].auto
         \/ /\ job[j].status = "RUNNING" /\ job[j].auto < AutomaticRetryLimit
            /\ row.auto = job[j].auto + 1
  PROVE  RowStep
<1> DEFINE q == Requeued(row)
<1>1. /\ q.status = "QUEUED" /\ q.told = "QUEUED" /\ q.retention = "none"
      /\ q.no = row.no + 1 /\ q.auto = row.auto /\ q.evidence = row.evidence
  BY RequeuedFields
<1>2. job' = [job EXCEPT ![j] = q]
  BY DEF QueueNewAttempt
<1> HIDE DEF q
<1>3. RowMove(job[j], q)
  BY <1>1 DEF RowMove
<1>4. Truthful(job[j]) => Truthful(q)
  BY <1>1 DEF Truthful, TerminalJobStatuses
<1>5. QED
  BY <1>2, <1>3, <1>4, WritesRow DEF Follows

-----------------------------------------------------------------------------
(* One lemma per transaction *)

LEMMA CreateJobRow ==
  ASSUME IInv, NEW j \in Jobs, CreateJob(j) PROVE RowStep
<1>0. job[j].status = "ABSENT" /\ RowsAgree(job[j], attempt[j])
  BY RowsOf DEF CreateJob
<1>1. job[j].status = "ABSENT" /\ job[j].no = 0 /\ job[j].auto = 0
  BY <1>0 DEF RowsAgree, NoJob
<1>2. RowMove(job[j], NewJob)
  BY <1>1 DEF RowMove, NewJob
<1>3. Truthful(NewJob)
  BY DEF Truthful, NewJob, TerminalJobStatuses
<1>4. QED
  BY <1>2, <1>3, WritesRow DEF Follows, CreateJob

LEMMA ReopenRow ==
  ASSUME IInv, NEW j \in Jobs, AddInput(j) \/ RetryJob(j) PROVE RowStep
<1>0. job[j] \in JobRow
  BY RowsOf
<1>1. CASE AddInput(j)
  <2> DEFINE row == [job[j] EXCEPT !.inputs = @ + 1]
  <2>1. row \in JobRow
    BY <1>0, <1>1, AttemptsEnded, BoundAssumption DEF AddInput, JobRow
  <2>2. row.no = job[j].no /\ row.evidence = job[j].evidence /\ row.auto = job[j].auto
    BY <1>0 DEF JobRow
  <2>3. QueueNewAttempt(j, row, attempt[j]) /\ job[j].status = "NEEDS_INPUT"
    BY <1>1 DEF AddInput
  <2> HIDE DEF row
  <2>4. QED
    BY <2>1, <2>2, <2>3, RequeuesLawfully
<1>2. CASE RetryJob(j)
  BY <1>0, <1>2, RequeuesLawfully DEF RetryJob
<1>3. QED
  BY <1>1, <1>2

LEMMA CancelWaitingRow ==
  ASSUME IInv, NEW j \in Jobs, CancelWaiting(j) PROVE RowStep
<1>1. Follows(job[j], Ended(job[j], "CANCELLED"))
  BY RowsOf, EndsLawfully DEF CancelWaiting
<1>2. QED
  BY <1>1, WritesRow DEF CancelWaiting

LEMMA CancelRunningRow ==
  ASSUME IInv, NEW j \in Jobs, CancelRunning(j) PROVE RowStep
<1> DEFINE q == [job[j] EXCEPT !.status = "CANCEL_REQUESTED", !.told = "CANCEL_REQUESTED"]
<1>1. job[j].status = "RUNNING" /\ job[j].stage # "PUBLISHING" /\ job[j] \in JobRow
  BY RowsOf DEF CancelRunning
<1>2. job' = [job EXCEPT ![j] = q]
  BY <1>1 DEF CancelRunning, IInv, RowsOK
<1>3. /\ q.status = "CANCEL_REQUESTED" /\ q.told = "CANCEL_REQUESTED"
      /\ q.stage = job[j].stage /\ q.retention = job[j].retention
      /\ q.no = job[j].no /\ q.auto = job[j].auto /\ q.evidence = job[j].evidence
  BY <1>1 DEF JobRow
<1> HIDE DEF q
<1>4. RowMove(job[j], q)
  BY <1>1, <1>3 DEF RowMove
<1>5. Truthful(job[j]) => Truthful(q)
  BY <1>1, <1>3 DEF Truthful, TerminalJobStatuses
<1>6. QED
  BY <1>2, <1>4, <1>5, WritesRow DEF Follows

LEMMA RecoverRow ==
  ASSUME IInv, NEW j \in Jobs, Recover(j) PROVE RowStep
<1>0. job[j] \in JobRow /\ job[j].status \in {"RUNNING", "CANCEL_REQUESTED"}
  BY RowsOf, ExpiredRows DEF Recover, RecoverCancelled, RecoverRetried, RecoverFailed
<1>1. CASE RecoverCancelled(j)
  <2>1. Follows(job[j], Ended(job[j], "CANCELLED"))
    BY <1>0, EndsLawfully
  <2>2. QED
    BY <1>1, <2>1, WritesRow DEF RecoverCancelled
<1>2. CASE RecoverFailed(j)
  <2>1. job[j].status = "RUNNING"
    BY <1>0, <1>2 DEF RecoverFailed
  <2>2. Follows(job[j], Ended(job[j], "FAILED"))
    BY <1>0, <2>1, EndsLawfully
  <2>3. QED
    BY <1>2, <2>2, WritesRow DEF RecoverFailed
<1>3. CASE RecoverRetried(j)
  <2> DEFINE row == [job[j] EXCEPT !.auto = @ + 1]
             rows == [attempt[j] EXCEPT ![job[j].no] = LeaseExpired(@)]
  <2>1. job[j].status = "RUNNING" /\ job[j].auto < AutomaticRetryLimit
    BY <1>0, <1>3 DEF RecoverRetried
  <2>2. row \in JobRow
    BY <1>0, <2>1, RetryAssumption DEF JobRow
  <2>3. row.no = job[j].no /\ row.evidence = job[j].evidence /\ row.auto = job[j].auto + 1
    BY <1>0 DEF JobRow
  <2>4. QueueNewAttempt(j, row, rows)
    BY <1>3 DEF RecoverRetried
  <2> HIDE DEF row, rows
  <2>5. QED
    BY <2>1, <2>2, <2>3, <2>4, RequeuesLawfully
<1>4. QED
  BY <1>1, <1>2, <1>3 DEF Recover

LEMMA RetentionRow ==
  ASSUME IInv, NEW j \in Jobs, ElapseRetention(j) \/ DeleteExpired(j) PROVE RowStep
<1>0. job[j] \in JobRow
  BY RowsOf
<1>1. CASE ElapseRetention(j)
  <2> DEFINE q == [job[j] EXCEPT !.retention = "elapsed"]
  <2>1. /\ q.status = job[j].status /\ q.told = job[j].told /\ q.stage = job[j].stage
        /\ q.evidence = job[j].evidence /\ q.retention = "elapsed"
        /\ q.no = job[j].no /\ q.auto = job[j].auto
    BY <1>0 DEF JobRow
  <2>2. job' = [job EXCEPT ![j] = q] /\ job[j].retention = "running"
    BY <1>1 DEF ElapseRetention, IInv, RowsOK
  <2> HIDE DEF q
  <2>3. Follows(job[j], q)
    BY <2>1, <2>2 DEF Follows, RowMove, Truthful
  <2>4. QED
    BY <2>2, <2>3, WritesRow
<1>2. CASE DeleteExpired(j)
  <2>1. RowMove(job[j], NoJob("DELETED"))
    BY <1>2 DEF RowMove, NoJob, DeleteExpired
  <2>2. Truthful(NoJob("DELETED"))
    BY DEF Truthful, NoJob
  <2>3. QED
    BY <1>2, <2>1, <2>2, WritesRow DEF Follows, DeleteExpired
<1>3. QED
  BY <1>1, <1>2

LEMMA ClaimRow ==
  ASSUME IInv, NEW w \in Workers, Claim(w) PROVE RowStep
<1>1. PICK j \in Jobs :
        /\ Claimable(j)
        /\ job' = [job EXCEPT ![j] = [@ EXCEPT !.status = "RUNNING", !.told = "RUNNING",
                                               !.stage = "PREPARING",
                                               !.claims = job[j].claims + 1]]
  BY DEF Claim
<1> DEFINE q == [job[j] EXCEPT !.status = "RUNNING", !.told = "RUNNING",
                               !.stage = "PREPARING", !.claims = job[j].claims + 1]
<1>2. job[j].status = "QUEUED" /\ job[j] \in JobRow
  BY <1>1, RowsOf DEF Claimable
<1>3. /\ q.status = "RUNNING" /\ q.told = "RUNNING" /\ q.retention = job[j].retention
      /\ q.no = job[j].no /\ q.auto = job[j].auto /\ q.evidence = job[j].evidence
  BY <1>2 DEF JobRow
<1>4. job' = [job EXCEPT ![j] = q]
  BY <1>1
<1> HIDE DEF q
<1>5. RowMove(job[j], q)
  BY <1>2, <1>3 DEF RowMove
<1>6. Truthful(job[j]) => Truthful(q)
  BY <1>2, <1>3 DEF Truthful, TerminalJobStatuses
<1>7. QED
  BY <1>4, <1>5, <1>6, WritesRow DEF Follows

LEMMA ReportStageRow ==
  ASSUME IInv, NEW w \in Workers, NEW l \in held[w], NEW stage, ReportStage(w, l, stage)
  PROVE  RowStep
<1> DEFINE j == l.job
           q == [job[j] EXCEPT !.stage = stage]
<1>1. j \in Jobs /\ job[j] \in JobRow /\ job[j].status = "RUNNING"
  BY FencedRows, RowsOf DEF ReportStage
<1>2. job' = [job EXCEPT ![j] = q]
  BY <1>1 DEF ReportStage, IInv, RowsOK
<1>3. /\ q.status = "RUNNING" /\ q.told = job[j].told /\ q.retention = job[j].retention
      /\ q.no = job[j].no /\ q.auto = job[j].auto /\ q.evidence = job[j].evidence
  BY <1>1 DEF JobRow
<1> HIDE DEF q, j
<1>4. RowMove(job[j], q)
  BY <1>1, <1>3 DEF RowMove
<1>5. Truthful(job[j]) => Truthful(q)
  BY <1>1, <1>3 DEF Truthful
<1>6. QED
  BY <1>1, <1>2, <1>4, <1>5, WritesRow DEF Follows

\* What finish_attempt accepts becomes a lawful end: a completion is only
\* recorded with its evidence, and never over a requested cancellation.
LEMMA FinishRow ==
  ASSUME IInv, NEW w \in Workers, NEW l \in held[w], NEW o \in Outcomes, Finish(w, l, o)
  PROVE  RowStep
<1> DEFINE j == l.job
           s == EffectiveStatus(j, o)
           row == [job[j] EXCEPT !.stage = "CLEANING_UP"]
           q == FinishedJob(job[j], s, o.evidence)
<1>1. /\ j \in Jobs /\ job[j] \in JobRow
      /\ job[j].status \in {"RUNNING", "CANCEL_REQUESTED"}
  BY FencedRows, RowsOf DEF Finish
<1>2. job' = [job EXCEPT ![j] = q]
  BY DEF Finish
<1>3. o.status \in OutcomeStatuses /\ (o.status # "COMPLETED" \/ o.evidence \in BOOLEAN)
  <2>1. CASE o = [status |-> "COMPLETED", evidence |-> TRUE]
    BY <2>1 DEF OutcomeStatuses
  <2>2. CASE o \in [status : OutcomeStatuses, evidence : {FALSE}]
    BY <2>2
  <2>3. QED
    BY <2>1, <2>2 DEF Outcomes
<1>4. /\ job[j].status = "CANCEL_REQUESTED" => s = "CANCELLED"
      /\ s = "COMPLETED" => JobMayMove(job[j].status, "SUCCEEDED", o.evidence)
      /\ s \in OutcomeStatuses
  BY <1>3 DEF EffectiveStatus, OutcomeStatuses
<1>5. s = "COMPLETED" => job[j].status = "RUNNING" /\ o.evidence
  BY <1>1, <1>4 DEF JobMayMove
<1>6. /\ row \in JobRow /\ row.status = job[j].status /\ row.told = job[j].told
      /\ row.retention = job[j].retention /\ row.evidence = job[j].evidence
      /\ row.no = job[j].no /\ row.auto = job[j].auto
  BY <1>1 DEF JobRow, AttemptStages
<1> HIDE DEF row, s, j
<1>7. CASE s = "COMPLETED"
  <2> DEFINE f == Ended(row, "SUCCEEDED")
  <2>1. /\ f.status = "SUCCEEDED" /\ f.told = "SUCCEEDED" /\ f.retention = "running"
        /\ f.no = job[j].no /\ f.auto = job[j].auto /\ f \in JobRow
    BY <1>6, EndedFields, EndedRow DEF JobStatuses
  <2>2. q = [f EXCEPT !.evidence = o.evidence]
    BY <1>7 DEF FinishedJob, row
  <2> HIDE DEF f, q
  <2>3. /\ q.status = "SUCCEEDED" /\ q.told = "SUCCEEDED" /\ q.retention = "running"
        /\ q.no = job[j].no /\ q.auto = job[j].auto /\ q.evidence = o.evidence
    BY <2>1, <2>2 DEF JobRow
  <2>4. RowMove(job[j], q)
    BY <1>5, <1>7, <2>3 DEF RowMove
  <2>5. Truthful(q)
    BY <1>5, <1>7, <2>3 DEF Truthful, TerminalJobStatuses
  <2>6. QED
    BY <1>1, <1>2, <2>4, <2>5, WritesRow DEF Follows, q
<1>8. CASE s = "NEEDS_INPUT"
  <2>1. q = [row EXCEPT !.status = "NEEDS_INPUT", !.told = "NEEDS_INPUT"]
    BY <1>8 DEF FinishedJob, row
  <2> HIDE DEF q
  <2>2. /\ q.status = "NEEDS_INPUT" /\ q.told = "NEEDS_INPUT"
        /\ q.retention = job[j].retention /\ q.evidence = job[j].evidence
        /\ q.no = job[j].no /\ q.auto = job[j].auto
    BY <1>6, <2>1 DEF JobRow
  <2>3. job[j].status = "RUNNING"
    BY <1>1, <1>4, <1>8
  <2>4. RowMove(job[j], q)
    BY <2>2, <2>3 DEF RowMove
  <2>5. Truthful(job[j]) => Truthful(q)
    BY <2>2, <2>3 DEF Truthful, TerminalJobStatuses
  <2>6. QED
    BY <1>1, <1>2, <2>4, <2>5, WritesRow DEF Follows, q
<1>9. CASE s \in {"CANCELLED", "FAILED"}
  <2>1. q = Ended(row, s)
    BY <1>9 DEF FinishedJob, row
  <2> HIDE DEF q
  <2>2. /\ q.status = s /\ q.told = s /\ q.retention = "running"
        /\ q.no = job[j].no /\ q.auto = job[j].auto /\ q.evidence = job[j].evidence
    BY <1>6, <2>1, EndedFields
  <2>3. RowMove(job[j], q)
    BY <1>1, <1>4, <1>9, <2>2 DEF RowMove
  <2>4. Truthful(job[j]) => Truthful(q)
    BY <1>1, <1>9, <2>2 DEF Truthful, TerminalJobStatuses
  <2>5. QED
    BY <1>1, <1>2, <2>3, <2>4, WritesRow DEF Follows, q
<1>10. QED
  BY <1>4, <1>7, <1>8, <1>9 DEF OutcomeStatuses

LEMMA NextRowStep == IInv /\ [Next]_vars => RowStep
<1> SUFFICES ASSUME IInv, [Next]_vars PROVE RowStep
  OBVIOUS
<1>1. ASSUME NEW j \in Jobs, JobStep(j) PROVE RowStep
  BY <1>1, CreateJobRow, ReopenRow, CancelWaitingRow, CancelRunningRow, RecoverRow,
     RetentionRow DEF JobStep
<1>2. ASSUME NEW w \in Workers, WorkerStep(w) PROVE RowStep
  <2>1. CASE Claim(w)
    BY <2>1, ClaimRow
  <2>2. ASSUME NEW l \in held[w], NEW stage \in ReportedStages, ReportStage(w, l, stage)
        PROVE  RowStep
    BY <2>2, ReportStageRow
  <2>3. ASSUME NEW l \in held[w], NEW o \in Outcomes, Finish(w, l, o) PROVE RowStep
    BY <2>3, FinishRow
  <2>4. ASSUME NEW l \in held[w], Heartbeat(w, l) \/ DiscardOutcome(w, l) \/ Abandon(w, l)
        PROVE  RowStep
    BY <2>4 DEF Heartbeat, DiscardOutcome, Abandon, RowStep
  <2>5. ASSUME NEW l \in held[w], Hang(w, l) PROVE RowStep
    BY <2>5 DEF Hang, RowStep
  <2>6. CASE Restart(w)
    BY <2>6 DEF Restart, RowStep
  <2>7. QED
    BY <1>2, <2>1, <2>2, <2>3, <2>4, <2>5, <2>6 DEF WorkerStep, End
<1>3. CASE Tick \/ UNCHANGED vars
  BY <1>3 DEF Tick, vars, RowStep
<1>4. QED
  BY <1>1, <1>2, <1>3 DEF Next

-----------------------------------------------------------------------------
(* The row never misleads *)

LEMMA TruthfulInvariance == Spec => []AllTruthful
<1>1. Init => AllTruthful
  BY DEF Init, AllTruthful, Truthful, NoJob
<1>2. IInv /\ AllTruthful /\ [Next]_vars => AllTruthful'
  <2> SUFFICES ASSUME IInv, AllTruthful, RowStep PROVE AllTruthful'
    BY NextRowStep
  <2>1. CASE job' = job
    BY <2>1 DEF AllTruthful
  <2>2. ASSUME NEW j \in Jobs, job' = [job EXCEPT ![j] = job'[j]], Follows(job[j], job'[j])
        PROVE  AllTruthful'
    <3>1. Truthful(job'[j])
      BY <2>2 DEF Follows, AllTruthful
    <3>2. \A i \in Jobs \ {j} : job'[i] = job[i]
      BY <2>2 DEF IInv, RowsOK
    <3>3. \A i \in Jobs : Truthful(job'[i])
      BY <3>1, <3>2 DEF AllTruthful
    <3>4. QED
      BY <3>3 DEF AllTruthful
  <2>3. QED
    BY <2>1, <2>2 DEF RowStep
<1>3. QED
  BY <1>1, <1>2, Invariance, PTL DEF Spec

\* A client that follows the event stream to its end believes the status the
\* Job really has: no transition of a Job, by a Requester, a Worker or
\* recovery, goes without the event that tells it.
THEOREM StreamIsTruthful == Spec => []StreamTellsStatus
<1>1. AllTruthful => StreamTellsStatus
  BY DEF AllTruthful, Truthful, StreamTellsStatus, Created
<1>2. QED
  BY <1>1, TruthfulInvariance, PTL

\* cancel_job and report_stage(PUBLISHING) exclude each other: a Job that is
\* publishing has no cancellation pending.
THEOREM CancelExcludesPublishing == Spec => []NoCancelWhilePublishing
<1>1. AllTruthful => NoCancelWhilePublishing
  BY DEF AllTruthful, Truthful, NoCancelWhilePublishing
<1>2. QED
  BY <1>1, TruthfulInvariance, PTL

\* Delivery evidence and the retention deadline are where the Job's status
\* says: evidence on SUCCEEDED Jobs only, and no deadline of an earlier
\* failure left on a Job that was reopened.
THEOREM EvidenceAndRetention == Spec => [](EvidenceMeansSucceeded /\ RetentionOnlyWhenFinished)
<1>1. AllTruthful => EvidenceMeansSucceeded /\ RetentionOnlyWhenFinished
  BY DEF AllTruthful, Truthful, EvidenceMeansSucceeded, RetentionOnlyWhenFinished, Created
<1>2. QED
  BY <1>1, TruthfulInvariance, PTL

-----------------------------------------------------------------------------
(* The contract *)

\* A lawful move of one row is a step of the contract.
LEMMA MoveIsContractStep ==
  ASSUME IInv, NEW j \in Jobs, job' = [job EXCEPT ![j] = job'[j]], RowMove(job[j], job'[j])
  PROVE  [Contract!Next]_(Contract!vars)
<1> DEFINE r == job[j]
           q == job'[j]
<1>1. \A i \in Jobs \ {j} : job'[i] = job[i]
  BY DEF IInv, RowsOK
<1>2. ASSUME NEW from, NEW to, r.status \in from, q.status = to
      PROVE  Contract!Move(j, from, to)
  BY <1>1, <1>2 DEF Contract!Move
<1>3. q.no = r.no /\ q.auto = r.auto => Contract!SameAttempt
  BY <1>1 DEF Contract!SameAttempt
<1>4. q.no = r.no + 1 => Contract!NewAttempt(j)
  BY <1>1 DEF Contract!NewAttempt
<1>5. q.status = r.status /\ q.no = r.no /\ q.auto = r.auto => UNCHANGED Contract!vars
  BY <1>1 DEF Contract!vars
<1>6. q.auto = r.auto => UNCHANGED [i \in Jobs |-> job[i].auto]
  BY <1>1
<1>7. ASSUME r.auto < AutomaticRetryLimit, r.status = "RUNNING", q.status = "QUEUED",
             q.no = r.no + 1, q.auto = r.auto + 1
      PROVE  Contract!RetryAutomatically(j)
  <2>1. Contract!Move(j, {"RUNNING"}, "QUEUED") /\ Contract!NewAttempt(j)
    BY <1>2, <1>4, <1>7
  <2>2. [i \in Jobs |-> job'[i].auto]
          = [[i \in Jobs |-> job[i].auto] EXCEPT ![j] = job[j].auto + 1]
    BY <1>1, <1>7
  <2>3. [i \in Jobs |-> job[i].auto][j] = job[j].auto
    OBVIOUS
  <2>4. QED
    BY <1>7, <2>1, <2>2, <2>3 DEF Contract!RetryAutomatically
<1>8. ASSUME r.status \in TerminalJobStatuses, q.status = "DELETED", q.no = 0, q.auto = 0
      PROVE  Contract!Delete(j)
  <2>1. Contract!Move(j, {"SUCCEEDED", "FAILED", "CANCELLED"}, "DELETED")
    BY <1>2, <1>8 DEF TerminalJobStatuses
  <2>2. /\ [i \in Jobs |-> job'[i].no] = [[i \in Jobs |-> job[i].no] EXCEPT ![j] = 0]
        /\ [i \in Jobs |-> job'[i].auto] = [[i \in Jobs |-> job[i].auto] EXCEPT ![j] = 0]
    BY <1>1, <1>8
  <2>3. QED
    BY <2>1, <2>2 DEF Contract!Delete
<1>9. ASSUME r.status \in {"ABSENT", "NEEDS_INPUT", "FAILED"}, q.status = "QUEUED",
             q.no = r.no + 1, q.auto = r.auto
      PROVE  Contract!Submit(j) \/ Contract!Reopen(j)
  BY <1>2, <1>4, <1>6, <1>9 DEF Contract!Submit, Contract!Reopen
<1>10. ASSUME q.no = r.no, q.auto = r.auto, q.status # r.status
       PROVE  \/ Contract!Start(j) \/ Contract!Conclude(j)
              \/ Contract!RequestCancel(j) \/ Contract!Cancel(j)
              \/ Contract!Delete(j)
  <2>1. CASE r.status = "QUEUED" /\ q.status = "RUNNING"
    BY <1>2, <1>3, <1>10, <2>1 DEF Contract!Start
  <2>2. CASE r.status = "RUNNING" /\ q.status \in {"SUCCEEDED", "FAILED", "NEEDS_INPUT"}
    BY <1>2, <1>3, <1>10, <2>2 DEF Contract!Conclude
  <2>3. CASE r.status = "RUNNING" /\ q.status = "CANCEL_REQUESTED"
    BY <1>2, <1>3, <1>10, <2>3 DEF Contract!RequestCancel
  <2>4. CASE /\ r.status \in {"QUEUED", "NEEDS_INPUT", "RUNNING", "CANCEL_REQUESTED"}
             /\ q.status = "CANCELLED"
    BY <1>2, <1>3, <1>10, <2>4 DEF Contract!Cancel
  <2>5. job[j] \in JobRow
    BY RowsOf
  <2>6. r.no \in Nat /\ r.auto \in Nat
    BY <2>5, JobRowNumbers
  <2>7. QED
    BY <1>8, <1>10, <2>1, <2>2, <2>3, <2>4, <2>6 DEF RowMove
<1>11. QED
  BY <1>5, <1>7, <1>8, <1>9, <1>10 DEF RowMove, Contract!Next

\* Leases, fencing, crashes, recovery and retention implement what a Requester
\* is promised: a Job moves along the documented diagram only, every new
\* Attempt is a submission, an answer, a retry of a failed Job or one of the
\* platform's limited second chances, and a cancelled Job never comes back.
THEOREM ContractKept == Spec => ImplementsContract
<1>1. Init => Contract!Init
  BY DEF Init, Contract!Init, NoJob
<1>2. IInv /\ [Next]_vars => [Contract!Next]_(Contract!vars)
  <2> SUFFICES ASSUME IInv, RowStep PROVE [Contract!Next]_(Contract!vars)
    BY NextRowStep
  <2>1. CASE job' = job
    BY <2>1 DEF Contract!vars
  <2>2. QED
    BY <2>1, MoveIsContractStep DEF RowStep, Follows
<1>3. QED
  BY <1>1, <1>2, Invariance, PTL DEF Spec, ImplementsContract, Contract!Spec

=============================================================================
