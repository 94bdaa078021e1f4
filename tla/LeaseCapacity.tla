---------------------------- MODULE LeaseCapacity ----------------------------
(***************************************************************************)
(* claim_attempt, recover_expired_leases and the fenced transactions       *)
(* (heartbeat_lease, finish_attempt) of PlatformRepository, statement by   *)
(* statement under PostgreSQL's READ COMMITTED: now() is the time the      *)
(* transaction began, the claim advisory lock serialises claims and        *)
(* recoveries but not the fenced transactions, and a row lock is held to   *)
(* the commit.  JobLifecycle has the same transactions as atomic steps.    *)
(***************************************************************************)
EXTENDS Integers, FiniteSets

CONSTANTS
  AttemptRows,    \* rows of the attempts table
  Claimants,      \* Worker processes: each claims and runs Attempts
  Recoverers,     \* and its recovery loop ends expired leases
  NoTransaction,  \* a lock nobody holds
  Units,          \* settings.max_concurrent_jobs
  LeaseLength,    \* settings.lease_seconds, in ticks
  MaxTime         \* bound of the model on the clock

ASSUME UnitsAssumption == Units \in Nat \ {0}
ASSUME LengthAssumption == LeaseLength \in Nat \ {0}
ASSUME TimeAssumption == MaxTime \in Nat
ASSUME RowsAssumption == IsFiniteSet(AttemptRows)

VARIABLES
  clock,     \* the database's time
  rowOf,     \* committed rows: status and lease_expires_at
  lock,      \* lock[a]: the transaction that holds the row lock of Attempt a
  advisory,  \* the transaction that holds CLAIM_ADVISORY_LOCK
  claim,     \* claim[w]: the claim_attempt transaction of Worker w
  recover,   \* recover[w]: its recover_expired_leases transaction
  fenced,    \* fenced[a]: the fenced transaction of the task running Attempt a
  revived    \* history: a lease was renewed after it had lapsed

capacityVars == <<clock, rowOf, lock, advisory, claim, recover, fenced, revived>>

Times == 0..(MaxTime + LeaseLength)

ClaimTx(w) == <<"claim", w>>
RecoverTx(w) == <<"recover", w>>
FencedTx(a) == <<"fenced", a>>

AdvisoryTxs == {ClaimTx(w) : w \in Claimants} \union {RecoverTx(w) : w \in Recoverers}
Txs == AdvisoryTxs \union {FencedTx(a) : a \in AttemptRows}

ASSUME NobodyAssumption == NoTransaction \notin Txs

\* A transaction of w between statements; rows are those it has locked.
NoTx == [pc |-> "none", now |-> 0, rows |-> {}]
Begun == [pc |-> "begun", now |-> clock, rows |-> {}]

LiveAt(t) == {a \in AttemptRows : rowOf[a].status = "RUNNING" /\ rowOf[a].expires > t}
ExpiredAt(t) == {a \in AttemptRows : rowOf[a].status = "RUNNING" /\ rowOf[a].expires <= t}

Free(as) == [a \in AttemptRows |-> IF a \in as THEN NoTransaction ELSE lock[a]]
Taken(as, tx) == [a \in AttemptRows |-> IF a \in as THEN tx ELSE lock[a]]

CapacityInit ==
  /\ clock = 0
  /\ rowOf = [a \in AttemptRows |-> [status |-> "QUEUED", expires |-> 0]]
  /\ lock = [a \in AttemptRows |-> NoTransaction]
  /\ advisory = NoTransaction
  /\ claim = [w \in Claimants |-> NoTx]
  /\ recover = [w \in Recoverers |-> NoTx]
  /\ fenced = [a \in AttemptRows |-> [pc |-> "none", now |-> 0]]
  /\ revived = FALSE

-----------------------------------------------------------------------------
(* claim_attempt *)

ClaimBegin(w) ==
  /\ claim[w].pc = "none"
  /\ claim' = [claim EXCEPT ![w] = Begun]
  /\ UNCHANGED <<clock, rowOf, lock, advisory, recover, fenced, revived>>

ClaimSerialise_NoLock(w) ==
  /\ claim[w].pc = "begun"
  /\ claim' = [claim EXCEPT ![w].pc = "serialised"]
  /\ UNCHANGED <<clock, rowOf, lock, advisory, recover, fenced, revived>>

\* SELECT pg_advisory_xact_lock: waits
ClaimSerialise(w) ==
  /\ claim[w].pc = "begun"
  /\ advisory = NoTransaction
  /\ advisory' = ClaimTx(w)
  /\ claim' = [claim EXCEPT ![w].pc = "serialised"]
  /\ UNCHANGED <<clock, rowOf, lock, recover, fenced, revived>>

\* the transaction ends without a row to show for it
ClaimNothing(w) ==
  /\ claim' = [claim EXCEPT ![w] = NoTx]
  /\ advisory' = IF advisory = ClaimTx(w) THEN NoTransaction ELSE advisory
  /\ lock' = Free(claim[w].rows)
  /\ UNCHANGED <<clock, rowOf, recover, fenced, revived>>

\* count(*) of the live leases, against Platform Capacity
ClaimCount(w) ==
  /\ claim[w].pc = "serialised"
  /\ \/ /\ Cardinality(LiveAt(claim[w].now)) < Units
        /\ claim' = [claim EXCEPT ![w].pc = "counted"]
        /\ UNCHANGED <<clock, rowOf, lock, advisory, recover, fenced, revived>>
     \/ /\ Cardinality(LiveAt(claim[w].now)) >= Units
        /\ ClaimNothing(w)

\* the queued Attempt, FOR UPDATE SKIP LOCKED
ClaimPick(w) ==
  LET free == {a \in AttemptRows : rowOf[a].status = "QUEUED" /\ lock[a] = NoTransaction} IN
  /\ claim[w].pc = "counted"
  /\ \/ \E a \in free :
          /\ claim' = [claim EXCEPT ![w].pc = "picked", ![w].rows = {a}]
          /\ lock' = Taken({a}, ClaimTx(w))
          /\ UNCHANGED <<clock, rowOf, advisory, recover, fenced, revived>>
     \/ free = {} /\ ClaimNothing(w)

ClaimCommit(w) ==
  /\ claim[w].pc = "picked"
  /\ rowOf' = [a \in AttemptRows |->
       IF a \in claim[w].rows
       THEN [status |-> "RUNNING", expires |-> claim[w].now + LeaseLength] ELSE rowOf[a]]
  /\ fenced' = [a \in AttemptRows |->
       IF a \in claim[w].rows THEN [pc |-> "working", now |-> 0] ELSE fenced[a]]
  /\ lock' = Free(claim[w].rows)
  /\ advisory' = IF advisory = ClaimTx(w) THEN NoTransaction ELSE advisory
  /\ claim' = [claim EXCEPT ![w] = NoTx]
  /\ UNCHANGED <<clock, recover, revived>>

\* the connection is lost, and PostgreSQL rolls the transaction back
ClaimAbort(w) == claim[w].pc # "none" /\ ClaimNothing(w)

-----------------------------------------------------------------------------
(* recover_expired_leases *)

RecoverBegin(w) ==
  /\ recover[w].pc = "none"
  /\ recover' = [recover EXCEPT ![w] = Begun]
  /\ UNCHANGED <<clock, rowOf, lock, advisory, claim, fenced, revived>>

RecoverSerialise(w) ==
  /\ recover[w].pc = "begun"
  /\ advisory = NoTransaction
  /\ advisory' = RecoverTx(w)
  /\ recover' = [recover EXCEPT ![w].pc = "serialised"]
  /\ UNCHANGED <<clock, rowOf, lock, claim, fenced, revived>>

\* every expired Attempt nobody is writing to: FOR UPDATE SKIP LOCKED
RecoverSelect(w) ==
  LET expired == {a \in ExpiredAt(recover[w].now) : lock[a] = NoTransaction} IN
  /\ recover[w].pc = "serialised"
  /\ recover' = [recover EXCEPT ![w].pc = "selected", ![w].rows = expired]
  /\ lock' = Taken(expired, RecoverTx(w))
  /\ UNCHANGED <<clock, rowOf, advisory, claim, fenced, revived>>

\* the transaction ends, with or without its updates
RecoverEnd(w, commits) ==
  /\ recover[w].pc = "selected" \/ (recover[w].pc # "none" /\ ~commits)
  /\ rowOf' = [a \in AttemptRows |->
       IF commits /\ a \in recover[w].rows
       THEN [status |-> "FAILED", expires |-> 0] ELSE rowOf[a]]
  /\ lock' = [a \in AttemptRows |-> IF lock[a] = RecoverTx(w) THEN NoTransaction ELSE lock[a]]
  /\ advisory' = IF advisory = RecoverTx(w) THEN NoTransaction ELSE advisory
  /\ recover' = [recover EXCEPT ![w] = NoTx]
  /\ UNCHANGED <<clock, claim, fenced, revived>>

-----------------------------------------------------------------------------
(* The fenced transactions of the task that runs Attempt a *)

FencedBegin(a) ==
  /\ fenced[a].pc = "working"
  /\ fenced' = [fenced EXCEPT ![a] = [pc |-> "begun", now |-> clock]]
  /\ UNCHANGED <<clock, rowOf, lock, advisory, claim, recover, revived>>

Honoured_ByToken(a) == rowOf[a].status # "QUEUED"

\* _locked_lease's conditions, evaluated on the row as it is once locked
Honoured(a) == rowOf[a].status = "RUNNING" /\ rowOf[a].expires > fenced[a].now

\* _locked_lease: waits for the row lock; LeaseLost ends the task
FencedLock(a) ==
  /\ fenced[a].pc = "begun"
  /\ lock[a] = NoTransaction
  /\ IF Honoured(a)
     THEN /\ fenced' = [fenced EXCEPT ![a].pc = "locked"]
          /\ lock' = Taken({a}, FencedTx(a))
     ELSE /\ fenced' = [fenced EXCEPT ![a].pc = "gone"]
          /\ UNCHANGED lock
  /\ UNCHANGED <<clock, rowOf, advisory, claim, recover, revived>>

\* heartbeat_lease commits
Renew(a) ==
  /\ fenced[a].pc = "locked"
  /\ rowOf' = [rowOf EXCEPT ![a].expires = fenced[a].now + LeaseLength]
  /\ revived' = (revived \/ rowOf[a].expires <= clock)
  /\ lock' = Free({a})
  /\ fenced' = [fenced EXCEPT ![a].pc = "working"]
  /\ UNCHANGED <<clock, advisory, claim, recover>>

\* finish_attempt commits
FinishAttempt(a) ==
  /\ fenced[a].pc = "locked"
  /\ rowOf' = [rowOf EXCEPT ![a] = [status |-> "COMPLETED", expires |-> 0]]
  /\ lock' = Free({a})
  /\ fenced' = [fenced EXCEPT ![a].pc = "gone"]
  /\ UNCHANGED <<clock, advisory, claim, recover, revived>>

\* the Worker process dies
FencedCrash(a) ==
  /\ fenced[a].pc \in {"working", "begun", "locked"}
  /\ fenced' = [fenced EXCEPT ![a].pc = "gone"]
  /\ lock' = [b \in AttemptRows |-> IF lock[b] = FencedTx(a) THEN NoTransaction ELSE lock[b]]
  /\ UNCHANGED <<clock, rowOf, advisory, claim, recover, revived>>

TimePasses ==
  /\ clock < MaxTime
  /\ clock' = clock + 1
  /\ UNCHANGED <<rowOf, lock, advisory, claim, recover, fenced, revived>>

-----------------------------------------------------------------------------

ClaimStep(w) ==
  \/ ClaimBegin(w) \/ ClaimSerialise(w) \/ ClaimCount(w)
  \/ ClaimPick(w) \/ ClaimCommit(w) \/ ClaimAbort(w)

RecoverStep(w) ==
  \/ RecoverBegin(w) \/ RecoverSerialise(w) \/ RecoverSelect(w)
  \/ \E commits \in BOOLEAN : RecoverEnd(w, commits)

FencedStep(a) ==
  \/ FencedBegin(a) \/ FencedLock(a)
  \/ Renew(a) \/ FinishAttempt(a) \/ FencedCrash(a)

CapacityNext ==
  \/ \E w \in Claimants : ClaimStep(w)
  \/ \E w \in Recoverers : RecoverStep(w)
  \/ \E a \in AttemptRows : FencedStep(a)
  \/ TimePasses

CapacitySpec == CapacityInit /\ [][CapacityNext]_capacityVars

-----------------------------------------------------------------------------
(* Properties *)

\* Rows, locks and transactions have their shapes, and each row lock is held
\* by the one transaction that is going to write the row.
CapacityTypeOK ==
  /\ clock \in 0..MaxTime
  /\ rowOf \in [AttemptRows -> [status : {"QUEUED", "RUNNING", "FAILED", "COMPLETED"}, expires : Times]]
  /\ lock \in [AttemptRows -> Txs \union {NoTransaction}]
  /\ advisory \in AdvisoryTxs \union {NoTransaction}
  /\ claim \in [Claimants -> [pc : {"none", "begun", "serialised", "counted", "picked"},
                            now : 0..MaxTime, rows : SUBSET AttemptRows]]
  /\ recover \in [Recoverers -> [pc : {"none", "begun", "serialised", "selected"},
                              now : 0..MaxTime, rows : SUBSET AttemptRows]]
  /\ fenced \in [AttemptRows -> [pc : {"none", "working", "begun", "locked", "gone"},
                              now : 0..MaxTime]]
  /\ revived \in BOOLEAN
  /\ \A a \in AttemptRows :
       /\ lock[a] = FencedTx(a) <=> fenced[a].pc = "locked"
       /\ \A w \in Claimants : lock[a] = ClaimTx(w) <=> a \in claim[w].rows
       /\ \A w \in Recoverers : lock[a] = RecoverTx(w) <=> a \in recover[w].rows

\* What a transaction read under its lock is still so when it commits: a claim
\* commits on a queued row, recovery on running rows whose lease has passed, a
\* fenced transaction on its own running row.
LockedReadsHold ==
  /\ \A w \in Claimants : \A a \in claim[w].rows : rowOf[a].status = "QUEUED"
  /\ \A w \in Recoverers : \A a \in recover[w].rows :
       rowOf[a].status = "RUNNING" /\ rowOf[a].expires <= clock
  /\ \A a \in AttemptRows : fenced[a].pc = "locked" => rowOf[a].status = "RUNNING"

\* docs/adr/0014: active leases protected by the claim lock never exceed
\* Platform Capacity.
LeasesWithinCapacity == Cardinality(LiveAt(clock)) <= Units

\* The one way to exceed Platform Capacity is a heartbeat whose commit comes
\* after the lease it renews had lapsed (and was left out of a claim's count).
CapacityUnlessRevived == LeasesWithinCapacity \/ revived

\* An ended Attempt stays as it ended, and one whose lease stands is ended by
\* its own task only, never by recovery.
NeverEndedWhileLive ==
  [][\A a \in AttemptRows :
       /\ rowOf[a].status \in {"FAILED", "COMPLETED"} => rowOf'[a] = rowOf[a]
       /\ rowOf'[a].status = "FAILED" /\ rowOf[a].status # "FAILED" => a \notin LiveAt(clock)]_capacityVars

=============================================================================
