---------------------------- MODULE DatabaseProofs ----------------------------
(***************************************************************************)
(* Proofs about what processes do to the database, for every number of     *)
(* Workers, Jobs, Attempts and calls, every capacity and lease length:     *)
(*                                                                         *)
(*   - the registry.  ClaimersAgree alone is not inductive: register_worker *)
(*     compares rows, so the rows of serving processes must tell their     *)
(*     capacities (RowsOfServers), and it must hold of every serving       *)
(*     process, those that have left the claiming loop included;           *)
(*   - Platform Capacity and recovery at statement granularity: what the   *)
(*     advisory lock and the row locks protect, and the one way past them; *)
(*   - submission under an Idempotency-Key: the calls make one Job;        *)
(*   - the event log and its stream: the committed numbers leave no gap    *)
(*     below the cursor, since the drafts are those of one transaction.    *)
(***************************************************************************)
EXTENDS WorkerPool, LeaseCapacity, ControlApi, FiniteSetTheorems, NumberLemmas, TLAPS

-----------------------------------------------------------------------------
(* The Workers of one pool and their registry rows (WorkerPool).           *)

RowsOfServers ==
  \A w \in Workers : proc[w] \in Serving =>
    /\ row[w].capacity = conf[w]
    /\ w \notin late => row[w].fresh

Configured == \A w \in Workers : proc[w] # "down" => conf[w] # 0

ServersAgree ==
  \A v, w \in Workers :
    /\ proc[v] \in Serving /\ proc[w] \in Serving
    /\ v \notin late /\ w \notin late
    => conf[v] = conf[w]

DrainedRows ==
  \A w \in Workers : drain[w] = "published" => row[w].draining /\ proc[w] # "starting"

PoolIInv == TypeOK /\ RowsOfServers /\ Configured /\ ServersAgree /\ DrainedRows

-----------------------------------------------------------------------------
\* The initial state satisfies the invariant.
LEMMA PoolInitIInv == Init => PoolIInv
  BY AttemptsArePositive DEF Init, PoolIInv, TypeOK, RowsOfServers, Configured, ServersAgree,
     DrainedRows, Row, Work, NoRow, Queued, Serving, Looping


\* The operators on one row and on one Job, and the types they keep.
LEMMA RowOperators ==
  /\ \A c \in Capacities \union {0} :
       Registered(c) \in Row /\ Registered(c).capacity = c /\ Registered(c).fresh
  /\ \A r \in Row :
       /\ Refreshed(r) \in Row /\ Refreshed(r).capacity = r.capacity
       /\ Refreshed(r).draining = r.draining /\ Refreshed(r).fresh
       /\ Stale(r) \in Row /\ Stale(r).capacity = r.capacity
       /\ Stale(r).draining = r.draining
       /\ Draining(r) \in Row /\ Draining(r).capacity = r.capacity
       /\ Draining(r).draining /\ Draining(r).fresh
  BY DEF Row, Registered, Refreshed, Stale, Draining

LEMMA WorkOperators ==
  /\ \A r \in Work : Recovered(r) \in Work /\ Lapsed(r) \in Work
  /\ \A r \in Work, w \in Workers : Leased(r, w) \in Work
  /\ \A n \in 1 .. MaxAttempts : Over(n) \in Work
  /\ \A r \in Work : r.no \in 1 .. MaxAttempts
<1>1. \A n \in 1 .. MaxAttempts : Over(n) \in Work /\ Queued(n) \in Work
  BY DEF Work, Queued, Over
<1>2. \A r \in Work : r.no \in 1 .. MaxAttempts
  BY DEF Work
<1>3. \A r \in Work : Recovered(r) \in Work
  BY <1>1, <1>2, AttemptsArePositive DEF Recovered
<1>4. \A r \in Work : Lapsed(r) \in Work
  BY DEF Work, Lapsed
<1>5. \A r \in Work, w \in Workers : Leased(r, w) \in Work
  BY DEF Work, Leased
<1> QED
  BY <1>1, <1>2, <1>3, <1>4, <1>5

\* A publication of the drain writes at most the row's draining and heartbeat.
LEMMA MarkingKeepsType ==
  ASSUME TypeOK, NEW w \in Workers, MarkDraining(w) \/ NotMarked(w)
  PROVE  /\ row' \in [Workers -> Row]
         /\ drain' \in [Workers -> {"no", "by_stop", "published", "lost"}]
<1>1. row' = row \/ row' = [row EXCEPT ![w] = Draining(row[w])]
  BY DEF MarkDraining, NotMarked
<1>2. row' \in [Workers -> Row]
  BY <1>1, RowOperators DEF TypeOK
<1>3. drain' = [drain EXCEPT ![w] = "lost"] \/ drain' = [drain EXCEPT ![w] = "published"]
  BY DEF MarkDraining, NotMarked
<1> QED
  BY <1>2, <1>3 DEF TypeOK

\* Every step of a process, its rows, its drain and its tasks keeps the types.
LEMMA PoolTypeStep ==
  ASSUME TypeOK, Next
  PROVE  TypeOK'
<1> USE RowOperators, WorkOperators
    DEF TypeOK, Serving, Looping, Background, Attempts
<1>1. ASSUME NEW w \in Workers, Start(w) PROVE TypeOK'
  BY <1>1 DEF Start
<1>2. ASSUME NEW w \in Workers, Register(w) PROVE TypeOK'
  BY <1>2 DEF Register
<1>3. ASSUME NEW w \in Workers, Refused(w) PROVE TypeOK'
  BY <1>3 DEF Refused, Gone
<1>4. ASSUME NEW w \in Workers, Heartbeat(w) PROVE TypeOK'
  BY <1>4 DEF Heartbeat, Known
<1>5. ASSUME NEW w \in Workers, GoStale(w) PROVE TypeOK'
  BY <1>5 DEF GoStale
<1>6. ASSUME NEW w \in Workers, LoopTop(w) PROVE TypeOK'
  BY <1>6 DEF LoopTop
<1>7. ASSUME NEW w \in Workers, PassEnds(w) PROVE TypeOK'
  BY <1>7 DEF PassEnds
<1>8. ASSUME NEW w \in Workers, LoopFails(w) PROVE TypeOK'
  BY <1>8 DEF LoopFails
<1>9. ASSUME NEW w \in Workers, BackgroundFails(w) PROVE TypeOK'
  BY <1>9 DEF BackgroundFails
<1>10. ASSUME NEW w \in Workers, Signal(w) PROVE TypeOK'
  BY <1>10 DEF Signal
<1>11. ASSUME NEW w \in Workers, Publish(w) PROVE TypeOK'
  BY <1>11, MarkingKeepsType DEF Publish
<1>12. ASSUME NEW w \in Workers, SetStop(w) PROVE TypeOK'
  BY <1>12 DEF SetStop
<1>13. ASSUME NEW w \in Workers, Leave(w) PROVE TypeOK'
  BY <1>13, MarkingKeepsType DEF Leave
<1>14. ASSUME NEW w \in Workers, Exit(w) PROVE TypeOK'
  BY <1>14 DEF Exit, Gone
<1>15. ASSUME NEW w \in Workers, Crash(w) PROVE TypeOK'
  BY <1>15 DEF Crash, Gone
<1>16. ASSUME NEW w \in Workers, Recover(w) PROVE TypeOK'
  BY <1>16 DEF Recover
<1>17. ASSUME NEW w \in Workers, NEW j \in Jobs, Claim(w, j) PROVE TypeOK'
  BY <1>17 DEF Claim
<1>18. ASSUME NEW w \in Workers, NEW j \in Jobs, NEW n \in 1 .. MaxAttempts,
              TaskEnds(w, j, n)
       PROVE  TypeOK'
  <2>1. active' \in [Workers -> SUBSET Attempts]
    BY <1>18 DEF TaskEnds
  <2>2. work' \in [Jobs -> Work]
    BY <1>18 DEF TaskEnds
  <2> QED
    BY <1>18, <2>1, <2>2 DEF TaskEnds
<1>19. ASSUME NEW j \in Jobs, Lapse(j) PROVE TypeOK'
  BY <1>19 DEF Lapse
<1>20. ASSUME NEW w \in Workers, ExitBroken(w) PROVE TypeOK'
  BY <1>20 DEF ExitBroken, Gone
<1>21. ASSUME NEW w \in Workers, NEW j \in Jobs, NEW n \in 1 .. MaxAttempts, Hang(w, j, n)
       PROVE  TypeOK'
  BY <1>21 DEF Hang
<1> QED
  BY ONLY Next, <1>20, <1>21, <1>1, <1>2, <1>3, <1>4, <1>5, <1>6, <1>7, <1>8, <1>9, <1>10, <1>11, <1>12, <1>13, <1>14, <1>15, <1>16, <1>17, <1>18, <1>19 DEF Next, Run, Drain


\* Rows of serving processes keep telling their capacities, and those
\* capacities stay the same: register_worker admits a process only next to
\* rows that agree with it.
LEMMA ServerStep ==
  ASSUME TypeOK, RowsOfServers, Configured, ServersAgree, Next
  PROVE  RowsOfServers' /\ Configured' /\ ServersAgree'
<1> USE RowOperators DEF TypeOK, RowsOfServers, Configured, ServersAgree, Serving, Looping
<1>1. ASSUME UNCHANGED <<row, conf, late>>, UNCHANGED proc
      PROVE  RowsOfServers' /\ Configured' /\ ServersAgree'
  BY <1>1
<1>2. ASSUME NEW w \in Workers, Start(w)
      PROVE  RowsOfServers' /\ Configured' /\ ServersAgree'
  BY <1>2, CapacitiesArePositive DEF Start
<1>3. ASSUME NEW w \in Workers, Register(w)
      PROVE  RowsOfServers' /\ Configured' /\ ServersAgree'
  <2>1. conf[w] \in Capacities \union {0} /\ conf[w] # 0
    BY <1>3 DEF Register
  <2>2. row'[w].capacity = conf[w] /\ row'[w].fresh
    BY <1>3, <2>1 DEF Register
  <2>3. /\ proc' = [proc EXCEPT ![w] = "looping"]
        /\ conf' = conf /\ late' = late
        /\ \A v \in Workers \ {w} : row'[v] = row[v]
    BY <1>3 DEF Register
  <2>4. \A v \in Workers \ {w} : row[v].fresh => row[v].capacity = conf[w]
    BY <1>3 DEF Register, OthersAgree
  <2>5. RowsOfServers'
    BY <2>2, <2>3
  <2>6. Configured'
    BY <2>1, <2>3
  <2>7. \A v \in Workers \ {w} : proc[v] \in Serving /\ v \notin late => conf[v] = conf[w]
    BY <2>4
  <2>8. ServersAgree'
    BY <2>3, <2>7
  <2> QED
    BY <2>5, <2>6, <2>8
<1>4. ASSUME NEW w \in Workers, Gone(w)
      PROVE  RowsOfServers' /\ Configured' /\ ServersAgree'
  BY <1>4 DEF Gone
<1>5. ASSUME NEW w \in Workers, Heartbeat(w)
      PROVE  RowsOfServers' /\ Configured' /\ ServersAgree'
  <2>1. /\ row'[w].capacity = row[w].capacity /\ row'[w].fresh
        /\ \A v \in Workers \ {w} : row'[v] = row[v]
        /\ proc' = proc /\ conf' = conf /\ late' = late
    BY <1>5 DEF Heartbeat
  <2> QED
    BY <2>1
<1>6. ASSUME NEW w \in Workers, GoStale(w)
      PROVE  RowsOfServers' /\ Configured' /\ ServersAgree'
  <2>1. /\ row'[w].capacity = row[w].capacity
        /\ \A v \in Workers \ {w} : row'[v] = row[v]
        /\ proc' = proc /\ conf' = conf
        /\ late \subseteq late' /\ (proc[w] \in Serving => w \in late')
    BY <1>6 DEF GoStale
  <2> QED
    BY <2>1
<1>7. ASSUME NEW w \in Workers, LoopTop(w) \/ PassEnds(w) \/ LoopFails(w)
      PROVE  RowsOfServers' /\ Configured' /\ ServersAgree'
  <2>1. /\ proc[w] \in Serving /\ proc'[w] \in Serving
        /\ \A v \in Workers \ {w} : proc'[v] = proc[v]
        /\ UNCHANGED <<row, conf, late>>
    BY <1>7 DEF LoopTop, PassEnds, LoopFails
  <2> QED
    BY <2>1
<1>8. ASSUME NEW w \in Workers, MarkDraining(w) \/ NotMarked(w)
      PROVE  /\ row'[w].capacity = row[w].capacity
             /\ row[w].fresh => row'[w].fresh
             /\ \A v \in Workers \ {w} : row'[v] = row[v]
  <2>1. row' = row \/ row' = [row EXCEPT ![w] = Draining(row[w])]
    BY <1>8 DEF MarkDraining, NotMarked
  <2> QED
    BY <2>1
<1>9. ASSUME NEW w \in Workers, Publish(w)
      PROVE  RowsOfServers' /\ Configured' /\ ServersAgree'
  <2>1. proc' = proc /\ conf' = conf /\ late' = late
    BY <1>9 DEF Publish
  <2>2. MarkDraining(w) \/ NotMarked(w)
    BY <1>9 DEF Publish
  <2> QED
    BY <1>8, <2>1, <2>2
<1>10. ASSUME NEW w \in Workers, Leave(w)
       PROVE  RowsOfServers' /\ Configured' /\ ServersAgree'
  <2>1. /\ proc[w] \in Serving /\ proc'[w] \in Serving
        /\ \A v \in Workers \ {w} : proc'[v] = proc[v]
        /\ conf' = conf /\ late' = late
    BY <1>10 DEF Leave
  <2>2. MarkDraining(w) \/ NotMarked(w) \/ row' = row
    BY <1>10 DEF Leave
  <2>3. /\ row'[w].capacity = row[w].capacity
        /\ row[w].fresh => row'[w].fresh
        /\ \A v \in Workers \ {w} : row'[v] = row[v]
    BY <1>8, <2>2
  <2> QED
    BY <2>1, <2>3
<1>11. ASSUME NEW w \in Workers, Refused(w) \/ Exit(w) \/ ExitBroken(w) \/ Crash(w)
       PROVE  RowsOfServers' /\ Configured' /\ ServersAgree'
  BY <1>4, <1>11 DEF Refused, Exit, ExitBroken, Crash
<1>12. ASSUME NEW w \in Workers,
              \/ BackgroundFails(w) \/ Recover(w) \/ Signal(w) \/ SetStop(w)
              \/ \E j \in Jobs : Claim(w, j)
              \/ \E j \in Jobs, n \in 1 .. MaxAttempts : TaskEnds(w, j, n) \/ Hang(w, j, n)
       PROVE  RowsOfServers' /\ Configured' /\ ServersAgree'
  BY <1>1, <1>12 DEF BackgroundFails, Recover, Signal, SetStop, Claim, TaskEnds, Hang
<1>13. ASSUME NEW j \in Jobs, Lapse(j)
       PROVE  RowsOfServers' /\ Configured' /\ ServersAgree'
  BY <1>1, <1>13 DEF Lapse
<1> QED
  BY ONLY Next, <1>2, <1>3, <1>5, <1>6, <1>7, <1>9, <1>10, <1>11, <1>12, <1>13
     DEF Next, Run, Drain

\* A published drain stays in the row: no other write of the row undoes it.
LEMMA DrainedStep ==
  ASSUME TypeOK, RowsOfServers, Configured, DrainedRows, Next
  PROVE  DrainedRows'
<1> USE RowOperators DEF TypeOK, DrainedRows
<1>1. ASSUME NEW w \in Workers, Start(w) PROVE DrainedRows'
  BY <1>1 DEF Start
<1>2. ASSUME NEW w \in Workers, Register(w) PROVE DrainedRows'
  BY <1>2 DEF Register
<1>3. ASSUME NEW w \in Workers, Refused(w) \/ Exit(w) \/ ExitBroken(w) \/ Crash(w) PROVE DrainedRows'
  BY <1>3 DEF Refused, Exit, ExitBroken, Crash, Gone
<1>4. ASSUME NEW w \in Workers, Heartbeat(w) \/ GoStale(w) PROVE DrainedRows'
  BY <1>4 DEF Heartbeat, GoStale
<1>5. ASSUME NEW w \in Workers, LoopTop(w) \/ PassEnds(w) \/ LoopFails(w)
      PROVE  DrainedRows'
  BY <1>5 DEF LoopTop, PassEnds, LoopFails
<1>6. ASSUME NEW w \in Workers, MarkDraining(w) \/ NotMarked(w),
             proc[w] \in Serving \union {"starting"}
      PROVE  /\ drain'[w] = "published" => row'[w].draining /\ proc[w] # "starting"
             /\ \A v \in Workers \ {w} : drain'[v] = drain[v] /\ row'[v] = row[v]
  <2>1. CASE NotMarked(w)
    BY <2>1 DEF NotMarked
  <2>2. CASE MarkDraining(w) /\ proc[w] = "starting"
    BY <2>2 DEF MarkDraining
  <2>3. CASE MarkDraining(w) /\ proc[w] \in Serving
    <3>1. Known(w)
      BY <2>3, CapacitiesArePositive DEF Known, RowsOfServers, Configured, Serving, Looping
    <3>2. row' = [row EXCEPT ![w] = Draining(row[w])]
      BY <2>3, <3>1 DEF MarkDraining
    <3>3. proc[w] # "starting"
      BY <2>3 DEF Serving, Looping
    <3> QED
      BY <2>3, <3>2, <3>3 DEF MarkDraining
  <2> QED
    BY <1>6, <2>1, <2>2, <2>3
<1>7. ASSUME NEW w \in Workers, Publish(w) PROVE DrainedRows'
  <2>1. proc' = proc /\ (MarkDraining(w) \/ NotMarked(w))
    BY <1>7 DEF Publish
  <2>2. proc[w] \in Serving \union {"starting"}
    BY <1>7 DEF Publish
  <2> QED
    BY <1>6, <2>1, <2>2
<1>8. ASSUME NEW w \in Workers, Leave(w) PROVE DrainedRows'
  <2>1. proc[w] \in Serving \union {"starting"} /\ proc' = [proc EXCEPT ![w] = "draining"]
    BY <1>8 DEF Leave, Serving
  <2>2. CASE drain[w] = "no"
    BY <1>6, <1>8, <2>1, <2>2 DEF Leave
  <2>3. CASE drain[w] # "no"
    BY <1>8, <2>1, <2>3 DEF Leave
  <2> QED
    BY <2>2, <2>3
<1>9. ASSUME NEW w \in Workers,
             \/ BackgroundFails(w) \/ Recover(w) \/ Signal(w) \/ SetStop(w)
             \/ \E j \in Jobs : Claim(w, j)
             \/ \E j \in Jobs, n \in 1 .. MaxAttempts : TaskEnds(w, j, n) \/ Hang(w, j, n)
      PROVE  DrainedRows'
  BY <1>9, ZenonT(40) DEF BackgroundFails, Recover, Signal, SetStop, Claim, TaskEnds, Hang
<1>10. ASSUME NEW j \in Jobs, Lapse(j) PROVE DrainedRows'
  BY <1>10 DEF Lapse
<1> QED
  BY ONLY Next, <1>1, <1>2, <1>3, <1>4, <1>5, <1>7, <1>8, <1>9, <1>10 DEF Next, Run, Drain


\* PoolIInv is inductive.
LEMMA PoolStepIInv == PoolIInv /\ [Next]_vars => PoolIInv'
<1>1. ASSUME PoolIInv, Next PROVE PoolIInv'
  BY <1>1, PoolTypeStep, ServerStep, DrainedStep DEF PoolIInv
<1>2. ASSUME PoolIInv, UNCHANGED vars PROVE PoolIInv'
  BY <1>2 DEF PoolIInv, vars, TypeOK, RowsOfServers, Configured, ServersAgree, DrainedRows
<1> QED
  BY <1>1, <1>2

LEMMA PoolInvariance == Spec => []PoolIInv
<1>1. Init => PoolIInv
  BY PoolInitIInv
<1>2. PoolIInv /\ [Next]_vars => PoolIInv'
  BY PoolStepIInv
<1> QED
  BY <1>1, <1>2, PTL DEF Spec

-----------------------------------------------------------------------------
\* The variables keep their types.
THEOREM PoolTypeCorrect == Spec => []TypeOK
<1>1. PoolIInv => TypeOK
  BY DEF PoolIInv
<1> QED
  BY <1>1, PoolInvariance, PTL

\* register_worker: two processes that may claim have the same Platform
\* Capacity in their settings, unless the row of one of them went stale while
\* it served.
THEOREM CapacityAgreement == Spec => []ClaimersAgree
<1>1. PoolIInv => ClaimersAgree
  BY DEF PoolIInv, ServersAgree, ClaimersAgree, Serving
<1> QED
  BY <1>1, PoolInvariance, PTL

\* set_worker_draining, heartbeat_service and register_worker: a published
\* drain stays visible to the API's readiness check.
THEOREM DrainStaysVisible == Spec => []NotReadyOnceDrained
<1>1. PoolIInv => NotReadyOnceDrained
  BY DEF PoolIInv, DrainedRows, NotReadyOnceDrained, Available
<1> QED
  BY <1>1, PoolInvariance, PTL

-----------------------------------------------------------------------------
(* Claims and recoveries statement by statement (LeaseCapacity).           *)

-----------------------------------------------------------------------------
(* The inductive invariant *)

\* CapacityTypeOK in its two halves: the shapes, and whose each row lock is (a
\* task locks no row but its own).
Shape ==
  /\ clock \in 0..MaxTime
  /\ rowOf \in [AttemptRows -> [status : {"QUEUED", "RUNNING", "FAILED", "COMPLETED"}, expires : Times]]
  /\ lock \in [AttemptRows -> Txs \union {NoTransaction}]
  /\ advisory \in AdvisoryTxs \union {NoTransaction}
  /\ claim \in [Claimants -> [pc : {"none", "begun", "serialised", "counted", "picked"},
                            now : 0..MaxTime, rows : SUBSET AttemptRows]]
  /\ recover \in [Recoverers -> [pc : {"none", "begun", "serialised", "selected"},
                              now : 0..MaxTime, rows : SUBSET AttemptRows]]
  /\ fenced \in [AttemptRows -> [pc : {"none", "working", "begun", "locked", "gone"},
                              now : 0..MaxTime]]
  /\ revived \in BOOLEAN

RowLock(a) ==
  /\ lock[a] = FencedTx(a) <=> fenced[a].pc = "locked"
  /\ \A w \in Claimants : lock[a] = ClaimTx(w) <=> a \in claim[w].rows
  /\ \A w \in Recoverers : lock[a] = RecoverTx(w) <=> a \in recover[w].rows
  /\ \A b \in AttemptRows : lock[a] = FencedTx(b) => b = a

Locks == \A a \in AttemptRows : RowLock(a)

\* A claim has rows once it has picked, one, and the advisory lock from its
\* second statement on; a recovery has rows once it has selected.  No
\* transaction began later than now.
ClaimPhase(w) ==
  /\ claim[w].now <= clock
  /\ IF claim[w].pc = "picked" THEN \E a \in AttemptRows : claim[w].rows = {a}
                               ELSE claim[w].rows = {}
  /\ claim[w].pc \in {"serialised", "counted", "picked"} => advisory = ClaimTx(w)

RecoverPhase(w) ==
  /\ recover[w].now <= clock
  /\ recover[w].pc # "selected" => recover[w].rows = {}

Phases ==
  /\ \A w \in Claimants : ClaimPhase(w)
  /\ \A w \in Recoverers : RecoverPhase(w)

CapacityIInv == Shape /\ Locks /\ Phases /\ LockedReadsHold

\* Transactions are told apart, and from none.
LEMMA TxsDiffer ==
  /\ \A v, w : ClaimTx(v) # RecoverTx(w) /\ ClaimTx(v) # FencedTx(w) /\ RecoverTx(v) # FencedTx(w)
  /\ \A v, w : /\ ClaimTx(v) = ClaimTx(w) => v = w
               /\ RecoverTx(v) = RecoverTx(w) => v = w
               /\ FencedTx(v) = FencedTx(w) => v = w
  /\ \A w \in Claimants : ClaimTx(w) # NoTransaction /\ ClaimTx(w) \in AdvisoryTxs /\ ClaimTx(w) \in Txs
  /\ \A w \in Recoverers : RecoverTx(w) # NoTransaction /\ RecoverTx(w) \in AdvisoryTxs /\ RecoverTx(w) \in Txs
  /\ \A a \in AttemptRows : FencedTx(a) # NoTransaction /\ FencedTx(a) \in Txs
BY NobodyAssumption DEF ClaimTx, RecoverTx, FencedTx, Txs, AdvisoryTxs

ClaimRow == [pc : {"none", "begun", "serialised", "counted", "picked"},
             now : 0..MaxTime, rows : SUBSET AttemptRows]
RecoverRow == [pc : {"none", "begun", "serialised", "selected"},
               now : 0..MaxTime, rows : SUBSET AttemptRows]

\* A claim that holds no row and goes on holding none keeps the invariant, if
\* it takes the advisory lock from nobody and has it where it needs it.
LEMMA ClaimMoves ==
  ASSUME CapacityIInv, NEW w \in Claimants, NEW r \in ClaimRow,
         claim' = [claim EXCEPT ![w] = r], claim[w].rows = {}, r.rows = {},
         r.pc # "picked", r.now <= clock,
         advisory' \in AdvisoryTxs \union {NoTransaction},
         advisory' = advisory \/ advisory \in {NoTransaction, ClaimTx(w)},
         r.pc \in {"serialised", "counted"} => advisory' = ClaimTx(w),
         UNCHANGED <<clock, rowOf, lock, recover, fenced, revived>>
  PROVE  CapacityIInv'
<1>1. claim'[w] = r /\ \A v \in Claimants \ {w} : claim'[v] = claim[v]
  BY DEF CapacityIInv, Shape
<1>2. Shape'
  BY DEF CapacityIInv, Shape, ClaimRow
<1>3. Locks'
  BY <1>1 DEF CapacityIInv, Locks, RowLock
<1>4. Phases'
  <2>1. ASSUME NEW v \in Claimants PROVE ClaimPhase(v)'
    <3>1. CASE v = w
      BY <1>1, <3>1 DEF ClaimPhase
    <3>2. CASE v # w
      <4>1. ClaimPhase(v) /\ claim'[v] = claim[v]
        BY <1>1, <3>2 DEF CapacityIInv, Phases
      <4>2. advisory = ClaimTx(v) => advisory' = advisory
        BY <3>2, TxsDiffer
      <4>3. QED
        BY <4>1, <4>2 DEF ClaimPhase
    <3>3. QED
      BY <3>1, <3>2
  <2>2. \A v \in Recoverers : RecoverPhase(v)'
    BY DEF CapacityIInv, Phases, RecoverPhase
  <2>3. QED
    BY <2>1, <2>2 DEF Phases
<1>5. LockedReadsHold'
  BY <1>1 DEF CapacityIInv, LockedReadsHold
<1>6. QED
  BY <1>2, <1>3, <1>4, <1>5 DEF CapacityIInv

LEMMA ClaimBeginStep ==
  ASSUME CapacityIInv, NEW w \in Claimants, ClaimBegin(w)
  PROVE  CapacityIInv'
<1>1. Begun \in ClaimRow /\ Begun.rows = {} /\ Begun.pc = "begun" /\ Begun.now = clock
  BY DEF Begun, ClaimRow, CapacityIInv, Shape
<1>2. claim[w].rows = {}
  BY DEF ClaimBegin, CapacityIInv, Phases, ClaimPhase
<1>3. Begun.now <= clock
  BY <1>1 DEF CapacityIInv, Shape
<1>4. advisory' \in AdvisoryTxs \union {NoTransaction} /\ advisory' = advisory
  BY DEF ClaimBegin, CapacityIInv, Shape
<1>5. QED
  BY <1>1, <1>2, <1>3, <1>4, ClaimMoves DEF ClaimBegin

\* The statements between the first and the pick.
LEMMA ClaimGoesOn ==
  ASSUME CapacityIInv, NEW w \in Claimants, NEW pc \in {"serialised", "counted"},
         claim[w].pc \in {"begun", "serialised"},
         claim' = [claim EXCEPT ![w].pc = pc],
         advisory' = ClaimTx(w), advisory \in {NoTransaction, ClaimTx(w)},
         UNCHANGED <<clock, rowOf, lock, recover, fenced, revived>>
  PROVE  CapacityIInv'
<1> DEFINE r == [claim[w] EXCEPT !.pc = pc]
<1>1. claim[w] \in ClaimRow
  BY DEF CapacityIInv, Shape, ClaimRow
<1>2. r \in ClaimRow /\ r.pc = pc /\ r.now = claim[w].now /\ r.rows = claim[w].rows
  BY <1>1 DEF ClaimRow
<1>3. claim[w].rows = {} /\ claim[w].now <= clock
  BY DEF CapacityIInv, Phases, ClaimPhase
<1>4. claim' = [claim EXCEPT ![w] = r]
  BY DEF CapacityIInv, Shape
<1> HIDE DEF r
<1>5. advisory' \in AdvisoryTxs \union {NoTransaction}
  BY TxsDiffer
<1>6. QED
  BY <1>2, <1>3, <1>4, <1>5, ClaimMoves, ZenonT(40)

LEMMA ClaimNothingStep ==
  ASSUME CapacityIInv, NEW w \in Claimants, ClaimNothing(w)
  PROVE  CapacityIInv'
<1>1. claim'[w] = NoTx /\ \A v \in Claimants \ {w} : claim'[v] = claim[v]
  BY DEF CapacityIInv, Shape, ClaimNothing
<1>2. Shape'
  <2>1. NoTx \in ClaimRow
    BY TimeAssumption DEF NoTx, ClaimRow
  <2>2. claim' \in [Claimants -> ClaimRow]
    BY <2>1 DEF CapacityIInv, Shape, ClaimRow, ClaimNothing
  <2>3. lock' \in [AttemptRows -> Txs \union {NoTransaction}]
    BY DEF CapacityIInv, Shape, ClaimNothing, Free
  <2>4. QED
    BY <2>2, <2>3 DEF CapacityIInv, Shape, ClaimRow, ClaimNothing
<1>3. Locks'
  <2>1. ASSUME NEW a \in AttemptRows, a \in claim[w].rows
        PROVE  lock[a] = ClaimTx(w) /\ lock'[a] = NoTransaction
    BY <2>1 DEF CapacityIInv, Locks, RowLock, ClaimNothing, Free
  <2>2. ASSUME NEW a \in AttemptRows, a \notin claim[w].rows
        PROVE  lock[a] # ClaimTx(w) /\ lock'[a] = lock[a]
    BY <2>2 DEF CapacityIInv, Locks, RowLock, ClaimNothing, Free
  <2>3. fenced' = fenced /\ recover' = recover
    BY DEF ClaimNothing
  <2>4. QED
    <3> SUFFICES ASSUME NEW a \in AttemptRows PROVE RowLock(a)'
      BY DEF Locks
    <3>1. RowLock(a) /\ claim'[w].rows = {}
      BY <1>1 DEF CapacityIInv, Locks, NoTx
    <3>2. CASE a \in claim[w].rows
      <4>1. lock[a] = ClaimTx(w) /\ lock'[a] = NoTransaction
        BY <2>1, <3>2
      <4>2. /\ \A c \in AttemptRows : lock[a] # FencedTx(c) /\ lock'[a] # FencedTx(c)
            /\ \A v \in Claimants \ {w} : lock[a] # ClaimTx(v)
            /\ \A v \in Claimants : lock'[a] # ClaimTx(v)
            /\ \A v \in Recoverers : lock[a] # RecoverTx(v) /\ lock'[a] # RecoverTx(v)
        BY <4>1, TxsDiffer
      <4>3. QED
        BY <1>1, <2>3, <3>1, <4>2 DEF RowLock
    <3>3. CASE a \notin claim[w].rows
      BY <1>1, <2>2, <2>3, <3>1, <3>3, TxsDiffer DEF RowLock
    <3>4. QED
      BY <3>2, <3>3
<1>4. Phases'
  <2>1. ASSUME NEW v \in Claimants PROVE ClaimPhase(v)'
    <3>1. CASE v = w
      BY <1>1, <3>1 DEF ClaimPhase, NoTx, ClaimNothing, CapacityIInv, Shape
    <3>2. CASE v # w
      <4>1. ClaimPhase(v) /\ claim'[v] = claim[v] /\ clock' = clock
        BY <1>1, <3>2 DEF CapacityIInv, Phases, ClaimNothing
      <4>2. advisory = ClaimTx(v) => advisory' = advisory
        BY <3>2, TxsDiffer DEF ClaimNothing
      <4>3. QED
        BY <4>1, <4>2 DEF ClaimPhase
    <3>3. QED
      BY <3>1, <3>2
  <2>2. \A v \in Recoverers : RecoverPhase(v)'
    BY DEF CapacityIInv, Phases, RecoverPhase, ClaimNothing
  <2>3. QED
    BY <2>1, <2>2 DEF Phases
<1>5. LockedReadsHold'
  BY <1>1 DEF CapacityIInv, LockedReadsHold, ClaimNothing, NoTx
<1>6. QED
  BY <1>2, <1>3, <1>4, <1>5 DEF CapacityIInv

\* Picking takes the lock of a queued row nobody has locked.
LEMMA ClaimPickStep ==
  ASSUME CapacityIInv, NEW w \in Claimants, claim[w].pc = "counted",
         NEW a \in AttemptRows, rowOf[a].status = "QUEUED", lock[a] = NoTransaction,
         claim' = [claim EXCEPT ![w].pc = "picked", ![w].rows = {a}],
         lock' = Taken({a}, ClaimTx(w)),
         UNCHANGED <<clock, rowOf, advisory, recover, fenced, revived>>
  PROVE  CapacityIInv'
<1> DEFINE r == [claim[w] EXCEPT !.pc = "picked", !.rows = {a}]
<1>1. claim[w] \in ClaimRow /\ claim \in [Claimants -> ClaimRow]
  BY DEF CapacityIInv, Shape, ClaimRow
<1>2. r \in ClaimRow /\ r.pc = "picked" /\ r.now = claim[w].now /\ r.rows = {a}
  BY <1>1 DEF ClaimRow
<1>3. claim' = [claim EXCEPT ![w] = r]
  BY <1>1
<1> HIDE DEF r
<1>4. claim'[w] = r /\ \A v \in Claimants \ {w} : claim'[v] = claim[v]
  BY <1>1, <1>3
<1>5. ClaimPhase(w) /\ claim[w].rows = {}
  BY DEF CapacityIInv, Phases, ClaimPhase
<1>6. lock'[a] = ClaimTx(w) /\ \A b \in AttemptRows \ {a} : lock'[b] = lock[b]
  BY DEF Taken
<1>7. Shape'
  <2>1. claim' \in [Claimants -> ClaimRow]
    BY <1>1, <1>2, <1>3
  <2>2. lock' \in [AttemptRows -> Txs \union {NoTransaction}]
    BY TxsDiffer DEF CapacityIInv, Shape, Taken
  <2>3. QED
    BY <2>1, <2>2 DEF CapacityIInv, Shape, ClaimRow
<1>8. Locks'
  <2> SUFFICES ASSUME NEW b \in AttemptRows PROVE RowLock(b)'
    BY DEF Locks
  <2>1. RowLock(b) /\ fenced' = fenced /\ recover' = recover
    BY DEF CapacityIInv, Locks
  <2>2. CASE b = a
    <3>1. /\ fenced[a].pc # "locked"
          /\ \A v \in Claimants : a \notin claim[v].rows
          /\ \A v \in Recoverers : a \notin recover[v].rows
      BY <2>1, <2>2, TxsDiffer DEF RowLock
    <3>2. lock'[b] = ClaimTx(w)
      BY <1>6, <2>2
    <3>3. \A v \in Claimants : ClaimTx(w) = ClaimTx(v) <=> v = w
      BY TxsDiffer
    <3>4. \A v \in Claimants : b \in claim'[v].rows <=> v = w
      BY <1>2, <1>4, <2>2, <3>1
    <3>5. (\A c : ClaimTx(w) # FencedTx(c)) /\ \A v \in Recoverers : ClaimTx(w) # RecoverTx(v)
      BY TxsDiffer
    <3>6. QED
      BY <2>1, <2>2, <3>1, <3>2, <3>3, <3>4, <3>5, ZenonT(40) DEF RowLock
  <2>3. CASE b # a
    BY <1>2, <1>4, <1>5, <1>6, <2>1, <2>3, ZenonT(40) DEF RowLock
  <2>4. QED
    BY <2>2, <2>3
<1>9. Phases'
  BY <1>2, <1>4, <1>5 DEF CapacityIInv, Phases, ClaimPhase, RecoverPhase
<1>10. LockedReadsHold'
  BY <1>2, <1>4, ZenonT(40) DEF CapacityIInv, LockedReadsHold
<1>11. QED
  BY <1>7, <1>8, <1>9, <1>10 DEF CapacityIInv

\* Only the claim that holds the advisory lock has counted or picked.
LEMMA OneClaim ==
  ASSUME CapacityIInv, NEW v \in Claimants, NEW w \in Claimants,
         claim[v].pc \in {"serialised", "counted", "picked"},
         claim[w].pc \in {"serialised", "counted", "picked"}
  PROVE  v = w
BY TxsDiffer DEF CapacityIInv, Phases, ClaimPhase

LEMMA ClaimCommitStep ==
  ASSUME CapacityIInv, NEW w \in Claimants, ClaimCommit(w)
  PROVE  CapacityIInv'
<1>1. PICK a \in AttemptRows : claim[w].rows = {a}
  BY DEF CapacityIInv, Phases, ClaimPhase, ClaimCommit
<1>2. lock[a] = ClaimTx(w) /\ fenced[a].pc # "locked"
  <2>1. RowLock(a)
    BY DEF CapacityIInv, Locks
  <2>2. lock[a] = ClaimTx(w)
    BY <1>1, <2>1 DEF RowLock
  <2>3. QED
    BY <2>1, <2>2, TxsDiffer DEF RowLock
<1>3. /\ lock'[a] = NoTransaction /\ fenced'[a].pc = "working"
      /\ \A b \in AttemptRows \ {a} :
           lock'[b] = lock[b] /\ fenced'[b] = fenced[b] /\ rowOf'[b] = rowOf[b]
  BY <1>1 DEF ClaimCommit, Free
<1>4. claim'[w] = NoTx /\ \A v \in Claimants \ {w} : claim'[v] = claim[v]
  BY DEF CapacityIInv, Shape, ClaimCommit
<1>5. /\ \A v \in Claimants \ {w} : a \notin claim[v].rows
      /\ \A v \in Recoverers : a \notin recover[v].rows
  BY <1>2, TxsDiffer DEF CapacityIInv, Locks, RowLock
<1>6. claim[w].now \in 0..MaxTime
  BY DEF CapacityIInv, Shape
<1>7. Shape'
  <2>1. claim[w].now + LeaseLength \in Times
    BY <1>6, LengthAssumption, TimeAssumption DEF Times
  <2>2. rowOf' \in [AttemptRows -> [status : {"QUEUED", "RUNNING", "FAILED", "COMPLETED"}, expires : Times]]
    BY <2>1 DEF CapacityIInv, Shape, ClaimCommit
  <2>3. /\ lock' \in [AttemptRows -> Txs \union {NoTransaction}]
        /\ advisory' \in AdvisoryTxs \union {NoTransaction}
    BY DEF CapacityIInv, Shape, ClaimCommit, Free
  <2>4. claim' \in [Claimants -> ClaimRow]
    BY TimeAssumption DEF CapacityIInv, Shape, ClaimCommit, NoTx, ClaimRow
  <2>5. fenced' \in [AttemptRows -> [pc : {"none", "working", "begun", "locked", "gone"},
                                     now : 0..MaxTime]]
    BY TimeAssumption DEF CapacityIInv, Shape, ClaimCommit
  <2>6. QED
    BY <2>2, <2>3, <2>4, <2>5 DEF CapacityIInv, Shape, ClaimCommit, ClaimRow
<1>8. Locks'
  <2>1. recover' = recover
    BY DEF ClaimCommit
  <2>2. ASSUME NEW b \in AttemptRows, b # a
        PROVE  b \notin claim[w].rows /\ lock[b] # ClaimTx(w)
    BY <1>1, <2>2 DEF CapacityIInv, Locks, RowLock
  <2>3. QED
    <3> SUFFICES ASSUME NEW b \in AttemptRows PROVE RowLock(b)'
      BY DEF Locks
    <3>1. RowLock(b) /\ claim'[w].rows = {}
      BY <1>4 DEF CapacityIInv, Locks, NoTx
    <3>2. CASE b = a
      BY <1>3, <1>4, <1>5, <2>1, <3>1, <3>2, TxsDiffer DEF RowLock
    <3>3. CASE b # a
      BY <1>3, <1>4, <2>1, <2>2, <3>1, <3>3 DEF RowLock
    <3>4. QED
      BY <3>2, <3>3
<1>9. Phases'
  <2>1. ASSUME NEW v \in Claimants PROVE ClaimPhase(v)'
    <3>1. CASE v = w
      BY <1>4, <3>1 DEF ClaimPhase, NoTx, ClaimCommit, CapacityIInv, Shape
    <3>2. CASE v # w
      <4>1. ClaimPhase(v) /\ claim'[v] = claim[v] /\ clock' = clock
        BY <1>4, <3>2 DEF CapacityIInv, Phases, ClaimCommit
      <4>2. claim[v].pc \notin {"serialised", "counted", "picked"}
        BY <3>2, OneClaim DEF ClaimCommit
      <4>3. QED
        BY <4>1, <4>2 DEF ClaimPhase
    <3>3. QED
      BY <3>1, <3>2
  <2>2. \A v \in Recoverers : RecoverPhase(v)'
    BY DEF CapacityIInv, Phases, RecoverPhase, ClaimCommit
  <2>3. QED
    BY <2>1, <2>2 DEF Phases
<1>10. LockedReadsHold'
  <2>1. recover' = recover /\ clock' = clock
    BY DEF ClaimCommit
  <2>2. \A v \in Claimants \ {w} : \A b \in claim[v].rows : b \in AttemptRows \ {a}
    BY <1>5 DEF CapacityIInv, Shape
  <2>3. \A v \in Recoverers : \A b \in recover[v].rows : b \in AttemptRows \ {a}
    BY <1>5 DEF CapacityIInv, Shape
  <2>4. QED
    BY <1>3, <1>4, <2>1, <2>2, <2>3 DEF CapacityIInv, LockedReadsHold, NoTx
<1>11. QED
  BY <1>7, <1>8, <1>9, <1>10 DEF CapacityIInv

LEMMA ClaimSteps ==
  ASSUME CapacityIInv, NEW w \in Claimants, ClaimStep(w)
  PROVE  CapacityIInv'
<1>1. CASE ClaimBegin(w)
  BY <1>1, ClaimBeginStep
<1>2. CASE ClaimSerialise(w)
  BY <1>2, ClaimGoesOn DEF ClaimSerialise
<1>3. CASE ClaimCount(w)
  <2>1. claim[w].pc = "serialised" /\ advisory = ClaimTx(w)
    BY <1>3 DEF ClaimCount, CapacityIInv, Phases, ClaimPhase
  <2>2. CASE ClaimNothing(w)
    BY <2>2, ClaimNothingStep
  <2>3. CASE /\ claim' = [claim EXCEPT ![w].pc = "counted"]
             /\ UNCHANGED <<clock, rowOf, lock, advisory, recover, fenced, revived>>
    BY <2>1, <2>3, ClaimGoesOn
  <2>4. QED
    BY <1>3, <2>2, <2>3 DEF ClaimCount
<1>4. CASE ClaimPick(w)
  BY <1>4, ClaimPickStep, ClaimNothingStep DEF ClaimPick
<1>5. CASE ClaimCommit(w)
  BY <1>5, ClaimCommitStep
<1>6. CASE ClaimAbort(w)
  BY <1>6, ClaimNothingStep DEF ClaimAbort
<1>7. QED
  BY <1>1, <1>2, <1>3, <1>4, <1>5, <1>6 DEF ClaimStep

-----------------------------------------------------------------------------
(* Recovery *)

\* A recovery that has begun or waits for the advisory lock has no rows yet.
LEMMA RecoverMoves ==
  ASSUME CapacityIInv, NEW w \in Recoverers, NEW r \in RecoverRow,
         recover' = [recover EXCEPT ![w] = r], recover[w].rows = {}, r.rows = {},
         r.now <= clock,
         advisory' \in AdvisoryTxs \union {NoTransaction},
         advisory' = advisory \/ advisory = NoTransaction,
         UNCHANGED <<clock, rowOf, lock, claim, fenced, revived>>
  PROVE  CapacityIInv'
<1>1. recover'[w] = r /\ \A v \in Recoverers \ {w} : recover'[v] = recover[v]
  BY DEF CapacityIInv, Shape
<1>2. Shape'
  BY DEF CapacityIInv, Shape, RecoverRow
<1>3. Locks'
  BY <1>1 DEF CapacityIInv, Locks, RowLock
<1>4. Phases'
  <2>1. ASSUME NEW v \in Claimants PROVE ClaimPhase(v)'
    <3>1. ClaimPhase(v) /\ (advisory = ClaimTx(v) => advisory' = advisory)
      BY TxsDiffer DEF CapacityIInv, Phases
    <3>2. QED
      BY <3>1 DEF ClaimPhase
  <2>2. \A v \in Recoverers : RecoverPhase(v)'
    BY <1>1 DEF CapacityIInv, Phases, RecoverPhase
  <2>3. QED
    BY <2>1, <2>2 DEF Phases
<1>5. LockedReadsHold'
  BY <1>1 DEF CapacityIInv, LockedReadsHold
<1>6. QED
  BY <1>2, <1>3, <1>4, <1>5 DEF CapacityIInv

LEMMA RecoverBeginStep ==
  ASSUME CapacityIInv, NEW w \in Recoverers, RecoverBegin(w)
  PROVE  CapacityIInv'
<1>1. Begun \in RecoverRow /\ Begun.rows = {} /\ Begun.now <= clock
  BY DEF Begun, RecoverRow, CapacityIInv, Shape
<1>2. recover[w].rows = {}
  BY DEF RecoverBegin, CapacityIInv, Phases, RecoverPhase
<1>3. advisory' \in AdvisoryTxs \union {NoTransaction} /\ advisory' = advisory
  BY DEF RecoverBegin, CapacityIInv, Shape
<1>4. QED
  BY <1>1, <1>2, <1>3, RecoverMoves DEF RecoverBegin

LEMMA RecoverSerialiseStep ==
  ASSUME CapacityIInv, NEW w \in Recoverers, RecoverSerialise(w)
  PROVE  CapacityIInv'
<1> DEFINE r == [recover[w] EXCEPT !.pc = "serialised"]
<1>1. recover[w] \in RecoverRow /\ recover \in [Recoverers -> RecoverRow]
  BY DEF CapacityIInv, Shape, RecoverRow
<1>2. r \in RecoverRow /\ r.now = recover[w].now /\ r.rows = recover[w].rows
  BY <1>1 DEF RecoverRow
<1>3. recover[w].rows = {} /\ recover[w].now <= clock
  BY DEF RecoverSerialise, CapacityIInv, Phases, RecoverPhase
<1>4. recover' = [recover EXCEPT ![w] = r]
  BY <1>1 DEF RecoverSerialise
<1> HIDE DEF r
<1>5. advisory' \in AdvisoryTxs \union {NoTransaction}
  BY TxsDiffer DEF RecoverSerialise
<1>6. QED
  BY <1>2, <1>3, <1>4, <1>5, RecoverMoves DEF RecoverSerialise

\* Selecting takes the locks of expired rows nobody has locked.
LEMMA RecoverSelectStep ==
  ASSUME CapacityIInv, NEW w \in Recoverers, RecoverSelect(w)
  PROVE  CapacityIInv'
<1> DEFINE expired == {a \in ExpiredAt(recover[w].now) : lock[a] = NoTransaction}
           r == [recover[w] EXCEPT !.pc = "selected", !.rows = expired]
<1>1. recover[w] \in RecoverRow /\ recover \in [Recoverers -> RecoverRow]
  BY DEF CapacityIInv, Shape, RecoverRow
<1>2. expired \subseteq AttemptRows
  BY DEF ExpiredAt
<1>3. r \in RecoverRow /\ r.pc = "selected" /\ r.now = recover[w].now /\ r.rows = expired
  BY <1>1, <1>2 DEF RecoverRow
<1>4. recover' = [recover EXCEPT ![w] = r] /\ lock' = Taken(expired, RecoverTx(w))
  BY <1>1 DEF RecoverSelect
<1>5. recover[w].rows = {} /\ recover[w].now <= clock
  BY DEF RecoverSelect, CapacityIInv, Phases, RecoverPhase
<1>6. \A a \in expired : /\ lock[a] = NoTransaction /\ rowOf[a].status = "RUNNING"
                         /\ rowOf[a].expires <= recover[w].now
  BY DEF ExpiredAt
<1> HIDE DEF r, expired
<1>7. recover'[w] = r /\ \A v \in Recoverers \ {w} : recover'[v] = recover[v]
  BY <1>1, <1>4
<1>8. Shape'
  <2>1. recover' \in [Recoverers -> RecoverRow]
    BY <1>1, <1>3, <1>4
  <2>2. lock' \in [AttemptRows -> Txs \union {NoTransaction}]
    BY <1>4, TxsDiffer DEF CapacityIInv, Shape, Taken
  <2>3. QED
    BY <2>1, <2>2 DEF CapacityIInv, Shape, RecoverRow, RecoverSelect
<1>9. Locks'
  <2> SUFFICES ASSUME NEW b \in AttemptRows PROVE RowLock(b)'
    BY DEF Locks
  <2>1. RowLock(b) /\ fenced' = fenced /\ claim' = claim
    BY DEF CapacityIInv, Locks, RecoverSelect
  <2>2. CASE b \in expired
    <3>1. /\ fenced[b].pc # "locked"
          /\ \A v \in Claimants : b \notin claim[v].rows
          /\ \A v \in Recoverers : b \notin recover[v].rows
      BY <1>6, <2>1, <2>2, TxsDiffer DEF RowLock
    <3>2. lock'[b] = RecoverTx(w)
      BY <1>4, <2>2 DEF Taken
    <3>3. \A v \in Recoverers : RecoverTx(w) = RecoverTx(v) <=> v = w
      BY TxsDiffer
    <3>4. \A v \in Recoverers : b \in recover'[v].rows <=> v = w
      BY <1>3, <1>7, <2>2, <3>1
    <3>5. (\A c : RecoverTx(w) # FencedTx(c)) /\ \A v \in Claimants : RecoverTx(w) # ClaimTx(v)
      BY TxsDiffer
    <3>6. QED
      BY <2>1, <3>1, <3>2, <3>3, <3>4, <3>5 DEF RowLock
  <2>3. CASE b \notin expired
    <3>1. lock'[b] = lock[b]
      BY <1>4, <2>3 DEF Taken
    <3>2. \A v \in Recoverers : b \in recover'[v].rows <=> b \in recover[v].rows
      BY <1>3, <1>5, <1>7, <2>3
    <3>3. QED
      BY <2>1, <3>1, <3>2 DEF RowLock
  <2>4. QED
    BY <2>2, <2>3
<1>10. Phases'
  BY <1>3, <1>5, <1>7 DEF CapacityIInv, Phases, ClaimPhase, RecoverPhase, RecoverSelect
<1>11. LockedReadsHold'
  <2>1. \A a \in expired : rowOf[a].status = "RUNNING" /\ rowOf[a].expires <= clock
    <3> SUFFICES ASSUME NEW a \in expired PROVE rowOf[a].status = "RUNNING" /\ rowOf[a].expires <= clock
      OBVIOUS
    <3>1. rowOf[a].expires \in Int /\ recover[w].now \in Int /\ clock \in Int
      BY <1>2, LengthAssumption, TimeAssumption DEF CapacityIInv, Shape, Times, expired
    <3>2. QED
      BY <1>5, <1>6, <3>1
  <2>2. UNCHANGED <<clock, rowOf, claim, fenced>>
    BY DEF RecoverSelect
  <2>3. QED
    BY <1>3, <1>7, <2>1, <2>2 DEF CapacityIInv, LockedReadsHold
<1>12. QED
  BY <1>8, <1>9, <1>10, <1>11 DEF CapacityIInv

\* The end of a recovery fails its rows, or leaves them, and lets go of them.
LEMMA RecoverEndStep ==
  ASSUME CapacityIInv, NEW w \in Recoverers, NEW commits \in BOOLEAN, RecoverEnd(w, commits)
  PROVE  CapacityIInv'
<1>1. /\ UNCHANGED <<clock, claim, fenced, revived>>
      /\ advisory' \in AdvisoryTxs \union {NoTransaction}
  BY DEF RecoverEnd, CapacityIInv, Shape
<1>2. recover'[w] = NoTx /\ \A v \in Recoverers \ {w} : recover'[v] = recover[v]
  BY DEF RecoverEnd, CapacityIInv, Shape
<1>3. \A a \in AttemptRows : lock[a] = RecoverTx(w) <=> a \in recover[w].rows
  BY DEF CapacityIInv, Locks, RowLock
<1>4. \A a \in AttemptRows : /\ a \in recover[w].rows => lock'[a] = NoTransaction
                             /\ a \notin recover[w].rows => lock'[a] = lock[a] /\ rowOf'[a] = rowOf[a]
  BY <1>3 DEF RecoverEnd
<1>5. Shape'
  <2>1. NoTx \in RecoverRow
    BY TimeAssumption DEF NoTx, RecoverRow
  <2>2. recover' \in [Recoverers -> RecoverRow]
    BY <2>1 DEF CapacityIInv, Shape, RecoverRow, RecoverEnd
  <2>3. lock' \in [AttemptRows -> Txs \union {NoTransaction}]
    BY DEF CapacityIInv, Shape, RecoverEnd
  <2>4. 0 \in Times
    BY LengthAssumption, TimeAssumption DEF Times
  <2>5. rowOf' \in [AttemptRows -> [status : {"QUEUED", "RUNNING", "FAILED", "COMPLETED"}, expires : Times]]
    BY <2>4 DEF CapacityIInv, Shape, RecoverEnd
  <2>6. QED
    BY <1>1, <2>2, <2>3, <2>5 DEF CapacityIInv, Shape, RecoverRow
<1>6. Locks'
  <2> SUFFICES ASSUME NEW b \in AttemptRows PROVE RowLock(b)'
    BY DEF Locks
  <2>1. RowLock(b) /\ recover'[w].rows = {}
    BY <1>2 DEF CapacityIInv, Locks, NoTx
  <2>2. CASE b \in recover[w].rows
    <3>1. lock[b] = RecoverTx(w) /\ lock'[b] = NoTransaction
      BY <1>3, <1>4, <2>2
    <3>2. /\ fenced[b].pc # "locked"
          /\ \A v \in Claimants : b \notin claim[v].rows
          /\ \A v \in Recoverers \ {w} : b \notin recover[v].rows
      <4>1. /\ lock[b] # FencedTx(b)
            /\ \A v \in Claimants : lock[b] # ClaimTx(v)
            /\ \A v \in Recoverers \ {w} : lock[b] # RecoverTx(v)
        BY <3>1, TxsDiffer
      <4>2. QED
        BY <2>1, <4>1 DEF RowLock
    <3>3. QED
      BY <1>1, <1>2, <2>1, <3>1, <3>2, TxsDiffer DEF RowLock
  <2>3. CASE b \notin recover[w].rows
    BY <1>1, <1>2, <1>3, <1>4, <2>1, <2>3 DEF RowLock
  <2>4. QED
    BY <2>2, <2>3
<1>7. Phases'
  <2>1. ASSUME NEW v \in Claimants PROVE ClaimPhase(v)'
    <3>1. ClaimPhase(v) /\ (advisory = ClaimTx(v) => advisory' = advisory)
      BY TxsDiffer DEF CapacityIInv, Phases, RecoverEnd
    <3>2. QED
      BY <1>1, <3>1 DEF ClaimPhase
  <2>2. ASSUME NEW v \in Recoverers PROVE RecoverPhase(v)'
    <3>1. CASE v = w
      BY <1>1, <1>2, <3>1 DEF RecoverPhase, NoTx, CapacityIInv, Shape
    <3>2. CASE v # w
      BY <1>1, <1>2, <3>2 DEF RecoverPhase, CapacityIInv, Phases
    <3>3. QED
      BY <3>1, <3>2
  <2>3. QED
    BY <2>1, <2>2 DEF Phases
<1>8. LockedReadsHold'
  <2>1. \A b \in AttemptRows : b \in recover[w].rows =>
          /\ fenced[b].pc # "locked"
          /\ \A v \in Claimants : b \notin claim[v].rows
          /\ \A v \in Recoverers \ {w} : b \notin recover[v].rows
    BY <1>3, TxsDiffer DEF CapacityIInv, Locks, RowLock
  <2>2. /\ \A v \in Claimants : claim[v].rows \subseteq AttemptRows
        /\ \A v \in Recoverers : recover[v].rows \subseteq AttemptRows
    BY DEF CapacityIInv, Shape
  <2>3. \A v \in Claimants : \A b \in claim'[v].rows : rowOf'[b].status = "QUEUED"
    BY <1>1, <1>4, <2>1, <2>2 DEF CapacityIInv, LockedReadsHold
  <2>4. \A v \in Recoverers : \A b \in recover'[v].rows :
          rowOf'[b].status = "RUNNING" /\ rowOf'[b].expires <= clock'
    BY <1>1, <1>2, <1>4, <2>1, <2>2 DEF CapacityIInv, LockedReadsHold, NoTx
  <2>5. \A b \in AttemptRows : fenced'[b].pc = "locked" => rowOf'[b].status = "RUNNING"
    BY <1>1, <1>4, <2>1 DEF CapacityIInv, LockedReadsHold
  <2>6. QED
    BY <2>3, <2>4, <2>5 DEF LockedReadsHold
<1>9. QED
  BY <1>5, <1>6, <1>7, <1>8 DEF CapacityIInv

-----------------------------------------------------------------------------
(* Fenced transactions and time *)

FencedRow == [pc : {"none", "working", "begun", "locked", "gone"}, now : 0..MaxTime]

\* A step of the task of Attempt a that leaves rows alone, and locks its row
\* or lets go of it.
LEMMA FencedMoves ==
  ASSUME CapacityIInv, NEW a \in AttemptRows, NEW r \in FencedRow,
         fenced' = [fenced EXCEPT ![a] = r],
         NEW tx \in {NoTransaction, FencedTx(a), lock[a]},
         lock' = [lock EXCEPT ![a] = tx],
         tx = FencedTx(a) <=> r.pc = "locked",
         tx # lock[a] => lock[a] \in {NoTransaction, FencedTx(a)},
         r.pc = "locked" => rowOf[a].status = "RUNNING",
         UNCHANGED <<clock, rowOf, advisory, claim, recover>>, revived' \in BOOLEAN
  PROVE  CapacityIInv'
<1>1. fenced'[a] = r /\ \A b \in AttemptRows \ {a} : fenced'[b] = fenced[b]
  BY DEF CapacityIInv, Shape
<1>2. lock'[a] = tx /\ \A b \in AttemptRows \ {a} : lock'[b] = lock[b]
  BY DEF CapacityIInv, Shape
<1>3. Shape'
  <2>1. lock' \in [AttemptRows -> Txs \union {NoTransaction}]
    BY TxsDiffer DEF CapacityIInv, Shape
  <2>2. QED
    BY <2>1 DEF CapacityIInv, Shape, FencedRow
<1>4. Locks'
  <2> SUFFICES ASSUME NEW b \in AttemptRows PROVE RowLock(b)'
    BY DEF Locks
  <2>1. RowLock(b)
    BY DEF CapacityIInv, Locks
  <2>2. CASE b = a
    <3>0. lock'[b] # lock[b] => {lock[b], lock'[b]} \subseteq {NoTransaction, FencedTx(a)}
      BY <1>2, <2>2
    <3>1. \A v \in Claimants : lock'[b] = ClaimTx(v) <=> lock[b] = ClaimTx(v)
      <4> TAKE v \in Claimants
      <4>1. ClaimTx(v) \notin {NoTransaction, FencedTx(a)}
        BY TxsDiffer
      <4>2. QED BY <3>0, <4>1
    <3>2. \A v \in Recoverers : lock'[b] = RecoverTx(v) <=> lock[b] = RecoverTx(v)
      <4> TAKE v \in Recoverers
      <4>1. RecoverTx(v) \notin {NoTransaction, FencedTx(a)}
        BY TxsDiffer
      <4>2. QED BY <3>0, <4>1
    <3>3. lock'[b] = FencedTx(b) <=> fenced'[b].pc = "locked"
      BY <1>1, <1>2, <2>2
    <3>4. \A c \in AttemptRows : lock'[b] = FencedTx(c) => c = b
      <4>1. \A c \in AttemptRows : FencedTx(a) = FencedTx(c) => c = a
        BY TxsDiffer
      <4>2. \A c \in AttemptRows : FencedTx(c) # NoTransaction
        BY TxsDiffer
      <4>3. QED
        BY <1>2, <2>1, <2>2, <4>1, <4>2 DEF RowLock
    <3>5. QED
      BY <2>1, <3>1, <3>2, <3>3, <3>4 DEF RowLock
  <2>3. CASE b # a
    BY <1>1, <1>2, <2>1, <2>3 DEF RowLock
  <2>4. QED
    BY <2>2, <2>3
<1>5. Phases'
  BY DEF CapacityIInv, Phases, ClaimPhase, RecoverPhase
<1>6. LockedReadsHold'
  BY <1>1 DEF CapacityIInv, LockedReadsHold
<1>7. QED
  BY <1>3, <1>4, <1>5, <1>6 DEF CapacityIInv

\* A task that has its row locked may write it.
LEMMA LockedRowWritten ==
  ASSUME CapacityIInv, NEW a \in AttemptRows, fenced[a].pc = "locked",
         NEW q \in [status : {"QUEUED", "RUNNING", "FAILED", "COMPLETED"}, expires : Times],
         NEW pc \in {"working", "gone"},
         rowOf' = [rowOf EXCEPT ![a] = q], lock' = Free({a}),
         fenced' = [fenced EXCEPT ![a].pc = pc],
         UNCHANGED <<clock, advisory, claim, recover>>, revived' \in BOOLEAN
  PROVE  CapacityIInv'
<1>1. /\ fenced'[a].pc = pc /\ lock'[a] = NoTransaction
      /\ \A b \in AttemptRows \ {a} :
           fenced'[b] = fenced[b] /\ lock'[b] = lock[b] /\ rowOf'[b] = rowOf[b]
  BY DEF CapacityIInv, Shape, Free
<1>2. lock[a] = FencedTx(a)
  BY DEF CapacityIInv, Locks, RowLock
<1>3. /\ \A v \in Claimants : a \notin claim[v].rows
      /\ \A v \in Recoverers : a \notin recover[v].rows
  <2>1. /\ \A v \in Claimants : lock[a] # ClaimTx(v)
        /\ \A v \in Recoverers : lock[a] # RecoverTx(v)
    BY <1>2, TxsDiffer
  <2>2. QED
    BY <2>1 DEF CapacityIInv, Locks, RowLock
<1>4. Shape'
  <2>1. lock' \in [AttemptRows -> Txs \union {NoTransaction}]
    BY DEF CapacityIInv, Shape, Free
  <2>2. fenced' \in [AttemptRows -> FencedRow]
    BY DEF CapacityIInv, Shape, FencedRow
  <2>3. QED
    BY <2>1, <2>2 DEF CapacityIInv, Shape, FencedRow
<1>5. Locks'
  <2> SUFFICES ASSUME NEW b \in AttemptRows PROVE RowLock(b)'
    BY DEF Locks
  <2>1. RowLock(b)
    BY DEF CapacityIInv, Locks
  <2>2. CASE b = a
    BY <1>1, <1>3, <2>2, TxsDiffer DEF RowLock
  <2>3. CASE b # a
    BY <1>1, <2>1, <2>3 DEF RowLock
  <2>4. QED
    BY <2>2, <2>3
<1>6. Phases'
  BY DEF CapacityIInv, Phases, ClaimPhase, RecoverPhase
<1>7. LockedReadsHold'
  <2>1. \A v \in Claimants : \A b \in claim[v].rows : b \in AttemptRows \ {a}
    BY <1>3 DEF CapacityIInv, Shape
  <2>2. \A v \in Recoverers : \A b \in recover[v].rows : b \in AttemptRows \ {a}
    BY <1>3 DEF CapacityIInv, Shape
  <2>3. QED
    BY <1>1, <2>1, <2>2 DEF CapacityIInv, LockedReadsHold
<1>8. QED
  BY <1>4, <1>5, <1>6, <1>7 DEF CapacityIInv

LEMMA FencedSteps ==
  ASSUME CapacityIInv, NEW a \in AttemptRows, FencedStep(a)
  PROVE  CapacityIInv'
<1>1. fenced \in [AttemptRows -> FencedRow] /\ clock \in 0..MaxTime /\ revived \in BOOLEAN
  BY DEF CapacityIInv, Shape, FencedRow
<1>2. lock[a] = FencedTx(a) <=> fenced[a].pc = "locked"
  BY DEF CapacityIInv, Locks, RowLock
<1>3. lock = [lock EXCEPT ![a] = lock[a]]
  BY DEF CapacityIInv, Shape
<1>4. CASE FencedBegin(a)
  <2> DEFINE r == [pc |-> "begun", now |-> clock]
  <2>1. r \in FencedRow /\ r.pc = "begun" /\ lock[a] # FencedTx(a)
    BY <1>1, <1>2, <1>4 DEF FencedRow, FencedBegin
  <2>2. fenced' = [fenced EXCEPT ![a] = r] /\ lock' = [lock EXCEPT ![a] = lock[a]]
    BY <1>3, <1>4 DEF FencedBegin
  <2> HIDE DEF r
  <2>3. QED
    BY <1>1, <1>4, <2>1, <2>2, FencedMoves DEF FencedBegin
<1>5. CASE FencedLock(a)
  <2>1. lock[a] = NoTransaction /\ lock[a] # FencedTx(a)
    BY <1>5, TxsDiffer DEF FencedLock
  <2>2. CASE Honoured(a)
    <3> DEFINE r == [fenced[a] EXCEPT !.pc = "locked"]
    <3>1. r \in FencedRow /\ r.pc = "locked"
      BY <1>1 DEF FencedRow
    <3>2. fenced' = [fenced EXCEPT ![a] = r] /\ lock' = [lock EXCEPT ![a] = FencedTx(a)]
      BY <1>1, <1>5, <2>2 DEF FencedLock, Taken, CapacityIInv, Shape
    <3> HIDE DEF r
    <3>3. QED
      BY <1>1, <1>5, <2>1, <2>2, <3>1, <3>2, FencedMoves DEF FencedLock, Honoured
  <2>3. CASE ~Honoured(a)
    <3> DEFINE r == [fenced[a] EXCEPT !.pc = "gone"]
    <3>1. r \in FencedRow /\ r.pc = "gone"
      BY <1>1 DEF FencedRow
    <3>2. fenced' = [fenced EXCEPT ![a] = r] /\ lock' = [lock EXCEPT ![a] = lock[a]]
      BY <1>1, <1>3, <1>5, <2>3 DEF FencedLock
    <3> HIDE DEF r
    <3>3. QED
      BY <1>1, <1>5, <2>1, <3>1, <3>2, FencedMoves DEF FencedLock
  <2>4. QED
    BY <2>2, <2>3
<1>6. CASE Renew(a)
  <2> DEFINE q == [rowOf[a] EXCEPT !.expires = fenced[a].now + LeaseLength]
  <2>1. fenced[a].now \in 0..MaxTime
    BY <1>1 DEF FencedRow
  <2>2. fenced[a].now + LeaseLength \in Times
    BY <2>1, LengthAssumption, TimeAssumption DEF Times
  <2>3. q \in [status : {"QUEUED", "RUNNING", "FAILED", "COMPLETED"}, expires : Times]
    BY <2>2 DEF CapacityIInv, Shape
  <2>4. rowOf' = [rowOf EXCEPT ![a] = q] /\ revived' \in BOOLEAN
    BY <1>1, <1>6 DEF Renew, CapacityIInv, Shape
  <2> HIDE DEF q
  <2>5. QED
    BY <1>6, <2>3, <2>4, LockedRowWritten DEF Renew
<1>7. CASE FinishAttempt(a)
  <2> DEFINE q == [status |-> "COMPLETED", expires |-> 0]
  <2>1. q \in [status : {"QUEUED", "RUNNING", "FAILED", "COMPLETED"}, expires : Times]
    BY LengthAssumption, TimeAssumption DEF Times
  <2>2. rowOf' = [rowOf EXCEPT ![a] = q] /\ revived' \in BOOLEAN
    BY <1>1, <1>7 DEF FinishAttempt
  <2> HIDE DEF q
  <2>3. QED
    BY <1>7, <2>1, <2>2, LockedRowWritten DEF FinishAttempt
<1>8. CASE FencedCrash(a)
  <2> DEFINE r == [fenced[a] EXCEPT !.pc = "gone"]
             tx == IF lock[a] = FencedTx(a) THEN NoTransaction ELSE lock[a]
  <2>1. r \in FencedRow /\ r.pc = "gone" /\ tx # FencedTx(a)
    BY <1>1, TxsDiffer DEF FencedRow
  <2>2. \A b \in AttemptRows \ {a} : lock[b] # FencedTx(a)
    BY DEF CapacityIInv, Locks, RowLock
  <2>3. fenced' = [fenced EXCEPT ![a] = r] /\ lock' = [lock EXCEPT ![a] = tx]
    <3>1. lock \in [AttemptRows -> Txs \union {NoTransaction}]
      BY DEF CapacityIInv, Shape
    <3>2. lock' = [b \in AttemptRows |-> IF lock[b] = FencedTx(a) THEN NoTransaction ELSE lock[b]]
      BY <1>8 DEF FencedCrash
    <3>3. lock' = [lock EXCEPT ![a] = tx]
      BY <2>2, <3>1, <3>2
    <3>4. QED BY <1>8, <3>3 DEF FencedCrash
  <2> HIDE DEF r
  <2>4. QED
    BY <1>1, <1>8, <2>1, <2>3, FencedMoves DEF FencedCrash
<1>9. QED
  BY <1>4, <1>5, <1>6, <1>7, <1>8 DEF FencedStep

\* Time only makes transactions older.
LEMMA TimeStep ==
  ASSUME CapacityIInv, TimePasses
  PROVE  CapacityIInv'
<1>1. clock' \in 0..MaxTime /\ clock <= clock'
  BY TimeAssumption DEF TimePasses, CapacityIInv, Shape
<1>2. UNCHANGED <<rowOf, lock, advisory, claim, recover, fenced, revived>>
  BY DEF TimePasses
<1>3. Shape'
  BY <1>1, <1>2 DEF CapacityIInv, Shape
<1>4. Locks'
  BY <1>2 DEF CapacityIInv, Locks, RowLock
<1>5. Phases'
  <2>1. /\ \A w \in Claimants : claim[w].now \in Int
        /\ \A w \in Recoverers : recover[w].now \in Int
        /\ clock \in Int /\ clock' \in Int
    BY <1>1, TimeAssumption DEF CapacityIInv, Shape
  <2>2. \A w \in Claimants : ClaimPhase(w)'
    BY <1>1, <1>2, <2>1 DEF CapacityIInv, Phases, ClaimPhase
  <2>3. \A w \in Recoverers : RecoverPhase(w)'
    BY <1>1, <1>2, <2>1 DEF CapacityIInv, Phases, RecoverPhase
  <2>4. QED
    BY <2>2, <2>3 DEF Phases
<1>6. LockedReadsHold'
  <2>1. \A a \in AttemptRows : rowOf[a].expires \in Int /\ clock \in Int /\ clock' \in Int
    BY <1>1, TimeAssumption, LengthAssumption DEF CapacityIInv, Shape, Times
  <2>2. \A w \in Recoverers : recover[w].rows \subseteq AttemptRows
    BY DEF CapacityIInv, Shape
  <2>3. QED
    BY <1>1, <1>2, <2>1, <2>2 DEF CapacityIInv, LockedReadsHold
<1>7. QED
  BY <1>3, <1>4, <1>5, <1>6 DEF CapacityIInv

LEMMA CapacityInitIInv == CapacityInit => CapacityIInv
<1> SUFFICES ASSUME CapacityInit PROVE CapacityIInv
  OBVIOUS
<1>1. 0 \in 0..MaxTime /\ 0 \in Times
  BY TimeAssumption, LengthAssumption DEF Times
<1>2. Shape
  BY <1>1 DEF CapacityInit, Shape, NoTx
<1>3. Locks
  BY TxsDiffer DEF CapacityInit, Locks, RowLock, NoTx
<1>4. Phases
  BY DEF CapacityInit, Phases, ClaimPhase, RecoverPhase, NoTx
<1>5. LockedReadsHold
  BY DEF CapacityInit, LockedReadsHold, NoTx
<1>6. QED
  BY <1>2, <1>3, <1>4, <1>5 DEF CapacityIInv

LEMMA CapacityNextIInv == CapacityIInv /\ [CapacityNext]_capacityVars => CapacityIInv'
<1> SUFFICES ASSUME CapacityIInv, [CapacityNext]_capacityVars PROVE CapacityIInv'
  OBVIOUS
<1>1. ASSUME NEW w \in Recoverers, RecoverStep(w) PROVE CapacityIInv'
  BY <1>1, RecoverBeginStep, RecoverSerialiseStep, RecoverSelectStep, RecoverEndStep
     DEF RecoverStep
<1>2. CASE UNCHANGED capacityVars
  BY <1>2 DEF capacityVars, CapacityIInv, Shape, Locks, RowLock, Phases, ClaimPhase, RecoverPhase,
     LockedReadsHold
<1>3. QED
  BY <1>1, <1>2, ClaimSteps, FencedSteps, TimeStep DEF CapacityNext

LEMMA CapacityInvariance == CapacitySpec => []CapacityIInv
BY CapacityInitIInv, CapacityNextIInv, PTL DEF CapacitySpec

\* Rows, locks and transactions keep their shapes, and each row lock is always
\* held by the one transaction that is going to write the row.
THEOREM CapacityTypeCorrect == CapacitySpec => []CapacityTypeOK
<1>1. CapacityIInv => CapacityTypeOK
  BY DEF CapacityIInv, Shape, Locks, RowLock, CapacityTypeOK
<1>2. QED
  BY CapacityInvariance, <1>1, PTL

\* What a claim, a recovery or a fenced transaction read under its row locks
\* is still so when it commits.
THEOREM LockedReads == CapacitySpec => []LockedReadsHold
<1>1. CapacityIInv => LockedReadsHold
  BY DEF CapacityIInv
<1>2. QED
  BY CapacityInvariance, <1>1, PTL

-----------------------------------------------------------------------------
(* Platform Capacity *)

\* Unless a lapsed lease was renewed, the leases that stand are within the
\* units, and a claim that has counted them under the advisory lock can still
\* rely on its count.  Its count is of the leases that stood when it began,
\* which are all that stand now, and more.
WithinCapacity ==
  ~revived =>
    /\ LeasesWithinCapacity
    /\ \A w \in Claimants :
         claim[w].pc \in {"counted", "picked"} => Cardinality(LiveAt(claim[w].now)) < Units

LEMMA FewerLive ==
  ASSUME NEW S \in SUBSET AttemptRows, NEW T \in SUBSET S
  PROVE  Cardinality(T) \in Nat /\ Cardinality(S) \in Nat /\ Cardinality(T) <= Cardinality(S)
<1>1. IsFiniteSet(S)
  BY RowsAssumption, FS_Subset
<1>2. QED
  BY <1>1, FS_Subset, FS_CardinalityType

\* A step after which no more leases stand, as of any time up to now, than
\* stood before keeps within capacity, unless it is a claim's count.
LEMMA LiveShrinks ==
  ASSUME CapacityIInv, WithinCapacity,
         ~revived' => ~revived /\ \A t \in 0..clock : LiveAt(t)' \subseteq LiveAt(t),
         clock' = clock,
         \A w \in Claimants :
           claim'[w].pc \in {"counted", "picked"} =>
             \/ Cardinality(LiveAt(claim[w].now)) < Units /\ claim'[w].now = claim[w].now
             \/ claim[w].pc \in {"counted", "picked"} /\ claim'[w].now = claim[w].now
  PROVE  WithinCapacity'
<1> SUFFICES ASSUME ~revived' PROVE WithinCapacity' 
  BY DEF WithinCapacity
<1>1. clock \in 0..clock /\ \A w \in Claimants : claim[w].now \in 0..clock
  BY DEF CapacityIInv, Shape, Phases, ClaimPhase
<1>2. \A t : LiveAt(t) \subseteq AttemptRows
  BY DEF LiveAt
<1>3. LeasesWithinCapacity'
  <2>1. LiveAt(clock)' \subseteq LiveAt(clock) /\ Cardinality(LiveAt(clock)) <= Units
    BY <1>1 DEF WithinCapacity, LeasesWithinCapacity, LiveAt
  <2>2. QED
    BY <1>2, <2>1, FewerLive, UnitsAssumption DEF LeasesWithinCapacity
<1>4. ASSUME NEW w \in Claimants, claim'[w].pc \in {"counted", "picked"}
      PROVE  Cardinality(LiveAt(claim[w].now))' < Units
  <2>1. claim'[w].now = claim[w].now /\ Cardinality(LiveAt(claim[w].now)) < Units
    BY <1>4 DEF WithinCapacity
  <2>2. LiveAt(claim[w].now)' \subseteq LiveAt(claim[w].now)
    BY <1>1, <2>1 DEF LiveAt
  <2>3. QED
    BY <1>2, <2>1, <2>2, FewerLive, UnitsAssumption
<1>5. QED
  BY <1>3, <1>4 DEF WithinCapacity

\* The rows as they are, LiveAt is what it was.
LEMMA SameRowsLive ==
  ASSUME rowOf' = rowOf
  PROVE  \A t : LiveAt(t)' \subseteq LiveAt(t)
BY DEF LiveAt

\* A claim's own steps, up to its pick, change no row.
LEMMA ClaimWithin ==
  ASSUME CapacityIInv, WithinCapacity, NEW w \in Claimants, ClaimStep(w), ~ClaimCommit(w)
  PROVE  WithinCapacity'
<1>1. UNCHANGED <<clock, rowOf, revived>>
  BY DEF ClaimStep, ClaimBegin, ClaimSerialise, ClaimCount, ClaimPick, ClaimAbort, ClaimNothing
<1>2. \A v \in Claimants \ {w} : claim'[v] = claim[v]
  <2>1. \E r : claim' = [claim EXCEPT ![w] = r]
    <3>1. CASE ClaimNothing(w)
      BY <3>1 DEF ClaimNothing
    <3>2. CASE claim' = [claim EXCEPT ![w] = Begun]
      BY <3>2
    <3>3. ASSUME NEW pc, claim' = [claim EXCEPT ![w].pc = pc]
          PROVE  \E r : claim' = [claim EXCEPT ![w] = r]
      BY <3>3
    <3>4. ASSUME NEW a, claim' = [claim EXCEPT ![w].pc = "picked", ![w].rows = {a}]
          PROVE  \E r : claim' = [claim EXCEPT ![w] = r]
      <4>1. claim' = [claim EXCEPT ![w] = [claim[w] EXCEPT !.pc = "picked", !.rows = {a}]]
        BY <3>4 DEF CapacityIInv, Shape
      <4>2. QED
        BY <4>1
    <3>5. QED
      BY <3>1, <3>2, <3>3, <3>4
         DEF ClaimStep, ClaimBegin, ClaimSerialise, ClaimCount, ClaimPick, ClaimAbort
  <2>2. QED
    BY <2>1 DEF CapacityIInv, Shape
<1>3. claim'[w].pc \in {"counted", "picked"} =>
        \/ Cardinality(LiveAt(claim[w].now)) < Units /\ claim'[w].now = claim[w].now
        \/ claim[w].pc \in {"counted", "picked"} /\ claim'[w].now = claim[w].now
  <2>1. claim \in [Claimants -> ClaimRow]
    BY DEF CapacityIInv, Shape, ClaimRow
  <2>2. CASE ClaimBegin(w) \/ ClaimSerialise(w)
    BY <2>1, <2>2 DEF ClaimBegin, ClaimSerialise, Begun, ClaimRow
  <2>3. CASE ClaimNothing(w)
    BY <2>1, <2>3 DEF ClaimNothing, NoTx
  <2>4. CASE /\ Cardinality(LiveAt(claim[w].now)) < Units
             /\ claim' = [claim EXCEPT ![w].pc = "counted"]
    BY <2>1, <2>4 DEF ClaimRow
  <2>5. ASSUME NEW a, claim[w].pc = "counted",
               claim' = [claim EXCEPT ![w].pc = "picked", ![w].rows = {a}]
        PROVE  claim'[w].now = claim[w].now
    BY <2>1, <2>5 DEF ClaimRow
  <2>6. QED
    BY <2>2, <2>3, <2>4, <2>5 DEF ClaimStep, ClaimCount, ClaimPick, ClaimAbort
<1>4. QED
  BY <1>1, <1>2, <1>3, SameRowsLive, LiveShrinks

\* A claim that commits adds one lease to those it counted.
LEMMA CommitWithin ==
  ASSUME CapacityIInv, WithinCapacity, NEW w \in Claimants, ClaimCommit(w)
  PROVE  WithinCapacity'
<1> SUFFICES ASSUME ~revived PROVE WithinCapacity'
  BY DEF WithinCapacity, ClaimCommit
<1>1. PICK a \in AttemptRows : claim[w].rows = {a}
  BY DEF CapacityIInv, Phases, ClaimPhase, ClaimCommit
<1>2. Cardinality(LiveAt(claim[w].now)) < Units /\ claim[w].now <= clock /\ clock' = clock
  BY DEF WithinCapacity, ClaimCommit, CapacityIInv, Phases, ClaimPhase
<1>3. clock \in Int /\ claim[w].now \in Int /\ \A b \in AttemptRows : rowOf[b].expires \in Int
  BY TimeAssumption, LengthAssumption DEF CapacityIInv, Shape, Times
<1>4. LiveAt(clock)' \subseteq LiveAt(claim[w].now) \union {a}
  BY <1>1, <1>2, <1>3 DEF LiveAt, ClaimCommit
<1>5. LiveAt(claim[w].now) \subseteq AttemptRows /\ IsFiniteSet(LiveAt(claim[w].now))
  BY RowsAssumption, FS_Subset DEF LiveAt
<1>6. /\ Cardinality(LiveAt(claim[w].now)) \in Nat
      /\ Cardinality(LiveAt(claim[w].now) \union {a}) <= Cardinality(LiveAt(claim[w].now)) + 1
      /\ Cardinality(LiveAt(claim[w].now) \union {a}) \in Nat
      /\ IsFiniteSet(LiveAt(claim[w].now) \union {a})
  <2> DEFINE counted == LiveAt(claim[w].now)
  <2>1. IsFiniteSet(counted)
    BY <1>5
  <2> HIDE DEF counted
  <2>2. Cardinality(counted) \in Nat
    BY <2>1, FS_CardinalityType
  <2>3. /\ IsFiniteSet(counted \union {a})
        /\ Cardinality(counted \union {a}) =
             IF a \in counted THEN Cardinality(counted) ELSE Cardinality(counted) + 1
    BY <2>1, FS_AddElement
  <2>4. QED
    BY <2>2, <2>3 DEF counted
<1>7. Cardinality(LiveAt(clock)') <= Cardinality(LiveAt(claim[w].now) \union {a})
      /\ Cardinality(LiveAt(clock)') \in Nat
  BY <1>4, <1>6, FS_Subset, FS_CardinalityType
<1>8. LeasesWithinCapacity'
  BY <1>2, <1>6, <1>7, UnitsAssumption DEF LeasesWithinCapacity
<1>9. \A v \in Claimants : claim'[v].pc \notin {"counted", "picked"}
  <2>1. claim'[w] = NoTx /\ \A v \in Claimants \ {w} : claim'[v] = claim[v]
    BY DEF CapacityIInv, Shape, ClaimCommit
  <2>2. \A v \in Claimants \ {w} : claim[v].pc \notin {"counted", "picked"}
    BY OneClaim DEF ClaimCommit
  <2>3. QED
    BY <2>1, <2>2 DEF NoTx
<1>10. QED
  BY <1>8, <1>9 DEF WithinCapacity

\* Recovery ends leases and grants none.
LEMMA RecoverWithin ==
  ASSUME CapacityIInv, WithinCapacity, NEW w \in Recoverers, RecoverStep(w)
  PROVE  WithinCapacity'
<1>1. UNCHANGED <<clock, claim, revived>>
  BY DEF RecoverStep, RecoverBegin, RecoverSerialise, RecoverSelect, RecoverEnd
<1>2. \A a \in AttemptRows : rowOf'[a] = rowOf[a] \/ rowOf'[a].status = "FAILED"
  BY DEF RecoverStep, RecoverBegin, RecoverSerialise, RecoverSelect, RecoverEnd
<1>3. \A t : LiveAt(t)' \subseteq LiveAt(t)
  BY <1>2 DEF LiveAt
<1>4. QED
  BY <1>1, <1>3, LiveShrinks

\* A fenced transaction renews a lease that stands, or is the exception.
LEMMA FencedWithin ==
  ASSUME CapacityIInv, WithinCapacity, NEW a \in AttemptRows, FencedStep(a)
  PROVE  WithinCapacity'
<1>1. UNCHANGED <<clock, claim>>
  BY DEF FencedStep, FencedBegin, FencedLock, Renew, FinishAttempt, FencedCrash
<1>2. rowOf \in [AttemptRows -> [status : {"QUEUED", "RUNNING", "FAILED", "COMPLETED"}, expires : Times]]
  BY DEF CapacityIInv, Shape
<1>3. CASE Renew(a)
  <2> SUFFICES ASSUME ~revived'
               PROVE  ~revived /\ \A t \in 0..clock : LiveAt(t)' \subseteq LiveAt(t)
    <3>1. ~revived' => ~revived /\ \A t \in 0..clock : LiveAt(t)' \subseteq LiveAt(t)
      OBVIOUS
    <3>2. QED
      BY <1>1, <3>1, LiveShrinks
  <2>1. ~revived /\ ~(rowOf[a].expires <= clock)
    BY <1>3 DEF Renew
  <2>2. clock \in Int /\ \A b \in AttemptRows : rowOf[b].expires \in Int
    BY TimeAssumption, LengthAssumption DEF CapacityIInv, Shape, Times
  <2>3. \A t \in 0..clock : rowOf[a].expires > t
    BY <2>1, <2>2
  <2>4. /\ rowOf'[a].status = rowOf[a].status
        /\ \A b \in AttemptRows \ {a} : rowOf'[b] = rowOf[b]
    BY <1>2, <1>3 DEF Renew
  <2>5. QED
    BY <2>1, <2>3, <2>4 DEF LiveAt
<1>4. CASE ~Renew(a)
  <2>1. revived' = revived
    BY <1>4 DEF FencedStep, FencedBegin, FencedLock, FinishAttempt, FencedCrash
  <2>2. \A b \in AttemptRows : rowOf'[b] = rowOf[b] \/ rowOf'[b].status = "COMPLETED"
    BY <1>2, <1>4 DEF FencedStep, FencedBegin, FencedLock, FinishAttempt, FencedCrash
  <2>3. \A t : LiveAt(t)' \subseteq LiveAt(t)
    BY <2>2 DEF LiveAt
  <2>4. QED
    BY <1>1, <2>1, <2>3, LiveShrinks
<1>5. QED
  BY <1>3, <1>4

\* Leases lapse with time.
LEMMA TimeWithin ==
  ASSUME CapacityIInv, WithinCapacity, TimePasses
  PROVE  WithinCapacity'
<1> SUFFICES ASSUME ~revived PROVE WithinCapacity'
  BY DEF WithinCapacity, TimePasses
<1>1. UNCHANGED <<rowOf, claim>> /\ clock' = clock + 1
  BY DEF TimePasses
<1>2. clock \in Int /\ \A b \in AttemptRows : rowOf[b].expires \in Int
  BY TimeAssumption, LengthAssumption DEF CapacityIInv, Shape, Times
<1>3. LiveAt(clock)' \subseteq LiveAt(clock) /\ LiveAt(clock) \subseteq AttemptRows
  BY <1>1, <1>2 DEF LiveAt
<1>4. LeasesWithinCapacity'
  BY <1>3, FewerLive, UnitsAssumption DEF WithinCapacity, LeasesWithinCapacity
<1>5. \A w \in Claimants :
        claim'[w].pc \in {"counted", "picked"} => Cardinality(LiveAt(claim[w].now))' < Units
  BY <1>1 DEF WithinCapacity, LiveAt
<1>6. QED
  BY <1>4, <1>5 DEF WithinCapacity

\* docs/adr/0014 says that the leases that stand never exceed Platform
\* Capacity.  They do not, for any number of Workers, unless a heartbeat
\* committed after the lease it renews had lapsed.
THEOREM CapacityKept == CapacitySpec => []CapacityUnlessRevived
<1>1. CapacityInit => WithinCapacity
  <2> SUFFICES ASSUME CapacityInit PROVE WithinCapacity
    OBVIOUS
  <2>1. LiveAt(clock) = {}
    BY DEF CapacityInit, LiveAt
  <2>2. Cardinality(LiveAt(clock)) = 0
    BY <2>1, FS_EmptySet
  <2>3. LeasesWithinCapacity
    BY <2>2, UnitsAssumption DEF LeasesWithinCapacity
  <2>4. QED
    BY <2>3 DEF CapacityInit, WithinCapacity, NoTx
<1>2. CapacityIInv /\ WithinCapacity /\ [CapacityNext]_capacityVars => WithinCapacity'
  <2> SUFFICES ASSUME CapacityIInv, WithinCapacity, [CapacityNext]_capacityVars PROVE WithinCapacity'
    OBVIOUS
  <2>1. CASE UNCHANGED capacityVars
    BY <2>1 DEF capacityVars, WithinCapacity, LeasesWithinCapacity, LiveAt
  <2>2. QED
    BY <2>1, ClaimWithin, CommitWithin, RecoverWithin, FencedWithin, TimeWithin DEF CapacityNext
<1>3. WithinCapacity => CapacityUnlessRevived
  BY DEF WithinCapacity, CapacityUnlessRevived
<1>4. QED
  BY <1>1, <1>2, <1>3, CapacityInvariance, PTL DEF CapacitySpec

-----------------------------------------------------------------------------
(* How Attempts end *)

\* What NeverEndedWhileLive says of one row.
RowEndsRightly(a) ==
  /\ rowOf[a].status \in {"FAILED", "COMPLETED"} => rowOf'[a] = rowOf[a]
  /\ rowOf'[a].status = "FAILED" /\ rowOf[a].status # "FAILED" => a \notin LiveAt(clock)

\* A step writes a row as the reads under its lock allow.
LEMMA RowsEndRightly ==
  ASSUME CapacityIInv, [CapacityNext]_capacityVars, NEW a \in AttemptRows
  PROVE  RowEndsRightly(a)
<1>1. CASE rowOf' = rowOf
  BY <1>1 DEF RowEndsRightly
<1>2. ASSUME NEW w \in Claimants, ClaimCommit(w) PROVE RowEndsRightly(a)
  <2>1. CASE a \in claim[w].rows
    BY <1>2, <2>1 DEF ClaimCommit, CapacityIInv, LockedReadsHold, RowEndsRightly
  <2>2. CASE a \notin claim[w].rows
    BY <1>2, <2>2 DEF ClaimCommit, RowEndsRightly
  <2>3. QED
    BY <2>1, <2>2
<1>3. ASSUME NEW w \in Recoverers, NEW commits \in BOOLEAN, RecoverEnd(w, commits)
      PROVE  RowEndsRightly(a)
  <2>1. CASE a \in recover[w].rows
    <3>1. rowOf[a].status = "RUNNING" /\ rowOf[a].expires <= clock
      BY <2>1 DEF CapacityIInv, LockedReadsHold
    <3>2. rowOf[a].expires \in Int /\ clock \in Int
      BY TimeAssumption, LengthAssumption DEF CapacityIInv, Shape, Times
    <3>3. a \notin LiveAt(clock)
      BY <3>1, <3>2 DEF LiveAt
    <3>4. QED
      BY <3>1, <3>3 DEF RowEndsRightly
  <2>2. CASE a \notin recover[w].rows
    BY <1>3, <2>2 DEF RecoverEnd, RowEndsRightly
  <2>3. QED
    BY <2>1, <2>2
<1>4. ASSUME NEW b \in AttemptRows, Renew(b) \/ FinishAttempt(b) PROVE RowEndsRightly(a)
  <2>1. rowOf \in [AttemptRows -> [status : {"QUEUED", "RUNNING", "FAILED", "COMPLETED"}, expires : Times]]
    BY DEF CapacityIInv, Shape
  <2>2. CASE a = b
    <3>1. rowOf[a].status = "RUNNING"
      BY <1>4, <2>2 DEF Renew, FinishAttempt, CapacityIInv, LockedReadsHold
    <3>2. rowOf'[a].status \in {"RUNNING", "COMPLETED"}
      BY <1>4, <2>1, <2>2, <3>1 DEF Renew, FinishAttempt
    <3>3. QED
      BY <3>1, <3>2 DEF RowEndsRightly
  <2>3. CASE a # b
    BY <1>4, <2>1, <2>3 DEF Renew, FinishAttempt, RowEndsRightly
  <2>4. QED
    BY <2>2, <2>3
<1>5. \/ rowOf' = rowOf
      \/ \E w \in Claimants : ClaimCommit(w)
      \/ \E w \in Recoverers, commits \in BOOLEAN : RecoverEnd(w, commits)
      \/ \E b \in AttemptRows : Renew(b) \/ FinishAttempt(b)
  BY DEF CapacityNext, capacityVars, TimePasses,
     ClaimStep, ClaimBegin, ClaimSerialise, ClaimCount, ClaimPick, ClaimAbort, ClaimNothing,
     RecoverStep, RecoverBegin, RecoverSerialise, RecoverSelect,
     FencedStep, FencedBegin, FencedLock, FencedCrash
<1>6. QED
  BY <1>1, <1>2, <1>3, <1>4, <1>5

\* An ended Attempt stays as it ended, and recovery never ends one whose lease
\* stands: claims, recoveries and fenced transactions overlap freely, and the
\* row locks with the conditions evaluated under them are enough.
THEOREM EndedRightly == CapacitySpec => NeverEndedWhileLive
<1>1. CapacityIInv /\ [CapacityNext]_capacityVars =>
        [\A a \in AttemptRows :
           /\ rowOf[a].status \in {"FAILED", "COMPLETED"} => rowOf'[a] = rowOf[a]
           /\ rowOf'[a].status = "FAILED" /\ rowOf[a].status # "FAILED" => a \notin LiveAt(clock)
        ]_capacityVars
  BY RowsEndRightly DEF RowEndsRightly
<1>2. QED
  BY <1>1, CapacityInvariance, PTL DEF CapacitySpec, NeverEndedWhileLive

-----------------------------------------------------------------------------
(* Submission under an Idempotency-Key (ControlApi).                       *)

SubmitSteps ==
    {"begun", "resolving", "unresolved", "creating", "inserting", "uncommitted",
     "collided", "created", "replayed", "conflict", "failed", "unexplained"}

\* The submission's variables; a Job is named by the call that made it.
SubmitTypeOK ==
    /\ step \in [Calls -> SubmitSteps]
    /\ answer \in [Calls -> Calls \cup {NoSuchJob}]
    /\ jobs \subseteq {[by |-> c, hash |-> BodyOf[c]] : c \in Calls}
    /\ inserted \subseteq Calls

\* At most one insert is open, and none beside a committed Job: KeyNamesOneJob
\* is inductive only with what the unique index guarantees.
OneInsert ==
    /\ \A c \in Calls : c \in inserted <=> step[c] = "uncommitted"
    /\ \A c, d \in inserted : c = d
    /\ inserted # {} => jobs = {}
    /\ \A j, k \in jobs : j = k

\* What a call was told stands in the table; a collision is with a committed Job.
Answers ==
    \A c \in Calls :
        /\ step[c] \in {"created", "replayed"} => \E j \in jobs : j.hash = BodyOf[c] /\ j.by = answer[c]
        /\ step[c] = "conflict" => \E j \in jobs : j.hash # BodyOf[c]
        /\ step[c] = "collided" => jobs # {}
        /\ step[c] # "unexplained"

SubmitIInv == SubmitTypeOK /\ OneInsert /\ Answers

-----------------------------------------------------------------------------
\* A call that is answered without touching the table keeps the invariant,
\* if the answer is one of those the table supports.
LEMMA AnswerKeeps ==
    ASSUME SubmitIInv, NEW c \in Calls, NEW how \in SubmitSteps, NEW job \in Calls \cup {NoSuchJob},
           step[c] # "uncommitted", how \notin {"uncommitted", "unexplained"},
           Answered(c, how, job), UNCHANGED <<jobs, inserted>>,
           how \in {"created", "replayed"} => \E j \in jobs : j.hash = BodyOf[c] /\ j.by = job,
           how = "conflict" => \E j \in jobs : j.hash # BodyOf[c],
           how = "collided" => jobs # {}
    PROVE  SubmitIInv'
<1>1. /\ step'[c] = how /\ answer'[c] = job
      /\ \A d \in Calls \ {c} : step'[d] = step[d] /\ answer'[d] = answer[d]
  BY DEF SubmitIInv, SubmitTypeOK, Answered
<1>2. SubmitTypeOK'
  BY DEF SubmitIInv, SubmitTypeOK, Answered
<1>3. OneInsert'
  <2>1. \A d \in Calls : d \in inserted' <=> step'[d] = "uncommitted"
    BY <1>1 DEF SubmitIInv, OneInsert
  <2>2. QED
    BY <2>1 DEF SubmitIInv, OneInsert
<1>4. Answers'
  <2>1. ASSUME NEW d \in Calls
        PROVE  /\ step'[d] \in {"created", "replayed"} =>
                    \E j \in jobs' : j.hash = BodyOf[d] /\ j.by = answer'[d]
               /\ step'[d] = "conflict" => \E j \in jobs' : j.hash # BodyOf[d]
               /\ step'[d] = "collided" => jobs' # {}
               /\ step'[d] # "unexplained"
    <3>1. CASE d = c
      BY <1>1, <3>1
    <3>2. CASE d # c
      BY <1>1, <3>2 DEF SubmitIInv, Answers
    <3>3. QED
      BY <3>1, <3>2
  <2>2. QED
    BY <2>1 DEF Answers
<1>5. QED
  BY <1>2, <1>3, <1>4 DEF SubmitIInv

\* Looking a key up answers as the table says, or finds the table empty.
LEMMA LookupKeeps ==
    ASSUME SubmitIInv, NEW c \in Calls, NEW else \in SubmitSteps,
           step[c] # "uncommitted", Lookup(c, else), UNCHANGED <<jobs, inserted>>,
           else \notin {"uncommitted", "created", "replayed", "conflict", "collided"},
           else = "unexplained" => jobs # {}
    PROVE  SubmitIInv'
<1>1. CASE \E j \in jobs : j.hash = BodyOf[c] /\ Answered(c, "replayed", j.by)
  <2>1. PICK j \in jobs : j.hash = BodyOf[c] /\ Answered(c, "replayed", j.by)
    BY <1>1
  <2>2. j.by \in Calls
    BY DEF SubmitIInv, SubmitTypeOK
  <2>3. QED
    BY <2>1, <2>2, AnswerKeeps DEF SubmitSteps
<1>2. CASE \E j \in jobs : j.hash # BodyOf[c] /\ Answered(c, "conflict", NoSuchJob)
  BY <1>2, AnswerKeeps DEF SubmitSteps
<1>3. CASE jobs = {} /\ Answered(c, else, NoSuchJob)
  BY <1>3, AnswerKeeps
<1>4. QED
  BY <1>1, <1>2, <1>3 DEF Lookup

LEMMA InsertKeeps ==
    ASSUME SubmitIInv, NEW c \in Calls, Insert(c)
    PROVE  SubmitIInv'
<1>1. CASE jobs # {}
  BY <1>1, AnswerKeeps DEF Insert, At, SubmitSteps
<1>2. CASE jobs = {}
  <2>1. /\ inserted = {} /\ inserted' = {c} /\ jobs' = {}
        /\ Answered(c, "uncommitted", NoSuchJob)
    BY <1>2 DEF Insert
  <2>2. /\ step'[c] = "uncommitted"
        /\ \A d \in Calls \ {c} : step'[d] = step[d] /\ answer'[d] = answer[d]
    BY <2>1 DEF SubmitIInv, SubmitTypeOK, Answered
  <2>3. SubmitTypeOK'
    BY <2>1 DEF SubmitIInv, SubmitTypeOK, Answered, SubmitSteps
  <2>4. OneInsert'
    BY <2>1, <2>2 DEF SubmitIInv, OneInsert
  <2>5. Answers'
    BY <1>2, <2>1, <2>2 DEF SubmitIInv, Answers
  <2>6. QED
    BY <2>3, <2>4, <2>5 DEF SubmitIInv
<1>3. QED
  BY <1>1, <1>2

\* The commit makes the call's Job the only one.
LEMMA CommitKeeps ==
    ASSUME SubmitIInv, NEW c \in Calls, Commit(c)
    PROVE  SubmitIInv'
<1> DEFINE made == [by |-> c, hash |-> BodyOf[c]]
<1>1. step[c] = "uncommitted" /\ inserted' = {} /\ Answered(c, "created", c)
  BY DEF Commit, At
<1>2. inserted = {c} /\ jobs = {}
  BY <1>1 DEF SubmitIInv, OneInsert
<1>3. jobs' = {made}
  BY <1>2 DEF Commit
<1>4. /\ step'[c] = "created" /\ answer'[c] = c
      /\ \A d \in Calls \ {c} : step'[d] = step[d] /\ answer'[d] = answer[d]
  BY <1>1 DEF SubmitIInv, SubmitTypeOK, Answered
<1>5. SubmitTypeOK'
  BY <1>1, <1>3 DEF SubmitIInv, SubmitTypeOK, Answered, SubmitSteps
<1>6. OneInsert'
  BY <1>1, <1>2, <1>3, <1>4 DEF SubmitIInv, OneInsert
<1>7. Answers'
  BY <1>2, <1>3, <1>4 DEF SubmitIInv, Answers
<1>8. QED
  BY <1>5, <1>6, <1>7 DEF SubmitIInv

LEMMA FailKeeps ==
    ASSUME SubmitIInv, NEW c \in Calls, Fail(c)
    PROVE  SubmitIInv'
<1>1. /\ step[c] = "uncommitted" /\ inserted' = {} /\ jobs' = jobs
      /\ Answered(c, "failed", NoSuchJob)
  BY DEF Fail, At
<1>2. inserted = {c}
  BY <1>1 DEF SubmitIInv, OneInsert
<1>3. /\ step'[c] = "failed"
      /\ \A d \in Calls \ {c} : step'[d] = step[d] /\ answer'[d] = answer[d]
  BY <1>1 DEF SubmitIInv, SubmitTypeOK, Answered
<1>4. SubmitTypeOK'
  BY <1>1 DEF SubmitIInv, SubmitTypeOK, Answered, SubmitSteps
<1>5. OneInsert'
  BY <1>1, <1>2, <1>3 DEF SubmitIInv, OneInsert
<1>6. Answers'
  BY <1>1, <1>3 DEF SubmitIInv, Answers
<1>7. QED
  BY <1>4, <1>5, <1>6 DEF SubmitIInv

LEMMA SubmitInitIInv == ControlInit => SubmitIInv
BY DEF ControlInit, SubmitIInv, SubmitTypeOK, OneInsert, Answers, SubmitSteps

LEMMA SubmitNextIInv == SubmitIInv /\ [ControlNext]_controlVars => SubmitIInv'
<1> SUFFICES ASSUME SubmitIInv, [ControlNext]_controlVars PROVE SubmitIInv'
  OBVIOUS
<1>1. ASSUME NEW c \in Calls, FirstLookup(c) \/ SecondLookup(c) PROVE SubmitIInv'
  BY <1>1, LookupKeeps DEF FirstLookup, SecondLookup, At, SubmitSteps
<1>2. ASSUME NEW c \in Calls, Resolve(c) PROVE SubmitIInv'
  BY <1>2, AnswerKeeps DEF Resolve, At, SubmitSteps
<1>3. ASSUME NEW c \in Calls, Collide(c) PROVE SubmitIInv'
  <2>1. jobs # {}
    BY <1>3 DEF Collide, At, SubmitIInv, Answers
  <2>2. QED
    BY <1>3, <2>1, LookupKeeps DEF Collide, At, SubmitSteps
<1>4. CASE UNCHANGED submitVars
  BY <1>4 DEF submitVars, SubmitIInv, SubmitTypeOK, OneInsert, Answers
<1>5. CASE Submit
  BY <1>1, <1>2, <1>3, <1>5, InsertKeeps, CommitKeeps, FailKeeps DEF Submit
<1>6. QED
  BY <1>4, <1>5 DEF ControlNext, Log, Stream, controlVars

LEMMA SubmitInvariance == ControlSpec => []SubmitIInv
BY SubmitInitIInv, SubmitNextIInv, PTL DEF ControlSpec

-----------------------------------------------------------------------------
\* The submission's variables keep their shape: no call is ever in a step its
\* handler does not have, and every Job is some call's.
THEOREM SubmitTypeCorrect == ControlSpec => []SubmitTypeOK
<1>1. SubmitIInv => SubmitTypeOK
  BY DEF SubmitIInv
<1>2. QED
  BY SubmitInvariance, <1>1, PTL

\* However many calls with one key interleave, whatever their bodies, they make
\* one Job, every answer names it or the conflict with it, and a collision on
\* the unique index is always explained (ADR 0007).
THEOREM OneJobPerKey == ControlSpec => []KeyNamesOneJob
<1>1. SubmitIInv => KeyNamesOneJob
  <2> SUFFICES ASSUME SubmitIInv PROVE KeyNamesOneJob
    OBVIOUS
  <2>1. jobs = {} \/ \E j : jobs = {j}
    BY DEF SubmitIInv, OneInsert
  <2>2. Cardinality(jobs) <= 1
    <3>1. CASE jobs = {}
      <4>1. Cardinality(jobs) = 0
        BY <3>1, FS_EmptySet
      <4>2. QED
        BY <4>1
    <3>2. ASSUME NEW j, jobs = {j} PROVE Cardinality(jobs) <= 1
      <4>1. Cardinality(jobs) = 1
        BY <3>2, FS_Singleton
      <4>2. QED
        BY <4>1
    <3>3. QED
      BY <2>1, <3>1, <3>2
  <2>3. QED
    BY <2>2 DEF SubmitIInv, Answers, KeyNamesOneJob
<1>2. QED
  BY SubmitInvariance, <1>1, PTL

-----------------------------------------------------------------------------
(* The event log and the stream.                                           *)

\* The client holds 1, 2, 3 ... and the page goes on where it stops.
Streamed ==
    /\ cursor \in Nat /\ got \in Seq(Nat) /\ page \in Seq(Nat)
    /\ cursor = Len(got)
    /\ \A i \in 1..Len(got) : got[i] = i
    /\ \A i \in 1..Len(page) : page[i] = cursor + i

\* The committed numbers are 1..k and reach as far as the stream has read; those
\* above are drafts of the one transaction that has the Job's row locked.
NumberedTo(k) ==
    /\ k <= nextSequence
    /\ deleted \/ log = 1..k
    /\ \A w \in Writers : drafts[w] = IF w = holder THEN (k + 1)..nextSequence ELSE {}
    /\ holder = NoWriter <=> k = nextSequence
    /\ cursor + Len(page) <= k

LogTyped ==
    /\ nextSequence \in Nat /\ holder \in Writers \cup {NoWriter} /\ deleted \in BOOLEAN
    /\ drafts \in [Writers -> SUBSET Nat]

StreamIInv == LogTyped /\ Streamed /\ \E k \in Nat : NumberedTo(k)

\* A list in order that has as many members as an interval is the interval.
LEMMA IncreasingFills ==
    ASSUME NEW a \in Nat, NEW c \in Nat, NEW s \in [1..c -> (a + 1)..(a + c)],
           \A i, j \in 1..c : i < j => s[i] < s[j]
    PROVE  \A i \in 1..c : s[i] = a + i
<1> DEFINE low == {i \in 1..c : s[i] < a + i}
<1> DEFINE high == {j \in 0..(c - 1) : s[c - j] > a + (c - j)}
<1>0. \A i \in 1..c : s[i] \in Nat /\ a + 1 <= s[i] /\ s[i] <= a + c
  OBVIOUS
<1>1. low = {}
  <2> SUFFICES ASSUME low # {} PROVE FALSE
    OBVIOUS
  <2>1. PICK n \in low : \A m \in low : n <= m
    <3>1. low \subseteq Nat
      OBVIOUS
    <3> HIDE DEF low
    <3>2. QED BY <3>1, LeastNumber
  <2>2. n \in 1..c /\ s[n] < a + n
    OBVIOUS
  <2>3. CASE n = 1
    BY <1>0, <2>2, <2>3
  <2>4. CASE n # 1
    <3>1. n - 1 \in 1..c /\ ~(n <= n - 1)
      BY <2>2, <2>4
    <3>2. n - 1 \notin low
      BY <2>1, <3>1
    <3>3. s[n - 1] >= a + (n - 1)
      BY <1>0, <3>1, <3>2
    <3>4. s[n - 1] < s[n]
      BY <2>2, <3>1
    <3>5. QED BY <1>0, <2>2, <3>1, <3>3, <3>4
  <2>5. QED BY <2>3, <2>4
<1>2. high = {}
  <2> SUFFICES ASSUME high # {} PROVE FALSE
    OBVIOUS
  <2>1. PICK n \in high : \A m \in high : n <= m
    <3>1. high \subseteq Nat
      OBVIOUS
    <3> HIDE DEF high
    <3>2. QED BY <3>1, LeastNumber
  <2>2. n \in 0..(c - 1) /\ s[c - n] > a + (c - n) /\ c - n \in 1..c
    OBVIOUS
  <2>3. CASE n = 0
    BY <1>0, <2>2, <2>3
  <2>4. CASE n # 0
    <3>1. n - 1 \in 0..(c - 1) /\ ~(n <= n - 1) /\ c - (n - 1) \in 1..c /\ c - n < c - (n - 1)
      BY <2>2, <2>4
    <3>2. n - 1 \notin high
      BY <2>1, <3>1
    <3>3. s[c - (n - 1)] <= a + (c - (n - 1))
      BY <1>0, <3>1, <3>2
    <3>4. s[c - n] < s[c - (n - 1)]
      BY <2>2, <3>1
    <3>5. QED BY <1>0, <2>2, <3>1, <3>3, <3>4
  <2>5. QED BY <2>3, <2>4
<1>3. ASSUME NEW i \in 1..c PROVE s[i] = a + i
  <2>1. c - i \in 0..(c - 1) /\ c - (c - i) = i
    OBVIOUS
  <2>2. ~(s[i] < a + i)
    BY <1>1
  <2>3. ~(s[i] > a + i)
    BY <1>2, <2>1
  <2>4. QED BY <1>0, <2>2, <2>3
<1>4. QED BY <1>3

\* A page of a log without gaps goes on after the cursor without gaps.
LEMMA PageIsNext ==
    ASSUME NEW k \in Nat, NEW n \in Nat, n <= k, log = 1..k,
           NEW s \in InOrder(FirstAfter(n))
    PROVE  s \in Seq(Nat) /\ n + Len(s) <= k /\ \A i \in 1..Len(s) : s[i] = n + i
<1> DEFINE e == IF k <= n + PageLimit THEN k ELSE n + PageLimit
<1>0. PageLimit \in Nat /\ e \in Nat /\ n <= e /\ e <= k
  BY ControlAssumption
<1>1. After(n) = (n + 1)..k
  BY DEF After
<1>2. ASSUME NEW m \in (n + 1)..k
      PROVE  Cardinality({l \in After(n) : l < m}) = m - (n + 1)
  <2>1. {l \in After(n) : l < m} = (n + 1)..(m - 1)
    BY <1>1
  <2>2. Cardinality((n + 1)..(m - 1)) = m - (n + 1)
    BY FS_Interval
  <2>3. QED BY <2>1, <2>2
<1>3. FirstAfter(n) = (n + 1)..e
  <2>1. FirstAfter(n) = {m \in (n + 1)..k : m - (n + 1) < PageLimit}
    BY <1>1, <1>2 DEF FirstAfter
  <2>2. QED BY <1>0, <2>1
<1>4. Cardinality((n + 1)..e) = e - n
  <2>1. n + 1 \in Int /\ e \in Int
    BY <1>0
  <2> HIDE DEF e
  <2>2. Cardinality((n + 1)..e) = IF n + 1 > e THEN 0 ELSE e - (n + 1) + 1
    BY <2>1, FS_Interval
  <2>3. QED BY <1>0, <2>2
<1>5. e - n \in Nat /\ n + (e - n) = e
  BY <1>0
<1>6. /\ s \in [1..(e - n) -> (n + 1)..(n + (e - n))]
      /\ \A i, j \in 1..(e - n) : i < j => s[i] < s[j]
  BY <1>3, <1>4, <1>5 DEF InOrder
<1> HIDE DEF e
<1>7. \A i \in 1..(e - n) : s[i] = n + i
  BY <1>5, <1>6, IncreasingFills
<1>8. s \in [1..(e - n) -> Nat]
  BY <1>0, <1>6
<1>9. s \in Seq(Nat) /\ Len(s) = e - n
  BY <1>5, <1>8
<1>10. QED BY <1>0, <1>5, <1>7, <1>9

\* The transactions on the log, and retention.
LEMMA LogSteps ==
    ASSUME StreamIInv, Log
    PROVE  StreamIInv'
<1>1. UNCHANGED <<cursor, page, got>>
  BY DEF Log, streamVars
<1>2. Streamed'
  BY <1>1 DEF StreamIInv, Streamed
<1>3. PICK k \in Nat : NumberedTo(k)
  BY DEF StreamIInv
<1>4. /\ LogTyped /\ cursor \in Nat /\ Len(page) \in Nat /\ cursor + Len(page) <= k
      /\ NoWriter \notin Writers
  BY <1>3, ControlAssumption DEF StreamIInv, Streamed, NumberedTo
<1>5. ASSUME NEW w \in Writers, AppendEvent(w)
      PROVE  LogTyped' /\ NumberedTo(k)'
  <2>1. /\ ~deleted /\ holder \in {w, NoWriter} /\ holder' = w
        /\ nextSequence' = nextSequence + 1 /\ UNCHANGED <<log, deleted>>
        /\ drafts' = [drafts EXCEPT ![w] = @ \cup {nextSequence'}]
    BY <1>5 DEF AppendEvent
  <2>2. drafts[w] = (k + 1)..nextSequence
    <3>1. CASE holder = w
      BY <1>3, <3>1 DEF NumberedTo
    <3>2. CASE holder = NoWriter
      <4>1. drafts[w] = {} /\ k = nextSequence
        BY <1>3, <1>4, <3>2 DEF NumberedTo
      <4>2. (k + 1)..nextSequence = {}
        BY <4>1
      <4>3. QED BY <4>1, <4>2
    <3>3. QED BY <2>1, <3>1, <3>2
  <2>3. drafts'[w] = (k + 1)..nextSequence'
    BY <1>3, <1>4, <2>1, <2>2 DEF NumberedTo, LogTyped
  <2>4. \A u \in Writers : u # w => drafts'[u] = {}
    BY <1>3, <1>4, <2>1 DEF NumberedTo, LogTyped
  <2>5. LogTyped'
    BY <1>4, <2>1 DEF LogTyped
  <2>6. k <= nextSequence' /\ k # nextSequence'
    BY <1>3, <1>4, <2>1 DEF NumberedTo, LogTyped
  <2>7. QED BY <1>1, <1>3, <1>4, <2>1, <2>3, <2>4, <2>5, <2>6 DEF NumberedTo
<1>6. ASSUME NEW w \in Writers, CommitEvents(w) \/ RollBack(w)
      PROVE  LogTyped' /\ \E j \in Nat : NumberedTo(j)'
  <2>1. /\ drafts[w] # {} /\ drafts' = [drafts EXCEPT ![w] = {}]
        /\ holder' = NoWriter /\ deleted' = deleted
    BY <1>6 DEF CommitEvents, RollBack
  <2>2. w = holder /\ drafts[w] = (k + 1)..nextSequence
    BY <1>3, <2>1 DEF NumberedTo
  <2>3. \A u \in Writers : drafts'[u] = {} /\ u # holder'
    BY <1>3, <1>4, <2>1, <2>2 DEF NumberedTo, LogTyped
  <2>4. CASE CommitEvents(w)
    <3>1. log' = log \cup drafts[w] /\ nextSequence' = nextSequence
      BY <2>4 DEF CommitEvents
    <3>2. deleted' \/ log' = 1..nextSequence
      BY <1>3, <1>4, <2>1, <2>2, <3>1 DEF NumberedTo, LogTyped
    <3>3. NumberedTo(nextSequence)'
      <4>1. (nextSequence + 1)..nextSequence = {} /\ nextSequence \in Nat
        BY <1>4 DEF LogTyped
      <4>2. cursor' + Len(page') <= nextSequence
        BY <1>1, <1>3, <1>4 DEF NumberedTo, LogTyped
      <4>3. \A u \in Writers : drafts'[u] = IF u = holder' THEN (nextSequence + 1)..nextSequence' ELSE {}
        BY <2>3
      <4>4. QED BY <2>1, <3>1, <3>2, <4>1, <4>2, <4>3 DEF NumberedTo
    <3>4. LogTyped'
      BY <1>4, <2>1, <3>1 DEF LogTyped
    <3>5. QED BY <1>4, <3>1, <3>3, <3>4 DEF LogTyped
  <2>5. CASE RollBack(w)
    <3>1. log' = log /\ nextSequence' = nextSequence - Cardinality(drafts[w])
      BY <2>5 DEF RollBack
    <3>2. Cardinality((k + 1)..nextSequence) = nextSequence - k
      <4>1. k + 1 \in Int /\ nextSequence \in Int /\ k <= nextSequence
        BY <1>3, <1>4 DEF NumberedTo, LogTyped
      <4>2. Cardinality((k + 1)..nextSequence)
              = IF k + 1 > nextSequence THEN 0 ELSE nextSequence - (k + 1) + 1
        BY <4>1, FS_Interval
      <4>3. QED BY <4>1, <4>2
    <3>3. nextSequence' = k
      BY <1>4, <2>2, <3>1, <3>2 DEF LogTyped
    <3>4. NumberedTo(k)'
      BY <1>1, <1>3, <1>4, <2>1, <2>3, <3>1, <3>3 DEF NumberedTo
    <3>5. LogTyped'
      BY <1>4, <2>1, <3>3 DEF LogTyped
    <3>6. QED BY <3>4, <3>5
  <2>6. QED BY <1>6, <2>4, <2>5
<1>7. ASSUME Retention PROVE LogTyped' /\ NumberedTo(k)'
  <2>1. deleted' = TRUE /\ UNCHANGED <<nextSequence, holder, drafts>>
    BY <1>7 DEF Retention
  <2>2. QED BY <1>1, <1>3, <1>4, <2>1 DEF NumberedTo, LogTyped
<1>8. QED BY <1>2, <1>5, <1>6, <1>7 DEF Log, StreamIInv

\* The stream.
LEMMA StreamSteps ==
    ASSUME StreamIInv, Stream
    PROVE  StreamIInv'
<1>1. UNCHANGED <<log, nextSequence, holder, drafts, deleted>>
  BY DEF Stream, logVars
<1>2. LogTyped'
  BY <1>1 DEF StreamIInv, LogTyped
<1>3. PICK k \in Nat : NumberedTo(k)
  BY DEF StreamIInv
<1>4. Streamed /\ cursor + Len(page) <= k
  BY <1>3 DEF StreamIInv, NumberedTo
<1>5. SUFFICES Streamed' /\ cursor' + Len(page') <= k
  BY <1>1, <1>2, <1>3 DEF StreamIInv, NumberedTo
<1>6. CASE Follow
  <2>1. cursor' = cursor /\ page' = <<>> /\ got' = got
    BY <1>4, <1>6 DEF Follow, Streamed
  <2>2. QED BY <1>4, <2>1 DEF Streamed
<1>7. CASE ReadPage /\ ~deleted
  <2>1. page' \in InOrder(FirstAfter(cursor)) /\ UNCHANGED <<cursor, got>>
    BY <1>7 DEF ReadPage
  <2>2. log = 1..k /\ cursor \in Nat /\ cursor <= k
    BY <1>3, <1>4, <1>7 DEF NumberedTo, Streamed
  <2>3. /\ page' \in Seq(Nat) /\ cursor + Len(page') <= k
        /\ \A i \in 1..Len(page') : page'[i] = cursor + i
    BY <2>1, <2>2, PageIsNext
  <2>4. QED BY <1>4, <2>1, <2>3 DEF Streamed
<1>8. CASE (ReadPage /\ deleted) \/ Disconnect
  <2>1. UNCHANGED <<cursor, page, got>>
    BY <1>8 DEF ReadPage, Disconnect
  <2>2. QED BY <1>4, <2>1 DEF Streamed
<1>9. CASE Yield
  <2>1. /\ page # <<>> /\ got' = Append(got, Head(page))
        /\ cursor' = Head(page) /\ page' = Tail(page)
    BY <1>9 DEF Yield
  <2>2. Len(page) \in Nat \ {0} /\ Len(got) \in Nat /\ page \in Seq(Nat) /\ got \in Seq(Nat)
    BY <1>4, <2>1 DEF Streamed
  <2>3. Head(page) = cursor + 1 /\ cursor = Len(got)
    BY <1>4, <2>2 DEF Streamed
  <2>4. got' \in Seq(Nat) /\ Len(got') = Len(got) + 1 /\ cursor' = Len(got')
    BY <1>4, <2>1, <2>2, <2>3 DEF Streamed
  <2>5. \A i \in 1..Len(got') : got'[i] = i
    BY <1>4, <2>1, <2>2, <2>3, <2>4 DEF Streamed
  <2>6. page' \in Seq(Nat) /\ Len(page') = Len(page) - 1
    BY <2>1, <2>2
  <2>7. \A i \in 1..Len(page') : page'[i] = page[i + 1] /\ i + 1 \in 1..Len(page)
    BY <2>1, <2>2, <2>6
  <2>8. \A i \in 1..Len(page') : page'[i] = cursor' + i
    BY <1>4, <2>1, <2>2, <2>3, <2>7 DEF Streamed
  <2>9. cursor' + Len(page') <= k
    BY <1>4, <2>1, <2>2, <2>3, <2>6 DEF Streamed
  <2>10. cursor' \in Nat
    BY <2>4
  <2>11. Streamed'
    BY <2>4, <2>5, <2>6, <2>8, <2>10 DEF Streamed
  <2>12. QED BY <2>9, <2>11
<1>10. QED BY <1>6, <1>7, <1>8, <1>9 DEF Stream

\* A client that follows the events, through all its connections, holds 1, 2, 3 ...
\* and misses none: the lock on the Job's row, which one transaction holds from its
\* first number to its end, keeps every number below a committed one committed
\* (StreamSkipsNothing).
THEOREM NothingIsSkipped == ControlSpec => []StreamSkipsNothing
<1>1. ControlInit => StreamIInv
  <2> SUFFICES ASSUME ControlInit PROVE StreamIInv
    OBVIOUS
  <2>1. LogTyped
    BY DEF ControlInit, LogTyped
  <2>2. cursor = 0 /\ got = <<>> /\ page = <<>>
    BY DEF ControlInit
  <2>3. Streamed
    BY <2>2 DEF Streamed
  <2>4. NumberedTo(0)
    BY ControlAssumption DEF ControlInit, NumberedTo
  <2>5. QED BY <2>1, <2>3, <2>4 DEF StreamIInv
<1>2. StreamIInv /\ [ControlNext]_controlVars => StreamIInv'
  <2> SUFFICES ASSUME StreamIInv, [ControlNext]_controlVars PROVE StreamIInv'
    OBVIOUS
  <2>1. CASE Submit \/ UNCHANGED controlVars
    BY <2>1 DEF Submit, controlVars, logVars, streamVars, StreamIInv, LogTyped, Streamed, NumberedTo
  <2>2. QED BY <2>1, LogSteps, StreamSteps DEF ControlNext
<1>3. StreamIInv => StreamSkipsNothing
  BY DEF StreamIInv, Streamed, StreamSkipsNothing
<1>4. QED BY <1>1, <1>2, <1>3, PTL DEF ControlSpec
=============================================================================
