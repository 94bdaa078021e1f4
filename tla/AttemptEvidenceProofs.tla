------------------------ MODULE AttemptEvidenceProofs ------------------------
(***************************************************************************)
(* Proofs about what an Attempt leaves behind: its evidence                 *)
(* (AttemptEvidence), for any number of Attempts, janitors, kinds of        *)
(* evidence and limits; and its Docker resources (AttemptEnvironment), for  *)
(* any number of tries and of requests that fail.                           *)
(***************************************************************************)
EXTENDS AttemptEvidence, AttemptEnvironment, TLAPS

\* what Check has granted stays within the limit until the row is counted
Sized ==
  \A n \in Attempts : step[n] \in {"put", "add"} => used[n] + size[n] =< MaxAttempt

Typed == TypeOK /\ Sized

-----------------------------------------------------------------------------
LEMMA ReserveIsNat == Reserve \in Nat /\ \A k \in Kinds : Sizes(k) \subseteq Nat
<1>1. MaxAttempt - MaxArtifact \in Nat
  BY LimitsAreOrdered
<1>2. (MaxAttempt - MaxArtifact) \div LogReserveDivisor \in Int
  BY <1>1 DEF LogReserveDivisor
<1>3. Reserve \in Nat
  BY <1>2, LimitsAreOrdered DEF Reserve, Min2, Max2
<1> QED BY <1>3, ReportsHaveSizes DEF Sizes, Kinds

LEMMA HandIsId ==
  ASSUME TypeOK, NEW n \in Attempts
  PROVE  InHand(n) \in Ids /\ InHand(n)[1] = n
  BY DEF InHand, Ids, Round, Rounds, TypeOK

LEMMA TypeFinish ==
  ASSUME Typed, NEW n \in Attempts, NEW how \in {"none", "published", "failed", "deadline"},
         Finish(n, how)
  PROVE  /\ job' \in Job /\ current' \in 0 .. MaxAttempts
         /\ leased' \in BOOLEAN /\ due' \in BOOLEAN
         /\ at' \in [Attempts -> At]
         /\ kind' \in [Attempts -> Kinds]
         /\ step' \in [Attempts -> Step]
         /\ size' \in [Attempts -> Nat]
         /\ outcome' \in [Attempts -> {"none", "published", "failed", "deadline"}]
         /\ used' \in [Attempts -> 0 .. MaxAttempt]
         /\ Sized'
<1>1. Enter(n, "over") /\ outcome' = [outcome EXCEPT ![n] = how]
      /\ used' = [used EXCEPT ![n] = 0] /\ UNCHANGED <<current, due>>
  BY DEF Finish, Over
<1>2. at' \in [Attempts -> At]
  BY <1>1 DEF Typed, TypeOK, Enter, At
<1>3. kind' \in [Attempts -> Kinds] /\ step' \in [Attempts -> Step] /\ size' \in [Attempts -> Nat]
  BY <1>1, ReportFollowsDiff DEF Typed, TypeOK, Enter, Kinds, Step
<1>4. outcome' \in [Attempts -> {"none", "published", "failed", "deadline"}]
      /\ used' \in [Attempts -> 0 .. MaxAttempt]
  BY <1>1, LimitsAreOrdered DEF Typed, TypeOK
<1>5. job' \in Job /\ leased' \in BOOLEAN
  BY DEF Typed, TypeOK, Finish, Job
<1>6. Sized'
  <2> SUFFICES ASSUME NEW m \in Attempts, step'[m] \in {"put", "add"}
               PROVE  used'[m] + size'[m] =< MaxAttempt
    BY DEF Sized
  <2>1. m # n
    BY <1>1 DEF Enter, Typed, TypeOK
  <2>2. step'[m] = step[m] /\ used'[m] = used[m] /\ size'[m] = size[m]
    BY <1>1, <2>1 DEF Enter, Typed, TypeOK
  <2> QED BY <2>2 DEF Typed, Sized
<1> QED BY <1>1, <1>2, <1>3, <1>4, <1>5, <1>6 DEF Typed, TypeOK

LEMMA TypeEnter ==
  ASSUME Typed, NEW n \in Attempts, NEW where \in At, Enter(n, where)
  PROVE  /\ at' \in [Attempts -> At]
         /\ kind' \in [Attempts -> Kinds]
         /\ step' \in [Attempts -> Step]
         /\ size' \in [Attempts -> Nat]
         /\ \A m \in Attempts : m # n => step'[m] = step[m] /\ size'[m] = size[m]
         /\ step'[n] = "check"
  BY ReportFollowsDiff DEF Typed, TypeOK, Enter, Step, Kinds

LEMMA TypeInterrupted ==
  ASSUME Typed, NEW n \in Attempts, Interrupted(n)
  PROVE  files' \subseteq Ids /\ rows' \subseteq Ids /\ mishap' \subseteq Ids
  BY HandIsId DEF Typed, TypeOK, Interrupted, RowAdded

LEMMA TypeSave ==
  ASSUME Typed, NEW n \in Attempts, Save(n)
  PROVE  Typed'
<1>1. CASE Check(n)
  <2>1. PICK s \in Sizes(kind[n]) :
           \/ /\ Fits(n, s)
              /\ size' = [size EXCEPT ![n] = s]
              /\ GoesOn(n, "put")
              /\ UNCHANGED <<theJob, used>>
           \/ ~Fits(n, s) /\ Finish(n, AfterRound(n))
    BY <1>1 DEF Check
  <2>2. s \in Nat
    BY ReserveIsNat DEF Typed, TypeOK
  <2>3. CASE Finish(n, AfterRound(n))
    BY <1>1, <2>3, TypeFinish DEF Check, AfterRound, Typed, TypeOK, theStore
  <2>4. CASE /\ Fits(n, s)
             /\ size' = [size EXCEPT ![n] = s]
             /\ GoesOn(n, "put")
             /\ UNCHANGED <<theJob, used>>
    BY <1>1, <2>2, <2>4 DEF Check, GoesOn, Typed, TypeOK, Sized, Fits, theStore, theJob, Step
  <2> QED BY <2>1, <2>3, <2>4
<1>2. CASE Put(n)
  BY <1>2, HandIsId DEF Put, GoesOn, Typed, TypeOK, Sized, theJob, Step
<1>3. CASE SaveRaises(n)
  BY <1>3, TypeFinish DEF SaveRaises, SavingFails, Typed, TypeOK, theStore
<1>4. CASE Add(n)
  <2>1. rows' \subseteq Ids /\ files' = files /\ expired' = expired
        /\ janitor' = janitor /\ crowded' = crowded /\ mishap' = mishap
    BY <1>4, HandIsId DEF Add, RowAdded, Typed, TypeOK
  <2>2. CASE Finish(n, AfterRound(n))
    BY <2>1, <2>2, TypeFinish DEF AfterRound, Typed, TypeOK
  <2>3. CASE Counted(n) /\ step' = [step EXCEPT ![n] = "check"]
             /\ size' = [size EXCEPT ![n] = 0] /\ UNCHANGED <<theJob, outcome>>
             /\ at' \in [Attempts -> At] /\ kind' \in [Attempts -> Kinds]
    <3>1. used[n] + size[n] \in 0 .. MaxAttempt
      BY <1>4, LimitsAreOrdered DEF Add, Typed, TypeOK, Sized
    <3> QED BY <2>1, <2>3, <3>1 DEF Counted, Typed, TypeOK, Sized, theJob, Step
  <2>4. CASE /\ kind[n] # Report
             /\ kind' = [kind EXCEPT ![n] = @ + 1]
             /\ step' = [step EXCEPT ![n] = "check"]
             /\ size' = [size EXCEPT ![n] = 0]
             /\ Counted(n)
             /\ UNCHANGED <<theJob, at, outcome>>
    <3>1. kind' \in [Attempts -> Kinds]
      BY <2>4, ReportFollowsDiff DEF Typed, TypeOK, Kinds
    <3> QED BY <2>3, <2>4, <3>1 DEF Typed, TypeOK
  <2>5. CASE Enter(n, "saved") /\ Counted(n) /\ UNCHANGED <<theJob, outcome>>
    BY <2>3, <2>5, TypeEnter DEF At, Enter
  <2> QED BY <1>4, <2>2, <2>4, <2>5 DEF Add
<1>5. CASE AddRefused(n)
  BY <1>5 DEF AddRefused, GoesOn, Typed, TypeOK, Sized, theStore, theJob, Step
<1>6. CASE AddUnheard(n)
  <2>1. used[n] + size[n] \in 0 .. MaxAttempt
    BY <1>6, LimitsAreOrdered DEF AddUnheard, Typed, TypeOK, Sized
  <2> QED BY <1>6, <2>1, HandIsId
          DEF AddUnheard, RowAdded, Counted, GoesOn, Typed, TypeOK, Sized, theJob, Step
<1>7. CASE Undo(n)
  BY <1>7, TypeFinish, HandIsId DEF Undo, SavingFails, Typed, TypeOK
<1> QED BY <1>1, <1>2, <1>3, <1>4, <1>5, <1>6, <1>7 DEF Save

LEMMA TypeProcess ==
  ASSUME Typed, NEW n \in Attempts, Process(n)
  PROVE  Typed'
<1>1. CASE Save(n)
  BY <1>1, TypeSave
<1>2. CASE WorkEnds(n)
  <2>1. CASE Finish(n, "failed")
    BY <1>2, <2>1, TypeFinish DEF WorkEnds, Typed, TypeOK, theStore
  <2>2. CASE Enter(n, "saving") /\ UNCHANGED <<theJob, used, outcome>>
    BY <1>2, <2>2, TypeEnter DEF WorkEnds, Typed, TypeOK, Sized, At, theStore, theJob
  <2> QED BY <1>2, <2>1, <2>2 DEF WorkEnds
<1>3. CASE EnterPublishing(n)
  <2>1. CASE Finish(n, "failed")
    BY <1>3, <2>1, TypeFinish DEF EnterPublishing, Typed, TypeOK, theStore
  <2>2. CASE at' = [at EXCEPT ![n] = "publishing"] /\ UNCHANGED <<theJob, theSaving, outcome>>
    BY <1>3, <2>2 DEF EnterPublishing, Typed, TypeOK, Sized, At, theStore, theJob, theSaving
  <2> QED BY <1>3, <2>1, <2>2 DEF EnterPublishing
<1>4. CASE PublishEnds(n)
  BY <1>4, TypeFinish DEF PublishEnds, Typed, TypeOK, theStore
<1>5. CASE Deadline(n)
  <2>1. used' \in [Attempts -> 0 .. MaxAttempt]
    <3>1. CASE rows' = rows
      BY <1>5, <3>1 DEF Deadline, Typed, TypeOK
    <3>2. CASE rows' # rows
      <4>1. step[n] = "add" /\ used' = [used EXCEPT ![n] = @ + size[n]]
        BY <1>5, <3>2 DEF Deadline, Interrupted, Counted
      <4> QED BY <4>1, LimitsAreOrdered DEF Typed, TypeOK, Sized
    <3> QED BY <3>1, <3>2
  <2>2. \A m \in Attempts : m # n => used'[m] = used[m]
    BY <1>5 DEF Deadline, Counted, Typed, TypeOK
  <2>3. Enter(n, "closing") /\ files' \subseteq Ids /\ rows' \subseteq Ids /\ mishap' \subseteq Ids
    BY <1>5, TypeInterrupted DEF Deadline
  <2>4. UNCHANGED <<theJob, outcome, expired, janitor, crowded>>
    BY <1>5 DEF Deadline
  <2>5. "closing" \in At
    BY DEF At
  <2>6. Sized'
    BY <2>2, <2>3, <2>5, TypeEnter DEF Typed, Sized
  <2>7. TypeOK'
    BY <2>1, <2>3, <2>4, <2>5, TypeEnter DEF Typed, TypeOK, theJob
  <2> QED BY <2>6, <2>7 DEF Typed
<1>6. CASE CleanupCutShort(n)
  BY <1>6, TypeFinish, TypeInterrupted DEF CleanupCutShort, Typed, TypeOK
<1>7. CASE Cut(n)
  <2>1. Enter(n, "over") /\ files' \subseteq Ids /\ rows' \subseteq Ids /\ mishap' \subseteq Ids
    BY <1>7, TypeInterrupted DEF Cut, Over
  <2>2. "over" \in At
    BY DEF At
  <2>3. outcome' = [outcome EXCEPT ![n] = "failed"] /\ used' = [used EXCEPT ![n] = 0]
        /\ UNCHANGED <<theJob, expired, janitor, crowded>>
    BY <1>7 DEF Cut, Over
  <2>4. TypeOK'
    BY <2>1, <2>2, <2>3, TypeEnter, LimitsAreOrdered DEF Typed, TypeOK, theJob
  <2>5. Sized'
    BY <2>1, <2>2, <2>3, TypeEnter DEF Typed, TypeOK, Sized
  <2> QED BY <2>4, <2>5 DEF Typed
<1> QED BY <1>1, <1>2, <1>3, <1>4, <1>5, <1>6, <1>7 DEF Process

LEMMA IdleIsTyped == Idle \in Janitor
  <1>1. {} \in SUBSET Ids
    OBVIOUS
  <1> QED BY <1>1 DEF Idle, Janitor

LEMMA TypeClean ==
  ASSUME Typed, NEW j \in Janitors, Clean(j) \/ PassFails(j)
  PROVE  Typed'
<1>1. Expired \subseteq Ids
  BY DEF Expired, Typed, TypeOK
<1>2. \A what \in {"idle", "file", "row", "jobs"}, todo \in SUBSET Ids, all \in BOOLEAN :
        [doing |-> what, todo |-> todo, all |-> all] \in Janitor
  BY DEF Janitor
<1>3. janitor \in [Janitors -> Janitor] /\ janitor[j].todo \subseteq Ids /\ janitor[j].all \in BOOLEAN
  BY DEF Typed, TypeOK, Janitor
<1>9. ASSUME NEW what \in {"idle", "file", "row", "jobs"}, NEW todo \in SUBSET Ids, Doing(j, what, todo)
      PROVE  janitor' \in [Janitors -> Janitor]
  BY <1>2, <1>3, <1>9 DEF Doing
<1>4. CASE ListExpired(j)
  <2>1. PICK found \in SUBSET Expired :
          janitor' = [janitor EXCEPT ![j] =
                        [doing |-> IF found = {} THEN "jobs" ELSE "file",
                         todo |-> found, all |-> found = Expired]]
    BY <1>4 DEF ListExpired
  <2>2. janitor' \in [Janitors -> Janitor]
    <3>1. found \in SUBSET Ids /\ (found = Expired) \in BOOLEAN
      BY <1>1
    <3>2. [doing |-> IF found = {} THEN "jobs" ELSE "file", todo |-> found, all |-> found = Expired] \in Janitor
      BY <3>1, <1>2
    <3> QED BY <1>3, <2>1, <3>2
  <2> QED BY <1>4, <2>2 DEF ListExpired, Typed, TypeOK, Sized, theJob, theSaving, theStore
<1>5. CASE DeleteFile(j)
  <2>1. janitor' \in [Janitors -> Janitor]
    BY <1>3, <1>5, <1>9 DEF DeleteFile
  <2> QED BY <1>5, <2>1 DEF DeleteFile, Typed, TypeOK, Sized, theJob, theSaving, theStore
<1>6. CASE DeleteRow(j)
  <2>1. janitor' \in [Janitors -> Janitor]
    <3>1. PICK id \in janitor[j].todo :
             Doing(j, IF janitor[j].todo = {id} THEN "jobs" ELSE "file", janitor[j].todo \ {id})
      BY <1>6 DEF DeleteRow
    <3>2. janitor[j].todo \ {id} \in SUBSET Ids
      BY <1>3
    <3> QED BY <1>9, <3>1, <3>2
  <2>2. rows' \subseteq Ids /\ mishap' \subseteq Ids
    BY <1>6 DEF DeleteRow, Typed, TypeOK
  <2>3. UNCHANGED <<theJob, at, theSaving, outcome, files, expired, crowded>>
    BY <1>6 DEF DeleteRow
  <2> QED BY <2>1, <2>2, <2>3 DEF Typed, TypeOK, Sized, theJob, theSaving
<1>7. CASE DeleteJobs(j)
  <2>1. janitor' \in [Janitors -> Janitor]
    BY IdleIsTyped, <1>7 DEF DeleteJobs, Typed, TypeOK
  <2>2. job' \in Job /\ rows' \subseteq Ids /\ crowded' \subseteq Ids
    BY <1>7 DEF DeleteJobs, Typed, TypeOK, Job
  <2>3. UNCHANGED <<current, leased, due, at, theSaving, outcome, files, expired, mishap>>
    BY <1>7 DEF DeleteJobs
  <2> QED BY <2>1, <2>2, <2>3 DEF Typed, TypeOK, Sized, theSaving
<1>8. CASE PassFails(j)
  <2>1. janitor' \in [Janitors -> Janitor]
    BY IdleIsTyped, <1>8 DEF PassFails, Typed, TypeOK
  <2> QED BY <1>8, <2>1 DEF PassFails, Typed, TypeOK, Sized, theJob, theSaving, theStore
<1> QED BY <1>4, <1>5, <1>6, <1>7, <1>8 DEF Clean

LEMMA TypeJob ==
  ASSUME Typed, Claim \/ LoseLease \/ Retry \/ RetentionPasses
  PROVE  Typed'
<1>1. CASE Claim
  BY <1>1, AttemptsArePositive
  DEF Claim, Typed, TypeOK, Sized, Job, At, Attempts, theSaving, theStore
<1>2. CASE LoseLease
  BY <1>2 DEF LoseLease, Typed, TypeOK, Sized, Job, theSaving, theStore
<1>3. CASE Retry
  BY <1>3 DEF Retry, Typed, TypeOK, Sized, Job, theSaving, theStore
<1>4. CASE RetentionPasses
  BY <1>4 DEF RetentionPasses, Typed, TypeOK, Sized, theSaving, theStore
<1> QED BY <1>1, <1>2, <1>3, <1>4

\* Every step keeps the types, the Attempt's total of Artifact bytes within
\* its limit among them: what add_artifact_fenced adds was checked before.
LEMMA TypedIsInductive == Init /\ [][Next]_vars => []Typed
<1>1. Init => Typed
  <2> SUFFICES ASSUME Init PROVE Typed
    OBVIOUS
  <2>1. job \in Job /\ current \in 0 .. MaxAttempts /\ leased \in BOOLEAN /\ due \in BOOLEAN
    <3>1. 0 \in 0 .. MaxAttempts
      BY AttemptsArePositive
    <3> QED BY <3>1 DEF Init, Job
  <2>2. at \in [Attempts -> At] /\ step \in [Attempts -> Step] /\ size \in [Attempts -> Nat]
    BY DEF Init, At, Step
  <2>3. kind \in [Attempts -> Kinds] /\ used \in [Attempts -> 0 .. MaxAttempt]
    BY LimitsAreOrdered, ReportFollowsDiff DEF Init, Kinds
  <2>4. outcome \in [Attempts -> {"none", "published", "failed", "deadline"}]
    BY DEF Init
  <2>5. /\ files \subseteq Ids /\ rows \subseteq Ids /\ expired \subseteq Attempts
        /\ crowded \subseteq Ids /\ mishap \subseteq Ids /\ janitor \in [Janitors -> Janitor]
    BY IdleIsTyped DEF Init
  <2>6. Sized
    BY DEF Init, Sized
  <2> QED BY <2>1, <2>2, <2>3, <2>4, <2>5, <2>6 DEF Typed, TypeOK
<1>2. Typed /\ [Next]_vars => Typed'
  <2> SUFFICES ASSUME Typed, [Next]_vars PROVE Typed'
    OBVIOUS
  <2>1. CASE Claim \/ LoseLease \/ Retry \/ RetentionPasses
    BY <2>1, TypeJob
  <2>2. ASSUME NEW n \in Attempts, Process(n) PROVE Typed'
    BY <2>2, TypeProcess
  <2>3. ASSUME NEW n \in Attempts, Expire(n) PROVE Typed'
    BY <2>3 DEF Expire, Typed, TypeOK, Sized, theJob, theSaving
  <2>4. ASSUME NEW j \in Janitors, Clean(j) \/ PassFails(j) PROVE Typed'
    BY <2>4, TypeClean
  <2>5. CASE UNCHANGED vars
    BY <2>5 DEF vars, Typed, TypeOK, Sized
  <2> QED BY <2>1, <2>2, <2>3, <2>4, <2>5 DEF Next
<1> QED BY <1>1, <1>2, PTL

-----------------------------------------------------------------------------
\* The types hold in every reachable state, so an Attempt under processing
\* never has more bytes in rows than MEWCODE_PLATFORM_MAX_ATTEMPT_ARTIFACT_BYTES,
\* although the limit is checked several awaits before the row is added.
THEOREM TypeCorrect == Spec => []TypeOK
  BY TypedIsInductive, PTL DEF Spec, Typed

-----------------------------------------------------------------------------
(* No orphans *)

\* Attempt n is between the put of id and the answer to its row.
Hands(n, id) == Saving(n) /\ step[n] \in {"add", "undo"} /\ id = InHand(n)

\* OrphanNeedsMishap is not inductive alone.  A janitor that goes on to the
\* row has seen the file go, and nothing brings it back: what it lists is of
\* Attempts that are over.  When retention removes the Job, the rows that go by
\* cascade are gone already, if the pass listed every one of them.
NoOrphans == \A id \in files \ rows : id \in mishap \union crowded \/ \E n \in Attempts : Hands(n, id)

ExpiredAreOver ==
  /\ \A n \in expired : at[n] = "over"
  /\ \A n \in Attempts : n > current => at[n] = "waiting"

FileWentFirst ==
  \A j \in Janitors :
    /\ \A id \in janitor[j].todo : id[1] \in expired
    /\ janitor[j].doing = "row" => \A id \in Ids : Foremost(j, id) => id \notin files

CascadeIsEmpty ==
  due =>
    /\ job \in {"ended", "succeeded", "deleted"}
    /\ \A n \in Attempts : at[n] \in {"waiting", "over"}
    /\ \A id \in rows : id[1] \in expired
    /\ \A j \in Janitors : janitor[j].all =>
         /\ janitor[j].doing = "jobs" => rows = {}
         /\ janitor[j].doing \in {"file", "row"} => rows \subseteq janitor[j].todo

EInv == NoOrphans /\ ExpiredAreOver /\ FileWentFirst /\ CascadeIsEmpty

-----------------------------------------------------------------------------
\* What a step of process() for Attempt n does to the others, to the store,
\* and to what the store and the rows have in common.
Moved(n) ==
  /\ at[n] \notin {"waiting", "over"}
  /\ \A m \in Attempts :
       m # n => at'[m] = at[m] /\ kind'[m] = kind[m] /\ step'[m] = step[m]
  /\ current' = current /\ due' = due /\ expired' = expired /\ janitor' = janitor
  /\ crowded' = crowded
  /\ files' \subseteq files \union {InHand(n)}
  /\ mishap \subseteq mishap' /\ rows \subseteq rows'
  /\ \A id \in files' \ rows' :
       \/ id \in mishap'
       \/ Hands(n, id)'
       \/ id \in files /\ ~Hands(n, id)

LEMMA EnterLeavesOthers ==
  ASSUME Typed, NEW n \in Attempts, NEW where, Enter(n, where)
  PROVE  \A m \in Attempts :
           m # n => at'[m] = at[m] /\ kind'[m] = kind[m] /\ step'[m] = step[m]
  BY DEF Typed, TypeOK, Enter

LEMMA FinishLeavesOthers ==
  ASSUME Typed, NEW n \in Attempts, NEW how, Finish(n, how)
  PROVE  /\ \A m \in Attempts :
              m # n => at'[m] = at[m] /\ kind'[m] = kind[m] /\ step'[m] = step[m]
         /\ current' = current /\ due' = due
  BY EnterLeavesOthers DEF Finish, Over

LEMMA InterruptedMoves ==
  ASSUME Typed, NEW n \in Attempts, Interrupted(n)
  PROVE  /\ files' \subseteq files \union {InHand(n)}
         /\ mishap \subseteq mishap' /\ rows \subseteq rows'
         /\ \A id \in files' \ rows' : id \in mishap' \/ (id \in files /\ ~Hands(n, id))
<1>1. CASE /\ Saving(n) => step[n] \in {"check", "put"}
           /\ files' = files /\ rows' = rows /\ mishap' = mishap
  BY <1>1 DEF Hands
<1>2. CASE /\ Saving(n) /\ step[n] = "put"
           /\ files' = files \union {InHand(n)} /\ mishap' = mishap \union {InHand(n)}
           /\ rows' = rows
  BY <1>2 DEF Hands
<1>3. CASE rows' = rows \union {InHand(n)} /\ files' = files /\ mishap' = mishap
  BY <1>3 DEF Hands
<1>4. CASE mishap' = mishap \union {InHand(n)} /\ files' = files /\ rows' = rows
  BY <1>4 DEF Hands
<1>5. CASE files' = files \ {InHand(n)} /\ rows' = rows /\ mishap' = mishap
  BY <1>5 DEF Hands
<1> QED BY <1>1, <1>2, <1>3, <1>4, <1>5 DEF Interrupted, RowAdded

LEMMA SaveMoves ==
  ASSUME Typed, NEW n \in Attempts, Save(n)
  PROVE  Moved(n)
<1>1. Saving(n)
  BY DEF Save, Check, Put, SaveRaises, Add, AddRefused, AddUnheard, Undo
<1>2. at[n] \notin {"waiting", "over"}
  BY <1>1 DEF Saving
<1>3. CASE Check(n) \/ SaveRaises(n)
  <2>1. files' = files /\ rows' = rows /\ mishap' = mishap /\ expired' = expired
        /\ janitor' = janitor /\ crowded' = crowded /\ step[n] \notin {"add", "undo"}
    BY <1>3 DEF Check, SaveRaises, theStore
  <2>2. /\ \A m \in Attempts :
             m # n => at'[m] = at[m] /\ kind'[m] = kind[m] /\ step'[m] = step[m]
        /\ current' = current /\ due' = due
    <3>1. CASE \E how \in {"failed", "deadline"} : Finish(n, how)
      BY <3>1, FinishLeavesOthers
    <3>2. CASE GoesOn(n, "put") /\ UNCHANGED theJob
      BY <3>2 DEF GoesOn, theJob, Typed, TypeOK
    <3> QED BY <1>3, <3>1, <3>2 DEF Check, SaveRaises, SavingFails, AfterRound
  <2> QED BY <1>2, <2>1, <2>2 DEF Moved, Hands
<1>4. CASE Put(n)
  <2>1. /\ files' = files \union {InHand(n)} /\ step' = [step EXCEPT ![n] = "add"]
        /\ UNCHANGED <<at, kind, rows, mishap, expired, janitor, crowded, current, due>>
    BY <1>4 DEF Put, GoesOn, theJob
  <2>2. Hands(n, InHand(n))'
    BY <1>1, <2>1 DEF Hands, Saving, InHand, Round, Typed, TypeOK
  <2>3. InHand(n)' = InHand(n)
    BY <2>1 DEF InHand, Round
  <2>4. step[n] \notin {"add", "undo"}
    BY <1>4 DEF Put
  <2>5. \A m \in Attempts : m # n => step'[m] = step[m]
    BY <2>1 DEF Typed, TypeOK
  <2>6. Hands(n, InHand(n))' => \A id : id = InHand(n) => Hands(n, id)'
    BY <2>3 DEF Hands
  <2> QED BY <1>2, <2>1, <2>2, <2>4, <2>5, <2>6 DEF Moved, Hands
<1>5. CASE Add(n)
  <2>1. files' = files /\ rows' = rows \union {InHand(n)} /\ mishap' = mishap
        /\ expired' = expired /\ janitor' = janitor /\ crowded' = crowded
    BY <1>5 DEF Add, RowAdded
  <2>2. /\ \A m \in Attempts :
             m # n => at'[m] = at[m] /\ kind'[m] = kind[m] /\ step'[m] = step[m]
        /\ current' = current /\ due' = due
    <3>1. CASE Finish(n, AfterRound(n))
      BY <3>1, FinishLeavesOthers
    <3>2. CASE Enter(n, "saved") /\ UNCHANGED theJob
      BY <3>2, EnterLeavesOthers DEF theJob
    <3>3. CASE /\ kind' = [kind EXCEPT ![n] = @ + 1]
               /\ step' = [step EXCEPT ![n] = "check"]
               /\ UNCHANGED <<theJob, at>>
      BY <3>3 DEF theJob, Typed, TypeOK
    <3> QED BY <1>5, <3>1, <3>2, <3>3 DEF Add
  <2> QED BY <1>2, <2>1, <2>2 DEF Moved, Hands
<1>6. CASE AddRefused(n)
  <2>1. /\ step' = [step EXCEPT ![n] = "undo"] /\ step[n] = "add"
        /\ UNCHANGED <<at, kind, files, rows, mishap, expired, janitor, crowded, current, due>>
    BY <1>6 DEF AddRefused, GoesOn, theJob, theStore
  <2>2. \A id : Hands(n, id) => Hands(n, id)'
    BY <2>1 DEF Hands, Saving, InHand, Round, Typed, TypeOK
  <2>3. \A m \in Attempts : m # n => step'[m] = step[m]
    BY <2>1 DEF Typed, TypeOK
  <2> QED BY <1>2, <2>1, <2>2, <2>3 DEF Moved
<1>7. CASE AddUnheard(n)
  <2>1. /\ step' = [step EXCEPT ![n] = "undo"]
        /\ rows' = rows \union {InHand(n)} /\ mishap' = mishap \union {InHand(n)}
        /\ UNCHANGED <<at, kind, files, expired, janitor, crowded, current, due>>
    BY <1>7 DEF AddUnheard, RowAdded, GoesOn, theJob
  <2>2. \A m \in Attempts : m # n => step'[m] = step[m]
    BY <2>1 DEF Typed, TypeOK
  <2> QED BY <1>2, <2>1, <2>2 DEF Moved, Hands
<1>8. CASE Undo(n)
  <2>1. Finish(n, "failed") /\ UNCHANGED <<rows, expired, janitor, crowded>>
    BY <1>8 DEF Undo, SavingFails
  <2>2. \/ files' = files \ {InHand(n)} /\ mishap' = mishap
        \/ mishap' = mishap \union {InHand(n)} /\ files' = files
    BY <1>8 DEF Undo
  <2> QED BY <1>2, <2>1, <2>2, FinishLeavesOthers DEF Moved, Hands
<1> QED BY <1>3, <1>4, <1>5, <1>6, <1>7, <1>8 DEF Save

LEMMA ProcessMoves ==
  ASSUME Typed, NEW n \in Attempts, Process(n)
  PROVE  Moved(n)
<1>1. CASE Save(n)
  BY <1>1, SaveMoves
<1>2. CASE WorkEnds(n) \/ EnterPublishing(n) \/ PublishEnds(n)
  <2>1. /\ at[n] \in {"working", "saved", "publishing"}
        /\ UNCHANGED <<files, rows, expired, janitor, crowded, mishap>>
    BY <1>2 DEF WorkEnds, EnterPublishing, PublishEnds, theStore
  <2>2. /\ \A m \in Attempts :
             m # n => at'[m] = at[m] /\ kind'[m] = kind[m] /\ step'[m] = step[m]
        /\ current' = current /\ due' = due
    <3>1. CASE \E how \in {"failed", "published"} : Finish(n, how)
      BY <3>1, FinishLeavesOthers
    <3>2. CASE Enter(n, "saving") /\ UNCHANGED theJob
      BY <3>2, EnterLeavesOthers DEF theJob
    <3>3. CASE at' = [at EXCEPT ![n] = "publishing"] /\ UNCHANGED <<theJob, theSaving>>
      BY <3>3 DEF theJob, theSaving, Typed, TypeOK
    <3> QED BY <1>2, <3>1, <3>2, <3>3 DEF WorkEnds, EnterPublishing, PublishEnds
  <2> QED BY <2>1, <2>2 DEF Moved, Hands, Saving
<1>3. CASE Deadline(n)
  BY <1>3, InterruptedMoves, EnterLeavesOthers DEF Deadline, Moved, theJob
<1>4. CASE CleanupCutShort(n)
  BY <1>4, InterruptedMoves, FinishLeavesOthers DEF CleanupCutShort, Moved
<1>5. CASE Cut(n)
  BY <1>5, InterruptedMoves, EnterLeavesOthers DEF Cut, Over, Moved, theJob
<1> QED BY <1>1, <1>2, <1>3, <1>4, <1>5 DEF Process

LEMMA ProcessKeeps ==
  ASSUME Typed, EInv, NEW n \in Attempts, Process(n)
  PROVE  EInv'
<1>1. Moved(n)
  BY ProcessMoves
<1>2. due = FALSE /\ n \notin expired /\ ~(n > current)
  BY <1>1 DEF Moved, EInv, CascadeIsEmpty, ExpiredAreOver, Typed, TypeOK
<1>3. NoOrphans'
  <2> SUFFICES ASSUME NEW id \in files' \ rows', id \notin mishap' \union crowded',
                      ~Hands(n, id)'
               PROVE  \E m \in Attempts : Hands(m, id)'
    BY DEF NoOrphans
  <2>1. id \in files \ rows /\ ~Hands(n, id) /\ id \notin mishap \union crowded
    BY <1>1 DEF Moved
  <2>2. PICK m \in Attempts : Hands(m, id)
    BY <2>1 DEF EInv, NoOrphans
  <2>3. m # n
    BY <2>1, <2>2
  <2>4. at'[m] = at[m] /\ kind'[m] = kind[m] /\ step'[m] = step[m]
    BY <1>1, <2>3 DEF Moved
  <2>5. Hands(m, id)'
    BY <2>2, <2>4 DEF Hands, Saving, InHand, Round
  <2> QED BY <2>5
<1>4. ExpiredAreOver'
  BY <1>1, <1>2 DEF Moved, EInv, ExpiredAreOver, Typed, TypeOK
<1>5. FileWentFirst'
  <2>1. janitor' = janitor /\ expired' = expired /\ files' \subseteq files \union {InHand(n)}
    BY <1>1 DEF Moved
  <2>2. \A j \in Janitors, id \in Ids : Foremost(j, id) => id # InHand(n)
    BY <1>2, HandIsId DEF EInv, FileWentFirst, Foremost, Typed
  <2>3. \A j, id : Foremost(j, id)' <=> Foremost(j, id)
    BY <2>1 DEF Foremost, NotAfter
  <2> QED BY <2>1, <2>2, <2>3 DEF EInv, FileWentFirst
<1>6. CascadeIsEmpty'
  BY <1>1, <1>2 DEF Moved, CascadeIsEmpty
<1> QED BY <1>3, <1>4, <1>5, <1>6 DEF EInv

\* Two Artifacts cannot both be the foremost: a janitor that has deleted the
\* foremost file goes on to that file's row.
LEMMA OneForemost ==
  ASSUME Typed, NEW j \in Janitors, NEW a, NEW b, Foremost(j, a), Foremost(j, b)
  PROVE  a = b
<1>1. a \in Ids /\ b \in Ids
  BY DEF Foremost, Typed, TypeOK, Janitor
<1>2. a = <<a[1], a[2], a[3]>> /\ b = <<b[1], b[2], b[3]>>
  BY <1>1 DEF Ids
<1>3. /\ a[1] \in Int /\ a[2] \in Int /\ a[3] \in Int
      /\ b[1] \in Int /\ b[2] \in Int /\ b[3] \in Int
  BY <1>1 DEF Ids, Attempts, Rounds, Kinds
<1>4. NotAfter(a, b) /\ NotAfter(b, a)
  BY DEF Foremost
<1>5. a[1] = b[1] /\ a[2] = b[2] /\ a[3] = b[3]
  BY <1>3, <1>4 DEF NotAfter
<1> QED BY <1>2, <1>5

LEMMA CleanKeeps ==
  ASSUME Typed, EInv, NEW j \in Janitors, Clean(j) \/ PassFails(j)
  PROVE  EInv'
<1>1. UNCHANGED <<at, kind, step, current, due, expired>>
  BY DEF Clean, PassFails, ListExpired, DeleteFile, DeleteRow, DeleteJobs,
         theJob, theSaving, theStore
<1>2. ExpiredAreOver'
  BY <1>1 DEF EInv, ExpiredAreOver
<1>3. \A n, id : Hands(n, id)' <=> Hands(n, id)
  BY <1>1 DEF Hands, Saving, InHand, Round
<1>4. \A i \in Janitors : \A id : i # j /\ janitor'[i] = janitor[i] =>
        (Foremost(i, id)' <=> Foremost(i, id))
  BY DEF Foremost, NotAfter
<1>5. CASE ListExpired(j)
  <2>1. PICK found \in SUBSET Expired :
          janitor' = [janitor EXCEPT ![j] =
                        [doing |-> IF found = {} THEN "jobs" ELSE "file",
                         todo |-> found, all |-> found = Expired]]
    BY <1>5 DEF ListExpired
  <2>0. UNCHANGED <<job, files, rows, crowded, mishap>>
    BY <1>5 DEF ListExpired, theJob, theStore
  <2>2. /\ janitor'[j].doing = (IF found = {} THEN "jobs" ELSE "file")
        /\ janitor'[j].todo = found /\ (janitor'[j].all => found = Expired)
        /\ \A i \in Janitors : i # j => janitor'[i] = janitor[i]
    BY <2>1 DEF Typed, TypeOK
  <2>3. NoOrphans'
    BY <1>3, <2>0 DEF EInv, NoOrphans
  <2>4. FileWentFirst'
    BY <1>1, <1>4, <2>0, <2>2 DEF EInv, FileWentFirst, Expired
  <2>5. CascadeIsEmpty'
    BY <1>1, <2>0, <2>2 DEF EInv, CascadeIsEmpty, Expired
  <2> QED BY <1>2, <2>3, <2>4, <2>5 DEF EInv
<1>6. CASE DeleteFile(j)
  <2>1. PICK gone \in janitor[j].todo : Foremost(j, gone) /\ files' = files \ {gone}
    BY <1>6 DEF DeleteFile
  <2>2. /\ Doing(j, "row", janitor[j].todo)
        /\ janitor[j].doing = "file"
        /\ UNCHANGED <<job, rows, crowded, mishap>>
    BY <1>6 DEF DeleteFile, theJob
  <2>3. /\ janitor'[j].doing = "row" /\ janitor'[j].todo = janitor[j].todo
        /\ janitor'[j].all = janitor[j].all
        /\ \A i \in Janitors : i # j => janitor'[i] = janitor[i]
    BY <2>2 DEF Doing, Typed, TypeOK
  <2>4. NoOrphans'
    BY <1>3, <2>1, <2>2 DEF EInv, NoOrphans
  <2>5. \A id : Foremost(j, id)' => id \notin files'
    <3>1. \A id : Foremost(j, id)' => Foremost(j, id)
      BY <2>3 DEF Foremost, NotAfter
    <3> QED BY <2>1, <3>1, OneForemost
  <2>6. FileWentFirst'
    BY <1>1, <1>4, <2>1, <2>3, <2>5 DEF EInv, FileWentFirst
  <2>7. CascadeIsEmpty'
    BY <1>1, <2>2, <2>3 DEF EInv, CascadeIsEmpty
  <2> QED BY <1>2, <2>4, <2>6, <2>7 DEF EInv
<1>7. CASE DeleteRow(j)
  <2>1. PICK gone \in janitor[j].todo :
          /\ Foremost(j, gone)
          /\ rows' = rows \ {gone} /\ mishap' = mishap \ {gone}
          /\ Doing(j, IF janitor[j].todo = {gone} THEN "jobs" ELSE "file", janitor[j].todo \ {gone})
    BY <1>7 DEF DeleteRow
  <2>2. janitor[j].doing = "row" /\ UNCHANGED <<job, files, crowded>>
    BY <1>7 DEF DeleteRow, theJob
  <2>3. /\ janitor'[j].doing = (IF janitor[j].todo = {gone} THEN "jobs" ELSE "file")
        /\ janitor'[j].todo = janitor[j].todo \ {gone} /\ janitor'[j].all = janitor[j].all
        /\ \A i \in Janitors : i # j => janitor'[i] = janitor[i]
    BY <2>1 DEF Doing, Typed, TypeOK
  <2>4. gone \notin files
    BY <2>1, <2>2 DEF EInv, FileWentFirst, Typed, TypeOK, Janitor
  <2>5. NoOrphans'
    BY <1>3, <2>1, <2>2, <2>4 DEF EInv, NoOrphans
  <2>6. FileWentFirst'
    BY <1>1, <1>4, <2>2, <2>3 DEF EInv, FileWentFirst
  <2>7. CascadeIsEmpty'
    BY <1>1, <2>1, <2>2, <2>3 DEF EInv, CascadeIsEmpty
  <2> QED BY <1>2, <2>5, <2>6, <2>7 DEF EInv
<1>8. CASE DeleteJobs(j) \/ PassFails(j)
  <2>1. /\ janitor'[j].doing = "idle" /\ janitor'[j].todo = {}
        /\ \A i \in Janitors : i # j => janitor'[i] = janitor[i]
    BY <1>8 DEF DeleteJobs, PassFails, Idle, Typed, TypeOK
  <2>2. files' = files /\ mishap' = mishap
    BY <1>8 DEF DeleteJobs, PassFails, theStore
  <2>3. \/ rows' = rows /\ job' = job /\ crowded' = crowded
        \/ /\ rows' = {} /\ job' = "deleted" /\ due /\ janitor[j].doing = "jobs"
           /\ crowded' = IF janitor[j].all THEN crowded ELSE crowded \union rows
    BY <1>8 DEF DeleteJobs, PassFails, theStore, theJob
  <2>4. rows' \subseteq rows /\ crowded \subseteq crowded' /\ rows \ rows' \subseteq crowded'
    BY <2>3 DEF EInv, CascadeIsEmpty
  <2>5. NoOrphans'
    BY <1>3, <2>2, <2>4 DEF EInv, NoOrphans
  <2>6. FileWentFirst'
    BY <1>1, <1>4, <2>1, <2>2 DEF EInv, FileWentFirst
  <2>7. CascadeIsEmpty'
    BY <1>1, <2>1, <2>3 DEF EInv, CascadeIsEmpty
  <2> QED BY <1>2, <2>5, <2>6, <2>7 DEF EInv
<1> QED BY <1>5, <1>6, <1>7, <1>8 DEF Clean

LEMMA JobKeeps ==
  ASSUME Typed, EInv, Claim \/ LoseLease \/ Retry \/ RetentionPasses
  PROVE  EInv'
<1>1. UNCHANGED <<kind, step, files, rows, expired, janitor, crowded, mishap>>
  BY DEF Claim, LoseLease, Retry, RetentionPasses, theSaving, theStore
<1>2. FileWentFirst'
  <2>1. \A j, id : Foremost(j, id)' <=> Foremost(j, id)
    BY <1>1 DEF Foremost, NotAfter
  <2> QED BY <1>1, <2>1 DEF EInv, FileWentFirst
<1>3. CASE Claim
  <2>1. /\ at' = [at EXCEPT ![current + 1] = "working"] /\ current' = current + 1
        /\ job = "queued" /\ due' = due
    BY <1>3 DEF Claim
  <2>2. current + 1 \in Attempts /\ at[current + 1] = "waiting"
    BY <1>3, AttemptsArePositive DEF Claim, EInv, ExpiredAreOver, Typed, TypeOK, Attempts
  <2>3. \A n \in Attempts : \A id : Hands(n, id) => Hands(n, id)'
    BY <1>1, <2>1, <2>2 DEF Hands, Saving, InHand, Round, Typed, TypeOK
  <2>4. NoOrphans'
    BY <1>1, <2>3 DEF EInv, NoOrphans
  <2>5. ExpiredAreOver'
    BY <1>1, <2>1, <2>2 DEF EInv, ExpiredAreOver, Typed, TypeOK, Attempts
  <2>6. CascadeIsEmpty'
    BY <2>1 DEF EInv, CascadeIsEmpty
  <2> QED BY <1>2, <2>4, <2>5, <2>6 DEF EInv
<1>4. CASE LoseLease \/ Retry \/ RetentionPasses
  <2>1. at' = at /\ current' = current
    BY <1>4 DEF LoseLease, Retry, RetentionPasses
  <2>2. NoOrphans'
    BY <1>1, <2>1 DEF EInv, NoOrphans, Hands, Saving, InHand, Round
  <2>3. ExpiredAreOver'
    BY <1>1, <2>1 DEF EInv, ExpiredAreOver
  <2>4. CascadeIsEmpty'
    <3>1. CASE LoseLease
      BY <3>1 DEF LoseLease, EInv, CascadeIsEmpty
    <3>2. CASE Retry
      BY <3>2 DEF Retry, CascadeIsEmpty
    <3>3. CASE RetentionPasses
      <4>1. \A id \in rows : id[1] \in expired
        BY <3>3 DEF RetentionPasses, Expired
      <4>2. job' = job /\ job \in {"ended", "succeeded"}
            /\ \A j \in Janitors : janitor[j].doing = "idle"
        BY <3>3 DEF RetentionPasses, Idle
      <4> QED BY <1>1, <2>1, <3>3, <4>1, <4>2 DEF RetentionPasses, CascadeIsEmpty
    <3> QED BY <1>4, <3>1, <3>2, <3>3
  <2> QED BY <1>2, <2>2, <2>3, <2>4 DEF EInv
<1> QED BY <1>3, <1>4

LEMMA ExpireKeeps ==
  ASSUME Typed, EInv, NEW n \in Attempts, Expire(n)
  PROVE  EInv'
<1>1. /\ at[n] = "over" /\ expired' = expired \union {n}
      /\ UNCHANGED <<job, current, due, at, kind, step, files, rows, janitor, crowded, mishap>>
  BY DEF Expire, theJob, theSaving
<1>2. NoOrphans'
  BY <1>1 DEF EInv, NoOrphans, Hands, Saving, InHand, Round
<1>3. ExpiredAreOver'
  BY <1>1 DEF EInv, ExpiredAreOver
<1>4. FileWentFirst'
  <2>1. \A j, id : Foremost(j, id)' <=> Foremost(j, id)
    BY <1>1 DEF Foremost, NotAfter
  <2> QED BY <1>1, <2>1 DEF EInv, FileWentFirst
<1>5. CascadeIsEmpty'
  BY <1>1 DEF EInv, CascadeIsEmpty
<1> QED BY <1>2, <1>3, <1>4, <1>5 DEF EInv

LEMMA EInvInvariance == Spec => []EInv
<1>1. Init => EInv
  BY DEF Init, EInv, NoOrphans, ExpiredAreOver, FileWentFirst, CascadeIsEmpty, Idle, Foremost
<1>2. Typed /\ EInv /\ [Next]_vars => EInv'
  <2> SUFFICES ASSUME Typed, EInv, [Next]_vars PROVE EInv'
    OBVIOUS
  <2>1. CASE UNCHANGED vars
    BY <2>1 DEF vars, EInv, NoOrphans, ExpiredAreOver, FileWentFirst, CascadeIsEmpty,
                Hands, Saving, InHand, Round, Foremost, NotAfter
  <2> QED BY <2>1, JobKeeps, ProcessKeeps, ExpireKeeps, CleanKeeps DEF Next
<1> QED BY <1>1, <1>2, TypedIsInductive, PTL DEF Spec

\* No bytes stay in the store without a row by which a janitor would find
\* them, except those being saved, those of an interrupted saving and those of
\* a Job deleted in a pass whose list did not hold all that had expired: with
\* any number of Attempts and janitors and any batch, cut short, refused and
\* cleaned up at any await.
THEOREM OrphansExplained == Spec => []OrphanNeedsMishap
<1>1. EInv => OrphanNeedsMishap
  BY DEF EInv, NoOrphans, Hands, OrphanNeedsMishap
<1> QED BY <1>1, EInvInvariance, PTL

-----------------------------------------------------------------------------
(* Published, listed and left by a deadline *)

Backed(n, r, k) == <<n, r, k>> \in rows /\ <<n, r, k>> \in files

\* The rows of a round come in the order of the kinds, each after its file.
\* Published is what has every row and every file of the first round.
InOrder(n) ==
  /\ at[n] \in {"waiting", "working"} => \A r \in Rounds, k \in Kinds : <<n, r, k>> \notin rows
  /\ at[n] \in {"saving", "saved", "publishing"} => \A k \in Kinds : <<n, 2, k>> \notin rows
  /\ Saving(n) =>
       \A k \in Kinds : <<n, Round(n), k>> \in rows =>
         k < kind[n] \/ (step[n] = "undo" /\ k = kind[n] /\ <<n, Round(n), k>> \in mishap)
  /\ Saving(n) => \A k \in Kinds : k < kind[n] => Backed(n, Round(n), k)
  /\ Saving(n) /\ step[n] = "add" => InHand(n) \in files
  /\ at[n] \in {"saved", "publishing"} => \A k \in Kinds : Backed(n, 1, k)
  /\ outcome[n] = "published" =>
       at[n] = "over" /\ (n \in expired \/ \A k \in Kinds : Backed(n, 1, k))

OIInv == (\A n \in Attempts : InOrder(n)) /\ ListedIsThere

\* What a step of process() for Attempt n leaves to the others.
OthersKeep(n) ==
  /\ \A m \in Attempts \ {n} :
       /\ at'[m] = at[m] /\ kind'[m] = kind[m] /\ step'[m] = step[m] /\ size'[m] = size[m]
       /\ outcome'[m] = outcome[m] /\ used'[m] = used[m]
  /\ rows \subseteq rows' /\ rows' \subseteq rows \union {InHand(n)}
  /\ files \ {InHand(n)} \subseteq files' /\ files' \subseteq files \union {InHand(n)}
  /\ mishap \subseteq mishap' /\ expired' = expired

LEMMA FinishKeepsOthers ==
  ASSUME Typed, NEW n \in Attempts, NEW how, Finish(n, how) \/ Over(n, how)
  PROVE  /\ \A m \in Attempts \ {n} :
              /\ at'[m] = at[m] /\ kind'[m] = kind[m] /\ step'[m] = step[m] /\ size'[m] = size[m]
              /\ outcome'[m] = outcome[m] /\ used'[m] = used[m]
         /\ at'[n] = "over" /\ outcome'[n] = how
  BY DEF Finish, Over, Enter, Typed, TypeOK

LEMMA SaveKeepsOthers ==
  ASSUME Typed, NEW n \in Attempts, Save(n)
  PROVE  OthersKeep(n)
<1>1. CASE Check(n)
  <2>1. UNCHANGED <<rows, files, mishap, expired>>
    BY <1>1 DEF Check, theStore
  <2>2. CASE Finish(n, AfterRound(n))
    BY <2>1, <2>2, FinishKeepsOthers DEF OthersKeep
  <2>3. CASE ~Finish(n, AfterRound(n))
    <3>1. PICK s \in Sizes(kind[n]) : size' = [size EXCEPT ![n] = s] /\ GoesOn(n, "put") /\ UNCHANGED used
      BY <1>1, <2>3 DEF Check
    <3> QED BY <2>1, <3>1 DEF OthersKeep, GoesOn, Typed, TypeOK
  <2> QED BY <2>2, <2>3
<1>2. CASE SaveRaises(n)
  BY <1>2, FinishKeepsOthers DEF SaveRaises, SavingFails, theStore, OthersKeep
<1>3. CASE Undo(n)
  BY <1>3, FinishKeepsOthers DEF Undo, SavingFails, OthersKeep
<1>4. CASE Put(n)
  BY <1>4 DEF Put, GoesOn, OthersKeep, Typed, TypeOK
<1>5. CASE Add(n)
  <2>1. UNCHANGED <<files, expired, mishap>> /\ rows' = rows \union {InHand(n)}
    BY <1>5 DEF Add, RowAdded
  <2>2. CASE Finish(n, AfterRound(n))
    BY <2>1, <2>2, FinishKeepsOthers DEF OthersKeep
  <2>3. CASE ~Finish(n, AfterRound(n))
    <3>1. /\ step' = [step EXCEPT ![n] = "check"] /\ size' = [size EXCEPT ![n] = 0]
          /\ used' = [used EXCEPT ![n] = @ + size[n]] /\ UNCHANGED outcome
          /\ \/ kind' = [kind EXCEPT ![n] = @ + 1] /\ UNCHANGED at
             \/ kind' = [kind EXCEPT ![n] = 1] /\ at' = [at EXCEPT ![n] = "saved"]
      BY <1>5, <2>3 DEF Add, Counted, Enter
    <3> QED BY <2>1, <3>1 DEF OthersKeep, Typed, TypeOK
  <2> QED BY <2>2, <2>3
<1>6. CASE AddRefused(n)
  BY <1>6 DEF AddRefused, GoesOn, OthersKeep, Typed, TypeOK, theStore
<1>7. CASE AddUnheard(n)
  BY <1>7 DEF AddUnheard, RowAdded, Counted, GoesOn, OthersKeep, Typed, TypeOK
<1> QED BY <1>1, <1>2, <1>3, <1>4, <1>5, <1>6, <1>7 DEF Save

LEMMA InterruptedStore ==
  ASSUME Typed, NEW n \in Attempts, Interrupted(n)
  PROVE  /\ rows \subseteq rows' /\ rows' \subseteq rows \union {InHand(n)}
         /\ files \ {InHand(n)} \subseteq files' /\ files' \subseteq files \union {InHand(n)}
         /\ mishap \subseteq mishap'
         /\ rows' # rows => Saving(n) /\ step[n] = "add" /\ files' = files /\ mishap' = mishap
         /\ InHand(n) \in files \ files' => Saving(n) /\ step[n] = "undo" /\ rows' = rows
  BY DEF Interrupted, RowAdded

LEMMA ProcessKeepsOthers ==
  ASSUME Typed, NEW n \in Attempts, Process(n)
  PROVE  OthersKeep(n)
<1>1. CASE Save(n)
  BY <1>1, SaveKeepsOthers
<1>2. CASE WorkEnds(n) \/ EnterPublishing(n) \/ PublishEnds(n)
  <2>1. UNCHANGED <<files, rows, expired, mishap>>
    BY <1>2 DEF WorkEnds, EnterPublishing, PublishEnds, theStore
  <2>2. CASE \E how \in {"failed", "published"} : Finish(n, how)
    BY <2>1, <2>2, FinishKeepsOthers DEF OthersKeep
  <2>3. CASE Enter(n, "saving") /\ UNCHANGED <<used, outcome>>
    BY <2>1, <2>3 DEF Enter, OthersKeep, Typed, TypeOK
  <2>4. CASE at' = [at EXCEPT ![n] = "publishing"] /\ UNCHANGED <<theSaving, outcome>>
    BY <2>1, <2>4 DEF OthersKeep, theSaving, Typed, TypeOK
  <2> QED BY <1>2, <2>2, <2>3, <2>4 DEF WorkEnds, EnterPublishing, PublishEnds
<1>3. CASE Deadline(n)
  <2>1. Enter(n, "closing") /\ UNCHANGED <<outcome, expired>>
        /\ (UNCHANGED used \/ used' = [used EXCEPT ![n] = @ + size[n]])
    BY <1>3 DEF Deadline, Counted
  <2> QED BY <1>3, <2>1, InterruptedStore DEF Deadline, OthersKeep, Enter, Typed, TypeOK
<1>4. CASE CleanupCutShort(n)
  BY <1>4, InterruptedStore, FinishKeepsOthers DEF CleanupCutShort, OthersKeep
<1>5. CASE Cut(n)
  BY <1>5, InterruptedStore, FinishKeepsOthers DEF Cut, OthersKeep
<1> QED BY <1>1, <1>2, <1>3, <1>4, <1>5 DEF Process

\* Attempt n's part of InOrder is about its own ids only.
LEMMA SameInOrder ==
  ASSUME Typed, NEW n \in Attempts, InOrder(n),
         UNCHANGED <<at[n], kind[n], step[n], outcome[n]>>, expired \subseteq expired',
         n \notin expired => \A r \in Rounds, k \in Kinds :
            /\ <<n, r, k>> \in rows' <=> <<n, r, k>> \in rows
            /\ <<n, r, k>> \in files => <<n, r, k>> \in files'
            /\ <<n, r, k>> \in mishap => <<n, r, k>> \in mishap',
         n \in expired => at[n] = "over"
  PROVE  InOrder(n)'
<1>1. Round(n)' = Round(n) /\ Round(n) \in Rounds /\ kind[n] \in Kinds /\ Saving(n)' = Saving(n)
  BY DEF Round, Rounds, Saving, Typed, TypeOK
<1>2. CASE n \in expired
  BY <1>1, <1>2 DEF InOrder, Saving
<1>3. CASE n \notin expired
  BY <1>1, <1>3 DEF InOrder, InHand, Backed, Rounds
<1> QED BY <1>2, <1>3

LEMMA OverInOrder ==
  ASSUME NEW n \in Attempts, at'[n] = "over", outcome'[n] # "published"
  PROVE  InOrder(n)'
  BY DEF InOrder, Saving

LEMMA SaveInOrder ==
  ASSUME Typed, NEW n \in Attempts, InOrder(n), Save(n)
  PROVE  InOrder(n)'
<1>0. /\ Saving(n) /\ Round(n) \in Rounds /\ kind[n] \in Kinds /\ InHand(n) = <<n, Round(n), kind[n]>>
      /\ Kinds \subseteq Int /\ outcome[n] # "published"
  BY DEF Save, Check, Put, SaveRaises, Add, AddRefused, AddUnheard, Undo, Round, Rounds, InHand, Kinds,
     Typed, TypeOK, InOrder, Saving
<1>1. CASE \E how \in {"failed", "deadline"} : Finish(n, how)
  BY <1>1, FinishKeepsOthers, OverInOrder
<1>2. CASE at'[n] = at[n]
  <2>0. Saving(n)' /\ Round(n)' = Round(n)
    BY <1>0, <1>2 DEF Saving, Round
  <2>1. ASSUME kind'[n] = kind[n], outcome' = outcome, UNCHANGED <<rows, mishap, expired>>,
               \/ step'[n] \in {"put", "undo"} /\ UNCHANGED files /\ step[n] # "undo"
               \/ step'[n] = "add" /\ files' = files \union {InHand(n)} /\ step[n] = "put"
        PROVE  InOrder(n)'
    <3>1. InHand(n)' = InHand(n)
      BY <2>0, <2>1 DEF InHand
    <3> QED BY <1>0, <1>2, <2>0, <2>1, <3>1 DEF InOrder, Saving, Backed
  <2>2. CASE Check(n) /\ ~(\E how \in {"failed", "deadline"} : Finish(n, how))
    BY <2>1, <2>2 DEF Check, GoesOn, AfterRound, theStore, Typed, TypeOK
  <2>3. CASE Put(n) \/ AddRefused(n)
    BY <2>1, <2>3 DEF Put, AddRefused, GoesOn, theStore, Typed, TypeOK
  <2>4. CASE Add(n) /\ ~(\E how \in {"failed", "deadline"} : Finish(n, how))
    <3>1. /\ step[n] = "add" /\ step'[n] = "check" /\ UNCHANGED <<files, mishap, outcome>>
          /\ rows' = rows \union {<<n, Round(n), kind[n]>>} /\ kind'[n] = kind[n] + 1
      BY <1>0, <1>2, <2>4 DEF Add, RowAdded, AfterRound, Enter, Saving, Typed, TypeOK
    <3>2. \A k \in Kinds : k < kind'[n] => Backed(n, Round(n), k)'
      <4> SUFFICES ASSUME NEW k \in Kinds, k < kind[n] + 1 PROVE Backed(n, Round(n), k)'
        BY <3>1
      <4>1. k < kind[n] \/ k = kind[n]
        BY <1>0
      <4> QED BY <1>0, <2>0, <3>1, <4>1 DEF InOrder, Backed
    <3>3. \A k \in Kinds : <<n, Round(n), k>> \in rows' => k < kind'[n]
      <4> SUFFICES ASSUME NEW k \in Kinds, <<n, Round(n), k>> \in rows' PROVE k < kind[n] + 1
        BY <3>1
      <4>1. CASE <<n, Round(n), k>> \in rows
        <5>1. step[n] # "undo"
          BY <3>1
        <5>2. k < kind[n]
          BY <1>0, <4>1, <5>1, Zenon DEF InOrder
        <5>3. k \in Int /\ kind[n] \in Int
          BY <1>0
        <5> QED BY <5>2, <5>3
      <4>2. CASE k = kind[n]
        BY <1>0, <4>2
      <4> QED BY <3>1, <4>1, <4>2
    <3>4. at[n] = "saving" => \A k \in Kinds : <<n, 2, k>> \notin rows'
      BY <3>1 DEF InOrder, Round
    <3> QED BY <1>0, <1>2, <2>0, <3>1, <3>2, <3>3, <3>4 DEF InOrder, Saving
  <2>5. CASE AddUnheard(n)
    <3>1. /\ step'[n] = "undo" /\ kind'[n] = kind[n] /\ UNCHANGED <<files, outcome>> /\ step[n] = "add"
          /\ rows' = rows \union {<<n, Round(n), kind[n]>>} /\ mishap' = mishap \union {<<n, Round(n), kind[n]>>}
      BY <1>0, <2>5 DEF AddUnheard, RowAdded, GoesOn, Typed, TypeOK
    <3>2. at[n] = "saving" => \A k \in Kinds : <<n, 2, k>> \notin rows'
      BY <3>1 DEF InOrder, Round
    <3> QED BY <1>0, <1>2, <2>0, <3>1, <3>2 DEF InOrder, Saving, Backed
  <2> QED BY <1>1, <2>2, <2>3, <2>4, <2>5 DEF Save, SaveRaises, Undo, SavingFails
<1>3. CASE at'[n] # at[n] /\ ~(\E how \in {"failed", "deadline"} : Finish(n, how))
  <2>1. Add(n)
    BY <1>3 DEF Save, Check, Put, SaveRaises, AddRefused, AddUnheard, Undo, SavingFails, AfterRound, GoesOn,
       Typed, TypeOK
  <2>2. /\ kind[n] = Report /\ at[n] = "saving" /\ at'[n] = "saved" /\ step[n] = "add" /\ UNCHANGED <<files, outcome>>
        /\ rows' = rows \union {<<n, 1, Report>>}
    BY <1>0, <1>3, <2>1 DEF Add, RowAdded, AfterRound, Enter, Round, Typed, TypeOK
  <2>3. \A k \in Kinds : Backed(n, 1, k)'
    <3> SUFFICES ASSUME NEW k \in Kinds PROVE Backed(n, 1, k)'
      OBVIOUS
    <3>1. k < kind[n] \/ k = kind[n]
      BY <2>2, ReportFollowsDiff DEF Kinds
    <3> QED BY <1>0, <2>2, <3>1 DEF InOrder, Backed, Round
  <2>4. \A k \in Kinds : <<n, 2, k>> \notin rows'
    BY <2>2 DEF InOrder
  <2> QED BY <1>0, <2>2, <2>3, <2>4 DEF InOrder, Saving
<1> QED BY <1>1, <1>2, <1>3

LEMMA ProcessInOrder ==
  ASSUME Typed, NEW n \in Attempts, InOrder(n), Process(n)
  PROVE  InOrder(n)'
<1>1. CASE Save(n)
  BY <1>1, SaveInOrder
<1>2. CASE WorkEnds(n)
  <2>1. CASE Finish(n, "failed")
    BY <2>1, FinishKeepsOthers, OverInOrder
  <2>2. CASE Enter(n, "saving") /\ UNCHANGED outcome
    <3>1. /\ at[n] = "working" /\ at'[n] = "saving" /\ kind'[n] = 1 /\ step'[n] = "check"
          /\ UNCHANGED <<rows, files, mishap, outcome>>
      BY <1>2, <2>2 DEF WorkEnds, Enter, theStore, Typed, TypeOK
    <3>2. \A k \in Kinds : ~(k < 1)
      BY DEF Kinds
    <3> QED BY <3>1, <3>2 DEF InOrder, Saving, Round, Rounds
  <2> QED BY <1>2, <2>1, <2>2 DEF WorkEnds
<1>3. CASE EnterPublishing(n)
  <2>1. CASE Finish(n, "failed")
    BY <2>1, FinishKeepsOthers, OverInOrder
  <2>2. CASE ~Finish(n, "failed")
    <3>1. at[n] = "saved" /\ at'[n] = "publishing" /\ UNCHANGED <<rows, files, mishap, outcome>>
      BY <1>3, <2>2 DEF EnterPublishing, theStore, Typed, TypeOK
    <3> QED BY <3>1 DEF InOrder, Saving, Backed
  <2> QED BY <2>1, <2>2
<1>4. CASE PublishEnds(n)
  <2>1. /\ at[n] = "publishing" /\ at'[n] = "over" /\ UNCHANGED <<rows, files>>
    BY <1>4, FinishKeepsOthers DEF PublishEnds, theStore
  <2> QED BY <2>1 DEF InOrder, Saving, Backed
<1>5. CASE Deadline(n)
  <2>1. /\ at[n] \in {"working", "saving", "saved", "publishing"} /\ at'[n] = "closing"
        /\ kind'[n] = 1 /\ step'[n] = "check" /\ UNCHANGED outcome
    BY <1>5 DEF Deadline, Enter, Typed, TypeOK
  <2>2. \A k \in Kinds : <<n, 2, k>> \notin rows'
    <3>1. \A k \in Kinds : <<n, 2, k>> \notin rows
      BY <2>1 DEF InOrder, Rounds
    <3>2. rows' \subseteq rows \union {InHand(n)} /\ (rows' # rows => Saving(n))
      BY <1>5, InterruptedStore DEF Deadline
    <3>3. Saving(n) => InHand(n) = <<n, 1, kind[n]>>
      BY <2>1 DEF Saving, InHand, Round
    <3> QED BY <3>1, <3>2, <3>3
  <2>3. \A k \in Kinds : ~(k < 1)
    BY DEF Kinds
  <2> QED BY <2>1, <2>2, <2>3 DEF InOrder, Saving, Round
<1>6. CASE CleanupCutShort(n) \/ Cut(n)
  BY <1>6, FinishKeepsOthers, OverInOrder DEF CleanupCutShort, Cut
<1> QED BY <1>1, <1>2, <1>3, <1>4, <1>5, <1>6 DEF Process

\* A file goes while it is undone, and a row comes after its file.
LEMMA HandStore ==
  ASSUME Typed, NEW n \in Attempts, Process(n)
  PROVE  /\ InHand(n) \in files \ files' => Saving(n) /\ step[n] = "undo" /\ rows' = rows
         /\ InHand(n) \in rows' \ rows => Saving(n) /\ step[n] = "add" /\ files' = files
<1>1. CASE Save(n)
  BY <1>1 DEF Save, Check, Put, SaveRaises, Add, AddRefused, AddUnheard, Undo, theStore
<1>2. CASE WorkEnds(n) \/ EnterPublishing(n) \/ PublishEnds(n)
  BY <1>2 DEF WorkEnds, EnterPublishing, PublishEnds, theStore
<1>3. CASE Deadline(n) \/ CleanupCutShort(n) \/ Cut(n)
  BY <1>3, InterruptedStore DEF Deadline, CleanupCutShort, Cut
<1> QED BY <1>1, <1>2, <1>3 DEF Process

LEMMA ProcessOrders ==
  ASSUME Typed, EInv, OIInv, NEW n \in Attempts, Process(n)
  PROVE  OIInv'
<1>0. OthersKeep(n) /\ InHand(n) \in Ids /\ InHand(n)[1] = n
  BY ProcessKeepsOthers, HandIsId DEF Typed
<1>1. ASSUME NEW m \in Attempts, m # n PROVE InOrder(m)'
  <2>1. \A r \in Rounds, k \in Kinds : <<m, r, k>> # InHand(n)
    BY <1>0, <1>1
  <2>2. m \in expired => at[m] = "over"
    BY DEF EInv, ExpiredAreOver
  <2>3. \A r \in Rounds, k \in Kinds :
            /\ <<m, r, k>> \in rows' <=> <<m, r, k>> \in rows
            /\ <<m, r, k>> \in files => <<m, r, k>> \in files'
            /\ <<m, r, k>> \in mishap => <<m, r, k>> \in mishap'
    BY <1>0, <2>1 DEF OthersKeep
  <2>4. UNCHANGED <<at[m], kind[m], step[m], outcome[m]>> /\ expired \subseteq expired' /\ InOrder(m)
    BY <1>0, <1>1 DEF OthersKeep, OIInv
  <2> QED BY <2>2, <2>3, <2>4, SameInOrder
<1>2. InOrder(n)'
  BY ProcessInOrder DEF OIInv
<1>3. ListedIsThere'
  <2> SUFFICES ASSUME NEW id \in rows', id[1] \notin expired PROVE id \in files' \/ id \in mishap'
    BY <1>0 DEF ListedIsThere, Expired, OthersKeep
  <2>1. id \in rows => id \in files \/ id \in mishap
    BY DEF OIInv, ListedIsThere, Expired
  <2>2. CASE id # InHand(n)
    BY <1>0, <2>1, <2>2 DEF OthersKeep
  <2>3. CASE id = InHand(n)
    <3>1. CASE id \in rows /\ id \in files \ files'
      <4>1. Saving(n) /\ step[n] = "undo"
        BY <2>3, <3>1, HandStore
      <4>2. kind[n] \in Kinds /\ ~(kind[n] < kind[n]) /\ InHand(n) = <<n, Round(n), kind[n]>>
        BY DEF Typed, TypeOK, Kinds, InHand
      <4>3. id \in mishap
        BY <2>3, <3>1, <4>1, <4>2 DEF OIInv, InOrder
      <4> QED BY <1>0, <4>3 DEF OthersKeep
    <3>2. CASE id \notin rows
      <4>1. Saving(n) /\ step[n] = "add" /\ files' = files
        BY <2>3, <3>2, HandStore
      <4> QED BY <2>3, <4>1 DEF OIInv, InOrder
    <3> QED BY <1>0, <2>1, <3>1, <3>2 DEF OthersKeep
  <2> QED BY <2>2, <2>3
<1> QED BY <1>1, <1>2, <1>3 DEF OIInv

\* What the janitors remove has expired.
LEMMA CleanTakesExpired ==
  ASSUME Typed, EInv, NEW j \in Janitors, Clean(j) \/ PassFails(j)
  PROVE  /\ UNCHANGED <<at, kind, step, size, used, outcome, expired>>
         /\ rows' \subseteq rows /\ files' \subseteq files
         /\ \A id \in Ids : id[1] \notin expired =>
              /\ id \in rows' <=> id \in rows
              /\ id \in files' <=> id \in files
              /\ id \in mishap' <=> id \in mishap
         /\ \A id \in mishap \ mishap' : id \notin rows'
<1>1. UNCHANGED <<at, kind, step, size, used, outcome, expired>>
  BY DEF Clean, PassFails, ListExpired, DeleteFile, DeleteRow, DeleteJobs, theSaving, theStore
<1>2. \A id \in janitor[j].todo : id[1] \in expired
  BY DEF EInv, FileWentFirst
<1>3. CASE ListExpired(j) \/ PassFails(j)
  BY <1>1, <1>3 DEF ListExpired, PassFails, theStore
<1>4. CASE DeleteFile(j)
  BY <1>1, <1>2, <1>4 DEF DeleteFile
<1>5. CASE DeleteRow(j)
  BY <1>1, <1>2, <1>5 DEF DeleteRow
<1>6. CASE DeleteJobs(j)
  <2>1. UNCHANGED <<files, mishap>>
    BY <1>6 DEF DeleteJobs
  <2>2. CASE due /\ rows' = {}
    BY <1>1, <2>1, <2>2 DEF EInv, CascadeIsEmpty
  <2>3. CASE UNCHANGED rows
    BY <1>1, <2>1, <2>3
  <2> QED BY <1>6, <2>2, <2>3 DEF DeleteJobs
<1> QED BY <1>3, <1>4, <1>5, <1>6 DEF Clean

LEMMA CleanOrders ==
  ASSUME Typed, EInv, OIInv, NEW j \in Janitors, Clean(j) \/ PassFails(j)
  PROVE  OIInv'
<1>0. /\ UNCHANGED <<at, kind, step, size, used, outcome, expired>>
      /\ rows' \subseteq rows /\ files' \subseteq files
      /\ \A id \in Ids : id[1] \notin expired =>
              /\ id \in rows' <=> id \in rows
              /\ id \in files' <=> id \in files
              /\ id \in mishap' <=> id \in mishap
      /\ \A id \in mishap \ mishap' : id \notin rows'
  BY CleanTakesExpired
<1>1. ASSUME NEW n \in Attempts PROVE InOrder(n)'
  <2>1. n \in expired => at[n] = "over"
    BY DEF EInv, ExpiredAreOver
  <2>2. \A r \in Rounds, k \in Kinds : <<n, r, k>> \in Ids /\ <<n, r, k>>[1] = n
    BY DEF Ids
  <2>3. InOrder(n)
    BY DEF OIInv
  <2> QED BY <1>0, <2>1, <2>2, <2>3, SameInOrder
<1>2. ListedIsThere'
  <2>1. rows \subseteq Ids
    BY DEF Typed, TypeOK
  <2> QED BY <1>0, <2>1 DEF OIInv, ListedIsThere, Expired
<1> QED BY <1>1, <1>2 DEF OIInv

LEMMA OthersOrder ==
  ASSUME Typed, EInv, OIInv,
         Claim \/ LoseLease \/ Retry \/ RetentionPasses \/ (\E n \in Attempts : Expire(n)) \/ UNCHANGED vars
  PROVE  OIInv'
<1>1. UNCHANGED <<kind, step, outcome, rows, files, mishap>> /\ expired \subseteq expired'
  BY DEF Claim, LoseLease, Retry, RetentionPasses, Expire, vars, theSaving, theStore
<1>2. ASSUME NEW n \in Attempts PROVE InOrder(n)'
  <2>1. CASE at'[n] = at[n]
    BY <1>1, <2>1, SameInOrder DEF EInv, ExpiredAreOver, OIInv
  <2>2. CASE at'[n] # at[n]
    <3>1. Claim /\ n = current + 1 /\ at'[n] = "working"
      BY <2>2, AttemptsArePositive DEF Claim, LoseLease, Retry, RetentionPasses, Expire, vars, Typed, TypeOK
    <3>2. at[n] = "waiting"
      BY <3>1 DEF EInv, ExpiredAreOver, Typed, TypeOK
    <3> QED BY <1>1, <3>1, <3>2 DEF OIInv, InOrder, Saving
  <2> QED BY <2>1, <2>2
<1>3. ListedIsThere'
  BY <1>1 DEF OIInv, ListedIsThere, Expired
<1> QED BY <1>2, <1>3 DEF OIInv

LEMMA OIInvInvariance == Spec => []OIInv
<1>1. Init => OIInv
  BY DEF Init, OIInv, InOrder, Saving, ListedIsThere, Expired
<1>2. Typed /\ EInv /\ OIInv /\ [Next]_vars => OIInv'
  BY ProcessOrders, CleanOrders, OthersOrder DEF Next
<1> QED BY <1>1, <1>2, TypedIsInductive, EInvInvariance, PTL DEF Spec

\* docs/adr/0012: publication is allowed only after every required Artifact is
\* stored.  What a published Attempt refers to has its row and its bytes until it
\* expires, whatever fails, is interrupted or is cleaned up beside it.
THEOREM PublishedHasEvidence == Spec => []PublishedIsBacked
<1>1. OIInv => PublishedIsBacked
  BY DEF OIInv, InOrder, Backed, PublishedIsBacked
<1> QED BY <1>1, OIInvInvariance, PTL

\* What the API lists can be downloaded, unless the answer to the very commit was
\* lost and the file deleted for it (artifacts/service.py, persist_bytes).
THEOREM ListedCanBeDownloaded == Spec => []ListedIsThere
  BY OIInvInvariance, PTL DEF OIInv

-----------------------------------------------------------------------------
(* What a deadline leaves *)

DiffSaved(n) == <<n, 1, Report - 1>> \in rows
Evidenced(n) == DiffSaved(n) \/ \A k \in Kinds : \E r \in Rounds : <<n, r, k>> \in rows

\* Until the diff of the first round is saved, the rows have at most a reserve for
\* each kind before it, and the second round another for each kind before the
\* one it is at.
Within(n) ==
  /\ at[n] \in {"waiting", "working"} => used[n] = 0
  /\ at[n] \in {"saved", "publishing"} => DiffSaved(n)
  /\ at[n] = "saving" /\ ~DiffSaved(n) =>
       /\ kind[n] < Report /\ used[n] =< (Report - 2) * Reserve
       /\ step[n] # "undo" => used[n] =< (kind[n] - 1) * Reserve
  /\ at[n] = "closing" /\ ~DiffSaved(n) /\ step[n] # "undo" =>
       used[n] =< (Report - 2) * Reserve + (kind[n] - 1) * Reserve
  /\ Saving(n) /\ step[n] \in {"put", "add"} /\ kind[n] < Report => size[n] =< Reserve
  /\ outcome[n] = "deadline" => at[n] = "over" /\ (n \in expired \/ Evidenced(n))

WIInv == \A n \in Attempts : Within(n)

LEMMA Products ==
  ASSUME NEW R \in Nat, NEW a \in Nat, NEW b \in Nat, a =< b
  PROVE  a * R \in Nat /\ a * R =< b * R /\ (a + 1) * R = a * R + R
<1>1. b - a \in Nat /\ (b - a) * R \in Nat /\ a * R \in Nat
  OBVIOUS
<1>2. b * R = a * R + (b - a) * R
  OBVIOUS
<1> QED BY <1>1, <1>2

\* The reserves of the kinds before k, and of k.
LEMMA Reserves ==
  ASSUME NEW k \in Kinds
  PROVE  /\ k \in Nat /\ k >= 1 /\ (k - 1) * Reserve \in Nat /\ k * Reserve \in Nat
         /\ k * Reserve = (k - 1) * Reserve + Reserve
         /\ k < Report => (k - 1) * Reserve =< (Report - 2) * Reserve
         /\ k < Report - 1 => k * Reserve =< (Report - 2) * Reserve
         /\ (Report - 2) * Reserve \in Nat
         /\ k < Report => (k - 1) * Reserve + Reserve =< (Report - 1) * Reserve
         /\ (k - 1) * Reserve =< (Report - 1) * Reserve
         /\ (2 * Report - 3) * Reserve = (Report - 2) * Reserve + (Report - 1) * Reserve
<1>1. k \in Nat /\ k >= 1 /\ k =< Report /\ k - 1 \in Nat /\ Report - 2 \in Nat /\ Report - 1 \in Nat /\ Report \in Nat
  BY ReportFollowsDiff DEF Kinds
<1>2. Reserve \in Nat
  BY ReserveIsNat
<1> DEFINE R == Reserve
<1> HIDE DEF R
<1>3. R \in Nat
  BY <1>2 DEF R
<1>4. (k - 1) * R \in Nat /\ k * R \in Nat /\ (Report - 2) * R \in Nat
  BY <1>1, <1>3, Products
<1>5. k * R = (k - 1) * R + R
  BY <1>1, <1>3, Products
<1>6. k < Report => (k - 1) * R =< (Report - 2) * R
  BY <1>1, <1>3, Products
<1>7. k < Report - 1 => k * R =< (Report - 2) * R
  BY <1>1, <1>3, Products
<1>8. k < Report => k * R =< (Report - 1) * R
  BY <1>1, <1>3, Products
<1>9. (k - 1) * R =< (Report - 1) * R
  BY <1>1, <1>3, Products
<1>10. (2 * Report - 3) * R = (Report - 2) * R + (Report - 1) * R
  BY <1>1, <1>3
<1> QED BY <1>1, <1>4, <1>5, <1>6, <1>7, <1>8, <1>9, <1>10 DEF R

LEMMA SameWithin ==
  ASSUME Typed, NEW n \in Attempts, Within(n),
         UNCHANGED <<at[n], kind[n], step[n], size[n], used[n], outcome[n]>>, expired \subseteq expired',
         n \notin expired => \A r \in Rounds, k \in Kinds : <<n, r, k>> \in rows' <=> <<n, r, k>> \in rows,
         n \in expired => at[n] = "over"
  PROVE  Within(n)'
<1>1. Saving(n)' = Saving(n) /\ Report - 1 \in Kinds /\ 1 \in Rounds
  BY ReportFollowsDiff DEF Saving, Rounds, Kinds
<1>2. CASE n \in expired
  BY <1>1, <1>2 DEF Within, Saving
<1>3. CASE n \notin expired
  <2>1. (DiffSaved(n)' <=> DiffSaved(n)) /\ (Evidenced(n)' <=> Evidenced(n))
    BY <1>1, <1>3 DEF DiffSaved, Evidenced
  <2> QED BY <1>1, <2>1 DEF Within
<1> QED BY <1>2, <1>3

LEMMA OverWithin ==
  ASSUME NEW n \in Attempts, at'[n] = "over", outcome'[n] # "deadline" \/ Evidenced(n)'
  PROVE  Within(n)'
  BY DEF Within, Saving

\* With room for both rounds, only the second round of an Attempt that saved its
\* diff in the first can come to a limit.
LEMMA ClosingFits ==
  ASSUME TwoRoundsFit, Typed, NEW n \in Attempts, Within(n), at[n] = "closing", step[n] = "check",
         NEW s \in Sizes(kind[n]), ~Fits(n, s)
  PROVE  DiffSaved(n)
<1> SUFFICES ASSUME ~DiffSaved(n) PROVE FALSE
  OBVIOUS
<1> DEFINE A == (Report - 2) * Reserve
           B == (kind[n] - 1) * Reserve
           C == (Report - 1) * Reserve
<1>1. kind[n] \in Kinds /\ used[n] \in Nat /\ Reserve \in Nat /\ s \in Nat /\ MaxAttempt \in Nat
  BY ReserveIsNat, LimitsAreOrdered DEF Typed, TypeOK
<1>2. used[n] =< A + B
  BY DEF Within
<1>3. /\ A \in Nat /\ B \in Nat /\ C \in Nat /\ B =< C /\ (kind[n] < Report => B + Reserve =< C)
      /\ (2 * Report - 3) * Reserve = A + C /\ kind[n] \in Nat
  BY <1>1, Reserves, ReportFollowsDiff, Products
<1>4. Reserve =< MaxArtifact
  BY ReserveIsNat, LimitsAreOrdered DEF Reserve, Min2
<1>5. CASE kind[n] = Report
  <2>1. s \in ReportSizes
    BY <1>5 DEF Sizes
  <2>2. s =< MaxArtifact /\ A + C + s =< MaxAttempt
    BY <1>3, <2>1 DEF TwoRoundsFit
  <2>3. used[n] + s =< MaxAttempt
    BY <1>1, <1>2, <1>3, <2>2
  <2> QED BY <2>2, <2>3 DEF Fits
<1>6. CASE kind[n] # Report
  <2>1. s \in {0, Reserve} /\ kind[n] < Report
    BY <1>1, <1>6, ReportFollowsDiff DEF Sizes, Kinds
  <2>2. A + C =< MaxAttempt
    <3>1. A + C + 0 =< MaxAttempt
      BY <1>3 DEF TwoRoundsFit
    <3> QED BY <1>3, <3>1
  <2>3. used[n] + s =< MaxAttempt
    BY <1>1, <1>2, <1>3, <2>1, <2>2
  <2> QED BY <1>4, <2>1, <2>3, LimitsAreOrdered DEF Fits
<1> QED BY <1>5, <1>6

LEMMA SaveWithin ==
  ASSUME TwoRoundsFit, Typed, NEW n \in Attempts, InOrder(n), Within(n), Save(n)
  PROVE  Within(n)'
<1>0. /\ Saving(n) /\ kind[n] \in Kinds /\ used[n] \in Nat /\ size[n] \in Nat /\ outcome[n] # "deadline"
      /\ Reserve \in Nat /\ rows \subseteq rows' /\ Report \in Nat /\ Report > 1
  BY ReserveIsNat, SaveKeepsOthers, ReportFollowsDiff, LimitsAreOrdered
     DEF Save, Check, Put, SaveRaises, Add, AddRefused, AddUnheard, Undo, Typed, TypeOK, Within, Saving, OthersKeep
<1>1. at[n] \in {"saving", "closing"}
  BY <1>0 DEF Saving
<1>2. DiffSaved(n) => DiffSaved(n)'
  BY <1>0 DEF DiffSaved
<1> DEFINE A == (Report - 2) * Reserve
           B == (kind[n] - 1) * Reserve
<1>3. /\ A \in Nat /\ B \in Nat /\ kind[n] * Reserve = B + Reserve /\ kind[n] * Reserve \in Nat /\ kind[n] \in Nat
      /\ (kind[n] < Report => B =< A) /\ (kind[n] < Report - 1 => kind[n] * Reserve =< A)
  BY <1>0, Reserves
<1>4. CASE Finish(n, "failed")
  BY <1>4, FinishKeepsOthers, OverWithin
<1>5. CASE Finish(n, "deadline")
  <2>1. at[n] = "closing" => Evidenced(n)'
    <3>1. CASE Check(n)
      <4>1. PICK s \in Sizes(kind[n]) : \/ at'[n] = at[n]
                                        \/ ~Fits(n, s) /\ Finish(n, AfterRound(n))
        BY <3>1 DEF Check, GoesOn
      <4>2. at'[n] = "over"
        BY <1>5, FinishKeepsOthers
      <4>3. at[n] = "closing" => DiffSaved(n)
        BY <1>1, <3>1, <4>1, <4>2, ClosingFits DEF Check
      <4> QED BY <1>2, <4>3 DEF Evidenced
    <3>2. CASE Add(n)
      <4>1. at'[n] = "over" /\ step[n] = "add" /\ rows' = rows \union {InHand(n)}
        BY <1>5, <3>2, FinishKeepsOthers DEF Add, RowAdded
      <4>2. at[n] = "closing" => kind[n] = Report
        BY <3>2, <4>1 DEF Add, Enter
      <4>3. at[n] = "closing" => \A k \in Kinds : <<n, 2, k>> \in rows'
        <5> SUFFICES ASSUME at[n] = "closing", NEW k \in Kinds PROVE <<n, 2, k>> \in rows'
          OBVIOUS
        <5>1. k < kind[n] \/ k = kind[n]
          BY <4>2, ReportFollowsDiff DEF Kinds
        <5>2. Round(n) = 2 /\ InHand(n) = <<n, 2, kind[n]>>
          BY DEF Round, InHand
        <5>3. k < kind[n] => Backed(n, 2, k)
          BY <1>0, <5>2 DEF InOrder
        <5> QED BY <4>1, <5>1, <5>2, <5>3 DEF Backed
      <4> QED BY <4>3 DEF Evidenced, Rounds
    <3>3. CASE ~Check(n) /\ ~Add(n)
      <4>1. outcome'[n] # "deadline"
        BY <1>0, <3>3, FinishKeepsOthers
           DEF Save, Put, SaveRaises, AddRefused, AddUnheard, Undo, SavingFails, GoesOn
      <4> QED BY <1>5, <4>1, FinishKeepsOthers
    <3> QED BY <3>1, <3>2, <3>3
  <2>2. at[n] = "saving" => outcome'[n] # "deadline"
    <3>1. at[n] = "saving" => AfterRound(n) = "failed"
      BY DEF AfterRound
    <3>2. outcome[n] # "deadline"
      BY <1>0
    <3> QED BY <3>1, <3>2, FinishKeepsOthers
        DEF Save, Check, Put, SaveRaises, Add, AddRefused, AddUnheard, Undo, SavingFails, GoesOn
  <2> QED BY <1>1, <1>5, <2>1, <2>2, FinishKeepsOthers, OverWithin
<1>6. CASE Check(n) /\ ~Finish(n, "failed") /\ ~Finish(n, "deadline")
  <2>1. PICK s \in Sizes(kind[n]) : /\ size' = [size EXCEPT ![n] = s] /\ GoesOn(n, "put") /\ UNCHANGED used
    BY <1>6 DEF Check, AfterRound
  <2>2. /\ step'[n] = "put" /\ size'[n] = s
        /\ UNCHANGED <<at[n], kind[n], used[n], outcome[n], rows>> /\ step[n] = "check"
    BY <1>6, <2>1 DEF Check, GoesOn, theStore, Typed, TypeOK
  <2>3. kind[n] < Report => s =< Reserve
    BY <1>0 DEF Sizes
  <2>4. Saving(n)' /\ (DiffSaved(n)' <=> DiffSaved(n))
    BY <1>0, <2>2 DEF Saving, DiffSaved
  <2> QED BY <1>0, <1>1, <2>2, <2>3, <2>4 DEF Within
<1>7. CASE Put(n) \/ AddRefused(n)
  <2>1. /\ step'[n] \in {"add", "undo"} /\ step[n] \in {"put", "add"}
        /\ UNCHANGED <<at[n], kind[n], used[n], size[n], outcome[n], rows>>
    BY <1>7 DEF Put, AddRefused, GoesOn, theStore, Typed, TypeOK
  <2>2. Saving(n)' /\ (DiffSaved(n)' <=> DiffSaved(n))
    BY <1>0, <2>1 DEF Saving, DiffSaved
  <2> QED BY <1>0, <1>1, <2>1, <2>2 DEF Within
<1>8. CASE (Add(n) \/ AddUnheard(n)) /\ ~Finish(n, "failed") /\ ~Finish(n, "deadline")
  <2>1. /\ step[n] = "add" /\ rows' = rows \union {InHand(n)} /\ used'[n] = used[n] + size[n]
        /\ UNCHANGED outcome
    BY <1>8 DEF Add, AddUnheard, RowAdded, Counted, AfterRound, GoesOn, Typed, TypeOK
  <2>2. at[n] = "saving" /\ ~DiffSaved(n)' => kind[n] < Report - 1
    <3> SUFFICES ASSUME at[n] = "saving", ~DiffSaved(n)' PROVE kind[n] < Report - 1
      OBVIOUS
    <3>1. InHand(n) = <<n, 1, kind[n]>>
      BY DEF InHand, Round
    <3>2. kind[n] # Report - 1
      BY <2>1, <3>1 DEF DiffSaved
    <3>3. kind[n] < Report
      BY <1>2 DEF Within
    <3>4. kind[n] \in Nat /\ Report \in Nat
      BY <1>0, <1>3
    <3> HIDE DEF A, B
    <3> QED BY <3>2, <3>3, <3>4
  <2>3. at[n] = "saving" /\ ~DiffSaved(n)' => used'[n] =< B + Reserve /\ B + Reserve =< A
    <3>1. at[n] = "saving" /\ ~DiffSaved(n)' => used[n] =< B /\ size[n] =< Reserve
      BY <1>0, <1>2, <1>3, <2>1, <2>2 DEF Within
    <3> QED BY <1>0, <1>3, <2>1, <2>2, <3>1
  <2>4. CASE AddUnheard(n)
    <3>1. /\ step'[n] = "undo" /\ UNCHANGED <<at[n], kind[n], size[n]>>
      BY <2>4 DEF AddUnheard, GoesOn, Typed, TypeOK
    <3>2. used'[n] \in Nat
      BY <1>0, <2>1
    <3>3. at[n] = "saving" /\ ~DiffSaved(n)' => kind[n] < Report /\ used'[n] =< A
      BY <1>0, <1>3, <2>2, <2>3, <3>2
    <3> QED BY <1>0, <1>1, <2>1, <3>1, <3>3 DEF Within, Saving
  <2>5. CASE Add(n) /\ at'[n] = "saved"
    <3>1. kind[n] = Report /\ at[n] = "saving"
      BY <1>1, <1>8, <2>5 DEF Add, AfterRound
    <3>2. DiffSaved(n)
      BY <1>0, <3>1 DEF Within
    <3> QED BY <1>0, <1>2, <2>1, <2>5, <3>2 DEF Within, Saving
  <2>6. CASE Add(n) /\ at'[n] # "saved"
    <3>1. /\ kind[n] # Report /\ kind'[n] = kind[n] + 1 /\ step'[n] = "check" /\ UNCHANGED at[n]
      BY <1>8, <2>6 DEF Add, AfterRound, Enter, Typed, TypeOK
    <3>2. (kind'[n] - 1) * Reserve = B + Reserve
      <4>1. kind'[n] - 1 = kind[n]
        BY <1>3, <3>1
      <4> QED BY <1>3, <4>1
    <3>3. at[n] = "saving" /\ ~DiffSaved(n)' =>
            kind'[n] < Report /\ used'[n] =< A /\ used'[n] =< (kind'[n] - 1) * Reserve
      <4>1. at[n] = "saving" /\ ~DiffSaved(n)' => kind'[n] < Report
        BY <1>0, <1>3, <2>2, <3>1
      <4> QED BY <1>0, <1>3, <2>1, <2>3, <3>2, <4>1
    <3>4. at[n] = "closing" /\ ~DiffSaved(n)' => used'[n] =< A + (kind'[n] - 1) * Reserve
      <4>1. kind[n] < Report
        BY <1>0, <3>1 DEF Kinds
      <4>2. at[n] = "closing" /\ ~DiffSaved(n)' => used[n] =< A + B /\ size[n] =< Reserve
        BY <1>0, <1>2, <2>1, <4>1 DEF Within
      <4> QED BY <1>0, <1>3, <2>1, <3>2, <4>2
    <3> QED BY <1>0, <1>1, <2>1, <3>1, <3>3, <3>4 DEF Within, Saving
  <2> QED BY <1>8, <2>4, <2>5, <2>6
<1>9. CASE ~Check(n) /\ ~Put(n) /\ ~AddRefused(n) /\ ~Add(n) /\ ~AddUnheard(n)
  BY <1>4, <1>9 DEF Save, SaveRaises, Undo, SavingFails
<1> QED BY <1>4, <1>5, <1>6, <1>7, <1>8, <1>9

LEMMA ProcessWithin ==
  ASSUME TwoRoundsFit, Typed, NEW n \in Attempts, InOrder(n), Within(n), Process(n)
  PROVE  Within(n)'
<1>0. /\ rows \subseteq rows' /\ used[n] \in Nat /\ size[n] \in Nat /\ kind[n] \in Kinds /\ Reserve \in Nat
      /\ outcome[n] = "deadline" => at[n] = "over"
  BY ReserveIsNat, ProcessKeepsOthers, LimitsAreOrdered DEF Typed, TypeOK, OthersKeep, Within
<1>1. CASE Save(n)
  BY <1>1, SaveWithin
<1>2. CASE WorkEnds(n)
  <2>1. CASE Finish(n, "failed")
    BY <2>1, FinishKeepsOthers, OverWithin
  <2>2. CASE Enter(n, "saving") /\ UNCHANGED <<used, outcome>>
    <3>1. /\ at[n] = "working" /\ at'[n] = "saving" /\ kind'[n] = 1 /\ step'[n] = "check" /\ used'[n] = 0
          /\ UNCHANGED outcome
      BY <1>2, <2>2 DEF WorkEnds, Enter, Within, Typed, TypeOK
    <3>2. 1 \in Kinds /\ 1 < Report /\ (1 - 1) * Reserve \in Nat /\ (Report - 2) * Reserve \in Nat
      BY Reserves, ReportFollowsDiff DEF Kinds
    <3> QED BY <1>0, <3>1, <3>2 DEF Within, Saving
  <2> QED BY <1>2, <2>1, <2>2 DEF WorkEnds
<1>3. CASE EnterPublishing(n)
  <2>1. CASE Finish(n, "failed")
    BY <2>1, FinishKeepsOthers, OverWithin
  <2>2. CASE ~Finish(n, "failed")
    <3>1. at[n] = "saved" /\ at'[n] = "publishing" /\ UNCHANGED <<rows, outcome>>
      BY <1>3, <2>2 DEF EnterPublishing, theStore, Typed, TypeOK
    <3> QED BY <1>0, <3>1 DEF Within, Saving, DiffSaved
  <2> QED BY <2>1, <2>2
<1>4. CASE PublishEnds(n) \/ CleanupCutShort(n) \/ Cut(n)
  BY <1>4, FinishKeepsOthers, OverWithin DEF PublishEnds, CleanupCutShort, Cut
<1>5. CASE Deadline(n)
  <2>1. /\ at[n] \in {"working", "saving", "saved", "publishing"} /\ at'[n] = "closing"
        /\ kind'[n] = 1 /\ step'[n] = "check" /\ UNCHANGED outcome
    BY <1>5 DEF Deadline, Enter, Typed, TypeOK
  <2>2. (Report - 2) * Reserve \in Nat /\ (1 - 1) * Reserve = 0 /\ 1 \in Kinds
    BY <1>0, Reserves, ReportFollowsDiff DEF Kinds
  <2>3. ~DiffSaved(n)' => used'[n] =< (Report - 2) * Reserve
    <3>1. ~DiffSaved(n)' => ~DiffSaved(n)
      BY <1>0 DEF DiffSaved
    <3>2. CASE rows' = rows
      <4>1. used' = used
        BY <1>5, <3>2 DEF Deadline
      <4> QED BY <1>0, <2>1, <2>2, <3>1, <4>1 DEF Within
    <3>3. CASE rows' # rows
      <4>1. /\ Saving(n) /\ step[n] = "add" /\ used'[n] = used[n] + size[n]
        BY <1>5, <3>3, InterruptedStore DEF Deadline, Counted, Typed, TypeOK
      <4>2. at[n] = "saving" /\ rows' = rows \union {<<n, 1, kind[n]>>}
        BY <1>5, <2>1, <3>3, <4>1, InterruptedStore DEF Deadline, Saving, InHand, Round
      <4>3. ~DiffSaved(n)' => kind[n] < Report - 1
        <5>1. ~DiffSaved(n)' => kind[n] # Report - 1 /\ kind[n] < Report
          BY <3>1, <4>2 DEF DiffSaved, Within
        <5> QED BY <1>0, <5>1, ReportFollowsDiff DEF Kinds
      <4>4. ~DiffSaved(n)' => used[n] =< (kind[n] - 1) * Reserve /\ size[n] =< Reserve
        <5>1. kind[n] < Report - 1 => kind[n] < Report
          BY <1>0, ReportFollowsDiff DEF Kinds
        <5> QED BY <3>1, <4>1, <4>2, <4>3, <5>1 DEF Within
      <4>5. /\ (kind[n] - 1) * Reserve \in Nat /\ kind[n] * Reserve = (kind[n] - 1) * Reserve + Reserve
            /\ kind[n] < Report - 1 => kind[n] * Reserve =< (Report - 2) * Reserve
        BY <1>0, Reserves
      <4> QED BY <1>0, <2>2, <4>1, <4>3, <4>4, <4>5
    <3> QED BY <3>2, <3>3
  <2>4. ~DiffSaved(n)' => used'[n] =< (Report - 2) * Reserve + (1 - 1) * Reserve
    BY <2>2, <2>3
  <2> QED BY <1>0, <2>1, <2>4 DEF Within, Saving
<1> QED BY <1>1, <1>2, <1>3, <1>4, <1>5 DEF Process

LEMMA NextWithin ==
  ASSUME TwoRoundsFit, Typed, EInv, OIInv, WIInv, [Next]_vars
  PROVE  WIInv'
<1>0. ASSUME NEW n \in Attempts PROVE (n \in expired => at[n] = "over") /\ Within(n) /\ InOrder(n)
  BY DEF EInv, ExpiredAreOver, WIInv, OIInv
<1>1. ASSUME NEW n \in Attempts, Process(n) PROVE WIInv'
  <2>1. OthersKeep(n) /\ InHand(n)[1] = n
    BY <1>1, ProcessKeepsOthers, HandIsId DEF Typed
  <2>2. ASSUME NEW m \in Attempts, m # n PROVE Within(m)'
    <3>1. \A r \in Rounds, k \in Kinds : <<m, r, k>> # InHand(n)
      BY <2>1, <2>2
    <3>2. \A r \in Rounds, k \in Kinds : <<m, r, k>> \in rows' <=> <<m, r, k>> \in rows
      BY <2>1, <3>1 DEF OthersKeep
    <3>3. UNCHANGED <<at[m], kind[m], step[m], size[m], used[m], outcome[m]>> /\ expired \subseteq expired'
      BY <2>1, <2>2 DEF OthersKeep
    <3> QED BY <1>0, <3>2, <3>3, SameWithin
  <2>3. Within(n)'
    BY <1>0, <1>1, ProcessWithin
  <2> QED BY <2>2, <2>3 DEF WIInv
<1>2. ASSUME NEW j \in Janitors, Clean(j) \/ PassFails(j) PROVE WIInv'
  <2>1. /\ UNCHANGED <<at, kind, step, size, used, outcome, expired>>
        /\ \A id \in Ids : id[1] \notin expired => (id \in rows' <=> id \in rows)
    BY <1>2, CleanTakesExpired
  <2>2. ASSUME NEW n \in Attempts PROVE Within(n)'
    <3>1. \A r \in Rounds, k \in Kinds : <<n, r, k>> \in Ids /\ <<n, r, k>>[1] = n
      BY DEF Ids
    <3> QED BY <1>0, <2>1, <3>1, SameWithin
  <2> QED BY <2>2 DEF WIInv
<1>3. CASE Claim \/ LoseLease \/ Retry \/ RetentionPasses \/ (\E n \in Attempts : Expire(n)) \/ UNCHANGED vars
  <2>1. UNCHANGED <<kind, step, size, used, outcome, rows>> /\ expired \subseteq expired'
    BY <1>3 DEF Claim, LoseLease, Retry, RetentionPasses, Expire, vars, theSaving, theStore
  <2>2. ASSUME NEW n \in Attempts PROVE Within(n)'
    <3>1. CASE at'[n] = at[n]
      BY <1>0, <2>1, <3>1, SameWithin
    <3>2. CASE at'[n] # at[n]
      <4>1. Claim /\ n = current + 1 /\ at'[n] = "working"
        BY <1>3, <3>2, AttemptsArePositive
           DEF Claim, LoseLease, Retry, RetentionPasses, Expire, vars, Typed, TypeOK
      <4>2. at[n] = "waiting"
        BY <4>1 DEF EInv, ExpiredAreOver, Typed, TypeOK
      <4> QED BY <1>0, <2>1, <4>1, <4>2 DEF Within, Saving
    <3> QED BY <3>1, <3>2
  <2> QED BY <2>2 DEF WIInv
<1> QED BY <1>1, <1>2, <1>3 DEF Next

\* A deadline leaves all four kinds of diagnostic Artifact when nothing fails in
\* the time it has and the limits have room for two rounds, unless it came between
\* the diff and the report of the first one (processing/processor.py:846).
THEOREM DeadlineEvidence == ASSUME TwoRoundsFit PROVE Spec => []DeadlineLeavesEvidence
<1>1. Init => WIInv
  BY DEF Init, WIInv, Within, Saving
<1>2. Typed /\ EInv /\ OIInv /\ WIInv /\ [Next]_vars => WIInv'
  BY NextWithin
<1>3. WIInv => DeadlineLeavesEvidence
  BY DEF WIInv, Within, Evidenced, DiffSaved, DeadlineLeavesEvidence
<1> QED BY <1>1, <1>2, <1>3, TypedIsInductive, EInvInvariance, OIInvInvariance, PTL DEF Spec

-----------------------------------------------------------------------------
(* The Docker environment *)

\* The calls that wait for a thread.
Threaded == {"start", "import", "helper", "restart", "export", "lateExport"}

\* Who may still add to what is there: a thread that is awaited, one that is not,
\* or the creation of the command's container.
Adding ==
  /\ thread # <<>> => doing \in Threaded
  /\ stray # <<>> => abandoned \/ (doing = "done" /\ envOutcome = "deadline")
  /\ command = "creating" => doing = "command" \/ abandoned

\* An environment that the monitor leaves alone is closed by the Attempt's end,
\* which gives it its outcome.
Closing ==
  /\ envState = "CLOSED" => doing = "done" \/ monitorClose # "none"
  /\ envOutcome # "none" <=> doing = "done"

\* What the last step of the cleanup has found is still true when the Attempt
\* learns of it, and from then on.
Verified ==
  ~abandoned /\ monitorClose = "none" =>
    /\ cleaner = "over" /\ ~cleanErrors /\ doing = "close" => Leftovers = {}
    /\ envOutcome = "closed" => Leftovers = {}

Flags == abandoned \in BOOLEAN /\ cleanErrors \in BOOLEAN /\ late \in BOOLEAN

EnvironmentIInv == Adding /\ Closing /\ Verified /\ Flags

\* The sweep of a kind, and the removal of a command, add nothing.
LEMMA SweptShrinks ==
  ASSUME NEW what, Swept(what)
  PROVE  there' \subseteq there /\ command' \in {command, "none"}
  BY DEF Swept

\* Nothing is added by a step after the call is over.
LEMMA OverStaysClean ==
  ASSUME EnvironmentIInv, there' \subseteq there,
         UNCHANGED <<doing, envOutcome, envState, cleaner, cleanErrors, abandoned, monitorClose>>
  PROVE  Closing' /\ Verified'
  BY DEF EnvironmentIInv, Closing, Verified, Leftovers

LEMMA EnvironmentStepKeeps ==
  ASSUME EnvironmentIInv, EnvironmentStep
  PROVE  EnvironmentIInv'
<1> USE DEF Threaded
<1>0. Adding /\ Closing /\ Verified /\ Flags
  BY DEF EnvironmentIInv
<1>1. CASE Start \/ ImportWorkspace \/ HelperRequest \/ ExportFinal
  <2>1. /\ doing \in {"begin", "started", "idle"} /\ doing' \in Threaded
        /\ UNCHANGED <<envOutcome, stray, commandVars, cleanVars>> /\ envState' \in {envState, "STARTING"}
    BY <1>1 DEF Start, ImportWorkspace, HelperRequest, ExportFinal, Call, Ready
  <2>2. Adding'
    BY <1>0, <2>1 DEF Adding, commandVars, cleanVars
  <2>3. Closing' /\ Verified' /\ Flags'
    BY <1>0, <2>1 DEF Closing, Verified, Flags, commandVars, cleanVars
  <2> QED BY <2>2, <2>3 DEF EnvironmentIInv
<1>2. CASE AgentEnds \/ Returns \/ Refused
  <2>1. /\ doing \in {"started", "idle"} \cup Threaded /\ doing' \in {"started", "idle", "failing", "closing"}
        /\ thread' = <<>> /\ UNCHANGED <<envOutcome, stray, commandVars, cleanVars>>
        /\ envState' \in {envState, "READY", "BROKEN"}
    BY <1>0, <1>2 DEF AgentEnds, Returns, Refused, Goes, Awaits, Adding
  <2>2. Adding'
    BY <1>0, <2>1 DEF Adding, commandVars, cleanVars
  <2>3. Closing' /\ Verified' /\ Flags'
    BY <1>0, <2>1 DEF Closing, Verified, Flags, commandVars, cleanVars
  <2> QED BY <2>2, <2>3 DEF EnvironmentIInv
<1>3. CASE StartFails
  <2>1. /\ doing = "start" /\ thread = <<>> /\ doing' = "cleaning" /\ cleaner' = "containers"
        /\ cleanErrors' = FALSE /\ envState' = "BROKEN"
        /\ UNCHANGED <<thread, envOutcome, stray, commandVars, abandoned, monitorClose, late>>
    BY <1>3 DEF StartFails, Awaits
  <2>2. Adding'
    BY <1>0, <2>1 DEF Adding, commandVars
  <2>3. Closing' /\ Verified' /\ Flags'
    BY <1>0, <2>1 DEF Closing, Verified, Flags, commandVars
  <2> QED BY <2>2, <2>3 DEF EnvironmentIInv
<1>4. CASE HelperReturns \/ RestartReturns \/ Failing
  <2>1. /\ doing \in Threaded \cup {"failing"} /\ doing' \in Threaded \cup {"idle", "failing", "closing"}
        /\ UNCHANGED <<envOutcome, stray, commandVars, cleanVars>> /\ envState' \in {envState, "BROKEN"}
        /\ doing' \in Threaded \/ thread' = <<>>
    BY <1>0, <1>4 DEF HelperReturns, RestartReturns, Failing, Goes, Call, Awaits, Adding
  <2>2. Adding'
    BY <1>0, <2>1 DEF Adding, commandVars, cleanVars
  <2>3. Closing' /\ Verified' /\ Flags'
    BY <1>0, <2>1 DEF Closing, Verified, Flags, commandVars, cleanVars
  <2> QED BY <2>2, <2>3 DEF EnvironmentIInv
<1>5. CASE RunCommand
  <2>1. /\ doing = "idle" /\ doing' = "command"
        /\ UNCHANGED <<envState, envOutcome, thread, stray, cleanVars>>
    BY <1>5 DEF RunCommand, Ready
  <2>2. Adding'
    BY <1>0, <2>1 DEF Adding, cleanVars
  <2>3. Closing' /\ Verified' /\ Flags'
    BY <1>0, <2>1 DEF Closing, Verified, Flags, cleanVars
  <2> QED BY <2>2, <2>3 DEF EnvironmentIInv
<1>6. CASE CommandEnds \/ CommandFails
  <2>1. /\ UNCHANGED <<envOutcome, thread, stray, cleanVars>> /\ envState' \in {envState, "BROKEN"}
        /\ doing' = doing \/ (doing = "command" /\ doing' \in {"idle", "failing"})
    BY <1>6 DEF CommandEnds, CommandFails, Terminated
  <2>2. there' \subseteq there /\ command' # "creating"
    BY <1>6 DEF CommandEnds, CommandFails, Terminated
  <2>3. Adding'
    BY <1>0, <2>1, <2>2 DEF Adding, cleanVars
  <2>4. Closing' /\ Verified' /\ Flags'
    BY <1>0, <2>1, <2>2 DEF Closing, Verified, Flags, cleanVars, Leftovers
  <2> QED BY <2>3, <2>4 DEF EnvironmentIInv
<1>7. CASE BeginClose
  <2>1. /\ doing = "closing" /\ UNCHANGED <<thread, stray, command, abandoned, monitorClose, late>>
        /\ \/ envState = "CLOSED" /\ End("closed") /\ UNCHANGED <<envState, cleaner, cleanErrors>>
           \/ /\ doing' = "close" /\ envState' = "CLOSING" /\ cleaner' = "containers" /\ cleanErrors' = FALSE
              /\ UNCHANGED <<envOutcome, there>>
    BY <1>7 DEF BeginClose, commandVars
  <2>2. thread' = <<>> /\ (envOutcome' # "none" <=> doing' = "done")
    BY <1>0, <2>1 DEF End, Adding, Closing
  <2>3. Adding'
    BY <1>0, <2>1, <2>2 DEF Adding
  <2>4. Closing' /\ Verified' /\ Flags'
    BY <1>0, <2>1, <2>2 DEF Closing, Verified, Flags, End
  <2> QED BY <2>3, <2>4 DEF EnvironmentIInv
<1> QED BY <1>1, <1>2, <1>3, <1>4, <1>5, <1>6, <1>7 DEF EnvironmentStep

LEMMA InterruptionKeeps ==
  ASSUME EnvironmentIInv, Interruption
  PROVE  EnvironmentIInv'
<1> USE DEF Threaded
<1>0. Adding /\ Closing /\ Verified /\ Flags
  BY DEF EnvironmentIInv
<1>1. CASE LeaseLost
  BY <1>0, <1>1, OverStaysClean
     DEF LeaseLost, attemptVars, commandVars, dockerVars, cleanVars, EnvironmentIInv, Adding, Flags
<1>2. CASE DeadlineHits \/ WorkerCancels \/ RequesterCancels
  <2>1. /\ doing \in {"start", "started", "import", "idle", "helper", "restart", "export", "command"}
        /\ doing' \in {"failing", "closing"} /\ late' \in BOOLEAN
        /\ stray' = stray \o thread /\ thread' = <<>>
        /\ abandoned' = (abandoned \/ thread # <<>> \/ command = "creating")
        /\ UNCHANGED <<envOutcome, cleaner, cleanErrors, monitorClose>>
        /\ command' \in {command, "none"} /\ envState' \in {envState, "BROKEN"}
    BY <1>2 DEF DeadlineHits, WorkerCancels, RequesterCancels, Interrupt, Terminated
  <2>2. stray' # <<>> => abandoned'
    <3>1. stray = <<>> /\ thread = <<>> => stray' = <<>>
      BY <2>1
    <3> QED BY <1>0, <2>1, <3>1 DEF Adding
  <2>3. Adding'
    BY <1>0, <2>1, <2>2 DEF Adding
  <2>4. abandoned' \in BOOLEAN
    BY <2>1
  <2>5. Closing' /\ Verified' /\ Flags'
    BY <1>0, <2>1, <2>4 DEF Closing, Verified, Flags
  <2> QED BY <2>3, <2>5 DEF EnvironmentIInv
<1>3. CASE MonitorCloses
  <2>1. /\ monitorClose' = "begun" /\ envState' = "CLOSING" /\ cleanErrors' = FALSE
        /\ UNCHANGED <<doing, envOutcome, thread, stray, command, abandoned, late>>
    BY <1>3 DEF MonitorCloses, commandVars
  <2>2. Adding'
    BY <1>0, <2>1 DEF Adding
  <2>3. Closing' /\ Verified' /\ Flags'
    BY <1>0, <2>1 DEF Closing, Verified, Flags
  <2> QED BY <2>2, <2>3 DEF EnvironmentIInv
<1>4. CASE CloseTimesOut \/ LateTimesOut
  <2>1. /\ doing \in {"close", "lateExport"} /\ doing' = "done" /\ envOutcome' \in {"deadline", "cleanupFailed"}
        /\ UNCHANGED <<command, cleanVars>>
        /\ \/ UNCHANGED <<stray, thread>> /\ doing = "close"
           \/ thread' = <<>> /\ envOutcome' = "deadline"
    BY <1>4 DEF CloseTimesOut, LateTimesOut, End, commandVars
  <2>2. Adding'
    BY <1>0, <2>1 DEF Adding, cleanVars
  <2>3. Closing' /\ Verified' /\ Flags'
    BY <1>0, <2>1 DEF Closing, Verified, Flags, cleanVars
  <2> QED BY <2>2, <2>3 DEF EnvironmentIInv
<1> QED BY <1>1, <1>2, <1>3, <1>4 DEF Interruption

LEMMA ThreadStepKeeps ==
  ASSUME EnvironmentIInv, ThreadStep \/ SweepOrphans
  PROVE  EnvironmentIInv'
<1> USE DEF Threaded
<1>0. Adding /\ Closing /\ Verified /\ Flags
  BY DEF EnvironmentIInv
<1>1. CASE AwaitedThread \/ StrayThread
  <2>1. /\ thread # <<>> \/ stray # <<>>
        /\ UNCHANGED <<envState, doing, envOutcome, command, cleanVars>>
        /\ thread' = thread \/ (thread # <<>> /\ UNCHANGED stray)
        /\ stray' = stray \/ (stray # <<>> /\ UNCHANGED thread)
    BY <1>1 DEF AwaitedThread, StrayThread, commandVars
  <2>2. Adding'
    BY <1>0, <2>1 DEF Adding, cleanVars
  <2>3. doing \in Threaded \/ abandoned \/ (doing = "done" /\ envOutcome = "deadline")
    BY <1>0, <2>1 DEF Adding
  <2>4. Closing' /\ Verified' /\ Flags'
    BY <1>0, <2>1, <2>3 DEF Closing, Verified, Flags, cleanVars
  <2> QED BY <2>2, <2>4 DEF EnvironmentIInv
<1>2. CASE CommandCreated \/ CommandStarted
  <2>1. /\ command = "creating" \/ there' = there
        /\ command' # "creating" /\ UNCHANGED <<attemptVars, cleanVars>>
    BY <1>2 DEF CommandCreated, CommandStarted, dockerVars
  <2>2. Adding'
    BY <1>0, <2>1 DEF Adding, attemptVars, cleanVars
  <2>3. Closing' /\ Verified' /\ Flags'
    BY <1>0, <2>1 DEF Adding, Closing, Verified, Flags, Leftovers, attemptVars, cleanVars
  <2> QED BY <2>2, <2>3 DEF EnvironmentIInv
<1>3. CASE CleanContainers \/ CleanNetwork \/ CleanVolumes
  <2>1. /\ there' \subseteq there /\ command' \in {command, "none"} /\ cleaner' # "over"
        /\ cleanErrors' \in {cleanErrors, TRUE} /\ UNCHANGED <<attemptVars, abandoned, monitorClose, late>>
    BY <1>3, SweptShrinks DEF CleanContainers, CleanNetwork, CleanVolumes, CleanStep
  <2>2. Adding'
    BY <1>0, <2>1 DEF Adding, attemptVars
  <2>3. Closing' /\ Verified' /\ Flags'
    BY <1>0, <2>1 DEF Closing, Verified, Flags, Leftovers, attemptVars
  <2> QED BY <2>2, <2>3 DEF EnvironmentIInv
<1>4. CASE Verify
  <2>1. /\ cleanErrors' \in BOOLEAN /\ (~cleanErrors' => Leftovers = {})
        /\ UNCHANGED <<attemptVars, command, there, abandoned, monitorClose, late>>
    BY <1>0, <1>4 DEF Verify, Flags, Leftovers, commandVars
  <2>2. Adding'
    BY <1>0, <2>1 DEF Adding, attemptVars
  <2>3. Closing' /\ Verified' /\ Flags'
    BY <1>0, <2>1 DEF Closing, Verified, Flags, Leftovers, attemptVars
  <2> QED BY <2>2, <2>3 DEF EnvironmentIInv
<1>5. CASE CleanReturns
  <2>1. /\ cleaner = "over" /\ cleaner' = "idle" /\ cleanErrors' = FALSE
        /\ UNCHANGED <<thread, stray, command, abandoned, late>>
        /\ monitorClose' = IF ByMonitor THEN (IF cleanErrors THEN "failed" ELSE "clean") ELSE monitorClose
    BY <1>5 DEF CleanReturns, commandVars
  <2>2. CASE ByMonitor
    <3>1. UNCHANGED <<doing, envOutcome>> /\ monitorClose' # "none"
      BY <1>5, <2>1, <2>2 DEF CleanReturns
    <3> QED BY <1>0, <2>1, <3>1 DEF EnvironmentIInv, Adding, Closing, Verified, Flags
  <2>3. CASE ~ByMonitor /\ doing = "close"
    <3>1. End(IF cleanErrors THEN "cleanupFailed" ELSE "closed") /\ monitorClose' = monitorClose
      BY <1>5, <2>1, <2>3 DEF CleanReturns
    <3>2. /\ doing' = "done" /\ there' \subseteq there /\ envOutcome' \in {"deadline", "cleanupFailed", "closed"}
          /\ envOutcome' = "closed" => ~cleanErrors
      BY <3>1 DEF End
    <3>3. Adding'
      BY <1>0, <2>1, <2>3, <3>2 DEF Adding
    <3>4. Closing' /\ Verified' /\ Flags'
      BY <1>0, <2>1, <2>3, <3>1, <3>2 DEF Closing, Verified, Flags, Leftovers
    <3> QED BY <3>3, <3>4 DEF EnvironmentIInv
  <2>4. CASE ~ByMonitor /\ doing # "close"
    <3>1. /\ UNCHANGED <<envState, envOutcome, there, monitorClose>>
          /\ doing' = doing \/ (doing = "cleaning" /\ doing' = "failing")
      BY <1>5, <2>1, <2>4 DEF CleanReturns
    <3>2. Adding'
      BY <1>0, <2>1, <3>1 DEF Adding
    <3>3. Closing' /\ Verified' /\ Flags'
      BY <1>0, <2>1, <2>4, <3>1 DEF Closing, Verified, Flags, Leftovers
    <3> QED BY <3>2, <3>3 DEF EnvironmentIInv
  <2> QED BY <2>2, <2>3, <2>4
<1>6. CASE SweepOrphans
  <2>1. there' \subseteq there /\ command' \in {command, "none"} /\ UNCHANGED <<attemptVars, cleanVars>>
    BY <1>6, SweptShrinks DEF SweepOrphans, SweepKind
  <2>2. Adding' /\ Flags'
    BY <1>0, <2>1 DEF Adding, Flags, attemptVars, cleanVars
  <2>3. Closing' /\ Verified'
    BY <2>1, OverStaysClean DEF attemptVars, cleanVars
  <2> QED BY <2>2, <2>3 DEF EnvironmentIInv
<1> QED BY <1>1, <1>2, <1>3, <1>4, <1>5, <1>6 DEF ThreadStep

\* When an Attempt is over without EXECUTOR_CLEANUP_FAILED, no thread was left
\* running and the monitor did not close the environment beside a call, none of
\* its Docker resources is left, however many of Docker's requests fail
\* (execution/docker.py, _cleanup_sync).
THEOREM ClosedIsClean == EnvironmentSpec => []CleanUnlessAbandoned
<1>1. EnvironmentInit => EnvironmentIInv
  BY DEF EnvironmentInit, EnvironmentIInv, Adding, Closing, Verified, Flags, Leftovers
<1>2. EnvironmentIInv /\ [EnvironmentNext]_environmentVars => EnvironmentIInv'
  <2> SUFFICES ASSUME EnvironmentIInv, [EnvironmentNext]_environmentVars PROVE EnvironmentIInv'
    OBVIOUS
  <2>1. CASE UNCHANGED environmentVars
    BY <2>1, OverStaysClean DEF environmentVars, attemptVars, commandVars, dockerVars, cleanVars,
       EnvironmentIInv, Adding, Flags
  <2> QED BY <2>1, EnvironmentStepKeeps, InterruptionKeeps, ThreadStepKeeps DEF EnvironmentNext
<1>3. EnvironmentIInv => CleanUnlessAbandoned
  BY DEF EnvironmentIInv, Verified, CleanUnlessAbandoned
<1> QED BY <1>1, <1>2, <1>3, PTL DEF EnvironmentSpec

=============================================================================
