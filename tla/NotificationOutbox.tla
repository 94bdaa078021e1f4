------------------------- MODULE NotificationOutbox -------------------------
(***************************************************************************)
(* The notification outbox (notification_outbox in PostgreSQL) and the     *)
(* Notifiers that empty it: a row is inserted with its source event,       *)
(* claimed under an expiring lease, sent to Feishu outside any transaction *)
(* and then acknowledged or rescheduled, if the claim still stands         *)
(* (PlatformRepository and NotifierService).  Notifiers crash, Feishu      *)
(* refuses, and a card may be accepted without the Notifier learning of it.*)
(*                                                                         *)
(* A claim is identified by its process: locked_by and fencing_token are   *)
(* fresh together, and a process works on one claim at a time.  Time is    *)
(* relative, in ticks: ttl to lease_expires_at, due to next_attempt_at.    *)
(***************************************************************************)
EXTENDS Integers, FiniteSets, JobState

CONSTANTS
  Jobs,          \* Job identities
  MaxEvents,     \* bound of the model: notifications per Job
  Notifiers,     \* Notifier processes
  Nobody,        \* locked_by IS NULL
  NoNote,        \* no claim in hand
  LeaseTicks,    \* settings.notification_lease_seconds, in ticks
  BackoffTicks,  \* settings.notification_backoff_max_seconds, in ticks
  MaxCards       \* accepted cards are counted up to this number

ASSUME EventsAssumption == MaxEvents \in Nat \ {0}
ASSUME LeaseAssumption == LeaseTicks \in Nat \ {0}
ASSUME BackoffAssumption == BackoffTicks \in Nat
ASSUME CardsAssumption == MaxCards \in Nat /\ MaxCards > 1
ASSUME NobodyAssumption == Nobody \notin Notifiers

VARIABLES
  status,  \* status[j]: the Job's status; ABSENT before, DELETED after
  posted,  \* posted[j]: notifications inserted for the Job
  outbox,  \* outbox[n]: the row of notification n = <<job, k>>
  sooner,  \* <<m, n>>: m's next_attempt_at sorts before n's
  phase,   \* phase[f]: what Notifier f is doing
  note,    \* note[f]: the notification it is doing it to
  cards,   \* cards[n]: cards Feishu accepted for n
  mishap   \* history: n's delivery met one of the mishaps named below

Notes == Jobs \X (1..MaxEvents)

ASSUME NoNoteAssumption == NoNote \notin Notes

vars == <<status, posted, outbox, sooner, phase, note, cards, mishap>>

Row ==
  [status : {"ABSENT", "PENDING", "IN_FLIGHT", "DELIVERED", "DELETED"},
   holder : Notifiers \union {Nobody},   \* locked_by and fencing_token
   ttl    : 0..LeaseTicks,
   due    : 0..BackoffTicks]

Unlocked(s, due) == [status |-> s, holder |-> Nobody, ttl |-> 0, due |-> due]
Locked(f, due) == [status |-> "IN_FLIGHT", holder |-> f, ttl |-> LeaseTicks, due |-> due]

Undelivered(n) == outbox[n].status \in {"PENDING", "IN_FLIGHT"}

\* NOTIFICATION_EVENT_TYPES, by the status the event announces.  job_received
\* announces the Job itself; requeueing and cancel requests announce nothing.
Announced == {"NEEDS_INPUT", "SUCCEEDED", "FAILED", "CANCELLED"}

-----------------------------------------------------------------------------

Init ==
  /\ status = [j \in Jobs |-> "ABSENT"]
  /\ posted = [j \in Jobs |-> 0]
  /\ outbox = [n \in Notes |-> Unlocked("ABSENT", 0)]
  /\ sooner = {}
  /\ phase = [f \in Notifiers |-> "idle"]
  /\ note = [f \in Notifiers |-> NoNote]
  /\ cards = [n \in Notes |-> 0]
  /\ mishap = [n \in Notes |-> FALSE]

\* next_attempt_at of n becomes now() + d
Unsorted(n) == {p \in sooner : p[1] # n /\ p[2] # n}
Scheduled(n, d) ==
  LET others == {m \in Notes \ {n} : Undelivered(m)} IN
  Unsorted(n) \union {<<m, n>> : m \in {m \in others : outbox[m].due <= d}}
              \union {<<n, m>> : m \in {m \in others : outbox[m].due > d}}

\* _append_event inserts the outbox row with the event that causes it
Post(j) ==
  LET n == <<j, posted[j] + 1>> IN
  /\ posted[j] < MaxEvents
  /\ posted' = [posted EXCEPT ![j] = @ + 1]
  /\ outbox' = [outbox EXCEPT ![n] = Unlocked("PENDING", 0)]
  /\ sooner' = Scheduled(n, 0)

CreateJob(j) ==
  /\ status[j] = "ABSENT"
  /\ status' = [status EXCEPT ![j] = "QUEUED"]
  /\ Post(j)
  /\ UNCHANGED <<phase, note, cards, mishap>>

\* any transaction of JobLifecycle that moves the Job
MoveJob(j, to) ==
  /\ status[j] \in JobStatuses
  /\ JobMayMove(status[j], to, TRUE)
  /\ status' = [status EXCEPT ![j] = to]
  /\ IF to \in Announced THEN Post(j) ELSE UNCHANGED <<posted, outbox, sooner>>
  /\ UNCHANGED <<phase, note, cards, mishap>>

Deletable_PendingOnly(j) ==
  /\ status[j] \in TerminalJobStatuses
  /\ \A n \in Notes : n[1] = j => outbox[n].status # "PENDING"

\* delete_expired_terminal_jobs, once retention has elapsed
Deletable(j) ==
  /\ status[j] \in TerminalJobStatuses
  /\ \A n \in Notes : n[1] = j => ~Undelivered(n)

DeleteJob(j) ==
  /\ Deletable(j)
  /\ status' = [status EXCEPT ![j] = "DELETED"]
  /\ outbox' = [n \in Notes |->
       IF n[1] = j /\ outbox[n].status # "ABSENT" THEN Unlocked("DELETED", 0) ELSE outbox[n]]
  /\ UNCHANGED <<posted, sooner, phase, note, cards, mishap>>

-----------------------------------------------------------------------------
(* Notifier f *)

Claimable_AnyLease(n) ==
  \/ outbox[n].status = "PENDING" /\ outbox[n].due = 0
  \/ outbox[n].status = "IN_FLIGHT"

Claimable_NeverReclaimed(n) == outbox[n].status = "PENDING" /\ outbox[n].due = 0

Claimable(n) ==
  \/ outbox[n].status = "PENDING" /\ outbox[n].due = 0
  \/ outbox[n].status = "IN_FLIGHT" /\ outbox[n].ttl = 0

\* claim_notification: the claimable row with the earliest next_attempt_at
Claim(f) ==
  /\ phase[f] = "idle"
  /\ \E n \in Notes :
       /\ Claimable(n)
       /\ \A m \in Notes : Claimable(m) => <<m, n>> \notin sooner
       /\ outbox' = [outbox EXCEPT ![n] = Locked(f, @.due)]
       /\ phase' = [phase EXCEPT ![f] = "sending"]
       /\ note' = [note EXCEPT ![f] = n]
  /\ UNCHANGED <<status, posted, sooner, cards, mishap>>

\* the WHERE clause of both conditional updates
ClaimStands(f) ==
  LET row == outbox[note[f]] IN
  row.status = "IN_FLIGHT" /\ row.holder = f /\ row.ttl > 0

OneMore(c) == IF c < MaxCards THEN c + 1 ELSE c

\* FeishuWebhookClient.send returns
Accepted(f) ==
  /\ phase[f] = "sending"
  /\ phase' = [phase EXCEPT ![f] = "accepted"]
  /\ cards' = [cards EXCEPT ![note[f]] = OneMore(@)]
  /\ UNCHANGED <<status, posted, outbox, sooner, note, mishap>>

\* ... raises although the card was accepted (a timeout, a broken reply)
AcceptedUnheard(f) ==
  /\ phase[f] = "sending"
  /\ phase' = [phase EXCEPT ![f] = "failed"]
  /\ cards' = [cards EXCEPT ![note[f]] = OneMore(@)]
  /\ mishap' = [mishap EXCEPT ![note[f]] = TRUE]
  /\ UNCHANGED <<status, posted, outbox, sooner, note>>

\* ... raises, and no card was accepted
Refused(f) ==
  /\ phase[f] = "sending"
  /\ phase' = [phase EXCEPT ![f] = "failed"]
  /\ UNCHANGED <<status, posted, outbox, sooner, note, cards, mishap>>

Rest(f) ==
  /\ phase' = [phase EXCEPT ![f] = "idle"]
  /\ note' = [note EXCEPT ![f] = NoNote]

\* mark_notification_delivered: no row matches once the claim has lapsed
Acknowledge(f) ==
  /\ phase[f] = "accepted"
  /\ IF ClaimStands(f)
     THEN /\ outbox' = [outbox EXCEPT ![note[f]] = Unlocked("DELIVERED", 0)]
          /\ sooner' = Unsorted(note[f])
     ELSE UNCHANGED <<outbox, sooner>>
  /\ Rest(f)
  /\ UNCHANGED <<status, posted, cards, mishap>>

\* retry_notification, _retry_delay from now
Reschedule(f, d) ==
  /\ phase[f] = "failed"
  /\ IF ClaimStands(f)
     THEN /\ outbox' = [outbox EXCEPT ![note[f]] = Unlocked("PENDING", d)]
          /\ sooner' = Scheduled(note[f], d)
     ELSE UNCHANGED <<outbox, sooner>>
  /\ Rest(f)
  /\ UNCHANGED <<status, posted, cards, mishap>>

\* the process dies, and a new one takes its place
Crash(f) ==
  /\ phase[f] # "idle"
  /\ mishap' = IF phase[f] = "accepted" THEN [mishap EXCEPT ![note[f]] = TRUE] ELSE mishap
  /\ Rest(f)
  /\ UNCHANGED <<status, posted, outbox, sooner, cards>>

Lower(x) == IF x > 0 THEN x - 1 ELSE 0

\* now() advances; a claim still being worked on may lapse
Tick ==
  /\ \E n \in Notes : Undelivered(n) /\ outbox[n].ttl + outbox[n].due > 0
  /\ outbox' = [n \in Notes |-> [outbox[n] EXCEPT !.ttl = Lower(@), !.due = Lower(@)]]
  /\ mishap' = [n \in Notes |->
       mishap[n] \/ \E f \in Notifiers : note[f] = n /\ outbox[n].ttl = 1]
  /\ UNCHANGED <<status, posted, sooner, phase, note, cards>>

-----------------------------------------------------------------------------

JobStep(j) == CreateJob(j) \/ (\E to \in JobStatuses : MoveJob(j, to)) \/ DeleteJob(j)

SendEnds(f) == Accepted(f) \/ AcceptedUnheard(f) \/ Refused(f)

Settles(f) == Acknowledge(f) \/ \E d \in 0..BackoffTicks : Reschedule(f, d)

NotifierStep(f) == Claim(f) \/ SendEnds(f) \/ Settles(f) \/ Crash(f)

Next ==
  \/ \E j \in Jobs : JobStep(j)
  \/ \E f \in Notifiers : NotifierStep(f)
  \/ Tick

Spec == Init /\ [][Next]_vars

(* Fairness.  Time passes; every Notifier keeps polling; a send ends (the   *)
(* HTTP client times out) and is followed by its update.  Of Feishu and the *)
(* network only this: a notification that is sent again and again is now    *)
(* and then accepted, and acknowledged, while its claim stands.             *)
InTime(n, A(_)) == \E f \in Notifiers : note[f] = n /\ ClaimStands(f) /\ A(f)

Fairness ==
  /\ WF_vars(Tick)
  /\ \A f \in Notifiers : WF_vars(Claim(f)) /\ WF_vars(SendEnds(f)) /\ WF_vars(Settles(f))
  /\ \A n \in Notes : SF_vars(InTime(n, Accepted)) /\ SF_vars(InTime(n, Acknowledge))

FairSpec == Spec /\ Fairness

-----------------------------------------------------------------------------
(* Properties *)

\* Rows and Notifiers have their shapes; a row is locked exactly while it is
\* in flight, and a Notifier has a notification in hand unless it is idle.
TypeOK ==
  /\ status \in [Jobs -> JobStatuses \union {"ABSENT", "DELETED"}]
  /\ posted \in [Jobs -> 0..MaxEvents]
  /\ outbox \in [Notes -> Row]
  /\ sooner \subseteq Notes \X Notes
  /\ phase \in [Notifiers -> {"idle", "sending", "accepted", "failed"}]
  /\ note \in [Notifiers -> Notes \union {NoNote}]
  /\ cards \in [Notes -> 0..MaxCards]
  /\ mishap \in [Notes -> BOOLEAN]
  /\ \A n \in Notes : outbox[n].holder # Nobody <=> outbox[n].status = "IN_FLIGHT"
  /\ \A f \in Notifiers : phase[f] = "idle" <=> note[f] = NoNote

\* A Requester sees a card twice only if a Notifier died after the card was
\* accepted, the acceptance never reached it, or its claim lapsed meanwhile
\* (docs/adr/0013: normal concurrent Notifiers send a row once).
DuplicateNeedsMishap == \A n \in Notes : cards[n] > 1 => mishap[n]

\* The outbox implements at-least-once delivery: what was posted stays owed,
\* through crashes and retention, until a card has been accepted.
Stage(n) ==
  CASE outbox[n].status = "ABSENT" -> "none"
    [] Undelivered(n)              -> "owed"
    [] OTHER                       -> "kept"

Promise == INSTANCE AtLeastOnce WITH stage <- [n \in Notes |-> Stage(n)]

ImplementsPromise == Promise!Spec

\* Every notification is delivered in the end.
EveryNotificationDelivered ==
  \A n \in Notes : Undelivered(n) ~> outbox[n].status \in {"DELIVERED", "DELETED"}

=============================================================================
