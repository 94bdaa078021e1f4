---------------------- MODULE NotificationOutboxProofs ----------------------
(***************************************************************************)
(* What holds of NotificationOutbox for every number of Jobs, events,      *)
(* Notifiers, lease and backoff: its type, the at-least-once promise, and  *)
(* that a duplicate card needs a mishap.                                   *)
(***************************************************************************)
EXTENDS NotificationOutbox, TLAPS

USE EventsAssumption, LeaseAssumption, BackoffAssumption, CardsAssumption, NobodyAssumption

\* The row of notification n, with the claims on it, when no mishap happened:
\* whoever works on it holds a claim that stands, and a card that was accepted
\* is either acknowledged or about to be.
Quiet(n) ==
  /\ cards[n] <= 1
  /\ \A f \in Notifiers : note[f] = n => ClaimStands(f)
  /\ cards[n] = 1 =>
       \/ outbox[n].status \in {"DELIVERED", "DELETED"}
       \/ \E f \in Notifiers : note[f] = n /\ phase[f] = "accepted"

\* Exactly the rows of posted notifications exist.
RowsPosted ==
  \A j \in Jobs : \A k \in 1..MaxEvents : outbox[<<j, k>>].status = "ABSENT" <=> k > posted[j]

\* A promise is kept, and an acceptance known, only after a card.
KeptHasCard ==
  /\ \A n \in Notes : outbox[n].status \in {"DELIVERED", "DELETED"} => cards[n] > 0
  /\ \A f \in Notifiers : phase[f] = "accepted" => cards[note[f]] > 0

\* Notifiers work on rows that exist.
WorkOnRows == \A f \in Notifiers : phase[f] # "idle" => outbox[note[f]].status # "ABSENT"

QuietUnlessMishap == \A n \in Notes : ~mishap[n] => Quiet(n)

\* The inductive invariant.
IInv == TypeOK /\ RowsPosted /\ KeptHasCard /\ WorkOnRows /\ QuietUnlessMishap

\* The initial state satisfies the invariant.
LEMMA InitIInv == Init => IInv
<1> SUFFICES ASSUME Init PROVE IInv
  OBVIOUS
<1>1. \A n \in Notes : n[1] \in Jobs /\ n[2] \in 1..MaxEvents
  BY DEF Notes
<1>2. TypeOK
  BY NoNoteAssumption DEF Init, TypeOK, Row, Unlocked, Notes
<1>3. RowsPosted /\ KeptHasCard /\ WorkOnRows
  BY DEF Init, RowsPosted, KeptHasCard, WorkOnRows, Unlocked, Notes
<1>4. QuietUnlessMishap
  BY NoNoteAssumption DEF Init, QuietUnlessMishap, Quiet
<1> QED
  BY <1>2, <1>3, <1>4 DEF IInv

\* Parts of the invariant, for the lemmas about single rows.
LEMMA Shapes ==
  ASSUME IInv
  PROVE  /\ \A j \in Jobs : posted[j] \in 0..MaxEvents
         /\ \A n \in Notes : /\ outbox[n] \in Row
                           /\ cards[n] \in 0..MaxCards
                           /\ mishap[n] \in BOOLEAN
                           /\ outbox[n].holder # Nobody <=> outbox[n].status = "IN_FLIGHT"
         /\ \A f \in Notifiers : /\ phase[f] \in {"idle", "sending", "accepted", "failed"}
                               /\ phase[f] = "idle" <=> note[f] = NoNote
                               /\ phase[f] # "idle" => note[f] \in Notes
BY DEF IInv, TypeOK

LEMMA UnlockedRow ==
  ASSUME NEW s \in {"ABSENT", "PENDING", "IN_FLIGHT", "DELIVERED", "DELETED"},
         NEW d \in 0..BackoffTicks
  PROVE  /\ Unlocked(s, d) \in Row
         /\ Unlocked(s, d).status = s /\ Unlocked(s, d).holder = Nobody
BY DEF Unlocked, Row

LEMMA ScheduledPairs ==
  ASSUME NEW n \in Notes, NEW d, sooner \subseteq Notes \X Notes
  PROVE  Scheduled(n, d) \subseteq Notes \X Notes /\ Unsorted(n) \subseteq Notes \X Notes
BY DEF Scheduled, Unsorted

\* A Notifier has a notification in hand exactly when it is not idle.
LEMMA InHand ==
  ASSUME IInv, NEW f \in Notifiers
  PROVE  /\ phase[f] # "idle" => note[f] \in Notes
         /\ note[f] \in Notes => phase[f] # "idle"
<1>1. note[f] \in Notes \union {NoNote} /\ (phase[f] = "idle" <=> note[f] = NoNote)
  BY DEF IInv, TypeOK
<1> QED
  BY <1>1, NoNoteAssumption

\* Posting: the row did not exist, so nobody works on it and no card was sent.
LEMMA PostStep ==
  ASSUME IInv, NEW j \in Jobs, Post(j),
         status' \in [Jobs -> JobStatuses \union {"ABSENT", "DELETED"}],
         UNCHANGED <<phase, note, cards, mishap>>
  PROVE  IInv'
<1> DEFINE n == <<j, posted[j] + 1>>
<1>1. /\ posted[j] \in Nat /\ posted[j] < MaxEvents /\ posted[j] + 1 \in 1..MaxEvents
      /\ posted' = [posted EXCEPT ![j] = @ + 1]
      /\ outbox' = [outbox EXCEPT ![n] = Unlocked("PENDING", 0)]
      /\ sooner' = Scheduled(n, 0)
  BY Shapes DEF Post
<1>2. n \in Notes /\ outbox[n].status = "ABSENT"
  BY <1>1 DEF IInv, RowsPosted, Notes
<1>3. outbox' \in [Notes -> Row] /\ outbox'[n].status = "PENDING" /\ outbox'[n].holder = Nobody
      /\ \A m \in Notes \ {n} : outbox'[m] = outbox[m]
  <2>1. Unlocked("PENDING", 0) \in Row /\ Unlocked("PENDING", 0).status = "PENDING"
        /\ Unlocked("PENDING", 0).holder = Nobody
    BY UnlockedRow
  <2> HIDE DEF n
  <2> QED
    BY <1>1, <1>2, <2>1 DEF IInv, TypeOK
<1>4. \A f \in Notifiers : note[f] # n
  <2> SUFFICES ASSUME NEW f \in Notifiers PROVE note[f] # n
    OBVIOUS
  <2> HIDE DEF n
  <2>1. CASE phase[f] = "idle"
    <3>1. note[f] = NoNote
      BY <2>1 DEF IInv, TypeOK
    <3>2. n \in Notes
      BY <1>2
    <3> QED
      BY <3>1, <3>2, NoNoteAssumption
  <2>2. CASE phase[f] # "idle"
    BY <2>2, <1>2 DEF IInv, WorkOnRows
  <2> QED
    BY <2>1, <2>2
<1>5. sooner' \subseteq Notes \X Notes
  BY <1>1, <1>2, ScheduledPairs DEF IInv, TypeOK
<1>6. posted' \in [Jobs -> 0..MaxEvents] /\ posted'[j] = posted[j] + 1
      /\ \A i \in Jobs \ {j} : posted'[i] = posted[i]
  BY <1>1 DEF IInv, TypeOK
<1>7. TypeOK'
  BY <1>3, <1>5, <1>6, SMTT(30) DEF IInv, TypeOK
<1>8. RowsPosted'
  <2> SUFFICES ASSUME NEW i \in Jobs, NEW k \in 1..MaxEvents
               PROVE  outbox'[<<i, k>>].status = "ABSENT" <=> k > posted'[i]
    BY DEF RowsPosted
  <2>1. <<i, k>> \in Notes
    BY DEF Notes
  <2>2. CASE i = j /\ k = posted[j] + 1
    BY <2>2, <1>3, <1>6, <1>1
  <2>3. CASE ~(i = j /\ k = posted[j] + 1)
    <3>1. <<i, k>> # n /\ outbox'[<<i, k>>] = outbox[<<i, k>>]
      BY <2>1, <2>3, <1>3
    <3>2. outbox[<<i, k>>].status = "ABSENT" <=> k > posted[i]
      BY DEF IInv, RowsPosted
    <3>3. k > posted[i] <=> k > posted'[i]
      <4>1. posted[i] \in Nat /\ k \in Nat
        BY Shapes
      <4>2. CASE i = j
        BY <4>1, <4>2, <1>6, <2>3
      <4>3. CASE i # j
        BY <4>3, <1>6
      <4> QED
        BY <4>2, <4>3
    <3> QED
      BY <3>1, <3>2, <3>3
  <2> QED
    BY <2>2, <2>3
<1>9. KeptHasCard' /\ WorkOnRows'
  <2> HIDE DEF n
  <2>1. \A m \in Notes : outbox'[m].status \in {"DELIVERED", "DELETED"} => cards[m] > 0
    BY <1>2, <1>3 DEF IInv, KeptHasCard
  <2>2. ASSUME NEW f \in Notifiers, phase[f] # "idle"
        PROVE  outbox'[note[f]].status # "ABSENT"
    <3>1. note[f] \in Notes
      BY <2>2, InHand
    <3>2. note[f] # n
      BY <1>4
    <3>3. outbox'[note[f]] = outbox[note[f]]
      BY <3>1, <3>2, <1>3
    <3> QED
      BY <3>3, <2>2 DEF IInv, WorkOnRows
  <2> QED
    BY <2>1, <2>2 DEF IInv, KeptHasCard, WorkOnRows
<1>10. QuietUnlessMishap'
  <2> SUFFICES ASSUME NEW m \in Notes, ~mishap[m] PROVE Quiet(m)'
    BY DEF QuietUnlessMishap
  <2>1. Quiet(m)
    BY DEF IInv, QuietUnlessMishap
  <2>2. CASE m = n
    <3>1. cards[n] <= 1 /\ cards[n] # 1
      BY <2>1, <2>2, <1>2, <1>4 DEF Quiet
    <3> QED
      BY <3>1, <2>2, <1>4 DEF Quiet
  <2>3. CASE m # n
    BY <2>1, <2>3, <1>3 DEF Quiet, ClaimStands
  <2> QED
    BY <2>2, <2>3
<1> QED
  BY <1>7, <1>8, <1>9, <1>10 DEF IInv

-----------------------------------------------------------------------------
(* What every other step leaves of the invariant *)

\* A step that creates no row keeps the rows in step with the events posted.
LEMMA RowsKept ==
  ASSUME IInv, posted' = posted,
         \A m \in Notes : outbox'[m].status = "ABSENT" <=> outbox[m].status = "ABSENT"
  PROVE  RowsPosted'
<1>1. \A j \in Jobs, k \in 1..MaxEvents : <<j, k>> \in Notes
  BY DEF Notes
<1> QED
  BY <1>1 DEF IInv, RowsPosted

\* A row stays quiet if it is not touched, nobody takes it up, and an
\* accepted card of it stays in the hands it was in.
LEMMA QuietKept ==
  ASSUME NEW m \in Notes, Quiet(m),
         outbox'[m] = outbox[m], cards'[m] = cards[m],
         \A g \in Notifiers : note'[g] = m => note[g] = m,
         \A g \in Notifiers : note[g] = m /\ phase[g] = "accepted"
                                => note'[g] = m /\ phase'[g] = "accepted"
  PROVE  Quiet(m)'
BY DEF Quiet, ClaimStands

\* Two claims on one row cannot both stand.
LEMMA OneClaimStands ==
  ASSUME NEW f \in Notifiers, NEW g \in Notifiers, note[f] = note[g],
         ClaimStands(f), ClaimStands(g)
  PROVE  f = g
BY DEF ClaimStands

\* A claimable row without mishap is in nobody's hands, and no card was sent.
LEMMA FreeRow ==
  ASSUME IInv, NEW n \in Notes, Claimable(n), ~mishap[n]
  PROVE  cards[n] = 0 /\ \A f \in Notifiers : note[f] # n
<1>1. Quiet(n)
  BY DEF IInv, QuietUnlessMishap
<1>2. outbox[n].ttl \in Nat /\ cards[n] \in Nat
  BY DEF IInv, TypeOK, Row
<1>3. \A f \in Notifiers : note[f] # n
  <2> SUFFICES ASSUME NEW f \in Notifiers, note[f] = n PROVE FALSE
    OBVIOUS
  <2>1. outbox[n].status = "IN_FLIGHT" /\ outbox[n].ttl > 0
    BY <1>1 DEF Quiet, ClaimStands
  <2> QED
    BY <2>1, <1>2 DEF Claimable
<1>4. outbox[n].status \notin {"DELIVERED", "DELETED"}
  BY DEF Claimable
<1> QED
  BY <1>1, <1>2, <1>3, <1>4 DEF Quiet

\* A card in the hands of a Notifier without mishap is the first one, unless
\* that Notifier is the one that saw it accepted.
LEMMA FirstCard ==
  ASSUME IInv, NEW f \in Notifiers, phase[f] \in {"sending", "failed"}, ~mishap[note[f]]
  PROVE  /\ note[f] \in Notes /\ ClaimStands(f) /\ cards[note[f]] = 0
         /\ \A g \in Notifiers : note[g] = note[f] => g = f
<1>1. note[f] \in Notes
  BY InHand
<1>2. Quiet(note[f])
  BY <1>1 DEF IInv, QuietUnlessMishap
<1>3. ClaimStands(f) /\ \A g \in Notifiers : note[g] = note[f] => g = f
  BY <1>2, OneClaimStands DEF Quiet
<1>4. cards[note[f]] \in Nat
  BY <1>1 DEF IInv, TypeOK
<1> QED
  BY <1>1, <1>2, <1>3, <1>4 DEF Quiet, ClaimStands

-----------------------------------------------------------------------------
(* Jobs *)

\* The transactions of the lifecycle that insert a notification, or none.
LEMMA MoveSteps ==
  ASSUME IInv, NEW j \in Jobs, CreateJob(j) \/ \E to \in JobStatuses : MoveJob(j, to)
  PROVE  IInv'
<1>1. status' \in [Jobs -> JobStatuses \union {"ABSENT", "DELETED"}]
      /\ UNCHANGED <<phase, note, cards, mishap>>
  <2>1. CASE CreateJob(j)
    BY <2>1 DEF CreateJob, JobStatuses, IInv, TypeOK
  <2>2. ASSUME NEW to \in JobStatuses, MoveJob(j, to)
        PROVE  status' \in [Jobs -> JobStatuses \union {"ABSENT", "DELETED"}]
               /\ UNCHANGED <<phase, note, cards, mishap>>
    BY <2>2 DEF MoveJob, IInv, TypeOK
  <2> QED
    BY <2>1, <2>2
<1>2. CASE Post(j)
  BY <1>1, <1>2, PostStep
<1>3. CASE UNCHANGED <<posted, outbox, sooner>>
  BY <1>1, <1>3 DEF IInv, TypeOK, RowsPosted, KeptHasCard, WorkOnRows,
                    QuietUnlessMishap, Quiet, ClaimStands
<1> QED
  BY <1>2, <1>3 DEF CreateJob, MoveJob

\* Retention deletes delivered rows only.
LEMMA DeleteStep ==
  ASSUME IInv, NEW j \in Jobs, DeleteJob(j)
  PROVE  IInv'
<1> DEFINE gone(m) == m[1] = j /\ outbox[m].status # "ABSENT"
<1>1. /\ status' = [status EXCEPT ![j] = "DELETED"]
      /\ outbox' = [m \in Notes |-> IF gone(m) THEN Unlocked("DELETED", 0) ELSE outbox[m]]
      /\ UNCHANGED <<posted, sooner, phase, note, cards, mishap>>
  BY DEF DeleteJob
<1>2. \A m \in Notes : gone(m) => outbox[m].status \in {"DELIVERED", "DELETED"}
  BY DEF DeleteJob, Deletable, Undelivered, IInv, TypeOK, Row
<1>3. Unlocked("DELETED", 0) \in Row /\ Unlocked("DELETED", 0).status = "DELETED"
      /\ Unlocked("DELETED", 0).holder = Nobody
  BY UnlockedRow
<1> HIDE DEF gone
<1>4. \A m \in Notes :
        /\ gone(m) => outbox'[m].status = "DELETED" /\ outbox'[m].holder = Nobody
        /\ ~gone(m) => outbox'[m] = outbox[m]
  BY <1>1 DEF Unlocked
<1>5. TypeOK'
  <2>1. outbox' \in [Notes -> Row]
    BY <1>1, <1>3 DEF IInv, TypeOK
  <2>2. ASSUME NEW m \in Notes
        PROVE  outbox'[m].holder # Nobody <=> outbox'[m].status = "IN_FLIGHT"
    <3>1. CASE gone(m)
      BY <3>1, <1>3, <1>4
    <3>2. CASE ~gone(m)
      BY <3>2, <1>4 DEF IInv, TypeOK
    <3> QED
      BY <3>1, <3>2
  <2>3. status' \in [Jobs -> JobStatuses \union {"ABSENT", "DELETED"}]
    BY <1>1 DEF IInv, TypeOK
  <2> QED
    BY <1>1, <2>1, <2>2, <2>3 DEF IInv, TypeOK
<1>6. RowsPosted'
  <2>1. ASSUME NEW m \in Notes
        PROVE  outbox'[m].status = "ABSENT" <=> outbox[m].status = "ABSENT"
    <3>1. CASE gone(m)
      BY <3>1, <1>2, <1>3, <1>4
    <3>2. CASE ~gone(m)
      BY <3>2, <1>4
    <3> QED
      BY <3>1, <3>2
  <2> QED
    BY <2>1, <1>1, RowsKept
<1>7. KeptHasCard'
  BY <1>1, <1>2, <1>4 DEF IInv, KeptHasCard
<1>8. WorkOnRows'
  <2> SUFFICES ASSUME NEW f \in Notifiers, phase[f] # "idle"
               PROVE  outbox'[note[f]].status # "ABSENT"
    BY <1>1 DEF WorkOnRows
  <2>1. note[f] \in Notes /\ outbox[note[f]].status # "ABSENT"
    BY InHand DEF IInv, WorkOnRows
  <2> QED
    BY <2>1, <1>3, <1>4
<1>9. QuietUnlessMishap'
  <2> SUFFICES ASSUME NEW m \in Notes, ~mishap[m] PROVE Quiet(m)'
    BY <1>1 DEF QuietUnlessMishap
  <2>1. Quiet(m)
    BY DEF IInv, QuietUnlessMishap
  <2>2. CASE gone(m)
    <3>1. \A f \in Notifiers : note[f] # m
      BY <2>1, <2>2, <1>2 DEF Quiet, ClaimStands
    <3> QED
      BY <3>1, <2>1, <2>2, <1>1, <1>3, <1>4 DEF Quiet
  <2>3. CASE ~gone(m)
    BY <2>1, <2>3, <1>1, <1>4, QuietKept
  <2> QED
    BY <2>2, <2>3
<1> QED
  BY <1>5, <1>6, <1>7, <1>8, <1>9 DEF IInv

-----------------------------------------------------------------------------
(* Notifiers *)

\* A claim takes a free row, so nobody else works on it.
LEMMA ClaimStep ==
  ASSUME IInv, NEW f \in Notifiers, Claim(f)
  PROVE  IInv'
<1>1. PICK n \in Notes :
        /\ Claimable(n)
        /\ outbox' = [outbox EXCEPT ![n] = Locked(f, @.due)]
        /\ phase' = [phase EXCEPT ![f] = "sending"]
        /\ note' = [note EXCEPT ![f] = n]
  BY DEF Claim
<1>2. phase[f] = "idle" /\ UNCHANGED <<status, posted, sooner, cards, mishap>>
  BY DEF Claim
<1>3. /\ outbox \in [Notes -> Row]
      /\ phase \in [Notifiers -> {"idle", "sending", "accepted", "failed"}]
      /\ note \in [Notifiers -> Notes \union {NoNote}]
  BY DEF IInv, TypeOK
<1>4. /\ outbox' \in [Notes -> Row]
      /\ outbox'[n].status = "IN_FLIGHT" /\ outbox'[n].holder = f /\ outbox'[n].ttl > 0
      /\ \A m \in Notes \ {n} : outbox'[m] = outbox[m]
  <2> DEFINE r == Locked(f, outbox[n].due)
  <2>1. outbox[n].due \in 0..BackoffTicks
    BY <1>3 DEF Row
  <2>2. r \in Row /\ r.status = "IN_FLIGHT" /\ r.holder = f /\ r.ttl > 0
    BY <2>1 DEF Row, Locked
  <2>3. outbox' = [outbox EXCEPT ![n] = r]
    BY <1>1
  <2> HIDE DEF r
  <2>4. outbox'[n] = r /\ outbox' \in [Notes -> Row]
    BY <2>2, <2>3, <1>3
  <2>5. \A m \in Notes \ {n} : outbox'[m] = outbox[m]
    BY <2>3, <1>3
  <2> QED
    BY <2>2, <2>4, <2>5
<1>5. /\ phase'[f] = "sending" /\ note'[f] = n
      /\ \A g \in Notifiers \ {f} : phase'[g] = phase[g] /\ note'[g] = note[g]
  BY <1>1, <1>3
<1>6. TypeOK'
  <2>1. \A m \in Notes : outbox'[m].holder # Nobody <=> outbox'[m].status = "IN_FLIGHT"
    BY <1>4 DEF IInv, TypeOK
  <2>2. \A g \in Notifiers : phase'[g] = "idle" <=> note'[g] = NoNote
    BY <1>5, NoNoteAssumption DEF IInv, TypeOK
  <2>3. /\ phase' \in [Notifiers -> {"idle", "sending", "accepted", "failed"}]
        /\ note' \in [Notifiers -> Notes \union {NoNote}]
    BY <1>1, <1>3
  <2> QED
    BY <1>2, <1>4, <2>1, <2>2, <2>3 DEF IInv, TypeOK
<1>7. outbox[n].status \in {"PENDING", "IN_FLIGHT"}
  BY <1>1 DEF Claimable
<1>8. RowsPosted'
  BY <1>2, <1>4, <1>7, RowsKept
<1>9. KeptHasCard'
  <2>1. \A m \in Notes : outbox'[m].status \in {"DELIVERED", "DELETED"} => cards[m] > 0
    BY <1>4 DEF IInv, KeptHasCard
  <2>2. \A g \in Notifiers : phase'[g] = "accepted" => cards[note'[g]] > 0
    BY <1>5 DEF IInv, KeptHasCard
  <2> QED
    BY <1>2, <2>1, <2>2 DEF KeptHasCard
<1>10. WorkOnRows'
  <2> SUFFICES ASSUME NEW g \in Notifiers, phase'[g] # "idle"
               PROVE  outbox'[note'[g]].status # "ABSENT"
    BY DEF WorkOnRows
  <2>1. CASE g = f
    BY <2>1, <1>4, <1>5
  <2>2. CASE g # f
    <3>1. note[g] \in Notes /\ outbox[note[g]].status # "ABSENT"
      BY <2>2, <1>5, InHand DEF IInv, WorkOnRows
    <3> QED
      BY <3>1, <2>2, <1>4, <1>5
  <2> QED
    BY <2>1, <2>2
<1>11. QuietUnlessMishap'
  <2> SUFFICES ASSUME NEW m \in Notes, ~mishap[m] PROVE Quiet(m)'
    BY <1>2 DEF QuietUnlessMishap
  <2>1. CASE m = n
    <3>1. cards[n] = 0 /\ \A g \in Notifiers : note[g] # n
      BY <2>1, <1>1, FreeRow
    <3> QED
      BY <3>1, <2>1, <1>2, <1>4, <1>5 DEF Quiet, ClaimStands
  <2>2. CASE m # n
    <3>1. Quiet(m)
      BY DEF IInv, QuietUnlessMishap
    <3>2. outbox'[m] = outbox[m] /\ cards'[m] = cards[m]
      BY <2>2, <1>2, <1>4
    <3>3. \A g \in Notifiers : note'[g] = m => note[g] = m
      BY <2>2, <1>5
    <3>4. \A g \in Notifiers : note[g] = m /\ phase[g] = "accepted"
                                 => note'[g] = m /\ phase'[g] = "accepted"
      BY <1>2, <1>5
    <3> QED
      BY <3>1, <3>2, <3>3, <3>4, QuietKept
  <2> QED
    BY <2>1, <2>2
<1> QED
  BY <1>6, <1>8, <1>9, <1>10, <1>11 DEF IInv

\* One more card, up to the bound, is a positive number of cards.
LEMMA OneMoreCard ==
  ASSUME NEW c \in 0..MaxCards
  PROVE  /\ OneMore(c) \in 0..MaxCards
         /\ OneMore(c) > 0
         /\ c = 0 => OneMore(c) = 1
BY DEF OneMore

\* Sending: the only holder of a quiet row sends its first card.
LEMMA SendStep ==
  ASSUME IInv, NEW f \in Notifiers, SendEnds(f)
  PROVE  IInv'
<1> DEFINE n == note[f]
<1>1. phase[f] = "sending" /\ n \in Notes /\ UNCHANGED <<status, posted, outbox, sooner, note>>
  BY InHand DEF SendEnds, Accepted, AcceptedUnheard, Refused
<1>2. PICK p \in {"accepted", "failed"} : phase' = [phase EXCEPT ![f] = p]
  BY DEF SendEnds, Accepted, AcceptedUnheard, Refused
<1>3. \/ cards' = [cards EXCEPT ![n] = OneMore(@)]
      \/ cards' = cards /\ phase' = [phase EXCEPT ![f] = "failed"]
  BY DEF SendEnds, Accepted, AcceptedUnheard, Refused
<1>4. \/ mishap' = [mishap EXCEPT ![n] = TRUE]
      \/ mishap' = mishap /\ phase' = [phase EXCEPT ![f] = "accepted"]
      \/ mishap' = mishap /\ cards' = cards
  BY DEF SendEnds, Accepted, AcceptedUnheard, Refused
<1> HIDE DEF n
<1>5. phase \in [Notifiers -> {"idle", "sending", "accepted", "failed"}]
      /\ cards \in [Notes -> 0..MaxCards] /\ mishap \in [Notes -> BOOLEAN]
  BY DEF IInv, TypeOK
<1>6. phase' \in [Notifiers -> {"idle", "sending", "accepted", "failed"}]
      /\ phase'[f] = p /\ \A g \in Notifiers \ {f} : phase'[g] = phase[g]
  BY <1>2, <1>5
<1>7. /\ cards' \in [Notes -> 0..MaxCards]
      /\ \A m \in Notes \ {n} : cards'[m] = cards[m]
      /\ \A m \in Notes : cards[m] > 0 => cards'[m] > 0
      /\ p = "accepted" => cards'[n] > 0
      /\ p = "accepted" /\ cards[n] = 0 => cards'[n] = 1
  <2>1. OneMore(cards[n]) \in 0..MaxCards /\ OneMore(cards[n]) > 0
        /\ (cards[n] = 0 => OneMore(cards[n]) = 1)
    BY <1>1, <1>5, OneMoreCard
  <2>2. CASE cards' = [cards EXCEPT ![n] = OneMore(@)]
    BY <2>1, <2>2, <1>1, <1>5
  <2>3. CASE cards' = cards /\ phase' = [phase EXCEPT ![f] = "failed"]
    <3>1. p = "failed"
      BY <2>3, <1>5, <1>6
    <3> QED
      BY <2>3, <3>1, <1>5
  <2> QED
    BY <2>2, <2>3, <1>3
<1>8. mishap' \in [Notes -> BOOLEAN] /\ \A m \in Notes : ~mishap'[m] => ~mishap[m]
  BY <1>4, <1>5, <1>1
<1>9. TypeOK'
  <2>1. \A g \in Notifiers : phase'[g] = "idle" <=> note'[g] = NoNote
    BY <1>1, <1>6 DEF IInv, TypeOK
  <2> QED
    BY <2>1, <1>1, <1>6, <1>7, <1>8 DEF IInv, TypeOK
<1>10. RowsPosted'
  BY <1>1, RowsKept
<1>11. KeptHasCard'
  <2>1. \A m \in Notes : outbox'[m].status \in {"DELIVERED", "DELETED"} => cards'[m] > 0
    BY <1>1, <1>7 DEF IInv, KeptHasCard
  <2>2. ASSUME NEW g \in Notifiers, phase'[g] = "accepted" PROVE cards'[note'[g]] > 0
    <3>1. CASE g = f
      BY <3>1, <2>2, <1>1, <1>6, <1>7 DEF n
    <3>2. CASE g # f
      <4>1. phase[g] = "accepted" /\ note'[g] = note[g]
        BY <3>2, <2>2, <1>1, <1>6
      <4>2. note[g] \in Notes /\ cards[note[g]] > 0
        BY <4>1, InHand DEF IInv, KeptHasCard
      <4> QED
        BY <4>1, <4>2, <1>7
    <3> QED
      BY <3>1, <3>2
  <2> QED
    BY <2>1, <2>2 DEF KeptHasCard
<1>12. WorkOnRows'
  BY <1>1, <1>6 DEF IInv, WorkOnRows
<1>13. QuietUnlessMishap'
  <2> SUFFICES ASSUME NEW m \in Notes, ~mishap'[m] PROVE Quiet(m)'
    BY DEF QuietUnlessMishap
  <2>1. ~mishap[m] /\ Quiet(m)
    BY <1>8 DEF IInv, QuietUnlessMishap
  <2>2. CASE m = n
    <3>1. ClaimStands(f) /\ cards[n] = 0 /\ \A g \in Notifiers : note[g] = n => g = f
      BY <2>1, <2>2, <1>1, FirstCard DEF n
    <3>2. \/ p = "accepted" /\ cards'[n] = 1
          \/ cards'[n] = 0
      <4>1. mishap'[n] = FALSE /\ mishap' # [mishap EXCEPT ![n] = TRUE]
        BY <2>2, <1>1, <1>5, <1>8
      <4>2. CASE mishap' = mishap /\ phase' = [phase EXCEPT ![f] = "accepted"]
        BY <4>2, <3>1, <1>5, <1>6, <1>7
      <4>3. CASE mishap' = mishap /\ cards' = cards
        BY <4>3, <3>1
      <4> QED
        BY <4>1, <4>2, <4>3, <1>4
    <3>3. \A g \in Notifiers : note'[g] = n => ClaimStands(g)'
      BY <3>1, <1>1 DEF ClaimStands
    <3>4. note'[f] = n
      BY <1>1 DEF n
    <3> QED
      BY <2>2, <3>2, <3>3, <3>4, <1>6 DEF Quiet
  <2>3. CASE m # n
    <3>1. \A g \in Notifiers : note[g] = m /\ phase[g] = "accepted"
                                 => note'[g] = m /\ phase'[g] = "accepted"
      BY <1>1, <1>6
    <3>2. cards'[m] = cards[m]
      BY <2>3, <1>7
    <3> QED
      BY <3>1, <3>2, <2>1, <1>1, QuietKept
  <2> QED
    BY <2>2, <2>3
<1> QED
  BY <1>9, <1>10, <1>11, <1>12, <1>13 DEF IInv

\* A Notifier lets its notification go and changes nothing else: that is a
\* mishap if the card was accepted, or if its claim had lapsed.
LEMMA LetGo ==
  ASSUME IInv, NEW f \in Notifiers, note[f] \in Notes,
         UNCHANGED <<status, posted, outbox, sooner, cards>>,
         phase' = [phase EXCEPT ![f] = "idle"], note' = [note EXCEPT ![f] = NoNote],
         \/ mishap' = mishap /\ (phase[f] # "accepted" \/ mishap[note[f]])
         \/ mishap' = [mishap EXCEPT ![note[f]] = TRUE]
  PROVE  IInv'
<1>1. /\ phase' \in [Notifiers -> {"idle", "sending", "accepted", "failed"}]
      /\ note' \in [Notifiers -> Notes \union {NoNote}]
      /\ phase'[f] = "idle" /\ note'[f] = NoNote
      /\ \A g \in Notifiers \ {f} : phase'[g] = phase[g] /\ note'[g] = note[g]
  BY DEF IInv, TypeOK
<1>2. /\ mishap' \in [Notes -> BOOLEAN]
      /\ \A m \in Notes : ~mishap'[m] => ~mishap[m] /\ (phase[f] # "accepted" \/ m # note[f])
  BY DEF IInv, TypeOK
<1>3. TypeOK'
  <2>1. \A g \in Notifiers : phase'[g] = "idle" <=> note'[g] = NoNote
    BY <1>1 DEF IInv, TypeOK
  <2> QED
    BY <2>1, <1>1, <1>2 DEF IInv, TypeOK
<1>4. RowsPosted' /\ KeptHasCard' /\ WorkOnRows'
  BY <1>1 DEF IInv, RowsPosted, KeptHasCard, WorkOnRows
<1>5. QuietUnlessMishap'
  <2> SUFFICES ASSUME NEW m \in Notes, ~mishap'[m] PROVE Quiet(m)'
    BY DEF QuietUnlessMishap
  <2>1. Quiet(m)
    BY <1>2 DEF IInv, QuietUnlessMishap
  <2>2. \A g \in Notifiers : note'[g] = m => note[g] = m
    BY <1>1, NoNoteAssumption
  <2>3. \A g \in Notifiers : note[g] = m /\ phase[g] = "accepted"
                               => note'[g] = m /\ phase'[g] = "accepted"
    BY <1>1, <1>2
  <2> QED
    BY <2>1, <2>2, <2>3, QuietKept
<1> QED
  BY <1>3, <1>4, <1>5 DEF IInv

\* Updating a claimed row: it is unlocked if the claim stands, and left alone
\* otherwise, which a mishap has already explained.
LEMMA SettleStep ==
  ASSUME IInv, NEW f \in Notifiers, Settles(f)
  PROVE  IInv'
<1> DEFINE n == note[f]
<1>1. phase[f] \in {"accepted", "failed"} /\ n \in Notes
      /\ UNCHANGED <<status, posted, cards, mishap>>
      /\ phase' = [phase EXCEPT ![f] = "idle"] /\ note' = [note EXCEPT ![f] = NoNote]
  BY InHand DEF Settles, Acknowledge, Reschedule, Rest
<1>2. CASE ~ClaimStands(f)
  <2>1. UNCHANGED <<outbox, sooner>>
    BY <1>2 DEF Settles, Acknowledge, Reschedule
  <2> QED
    BY <2>1, <1>1, <1>2, LetGo DEF IInv, QuietUnlessMishap, Quiet
<1>3. CASE ClaimStands(f)
  <2>1. PICK s \in {"DELIVERED", "PENDING"}, d \in 0..BackoffTicks :
          /\ outbox' = [outbox EXCEPT ![n] = Unlocked(s, d)]
          /\ sooner' \subseteq Notes \X Notes
          /\ s = "DELIVERED" <=> phase[f] = "accepted"
    <3>1. sooner \subseteq Notes \X Notes
      BY DEF IInv, TypeOK
    <3>2. CASE Acknowledge(f)
      BY <3>1, <3>2, <1>1, <1>3, ScheduledPairs DEF Acknowledge
    <3>3. ASSUME NEW d \in 0..BackoffTicks, Reschedule(f, d)
          PROVE  \E s \in {"DELIVERED", "PENDING"}, e \in 0..BackoffTicks :
                   /\ outbox' = [outbox EXCEPT ![n] = Unlocked(s, e)]
                   /\ sooner' \subseteq Notes \X Notes
                   /\ s = "DELIVERED" <=> phase[f] = "accepted"
      <4>1. phase[f] = "failed" /\ outbox' = [outbox EXCEPT ![n] = Unlocked("PENDING", d)]
            /\ sooner' = Scheduled(n, d)
        BY <3>3, <1>3 DEF Reschedule
      <4>2. sooner' \subseteq Notes \X Notes
        BY <3>1, <4>1, <1>1, ScheduledPairs
      <4> QED
        BY <4>1, <4>2
    <3> QED
      BY <3>2, <3>3 DEF Settles
  <2> HIDE DEF n
  <2>2. Unlocked(s, d) \in Row /\ Unlocked(s, d).status = s /\ Unlocked(s, d).holder = Nobody
    BY UnlockedRow
  <2>3. outbox' \in [Notes -> Row] /\ outbox'[n].status = s /\ outbox'[n].holder = Nobody
        /\ \A m \in Notes \ {n} : outbox'[m] = outbox[m]
    BY <2>1, <2>2, <1>1 DEF IInv, TypeOK
  <2>4. /\ phase' \in [Notifiers -> {"idle", "sending", "accepted", "failed"}]
        /\ note' \in [Notifiers -> Notes \union {NoNote}]
        /\ phase'[f] = "idle" /\ note'[f] = NoNote
        /\ \A g \in Notifiers \ {f} : phase'[g] = phase[g] /\ note'[g] = note[g]
    BY <1>1 DEF IInv, TypeOK
  <2>5. TypeOK'
    <3>1. \A m \in Notes : outbox'[m].holder # Nobody <=> outbox'[m].status = "IN_FLIGHT"
      BY <2>3 DEF IInv, TypeOK
    <3>2. \A g \in Notifiers : phase'[g] = "idle" <=> note'[g] = NoNote
      BY <2>4 DEF IInv, TypeOK
    <3> QED
      BY <3>1, <3>2, <2>1, <2>3, <2>4, <1>1 DEF IInv, TypeOK
  <2>6. outbox[n].status = "IN_FLIGHT"
    BY <1>3 DEF ClaimStands, n
  <2>7. RowsPosted'
    BY <1>1, <2>3, <2>6, RowsKept
  <2>8. KeptHasCard'
    <3>1. s = "DELIVERED" => cards[n] > 0
      BY <2>1 DEF IInv, KeptHasCard, n
    <3>2. \A m \in Notes : outbox'[m].status \in {"DELIVERED", "DELETED"} => cards[m] > 0
      BY <3>1, <2>3 DEF IInv, KeptHasCard
    <3>3. \A g \in Notifiers : phase'[g] = "accepted" => cards[note'[g]] > 0
      BY <2>4 DEF IInv, KeptHasCard
    <3> QED
      BY <3>2, <3>3, <1>1 DEF KeptHasCard
  <2>9. WorkOnRows'
    <3> SUFFICES ASSUME NEW g \in Notifiers, phase'[g] # "idle"
                 PROVE  outbox'[note'[g]].status # "ABSENT"
      BY DEF WorkOnRows
    <3>1. g # f /\ phase[g] # "idle" /\ note'[g] = note[g]
      BY <2>4
    <3>2. note[g] \in Notes /\ outbox[note[g]].status # "ABSENT"
      BY <3>1, InHand DEF IInv, WorkOnRows
    <3> QED
      BY <3>1, <3>2, <2>3
  <2>10. QuietUnlessMishap'
    <3> SUFFICES ASSUME NEW m \in Notes, ~mishap[m] PROVE Quiet(m)'
      BY <1>1 DEF QuietUnlessMishap
    <3>1. Quiet(m)
      BY DEF IInv, QuietUnlessMishap
    <3>2. CASE m = n
      <4>1. \A g \in Notifiers : note[g] = n => g = f
        BY <3>1, <3>2, <1>3, OneClaimStands DEF Quiet, n
      <4>2. \A g \in Notifiers : note'[g] # n
        BY <4>1, <2>4, <1>1, NoNoteAssumption
      <4>3. cards[n] = 1 => s = "DELIVERED"
        BY <3>1, <3>2, <4>1, <2>1, <2>6 DEF Quiet
      <4> QED
        BY <3>1, <3>2, <4>2, <4>3, <1>1, <2>3 DEF Quiet
    <3>3. CASE m # n
      <4>1. outbox'[m] = outbox[m] /\ cards'[m] = cards[m]
        BY <3>3, <1>1, <2>3
      <4>2. \A g \in Notifiers : note'[g] = m => note[g] = m
        BY <2>4, NoNoteAssumption
      <4>3. \A g \in Notifiers : note[g] = m /\ phase[g] = "accepted"
                                   => note'[g] = m /\ phase'[g] = "accepted"
        BY <3>3, <2>4 DEF n
      <4> QED
        BY <3>1, <4>1, <4>2, <4>3, QuietKept
    <3> QED
      BY <3>2, <3>3
  <2> QED
    BY <2>5, <2>7, <2>8, <2>9, <2>10 DEF IInv
<1> QED
  BY <1>2, <1>3

\* A Notifier dies.
LEMMA CrashStep ==
  ASSUME IInv, NEW f \in Notifiers, Crash(f)
  PROVE  IInv'
<1>1. /\ UNCHANGED <<status, posted, outbox, sooner, cards>>
      /\ phase' = [phase EXCEPT ![f] = "idle"] /\ note' = [note EXCEPT ![f] = NoNote]
      /\ note[f] \in Notes
  BY InHand DEF Crash, Rest
<1>2. CASE phase[f] = "accepted"
  BY <1>1, <1>2, LetGo DEF Crash
<1>3. CASE phase[f] # "accepted"
  BY <1>1, <1>3, LetGo DEF Crash
<1> QED
  BY <1>2, <1>3

\* Time: a claim in hand that lapses is a mishap.
LEMMA TickStep ==
  ASSUME IInv, Tick
  PROVE  IInv'
<1>1. /\ outbox' = [n \in Notes |-> [outbox[n] EXCEPT !.ttl = Lower(@), !.due = Lower(@)]]
      /\ mishap' = [n \in Notes |->
           mishap[n] \/ \E f \in Notifiers : note[f] = n /\ outbox[n].ttl = 1]
      /\ UNCHANGED <<status, posted, sooner, phase, note, cards>>
  BY DEF Tick
<1>2. ASSUME NEW m \in Notes
      PROVE  /\ outbox'[m] \in Row
             /\ outbox'[m].status = outbox[m].status
             /\ outbox'[m].holder = outbox[m].holder
             /\ outbox[m].ttl > 1 => outbox'[m].ttl > 0
             /\ outbox[m].ttl \in Nat
  <2>1. outbox[m] \in Row
    BY DEF IInv, TypeOK
  <2>2. outbox'[m] = [outbox[m] EXCEPT !.ttl = Lower(@), !.due = Lower(@)]
    BY <1>1
  <2>3. outbox'[m] = [status |-> outbox[m].status, holder |-> outbox[m].holder,
                      ttl |-> Lower(outbox[m].ttl), due |-> Lower(outbox[m].due)]
    BY <2>1, <2>2 DEF Row
  <2>4. /\ outbox[m].ttl \in 0..LeaseTicks /\ outbox[m].due \in 0..BackoffTicks
        /\ outbox[m].status \in {"ABSENT", "PENDING", "IN_FLIGHT", "DELIVERED", "DELETED"}
        /\ outbox[m].holder \in Notifiers \union {Nobody}
    BY <2>1 DEF Row
  <2>5. /\ Lower(outbox[m].ttl) \in 0..LeaseTicks /\ Lower(outbox[m].due) \in 0..BackoffTicks
        /\ outbox[m].ttl > 1 => Lower(outbox[m].ttl) > 0
    BY <2>4 DEF Lower
  <2> QED
    BY <2>3, <2>4, <2>5 DEF Row
<1>3. \A m \in Notes : mishap'[m] \in BOOLEAN /\ (~mishap'[m] => ~mishap[m])
  BY <1>1 DEF IInv, TypeOK
<1>4. TypeOK'
  <2>1. outbox' \in [Notes -> Row] /\ mishap' \in [Notes -> BOOLEAN]
    BY <1>1, <1>2, <1>3
  <2>2. \A m \in Notes : outbox'[m].holder # Nobody <=> outbox'[m].status = "IN_FLIGHT"
    BY <1>2 DEF IInv, TypeOK
  <2> QED
    BY <1>1, <2>1, <2>2 DEF IInv, TypeOK
<1>5. RowsPosted'
  BY <1>1, <1>2, RowsKept
<1>6. KeptHasCard'
  BY <1>1, <1>2 DEF IInv, KeptHasCard
<1>7. WorkOnRows'
  <2> SUFFICES ASSUME NEW f \in Notifiers, phase[f] # "idle"
               PROVE  outbox'[note[f]].status # "ABSENT"
    BY <1>1 DEF WorkOnRows
  <2>1. note[f] \in Notes /\ outbox[note[f]].status # "ABSENT"
    BY InHand DEF IInv, WorkOnRows
  <2> QED
    BY <2>1, <1>2
<1>8. QuietUnlessMishap'
  <2> SUFFICES ASSUME NEW m \in Notes, ~mishap'[m] PROVE Quiet(m)'
    BY DEF QuietUnlessMishap
  <2>1. Quiet(m)
    BY <1>3 DEF IInv, QuietUnlessMishap
  <2>2. \A f \in Notifiers : note[f] = m => ClaimStands(f)'
    <3> SUFFICES ASSUME NEW f \in Notifiers, note[f] = m PROVE ClaimStands(f)'
      OBVIOUS
    <3>1. outbox[m].status = "IN_FLIGHT" /\ outbox[m].holder = f /\ outbox[m].ttl > 0
      BY <2>1 DEF Quiet, ClaimStands
    <3>2. outbox[m].ttl # 1
      BY <1>1
    <3>3. outbox[m].ttl > 1
      BY <3>1, <3>2, <1>2
    <3> QED
      BY <3>1, <3>3, <1>1, <1>2 DEF ClaimStands
  <2> QED
    BY <2>1, <2>2, <1>1, <1>2 DEF Quiet
<1> QED
  BY <1>4, <1>5, <1>6, <1>7, <1>8 DEF IInv

\* Idle steps.
LEMMA StutterStep == IInv /\ UNCHANGED vars => IInv'
BY DEF IInv, vars, TypeOK, RowsPosted, KeptHasCard, WorkOnRows, QuietUnlessMishap, Quiet,
       ClaimStands

\* The invariant is inductive.
LEMMA NextIInv == IInv /\ [Next]_vars => IInv'
BY MoveSteps, DeleteStep, ClaimStep, SendStep, SettleStep, CrashStep, TickStep, StutterStep
   DEF Next, JobStep, NotifierStep

\* The invariant holds in every reachable state.
LEMMA Invariance == Spec => []IInv
BY InitIInv, NextIInv, PTL DEF Spec

-----------------------------------------------------------------------------
(* Theorems *)

\* The outbox and the Notifiers keep their shapes, lock discipline included.
THEOREM TypeCorrect == Spec => []TypeOK
BY Invariance, PTL DEF IInv

\* A card is accepted twice only after one of the named mishaps, however many
\* Notifiers compete (NotifierService.deliver_once).
THEOREM NoNeedlessDuplicate == Spec => []DuplicateNeedsMishap
<1>1. IInv => DuplicateNeedsMishap
  <2> SUFFICES ASSUME IInv, NEW n \in Notes, ~mishap[n] PROVE ~(cards[n] > 1)
    BY DEF DuplicateNeedsMishap
  <2>1. cards[n] \in Nat /\ cards[n] <= 1
    BY DEF IInv, TypeOK, QuietUnlessMishap, Quiet
  <2> QED
    BY <2>1
<1> QED
  BY <1>1, Invariance, PTL

-----------------------------------------------------------------------------
(* The at-least-once promise *)

\* Every step keeps the promise's state, owes a new notification, sends a
\* card for one that is owed or kept, or keeps one that has a card.
PromiseStep ==
  LET was == [m \in Notes |-> Stage(m)]
      is  == [m \in Notes |-> Stage(m)']  IN
  \/ is = was /\ cards' = cards
  \/ \E n \in Notes :
       \/ was[n] = "none" /\ is = [was EXCEPT ![n] = "owed"] /\ cards' = cards
       \/ /\ was[n] # "none" /\ is = was
          /\ cards' = [cards EXCEPT ![n] = IF @ < MaxCards THEN @ + 1 ELSE @]
       \/ /\ was[n] = "owed" /\ cards[n] > 0
          /\ is = [was EXCEPT ![n] = "kept"] /\ cards' = cards

\* A row that keeps its side of the status stays at its stage.
LEMMA StageKept ==
  ASSUME \A m \in Notes : Stage(m)' = Stage(m), cards' = cards
  PROVE  PromiseStep
BY DEF PromiseStep

\* Inserting a row is owing its notification.
LEMMA PostOwes ==
  ASSUME IInv, NEW j \in Jobs, Post(j), cards' = cards
  PROVE  PromiseStep
<1>1. PICK n \in Notes : n = <<j, posted[j] + 1>> /\ outbox[n].status = "ABSENT"
  <2>1. posted[j] \in 0..MaxEvents /\ posted[j] < MaxEvents
    BY DEF IInv, TypeOK, Post
  <2>2. posted[j] + 1 \in 1..MaxEvents /\ posted[j] + 1 > posted[j]
    BY <2>1
  <2> QED
    BY <2>2 DEF IInv, RowsPosted, Notes
<1>2. outbox' = [outbox EXCEPT ![n] = Unlocked("PENDING", 0)]
  BY <1>1 DEF Post
<1>3. outbox'[n].status = "PENDING" /\ \A m \in Notes \ {n} : outbox'[m] = outbox[m]
  <2>1. outbox \in [Notes -> Row]
    BY DEF IInv, TypeOK
  <2>2. outbox'[n].status = "PENDING"
    BY <2>1, <1>2 DEF Unlocked
  <2>3. \A m \in Notes \ {n} : outbox'[m] = outbox[m]
    BY <2>1, <1>2
  <2> QED
    BY <2>2, <2>3
<1>4. /\ Stage(n) = "none" /\ Stage(n)' = "owed"
      /\ \A m \in Notes \ {n} : Stage(m)' = Stage(m)
  <2>1. Stage(n) = "none"
    BY <1>1 DEF Stage, Undelivered
  <2>2. Stage(n)' = "owed"
    BY <1>3 DEF Stage, Undelivered
  <2>3. \A m \in Notes \ {n} : Stage(m)' = Stage(m)
    BY <1>3 DEF Stage, Undelivered
  <2> QED
    BY <2>1, <2>2, <2>3
<1>5. [m \in Notes |-> Stage(m)'] = [[m \in Notes |-> Stage(m)] EXCEPT ![n] = "owed"]
  BY <1>1, <1>4
<1> QED
  BY <1>1, <1>4, <1>5 DEF PromiseStep

\* A send that reached Feishu is a card for a notification that is owed, or
\* was kept meanwhile by another Notifier.
LEMMA SendIsCard ==
  ASSUME IInv, NEW f \in Notifiers, SendEnds(f)
  PROVE  PromiseStep
<1> DEFINE n == note[f]
<1>1. n \in Notes /\ outbox[n].status # "ABSENT" /\ outbox' = outbox
  BY InHand DEF SendEnds, Accepted, AcceptedUnheard, Refused, IInv, WorkOnRows
<1>2. cards' = [cards EXCEPT ![n] = OneMore(@)] \/ cards' = cards
  BY DEF SendEnds, Accepted, AcceptedUnheard, Refused
<1>3. \A m \in Notes : Stage(m)' = Stage(m)
  BY <1>1 DEF Stage, Undelivered
<1>4. Stage(n) # "none"
  BY <1>1 DEF Stage
<1>5. CASE cards' = cards
  BY <1>3, <1>5, StageKept
<1>6. CASE cards' = [cards EXCEPT ![n] = OneMore(@)]
  BY <1>1, <1>3, <1>4, <1>6 DEF PromiseStep, OneMore
<1> QED
  BY <1>2, <1>5, <1>6

\* Acknowledging keeps the promise; rescheduling leaves it owed.
LEMMA SettleKeeps ==
  ASSUME IInv, NEW f \in Notifiers, Settles(f)
  PROVE  PromiseStep
<1>0. note[f] \in Notes
  BY InHand DEF Settles, Acknowledge, Reschedule
<1>1. PICK n \in Notes : n = note[f]
  BY <1>0
<1>4. cards' = cards /\ outbox \in [Notes -> Row]
  BY DEF Settles, Acknowledge, Reschedule, IInv, TypeOK
<1>2. CASE ~ClaimStands(f)
  BY <1>4, <1>2, StageKept DEF Settles, Acknowledge, Reschedule, Stage, Undelivered
<1>3. CASE ClaimStands(f)
  <2>1. Stage(n) = "owed"
    BY <1>1, <1>3 DEF ClaimStands, Stage, Undelivered
  <2>2. CASE Acknowledge(f)
    <3>1. outbox' = [outbox EXCEPT ![n] = Unlocked("DELIVERED", 0)] /\ cards[n] > 0
      BY <1>1, <2>2, <1>3 DEF Acknowledge, IInv, KeptHasCard
    <3>2. /\ Stage(n)' = "kept"
          /\ \A m \in Notes \ {n} : Stage(m)' = Stage(m)
      <4>1. outbox'[n].status = "DELIVERED"
        BY <3>1, <1>4 DEF Unlocked
      <4>2. \A m \in Notes \ {n} : outbox'[m] = outbox[m]
        BY <3>1, <1>4
      <4>3. Stage(n)' = "kept"
        BY <4>1 DEF Stage, Undelivered
      <4>4. \A m \in Notes \ {n} : Stage(m)' = Stage(m)
        BY <4>2 DEF Stage, Undelivered
      <4> QED
        BY <4>3, <4>4
    <3>3. [m \in Notes |-> Stage(m)'] = [[m \in Notes |-> Stage(m)] EXCEPT ![n] = "kept"]
      BY <3>2
    <3> QED
      BY <1>4, <2>1, <3>1, <3>3 DEF PromiseStep
  <2>3. ASSUME NEW d \in 0..BackoffTicks, Reschedule(f, d) PROVE PromiseStep
    <3>1. outbox' = [outbox EXCEPT ![n] = Unlocked("PENDING", d)]
      BY <1>1, <2>3, <1>3 DEF Reschedule
    <3>2. \A m \in Notes : Stage(m)' = Stage(m)
      BY <2>1, <3>1, <1>4 DEF Stage, Undelivered, Unlocked
    <3> QED
      BY <3>2, <1>4, StageKept
  <2> QED
    BY <2>2, <2>3 DEF Settles
<1> QED
  BY <1>2, <1>3

\* The other steps keep every row on its side.
LEMMA OthersKeep ==
  ASSUME IInv,
         \/ \E j \in Jobs : DeleteJob(j)
         \/ \E f \in Notifiers : Claim(f) \/ Crash(f)
         \/ Tick
         \/ UNCHANGED vars
  PROVE  PromiseStep
<1>0. outbox \in [Notes -> Row]
  BY DEF IInv, TypeOK
<1>1. ASSUME NEW j \in Jobs, DeleteJob(j) PROVE PromiseStep
  <2>1. \A m \in Notes : Stage(m)' = Stage(m)
    BY <1>0, <1>1 DEF DeleteJob, Deletable, Undelivered, Stage, Unlocked
  <2> QED
    BY <1>1, <2>1, StageKept DEF DeleteJob
<1>2. ASSUME NEW f \in Notifiers, Claim(f) PROVE PromiseStep
  <2>1. PICK n \in Notes : Claimable(n) /\ outbox' = [outbox EXCEPT ![n] = Locked(f, @.due)]
    BY <1>2 DEF Claim
  <2>2. \A m \in Notes : Stage(m)' = Stage(m)
    BY <1>0, <2>1 DEF Claimable, Undelivered, Stage, Locked
  <2> QED
    BY <1>2, <2>2, StageKept DEF Claim
<1>3. ASSUME NEW f \in Notifiers, Crash(f) PROVE PromiseStep
  BY <1>3, StageKept DEF Crash, Stage, Undelivered
<1>4. CASE Tick
  <2>1. \A m \in Notes : outbox'[m].status = outbox[m].status
    BY <1>0, <1>4 DEF Tick, Row
  <2>2. \A m \in Notes : Stage(m)' = Stage(m)
    BY <2>1 DEF Stage, Undelivered
  <2> QED
    BY <1>4, <2>2, StageKept DEF Tick
<1>5. CASE UNCHANGED vars
  BY <1>5, StageKept DEF vars, Stage, Undelivered
<1> QED
  BY <1>1, <1>2, <1>3, <1>4, <1>5

\* Moving a Job owes a notification or changes nothing here.
LEMMA MoveOwes ==
  ASSUME IInv, NEW j \in Jobs, CreateJob(j) \/ \E to \in JobStatuses : MoveJob(j, to)
  PROVE  PromiseStep
<1>1. cards' = cards /\ (Post(j) \/ outbox' = outbox)
  BY DEF CreateJob, MoveJob
<1>2. CASE Post(j)
  BY <1>1, <1>2, PostOwes
<1>3. CASE outbox' = outbox
  BY <1>1, <1>3, StageKept DEF Stage, Undelivered
<1> QED
  BY <1>1, <1>2, <1>3

\* The outbox with its leases, crashes and retention implements at-least-once
\* delivery (docs/adr/0013): no notification is forgotten before a card of it
\* was accepted.
THEOREM PromiseKept == Spec => ImplementsPromise
<1>1. Init => Promise!Init
  BY DEF Init, Promise!Init, Stage, Unlocked, Undelivered
<1>2. IInv /\ [Next]_vars => PromiseStep
  BY MoveOwes, SendIsCard, SettleKeeps, OthersKeep
     DEF Next, JobStep, NotifierStep
<1>3. PromiseStep => [Promise!Next]_(Promise!vars)
  BY DEF PromiseStep, Promise!Next, Promise!vars, Promise!Owe, Promise!Card, Promise!Keep
<1> QED
  BY <1>1, <1>2, <1>3, Invariance, PTL DEF Spec, ImplementsPromise, Promise!Spec

=============================================================================
