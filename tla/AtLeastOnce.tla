---------------------------- MODULE AtLeastOnce -----------------------------
(***************************************************************************)
(* What docs/adr/0013 promises of a Notification, without leases, crashes  *)
(* or time: it is owed from the moment its event is committed until a card *)
(* has been accepted, and is never forgotten in between.                   *)
(***************************************************************************)
EXTENDS Integers

CONSTANTS Notes, MaxCards

VARIABLES
  stage,  \* stage[n]: nothing owed yet, owed, or kept
  cards   \* cards[n]: cards the destination accepted, counted up to MaxCards

vars == <<stage, cards>>

Init ==
  /\ stage = [n \in Notes |-> "none"]
  /\ cards = [n \in Notes |-> 0]

Owe(n) ==
  /\ stage[n] = "none"
  /\ stage' = [stage EXCEPT ![n] = "owed"]
  /\ UNCHANGED cards

\* A card may also arrive again after the promise was kept: at least once.
Card(n) ==
  /\ stage[n] # "none"
  /\ cards' = [cards EXCEPT ![n] = IF @ < MaxCards THEN @ + 1 ELSE @]
  /\ UNCHANGED stage

Keep(n) ==
  /\ stage[n] = "owed"
  /\ cards[n] > 0
  /\ stage' = [stage EXCEPT ![n] = "kept"]
  /\ UNCHANGED cards

Next == \E n \in Notes : Owe(n) \/ Card(n) \/ Keep(n)

Spec == Init /\ [][Next]_vars

=============================================================================
