---------------------------- MODULE NumberLemmas ----------------------------
(***************************************************************************)
(* The least number principle, for the proofs about the first of several:  *)
(* the end of a batch of tool calls (AgentLoop), the next free sub-agent   *)
(* (SubAgents) or run (TerminalSession), the first result that fits        *)
(* (ContextWindow), the first number a page is without (ControlApi).       *)
(***************************************************************************)
EXTENDS Naturals, WellFoundedInduction, TLAPS

\* Every set of numbers that is not empty has a least member.
LEMMA LeastNumber == ASSUME NEW T, T \subseteq Nat, T # {} PROVE \E n \in T : \A m \in T : n <= m
<1> DEFINE Less == {p \in Nat \X Nat : p[1] < p[2]}
<1>1. IsWellFoundedOn(Less, Nat)
  <2>1. Less = OpToRel(<, Nat)
    BY DEF OpToRel
  <2>2. QED BY <2>1, NatLessThanWellFounded
<1> HIDE DEF Less
<1>2. PICK n \in T : \A m \in T : ~(<<m, n>> \in Less)
  BY <1>1, WFMin
<1>3. ASSUME NEW m \in T PROVE n <= m
  <2>1. n \in Nat /\ m \in Nat /\ <<m, n>> \notin Less
    BY <1>2
  <2>2. ~(m < n)
    BY <2>1 DEF Less
  <2>3. QED BY <2>1, <2>2
<1>4. QED BY <1>3
=============================================================================
