------------------------------ MODULE NumberFacts ------------------------------
(***************************************************************************)
(* Facts about natural numbers that the proofs of several components need:    *)
(* a least element, induction up to a bound, and the arithmetic of a ring.    *)
(* Induction is stated over sets, for the provers cannot instantiate an      *)
(* operator: the set of the numbers that satisfy a formula stands for it.     *)
(***************************************************************************)
EXTENDS Integers, WellFoundedInduction, TLAPS

\* A nonempty set of natural numbers has a least element.
LEMMA Least ==
  ASSUME NEW S \in SUBSET Nat, S # {}
  PROVE  \E i \in S : \A j \in S : i <= j
<1>1. PICK i \in S : \A j \in S : <<j, i>> \notin OpToRel(<, Nat)
  BY NatLessThanWellFounded, WFMin, Zenon
<1>2. \A j \in S : ~(j < i)
  BY <1>1 DEF OpToRel
<1> QED
  BY <1>2

\* A set that holds 0 and with each number below n the next holds all up to n:
\* the least number outside of it would have a predecessor inside.
LEMMA Upwards ==
  ASSUME NEW n \in Nat, NEW S, 0 \in S,
         \A i \in 0 .. n - 1 : i \in S => i + 1 \in S
  PROVE  0 .. n \subseteq S
<1> SUFFICES ASSUME ~(0 .. n \subseteq S) PROVE FALSE
  OBVIOUS
<1> DEFINE Out == (0 .. n) \ S
<1>1. Out \in SUBSET Nat /\ Out # {}
  OBVIOUS
<1> HIDE DEF Out
<1>2. PICK i \in Out : \A j \in Out : i <= j
  BY <1>1, Least
<1> USE DEF Out
<1>3. i > 0 /\ i - 1 \in 0 .. n - 1 /\ i - 1 \in S
  BY <1>2
<1> QED
  BY <1>2, <1>3

\* Below the size, the remainder is the index itself.
LEMMA ModBelow ==
  ASSUME NEW M \in Nat, NEW i \in Nat, i < M
  PROVE  i % M = i
OBVIOUS

\* One round further it is the index less the size.
LEMMA ModRound ==
  ASSUME NEW M \in Nat, NEW i \in Nat, M <= i, i < M + M
  PROVE  i % M = i - M
OBVIOUS

\* The cell n places after h.
LEMMA CellAfter ==
  ASSUME NEW M \in Nat, NEW h \in 0 .. M - 1, NEW n \in 0 .. M
  PROVE  /\ h + n < M => (h + n) % M = h + n
         /\ h + n >= M => (h + n) % M = h + n - M
         /\ (h + n) % M \in 0 .. M - 1
<1>1. CASE h + n < M
  <2>1. (h + n) % M = h + n
    BY <1>1, ModBelow
  <2> QED
    BY <1>1, <2>1
<1>2. CASE h + n >= M
  <2>1. (h + n) % M = h + n - M
    BY <1>2, ModRound
  <2> QED
    BY <1>2, <2>1
<1> QED
  BY <1>1, <1>2
=============================================================================
