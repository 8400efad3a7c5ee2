----------------------------- MODULE NatLemmas -----------------------------
(***************************************************************************)
(* Induction over the naturals without an operator parameter: a nonempty   *)
(* set of naturals has a least element.  From it, that a function defined  *)
(* step by step exists.                                                    *)
(***************************************************************************)
EXTENDS Integers, WellFoundedInduction, TLAPS

(* A nonempty set of naturals has a least element.                         *)
LEMMA LeastNatural ==
  ASSUME NEW T \in SUBSET Nat, T # {}
  PROVE  \E m \in T : \A n \in T : m <= n
  <1> DEFINE R == OpToRel(<, Nat)
  <1>1. IsWellFoundedOn(R, Nat)
    BY NatLessThanWellFounded
  <1>2. \A x, y \in Nat : y < x => <<y, x>> \in R
    BY DEF OpToRel
  <1> HIDE DEF R
  <1>3. PICK x \in T : \A y \in T : ~(<<y, x>> \in R)
    BY <1>1, WFMin
  <1>4. \A y \in T : x \in Nat /\ y \in Nat /\ ~(y < x)
    BY <1>2, <1>3
  <1> QED
    BY <1>4

(* What holds at 0 and passes from each number to the next, up to n, holds *)
(* up to n.  The predicate is the set of the numbers that satisfy it.      *)
LEMMA InductionTo ==
  ASSUME NEW n \in Nat, NEW S, 0 \in S,
         \A i \in 1 .. n : i - 1 \in S => i \in S
  PROVE  0 .. n \subseteq S
  <1> DEFINE T == {i \in 0 .. n : i \notin S}
  <1> SUFFICES ASSUME T # {} PROVE FALSE
    OBVIOUS
  <1>1. PICK m \in T : \A i \in T : m <= i
    <2>1. T \in SUBSET Nat
      OBVIOUS
    <2> HIDE DEF T
    <2> QED
      BY <2>1, LeastNatural
  <1>2. m \in 1 .. n /\ m - 1 \in 0 .. n /\ m - 1 \notin T
    BY <1>1
  <1> QED
    BY <1>1, <1>2

(* Iterating a function from a value gives a function on 0 .. n.           *)
LEMMA Iterate ==
  ASSUME NEW n \in Nat, NEW A, NEW a \in A, NEW step \in [A -> A]
  PROVE  \E f \in [0 .. n -> A] :
           f = [i \in 0 .. n |-> IF i = 0 THEN a ELSE step[f[i - 1]]]
  <1> DEFINE Good(m) == \E f \in [0 .. m -> A] :
                          f[0] = a /\ \A i \in 1 .. m : f[i] = step[f[i - 1]]
             S == {m \in Nat : Good(m)}
  <1>1. 0 \in S
    <2> DEFINE f == [i \in 0 .. 0 |-> a]
    <2>1. f \in [0 .. 0 -> A] /\ f[0] = a /\ 1 .. 0 = {}
      OBVIOUS
    <2> HIDE DEF f
    <2>2. Good(0)
      BY <2>1
    <2> QED
      BY <2>2
  <1>2. ASSUME NEW m \in 1 .. n, m - 1 \in S PROVE m \in S
    <2>1. PICK f \in [0 .. m - 1 -> A] :
            f[0] = a /\ \A i \in 1 .. m - 1 : f[i] = step[f[i - 1]]
      BY <1>2
    <2> DEFINE g == [i \in 0 .. m |-> IF i = m THEN step[f[m - 1]] ELSE f[i]]
    <2>2. g \in [0 .. m -> A]
      BY <2>1
    <2>3. g[0] = a /\ \A i \in 1 .. m : g[i] = step[g[i - 1]]
      BY <2>1
    <2> HIDE DEF g
    <2> QED
      BY <2>2, <2>3
  <1>3. Good(n)
    <2> HIDE DEF S
    <2>1. 0 .. n \subseteq S
      BY <1>1, <1>2, InductionTo
    <2> QED
      BY <2>1 DEF S
  <1>4. PICK f \in [0 .. n -> A] : f[0] = a /\ \A i \in 1 .. n : f[i] = step[f[i - 1]]
    BY <1>3
  <1>5. f = [i \in 0 .. n |-> IF i = 0 THEN a ELSE step[f[i - 1]]]
    BY <1>4
  <1> QED
    BY <1>5
=============================================================================
