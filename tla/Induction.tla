------------------------------ MODULE Induction ------------------------------
(***************************************************************************)
(* Induction over the natural numbers, stated for sets instead of          *)
(* predicates so that a proof can apply it to what it has defined: to show *)
(* P(n) for all n, take the set of the n with P(n).  It follows from the   *)
(* finite subsets of a set being well-founded.                             *)
(***************************************************************************)
EXTENDS Integers, FiniteSetTheorems, WellFoundedInduction, TLAPS

(* Every set of natural numbers that is not empty has a least element.        *)
LEMMA LeastNat ==
  ASSUME NEW T, T \subseteq Nat, T # {}
  PROVE  \E x \in T : \A y \in T : x <= y
<1> DEFINE Upto(m) == T \cap (0 .. m)
           Initial == {Upto(m) : m \in T}
<1>1. Initial \subseteq FiniteSubsetsOf(Nat) /\ Initial # {}
  <2>1. ASSUME NEW m \in T PROVE Upto(m) \in FiniteSubsetsOf(Nat)
    <3>1. m \in Int /\ 0 \in Int
      OBVIOUS
    <3>2. IsFiniteSet(0 .. m)
      BY <3>1, FS_Interval, Zenon
    <3>3. IsFiniteSet(Upto(m))
      BY <3>2, FS_Subset
    <3> QED BY <3>3 DEF FiniteSubsetsOf
  <2> QED BY <2>1
<1>2. PICK A \in Initial : \A B \in Initial : <<B, A>> \notin StrictSubsetOrdering(Nat)
  <2> HIDE DEF Initial
  <2> QED BY <1>1, FS_StrictSubsetOrderingWellFounded, WFMin
<1>3. PICK x \in T : A = Upto(x)
  OBVIOUS
<1>4. ASSUME NEW y \in T, ~(x <= y) PROVE FALSE
  <2>1. Upto(y) \in SUBSET Nat /\ A \in SUBSET Nat /\ Upto(y) \subseteq A /\ Upto(y) # A
    BY <1>3, <1>4
  <2>2. <<Upto(y), A>> \in StrictSubsetOrdering(Nat)
    BY <2>1 DEF StrictSubsetOrdering
  <2> QED BY <2>2, <1>2
<1> QED BY <1>4

(* A set that has a number whenever it has all smaller ones has them all.     *)
LEMMA StrongInduction ==
  ASSUME NEW S, \A n \in Nat : (\A m \in Nat : m < n => m \in S) => n \in S
  PROVE  \A n \in Nat : n \in S
<1> SUFFICES ASSUME Nat \ S # {} PROVE FALSE
  OBVIOUS
<1>1. PICK n \in Nat \ S : \A m \in Nat \ S : n <= m
  BY LeastNat
<1>2. \A m \in Nat : m < n => m \in S
  BY <1>1
<1> QED BY <1>1, <1>2

(* A set that has 0 and with each number the next one has them all.           *)
LEMMA NatSetInduction ==
  ASSUME NEW S, 0 \in S, \A n \in Nat : n \in S => n + 1 \in S
  PROVE  \A n \in Nat : n \in S
<1>1. ASSUME NEW n \in Nat, \A m \in Nat : m < n => m \in S PROVE n \in S
  <2>1. CASE n = 0
    BY <2>1
  <2>2. CASE n # 0
    <3>1. n - 1 \in Nat /\ n - 1 < n /\ n = (n - 1) + 1
      BY <2>2
    <3> QED BY <3>1, <1>1
  <2> QED BY <2>1, <2>2
<1> QED BY <1>1, StrongInduction

\* A function g on 0 .. N may be defined by its value at 0, base, and its value at
\* every n as F makes it of n and the value at some smaller number pred[n].
Recursion(N, V, base, pred, F) ==
  /\ N \in Nat /\ base \in V /\ pred \in [1 .. N -> Nat] /\ \A n \in 1 .. N : pred[n] < n
  /\ F \in [(1 .. N) \X V -> V]
Defines(N, V, base, pred, F, g) ==
  g \in [0 .. N -> V] /\ g[0] = base /\ \A n \in 1 .. N : g[n] = F[<<n, g[pred[n]]>>]

(* A function defined in that way exists.                                     *)
LEMMA RecursionExists ==
  ASSUME NEW N, NEW V, NEW base, NEW pred, NEW F, Recursion(N, V, base, pred, F)
  PROVE  \E g : Defines(N, V, base, pred, F, g)
<1> USE DEF Recursion, Defines
<1> DEFINE P(k, g) == /\ g \in [0 .. k -> V] /\ g[0] = base
                      /\ \A n \in 1 .. k : g[n] = F[<<n, g[pred[n]]>>]
           S == {k \in Nat : k <= N => \E g : P(k, g)}
<1>1. 0 \in S
  <2> DEFINE g == [n \in 0 .. 0 |-> base]
  <2>1. P(0, g)
    OBVIOUS
  <2> QED BY <2>1
<1>2. ASSUME NEW k \in Nat, k \in S PROVE k + 1 \in S
  <2> SUFFICES ASSUME k + 1 <= N PROVE \E g : P(k + 1, g)
    OBVIOUS
  <2>1. PICK g : P(k, g)
    BY <1>2
  <2> DEFINE h == [n \in 0 .. k + 1 |-> IF n <= k THEN g[n] ELSE F[<<k + 1, g[pred[k + 1]]>>]]
  <2>2. k + 1 \in 1 .. N /\ pred[k + 1] \in 0 .. k
    OBVIOUS
  <2>3. g[pred[k + 1]] \in V
    BY <2>1, <2>2
  <2>4. F[<<k + 1, g[pred[k + 1]]>>] \in V
    BY <2>2, <2>3
  <2>5. h \in [0 .. k + 1 -> V] /\ h[0] = base
    BY <2>1, <2>4
  <2>6. ASSUME NEW n \in 1 .. k + 1 PROVE h[n] = F[<<n, h[pred[n]]>>]
    <3>1. n \in 1 .. N /\ pred[n] \in 0 .. k
      OBVIOUS
    <3>2. h[pred[n]] = g[pred[n]]
      BY <3>1
    <3>3. CASE n = k + 1
      <4>1. h[k + 1] = F[<<k + 1, g[pred[k + 1]]>>]
        OBVIOUS
      <4> HIDE DEF h
      <4> QED BY <3>2, <3>3, <4>1
    <3>4. CASE n \in 1 .. k
      <4>1. g[n] = F[<<n, g[pred[n]]>>]
        BY <2>1, <3>4
      <4>2. h[n] = g[n]
        BY <3>4
      <4> QED BY <3>2, <4>1, <4>2
    <3> HIDE DEF h
    <3> QED BY <3>3, <3>4
  <2>7. P(k + 1, h)
    BY <2>5, <2>6
  <2> HIDE DEF P, h
  <2> QED BY <2>7
<1> HIDE DEF S
<1>3. \A k \in Nat : k \in S
  BY <1>1, <1>2, NatSetInduction
<1>4. \E g : P(N, g)
  <2>1. N \in Nat /\ N \in S /\ N <= N
    BY <1>3
  <2> QED BY <2>1 DEF S
<1> QED BY <1>4
=============================================================================
