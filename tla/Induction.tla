------------------------------ MODULE Induction ------------------------------
(***************************************************************************)
(* Induction over the natural numbers, and the existence of functions      *)
(* defined by recursion over the places of a sequence, stated about sets   *)
(* and functions: the theorems of NaturalsInduction take an operator,      *)
(* which the provers cannot instantiate.                                   *)
(***************************************************************************)
EXTENDS Integers, Sequences, WellFoundedInduction, TLAPS

\* A set of natural numbers that is not empty has a least element.
LEMMA LeastElement ==
  ASSUME NEW T, T \subseteq Nat, T # {}
  PROVE  \E n \in T : \A m \in T : n <= m
<1>1. \A n, m \in Nat : n < m <=> <<n, m>> \in OpToRel(<, Nat)
  BY Zenon DEF OpToRel
<1>2. IsWellFoundedOn(OpToRel(<, Nat), Nat)
  BY Zenon, NatLessThanWellFounded
<1>3. PICK n \in T : \A m \in T : ~ (<<m, n>> \in OpToRel(<, Nat))
  BY Zenon, <1>2, WFMin
<1>4. \A m \in T : ~(m < n)
  BY <1>1, <1>3
<1> QED
  BY <1>4

\* A set with 0 that has n + 1 with each n has all natural numbers up to any.
LEMMA SetInduction ==
  ASSUME NEW len \in Nat, NEW T, 0 \in T,
         \A n \in 0 .. len - 1 : n \in T => n + 1 \in T
  PROVE  \A n \in 0 .. len : n \in T
<1> SUFFICES ASSUME \E n \in 0 .. len : n \notin T PROVE FALSE
  OBVIOUS
<1> DEFINE Missing == {n \in 0 .. len : n \notin T}
<1>1. PICK n \in Missing : \A m \in Missing : n <= m
  <2>1. Missing \subseteq Nat /\ Missing # {}
    OBVIOUS
  <2> HIDE DEF Missing
  <2> QED
    BY <2>1, LeastElement
<1>2. n # 0 /\ n - 1 \in 0 .. len - 1 /\ n - 1 \notin Missing /\ n - 1 \in 0 .. len
  BY <1>1
<1>3. n - 1 \in T
  BY <1>2
<1>4. (n - 1) + 1 \in T
  BY <1>2, <1>3
<1> QED
  BY <1>1, <1>4

\* Each value of f up to len comes from the one before by the step for its place.
Follows(f, len, first, step) ==
  f[0] = first /\ \A n \in 1 .. len : f[n] = step[n][f[n - 1]]

\* A function that has a given first value and each further value from the one
\* before exists.
LEMMA Recursion ==
  ASSUME NEW len \in Nat, NEW S, NEW first \in S,
         NEW step \in [1 .. len -> [S -> S]]
  PROVE  \E f \in [0 .. len -> S] : Follows(f, len, first, step)
<1> DEFINE Upto(k) == {f \in [0 .. k -> S] :
                         /\ f[0] = first
                         /\ \A n \in 1 .. k : f[n] = step[n][f[n - 1]]}
           T == {k \in 0 .. len : Upto(k) # {}}
<1>1. 0 \in T
  <2>1. [n \in 0 .. 0 |-> first] \in Upto(0)
    OBVIOUS
  <2> QED
    BY <2>1
<1>2. ASSUME NEW k \in 0 .. len - 1, k \in T PROVE k + 1 \in T
  <2>1. PICK f : f \in Upto(k)
    BY <1>2
  <2>2. step[k + 1] \in [S -> S] /\ f[k] \in S
    BY <2>1
  <2> DEFINE g == [n \in 0 .. k + 1 |-> IF n = k + 1 THEN step[k + 1][f[k]]
                                                      ELSE f[n]]
  <2>3. g \in [0 .. k + 1 -> S]
    BY <2>1, <2>2
  <2>4. g[0] = first
    BY <2>1
  <2>5. ASSUME NEW n \in 1 .. k + 1 PROVE g[n] = step[n][g[n - 1]]
    <3>1. n - 1 \in 0 .. k /\ g[n - 1] = f[n - 1]
      OBVIOUS
    <3> QED
      BY <2>1, <3>1
  <2>6. g \in Upto(k + 1)
    BY <2>3, <2>4, <2>5
  <2> HIDE DEF Upto
  <2> QED
    BY <2>6
<1>3. len \in T
  <2>1. \A k \in 0 .. len - 1 : k \in T => k + 1 \in T
    BY <1>2
  <2> HIDE DEF T
  <2>2. \A k \in 0 .. len : k \in T
    BY <1>1, <2>1, SetInduction
  <2> QED
    BY <2>2
<1> QED
  BY <1>3 DEF Follows
=============================================================================
