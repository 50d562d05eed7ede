------------------------------- MODULE Induction -------------------------------
(***************************************************************************)
(* Induction for the provers, which cannot instantiate an operator: the    *)
(* property to prove is a set of numbers, and the step of a recursive      *)
(* function is a function.                                                 *)
(***************************************************************************)
EXTENDS Integers, WellFoundedInduction, TLAPS

(* A set of numbers has a least one.                                        *)
LEMMA LeastNatural ==
  ASSUME NEW N, N \subseteq Nat, N # {}
  PROVE  \E n \in N : \A k \in N : n <= k
<1>1. PICK n \in N : \A k \in N : ~(<<k, n>> \in OpToRel(<, Nat))
  BY NatLessThanWellFounded, WFMin
<1>2. \A k \in N : ~(k < n)
  BY <1>1 DEF OpToRel
<1> QED BY <1>2

(* Induction up to a bound: what holds of 0 and of the next of every number *)
(* it holds of, holds of all.                                               *)
LEMMA UpTo ==
  ASSUME NEW N \in Nat, NEW Good, 0 \in Good,
         \A n \in 0 .. N - 1 : n \in Good => n + 1 \in Good
  PROVE  0 .. N \subseteq Good
<1> DEFINE Bad == (0 .. N) \ Good
<1>1. SUFFICES ASSUME Bad # {} PROVE FALSE
  OBVIOUS
<1>2. Bad \subseteq Nat
  OBVIOUS
<1>3. PICK n \in Bad : \A k \in Bad : n <= k
  BY <1>1, <1>2, LeastNatural
<1>4. n \in 0 .. N /\ n \notin Good /\ n # 0
  BY <1>3
<1>5. n - 1 \in 0 .. N - 1 /\ n - 1 \notin Bad /\ n - 1 + 1 = n
  BY <1>3, <1>4
<1> QED BY <1>4, <1>5

(* The functions on 0 .. N defined by a value at 0 and by a step from each  *)
(* value to the next, which keeps within S.                                 *)
StepFunctions(N, S) == [S \X (1 .. N) -> S]

Recursive(N, S, base, F) ==
    {f \in [0 .. N -> S] : f[0] = base /\ \A i \in 1 .. N : f[i] = F[<<f[i-1], i>>]}

LEMMA RecursiveExists ==
  ASSUME NEW N \in Nat, NEW S, NEW base \in S, NEW F \in StepFunctions(N, S)
  PROVE  Recursive(N, S, base, F) # {}
<1> DEFINE Upto(n) == {f \in [0 .. n -> S] :
                         f[0] = base /\ \A i \in 1 .. n : f[i] = F[<<f[i-1], i>>]}
           Good == {n \in 0 .. N : Upto(n) # {}}
<1>1. 0 \in Good
  <2>1. [i \in 0 .. 0 |-> base] \in Upto(0)
    OBVIOUS
  <2> HIDE DEF Upto
  <2> QED BY <2>1
<1>2. ASSUME NEW n \in 0 .. N - 1, n \in Good
      PROVE  n + 1 \in Good
  <2>1. PICK f \in [0 .. n -> S] :
           f[0] = base /\ \A i \in 1 .. n : f[i] = F[<<f[i-1], i>>]
    BY <1>2
  <2> DEFINE g == [i \in 0 .. n + 1 |-> IF i = n + 1 THEN F[<<f[n], n + 1>>] ELSE f[i]]
  <2>2. f[n] \in S /\ F[<<f[n], n + 1>>] \in S
    BY <2>1 DEF StepFunctions
  <2>3. g \in [0 .. n + 1 -> S] /\ g[0] = base
    BY <2>1, <2>2
  <2>4. ASSUME NEW i \in 1 .. n + 1 PROVE g[i] = F[<<g[i-1], i>>]
    <3>1. CASE i = n + 1
      <4>1. i - 1 = n /\ n \in 0 .. n + 1 /\ n # n + 1
        BY <3>1
      <4> QED BY <3>1, <4>1
    <3>2. CASE i # n + 1
      <4>1. i \in 1 .. n /\ i - 1 \in 0 .. n + 1 /\ i - 1 # n + 1
        BY <3>2
      <4> QED BY <2>1, <3>2, <4>1
    <3> QED BY <3>1, <3>2
  <2> HIDE DEF g
  <2>5. g \in Upto(n + 1)
    BY <2>3, <2>4
  <2> HIDE DEF Upto
  <2> QED BY <2>5
<1>3. N \in Good
  <2> HIDE DEF Good
  <2>1. 0 .. N \subseteq Good
    BY <1>1, <1>2, UpTo
  <2> QED BY <2>1
<1> QED BY <1>3 DEF Recursive

(* What follows such a step stays within S.                                 *)
LEMMA RecursiveTyped ==
  ASSUME NEW N \in Nat, NEW S, NEW f, f[0] \in S,
         \A i \in 1 .. N : f[i-1] \in S => f[i] \in S
  PROVE  \A i \in 0 .. N : f[i] \in S
<1> DEFINE Good == {n \in 0 .. N : f[n] \in S}
<1>1. 0 \in Good
  OBVIOUS
<1>2. ASSUME NEW n \in 0 .. N - 1, n \in Good
      PROVE  n + 1 \in Good
  <2>1. n + 1 \in 1 .. N /\ n + 1 - 1 = n
    OBVIOUS
  <2> QED BY <1>2, <2>1
<1> HIDE DEF Good
<1>3. 0 .. N \subseteq Good
  BY <1>1, <1>2, UpTo
<1> QED BY <1>3 DEF Good
===============================================================================
