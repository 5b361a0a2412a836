------------------------------ MODULE Recursion ------------------------------
(***************************************************************************)
(* Induction over the natural numbers and the functions defined by         *)
(* recursion over them, said with sets and functions in the place of       *)
(* predicates and operators.  The loops of the code that go through a      *)
(* string or an array are such functions; the proofs of the components     *)
(* take from here that they are well defined, and what they return.        *)
(***************************************************************************)
EXTENDS Integers, WellFoundedInduction, TLAPS

-----------------------------------------------------------------------------
(* Induction *)

\* The smaller numbers come before the larger ones.
LEMMA LessThan == OpToRel(<, Nat) = {pair \in Nat \X Nat : pair[1] < pair[2]}
  BY DEF OpToRel

\* Of the numbers in a set one is the least.
LEMMA LeastNumber ==
  ASSUME NEW S \in SUBSET Nat, S /= {}
  PROVE  \E n \in S : \A m \in S : n <= m
<1>1. IsWellFoundedOn(OpToRel(<, Nat), Nat)
  BY NatLessThanWellFounded
<1>2. PICK n \in S : \A m \in S : <<m, n>> \notin OpToRel(<, Nat)
  BY <1>1, WFMin
<1>3. \A m \in S : ~(m < n)
  BY <1>2, LessThan
<1> QED
  BY <1>3

\* And if none is above a limit, one is the greatest.
LEMMA GreatestNumber ==
  ASSUME NEW limit \in Nat, NEW S \in SUBSET (0 .. limit), S /= {}
  PROVE  \E n \in S : \A m \in S : m <= n
<1> DEFINE T == {limit - m : m \in S}
<1>1. T \in SUBSET Nat /\ T /= {}
  <2>1. PICK m \in S : TRUE
    OBVIOUS
  <2>2. limit - m \in T
    OBVIOUS
  <2>3. \A m1 \in S : limit - m1 \in Nat
    OBVIOUS
  <2> QED
    BY <2>2, <2>3
<1>2. PICK k \in T : \A m \in T : k <= m
  BY <1>1, LeastNumber
<1>3. PICK n \in S : k = limit - n
  OBVIOUS
<1>4. ASSUME NEW m \in S
      PROVE  m <= n
  <2>1. limit - n <= limit - m
    BY <1>2, <1>3
  <2> QED
    BY <2>1
<1> QED
  BY <1>4

\* A set with 0, and with each number's successor, has all numbers up to limit.
LEMMA InductionUpTo ==
  ASSUME NEW S, NEW limit \in Nat, 0 \in S,
         \A n \in Nat : n \in S /\ n < limit => n + 1 \in S
  PROVE  0 .. limit \subseteq S
<1> SUFFICES ASSUME (0 .. limit) \ S /= {} PROVE FALSE
  OBVIOUS
<1>1. PICK n \in (0 .. limit) \ S : \A m \in (0 .. limit) \ S : n <= m
  <2>1. (0 .. limit) \ S \in SUBSET Nat
    OBVIOUS
  <2> QED
    BY <2>1, LeastNumber
<1>2. n - 1 \in 0 .. limit /\ n - 1 < limit
  BY <1>1
<1> QED
  BY <1>1, <1>2

\* The same without a limit.
LEMMA Induction ==
  ASSUME NEW S, 0 \in S, \A n \in Nat : n \in S => n + 1 \in S
  PROVE  Nat \subseteq S
<1> SUFFICES ASSUME NEW n \in Nat PROVE n \in S
  OBVIOUS
<1>1. 0 .. n \subseteq S
  BY InductionUpTo
<1> QED
  BY <1>1

-----------------------------------------------------------------------------
(* Recursion *)

\* The rounds of a loop: what number n makes of a value
Rounds(A) == [Nat -> [A -> A]]

\* f gives the values of the loop that starts with base and ends with round n
IsLoop(f, A, base, step, n) ==
  /\ f \in [0 .. n -> A]
  /\ f[0] = base
  /\ \A i \in 1 .. n : f[i] = step[i][f[i - 1]]

\* f is the recursion that starts with base and goes on for ever
IsRecursion(f, A, base, step) ==
  /\ f \in [Nat -> A]
  /\ f[0] = base
  /\ \A i \in Nat \ {0} : f[i] = step[i][f[i - 1]]

\* The functions that a recursion from base by step has defined up to n
Beginnings(A, base, step, n) ==
  {f \in [0 .. n -> A] : /\ f[0] = base
                         /\ \A i \in 0 .. n - 1 : f[i + 1] = step[i + 1][f[i]]}

LEMMA BeginningsExist ==
  ASSUME NEW A, NEW base \in A, NEW step \in [Nat -> [A -> A]], NEW n \in Nat
  PROVE  Beginnings(A, base, step, n) /= {}
<1> DEFINE S == {k \in Nat : Beginnings(A, base, step, k) /= {}}
<1>1. 0 \in S
  <2>1. [i \in 0 .. 0 |-> base] \in Beginnings(A, base, step, 0)
    BY DEF Beginnings
  <2> QED
    BY <2>1
<1>2. ASSUME NEW k \in Nat, k \in S
      PROVE  k + 1 \in S
  <2>1. PICK f \in [0 .. k -> A] :
          f[0] = base /\ \A i \in 0 .. k - 1 : f[i + 1] = step[i + 1][f[i]]
    BY <1>2 DEF Beginnings
  <2> DEFINE g == [i \in 0 .. k + 1 |-> IF i <= k THEN f[i] ELSE step[k + 1][f[k]]]
  <2>2. step[k + 1][f[k]] \in A
    OBVIOUS
  <2>3. g \in [0 .. k + 1 -> A] /\ g[0] = base
    BY <2>1, <2>2
  <2>4. ASSUME NEW i \in 0 .. (k + 1) - 1
        PROVE  g[i + 1] = step[i + 1][g[i]]
    <3>1. g[i] = f[i]
      OBVIOUS
    <3>2. CASE i = k
      BY <3>1, <3>2
    <3>3. CASE i < k
      BY <2>1, <3>1, <3>3
    <3> QED
      BY <3>2, <3>3
  <2>5. g \in Beginnings(A, base, step, k + 1)
    BY <2>3, <2>4, Zenon DEF Beginnings
  <2> QED
    BY <2>5
<1> HIDE DEF S
<1>3. n \in S
  BY <1>1, <1>2, Induction
<1> QED
  BY <1>3 DEF S

\* Where two of them are defined, they agree.
LEMMA BeginningsAgree ==
  ASSUME NEW A, NEW base \in A, NEW step \in [Nat -> [A -> A]], NEW n \in Nat,
         NEW f \in Beginnings(A, base, step, n), NEW g \in Beginnings(A, base, step, n + 1)
  PROVE  f[n] = g[n]
<1> DEFINE S == {i \in 0 .. n : f[i] = g[i]}
<1>1. 0 \in S
  BY DEF Beginnings
<1>2. ASSUME NEW i \in Nat, i \in S, i < n
      PROVE  i + 1 \in S
  BY <1>2 DEF Beginnings
<1> HIDE DEF S
<1>3. n \in S
  BY <1>1, <1>2, InductionUpTo
<1> QED
  BY <1>3 DEF S

\* A recursion over the numbers defines a function, if every round makes a value
\* of the right kind of another.
THEOREM RecursionDefines ==
  ASSUME NEW A, NEW base \in A, NEW step \in Rounds(A)
  PROVE  \E f : IsRecursion(f, A, base, step)
<1> SUFFICES ASSUME step \in [Nat -> [A -> A]]
             PROVE  \E f : IsRecursion(f, A, base, step)
  BY DEF Rounds
<1> DEFINE prefix == [n \in Nat |-> CHOOSE f : f \in Beginnings(A, base, step, n)]
           f == [n \in Nat |-> prefix[n][n]]
<1>1. \A n \in Nat : prefix[n] \in Beginnings(A, base, step, n)
  BY BeginningsExist
<1> HIDE DEF prefix
<1>2. \A n \in Nat : f[n] \in A
  BY <1>1 DEF Beginnings
<1>3. f[0] = base
  BY <1>1 DEF Beginnings
<1>4. ASSUME NEW n \in Nat, n /= 0
      PROVE  f[n] = step[n][f[n - 1]]
  <2>1. n - 1 \in Nat /\ (n - 1) + 1 = n /\ n - 1 \in 0 .. n - 1
    BY <1>4
  <2>2. prefix[n][n] = step[n][prefix[n][n - 1]]
    BY <1>1, <2>1 DEF Beginnings
  <2>3. prefix[n][n - 1] = prefix[n - 1][n - 1]
    BY <1>1, <2>1, BeginningsAgree
  <2> QED
    BY <2>1, <2>2, <2>3
<1>5. f \in [Nat -> A]
  BY <1>2
<1> QED
  BY <1>3, <1>4, <1>5 DEF IsRecursion

\* A loop over the numbers up to limit computes a value, if every round makes a
\* value of the right kind of another.
THEOREM RecursionUpTo ==
  ASSUME NEW A, NEW base \in A, NEW step \in Rounds(A), NEW limit \in Nat
  PROVE  \E f : IsLoop(f, A, base, step, limit)
<1> SUFFICES ASSUME step \in [Nat -> [A -> A]]
             PROVE  \E f : IsLoop(f, A, base, step, limit)
  BY DEF Rounds
<1>1. PICK f \in Beginnings(A, base, step, limit) : TRUE
  BY BeginningsExist
<1>2. f \in [0 .. limit -> A] /\ f[0] = base
  BY <1>1 DEF Beginnings
<1>3. ASSUME NEW n \in 1 .. limit
      PROVE  f[n] = step[n][f[n - 1]]
  <2>1. n - 1 \in 0 .. limit - 1 /\ (n - 1) + 1 = n
    OBVIOUS
  <2> QED
    BY <1>1, <2>1, Zenon DEF Beginnings
<1> QED
  BY <1>2, <1>3 DEF IsLoop
=============================================================================
