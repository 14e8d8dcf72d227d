----------------------------- MODULE Recursion ------------------------------
(***************************************************************************)
(* Facts about functions defined by recursion over 0..n, for the modules   *)
(* that count the characters of a batch or read a command line.  A         *)
(* property of numbers is a set of numbers here, and its induction the     *)
(* well-founded order of finite sets.                                      *)
(***************************************************************************)
EXTENDS Integers, FiniteSetTheorems, WellFoundedInduction, TLAPS

\* A set of naturals that has 0, and with a number its successor, has them all.
LEMMA Induction ==
  ASSUME NEW P, 0 \in P, \A n \in Nat : n \in P => n + 1 \in P
  PROVE  Nat \subseteq P
<1> SUFFICES ASSUME NEW k \in Nat, k \notin P PROVE FALSE
  OBVIOUS
<1> DEFINE T == {S \in FiniteSubsetsOf(Nat) : \E n \in Nat \ P : S = 0..n}
<1>1. \A n \in Nat : 0..n \in FiniteSubsetsOf(Nat)
  BY FS_Interval DEF FiniteSubsetsOf
<1>2. 0..k \in T
  BY <1>1
<1>3. \E S \in T : \A U \in T : <<U, S>> \notin StrictSubsetOrdering(Nat)
  <2> HIDE DEF T
  <2>1. T \subseteq FiniteSubsetsOf(Nat)
    BY DEF T
  <2>2. QED  BY <1>2, <2>1, FS_StrictSubsetOrderingWellFounded, WFMin
<1>4. PICK n \in Nat \ P : \A U \in T : <<U, 0..n>> \notin StrictSubsetOrdering(Nat)
  BY <1>3
<1>5. n # 0 /\ n - 1 \in Nat \ P
  BY <1>4
<1>6. 0..n - 1 \in T
  BY <1>1, <1>5
<1>7. <<0..n - 1, 0..n>> \in StrictSubsetOrdering(Nat)
  <2>1. 0..n - 1 \subseteq 0..n /\ n \in 0..n /\ n \notin 0..n - 1
    BY <1>4
  <2>2. 0..n - 1 \in SUBSET Nat /\ 0..n \in SUBSET Nat
    BY <1>4
  <2>3. QED  BY <2>1, <2>2 DEF StrictSubsetOrdering
<1>8. QED  BY <1>4, <1>6, <1>7

\* The values after 0, 1, ..., n steps.
Iterates(f, D, d, n, step) ==
  f \in [0..n -> D] /\ f[0] = d /\ \A i \in 1..n : f[i] = step[i][f[i - 1]]

LEMMA Iteration ==
  ASSUME NEW D, NEW d \in D, NEW n \in Nat, NEW step \in [1..n -> [D -> D]]
  PROVE  \E f : Iterates(f, D, d, n, step)
<1> DEFINE P == {k \in Nat : k <= n => \E f : Iterates(f, D, d, k, step)}
<1>1. 0 \in P
  <2>1. Iterates([i \in 0..0 |-> d], D, d, 0, step)
    BY DEF Iterates
  <2>2. QED  BY <2>1
<1>2. ASSUME NEW k \in Nat, k \in P PROVE k + 1 \in P
  <2> SUFFICES ASSUME k + 1 <= n PROVE \E f : Iterates(f, D, d, k + 1, step)
    OBVIOUS
  <2>1. PICK f : Iterates(f, D, d, k, step)
    BY <1>2
  <2> DEFINE g == [i \in 0..k + 1 |-> IF i = k + 1 THEN step[k + 1][f[k]] ELSE f[i]]
  <2>2. f \in [0..k -> D] /\ f[k] \in D /\ k + 1 \in 1..n
    BY <2>1 DEF Iterates
  <2>3. g \in [0..k + 1 -> D]
    BY <2>2
  <2>4. \A i \in 0..k : g[i] = f[i]
    OBVIOUS
  <2>5. g[k + 1] = step[k + 1][f[k]]
    OBVIOUS
  <2> HIDE DEF g
  <2>6. ASSUME NEW i \in 1..k + 1 PROVE g[i] = step[i][g[i - 1]]
    <3>1. CASE i = k + 1
      BY <2>4, <2>5, <3>1
    <3>2. CASE i \in 1..k
      BY <2>1, <2>4, <3>2 DEF Iterates
    <3>3. QED  BY <3>1, <3>2
  <2>7. g[0] = d
    BY <2>1, <2>4 DEF Iterates
  <2>8. QED  BY <2>3, <2>6, <2>7 DEF Iterates
<1>3. n \in P
  <2> HIDE DEF P
  <2>1. QED  BY <1>1, <1>2, Induction
<1>4. QED  BY <1>3

\* A function that takes those steps as long as its values are in D takes them all.
LEMMA Iterating ==
  ASSUME NEW D, NEW d \in D, NEW n \in Nat, NEW step \in [1..n -> [D -> D]],
         NEW f, f = [i \in 0..n |-> f[i]], f[0] = d,
         \A i \in 1..n : f[i - 1] \in D => f[i] = step[i][f[i - 1]]
  PROVE  Iterates(f, D, d, n, step)
<1> DEFINE P == {k \in Nat : k <= n => f[k] \in D}
<1>1. 0 \in P
  OBVIOUS
<1>2. ASSUME NEW k \in Nat, k \in P PROVE k + 1 \in P
  <2> SUFFICES ASSUME k + 1 <= n PROVE f[k + 1] \in D
    OBVIOUS
  <2>1. f[k] \in D /\ k + 1 \in 1..n /\ (k + 1) - 1 = k
    BY <1>2
  <2>2. f[k + 1] = step[k + 1][f[k]]
    BY <2>1
  <2>3. step[k + 1] \in [D -> D]
    BY <2>1
  <2>4. QED  BY <2>1, <2>2, <2>3
<1>3. Nat \subseteq P
  <2> HIDE DEF P
  <2>1. QED  BY <1>1, <1>2, Induction
<1>4. \A i \in 0..n : f[i] \in D
  BY <1>3
<1>5. f \in [0..n -> D]
  <2>1. [i \in 0..n |-> f[i]] \in [0..n -> D]
    BY <1>4
  <2>2. QED  BY <2>1, Zenon
<1>6. \A i \in 1..n : f[i] = step[i][f[i - 1]]
  <2>1. \A i \in 1..n : i - 1 \in 0..n
    OBVIOUS
  <2>2. QED  BY <1>4, <2>1
<1>7. QED  BY <1>5, <1>6 DEF Iterates
=============================================================================
