------------------------------- MODULE Lemmas -------------------------------
(***************************************************************************)
(* What the proofs about several modules rest on: induction over the       *)
(* naturals, stated of sets of numbers, for sums, walks and chains of      *)
(* ancestors; and what the definition of ReachableFrom gives, which holds  *)
(* the roots, is closed, is the least such set, and does not depend on the *)
(* edges of objects outside it.                                            *)
(***************************************************************************)
EXTENDS Reachability, FiniteSetTheorems, TLAPS

-----------------------------------------------------------------------------
(* Induction.                                                              *)

\* A set of numbers that is not empty has a least element: n is as small as
\* the interval below it.
LEMMA LeastNumber ==
  ASSUME NEW S \in SUBSET Nat, S # {}
  PROVE  \E n \in S : \A m \in S : n <= m
<1> DEFINE T == {0..(n - 1) : n \in S}
           R == StrictSubsetOrdering(Nat)
<1>1. T \subseteq FiniteSubsetsOf(Nat)
  <2> SUFFICES ASSUME NEW n \in S
               PROVE  IsFiniteSet(0..(n - 1)) /\ 0..(n - 1) \in SUBSET Nat
    BY DEF FiniteSubsetsOf
  <2>1. n \in Nat /\ 0 \in Int /\ n - 1 \in Int
    OBVIOUS
  <2> QED
    BY <2>1, FS_Interval
<1>2. T # {}
  OBVIOUS
<1>3. PICK x \in T : \A y \in T : ~ (<<y, x>> \in R)
  <2> HIDE DEF T, R
  <2>1. IsWellFoundedOn(R, FiniteSubsetsOf(Nat))
    BY FS_StrictSubsetOrderingWellFounded DEF R
  <2> QED
    BY <1>1, <1>2, <2>1, WFMin
<1>4. PICK n \in S : x = 0..(n - 1)
  OBVIOUS
<1>5. ASSUME NEW m \in S, m < n PROVE FALSE
  <2>1. 0..(m - 1) \in T
    OBVIOUS
  <2>2. 0..(m - 1) \subseteq 0..(n - 1)
    BY <1>5
  <2>3. m \in 0..(n - 1) /\ m \notin 0..(m - 1)
    BY <1>5
  <2>4. 0..(m - 1) \in SUBSET Nat /\ x \in SUBSET Nat
    BY <1>4
  <2>5. <<0..(m - 1), x>> \in R
    BY <1>4, <2>2, <2>3, <2>4 DEF StrictSubsetOrdering
  <2> QED
    BY <1>3, <2>1, <2>5
<1> QED
  BY <1>5

\* A set of numbers that has 0 and, with every number, the next one, has all.
LEMMA SetInduction ==
  ASSUME NEW S \in SUBSET Nat, 0 \in S, \A n \in S : n + 1 \in S
  PROVE  S = Nat
<1> SUFFICES ASSUME Nat \ S # {} PROVE FALSE
  OBVIOUS
<1>1. PICK n \in Nat \ S : \A m \in Nat \ S : n <= m
  BY LeastNumber
<1>2. n # 0 /\ n - 1 \in Nat /\ n - 1 \in S
  BY <1>1
<1> QED
  BY <1>1, <1>2

\* The same up to a bound.
LEMMA BoundedInduction ==
  ASSUME NEW N \in Nat, NEW S \in SUBSET Nat, 0 \in S,
         \A n \in S : n < N => n + 1 \in S
  PROVE  0..N \subseteq S
<1> DEFINE T == {n \in Nat : n <= N => n \in S}
<1>1. 0 \in T
  OBVIOUS
<1>2. ASSUME NEW n \in T PROVE n + 1 \in T
  OBVIOUS
<1>3. T = Nat
  <2>1. T \in SUBSET Nat
    OBVIOUS
  <2> HIDE DEF T
  <2> QED
    BY <1>1, <1>2, <2>1, SetInduction
<1> QED
  BY <1>3

\* What holds of the first of a list of values, and of each if it does of the
\* one before, holds of all.
LEMMA Onward ==
  ASSUME NEW N \in Nat, NEW S, NEW f, f[0] \in S,
         \A n \in 1..N : f[n - 1] \in S => f[n] \in S
  PROVE  \A n \in 0..N : f[n] \in S
<1> DEFINE T == {n \in Nat : n <= N => f[n] \in S}
<1>1. T \in SUBSET Nat /\ 0 \in T
  OBVIOUS
<1>2. ASSUME NEW n \in T PROVE n + 1 \in T
  <2>1. CASE n + 1 <= N
    <3>1. n \in Nat /\ n <= N /\ n + 1 \in 1..N /\ (n + 1) - 1 = n
      BY <2>1
    <3>2. f[n] \in S
      BY <3>1
    <3>3. f[(n + 1) - 1] \in S => f[n + 1] \in S
      BY <3>1
    <3> QED
      BY <3>1, <3>2, <3>3
  <2> QED
    BY <2>1
<1>3. T = Nat
  <2> HIDE DEF T
  <2> QED
    BY <1>1, <1>2, SetInduction
<1> QED
  BY <1>3

\* n steps, each from a value in S to one in S, and the values they lead to.
Steps(n, S) == [1..n -> [S -> S]]
Follows(f, n, a, step) == f[0] = a /\ \A k \in 1..n : f[k] = step[k][f[k - 1]]

\* Steps, whatever they are, can be followed to the last.
LEMMA Recursion ==
  ASSUME NEW N \in Nat, NEW S, NEW a \in S, NEW step \in Steps(N, S)
  PROVE  \E f \in [0..N -> S] : Follows(f, N, a, step)
<1> DEFINE Upto(f, m) == /\ f[0] = a
                         /\ \A n \in 1..m : f[n] = step[n][f[n - 1]]
           T == {m \in Nat : m <= N => \E f \in [0..N -> S] : Upto(f, m)}
<1>0. step \in [1..N -> [S -> S]]
  BY DEF Steps
<1>1. T \in SUBSET Nat /\ 0 \in T
  <2>1. [n \in 0..N |-> a] \in [0..N -> S] /\ Upto([n \in 0..N |-> a], 0)
    OBVIOUS
  <2> QED
    BY <2>1
<1>2. ASSUME NEW m \in T PROVE m + 1 \in T
  <2>1. CASE m + 1 <= N
    <3>1. m \in Nat /\ m + 1 \in 1..N /\ m \in 0..N /\ (m + 1) - 1 = m
      BY <2>1
    <3>2. PICK f \in [0..N -> S] : Upto(f, m)
      BY <2>1, <3>1
    <3> DEFINE g == [f EXCEPT ![m + 1] = step[m + 1][f[m]]]
    <3>3. step[m + 1][f[m]] \in S
      BY <1>0, <3>1
    <3>4. g \in [0..N -> S]
      BY <3>1, <3>3
    <3>5. g[0] = a
      BY <3>1, <3>2
    <3>6. ASSUME NEW n \in 1..(m + 1) PROVE g[n] = step[n][g[n - 1]]
      <4>1. n - 1 \in 0..N /\ n \in 0..N /\ n - 1 # m + 1 /\ g[n - 1] = f[n - 1]
        BY <3>1
      <4>2. CASE n = m + 1
        BY <3>1, <4>1, <4>2
      <4>3. CASE n # m + 1
        <5>1. n \in 1..m /\ g[n] = f[n]
          BY <3>1, <4>1, <4>3
        <5> QED
          BY <3>2, <4>1, <5>1
      <4> QED
        BY <4>2, <4>3
    <3>7. Upto(g, m + 1)
      BY <3>5, <3>6
    <3> HIDE DEF g, Upto
    <3> QED
      BY <3>1, <3>4, <3>7
  <2> QED
    BY <2>1
<1>3. T = Nat
  <2> HIDE DEF T
  <2> QED
    BY <1>1, <1>2, SetInduction
<1>4. PICK f \in [0..N -> S] : Upto(f, N)
  <2>1. N \in T
    <3> HIDE DEF T
    <3> QED
      BY <1>3
  <2>2. N <= N
    OBVIOUS
  <2> HIDE DEF Upto
  <2> QED
    BY <2>1, <2>2
<1> QED
  BY <1>4 DEF Follows

-----------------------------------------------------------------------------
(* Reachability.                                                           *)

\* No reachable object lies outside a closed set that holds the roots.
LEMMA ReachableIsLeast ==
  ASSUME NEW roots, NEW edges, NEW S \in SUBSET DOMAIN edges,
         roots \subseteq S, Closed(S, edges)
  PROVE  ReachableFrom(roots, edges) \subseteq S
BY DEF ReachableFrom

\* The roots are reachable.
LEMMA RootsAreReachable ==
  ASSUME NEW roots, NEW edges, roots \subseteq DOMAIN edges
  PROVE  roots \subseteq ReachableFrom(roots, edges)
BY DEF ReachableFrom

\* What a reachable object refers to is reachable.
LEMMA ReachableIsClosed ==
  ASSUME NEW roots, NEW edges, Closed(DOMAIN edges, edges)
  PROVE  Closed(ReachableFrom(roots, edges), edges)
<1> SUFFICES ASSUME NEW o \in ReachableFrom(roots, edges), NEW p \in edges[o]
             PROVE  p \in ReachableFrom(roots, edges)
  BY DEF Closed
<1>1. p \in DOMAIN edges
  BY DEF Closed, ReachableFrom
<1>2. ASSUME NEW S \in SUBSET DOMAIN edges, roots \subseteq S, Closed(S, edges)
      PROVE  p \in S
  BY <1>2, ReachableIsLeast DEF Closed
<1> QED
  BY <1>1, <1>2 DEF ReachableFrom

\* Changing the edges of unreachable objects changes nothing: this is why a
\* sweep may reuse the words of the objects it frees.
LEMMA UnreachableEdgesDoNotMatter ==
  ASSUME NEW roots, NEW edges, NEW edges2,
         DOMAIN edges2 = DOMAIN edges, roots \subseteq DOMAIN edges,
         Closed(DOMAIN edges, edges), Closed(DOMAIN edges, edges2),
         \A o \in ReachableFrom(roots, edges) : edges2[o] = edges[o]
  PROVE  ReachableFrom(roots, edges2) = ReachableFrom(roots, edges)
<1> DEFINE R == ReachableFrom(roots, edges)
           Q == ReachableFrom(roots, edges2)
<1>1. R \subseteq DOMAIN edges /\ Q \subseteq DOMAIN edges
  BY DEF ReachableFrom
<1>2. Q \subseteq R
  <2>1. Closed(R, edges2)
    BY ReachableIsClosed DEF Closed
  <2>2. roots \subseteq R
    BY RootsAreReachable
  <2> QED
    BY <1>1, <2>1, <2>2, ReachableIsLeast
<1>3. R \subseteq Q
  <2>1. Closed(Q, edges2)
    BY ReachableIsClosed
  <2>2. Closed(Q, edges)
    BY <1>2, <2>1 DEF Closed
  <2>3. roots \subseteq Q
    BY RootsAreReachable
  <2> QED
    BY <1>1, <2>2, <2>3, ReachableIsLeast
<1> QED
  BY <1>2, <1>3
=============================================================================
