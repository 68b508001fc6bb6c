-------------------------- MODULE TypeLayoutProofs --------------------------
(***************************************************************************)
(* Proofs about TypeLayout, for any number of types and any hierarchy of   *)
(* them declared in any order.                                             *)
(***************************************************************************)
EXTENDS TypeLayout, Lemmas

-----------------------------------------------------------------------------
(* Climbing.                                                               *)

\* at is the ancestor function of up, on some types that up does not leave.
Levels(at, up, n) ==
  at = [k \in 0..n |-> [T \in Types \cup {None} |->
          IF k = 0 \/ T = None THEN T ELSE at[k - 1][up[T]]]]

\* The recursion that defines Ancestor has a solution.
LEMMA LevelsExist ==
  ASSUME NEW up, NEW n \in Nat PROVE \E at : Levels(at, up, n)
<1> DEFINE S == {m \in Nat : \E at : Levels(at, up, m)}
<1>1. 0 \in S
  <2> DEFINE at == [k \in 0..0 |-> [T \in Types \cup {None} |-> T]]
  <2>1. Levels(at, up, 0)
    BY DEF Levels
  <2> QED
    BY <2>1
<1>2. ASSUME NEW m \in S PROVE m + 1 \in S
  <2>1. m \in Nat
    OBVIOUS
  <2>2. PICK f : Levels(f, up, m)
    OBVIOUS
  <2> DEFINE top == [T \in Types \cup {None} |-> IF T = None THEN T ELSE f[m][up[T]]]
             at  == [k \in 0..(m + 1) |-> IF k = m + 1 THEN top ELSE f[k]]
  <2>3. ASSUME NEW k \in 0..(m + 1)
        PROVE  at[k] = [T \in Types \cup {None} |->
                          IF k = 0 \/ T = None THEN T ELSE at[k - 1][up[T]]]
    <3>1. CASE k = m + 1
      <4>1. at[k] = top /\ k # 0 /\ k - 1 \in 0..(m + 1) /\ at[k - 1] = f[m]
        BY <2>1, <3>1
      <4> HIDE DEF at
      <4> QED
        BY <4>1
    <3>2. CASE k # m + 1
      <4>1. at[k] = f[k] /\ k \in 0..m
        BY <2>1, <3>2
      <4>2. k # 0 => at[k - 1] = f[k - 1]
        BY <2>1, <3>2
      <4> HIDE DEF at
      <4>3. f[k] = [T \in Types \cup {None} |->
                      IF k = 0 \/ T = None THEN T ELSE f[k - 1][up[T]]]
        BY <2>2, <4>1 DEF Levels
      <4> QED
        BY <4>1, <4>2, <4>3
    <3> QED
      BY <3>1, <3>2
  <2>4. Levels(at, up, m + 1)
    <3>1. at = [k \in 0..(m + 1) |-> at[k]]
      OBVIOUS
    <3> HIDE DEF at
    <3> QED
      BY <2>3, <3>1, Zenon DEF Levels
  <2> QED
    BY <2>1, <2>4
<1>3. S = Nat
  <2>1. S \in SUBSET Nat
    OBVIOUS
  <2> HIDE DEF S
  <2> QED
    BY <1>1, <1>2, <2>1, SetInduction
<1> QED
  BY <1>3

\* Ancestor is one.
LEMMA AncestorLevels ==
  ASSUME NEW up PROVE Levels(Ancestor(up), up, Cardinality(Types))
<1>1. Cardinality(Types) \in Nat
  BY TypesAssumption, FS_CardinalityType
<1>2. PICK at : Levels(at, up, Cardinality(Types))
  BY <1>1, LevelsExist
<1> QED
  BY <1>2, Zenon DEF Levels, Ancestor

\* One level up at a time.
LEMMA AncestorUp ==
  ASSUME NEW up, NEW T \in Types \cup {None}
  PROVE  /\ Ancestor(up)[0][T] = T
         /\ \A n \in 1..Cardinality(Types) :
              Ancestor(up)[n][T] = IF T = None THEN None ELSE Ancestor(up)[n - 1][up[T]]
<1>1. Cardinality(Types) \in Nat
  BY TypesAssumption, FS_CardinalityType
<1> DEFINE at == Ancestor(up)
<1>2. Levels(at, up, Cardinality(Types))
  BY AncestorLevels
<1> HIDE DEF at
<1>3. ASSUME NEW k \in 0..Cardinality(Types)
      PROVE  at[k][T] = IF k = 0 \/ T = None THEN T ELSE at[k - 1][up[T]]
  <2>1. at[k] = [U \in Types \cup {None} |->
                   IF k = 0 \/ U = None THEN U ELSE at[k - 1][up[U]]]
    BY <1>2 DEF Levels
  <2> QED
    BY <2>1
<1>4. at[0][T] = T
  BY <1>1, <1>3
<1>5. ASSUME NEW n \in 1..Cardinality(Types)
      PROVE  at[n][T] = IF T = None THEN None ELSE at[n - 1][up[T]]
  BY <1>1, <1>3
<1> QED
  BY <1>4, <1>5 DEF at

\* What up leads to and from: the types D, and nothing above some of them.
Climbs(up, D) == D \subseteq Types /\ up \in [D -> D \cup {None}]

\* A climb stays in the types it may climb through.
LEMMA AncestorStays ==
  ASSUME NEW up, NEW D, Climbs(up, D), NEW n \in 0..Cardinality(Types),
         NEW T \in D \cup {None}
  PROVE  Ancestor(up)[n][T] \in D \cup {None}
<1>1. Cardinality(Types) \in Nat
  BY TypesAssumption, FS_CardinalityType
<1> DEFINE at == Ancestor(up)
           S  == {k \in Nat : \A U \in D \cup {None} : at[k][U] \in D \cup {None}}
<1>2. ASSUME NEW U \in D \cup {None}
      PROVE  /\ U \in Types \cup {None}
             /\ at[0][U] = U
             /\ \A k \in 1..Cardinality(Types) :
                  at[k][U] = IF U = None THEN None ELSE at[k - 1][up[U]]
  <2>1. U \in Types \cup {None}
    BY DEF Climbs
  <2> QED
    BY <2>1, AncestorUp
<1> HIDE DEF at
<1>3. 0 \in S
  BY <1>2
<1>4. ASSUME NEW k \in S, k < Cardinality(Types) PROVE k + 1 \in S
  <2>1. k \in Nat /\ k + 1 \in 1..Cardinality(Types) /\ (k + 1) - 1 = k
    BY <1>1, <1>4
  <2>2. ASSUME NEW U \in D PROVE at[k + 1][U] \in D \cup {None}
    <3>1. at[k + 1][U] = at[k][up[U]] /\ up[U] \in D \cup {None}
      BY <1>2, <2>1, TypesAssumption DEF Climbs
    <3> QED
      BY <3>1
  <2>3. at[k + 1][None] \in D \cup {None}
    BY <1>2, <2>1
  <2> QED
    BY <2>1, <2>2, <2>3
<1>5. 0..Cardinality(Types) \subseteq S
  <2>1. S \in SUBSET Nat
    OBVIOUS
  <2> HIDE DEF S
  <2> QED
    BY <1>1, <1>3, <1>4, <2>1, BoundedInduction
<1> QED
  BY <1>5 DEF at

\* The last level of a climb is the parent of the level before.
LEMMA AncestorTop ==
  ASSUME NEW up, NEW D, Climbs(up, D), NEW n \in 0..Cardinality(Types),
         n < Cardinality(Types), NEW T \in D \cup {None}
  PROVE  Ancestor(up)[n + 1][T] =
           IF Ancestor(up)[n][T] = None THEN None ELSE up[Ancestor(up)[n][T]]
<1>1. Cardinality(Types) \in Nat
  BY TypesAssumption, FS_CardinalityType
<1> DEFINE at   == Ancestor(up)
           P(k) == \A U \in D \cup {None} :
                     at[k + 1][U] = IF at[k][U] = None THEN None ELSE up[at[k][U]]
           S    == {k \in Nat : k < Cardinality(Types) => P(k)}
<1>2. ASSUME NEW U \in D \cup {None}
      PROVE  /\ at[0][U] = U
             /\ \A k \in 1..Cardinality(Types) :
                  at[k][U] = IF U = None THEN None ELSE at[k - 1][up[U]]
  <2>1. U \in Types \cup {None}
    BY DEF Climbs
  <2> QED
    BY <2>1, AncestorUp
<1> HIDE DEF at
<1>3. 0 \in S
  <2> SUFFICES ASSUME 0 < Cardinality(Types), NEW U \in D \cup {None}
               PROVE  at[0 + 1][U] = IF at[0][U] = None THEN None ELSE up[at[0][U]]
    OBVIOUS
  <2>1. at[1][U] = IF U = None THEN None ELSE at[0][up[U]]
    BY <1>1, <1>2
  <2>2. U # None => at[0][up[U]] = up[U]
    BY <1>2, TypesAssumption DEF Climbs
  <2> QED
    BY <1>2, <2>1, <2>2
<1>4. ASSUME NEW k \in S PROVE k + 1 \in S
  <2> SUFFICES ASSUME k \in Nat, k + 1 < Cardinality(Types), P(k),
                      NEW U \in D \cup {None}
               PROVE  at[(k + 1) + 1][U] =
                        IF at[k + 1][U] = None THEN None ELSE up[at[k + 1][U]]
    BY <1>1, <1>4
  <2>1. /\ k + 1 \in 1..Cardinality(Types) /\ (k + 1) + 1 \in 1..Cardinality(Types)
        /\ (k + 1) - 1 = k /\ ((k + 1) + 1) - 1 = k + 1
    BY <1>1
  <2>2. CASE U = None
    BY <1>2, <2>1, <2>2
  <2>3. CASE U # None
    <3>1. PICK V \in D \cup {None} : V = up[U]
      BY <2>3 DEF Climbs
    <3>2. at[(k + 1) + 1][U] = at[k + 1][V] /\ at[k + 1][U] = at[k][V]
      BY <1>2, <2>1, <2>3, <3>1
    <3>3. at[k + 1][V] = IF at[k][V] = None THEN None ELSE up[at[k][V]]
      OBVIOUS
    <3> QED
      BY <3>2, <3>3
  <2> QED
    BY <2>2, <2>3
<1>5. S = Nat
  <2>1. S \in SUBSET Nat
    OBVIOUS
  <2> HIDE DEF S
  <2> QED
    BY <1>3, <1>4, <2>1, SetInduction
<1>6. P(n)
  BY <1>1, <1>5
<1> QED
  BY <1>6 DEF at

\* Two climbs that take the same steps reach the same types.
LEMMA AncestorsAgree ==
  ASSUME NEW up, NEW D, Climbs(up, D), NEW other, Climbs(other, Types),
         \A U \in D : other[U] = up[U],
         NEW n \in 0..Cardinality(Types), NEW T \in D \cup {None}
  PROVE  Ancestor(up)[n][T] = Ancestor(other)[n][T]
<1>1. Cardinality(Types) \in Nat
  BY TypesAssumption, FS_CardinalityType
<1> DEFINE at == Ancestor(up)
           to == Ancestor(other)
           S  == {k \in Nat : \A U \in D \cup {None} : at[k][U] = to[k][U]}
<1>2. ASSUME NEW U \in D \cup {None}
      PROVE  /\ at[0][U] = U /\ to[0][U] = U
             /\ \A k \in 1..Cardinality(Types) :
                  /\ at[k][U] = IF U = None THEN None ELSE at[k - 1][up[U]]
                  /\ to[k][U] = IF U = None THEN None ELSE to[k - 1][other[U]]
  <2>1. U \in Types \cup {None}
    BY DEF Climbs
  <2> QED
    BY <2>1, AncestorUp
<1> HIDE DEF at, to
<1>3. 0 \in S
  BY <1>2
<1>4. ASSUME NEW k \in S, k < Cardinality(Types) PROVE k + 1 \in S
  <2>1. k \in Nat /\ k + 1 \in 1..Cardinality(Types) /\ (k + 1) - 1 = k
    BY <1>1, <1>4
  <2>2. ASSUME NEW U \in D PROVE at[k + 1][U] = to[k + 1][U]
    <3>1. up[U] \in D \cup {None} /\ other[U] = up[U] /\ U # None
      BY TypesAssumption DEF Climbs
    <3>2. at[k + 1][U] = at[k][up[U]] /\ to[k + 1][U] = to[k][up[U]]
      BY <1>2, <2>1, <3>1
    <3> QED
      BY <3>1, <3>2
  <2>3. at[k + 1][None] = to[k + 1][None]
    BY <1>2, <2>1
  <2> QED
    BY <2>1, <2>2, <2>3
<1>5. 0..Cardinality(Types) \subseteq S
  <2>1. S \in SUBSET Nat
    OBVIOUS
  <2> HIDE DEF S
  <2> QED
    BY <1>1, <1>3, <1>4, <2>1, BoundedInduction
<1> QED
  BY <1>5 DEF at, to

-----------------------------------------------------------------------------
(* The ancestors of a type.                                                *)

\* From a type to its parent in the program.
Known == [U \in Types |-> KnownParent(U)]

\* Parents lead from types to types.
LEMMA KnownClimbs ==
  ASSUME program \in Programs
  PROVE  Climbs(Known, Types) /\ \A T \in Types : Known[T] = KnownParent(T)
BY ProgramsAssumption DEF Climbs, Known, KnownParent

\* Above the root there is nothing.
LEMMA NothingAbove ==
  ASSUME program \in Programs, NEW T \in Types, NEW n \in 0..Cardinality(Types),
         Ancestor(Known)[n][T] = None, NEW m \in n..Cardinality(Types)
  PROVE  Ancestor(Known)[m][T] = None
<1>1. Cardinality(Types) \in Nat
  BY TypesAssumption, FS_CardinalityType
<1> DEFINE at == Ancestor(Known)
           S  == {k \in Nat : n <= k => at[k][T] = None}
<1>2. ASSUME NEW k \in 0..Cardinality(Types), k < Cardinality(Types)
      PROVE  at[k + 1][T] = IF at[k][T] = None THEN None ELSE Known[at[k][T]]
  BY <1>2, AncestorTop, KnownClimbs
<1>3. at[n][T] = None
  OBVIOUS
<1> HIDE DEF at
<1>4. 0 \in S
  BY <1>3
<1>5. ASSUME NEW k \in S, k < Cardinality(Types) PROVE k + 1 \in S
  BY <1>1, <1>2, <1>3, <1>5
<1>6. 0..Cardinality(Types) \subseteq S
  <2>1. S \in SUBSET Nat
    OBVIOUS
  <2> HIDE DEF S
  <2> QED
    BY <1>1, <1>4, <1>5, <2>1, BoundedInduction
<1> QED
  BY <1>1, <1>6 DEF at

\* The number of levels up to the root.
DepthOf(T, d) ==
  /\ d \in 0..(Cardinality(Types) - 1)
  /\ Ancestor(Known)[d][T] # None
  /\ Ancestor(Known)[d + 1][T] = None

\* Every type has a root above it: among more levels than there are types one
\* type would come twice, and the types between would be above themselves.
LEMMA DepthExists ==
  ASSUME program \in Programs, NEW T \in Types PROVE \E d : DepthOf(T, d)
<1> SUFFICES ASSUME \A d : ~ DepthOf(T, d) PROVE FALSE
  OBVIOUS
<1>1. Cardinality(Types) \in Nat
  BY TypesAssumption, FS_CardinalityType
<1> DEFINE N  == Cardinality(Types)
           at == Ancestor(Known)
           S  == {k \in Nat : at[k][T] # None}
<1>2. 0 \in S
  BY AncestorUp, TypesAssumption
<1>3. ASSUME NEW k \in S, k < N PROVE k + 1 \in S
  <2>1. k \in 0..(N - 1)
    BY <1>1, <1>3
  <2> QED
    BY <1>3, <2>1 DEF DepthOf
<1>4. 0..N \subseteq S
  <2>1. S \in SUBSET Nat
    OBVIOUS
  <2> HIDE DEF S
  <2> QED
    BY <1>1, <1>2, <1>3, <2>1, BoundedInduction
<1>5. ASSUME NEW k \in 0..N
      PROVE  /\ at[k][T] \in Types
             /\ k < N => at[k + 1][T] = KnownParent(at[k][T])
  <2>1. at[k][T] \in Types
    BY <1>4, AncestorStays, KnownClimbs
  <2> QED
    BY <2>1, AncestorTop, KnownClimbs, TypesAssumption
<1> DEFINE f == [k \in 0..N |-> at[k][T]]
<1>6. PICK x \in 0..N, y \in 0..N : x # y /\ f[x] = f[y]
  <2>1. f \in [0..N -> Types]
    BY <1>5
  <2>2. IsFiniteSet(0..N) /\ Cardinality(0..N) = N + 1
    BY <1>1, FS_Interval
  <2>3. IsFiniteSet(Types) /\ N < N + 1
    BY <1>1, TypesAssumption
  <2> HIDE DEF f
  <2> QED
    BY <2>1, <2>2, <2>3, FS_PigeonHole
<1>7. PICK i \in 0..N, j \in 0..N : i < j /\ at[i][T] = at[j][T]
  BY <1>1, <1>6
<1> HIDE DEF at, f, S
<1> DEFINE R == {at[k][T] : k \in i..(j - 1)}
<1>8. R \subseteq Types /\ at[i][T] \in R
  BY <1>1, <1>5, <1>7
<1>9. PICK U \in R : Parent[U] \notin R
  <2>1. Acyclic(Parent)
    BY ProgramsAssumption DEF Parent
  <2> HIDE DEF R
  <2> QED
    BY <1>8, <2>1 DEF Acyclic
<1>10. PICK k \in i..(j - 1) : U = at[k][T]
  OBVIOUS
<1>11. KnownParent(U) = at[k + 1][T] /\ at[k + 1][T] \in Types
  BY <1>1, <1>5, <1>7, <1>10
<1>12. at[k + 1][T] \in R
  <2>1. CASE k = j - 1
    BY <1>1, <1>7, <1>8, <2>1
  <2>2. CASE k # j - 1
    <3>1. k + 1 \in i..(j - 1)
      BY <1>1, <1>7, <2>2
    <3> QED
      BY <3>1
  <2> QED
    BY <2>1, <2>2
<1>13. KnownParent(U) = Parent[U]
  BY <1>11, TypesAssumption DEF KnownParent
<1> QED
  BY <1>9, <1>11, <1>12, <1>13

\* There is one such number.
LEMMA DepthUnique ==
  ASSUME program \in Programs, NEW T \in Types, NEW d, NEW e, DepthOf(T, d), DepthOf(T, e)
  PROVE  d = e
<1>1. Cardinality(Types) \in Nat
  BY TypesAssumption, FS_CardinalityType
<1>2. ASSUME NEW a, NEW b, DepthOf(T, a), DepthOf(T, b), a < b PROVE FALSE
  <2>1. /\ a \in 0..(Cardinality(Types) - 1) /\ b \in 0..(Cardinality(Types) - 1)
        /\ Ancestor(Known)[a + 1][T] = None /\ Ancestor(Known)[b][T] # None
    BY <1>2 DEF DepthOf
  <2>2. a + 1 \in 0..Cardinality(Types) /\ b \in (a + 1)..Cardinality(Types)
    BY <1>1, <1>2, <2>1
  <2> QED
    BY <2>1, <2>2, NothingAbove
<1>3. d \in Int /\ e \in Int
  BY DEF DepthOf
<1>4. ~ (d < e) /\ ~ (e < d)
  BY <1>2
<1> QED
  BY <1>3, <1>4

\* Lineage lists the levels up to the depth.
LEMMA LineageIs ==
  ASSUME program \in Programs, NEW T \in Types, NEW d, DepthOf(T, d)
  PROVE  /\ Lineage(T) \in Seq(Types)
         /\ Len(Lineage(T)) = d + 1
         /\ \A i \in 1..(d + 1) : Lineage(T)[i] = Ancestor(Known)[i - 1][T]
<1>1. Cardinality(Types) \in Nat
  BY TypesAssumption, FS_CardinalityType
<1>2. d \in Nat /\ d < Cardinality(Types)
  BY <1>1 DEF DepthOf
<1> DEFINE e == CHOOSE n \in 0..(Cardinality(Types) - 1) :
                  Ancestor(Known)[n][T] # None /\ Ancestor(Known)[n + 1][T] = None
<1>3. DepthOf(T, e)
  BY DEF DepthOf
<1>4. e = d
  <2> HIDE DEF e
  <2> QED
    BY <1>3, DepthUnique
<1>5. Lineage(T) = [i \in 1..(e + 1) |-> Ancestor(Known)[i - 1][T]]
  BY Zenon DEF Lineage, Known
<1> HIDE DEF e
<1>6. Lineage(T) = [i \in 1..(d + 1) |-> Ancestor(Known)[i - 1][T]]
  BY <1>4, <1>5
<1>7. ASSUME NEW i \in 1..(d + 1) PROVE Ancestor(Known)[i - 1][T] \in Types
  <2>1. i - 1 \in 0..Cardinality(Types) /\ d \in (i - 1)..Cardinality(Types)
    BY <1>1, <1>2
  <2>2. Ancestor(Known)[i - 1][T] # None
    BY <2>1, NothingAbove DEF DepthOf
  <2> QED
    BY <2>1, <2>2, AncestorStays, KnownClimbs
<1> QED
  BY <1>2, <1>6, <1>7

\* The ancestors of a type: itself, and those of its parent.
LEMMA LineageUnfolds ==
  ASSUME program \in Programs, NEW T \in Types
  PROVE  /\ Lineage(T) \in Seq(Types)
         /\ Lineage(T)[1] = T
         /\ KnownParent(T) = None => Len(Lineage(T)) = 1
         /\ KnownParent(T) # None =>
              /\ KnownParent(T) \in Types
              /\ Lineage(KnownParent(T)) \in Seq(Types)
              /\ Len(Lineage(T)) = Len(Lineage(KnownParent(T))) + 1
              /\ \A i \in 1..Len(Lineage(KnownParent(T))) :
                   Lineage(T)[i + 1] = Lineage(KnownParent(T))[i]
<1>1. Cardinality(Types) \in Nat
  BY TypesAssumption, FS_CardinalityType
<1> DEFINE N  == Cardinality(Types)
           at == Ancestor(Known)
           P  == KnownParent(T)
<1>2. PICK d : DepthOf(T, d)
  BY DepthExists
<1>3. d \in 0..(N - 1) /\ d \in Nat /\ d + 1 \in 1..N
  BY <1>1, <1>2 DEF DepthOf
<1>4. /\ at[0][T] = T
      /\ \A n \in 1..N : at[n][T] = at[n - 1][P]
  <2>1. T # None /\ Known[T] = P
    BY KnownClimbs, TypesAssumption
  <2> QED
    BY <2>1, AncestorUp
<1>5. /\ Lineage(T) \in Seq(Types) /\ Len(Lineage(T)) = d + 1
      /\ \A i \in 1..(d + 1) : Lineage(T)[i] = at[i - 1][T]
  BY <1>2, LineageIs
<1>6. Lineage(T)[1] = T
  BY <1>3, <1>4, <1>5
<1>7. CASE P = None
  <2>1. at[1][T] = None
    <3>1. at[0][None] = None
      BY AncestorUp
    <3>2. 1 \in 1..N /\ 1 - 1 = 0
      BY <1>1, <1>3
    <3>3. at[1][T] = at[0][P]
      BY <1>4, <3>2
    <3> QED
      BY <1>7, <3>1, <3>3
  <2>2. d = 0
    <3> SUFFICES ASSUME d # 0 PROVE FALSE
      OBVIOUS
    <3>1. 1 \in 0..N /\ d \in 1..N
      BY <1>1, <1>3
    <3> QED
      BY <1>2, <2>1, <3>1, NothingAbove DEF DepthOf
  <2> QED
    BY <1>5, <1>6, <1>7, <2>2
<1>8. CASE P # None
  <2>1. P \in Types
    BY <1>8, KnownClimbs DEF Climbs
  <2>2. d # 0
    <3> SUFFICES ASSUME d = 0 PROVE FALSE
      OBVIOUS
    <3>1. at[1][T] = None
      BY <1>2 DEF DepthOf
    <3>2. at[1][T] = at[0][P] /\ at[0][P] = P
      BY <1>3, <1>4, <2>1, AncestorUp
    <3> QED
      BY <1>8, <3>1, <3>2
  <2>3. DepthOf(P, d - 1)
    <3>1. d \in 1..N /\ d + 1 \in 1..N /\ (d + 1) - 1 = d /\ (d - 1) + 1 = d
      BY <1>1, <1>3, <2>2
    <3>2. at[d][T] = at[d - 1][P] /\ at[d + 1][T] = at[d][P]
      BY <1>4, <3>1
    <3>3. at[d][T] # None /\ at[d + 1][T] = None
      BY <1>2 DEF DepthOf
    <3>4. d - 1 \in 0..(N - 1)
      BY <1>1, <1>3, <2>2
    <3> QED
      BY <3>1, <3>2, <3>3, <3>4 DEF DepthOf
  <2>4. /\ Lineage(P) \in Seq(Types) /\ Len(Lineage(P)) = d
        /\ \A i \in 1..d : Lineage(P)[i] = at[i - 1][P]
    <3>1. (d - 1) + 1 = d
      BY <1>3
    <3> QED
      BY <2>1, <2>3, <3>1, LineageIs
  <2>5. ASSUME NEW i \in 1..d PROVE Lineage(T)[i + 1] = Lineage(P)[i]
    <3>1. i + 1 \in 1..(d + 1) /\ (i + 1) - 1 = i /\ i \in 1..N
      BY <1>1, <1>3
    <3>2. Lineage(T)[i + 1] = at[i][T]
      BY <1>5, <3>1
    <3> QED
      BY <1>4, <2>4, <3>1, <3>2
  <2> QED
    BY <1>3, <1>5, <1>6, <1>8, <2>1, <2>4, <2>5
<1> QED
  BY <1>7, <1>8

-----------------------------------------------------------------------------
(* Method tables.                                                          *)

\* The levels of a lineage that define m.
Defining(up, m) == {j \in DOMAIN up : m \in Direct[up[j]]}
First(S) == CHOOSE j \in S : \A k \in S : j <= k

\* The first of some levels is one of them, and none comes before it.
LEMMA FirstIs ==
  ASSUME NEW S \in SUBSET Nat, S # {}
  PROVE  First(S) \in S /\ \A k \in S : First(S) <= k
<1>1. \E j \in S : \A k \in S : j <= k
  BY LeastNumber
<1> QED
  BY <1>1, Zenon DEF First

\* The definition that fills a slot is the first one on the way up.
LEMMA ImplementationIs ==
  ASSUME NEW T, NEW m
  PROVE  Implementation(T, m) = IF Defining(Lineage(T), m) = {} THEN None
                                ELSE Lineage(T)[First(Defining(Lineage(T), m))]
BY DEF Implementation, Defining, First

\* A type's method is its own definition, or else its parent's method.
LEMMA MethodsInherit ==
  ASSUME program \in Programs, NEW T \in Types, NEW m
  PROVE  Implementation(T, m) =
           IF m \in Direct[T] THEN T
           ELSE IF KnownParent(T) = None THEN None
           ELSE Implementation(KnownParent(T), m)
<1> DEFINE up == Lineage(T)
           I  == Defining(up, m)
           P  == KnownParent(T)
           pu == Lineage(P)
           J  == Defining(pu, m)
<1>1. up \in Seq(Types) /\ up[1] = T /\ Len(up) >= 1 /\ Len(up) \in Nat
  <2>1. Len(up) = 1 \/ (pu \in Seq(Types) /\ Len(up) = Len(pu) + 1)
    BY LineageUnfolds
  <2>2. up \in Seq(Types) /\ up[1] = T
    BY LineageUnfolds
  <2> HIDE DEF up, pu
  <2> QED
    BY <2>1, <2>2
<1>2. P # None => /\ pu \in Seq(Types) /\ Len(up) = Len(pu) + 1
                  /\ \A i \in 1..Len(pu) : up[i + 1] = pu[i]
  BY LineageUnfolds
<1>3. P = None => Len(up) = 1
  BY LineageUnfolds
<1>4. /\ Implementation(T, m) = IF I = {} THEN None ELSE up[First(I)]
      /\ Implementation(P, m) = IF J = {} THEN None ELSE pu[First(J)]
  BY ImplementationIs
<1> HIDE DEF up, pu, P
<1>5. I \in SUBSET Nat /\ \A j : j \in I <=> j \in 1..Len(up) /\ m \in Direct[up[j]]
  BY <1>1 DEF Defining
<1>6. CASE m \in Direct[T]
  <2>1. 1 \in I
    BY <1>1, <1>5, <1>6
  <2>2. First(I) \in I /\ First(I) <= 1
    BY <1>5, <2>1, FirstIs
  <2>3. First(I) = 1
    BY <1>1, <1>5, <2>2
  <2> QED
    BY <1>1, <1>4, <1>6, <2>1, <2>3
<1>7. CASE m \notin Direct[T] /\ P = None
  <2>1. I = {}
    BY <1>1, <1>3, <1>5, <1>7
  <2> QED
    BY <1>4, <1>7, <2>1 DEF P
<1>8. CASE m \notin Direct[T] /\ P # None
  <2>1. /\ pu \in Seq(Types) /\ Len(pu) \in Nat /\ Len(up) = Len(pu) + 1
        /\ \A i \in 1..Len(pu) : up[i + 1] = pu[i]
    BY <1>2, <1>8
  <2>2. J \in SUBSET Nat /\ \A j : j \in J <=> j \in 1..Len(pu) /\ m \in Direct[pu[j]]
    BY <2>1 DEF Defining
  <2>3. ASSUME NEW j \in J PROVE j + 1 \in I
    BY <1>5, <2>1, <2>2
  <2>4. ASSUME NEW j \in I PROVE j - 1 \in J /\ j \in Nat
    <3>1. j \in 1..Len(up) /\ m \in Direct[up[j]] /\ j # 1
      BY <1>1, <1>5, <1>8
    <3>2. j - 1 \in 1..Len(pu) /\ (j - 1) + 1 = j
      BY <2>1, <3>1
    <3>3. up[j] = pu[j - 1]
      BY <2>1, <3>2
    <3> QED
      BY <2>2, <3>1, <3>2, <3>3
  <2>5. CASE J = {}
    <3>1. I = {}
      BY <2>4, <2>5
    <3> QED
      BY <1>4, <1>8, <2>5, <3>1 DEF P
  <2>6. CASE J # {}
    <3>1. First(J) \in J /\ \A k \in J : First(J) <= k
      BY <2>2, <2>6, FirstIs
    <3>2. I # {}
      BY <2>3, <2>6
    <3>3. First(I) \in I /\ \A k \in I : First(I) <= k
      BY <1>5, <3>2, FirstIs
    <3>4. PICK a \in J : a = First(J)
      BY <3>1
    <3>5. PICK b \in I : b = First(I)
      BY <3>3
    <3>6. b <= a + 1 /\ a <= b - 1 /\ a \in Nat /\ b \in Nat
      BY <2>2, <2>3, <2>4, <3>1, <3>3, <3>4, <3>5
    <3>7. b = a + 1 /\ a \in 1..Len(pu)
      BY <2>2, <3>6
    <3>8. up[b] = pu[a]
      BY <2>1, <3>7
    <3> QED
      BY <1>4, <1>8, <2>6, <3>2, <3>4, <3>5, <3>8 DEF P
  <2> QED
    BY <2>5, <2>6
<1> QED
  BY <1>6, <1>7, <1>8 DEF P

-----------------------------------------------------------------------------
(* Field slots.                                                            *)

\* w[k] is seen with the new ones of the first k names.
Adding(w, seen, fs, n) ==
  w = [k \in 0..n |-> IF k = 0 THEN seen
                      ELSE IF fs[k] \in Range(w[k - 1]) THEN w[k - 1]
                      ELSE Append(w[k - 1], fs[k])]

\* The recursion that defines AddNew has a solution.
LEMMA AddingExists ==
  ASSUME NEW seen, NEW fs, NEW n \in Nat PROVE \E w : Adding(w, seen, fs, n)
<1> DEFINE S == {m \in Nat : \E w : Adding(w, seen, fs, m)}
<1>1. 0 \in S
  <2> DEFINE w == [k \in 0..0 |-> seen]
  <2>1. Adding(w, seen, fs, 0)
    BY DEF Adding
  <2> QED
    BY <2>1
<1>2. ASSUME NEW m \in S PROVE m + 1 \in S
  <2>1. m \in Nat
    OBVIOUS
  <2>2. PICK w : Adding(w, seen, fs, m)
    OBVIOUS
  <2>3. PICK v : v = IF fs[m + 1] \in Range(w[m]) THEN w[m] ELSE Append(w[m], fs[m + 1])
    OBVIOUS
  <2> DEFINE g == [k \in 0..(m + 1) |-> IF k = m + 1 THEN v ELSE w[k]]
             Body(h, k) == IF k = 0 THEN seen
                           ELSE IF fs[k] \in Range(h[k - 1]) THEN h[k - 1]
                           ELSE Append(h[k - 1], fs[k])
  <2>4. \A k \in 0..m : w[k] = Body(w, k)
    BY <2>2 DEF Adding
  <2>5. ASSUME NEW k \in 0..(m + 1) PROVE g[k] = Body(g, k)
    <3>1. CASE k = m + 1
      <4>1. g[k] = v /\ k # 0 /\ g[k - 1] = w[m]
        BY <2>1, <3>1
      <4> HIDE DEF g
      <4> QED
        BY <2>3, <3>1, <4>1
    <3>2. CASE k # m + 1
      <4>1. g[k] = w[k] /\ k \in 0..m /\ (k # 0 => g[k - 1] = w[k - 1])
        BY <2>1, <3>2
      <4> HIDE DEF g
      <4> QED
        BY <2>4, <4>1
    <3> QED
      BY <3>1, <3>2
  <2>6. Adding(g, seen, fs, m + 1)
    <3>1. g = [k \in 0..(m + 1) |-> g[k]]
      OBVIOUS
    <3> HIDE DEF g
    <3>2. [k \in 0..(m + 1) |-> g[k]] = [k \in 0..(m + 1) |-> Body(g, k)]
      BY <2>5
    <3> QED
      BY <3>1, <3>2 DEF Adding
  <2> QED
    BY <2>1, <2>6
<1>3. S = Nat
  <2>1. S \in SUBSET Nat
    OBVIOUS
  <2> HIDE DEF S
  <2> QED
    BY <1>1, <1>2, <2>1, SetInduction
<1> QED
  BY <1>3

\* What AddNew computes, step by step.
LEMMA AddNewIs ==
  ASSUME NEW seen, NEW fs \in Seq(Fields)
  PROVE  \E w : /\ AddNew(seen, fs) = w[Len(fs)]
                /\ w[0] = seen
                /\ \A k \in 1..Len(fs) :
                     w[k] = IF fs[k] \in Range(w[k - 1]) THEN w[k - 1]
                            ELSE Append(w[k - 1], fs[k])
<1>1. Len(fs) \in Nat
  OBVIOUS
<1> DEFINE w == CHOOSE w : Adding(w, seen, fs, Len(fs))
<1>2. Adding(w, seen, fs, Len(fs))
  BY <1>1, AddingExists
<1>3. AddNew(seen, fs) = w[Len(fs)]
  BY Zenon DEF AddNew, Adding
<1> HIDE DEF w
<1>4. ASSUME NEW k \in 0..Len(fs)
      PROVE  w[k] = IF k = 0 THEN seen
                    ELSE IF fs[k] \in Range(w[k - 1]) THEN w[k - 1]
                    ELSE Append(w[k - 1], fs[k])
  BY <1>2 DEF Adding
<1>5. 0 \in 0..Len(fs) /\ \A k \in 1..Len(fs) : k \in 0..Len(fs) /\ k # 0
  BY <1>1
<1> QED
  BY <1>3, <1>4, <1>5

\* s starts with r.
Starts(r, s) == Len(r) <= Len(s) /\ \A i \in 1..Len(r) : s[i] = r[i]

\* What was seen keeps its place, and what is added are fields.
LEMMA AddNewExtends ==
  ASSUME NEW seen \in Seq(Fields), NEW fs \in Seq(Fields)
  PROVE  AddNew(seen, fs) \in Seq(Fields) /\ Starts(seen, AddNew(seen, fs))
<1>1. Len(fs) \in Nat
  OBVIOUS
<1>2. PICK w : /\ AddNew(seen, fs) = w[Len(fs)]
               /\ w[0] = seen
               /\ \A k \in 1..Len(fs) :
                     w[k] = IF fs[k] \in Range(w[k - 1]) THEN w[k - 1]
                            ELSE Append(w[k - 1], fs[k])
  BY AddNewIs
<1> DEFINE S == {k \in Nat : w[k] \in Seq(Fields) /\ Starts(seen, w[k])}
<1>3. 0 \in S
  BY <1>2 DEF Starts
<1>4. ASSUME NEW k \in S, k < Len(fs) PROVE k + 1 \in S
  <2>1. k \in Nat /\ k + 1 \in 1..Len(fs) /\ (k + 1) - 1 = k
    BY <1>1, <1>4
  <2>2. w[k + 1] = w[k] \/ w[k + 1] = Append(w[k], fs[k + 1])
    BY <1>2, <2>1
  <2>3. fs[k + 1] \in Fields /\ w[k] \in Seq(Fields) /\ Starts(seen, w[k])
    BY <2>1
  <2>4. PICK r \in Seq(Fields), x \in Fields : r = w[k] /\ x = fs[k + 1]
    BY <2>3
  <2>5. Append(r, x) \in Seq(Fields) /\ Starts(seen, Append(r, x))
    <3>1. Len(seen) \in Nat /\ Len(r) \in Nat /\ Len(Append(r, x)) = Len(r) + 1
      OBVIOUS
    <3>2. ASSUME NEW i \in 1..Len(r) PROVE Append(r, x)[i] = r[i]
      OBVIOUS
    <3> QED
      BY <2>3, <2>4, <3>1, <3>2 DEF Starts
  <2>6. w[k + 1] \in Seq(Fields) /\ Starts(seen, w[k + 1])
    <3>1. CASE w[k + 1] = w[k]
      BY <2>3, <3>1
    <3>2. CASE w[k + 1] = Append(w[k], fs[k + 1])
      BY <2>4, <2>5, <3>2
    <3> QED
      BY <2>2, <3>1, <3>2
  <2> QED
    BY <2>1, <2>6
<1>5. 0..Len(fs) \subseteq S
  <2>1. S \in SUBSET Nat
    OBVIOUS
  <2> HIDE DEF S
  <2> QED
    BY <1>1, <1>3, <1>4, <2>1, BoundedInduction
<1> QED
  BY <1>1, <1>2, <1>5

\* The names in a list that repeats none are all new.
LEMMA AddNewOfDistinct ==
  ASSUME NEW fs \in Seq(Fields),
         \A i, j \in 1..Len(fs) : i # j => fs[i] # fs[j]
  PROVE  AddNew(<<>>, fs) = fs
<1>1. Len(fs) \in Nat
  OBVIOUS
<1>2. PICK w : /\ AddNew(<<>>, fs) = w[Len(fs)]
               /\ w[0] = <<>>
               /\ \A k \in 1..Len(fs) :
                     w[k] = IF fs[k] \in Range(w[k - 1]) THEN w[k - 1]
                            ELSE Append(w[k - 1], fs[k])
  BY AddNewIs
<1> DEFINE P(k) == /\ w[k] \in Seq(Fields) /\ Len(w[k]) = k
                   /\ \A i \in 1..k : w[k][i] = fs[i]
           S    == {k \in Nat : P(k)}
<1>3. 0 \in S
  <2>1. <<>> \in Seq(Fields) /\ Len(<<>>) = 0 /\ 1..0 = {}
    OBVIOUS
  <2>2. P(0)
    BY <1>2, <2>1
  <2> QED
    BY <2>2
<1>4. ASSUME NEW k \in S, k < Len(fs) PROVE k + 1 \in S
  <2>1. /\ k \in Nat /\ k + 1 \in 1..Len(fs) /\ (k + 1) - 1 = k
        /\ \A i \in 1..k : i \in 1..Len(fs) /\ i # k + 1
    BY <1>1, <1>4
  <2>2. PICK r \in Seq(Fields) : r = w[k] /\ Len(r) = k /\ \A i \in 1..k : r[i] = fs[i]
    OBVIOUS
  <2>3. PICK x \in Fields : x = fs[k + 1]
    BY <2>1
  <2>4. x \notin Range(r)
    <3>1. DOMAIN r = 1..k
      BY <2>2
    <3>2. ASSUME NEW i \in 1..k PROVE r[i] # x
      BY <2>1, <2>2, <2>3
    <3> QED
      BY <3>1, <3>2 DEF Range
  <2>5. w[k + 1] = Append(r, x)
    BY <1>2, <2>1, <2>2, <2>3, <2>4
  <2>6. /\ Append(r, x) \in Seq(Fields) /\ Len(Append(r, x)) = k + 1
        /\ Append(r, x)[k + 1] = x
        /\ \A i \in 1..k : Append(r, x)[i] = r[i]
    BY <2>2
  <2>7. \A i \in 1..(k + 1) : i = k + 1 \/ i \in 1..k
    BY <2>1
  <2>8. P(k + 1)
    <3>1. ASSUME NEW i \in 1..(k + 1) PROVE w[k + 1][i] = fs[i]
      BY <2>2, <2>3, <2>5, <2>6, <2>7
    <3> QED
      BY <2>5, <2>6, <3>1
  <2> QED
    BY <2>1, <2>8
<1>5. 0..Len(fs) \subseteq S
  <2>1. S \in SUBSET Nat
    OBVIOUS
  <2> HIDE DEF S
  <2> QED
    BY <1>1, <1>3, <1>4, <2>1, BoundedInduction
<1>6. P(Len(fs))
  BY <1>1, <1>5
<1> QED
  BY <1>2, <1>6

\* f[k] are the fields of the first k types.
Along(f, types, n) ==
  f = [k \in 0..n |-> IF k = 0 THEN <<>> ELSE AddNew(f[k - 1], Own[types[k]])]

\* The recursion that defines FieldsAlong has a solution.
LEMMA AlongExists ==
  ASSUME NEW types, NEW n \in Nat PROVE \E f : Along(f, types, n)
<1> DEFINE S == {m \in Nat : \E f : Along(f, types, m)}
<1>1. 0 \in S
  <2> DEFINE f == [k \in 0..0 |-> <<>>]
  <2>1. Along(f, types, 0)
    BY DEF Along
  <2> QED
    BY <2>1
<1>2. ASSUME NEW m \in S PROVE m + 1 \in S
  <2>1. m \in Nat
    OBVIOUS
  <2>2. PICK f : Along(f, types, m)
    OBVIOUS
  <2>3. PICK v : v = AddNew(f[m], Own[types[m + 1]])
    OBVIOUS
  <2> DEFINE g == [k \in 0..(m + 1) |-> IF k = m + 1 THEN v ELSE f[k]]
             Body(h, k) == IF k = 0 THEN <<>> ELSE AddNew(h[k - 1], Own[types[k]])
  <2>4. \A k \in 0..m : f[k] = Body(f, k)
    BY <2>2 DEF Along
  <2>5. ASSUME NEW k \in 0..(m + 1) PROVE g[k] = Body(g, k)
    <3>1. CASE k = m + 1
      <4>1. g[k] = v /\ k # 0 /\ g[k - 1] = f[m]
        BY <2>1, <3>1
      <4> HIDE DEF g
      <4> QED
        BY <2>3, <3>1, <4>1
    <3>2. CASE k # m + 1
      <4>1. g[k] = f[k] /\ k \in 0..m /\ (k # 0 => g[k - 1] = f[k - 1])
        BY <2>1, <3>2
      <4> HIDE DEF g
      <4> QED
        BY <2>4, <4>1
    <3> QED
      BY <3>1, <3>2
  <2>6. Along(g, types, m + 1)
    <3>1. g = [k \in 0..(m + 1) |-> g[k]]
      OBVIOUS
    <3> HIDE DEF g
    <3>2. [k \in 0..(m + 1) |-> g[k]] = [k \in 0..(m + 1) |-> Body(g, k)]
      BY <2>5
    <3> QED
      BY <3>1, <3>2 DEF Along
  <2> QED
    BY <2>1, <2>6
<1>3. S = Nat
  <2>1. S \in SUBSET Nat
    OBVIOUS
  <2> HIDE DEF S
  <2> QED
    BY <1>1, <1>2, <2>1, SetInduction
<1> QED
  BY <1>3

\* types[1] to types[n] are types, and f runs through their fields.
FieldsOf(f, types, n) ==
  /\ n \in Nat
  /\ \A k \in 1..n : types[k] \in Types
  /\ f[0] = <<>>
  /\ \A k \in 1..n : f[k] = AddNew(f[k - 1], Own[types[k]])

\* What FieldsAlong computes, step by step.
LEMMA FieldsAlongIs ==
  ASSUME NEW types \in Seq(Types)
  PROVE  \E f : FieldsAlong(types) = f[Len(types)] /\ FieldsOf(f, types, Len(types))
<1>1. Len(types) \in Nat /\ \A k \in 1..Len(types) : types[k] \in Types
  OBVIOUS
<1> DEFINE f == CHOOSE f : Along(f, types, Len(types))
<1>2. Along(f, types, Len(types))
  BY <1>1, AlongExists
<1>3. FieldsAlong(types) = f[Len(types)]
  BY Zenon DEF FieldsAlong, Along
<1> HIDE DEF f
<1>4. ASSUME NEW k \in 0..Len(types)
      PROVE  f[k] = IF k = 0 THEN <<>> ELSE AddNew(f[k - 1], Own[types[k]])
  BY <1>2 DEF Along
<1>5. 0 \in 0..Len(types) /\ \A k \in 1..Len(types) : k \in 0..Len(types) /\ k # 0
  BY <1>1
<1>6. FieldsOf(f, types, Len(types))
  BY <1>1, <1>4, <1>5 DEF FieldsOf
<1> QED
  BY <1>3, <1>6

\* Two runs through the same types find the same fields.
LEMMA FieldsOfSame ==
  ASSUME NEW f, NEW g, NEW s, NEW t, NEW n,
         FieldsOf(f, s, n), FieldsOf(g, t, n), \A k \in 1..n : s[k] = t[k]
  PROVE  f[n] = g[n]
<1>1. n \in Nat /\ f[0] = g[0]
  BY DEF FieldsOf
<1> DEFINE S == {k \in Nat : f[k] = g[k]}
<1>2. 0 \in S
  BY <1>1
<1>3. ASSUME NEW k \in S, k < n PROVE k + 1 \in S
  <2>1. k \in Nat /\ k + 1 \in 1..n /\ (k + 1) - 1 = k
    BY <1>1, <1>3
  <2>2. /\ f[k + 1] = AddNew(f[k], Own[s[k + 1]])
        /\ g[k + 1] = AddNew(g[k], Own[t[k + 1]])
    BY <2>1 DEF FieldsOf
  <2> QED
    BY <2>1, <2>2
<1>4. 0..n \subseteq S
  <2>1. S \in SUBSET Nat
    OBVIOUS
  <2> HIDE DEF S
  <2> QED
    BY <1>1, <1>2, <1>3, <2>1, BoundedInduction
<1> QED
  BY <1>1, <1>4

\* The fields of types are fields; and types without fields have none.
LEMMA FieldsOfTyped ==
  ASSUME program \in Programs, NEW f, NEW types, NEW n, FieldsOf(f, types, n)
  PROVE  /\ f[n] \in Seq(Fields)
         /\ (\A k \in 1..n : Own[types[k]] = <<>>) => f[n] = <<>>
<1>1. n \in Nat /\ f[0] = <<>>
  BY DEF FieldsOf
<1> DEFINE Empty == \A k \in 1..n : Own[types[k]] = <<>>
           S     == {k \in Nat : f[k] \in Seq(Fields) /\ (Empty => f[k] = <<>>)}
<1>2. 0 \in S
  <2>1. <<>> \in Seq(Fields)
    OBVIOUS
  <2> QED
    BY <1>1, <2>1
<1>3. ASSUME NEW k \in S, k < n PROVE k + 1 \in S
  <2>1. k \in Nat /\ k + 1 \in 1..n /\ (k + 1) - 1 = k
    BY <1>1, <1>3
  <2>2. /\ f[k + 1] = AddNew(f[k], Own[types[k + 1]])
        /\ types[k + 1] \in Types /\ f[k] \in Seq(Fields)
    BY <2>1 DEF FieldsOf
  <2>3. Own[types[k + 1]] \in Seq(Fields)
    BY <2>2, ProgramsAssumption DEF Own
  <2>4. f[k + 1] \in Seq(Fields)
    BY <2>2, <2>3, AddNewExtends
  <2>5. Empty => f[k + 1] = <<>>
    <3> SUFFICES ASSUME Empty PROVE f[k + 1] = <<>>
      OBVIOUS
    <3>1. f[k] = <<>> /\ Own[types[k + 1]] = <<>>
      BY <2>1
    <3>2. AddNew(<<>>, <<>>) = <<>>
      BY AddNewOfDistinct
    <3> QED
      BY <2>2, <3>1, <3>2
  <2> QED
    BY <2>1, <2>4, <2>5
<1>4. 0..n \subseteq S
  <2>1. S \in SUBSET Nat
    OBVIOUS
  <2> HIDE DEF S
  <2> QED
    BY <1>1, <1>2, <1>3, <2>1, BoundedInduction
<1> QED
  BY <1>1, <1>4

\* A type's fields: those it inherits, which are all its parent has, then the
\* new ones among its own.
LEMMA FieldsInherit ==
  ASSUME program \in Programs, NEW T \in Types
  PROVE  \E inherited \in Seq(Fields) :
           /\ AllFields(T) = AddNew(inherited, Own[T])
           /\ KnownParent(T) # None => inherited = AllFields(KnownParent(T))
           /\ ~ InheritsFields(T) => inherited = <<>>
<1> DEFINE up == Lineage(T)
           P  == KnownParent(T)
           pu == Lineage(P)
           n  == Len(up)
<1>1. up \in Seq(Types) /\ up[1] = T /\ n >= 1 /\ n \in Nat
  <2>1. n = 1 \/ (pu \in Seq(Types) /\ n = Len(pu) + 1)
    BY LineageUnfolds
  <2>2. up \in Seq(Types) /\ up[1] = T
    BY LineageUnfolds
  <2> HIDE DEF up, pu
  <2> QED
    BY <2>1, <2>2
<1>2. P # None => /\ pu \in Seq(Types) /\ n = Len(pu) + 1
                  /\ \A i \in 1..Len(pu) : up[i + 1] = pu[i]
  BY LineageUnfolds
<1>3. /\ AllFields(T) = FieldsAlong(Reverse(up))
      /\ AllFields(P) = FieldsAlong(Reverse(pu))
  BY DEF AllFields
<1>4. ~ InheritsFields(T) => \A i \in DOMAIN up : i > 1 => Own[up[i]] = <<>>
  BY DEF InheritsFields
<1> HIDE DEF up, pu, P
<1>5. /\ Reverse(up) \in Seq(Types) /\ Len(Reverse(up)) = n
      /\ \A k \in 1..n : Reverse(up)[k] = up[(n - k) + 1]
  BY <1>1 DEF Reverse
<1>6. PICK f : FieldsAlong(Reverse(up)) = f[n] /\ FieldsOf(f, Reverse(up), n)
  BY <1>5, FieldsAlongIs
<1>7. AllFields(T) = AddNew(f[n - 1], Own[T])
  <2>1. n \in 1..n /\ Reverse(up)[n] = T
    <3>1. n \in 1..n /\ (n - n) + 1 = 1
      BY <1>1
    <3> QED
      BY <1>1, <1>5, <3>1
  <2> QED
    BY <1>3, <1>6, <2>1 DEF FieldsOf
<1>8. FieldsOf(f, Reverse(up), n - 1)
  <2>1. n - 1 \in Nat /\ \A k \in 1..(n - 1) : k \in 1..n
    BY <1>1
  <2> QED
    BY <1>6, <2>1 DEF FieldsOf
<1>9. f[n - 1] \in Seq(Fields)
  BY <1>8, FieldsOfTyped
<1>10. ASSUME P # None PROVE f[n - 1] = AllFields(P)
  <2>1. /\ pu \in Seq(Types) /\ Len(pu) = n - 1
        /\ \A i \in 1..(n - 1) : up[i + 1] = pu[i]
    BY <1>1, <1>2, <1>10
  <2>2. /\ Reverse(pu) \in Seq(Types) /\ Len(Reverse(pu)) = n - 1
        /\ \A k \in 1..(n - 1) : Reverse(pu)[k] = pu[((n - 1) - k) + 1]
    BY <2>1 DEF Reverse
  <2>3. PICK g : FieldsAlong(Reverse(pu)) = g[n - 1] /\ FieldsOf(g, Reverse(pu), n - 1)
    BY <2>2, FieldsAlongIs
  <2>4. ASSUME NEW k \in 1..(n - 1) PROVE Reverse(up)[k] = Reverse(pu)[k]
    <3>1. k \in 1..n /\ n - k \in 1..(n - 1) /\ ((n - 1) - k) + 1 = n - k
      BY <1>1
    <3>2. Reverse(up)[k] = up[(n - k) + 1] /\ Reverse(pu)[k] = pu[n - k]
      BY <1>5, <2>2, <3>1
    <3> QED
      BY <2>1, <3>1, <3>2
  <2>5. f[n - 1] = g[n - 1]
    BY <1>8, <2>3, <2>4, FieldsOfSame
  <2> QED
    BY <1>3, <2>3, <2>5
<1>11. ASSUME ~ InheritsFields(T) PROVE f[n - 1] = <<>>
  <2>1. ASSUME NEW k \in 1..(n - 1) PROVE Own[Reverse(up)[k]] = <<>>
    <3>1. k \in 1..n /\ (n - k) + 1 \in 1..n /\ (n - k) + 1 > 1
      BY <1>1
    <3>2. (n - k) + 1 \in DOMAIN up
      BY <1>1, <3>1
    <3>3. Own[up[(n - k) + 1]] = <<>>
      BY <1>4, <1>11, <3>1, <3>2
    <3> QED
      BY <1>5, <3>1, <3>3
  <2> QED
    BY <1>8, <2>1, FieldsOfTyped
<1> QED
  BY <1>7, <1>9, <1>10, <1>11 DEF P

\* A parent's slots are the first of its children's.
LEMMA ParentsFieldsFirst ==
  ASSUME program \in Programs, NEW T \in Types, KnownParent(T) # None
  PROVE  IsPrefix(AllFields(KnownParent(T)), AllFields(T))
<1>1. Own[T] \in Seq(Fields)
  BY ProgramsAssumption DEF Own
<1>2. PICK r \in Seq(Fields) : r = AllFields(KnownParent(T)) /\ AllFields(T) = AddNew(r, Own[T])
  BY FieldsInherit
<1>3. PICK s \in Seq(Fields) : s = AllFields(T) /\ Starts(r, s)
  BY <1>1, <1>2, AddNewExtends
<1>4. /\ Len(r) \in Nat /\ Len(s) \in Nat /\ Len(r) <= Len(s)
      /\ \A i \in 1..Len(r) : s[i] = r[i]
  BY <1>3 DEF Starts
<1>5. SubSeq(r, 1, Len(r)) = SubSeq(s, 1, Len(r))
  <2>1. ASSUME NEW i \in 1..Len(r)
        PROVE  SubSeq(r, 1, Len(r))[i] = SubSeq(s, 1, Len(r))[i]
    BY <1>4
  <2>2. SubSeq(r, 1, Len(r)) \in Seq(Fields) /\ SubSeq(s, 1, Len(r)) \in Seq(Fields)
    BY <1>4
  <2>3. Len(SubSeq(r, 1, Len(r))) = Len(r) /\ Len(SubSeq(s, 1, Len(r))) = Len(r)
    BY <1>4
  <2> QED
    BY <2>1, <2>2, <2>3
<1> QED
  BY <1>2, <1>3, <1>4, <1>5 DEF IsPrefix

\* In a type that inherits no field and repeats none of its own, the offsets
\* of its tag are the slots of its reference fields.
LEMMA RootOffsets ==
  ASSUME program \in Programs, NEW T \in Types, ~ InheritsFields(T), ~ RepeatsFields(T)
  PROVE  Offsets(T) = {8 * FieldIndex(T, f) : f \in Range(AllFields(T)) \cap RefFields}
<1>1. Own[T] \in Seq(Fields)
  BY ProgramsAssumption DEF Own
<1>2. PICK fs \in Seq(Fields) : fs = Own[T]
  BY <1>1
<1>3. \A i, j \in 1..Len(fs) : i # j => fs[i] # fs[j]
  BY <1>2 DEF RepeatsFields
<1>4. AllFields(T) = fs
  BY <1>2, <1>3, FieldsInherit, AddNewOfDistinct
<1>5. ASSUME NEW i \in 1..Len(fs) PROVE FieldIndex(T, fs[i]) = i
  <2>1. FieldIndex(T, fs[i]) = CHOOSE k \in DOMAIN fs : fs[k] = fs[i]
    BY <1>4 DEF FieldIndex
  <2>2. DOMAIN fs = 1..Len(fs)
    OBVIOUS
  <2> DEFINE k == CHOOSE k \in DOMAIN fs : fs[k] = fs[i]
  <2>3. k \in DOMAIN fs /\ fs[k] = fs[i]
    BY <2>2
  <2> HIDE DEF k
  <2> QED
    BY <1>3, <2>1, <2>2, <2>3 DEF k
<1>6. Offsets(T) = {8 * i : i \in {j \in 1..Len(fs) : fs[j] \in RefFields}}
  BY <1>2 DEF Offsets
<1>7. Range(AllFields(T)) = {fs[i] : i \in 1..Len(fs)}
  BY <1>4 DEF Range
<1>8. ASSUME NEW f \in Range(AllFields(T)) \cap RefFields
      PROVE  8 * FieldIndex(T, f) \in Offsets(T)
  <2>1. PICK i \in 1..Len(fs) : f = fs[i]
    BY <1>7
  <2> QED
    BY <1>5, <1>6, <2>1
<1>9. ASSUME NEW i \in 1..Len(fs), fs[i] \in RefFields
      PROVE  \E f \in Range(AllFields(T)) \cap RefFields : 8 * i = 8 * FieldIndex(T, f)
  <2>1. fs[i] \in Range(AllFields(T)) \cap RefFields
    BY <1>7, <1>9
  <2> QED
    BY <1>5, <2>1
<1> QED
  BY <1>6, <1>8, <1>9

-----------------------------------------------------------------------------
(* The order of the tags.                                                  *)

Distinct(s) == \A i, j \in 1..Len(s) : i # j => s[i] # s[j]

Typed ==
  /\ program \in Programs
  /\ next \in 1..(Len(Declared) + 1)
  /\ current \in Types \cup {None}
  /\ chain \in Seq(Types) /\ ordered \in Seq(Types)

\* Every type is placed once, after its parent, when its walk is over.
Placed ==
  /\ Distinct(ordered)
  /\ \A i \in 1..Len(ordered) :
       KnownParent(ordered[i]) # None =>
         \E j \in 1..(i - 1) : ordered[j] = KnownParent(ordered[i])
  /\ \A k \in 1..(next - 1) : Declared[k] \in Range(ordered)

\* The walk goes from the declaration through types not placed, from one to its
\* parent, to where it is.
Walk ==
  /\ Distinct(chain)
  /\ \A i \in 1..Len(chain) : chain[i] \notin Range(ordered)
  /\ \A i \in 1..Len(chain) :
       KnownParent(chain[i]) = IF i = Len(chain) THEN current ELSE chain[i + 1]
  /\ Walking => Declared[next] = IF Len(chain) = 0 THEN current ELSE chain[1]
  /\ ~ Walking => Len(chain) = 0

\* The tags of the first types of the order are there, each with its parent.
Built ==
  /\ IsFiniteSet(DOMAIN tags)
  /\ Cardinality(DOMAIN tags) <= Len(ordered)
  /\ DOMAIN tags = {ordered[i] : i \in 1..Cardinality(DOMAIN tags)}
  /\ Walking => DOMAIN tags = {}
  /\ \A T \in DOMAIN tags :
       tags[T].parent = KnownParent(T) /\ tags[T].offsets = Offsets(T)

IInv == Typed /\ Placed /\ Walk /\ Built

\* The program stays what it is.
LEMMA ProgramKept ==
  ASSUME UNCHANGED program
  PROVE  /\ Declared' = Declared
         /\ \A T : KnownParent(T)' = KnownParent(T)
         /\ \A T : Offsets(T)' = Offsets(T)
BY DEF Declared, KnownParent, Parent, Offsets, Own

\* A type's parent is a type, or the type has none; the declared are types.
LEMMA ParentTyped ==
  ASSUME program \in Programs
  PROVE  /\ \A T \in Types : KnownParent(T) \in Types \cup {None}
         /\ Declared \in Seq(Types) /\ Range(Declared) = Types
         /\ Len(Declared) \in Nat
<1>1. \A T \in Types : KnownParent(T) \in Types \cup {None}
  BY DEF KnownParent
<1>2. Declared \in Seq(Types) /\ Range(Declared) = Types
  BY ProgramsAssumption DEF Declared
<1> QED
  BY <1>1, <1>2

\* The elements of a sequence.
LEMMA RangeIs ==
  ASSUME NEW S, NEW s \in Seq(S)
  PROVE  \A x : x \in Range(s) <=> \E i \in 1..Len(s) : s[i] = x
BY DEF Range

\* Where a walk begins.
LEMMA WalkFromIs ==
  ASSUME program \in Programs, NEW n \in 1..(Len(Declared) + 1)
  PROVE  /\ WalkFrom(n) \in Types \cup {None}
         /\ n <= Len(Declared) => WalkFrom(n) = Declared[n]
<1>1. Declared \in Seq(Types) /\ Len(Declared) \in Nat
  BY ParentTyped
<1> QED
  BY <1>1 DEF WalkFrom

\* The walk never comes back to a type it went through: those between would be
\* above themselves.
LEMMA CurrentIsNew ==
  ASSUME IInv, current # None, NEW i \in 1..Len(chain) PROVE chain[i] # current
<1> SUFFICES ASSUME chain[i] = current PROVE FALSE
  OBVIOUS
<1>1. program \in Programs /\ chain \in Seq(Types) /\ Len(chain) \in Nat
  BY DEF IInv, Typed
<1> DEFINE R == {chain[k] : k \in i..Len(chain)}
<1>2. R \subseteq Types /\ current \in R
  BY <1>1
<1>3. PICK U \in R : Parent[U] \notin R
  <2>1. Acyclic(Parent)
    BY <1>1, ProgramsAssumption DEF Parent
  <2> HIDE DEF R
  <2> QED
    BY <1>2, <2>1 DEF Acyclic
<1>4. PICK k \in i..Len(chain) : U = chain[k]
  OBVIOUS
<1>5. KnownParent(U) = IF k = Len(chain) THEN current ELSE chain[k + 1]
  BY <1>1, <1>4 DEF IInv, Walk
<1>6. KnownParent(U) \in R
  <2>1. CASE k = Len(chain)
    BY <1>2, <1>5, <2>1
  <2>2. CASE k # Len(chain)
    <3>1. k + 1 \in i..Len(chain)
      BY <1>1, <2>2
    <3> QED
      BY <1>5, <2>2, <3>1
  <2> QED
    BY <2>1, <2>2
<1>7. KnownParent(U) = Parent[U]
  BY <1>2, <1>6, TypesAssumption DEF KnownParent
<1> QED
  BY <1>3, <1>6, <1>7

\* A step up keeps the invariant.
LEMMA ClimbStep == ASSUME IInv, Climb PROVE IInv'
<1>1. /\ program \in Programs /\ chain \in Seq(Types) /\ Len(chain) \in Nat
      /\ ordered \in Seq(Types) /\ current \in Types /\ Walking
  BY DEF IInv, Typed, Climb
<1>2. /\ Declared' = Declared /\ Walking' = Walking /\ next' = next
      /\ ordered' = ordered /\ tags' = tags /\ program' = program
      /\ \A T : KnownParent(T)' = KnownParent(T)
      /\ \A T : Offsets(T)' = Offsets(T)
  BY ProgramKept DEF Climb, Walking
<1>3. PICK new \in Seq(Types) : new = Append(chain, current) /\ chain' = new
  BY <1>1 DEF Climb
<1>4. /\ Len(new) = Len(chain) + 1 /\ new[Len(chain) + 1] = current
      /\ \A i \in 1..Len(chain) : new[i] = chain[i]
  BY <1>1, <1>3
<1>5. current' = KnownParent(current) /\ current' \in Types \cup {None}
  BY <1>1, ParentTyped DEF Climb
<1>6. \A i \in 1..Len(new) : i = Len(chain) + 1 \/ i \in 1..Len(chain)
  BY <1>1, <1>4
<1>7. Typed'
  BY <1>1, <1>2, <1>3, <1>5 DEF IInv, Typed
<1>8. Placed'
  BY <1>2 DEF IInv, Placed
<1>9. Walk'
  <2>1. Distinct(new)
    <3>1. \A i \in 1..Len(chain) : chain[i] # current
      BY <1>1, CurrentIsNew, TypesAssumption
    <3> QED
      BY <1>4, <1>6, <3>1 DEF Distinct, IInv, Walk
  <2>2. \A i \in 1..Len(new) : new[i] \notin Range(ordered)
    BY <1>4, <1>6 DEF IInv, Walk, Climb
  <2>3. ASSUME NEW i \in 1..Len(new)
        PROVE  KnownParent(new[i]) = IF i = Len(new) THEN current' ELSE new[i + 1]
    <3>1. CASE i = Len(chain) + 1
      BY <1>4, <1>5, <3>1
    <3>2. CASE i \in 1..Len(chain) /\ i = Len(chain)
      <4>1. KnownParent(chain[i]) = current
        BY <3>2 DEF IInv, Walk
      <4> QED
        BY <1>1, <1>4, <3>2, <4>1
    <3>3. CASE i \in 1..Len(chain) /\ i # Len(chain)
      <4>1. KnownParent(chain[i]) = chain[i + 1]
        BY <3>3 DEF IInv, Walk
      <4>2. i + 1 \in 1..Len(chain) /\ i # Len(new)
        BY <1>1, <1>4, <3>3
      <4> QED
        BY <1>4, <3>3, <4>1, <4>2
    <3> QED
      BY <1>6, <3>1, <3>2, <3>3
  <2>4. Len(new) # 0 /\ Declared[next] = new[1]
    <3>1. CASE Len(chain) = 0
      BY <1>1, <1>4, <3>1 DEF IInv, Walk
    <3>2. CASE Len(chain) # 0
      BY <1>1, <1>4, <3>2 DEF IInv, Walk
    <3> QED
      BY <3>1, <3>2
  <2> QED
    BY <1>1, <1>2, <1>3, <2>1, <2>2, <2>3, <2>4 DEF Walk
<1>10. Built'
  BY <1>2 DEF IInv, Built
<1> QED
  BY <1>7, <1>8, <1>9, <1>10 DEF IInv

\* Placing a walk, oldest first, keeps the invariant: each type's parent is the
\* one placed just before it, or the walk ended at it.
LEMMA PlaceStep == ASSUME IInv, Place PROVE IInv'
<1> DEFINE m == Len(ordered)
           l == Len(chain)
<1>1. /\ program \in Programs /\ chain \in Seq(Types) /\ l \in Nat
      /\ ordered \in Seq(Types) /\ m \in Nat /\ Walking
      /\ next \in 1..(Len(Declared) + 1) /\ Len(Declared) \in Nat
      /\ Declared \in Seq(Types) /\ next \in 1..Len(Declared)
  BY ParentTyped DEF IInv, Typed, Place, Walking
<1>2. /\ Declared' = Declared /\ next' = next + 1
      /\ tags' = tags /\ program' = program
      /\ \A T : KnownParent(T)' = KnownParent(T)
      /\ \A T : Offsets(T)' = Offsets(T)
  BY ProgramKept DEF Place
<1>3. PICK r \in Seq(Types) : r = Reverse(chain) /\ Len(r) = l /\
                              \A k \in 1..l : r[k] = chain[(l - k) + 1]
  <2>1. /\ Reverse(chain) \in Seq(Types) /\ Len(Reverse(chain)) = l
        /\ \A k \in 1..l : Reverse(chain)[k] = chain[(l - k) + 1]
    BY <1>1 DEF Reverse
  <2> QED
    BY <2>1
<1>4. PICK new \in Seq(Types) : new = ordered \o r /\ ordered' = new
  <2>1. ordered' = ordered \o r
    BY <1>3 DEF Place
  <2>2. ordered \o r \in Seq(Types)
    BY <1>1, <1>3
  <2> QED
    BY <2>1, <2>2
<1>5. /\ Len(new) = m + l /\ Len(new) \in Nat
      /\ \A i \in 1..m : new[i] = ordered[i]
      /\ \A k \in 1..l : new[m + k] = r[k]
  <2>1. Len(ordered \o r) = m + l /\ m + l \in Nat
    BY <1>1, <1>3
  <2>2. \A i \in 1..m : (ordered \o r)[i] = ordered[i]
    BY <1>1, <1>3
  <2>3. ASSUME NEW k \in 1..l PROVE (ordered \o r)[m + k] = r[k]
    <3>1. m + k \in 1..(m + l) /\ ~ (m + k <= m) /\ (m + k) - m = k
      BY <1>1
    <3> QED
      BY <1>1, <1>3, <3>1
  <2> QED
    BY <1>4, <2>1, <2>2, <2>3
<1>6. ASSUME NEW i \in 1..Len(new)
      PROVE  \/ i \in 1..m /\ new[i] = ordered[i]
             \/ \E k \in 1..l : i = m + k /\ new[i] = chain[(l - k) + 1] /\ (l - k) + 1 \in 1..l
  <2>1. CASE i \in 1..m
    BY <1>5, <2>1
  <2>2. CASE i \notin 1..m
    <3>1. i - m \in 1..l /\ i = m + (i - m) /\ (l - (i - m)) + 1 \in 1..l
      BY <1>1, <1>5, <2>2
    <3>2. new[m + (i - m)] = r[i - m] /\ r[i - m] = chain[(l - (i - m)) + 1]
      BY <1>3, <1>5, <3>1
    <3> QED
      BY <3>1, <3>2
  <2> QED
    BY <2>1, <2>2
<1>7. /\ \A i \in 1..m : ordered[i] \in Range(new)
      /\ \A k \in 1..l : chain[k] \in Range(new)
  <2>1. ASSUME NEW i \in 1..m PROVE ordered[i] \in Range(new)
    <3>1. i \in 1..Len(new)
      BY <1>1, <1>5
    <3> QED
      BY <1>5, <3>1, RangeIs
  <2>2. ASSUME NEW k \in 1..l PROVE chain[k] \in Range(new)
    <3>1. (l - k) + 1 \in 1..l /\ (l - ((l - k) + 1)) + 1 = k /\ m + ((l - k) + 1) \in 1..Len(new)
      BY <1>1, <1>5
    <3>2. new[m + ((l - k) + 1)] = r[(l - k) + 1]
      BY <1>5, <3>1
    <3>3. r[(l - k) + 1] = chain[(l - ((l - k) + 1)) + 1]
      BY <1>3, <3>1
    <3>4. new[m + ((l - k) + 1)] = chain[k]
      BY <3>1, <3>2, <3>3
    <3> QED
      BY <3>1, <3>4, RangeIs
  <2> QED
    BY <2>1, <2>2
<1>8. Typed'
  <2>1. next' \in 1..(Len(Declared') + 1)
    BY <1>1, <1>2
  <2>2. current' \in Types \cup {None}
    <3>1. current' = WalkFrom(next + 1) /\ next + 1 \in 1..(Len(Declared) + 1)
      BY <1>1 DEF Place
    <3> QED
      BY <1>1, <3>1, WalkFromIs
  <2>3. chain' \in Seq(Types)
    BY DEF Place
  <2> QED
    BY <1>1, <1>2, <1>4, <2>1, <2>2, <2>3 DEF Typed
<1>9. Distinct(new)
  <2> SUFFICES ASSUME NEW i \in 1..Len(new), NEW j \in 1..Len(new), i # j, new[i] = new[j]
               PROVE  FALSE
    BY DEF Distinct
  <2>1. /\ Distinct(ordered) /\ Distinct(chain)
        /\ \A k \in 1..l : chain[k] \notin Range(ordered)
        /\ \A k \in 1..m : ordered[k] \in Range(ordered)
    BY <1>1, RangeIs DEF IInv, Placed, Walk
  <2>2. CASE i \in 1..m /\ new[i] = ordered[i]
    <3>1. CASE j \in 1..m /\ new[j] = ordered[j]
      BY <2>1, <2>2, <3>1 DEF Distinct
    <3>2. CASE \E k \in 1..l : j = m + k /\ new[j] = chain[(l - k) + 1] /\ (l - k) + 1 \in 1..l
      BY <2>1, <2>2, <3>2
    <3> QED
      BY <1>6, <3>1, <3>2
  <2>3. CASE \E k \in 1..l : i = m + k /\ new[i] = chain[(l - k) + 1] /\ (l - k) + 1 \in 1..l
    <3>1. CASE j \in 1..m /\ new[j] = ordered[j]
      BY <2>1, <2>3, <3>1
    <3>2. CASE \E k \in 1..l : j = m + k /\ new[j] = chain[(l - k) + 1] /\ (l - k) + 1 \in 1..l
      <4>1. PICK a \in 1..l : i = m + a /\ new[i] = chain[(l - a) + 1] /\ (l - a) + 1 \in 1..l
        BY <2>3
      <4>2. PICK b \in 1..l : j = m + b /\ new[j] = chain[(l - b) + 1] /\ (l - b) + 1 \in 1..l
        BY <3>2
      <4>3. (l - a) + 1 # (l - b) + 1
        BY <1>1, <4>1, <4>2
      <4> QED
        BY <2>1, <4>1, <4>2, <4>3 DEF Distinct
    <3> QED
      BY <1>6, <3>1, <3>2
  <2> QED
    BY <1>6, <2>2, <2>3
<1>10. ASSUME NEW i \in 1..Len(new), KnownParent(new[i]) # None
       PROVE  \E j \in 1..(i - 1) : new[j] = KnownParent(new[i])
  <2>1. CASE i \in 1..m /\ new[i] = ordered[i]
    <3>1. PICK j \in 1..(i - 1) : ordered[j] = KnownParent(ordered[i])
      BY <1>10, <2>1 DEF IInv, Placed
    <3>2. j \in 1..m
      BY <1>1, <2>1
    <3> QED
      BY <1>5, <2>1, <3>1, <3>2
  <2>2. CASE \E k \in 1..l : i = m + k /\ new[i] = chain[(l - k) + 1] /\ (l - k) + 1 \in 1..l
    <3>1. PICK k \in 1..l : i = m + k /\ new[i] = chain[(l - k) + 1] /\ (l - k) + 1 \in 1..l
      BY <2>2
    <3>2. CASE k = 1
      <4>1. new[i] = chain[l] /\ l \in 1..l
        BY <1>1, <3>1, <3>2
      <4>2. KnownParent(new[i]) = current
        BY <4>1 DEF IInv, Walk
      <4>3. current \in Range(ordered)
        BY <1>10, <4>2 DEF Place
      <4>4. PICK j \in 1..m : ordered[j] = current
        BY <1>1, <4>3, RangeIs
      <4>5. j \in 1..(i - 1)
        BY <1>1, <3>1, <3>2
      <4> QED
        BY <1>5, <4>2, <4>4, <4>5
    <3>3. CASE k # 1
      <4>1. /\ (l - k) + 1 # l /\ ((l - k) + 1) + 1 = (l - (k - 1)) + 1 /\ k - 1 \in 1..l
            /\ m + (k - 1) \in 1..(i - 1)
        BY <1>1, <3>1, <3>3
      <4>2. KnownParent(new[i]) = chain[((l - k) + 1) + 1]
        BY <3>1, <4>1 DEF IInv, Walk
      <4>3. new[m + (k - 1)] = chain[(l - (k - 1)) + 1]
        BY <1>3, <1>5, <4>1
      <4> QED
        BY <4>1, <4>2, <4>3
    <3> QED
      BY <3>2, <3>3
  <2> QED
    BY <1>6, <2>1, <2>2
<1>11. ASSUME NEW k \in 1..next PROVE Declared[k] \in Range(new)
  <2>1. CASE k # next
    <3>1. k \in 1..(next - 1)
      BY <1>1, <2>1
    <3>2. Declared[k] \in Range(ordered)
      BY <3>1 DEF IInv, Placed
    <3>3. PICK j \in 1..m : ordered[j] = Declared[k]
      BY <1>1, <3>2, RangeIs
    <3> QED
      BY <1>7, <3>3
  <2>2. CASE k = next /\ l = 0
    <3>1. Declared[next] = current /\ Declared[next] \in Types
      BY <1>1, <2>2 DEF IInv, Walk
    <3>2. current \in Range(ordered)
      BY <3>1, TypesAssumption DEF Place
    <3>3. PICK j \in 1..m : ordered[j] = current
      BY <1>1, <3>2, RangeIs
    <3> QED
      BY <1>7, <2>2, <3>1, <3>3
  <2>3. CASE k = next /\ l # 0
    <3>1. Declared[next] = chain[1] /\ 1 \in 1..l
      BY <1>1, <2>3 DEF IInv, Walk
    <3> QED
      BY <1>7, <2>3, <3>1
  <2> QED
    BY <2>1, <2>2, <2>3
<1>12. Placed'
  <2>1. (next + 1) - 1 = next
    BY <1>1
  <2> QED
    BY <1>2, <1>4, <1>9, <1>10, <1>11, <2>1 DEF Placed
<1>13. Walk'
  <2>1. chain' = <<>> /\ current' = WalkFrom(next + 1)
    BY DEF Place
  <2>2. Walking' => Declared'[next'] = current'
    <3>1. next + 1 \in 1..(Len(Declared) + 1)
      BY <1>1
    <3> QED
      BY <1>1, <1>2, <2>1, <3>1, WalkFromIs DEF Walking
  <2>3. Len(chain') = 0 /\ 1..0 = {}
    BY <2>1
  <2> QED
    BY <2>2, <2>3 DEF Walk, Distinct
<1>14. Built'
  <2>1. DOMAIN tags = {}
    BY <1>1 DEF IInv, Built
  <2>2. Cardinality(DOMAIN tags) = 0 /\ IsFiniteSet(DOMAIN tags) /\ 1..0 = {}
    BY <2>1, FS_EmptySet
  <2> QED
    BY <1>2, <1>4, <1>5, <2>1, <2>2 DEF Built
<1> QED
  BY <1>8, <1>12, <1>13, <1>14 DEF IInv

\* The next tag finds its parent's tag built.
LEMMA BuildTagStep == ASSUME IInv, BuildTag PROVE IInv'
<1> DEFINE n == Cardinality(DOMAIN tags)
           T == ordered[n + 1]
<1>1. /\ program \in Programs /\ ordered \in Seq(Types) /\ Len(ordered) \in Nat
      /\ IsFiniteSet(DOMAIN tags) /\ n \in Nat /\ n + 1 \in 1..Len(ordered)
      /\ ~ Walking
  <2>1. n \in Nat
    BY FS_CardinalityType DEF IInv, Built
  <2> QED
    BY <2>1 DEF IInv, Typed, Built, BuildTag
<1>2. /\ Declared' = Declared /\ next' = next /\ current' = current /\ chain' = chain
      /\ ordered' = ordered /\ program' = program /\ Walking' = Walking
      /\ \A U : KnownParent(U)' = KnownParent(U)
      /\ \A U : Offsets(U)' = Offsets(U)
  BY ProgramKept DEF BuildTag, Walking
<1>3. DOMAIN tags = {ordered[i] : i \in 1..n}
  BY DEF IInv, Built
<1>4. T \notin DOMAIN tags
  <2>1. \A i \in 1..n : i \in 1..Len(ordered) /\ i # n + 1
    BY <1>1
  <2>2. \A i \in 1..n : ordered[i] # T
    BY <1>1, <2>1 DEF IInv, Placed, Distinct
  <2> QED
    BY <1>3, <2>2
<1>5. T \in Types
  BY <1>1
<1>6. PICK up : up = (IF Parent[T] \in DOMAIN tags THEN Parent[T] ELSE None)
  OBVIOUS
<1>7. up = KnownParent(T)
  <2>1. CASE Parent[T] \in Types
    <3>1. KnownParent(T) = Parent[T] /\ KnownParent(T) # None
      BY <2>1, TypesAssumption DEF KnownParent
    <3>2. PICK j \in 1..((n + 1) - 1) : ordered[j] = Parent[T]
      BY <1>1, <3>1 DEF IInv, Placed
    <3>3. Parent[T] \in DOMAIN tags
      BY <1>1, <1>3, <3>2
    <3> QED
      BY <1>6, <3>1, <3>3
  <2>2. CASE Parent[T] \notin Types
    <3>1. DOMAIN tags \subseteq Types
      BY <1>1, <1>3
    <3> QED
      BY <1>6, <2>2, <3>1 DEF KnownParent
  <2> QED
    BY <2>1, <2>2
<1>8. PICK new : /\ tags' = new
                 /\ DOMAIN new = DOMAIN tags \cup {T}
                 /\ \A U \in DOMAIN tags : new[U] = tags[U]
                 /\ new[T] = [parent |-> up, offsets |-> Offsets(T)]
  <2> DEFINE g == [U \in DOMAIN tags \cup {T} |->
                     IF U # T THEN tags[U] ELSE [parent |-> up, offsets |-> Offsets(T)]]
  <2>1. tags' = g
    BY <1>6 DEF BuildTag
  <2>2. /\ DOMAIN g = DOMAIN tags \cup {T}
        /\ \A U \in DOMAIN tags : g[U] = tags[U]
        /\ g[T] = [parent |-> up, offsets |-> Offsets(T)]
    <3> HIDE DEF T
    <3> QED
      BY <1>4
  <2> HIDE DEF g
  <2> QED
    BY <2>1, <2>2
<1>9. IsFiniteSet(DOMAIN new) /\ Cardinality(DOMAIN new) = n + 1
  <2> HIDE DEF T
  <2>1. /\ IsFiniteSet(DOMAIN tags \cup {T})
        /\ Cardinality(DOMAIN tags \cup {T}) = n + 1
    BY <1>1, <1>4, FS_AddElement
  <2> QED
    BY <1>8, <2>1
<1>10. DOMAIN new = {ordered[i] : i \in 1..(n + 1)}
  <2>1. \A i \in 1..(n + 1) : i = n + 1 \/ i \in 1..n
    BY <1>1
  <2>2. n + 1 \in 1..(n + 1) /\ \A i \in 1..n : i \in 1..(n + 1)
    BY <1>1
  <2> QED
    BY <1>3, <1>8, <2>1, <2>2
<1>11. ASSUME NEW U \in DOMAIN new
       PROVE  new[U].parent = KnownParent(U) /\ new[U].offsets = Offsets(U)
  <2>1. CASE U \in DOMAIN tags
    BY <1>8, <2>1 DEF IInv, Built
  <2>2. CASE U = T
    <3> HIDE DEF T
    <3> QED
      BY <1>7, <1>8, <2>2
  <2> QED
    BY <1>8, <2>1, <2>2
<1>12. Built'
  <2>1. n + 1 <= Len(ordered)
    BY <1>1
  <2> HIDE DEF n
  <2>2. tags' = new /\ ordered' = ordered /\ ~ Walking'
    BY <1>1, <1>2, <1>8
  <2>3. /\ IsFiniteSet(DOMAIN tags') /\ Cardinality(DOMAIN tags') = n + 1
        /\ DOMAIN tags' = {ordered'[i] : i \in 1..(n + 1)}
    BY <1>9, <1>10, <2>2
  <2>4. \A U \in DOMAIN tags' :
          tags'[U].parent = KnownParent(U)' /\ tags'[U].offsets = Offsets(U)'
    BY <1>2, <1>11, <2>2
  <2> QED
    BY <2>1, <2>2, <2>3, <2>4 DEF Built
<1>13. Typed' /\ Placed' /\ Walk'
  BY <1>2 DEF IInv, Typed, Placed, Walk
<1> QED
  BY <1>12, <1>13 DEF IInv

\* The invariant holds before the first walk.
LEMMA InitIInv == Init => IInv
<1> SUFFICES ASSUME Init PROVE IInv
  OBVIOUS
<1>1. program \in Programs /\ next = 1 /\ current = WalkFrom(1)
      /\ chain = <<>> /\ ordered = <<>> /\ DOMAIN tags = {}
  BY DEF Init
<1>2. Declared \in Seq(Types) /\ Len(Declared) \in Nat
  BY <1>1, ParentTyped
<1>3. 1 \in 1..(Len(Declared) + 1)
  BY <1>2
<1>4. Typed
  BY <1>1, <1>3, WalkFromIs DEF Typed
<1>5. Len(chain) = 0 /\ Len(ordered) = 0 /\ 1..0 = {} /\ 1..(next - 1) = {}
  BY <1>1
<1>6. Placed
  BY <1>5 DEF Placed, Distinct
<1>7. Walk
  <2>1. Walking => Declared[next] = current
    BY <1>1, <1>3, WalkFromIs DEF Walking
  <2> QED
    BY <1>5, <2>1 DEF Walk, Distinct
<1>8. Built
  <2>1. IsFiniteSet(DOMAIN tags) /\ Cardinality(DOMAIN tags) = 0
    BY <1>1, FS_EmptySet
  <2> QED
    BY <1>1, <1>5, <2>1 DEF Built
<1> QED
  BY <1>4, <1>6, <1>7, <1>8 DEF IInv

\* Every step keeps the invariant.
LEMMA StepIInv == IInv /\ [Next]_vars => IInv'
<1> SUFFICES ASSUME IInv, [Next]_vars PROVE IInv'
  OBVIOUS
<1>1. CASE UNCHANGED vars
  BY <1>1 DEF vars, IInv, Typed, Placed, Walk, Built, Walking, Declared, KnownParent,
     Parent, Offsets, Own
<1>2. CASE Stop
  BY <1>2 DEF Stop, vars, IInv, Typed, Placed, Walk, Built, Walking, Declared, KnownParent,
     Parent, Offsets, Own
<1> QED
  BY <1>1, <1>2, ClimbStep, PlaceStep, BuildTagStep DEF Next

\* Every type that is placed has its parent before it, once, and the tags that
\* are built are those of the first types placed.
THEOREM InductiveInvariant == Spec => []IInv
BY InitIInv, StepIInv, PTL DEF Spec

-----------------------------------------------------------------------------
(* The properties.                                                         *)

\* A parent's tag is there when a child's is.
LEMMA TagsClosed ==
  ASSUME IInv, NEW T \in DOMAIN tags
  PROVE  /\ T \in Types /\ T \in Range(ordered)
         /\ KnownParent(T) \in DOMAIN tags \cup {None}
<1> DEFINE n == Cardinality(DOMAIN tags)
<1>1. /\ ordered \in Seq(Types) /\ Len(ordered) \in Nat /\ n \in Nat /\ n <= Len(ordered)
      /\ DOMAIN tags = {ordered[i] : i \in 1..n}
  BY FS_CardinalityType DEF IInv, Typed, Built
<1>2. PICK i \in 1..n : T = ordered[i]
  BY <1>1
<1> HIDE DEF n
<1>3. i \in 1..Len(ordered)
  BY <1>1
<1>4. T \in Types /\ T \in Range(ordered)
  BY <1>1, <1>2, <1>3, RangeIs
<1>5. ASSUME KnownParent(T) # None PROVE KnownParent(T) \in DOMAIN tags
  <2>1. PICK j \in 1..(i - 1) : ordered[j] = KnownParent(T)
    BY <1>2, <1>3, <1>5 DEF IInv, Placed
  <2>2. j \in 1..n
    BY <1>1
  <2> QED
    BY <1>1, <2>1, <2>2
<1> QED
  BY <1>4, <1>5

\* The state of the walk is well formed.
THEOREM TypeCorrect == Spec => []TypeOK
<1>1. IInv => TypeOK
  <2> SUFFICES ASSUME IInv PROVE TypeOK
    OBVIOUS
  <2>1. \A x : x \in Range(chain) \cup Range(ordered) => x \in Types
    BY DEF IInv, Typed, Range
  <2>2. \A T \in DOMAIN tags : T \in Range(ordered) /\ tags[T].parent \in DOMAIN tags \cup {None}
    BY TagsClosed DEF IInv, Built
  <2> QED
    BY <2>1, <2>2 DEF IInv, Typed, TypeOK
<1> QED
  BY <1>1, InductiveInvariant, PTL

\* Every type gets one tag, whatever the order of the declarations.
THEOREM TypesGetOneTag == Spec => []EachTypeOnce
<1>1. IInv => EachTypeOnce
  <2> SUFFICES ASSUME IInv PROVE EachTypeOnce
    OBVIOUS
  <2>1. ordered \in Seq(Types) /\ DOMAIN ordered = 1..Len(ordered)
    BY DEF IInv, Typed
  <2>2. \A i, j \in DOMAIN ordered : i # j => ordered[i] # ordered[j]
    BY <2>1 DEF IInv, Placed, Distinct
  <2>3. ASSUME Done, NEW T \in Types PROVE T \in DOMAIN tags
    <3>1. /\ program \in Programs /\ Len(Declared) \in Nat /\ Declared \in Seq(Types)
          /\ Range(Declared) = Types
      BY ParentTyped DEF IInv, Typed
    <3>2. next - 1 = Len(Declared)
      BY <2>3, <3>1 DEF IInv, Typed, Done, Walking
    <3>3. PICK k \in 1..Len(Declared) : Declared[k] = T
      BY <3>1, RangeIs
    <3>4. T \in Range(ordered)
      BY <3>2, <3>3 DEF IInv, Placed
    <3>5. Cardinality(DOMAIN tags) = Len(ordered)
      BY <2>3 DEF Done
    <3>6. DOMAIN tags = {ordered[i] : i \in 1..Len(ordered)}
      BY <3>5 DEF IInv, Built
    <3> QED
      BY <2>1, <3>4, <3>6, RangeIs
  <2>4. \A T \in DOMAIN tags : T \in Types
    BY TagsClosed
  <2> QED
    BY <2>2, <2>3, <2>4 DEF EachTypeOnce
<1> QED
  BY <1>1, InductiveInvariant, PTL

\* The walk from tag to tag meets the types above an object's type, and no
\* others: is and as decide as the declarations say.
THEOREM IsMeansInheritance == Spec => []IsAgreesWithInheritance
<1>1. IInv => IsAgreesWithInheritance
  <2> SUFFICES ASSUME IInv, NEW T \in DOMAIN tags, NEW U \in Types
               PROVE  Is(T, U) <=> U \in Range(Lineage(T))
    BY DEF IsAgreesWithInheritance
  <2>1. Cardinality(Types) \in Nat
    BY TypesAssumption, FS_CardinalityType
  <2>2. program \in Programs /\ T \in Types
    BY TagsClosed DEF IInv, Typed
  <2> DEFINE D  == DOMAIN tags
             up == [V \in D |-> tags[V].parent]
             at == Ancestor(Known)
  <2>3. Climbs(up, D) /\ \A V \in D : Known[V] = up[V]
    <3>1. ASSUME NEW V \in D
          PROVE  /\ V \in Types
                 /\ tags[V].parent = KnownParent(V) /\ KnownParent(V) \in D \cup {None}
      BY TagsClosed DEF IInv, Built
    <3> QED
      BY <2>2, <3>1, KnownClimbs DEF Climbs
  <2>4. \A n \in 0..Cardinality(Types) : Ancestor(up)[n][T] = at[n][T]
    <3> HIDE DEF up
    <3> QED
      BY <2>2, <2>3, AncestorsAgree, KnownClimbs
  <2>5. Is(T, U) <=> \E n \in 0..Cardinality(Types) : at[n][T] = U
    <3>1. Is(T, U) <=> \E n \in 0..Cardinality(Types) : Ancestor(up)[n][T] = U
      BY DEF Is
    <3> HIDE DEF up, at
    <3> QED
      BY <2>4, <3>1
  <2>6. PICK d : DepthOf(T, d)
    BY <2>2, DepthExists
  <2>7. /\ Lineage(T) \in Seq(Types) /\ Len(Lineage(T)) = d + 1
        /\ \A i \in 1..(d + 1) : Lineage(T)[i] = at[i - 1][T]
        /\ d \in 0..(Cardinality(Types) - 1)
    BY <2>2, <2>6, LineageIs DEF DepthOf
  <2>8. ASSUME NEW n \in 0..Cardinality(Types), at[n][T] = U
        PROVE  \E i \in 1..(d + 1) : Lineage(T)[i] = U
    <3>1. n <= d
      <4> SUFFICES ASSUME n > d PROVE FALSE
        BY <2>1, <2>7
      <4>1. d + 1 \in 0..Cardinality(Types) /\ n \in (d + 1)..Cardinality(Types)
        BY <2>1, <2>7
      <4>2. at[n][T] = None
        BY <2>2, <2>6, <4>1, NothingAbove DEF DepthOf
      <4> QED
        BY <2>8, <4>2, TypesAssumption
    <3>2. n + 1 \in 1..(d + 1) /\ (n + 1) - 1 = n
      BY <2>1, <2>7, <3>1
    <3> QED
      BY <2>7, <2>8, <3>2
  <2>9. ASSUME NEW i \in 1..(d + 1), Lineage(T)[i] = U
        PROVE  \E n \in 0..Cardinality(Types) : at[n][T] = U
    <3>1. i - 1 \in 0..Cardinality(Types)
      BY <2>1, <2>7
    <3> QED
      BY <2>7, <2>9, <3>1
  <2>10. U \in Range(Lineage(T)) <=> \E i \in 1..(d + 1) : Lineage(T)[i] = U
    BY <2>7, RangeIs
  <2> QED
    BY <2>5, <2>8, <2>9, <2>10
<1> QED
  BY <1>1, InductiveInvariant, PTL

\* A method finds the fields it names in the objects of every subtype.
THEOREM SlotsAreInherited == Spec => []ChildrenExtendParents
<1>1. IInv => ChildrenExtendParents
  BY ParentsFieldsFirst DEF IInv, Typed, ChildrenExtendParents
<1> QED
  BY <1>1, InductiveInvariant, PTL

\* A call through the method table runs the type's own definition, or what its
\* parent would run.
THEOREM MethodTablesOverride == Spec => []OverridesWin
<1>1. IInv => OverridesWin
  BY MethodsInherit DEF IInv, Typed, OverridesWin
<1> QED
  BY <1>1, InductiveInvariant, PTL

\* The collector follows the reference fields of an object whose type inherits
\* none and repeats none, and nothing else.
THEOREM RootTypesTraced == Spec => []RootTypesAreTracedExactly
<1>1. IInv => RootTypesAreTracedExactly
  <2> SUFFICES ASSUME IInv, NEW T \in DOMAIN tags, ~ InheritsFields(T), ~ RepeatsFields(T)
               PROVE  TracedExactly(T)
    BY DEF RootTypesAreTracedExactly
  <2>1. program \in Programs /\ T \in Types
    BY TagsClosed DEF IInv, Typed
  <2>2. tags[T].offsets = Offsets(T)
    BY DEF IInv, Built
  <2> QED
    BY <2>1, <2>2, RootOffsets DEF TracedExactly
<1> QED
  BY <1>1, InductiveInvariant, PTL
=============================================================================
