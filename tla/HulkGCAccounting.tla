-------------------------- MODULE HulkGCAccounting --------------------------
(***************************************************************************)
(* Proofs about the numbers the collector keeps: __hulk_alloc_bytes is the *)
(* sum of the sizes in the allocation list, never above the threshold, and *)
(* hulk_alloc gives up only on large requests; and about the depth of the  *)
(* recursion of mark.                                                      *)
(***************************************************************************)
EXTENDS HulkGCProofs

-----------------------------------------------------------------------------
(* The sum of the sizes in a list.                                         *)

\* f[k] is the sum of the first k sizes, for k up to n.
PartialSums(f, size, s, n) ==
  f = [k \in 0..n |-> IF k = 0 THEN 0 ELSE f[k - 1] + size[s[k]]]

\* The recursion that defines Total has a solution.
LEMMA PartialSumsExist ==
  ASSUME NEW S, NEW size \in [S -> Nat], NEW s \in Seq(S)
  PROVE  \E f : PartialSums(f, size, s, Len(s))
<1> DEFINE P(m) == m <= Len(s) =>
                     \E f \in [0..m -> Nat] : PartialSums(f, size, s, m)
           T == {m \in Nat : P(m)}
<1>1. 0 \in T
  <2> DEFINE g == [k \in 0..0 |-> 0]
  <2>1. g \in [0..0 -> Nat] /\ PartialSums(g, size, s, 0)
    BY DEF PartialSums
  <2> QED
    BY <2>1
<1>2. ASSUME NEW m \in T PROVE m + 1 \in T
  <2>0. m \in Nat /\ P(m)
    BY <1>2
  <2> HIDE DEF T
  <2> USE <2>0
  <2> SUFFICES ASSUME m + 1 <= Len(s)
               PROVE  \E f \in [0..(m + 1) -> Nat] :
                        PartialSums(f, size, s, m + 1)
    <3>1. m + 1 \in Nat
      OBVIOUS
    <3> HIDE DEF P
    <3>2. P(m + 1) => m + 1 \in T
      BY <3>1 DEF T
    <3> QED
      BY <3>2 DEF P
  <2>1. Len(s) \in Nat /\ m + 1 \in 1..Len(s) /\ m <= Len(s)
    OBVIOUS
  <2>2. PICK f \in [0..m -> Nat] : PartialSums(f, size, s, m)
    BY <2>1
  <2>3. PICK v \in Nat : v = f[m] + size[s[m + 1]]
    BY <2>1
  <2> DEFINE g == [k \in 0..(m + 1) |-> IF k = m + 1 THEN v ELSE f[k]]
  <2>4. g \in [0..(m + 1) -> Nat]
    OBVIOUS
  <2>5. ASSUME NEW k \in 0..(m + 1)
        PROVE  g[k] = IF k = 0 THEN 0 ELSE g[k - 1] + size[s[k]]
    <3>1. CASE k = m + 1
      BY <2>3, <3>1
    <3>2. CASE k # m + 1
      BY <2>2, <3>2 DEF PartialSums
    <3> QED
      BY <3>1, <3>2
  <2>6. PartialSums(g, size, s, m + 1)
    BY <2>5 DEF PartialSums
  <2> QED
    BY <2>4, <2>6
<1>3. T = Nat
  <2>1. T \in SUBSET Nat
    OBVIOUS
  <2> HIDE DEF T
  <2> QED
    BY <1>1, <1>2, <2>1, SetInduction
<1> QED
  BY <1>3

\* f[k] is the sum of the first k sizes of the list s, for every k.
Sums(f, size, s) ==
  /\ f[0] = 0
  /\ \A k \in 1..Len(s) : f[k] = f[k - 1] + size[s[k]]
  /\ \A k \in 0..Len(s) : f[k] \in Nat

\* Partial sums are numbers.
LEMMA PartialSumsAreSums ==
  ASSUME NEW S, NEW size \in [S -> Nat], NEW s \in Seq(S), NEW f,
         PartialSums(f, size, s, Len(s))
  PROVE  Sums(f, size, s)
<1>1. f[0] = 0 /\ \A k \in 1..Len(s) : f[k] = f[k - 1] + size[s[k]]
  BY DEF PartialSums
<1> DEFINE T == {k \in Nat : k <= Len(s) => f[k] \in Nat}
<1>2. 0 \in T
  BY <1>1
<1>3. ASSUME NEW k \in T PROVE k + 1 \in T
  <2> SUFFICES ASSUME k + 1 <= Len(s) PROVE f[k + 1] \in Nat
    OBVIOUS
  <2>1. k + 1 \in 1..Len(s) /\ f[k] \in Nat /\ (k + 1) - 1 = k
    OBVIOUS
  <2>2. size[s[k + 1]] \in Nat
    BY <2>1
  <2> QED
    BY <1>1, <2>1, <2>2
<1>4. T = Nat
  <2>1. T \in SUBSET Nat
    OBVIOUS
  <2> HIDE DEF T
  <2> QED
    BY <1>2, <1>3, <2>1, SetInduction
<1> QED
  BY <1>1, <1>4 DEF Sums

\* Total is the last of the sums.
LEMMA TotalIsLastSum ==
  ASSUME NEW S, NEW size \in [S -> Nat], NEW s \in Seq(S)
  PROVE  \E f : Sums(f, size, s) /\ Total(size, s) = f[Len(s)]
<1> DEFINE f == CHOOSE g : g = [k \in 0..Len(s) |->
                             IF k = 0 THEN 0 ELSE g[k - 1] + size[s[k]]]
<1>1. Total(size, s) = f[Len(s)]
  BY Zenon DEF Total
<1>2. \E g : g = [k \in 0..Len(s) |->
                    IF k = 0 THEN 0 ELSE g[k - 1] + size[s[k]]]
  BY PartialSumsExist DEF PartialSums
<1>3. f = [k \in 0..Len(s) |-> IF k = 0 THEN 0 ELSE f[k - 1] + size[s[k]]]
  BY <1>2, Zenon
<1>4. PartialSums(f, size, s, Len(s))
  BY <1>3 DEF PartialSums
<1> HIDE DEF f
<1> QED
  BY <1>1, <1>4, PartialSumsAreSums

\* From its (d+1)-st element on, the list t has the sizes that s has.
SameSizesFrom(d, size, s, other, t) ==
  /\ Len(s) \in Nat /\ Len(t) \in Nat /\ Len(s) + d <= Len(t)
  /\ \A k \in 1..Len(s) : size[s[k]] \in Nat /\ other[t[k + d]] = size[s[k]]

\* Sums over the same sizes, d places later in the second list, differ by the
\* sum of what comes before.
LEMMA SumsShifted ==
  ASSUME NEW s, NEW t, NEW d \in Nat, NEW size, NEW other, NEW f, NEW g,
         Sums(f, size, s), Sums(g, other, t), SameSizesFrom(d, size, s, other, t)
  PROVE  g[Len(s) + d] = f[Len(s)] + g[d]
<1> DEFINE T == {k \in Nat : k <= Len(s) => g[k + d] = f[k] + g[d]}
<1>1. Len(s) \in Nat /\ Len(t) \in Nat /\ Len(s) + d <= Len(t)
  BY DEF SameSizesFrom
<1>a. \A k \in 1..Len(s) : size[s[k]] \in Nat /\ other[t[k + d]] = size[s[k]]
  BY DEF SameSizesFrom
<1>2. d \in 0..Len(t) /\ g[d] \in Nat
  BY <1>1 DEF Sums
<1>3. 0 \in T
  BY <1>2 DEF Sums
<1>4. ASSUME NEW k \in T PROVE k + 1 \in T
  <2> SUFFICES ASSUME k + 1 <= Len(s)
               PROVE  g[(k + 1) + d] = f[k + 1] + g[d]
    OBVIOUS
  <2>1. /\ k + 1 \in 1..Len(s) /\ (k + 1) + d \in 1..Len(t)
        /\ k \in 0..Len(s) /\ (k + 1) - 1 = k /\ ((k + 1) + d) - 1 = k + d
        /\ k + 1 \in 0..Len(s)
    BY <1>1
  <2>2. g[k + d] = f[k] + g[d]
    BY <1>1, <2>1
  <2>3. f[k + 1] = f[k] + size[s[k + 1]] /\ f[k] \in Nat /\ f[k + 1] \in Nat
    BY <2>1 DEF Sums
  <2>4. g[(k + 1) + d] = g[k + d] + size[s[k + 1]]
    <3>1. g[(k + 1) + d] = g[k + d] + other[t[(k + 1) + d]]
      BY <2>1 DEF Sums
    <3> QED
      BY <1>a, <2>1, <3>1
  <2>5. size[s[k + 1]] \in Nat
    BY <1>a, <2>1
  <2> QED
    BY <1>2, <2>2, <2>3, <2>4, <2>5
<1>5. T = Nat
  <2>1. T \in SUBSET Nat
    OBVIOUS
  <2> HIDE DEF T
  <2> QED
    BY <1>3, <1>4, <2>1, SetInduction
<1> QED
  BY <1>1, <1>5

\* A sum is a number, and the empty list's is 0.
LEMMA TotalIsNat ==
  ASSUME NEW S, NEW size \in [S -> Nat], NEW s \in Seq(S)
  PROVE  Total(size, s) \in Nat /\ (s = <<>> => Total(size, s) = 0)
<1>1. PICK f : Sums(f, size, s) /\ Total(size, s) = f[Len(s)]
  BY TotalIsLastSum
<1>2. Len(s) \in 0..Len(s) /\ (s = <<>> => Len(s) = 0)
  OBVIOUS
<1> QED
  BY <1>1, <1>2 DEF Sums

\* The sizes of objects that are not in the list do not count.
LEMMA TotalOfSame ==
  ASSUME NEW S, NEW size \in [S -> Nat], NEW other \in [S -> Nat],
         NEW s \in Seq(S), \A k \in 1..Len(s) : other[s[k]] = size[s[k]]
  PROVE  Total(other, s) = Total(size, s)
<1>1. PICK f : Sums(f, size, s) /\ Total(size, s) = f[Len(s)]
  BY TotalIsLastSum
<1>2. PICK g : Sums(g, other, s) /\ Total(other, s) = g[Len(s)]
  BY TotalIsLastSum
<1>3. PICK d \in Nat : d = 0
  OBVIOUS
<1>4. /\ Len(s) \in Nat /\ Len(s) + d <= Len(s)
      /\ \A k \in 1..Len(s) : size[s[k]] \in Nat /\ other[s[k + d]] = size[s[k]]
  BY <1>3
<1>s. SameSizesFrom(d, size, s, other, s)
  BY <1>4 DEF SameSizesFrom
<1>5. g[Len(s) + d] = f[Len(s)] + g[d]
  BY <1>1, <1>2, <1>s, SumsShifted
<1>6. g[d] = 0 /\ f[Len(s)] \in Nat /\ Len(s) + d = Len(s)
  BY <1>1, <1>2, <1>3, <1>4 DEF Sums
<1>7. g[Len(s)] = f[Len(s)] + g[d]
  BY <1>5, <1>6
<1>8. f[Len(s)] + g[d] = f[Len(s)]
  BY <1>6
<1> QED
  BY <1>1, <1>2, <1>7, <1>8

\* An object put at the front adds its size.
LEMMA TotalOfCons ==
  ASSUME NEW S, NEW size \in [S -> Nat], NEW s \in Seq(S), NEW x \in S
  PROVE  Total(size, <<x>> \o s) = size[x] + Total(size, s)
<1> DEFINE t == <<x>> \o s
<1>1. /\ t \in Seq(S) /\ Len(t) = Len(s) + 1 /\ t[1] = x /\ Len(s) \in Nat
      /\ \A k \in 1..Len(s) : t[k + 1] = s[k]
  OBVIOUS
<1> HIDE DEF t
<1>2. PICK f : Sums(f, size, s) /\ Total(size, s) = f[Len(s)]
  BY TotalIsLastSum
<1>3. PICK g : Sums(g, size, t) /\ Total(size, t) = g[Len(t)]
  BY <1>1, TotalIsLastSum
<1>d. PICK d \in Nat : d = 1
  OBVIOUS
<1>4. /\ Len(s) \in Nat /\ Len(t) \in Nat /\ Len(s) + d <= Len(t)
      /\ \A k \in 1..Len(s) : size[s[k]] \in Nat /\ size[t[k + d]] = size[s[k]]
  BY <1>1, <1>d
<1>s. SameSizesFrom(d, size, s, size, t)
  BY <1>4 DEF SameSizesFrom
<1>5. g[Len(s) + d] = f[Len(s)] + g[d]
  BY <1>2, <1>3, <1>s, SumsShifted
<1>6. g[1] = size[x]
  <2>1. 1 \in 1..Len(t) /\ 1 - 1 = 0 /\ size[x] \in Nat
    BY <1>1
  <2>2. g[1] = g[1 - 1] + size[t[1]] /\ g[0] = 0
    BY <1>3, <2>1 DEF Sums
  <2> QED
    BY <1>1, <2>1, <2>2
<1>7. Total(size, s) \in Nat /\ size[x] \in Nat
  BY TotalIsNat
<1>8. Total(size, t) = size[x] + Total(size, s)
  BY <1>1, <1>2, <1>3, <1>d, <1>5, <1>6, <1>7
<1> QED
  BY <1>8 DEF t

\* A list's sum is its head's size and the sum of its tail.
LEMMA TotalOfTail ==
  ASSUME NEW S, NEW size \in [S -> Nat], NEW s \in Seq(S), s # <<>>
  PROVE  Total(size, s) = size[Head(s)] + Total(size, Tail(s))
<1>1. Head(s) \in S /\ Tail(s) \in Seq(S) /\ s = <<Head(s)>> \o Tail(s)
  <2>1. Head(s) \in S /\ Tail(s) \in Seq(S)
    OBVIOUS
  <2>2. s = <<Head(s)>> \o Tail(s)
    OBVIOUS
  <2> QED
    BY <2>1, <2>2
<1> QED
  BY <1>1, TotalOfCons

\* An object put at the end adds its size.
LEMMA TotalOfAppend ==
  ASSUME NEW S, NEW size \in [S -> Nat], NEW s \in Seq(S), NEW x \in S
  PROVE  Total(size, Append(s, x)) = Total(size, s) + size[x]
<1> DEFINE t == Append(s, x)
<1>1. /\ t \in Seq(S) /\ Len(t) = Len(s) + 1 /\ t[Len(s) + 1] = x
      /\ Len(s) \in Nat /\ \A k \in 1..Len(s) : t[k] = s[k]
  OBVIOUS
<1> HIDE DEF t
<1>2. PICK f : Sums(f, size, s) /\ Total(size, s) = f[Len(s)]
  BY TotalIsLastSum
<1>3. PICK g : Sums(g, size, t) /\ Total(size, t) = g[Len(t)]
  BY <1>1, TotalIsLastSum
<1>d. PICK d \in Nat : d = 0
  OBVIOUS
<1>4. /\ Len(s) \in Nat /\ Len(t) \in Nat /\ Len(s) + d <= Len(t)
      /\ \A k \in 1..Len(s) : size[s[k]] \in Nat /\ size[t[k + d]] = size[s[k]]
  BY <1>1, <1>d
<1>s. SameSizesFrom(d, size, s, size, t)
  BY <1>4 DEF SameSizesFrom
<1>5. g[Len(s) + d] = f[Len(s)] + g[d]
  BY <1>2, <1>3, <1>s, SumsShifted
<1>6. /\ g[d] = 0 /\ f[Len(s)] \in Nat /\ Len(s) + d = Len(s)
      /\ g[Len(t)] = g[Len(s)] + size[x]
  BY <1>1, <1>2, <1>3, <1>d DEF Sums
<1>7. Total(size, t) = Total(size, s) + size[x]
  BY <1>1, <1>2, <1>3, <1>5, <1>6
<1> QED
  BY <1>7 DEF t

-----------------------------------------------------------------------------
(* The depth of the recursion of mark.                                     *)

\* mark enters only unmarked objects and the object of every activation is
\* marked: no step gives an object a second activation.
LEMMA ReentrantStep ==
  ASSUME IInv, NoReentrantMark, [Next]_vars
  PROVE  NoReentrantMark'
<1>1. TypeOK /\ Len(frames) \in Nat /\ frames \in Seq(Frame)
  BY DEF IInv, TypeOK
<1>2. ASSUME NEW s \in Seq(Frame), NEW o \in Obj, o \notin marked,
             Len(s) = Len(frames),
             \A k \in 1..Len(s) : s[k].obj = frames[k].obj,
             \A k \in 1..Len(frames) : frames[k].obj \in marked,
             frames' = Enter(s, o)
      PROVE  NoReentrantMark'
  <2>1. /\ Len(frames') = Len(frames) + 1
        /\ \A k \in 1..Len(frames) : frames'[k].obj = frames[k].obj
        /\ frames'[Len(frames) + 1].obj = o
    <3>1. /\ Len(frames') = Len(s) + 1
          /\ \A k \in 1..Len(s) : frames'[k] = s[k]
          /\ frames'[Len(s) + 1] = [obj |-> o, next |-> 1]
      BY <1>2, EnterTop
    <3> QED
      BY <1>2, <3>1
  <2>2. \A k \in 1..Len(frames) : frames'[k].obj # o
    BY <1>2, <2>1
  <2>3. \A k \in 1..Len(frames') : k \in 1..Len(frames) \/ k = Len(frames) + 1
    BY <1>1, <2>1
  <2> QED
    BY <2>1, <2>2, <2>3 DEF NoReentrantMark
<1>3. CASE MarkRoot
  <2>1. \A k \in 1..Len(frames) : frames[k].obj \in marked
    BY <1>3 DEF MarkRoot, IInv, PhaseInv, Marking
  <2>2. CASE frames' = frames
    BY <2>2 DEF NoReentrantMark
  <2>3. CASE NeedsMark(shadow[root]) /\ frames' = Enter(frames, shadow[root])
    <3>1. shadow[root] \in Ref
      BY <1>1, <1>3 DEF MarkRoot, TypeOK
    <3>2. shadow[root] \in Obj /\ shadow[root] \notin marked
      BY <2>3, <3>1 DEF NeedsMark, Ref
    <3> QED
      BY <1>1, <1>2, <2>1, <2>3, <3>2
  <2> QED
    BY <1>3, <2>2, <2>3 DEF MarkRoot
<1>4. CASE MarkChild
  <2>1. /\ \A k \in 1..Len(frames) : frames[k].obj \in marked
        /\ frames # <<>>
    BY <1>4 DEF MarkChild, IInv, PhaseInv, Marking
  <2>2. /\ Advance(frames) \in Seq(Frame) /\ Len(Advance(frames)) = Len(frames)
        /\ \A k \in 1..Len(frames) : Advance(frames)[k].obj = frames[k].obj
    BY <1>1, <2>1, AdvanceTop
  <2>3. CASE frames' = Advance(frames)
    BY <2>2, <2>3 DEF NoReentrantMark
  <2>4. ASSUME NEW c, c = Child(Top.obj, Top.next), NeedsMark(c),
               frames' = Enter(Advance(frames), c)
        PROVE  NoReentrantMark'
    <3>1. Top \in Frame /\ MorePointers
      BY <1>1, <1>4, <2>1 DEF Top, MarkChild
    <3>2. Top.obj \in Obj /\ Top.next \in 1..NumPointers(Top.obj)
      BY <1>1, <3>1, NumPointersIsNat DEF Frame, MorePointers
    <3>3. c \in Ref
      BY <1>1, <2>4, <3>2, ChildIsRef
    <3>4. c \in Obj /\ c \notin marked
      BY <2>4, <3>3 DEF NeedsMark, Ref
    <3> QED
      BY <1>2, <2>1, <2>2, <2>4, <3>4
  <2> QED
    BY <1>4, <2>3, <2>4 DEF MarkChild
<1>5. CASE MarkReturn
  <2>1. frames # <<>> /\ frames' = SubSeq(frames, 1, Len(frames) - 1)
    BY <1>5 DEF MarkReturn
  <2>2. /\ Len(frames') = Len(frames) - 1
        /\ \A k \in 1..(Len(frames) - 1) : frames'[k] = frames[k]
    BY <1>1, <2>1, ElemsOfFront
  <2>3. \A k \in 1..Len(frames') : k \in 1..Len(frames) /\ frames'[k] = frames[k]
    BY <1>1, <2>2
  <2> QED
    BY <2>3 DEF NoReentrantMark
<1>6. CASE UNCHANGED frames
  BY <1>6 DEF NoReentrantMark
<1>7. CASE Client
  BY <1>6, <1>7 DEF Client, ShadowPush, ShadowPop, SetField, Alloc, CollectNow
<1>8. CASE Runtime
  BY <1>3, <1>4, <1>5, <1>6, <1>8
  DEF Runtime, AfterGC, MallocFails, Malloc, StartSweep, SweepKeep, SweepFree,
      FinishGC
<1> QED
  BY <1>6, <1>7, <1>8 DEF Next, Aborted, vars

\* mark is never active twice on an object, so its recursion is never deeper
\* than the number of objects, whatever cycles the heap has.
THEOREM MarkIsNotReentered == Spec => []NoReentrantMark
<1>1. Init => NoReentrantMark
  BY DEF Init, NoReentrantMark
<1> QED
  BY <1>1, ReentrantStep, InductiveInvariant, PTL DEF Spec

-----------------------------------------------------------------------------
(* The bytes and the threshold.                                            *)

\* The counter and the threshold are numbers that leave the counter's double
\* out of the question.
LEMMA AccountingTypes ==
  ASSUME TypeOK, Accounting
  PROVE  /\ bytes \in Nat /\ threshold \in Nat /\ request.size \in Nat
         /\ bytes <= threshold /\ InitialThreshold <= threshold
         /\ sizeOf \in [Obj -> Nat] /\ before \in Seq(Obj) /\ list \in Seq(Obj)
         /\ bytes = Total(sizeOf, before) + Total(sizeOf, list)
         /\ Total(sizeOf, before) \in Nat /\ Total(sizeOf, list) \in Nat
<1>1. /\ threshold \in Nat /\ request.size \in Nat /\ sizeOf \in [Obj -> Nat]
      /\ before \in Seq(Obj) /\ list \in Seq(Obj)
  BY DEF TypeOK
<1>2. Total(sizeOf, before) \in Nat /\ Total(sizeOf, list) \in Nat
  BY <1>1, TotalIsNat
<1> QED
  BY <1>1, <1>2 DEF Accounting, BytesAreExact, HeapWithinThreshold

\* Malloc counts the new object.
LEMMA MallocAccounts ==
  ASSUME TypeOK, Accounting, NEW o \in Obj, Malloc(o)
  PROVE  Accounting'
<1>1. /\ pc = "malloc" /\ pc' = "mutator" /\ o \notin Live
      /\ list' = <<o>> \o list /\ before' = before
      /\ sizeOf' = [sizeOf EXCEPT ![o] = request.size]
      /\ bytes' = bytes + request.size /\ threshold' = threshold
  BY DEF Malloc
<1>2. bytes + request.size <= threshold
  BY <1>1 DEF Accounting, Thresholds
<1>3. sizeOf' \in [Obj -> Nat] /\ sizeOf'[o] = request.size
  BY <1>1, AccountingTypes
<1>4. Total(sizeOf', before) = Total(sizeOf, before)
  <2>1. \A k \in 1..Len(before) : before[k] \in Obj /\ before[k] # o
    BY <1>1, AccountingTypes DEF Live, Elems
  <2>2. \A k \in 1..Len(before) : sizeOf'[before[k]] = sizeOf[before[k]]
    BY <1>1, <2>1, AccountingTypes
  <2> QED
    BY <1>3, <2>2, AccountingTypes, TotalOfSame
<1>5. Total(sizeOf', list) = Total(sizeOf, list)
  <2>1. \A k \in 1..Len(list) : list[k] \in Obj /\ list[k] # o
    BY <1>1, AccountingTypes DEF Live, Elems
  <2>2. \A k \in 1..Len(list) : sizeOf'[list[k]] = sizeOf[list[k]]
    BY <1>1, <2>1, AccountingTypes
  <2> QED
    BY <1>3, <2>2, AccountingTypes, TotalOfSame
<1>6. Total(sizeOf', list') = request.size + Total(sizeOf, list)
  <2>1. PICK size \in [Obj -> Nat] : size = sizeOf'
    BY <1>3
  <2>2. Total(size, <<o>> \o list) = size[o] + Total(size, list)
    BY AccountingTypes, TotalOfCons
  <2> QED
    BY <1>1, <1>3, <1>5, <2>1, <2>2
<1>7. BytesAreExact'
  <2>1. Total(sizeOf', before') = Total(sizeOf, before)
    BY <1>1, <1>4
  <2>2. bytes' = Total(sizeOf', before') + Total(sizeOf', list')
    BY <1>1, <1>6, <2>1, AccountingTypes
  <2> QED
    BY <2>2 DEF BytesAreExact
<1>8. HeapWithinThreshold'
  BY <1>1, <1>2, AccountingTypes DEF HeapWithinThreshold
<1>9. Thresholds'
  BY <1>1 DEF Thresholds
<1> QED
  BY <1>7, <1>8, <1>9 DEF Accounting

\* Keeping an object moves its size from one part of the list to the other.
LEMMA SweepKeepAccounts ==
  ASSUME TypeOK, Accounting, SweepKeep
  PROVE  Accounting'
<1>1. /\ pc' = pc /\ pc = "sweep" /\ list # <<>>
      /\ before' = Append(before, Head(list)) /\ list' = Tail(list)
      /\ UNCHANGED <<sizeOf, bytes, threshold, request>>
  BY DEF SweepKeep
<1>2. PICK h \in Obj : h = Head(list)
  BY <1>1, AccountingTypes, ElemsOfTail
<1>3. Total(sizeOf, list) = sizeOf[h] + Total(sizeOf, list')
  BY <1>1, <1>2, AccountingTypes, TotalOfTail
<1>4. Total(sizeOf, before') = Total(sizeOf, before) + sizeOf[h]
  BY <1>1, <1>2, AccountingTypes, TotalOfAppend
<1>5. Total(sizeOf, list') \in Nat /\ sizeOf[h] \in Nat
  <2>1. list' \in Seq(Obj)
    BY <1>1, AccountingTypes, ElemsOfTail
  <2> QED
    BY <1>2, <2>1, AccountingTypes, TotalIsNat
<1>6. BytesAreExact'
  <2>1. bytes' = Total(sizeOf', before') + Total(sizeOf', list')
    BY <1>1, <1>3, <1>4, <1>5, AccountingTypes
  <2> QED
    BY <2>1 DEF BytesAreExact
<1> QED
  BY <1>1, <1>6 DEF Accounting, HeapWithinThreshold, Thresholds

\* Freeing an object takes its size off the counter, and an object is listed
\* only once.
LEMMA SweepFreeAccounts ==
  ASSUME IInv, Accounting, SweepFree
  PROVE  Accounting'
<1>0. TypeOK
  BY DEF IInv
<1>1. /\ pc' = pc /\ pc = "sweep" /\ list # <<>> /\ list' = Tail(list)
      /\ bytes' = bytes - sizeOf[Head(list)]
      /\ sizeOf' = [sizeOf EXCEPT ![Head(list)] = 0]
      /\ UNCHANGED <<before, threshold, request>>
  BY DEF SweepFree
<1>2. PICK h \in Obj : h = Head(list)
  BY <1>0, <1>1, AccountingTypes, ElemsOfTail
<1>3. list' \in Seq(Obj) /\ h \in Elems(list)
  BY <1>0, <1>1, <1>2, AccountingTypes, ElemsOfTail
<1>4. h \notin Elems(list') /\ h \notin Elems(before)
  <2>1. \A i, j \in 1..Len(list) : list[i] = list[j] => i = j
    BY DEF IInv, NoDoubleFree
  <2>2. h \notin Elems(list')
    BY <1>0, <1>1, <1>2, <2>1, TailIsInjective, AccountingTypes
  <2> QED
    BY <1>3, <2>2 DEF IInv, NoDoubleFree
<1>5. sizeOf' \in [Obj -> Nat]
  BY <1>0, <1>1, <1>2, AccountingTypes
<1>6. Total(sizeOf', before) = Total(sizeOf, before)
  <2>1. \A k \in 1..Len(before) : before[k] \in Obj /\ before[k] # h
    BY <1>0, <1>4, AccountingTypes DEF Elems
  <2>2. \A k \in 1..Len(before) : sizeOf'[before[k]] = sizeOf[before[k]]
    BY <1>0, <1>1, <1>2, <2>1, AccountingTypes
  <2> QED
    BY <1>0, <1>5, <2>2, AccountingTypes, TotalOfSame
<1>7. Total(sizeOf', list') = Total(sizeOf, list')
  <2>0. PICK t \in Seq(Obj) : t = list'
    BY <1>3
  <2>1. \A k \in 1..Len(t) : t[k] \in Obj /\ t[k] # h
    BY <1>4, <2>0 DEF Elems
  <2>2. \A k \in 1..Len(t) : sizeOf'[t[k]] = sizeOf[t[k]]
    BY <1>0, <1>1, <1>2, <2>1, AccountingTypes
  <2> QED
    BY <1>0, <1>5, <2>0, <2>2, AccountingTypes, TotalOfSame
<1>8. Total(sizeOf, list) = sizeOf[h] + Total(sizeOf, list')
  BY <1>0, <1>1, <1>2, AccountingTypes, TotalOfTail
<1>9. /\ Total(sizeOf, list') \in Nat /\ sizeOf[h] \in Nat
      /\ bytes' = bytes - sizeOf[h]
  BY <1>0, <1>1, <1>2, <1>3, AccountingTypes, TotalIsNat
<1>10. BytesAreExact'
  <2>1. Total(sizeOf', before') = Total(sizeOf, before)
    BY <1>1, <1>6
  <2>2. bytes' = Total(sizeOf', before') + Total(sizeOf', list')
    BY <1>0, <1>7, <1>8, <1>9, <2>1, AccountingTypes
  <2> QED
    BY <2>2 DEF BytesAreExact
<1>11. HeapWithinThreshold'
  BY <1>0, <1>1, <1>9, AccountingTypes DEF HeapWithinThreshold
<1>12. Thresholds'
  BY <1>1 DEF Thresholds
<1> QED
  BY <1>10, <1>11, <1>12 DEF Accounting

\* A collection ends with a threshold twice as high as what survived.
LEMMA FinishAccounts ==
  ASSUME TypeOK, Accounting, FinishGC
  PROVE  Accounting'
<1>1. /\ pc' = "collected" /\ list = <<>> /\ list' = before /\ before' = <<>>
      /\ threshold' = Larger(bytes * GrowthFactor, InitialThreshold)
      /\ UNCHANGED <<sizeOf, bytes, request>>
  BY DEF FinishGC
<1>2. before' \in Seq(Obj)
  BY <1>1
<1>3. Total(sizeOf, before') = 0 /\ Total(sizeOf, list) = 0
  BY <1>1, <1>2, AccountingTypes, TotalIsNat
<1>4. BytesAreExact'
  <2>1. bytes' = Total(sizeOf', before') + Total(sizeOf', list')
    BY <1>1, <1>3, AccountingTypes
  <2> QED
    BY <2>1 DEF BytesAreExact
<1>5. HeapWithinThreshold'
  <2>1. bytes <= bytes * GrowthFactor /\ bytes * GrowthFactor \in Nat
    BY AccountingTypes DEF GrowthFactor
  <2>2. /\ Larger(bytes * GrowthFactor, InitialThreshold) >= bytes * GrowthFactor
        /\ Larger(bytes * GrowthFactor, InitialThreshold) >= InitialThreshold
        /\ Larger(bytes * GrowthFactor, InitialThreshold) \in Nat
    BY <2>1, LimitsAssumption DEF Larger
  <2> QED
    BY <1>1, <2>1, <2>2, AccountingTypes DEF HeapWithinThreshold
<1>6. Thresholds'
  BY <1>1 DEF Thresholds, Larger, GrowthFactor
<1> QED
  BY <1>4, <1>5, <1>6 DEF Accounting

\* The two tests of hulk_alloc, and the steps that change no number.
LEMMA OtherStepsAccount ==
  ASSUME TypeOK, Accounting,
         UNCHANGED <<before, list, sizeOf, bytes, threshold>>,
         \/ pc' \notin {"malloc", "collected", "oom"}
         \/ AfterGC
         \/ \E t \in Tag, n \in Sizes : Alloc(t, n)
         \/ UNCHANGED <<pc, request>>
  PROVE  Accounting'
<1>1. BytesAreExact' /\ HeapWithinThreshold'
  BY DEF Accounting, BytesAreExact, HeapWithinThreshold
<1>2. Thresholds'
  <2>1. CASE pc' \notin {"malloc", "collected", "oom"}
    BY <2>1 DEF Thresholds
  <2>2. CASE AfterGC
    BY <2>2, AccountingTypes DEF AfterGC, Accounting, Thresholds, Larger, GrowthFactor
  <2>3. ASSUME NEW t \in Tag, NEW n \in Sizes, Alloc(t, n) PROVE Thresholds'
    <3>1. /\ request'.size = n /\ bytes' = bytes /\ threshold' = threshold
      BY <2>3 DEF Alloc
    <3>2. CASE pc' = "mark"
      BY <3>2 DEF Thresholds
    <3>3. CASE pc' = "malloc" /\ bytes + n <= threshold
      BY <3>1, <3>3 DEF Thresholds
    <3> QED
      BY <2>3, <3>2, <3>3 DEF Alloc
  <2>4. CASE UNCHANGED <<pc, request>>
    BY <2>4 DEF Accounting, Thresholds, Larger, GrowthFactor
  <2> QED
    BY <2>1, <2>2, <2>3, <2>4
<1> QED
  BY <1>1, <1>2 DEF Accounting

\* Every step keeps the books.
LEMMA AccountingStep ==
  ASSUME IInv, Accounting, [Next]_vars
  PROVE  Accounting'
<1>0. TypeOK
  BY DEF IInv
<1>1. CASE Client
  <2>1. UNCHANGED <<before, list, sizeOf, bytes, threshold>>
    BY <1>1 DEF Client, ShadowPush, ShadowPop, SetField, Alloc, CollectNow
  <2>2. \/ pc' \notin {"malloc", "collected", "oom"}
        \/ \E t \in Tag, n \in Sizes : Alloc(t, n)
    BY <1>1 DEF Client, ShadowPush, ShadowPop, SetField, CollectNow
  <2> QED
    BY <1>0, <2>1, <2>2, OtherStepsAccount
<1>2. CASE Runtime
  <2>1. CASE AfterGC
    <3>1. UNCHANGED <<before, list, sizeOf, bytes, threshold>>
      BY <2>1 DEF AfterGC
    <3> QED
      BY <1>0, <2>1, <3>1, OtherStepsAccount
  <2>2. CASE MallocFails \/ MarkRoot \/ MarkChild \/ MarkReturn \/ StartSweep
    <3>1. /\ UNCHANGED <<before, list, sizeOf, bytes, threshold>>
          /\ pc' \notin {"malloc", "collected", "oom"}
      BY <2>2 DEF MallocFails, MarkRoot, MarkChild, MarkReturn, StartSweep
    <3> QED
      BY <1>0, <3>1, OtherStepsAccount
  <2> QED
    BY <1>0, <1>2, <2>1, <2>2, MallocAccounts, SweepKeepAccounts,
       SweepFreeAccounts, FinishAccounts DEF Runtime
<1>3. CASE UNCHANGED vars
  <2>1. UNCHANGED <<before, list, sizeOf, bytes, threshold, pc, request>>
    BY <1>3 DEF vars
  <2> QED
    BY <1>0, <2>1, OtherStepsAccount
<1> QED
  BY <1>1, <1>2, <1>3 DEF Next, Aborted

\* The invariant with everything in it that is proved of the collector's
\* states.
THEOREM CompleteInvariant == Spec => []CompleteInv
<1>1. Init => Accounting
  <2> SUFFICES ASSUME Init PROVE Accounting
    OBVIOUS
  <2>1. /\ sizeOf \in [Obj -> Nat] /\ list = <<>> /\ before = <<>>
        /\ list \in Seq(Obj) /\ before \in Seq(Obj)
    BY DEF Init
  <2>2. Total(sizeOf, before) = 0 /\ Total(sizeOf, list) = 0
    BY <2>1, TotalIsNat
  <2>3. BytesAreExact
    BY <2>2 DEF Init, BytesAreExact
  <2>4. HeapWithinThreshold /\ Thresholds
    BY LimitsAssumption DEF Init, HeapWithinThreshold, Thresholds
  <2> QED
    BY <2>3, <2>4 DEF Accounting
<1> QED
  BY <1>1, AccountingStep, InductiveInvariant, MarkIsNotReentered, PTL
  DEF Spec, CompleteInv

\* __hulk_alloc_bytes is what is allocated, so the size_t subtraction of the
\* sweep never wraps around.
THEOREM BytesAreCounted == Spec => []BytesAreExact
<1>1. CompleteInv => BytesAreExact
  BY DEF CompleteInv, Accounting
<1> QED
  BY <1>1, CompleteInvariant, PTL

\* The heap never outgrows the threshold, and the threshold never falls below
\* its first value.
THEOREM ThresholdBoundsHeap == Spec => []HeapWithinThreshold
<1>1. CompleteInv => HeapWithinThreshold
  BY DEF CompleteInv, Accounting
<1> QED
  BY <1>1, CompleteInvariant, PTL

\* hulk_alloc never gives up on a request that is smaller than what is still
\* allocated, or that fits under the first threshold.
THEOREM SmallRequestsSucceed == Spec => []OnlyLargeRequestsFail
<1>1. CompleteInv => OnlyLargeRequestsFail
  <2> SUFFICES ASSUME CompleteInv, pc = "oom"
               PROVE  /\ request.size > bytes
                      /\ request.size > InitialThreshold - bytes
    BY DEF OnlyLargeRequestsFail
  <2>1. bytes \in Nat /\ request.size \in Nat
    BY AccountingTypes DEF CompleteInv, IInv
  <2>2. bytes + request.size > Larger(bytes * GrowthFactor, InitialThreshold)
    BY DEF CompleteInv, Accounting, Thresholds
  <2>3. /\ Larger(bytes * GrowthFactor, InitialThreshold) >= bytes + bytes
        /\ Larger(bytes * GrowthFactor, InitialThreshold) >= InitialThreshold
        /\ Larger(bytes * GrowthFactor, InitialThreshold) \in Nat
    BY <2>1, LimitsAssumption DEF Larger, GrowthFactor
  <2> QED
    BY <2>1, <2>2, <2>3, LimitsAssumption
<1> QED
  BY <1>1, CompleteInvariant, PTL
=============================================================================
