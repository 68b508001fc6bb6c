---------------------------- MODULE HulkGCProofs ----------------------------
(***************************************************************************)
(* Proofs about the collector, for every set of objects, tags, offsets and *)
(* sizes and for every limit: it never frees an object that can be reached *)
(* from the shadow stack, it frees every other one, and it implements the  *)
(* abstract heap.                                                          *)
(***************************************************************************)
EXTENDS HulkGC, SequenceTheorems, Lemmas

USE NullAssumption, TagAssumption, SizesAssumption, LimitsAssumption

-----------------------------------------------------------------------------
(* Sequences as lists of elements.                                         *)

\* The elements of a list of objects are objects.
LEMMA ElemsInSet ==
  ASSUME NEW S, NEW s \in Seq(S)
  PROVE  Elems(s) \subseteq S
BY DEF Elems

\* The elements of a list after an object is put at its end.
LEMMA ElemsOfAppend ==
  ASSUME NEW S, NEW s \in Seq(S), NEW x \in S
  PROVE  Elems(Append(s, x)) = Elems(s) \cup {x}
BY DEF Elems

\* The elements of a list are its head and the elements of its tail.
LEMMA ElemsOfTail ==
  ASSUME NEW S, NEW s \in Seq(S), s # <<>>
  PROVE  /\ Head(s) \in S /\ Tail(s) \in Seq(S)
         /\ Elems(s) = Elems(Tail(s)) \cup {Head(s)}
<1>1. Len(s) \in Nat \ {0} /\ Head(s) = s[1]
  OBVIOUS
<1>2. /\ Tail(s) \in Seq(S) /\ Len(Tail(s)) = Len(s) - 1
      /\ \A k \in 1..Len(Tail(s)) : Tail(s)[k] = s[k + 1]
  OBVIOUS
<1>3. ASSUME NEW k \in 1..Len(s) PROVE s[k] \in Elems(Tail(s)) \cup {s[1]}
  <2>1. CASE k = 1
    BY <2>1
  <2>2. CASE k # 1
    <3>1. k - 1 \in 1..Len(Tail(s)) /\ Tail(s)[k - 1] = s[k]
      BY <1>1, <1>2, <2>2
    <3> QED
      BY <3>1 DEF Elems
  <2> QED
    BY <2>1, <2>2
<1>4. ASSUME NEW k \in 1..Len(Tail(s)) PROVE Tail(s)[k] \in Elems(s)
  BY <1>1, <1>2 DEF Elems
<1> QED
  BY <1>1, <1>2, <1>3, <1>4 DEF Elems

\* The elements of a list after an object is put at its front.
LEMMA ElemsOfCons ==
  ASSUME NEW S, NEW s \in Seq(S), NEW x \in S
  PROVE  /\ <<x>> \o s \in Seq(S)
         /\ Len(<<x>> \o s) = Len(s) + 1
         /\ (<<x>> \o s)[1] = x
         /\ \A k \in 1..Len(s) : (<<x>> \o s)[k + 1] = s[k]
         /\ Elems(<<x>> \o s) = Elems(s) \cup {x}
<1> DEFINE t == <<x>> \o s
<1>1. /\ t \in Seq(S) /\ Len(t) = Len(s) + 1 /\ Len(s) \in Nat
      /\ t[1] = x /\ \A k \in 1..Len(s) : t[k + 1] = s[k]
  OBVIOUS
<1> HIDE DEF t
<1>2. ASSUME NEW k \in 1..Len(t) PROVE t[k] \in Elems(s) \cup {x}
  <2>1. CASE k = 1
    BY <1>1, <2>1
  <2>2. CASE k # 1
    <3>1. k - 1 \in 1..Len(s) /\ t[(k - 1) + 1] = s[k - 1] /\ (k - 1) + 1 = k
      BY <1>1, <2>2
    <3> QED
      BY <3>1 DEF Elems
  <2> QED
    BY <2>1, <2>2
<1>3. ASSUME NEW k \in 1..Len(s) PROVE s[k] \in Elems(t)
  <2>1. k + 1 \in 1..Len(t) /\ t[k + 1] = s[k]
    BY <1>1
  <2> QED
    BY <2>1 DEF Elems
<1>4. x \in Elems(t)
  <2>1. 1 \in 1..Len(t)
    BY <1>1
  <2> QED
    BY <1>1, <2>1 DEF Elems
<1>5. Elems(t) = Elems(s) \cup {x}
  BY <1>2, <1>3, <1>4 DEF Elems
<1> QED
  BY <1>1, <1>5 DEF t

\* Dropping the last element of a list adds nothing to it.
LEMMA ElemsOfFront ==
  ASSUME NEW S, NEW s \in Seq(S), s # <<>>
  PROVE  /\ SubSeq(s, 1, Len(s) - 1) \in Seq(S)
         /\ Len(SubSeq(s, 1, Len(s) - 1)) = Len(s) - 1
         /\ \A k \in 1..(Len(s) - 1) : SubSeq(s, 1, Len(s) - 1)[k] = s[k]
         /\ Elems(SubSeq(s, 1, Len(s) - 1)) \subseteq Elems(s)
<1> DEFINE n == Len(s) - 1
<1>1. Len(s) \in Nat \ {0} /\ n \in Nat /\ n \in Int /\ 1 \in Int
  OBVIOUS
<1>2. \A k \in 1..n : s[k] \in S
  BY <1>1
<1> HIDE DEF n
<1>3. /\ SubSeq(s, 1, n) \in Seq(S)
      /\ Len(SubSeq(s, 1, n)) = IF 1 <= n THEN n - 1 + 1 ELSE 0
      /\ \A k \in 1..(n - 1 + 1) : SubSeq(s, 1, n)[k] = s[1 + k - 1]
  BY ONLY <1>1, <1>2, SubSeqProperties
<1>4. n - 1 + 1 = n /\ (IF 1 <= n THEN n - 1 + 1 ELSE 0) = n
  BY <1>1
<1>5. \A k \in 1..n : SubSeq(s, 1, n)[k] = s[k]
  BY <1>1, <1>3, <1>4
<1>6. Elems(SubSeq(s, 1, n)) \subseteq Elems(s)
  <2>1. \A k \in 1..n : k \in 1..Len(s)
    BY <1>1 DEF n
  <2> QED
    BY <1>3, <1>4, <1>5, <2>1 DEF Elems
<1> QED
  BY <1>3, <1>4, <1>5, <1>6 DEF n

\* Moving the top activation of mark to its next pointer changes only that.
LEMMA AdvanceTop ==
  ASSUME NEW s \in Seq(Frame), s # <<>>
  PROVE  /\ Advance(s) \in Seq(Frame) /\ Len(Advance(s)) = Len(s)
         /\ s[Len(s)] \in Frame
         /\ \A k \in 1..Len(s) : Advance(s)[k].obj = s[k].obj
         /\ \A k \in 1..Len(s) : k # Len(s) => Advance(s)[k] = s[k]
         /\ Advance(s)[Len(s)].next = s[Len(s)].next + 1
<1>1. Len(s) \in Nat \ {0} /\ \A k \in 1..Len(s) : s[k] \in Frame
  OBVIOUS
<1> DEFINE f == [s[Len(s)] EXCEPT !.next = @ + 1]
<1>2. s[Len(s)] \in Frame
  BY <1>1
<1>3. f \in Frame /\ f.obj = s[Len(s)].obj /\ f.next = s[Len(s)].next + 1
  BY <1>2 DEF Frame
<1>4. Advance(s) = [s EXCEPT ![Len(s)] = f]
  BY DEF Advance
<1> HIDE DEF f
<1> QED
  BY <1>1, <1>2, <1>3, <1>4

\* Entering mark puts one activation on top and leaves the others alone.
LEMMA EnterTop ==
  ASSUME NEW s \in Seq(Frame), NEW o \in Obj
  PROVE  /\ Enter(s, o) \in Seq(Frame) /\ Len(Enter(s, o)) = Len(s) + 1
         /\ \A k \in 1..Len(s) : Enter(s, o)[k] = s[k]
         /\ Enter(s, o)[Len(s) + 1] = [obj |-> o, next |-> 1]
<1>1. [obj |-> o, next |-> 1] \in Frame
  BY DEF Frame
<1> QED
  BY <1>1 DEF Enter

-----------------------------------------------------------------------------
(* Type correctness.                                                       *)

\* A tag's offsets are fields.
LEMMA ChildIsRef ==
  ASSUME TypeOK, NEW o \in Obj, NEW k \in 1..NumPointers(o)
  PROVE  /\ Offsets[tagOf[o]] \in Seq(Field)
         /\ Offsets[tagOf[o]][k] \in Field
         /\ Child(o, k) \in Ref
BY DEF TypeOK, NumPointers, Child

\* A tag has a number of offsets.
LEMMA NumPointersIsNat ==
  ASSUME TypeOK, NEW o \in Obj
  PROVE  NumPointers(o) \in Nat
BY DEF TypeOK, NumPointers

\* Every variable keeps its type through every step of the runtime.
THEOREM TypeCorrect == Spec => []TypeOK
<1>1. Init => TypeOK
  BY DEF Init, TypeOK, Phases, AnyTag, NoRequest, Ref
<1>2. TypeOK /\ [Next]_vars => TypeOK'
  <2> SUFFICES ASSUME TypeOK, [Next]_vars PROVE TypeOK'
    OBVIOUS
  <2> USE DEF TypeOK, Phases, Ref
  <2>1. ASSUME NEW v \in Ref, ShadowPush(v) PROVE TypeOK'
    <3>1. v \in Ref => Append(shadow, v) \in Seq(Ref)
      OBVIOUS
    <3>2. ~ StackFull => Len(Append(shadow, v)) <= Capacity
      BY <3>1 DEF StackFull
    <3> QED
      BY <2>1, <3>1, <3>2 DEF ShadowPush, Aborts
  <2>2. CASE ShadowPop
    <3>1. shadow # <<>> => /\ SubSeq(shadow, 1, Len(shadow) - 1) \in Seq(Ref)
                           /\ Len(SubSeq(shadow, 1, Len(shadow) - 1)) <= Capacity
      BY ElemsOfFront, Len(shadow) \in Nat
    <3> QED
      BY <2>2, <3>1 DEF ShadowPop, Aborts
  <2>3. ASSUME NEW o \in Live, NEW v \in Ref, NEW k \in 1..NumPointers(o),
               SetField(o, k, v)
        PROVE  TypeOK'
    <3>1. o \in Obj
      BY ElemsInSet DEF Live
    <3>2. Offsets[tagOf[o]][k] \in Field
      BY <3>1, ChildIsRef
    <3> QED
      BY <2>3, <3>1, <3>2 DEF SetField
  <2>4. ASSUME NEW t \in Tag, NEW n \in Sizes, Alloc(t, n) PROVE TypeOK'
    BY <2>4 DEF Alloc
  <2>5. CASE CollectNow
    BY <2>5 DEF CollectNow, NoRequest, AnyTag
  <2>6. CASE AfterGC
    BY <2>6 DEF AfterGC, Aborts
  <2>7. CASE MallocFails
    BY <2>7 DEF MallocFails, Aborts
  <2>8. ASSUME NEW o \in Obj, Malloc(o) PROVE TypeOK'
    <3>1. <<o>> \o list \in Seq(Obj)
      BY ElemsOfCons
    <3> QED
      BY <2>8, <3>1 DEF Malloc, NoRequest, AnyTag
  <2>9. CASE MarkRoot
    <3>1. Len(shadow) \in Nat /\ root + 1 \in 1..(Capacity + 1)
      BY <2>9 DEF MarkRoot
    <3>2. shadow[root] \in Ref
      BY <2>9, <3>1 DEF MarkRoot
    <3>3. NeedsMark(shadow[root]) => Enter(frames, shadow[root]) \in Seq(Frame)
      BY <3>2, EnterTop DEF NeedsMark
    <3> QED
      BY <2>9, <3>1, <3>2, <3>3 DEF MarkRoot, NeedsMark
  <2>10. CASE MarkChild
    <3>1. /\ frames \in Seq(Frame) /\ Top \in Frame
          /\ Advance(frames) \in Seq(Frame)
      BY <2>10, AdvanceTop DEF MarkChild, Top
    <3>2. Child(Top.obj, Top.next) \in Ref
      <4>1. Top.obj \in Obj /\ Top.next \in 1..NumPointers(Top.obj)
        BY <2>10, <3>1 DEF MarkChild, MorePointers, NumPointers, Frame
      <4> QED
        BY <4>1, ChildIsRef
    <3>3. NeedsMark(Child(Top.obj, Top.next))
            => Enter(Advance(frames), Child(Top.obj, Top.next)) \in Seq(Frame)
      BY <3>1, <3>2, EnterTop DEF NeedsMark
    <3> QED
      BY <2>10, <3>1, <3>2, <3>3 DEF MarkChild, NeedsMark
  <2>11. CASE MarkReturn
    <3>1. SubSeq(frames, 1, Len(frames) - 1) \in Seq(Frame)
      BY <2>11, ElemsOfFront DEF MarkReturn
    <3> QED
      BY <2>11, <3>1 DEF MarkReturn
  <2>12. CASE StartSweep
    BY <2>12 DEF StartSweep
  <2>13. CASE SweepKeep
    BY <2>13, ElemsOfTail DEF SweepKeep
  <2>14. CASE SweepFree
    <3>1. Head(list) \in Obj /\ Tail(list) \in Seq(Obj)
      BY <2>14, ElemsOfTail DEF SweepFree
    <3>2. sizeOf[Head(list)] \in Nat /\ AnyTag \in Tag
      BY <3>1 DEF AnyTag
    <3>3. tagOf' \in [Obj -> Tag] /\ sizeOf' \in [Obj -> Nat]
      BY <2>14, <3>1, <3>2 DEF SweepFree
    <3>4. payload' \in [Obj -> [Field -> Ref]]
      BY <2>14, <3>1 DEF SweepFree
    <3>5. list' \in Seq(Obj)
      BY <2>14, <3>1 DEF SweepFree
    <3>6. bytes' \in Int
      <4>1. PICK n \in Nat : n = sizeOf[Head(list)]
        BY <3>2
      <4>2. bytes' = bytes - n
        BY <2>14, <4>1 DEF SweepFree
      <4> QED
        BY <4>2
    <3> QED
      BY <2>14, <3>3, <3>4, <3>5, <3>6 DEF SweepFree
  <2>15. CASE FinishGC
    BY <2>15 DEF FinishGC, Larger, GrowthFactor
  <2>16. CASE UNCHANGED vars
    BY <2>16 DEF vars
  <2> QED
    BY <2>1, <2>2, <2>3, <2>4, <2>5, <2>6, <2>7, <2>8, <2>9, <2>10, <2>11,
       <2>12, <2>13, <2>14, <2>15, <2>16
    DEF Next, Client, Runtime, Aborted
<1> QED
  BY <1>1, <1>2, PTL DEF Spec

-----------------------------------------------------------------------------
(* The object graph.                                                       *)

\* The graph stays inside the set of objects.
LEMMA GraphTypes ==
  ASSUME TypeOK
  PROVE  /\ DOMAIN Edges = Obj /\ Roots \subseteq Obj /\ Live \subseteq Obj
         /\ \A o \in Obj : Children(o) \subseteq Obj /\ Edges[o] = Children(o)
         /\ Closed(DOMAIN Edges, Edges)
<1>1. DOMAIN Edges = Obj /\ \A o \in Obj : Edges[o] = Children(o)
  BY DEF Edges
<1>2. \A o \in Obj : Children(o) \subseteq Obj
  BY ChildIsRef DEF Children, Ref
<1>3. Roots \subseteq Obj
  BY DEF Roots, Elems, TypeOK, Ref
<1>4. Live \subseteq Obj
  BY ElemsInSet DEF Live, TypeOK
<1> QED
  BY <1>1, <1>2, <1>3, <1>4 DEF Closed

\* What can be reached holds the roots and is closed.
LEMMA ReachableFacts ==
  ASSUME TypeOK
  PROVE  /\ Roots \subseteq Reachable /\ Reachable \subseteq Obj
         /\ \A o \in Reachable : Children(o) \subseteq Reachable
<1>1. Roots \subseteq Reachable
  BY GraphTypes, RootsAreReachable DEF Reachable
<1>2. Reachable \subseteq Obj
  BY GraphTypes DEF Reachable, ReachableFrom
<1>3. Closed(Reachable, Edges)
  BY GraphTypes, ReachableIsClosed DEF Reachable
<1> QED
  BY <1>1, <1>2, <1>3, GraphTypes DEF Closed

\* A set of objects that holds the roots and is closed holds what can be
\* reached.
LEMMA ReachableWithin ==
  ASSUME TypeOK, NEW S \in SUBSET Obj, Roots \subseteq S,
         \A o \in S : Children(o) \subseteq S
  PROVE  Reachable \subseteq S
<1>1. Closed(S, Edges)
  BY GraphTypes DEF Closed
<1> QED
  BY <1>1, GraphTypes, ReachableIsLeast DEF Reachable

\* A step that touches neither the lists nor the payloads nor the shadow
\* stack changes nothing in the graph.
LEMMA SameGraph ==
  ASSUME UNCHANGED <<before, list, tagOf, payload, shadow>>
  PROVE  /\ Live' = Live /\ Edges' = Edges /\ Roots' = Roots
         /\ Reachable' = Reachable /\ ClosedHeap' = ClosedHeap
         /\ NoDoubleFree' = NoDoubleFree
         /\ \A o, k : Child(o, k)' = Child(o, k)
         /\ \A o : NumPointers(o)' = NumPointers(o)
<1>1. Live' = Live /\ Roots' = Roots /\ NoDoubleFree' = NoDoubleFree
  BY DEF Live, Roots, Elems, NoDoubleFree
<1>2. /\ \A o, k : Child(o, k)' = Child(o, k)
      /\ \A o : NumPointers(o)' = NumPointers(o)
  BY DEF Child, NumPointers
<1>3. Edges' = Edges
  BY DEF Edges, Children, Child, NumPointers
<1> QED
  BY <1>1, <1>2, <1>3 DEF Reachable, ClosedHeap

-----------------------------------------------------------------------------
(* The inductive invariant, one lemma per group of steps.                  *)

\* The client's steps: they are taken outside a collection, and keep the
\* heap closed under references.
LEMMA ClientStep ==
  ASSUME IInv, TypeOK', Client
  PROVE  IInv'
<1> USE DEF IInv, PhaseInv, CollectionIsExact
<1>1. ASSUME NEW v \in Ref, ShadowPush(v) PROVE IInv'
  <2>1. /\ pc = "mutator" /\ pc' \in {"mutator", "overflow"}
        /\ v \in Live \cup {NULL}
        /\ shadow' \in {shadow, Append(shadow, v)}
        /\ UNCHANGED <<before, list, tagOf, payload, marked, frames, root>>
    BY <1>1 DEF ShadowPush
  <2>2. Live' = Live /\ Edges' = Edges /\ NoDoubleFree'
    <3>1. Live' = Live /\ NoDoubleFree'
      BY <2>1 DEF Live, NoDoubleFree, Elems
    <3>2. Edges' = Edges
      BY <2>1 DEF Edges, Children, Child, NumPointers
    <3> QED
      BY <3>1, <3>2
  <2>3. Elems(shadow') \subseteq Elems(shadow) \cup {v}
    <3>1. Elems(Append(shadow, v)) = Elems(shadow) \cup {v}
      BY ElemsOfAppend DEF TypeOK
    <3> QED
      BY <2>1, <3>1
  <2>4. ClosedHeap'
    BY <2>1, <2>2, <2>3 DEF ClosedHeap, Roots
  <2> QED
    BY <2>1, <2>2, <2>4
<1>2. CASE ShadowPop
  <2>1. /\ pc = "mutator" /\ pc' \in {"mutator", "underflow"}
        /\ UNCHANGED <<before, list, tagOf, payload, marked, frames, root>>
    BY <1>2 DEF ShadowPop
  <2>2. Live' = Live /\ Edges' = Edges /\ NoDoubleFree'
    <3>1. Live' = Live /\ NoDoubleFree'
      BY <2>1 DEF Live, NoDoubleFree, Elems
    <3>2. Edges' = Edges
      BY <2>1 DEF Edges, Children, Child, NumPointers
    <3> QED
      BY <3>1, <3>2
  <2>3. Elems(shadow') \subseteq Elems(shadow)
    BY <1>2, ElemsOfFront DEF ShadowPop, TypeOK
  <2>4. ClosedHeap'
    BY <2>1, <2>2, <2>3 DEF ClosedHeap, Roots
  <2> QED
    BY <2>1, <2>2, <2>4
<1>3. ASSUME NEW o \in Live, NEW v \in Ref, NEW k \in 1..NumPointers(o),
             SetField(o, k, v)
      PROVE  IInv'
  <2>1. /\ pc = "mutator" /\ v \in Live \cup {NULL}
        /\ payload' = [payload EXCEPT ![o][Offsets[tagOf[o]][k]] = v]
        /\ UNCHANGED <<pc, before, list, tagOf, shadow, marked, frames, root>>
    BY <1>3 DEF SetField
  <2>2. Live' = Live /\ Roots' = Roots /\ NoDoubleFree'
    BY <2>1 DEF Live, Roots, NoDoubleFree, Elems
  <2>3. \A p \in Obj : Children(p)' \subseteq Children(p) \cup ({v} \ {NULL})
    <3>1. ASSUME NEW p \in Obj, NEW n \in 1..NumPointers(p)
          PROVE  Child(p, n)' \in {Child(p, n), v}
      BY <2>1, <3>1, ChildIsRef DEF Child, TypeOK
    <3>2. \A p \in Obj : NumPointers(p)' = NumPointers(p)
      BY <2>1 DEF NumPointers
    <3> QED
      BY <3>1, <3>2 DEF Children
  <2>4. ClosedHeap'
    <3>1. \A p \in Obj : Edges[p] = Children(p) /\ Edges'[p] = Children(p)'
      BY DEF Edges
    <3>2. Live \subseteq Obj
      BY GraphTypes
    <3> QED
      BY <2>1, <2>2, <2>3, <3>1, <3>2 DEF ClosedHeap, Closed
  <2> QED
    BY <2>1, <2>2, <2>4
<1>4. ASSUME NEW t \in Tag, NEW n \in Sizes, Alloc(t, n) PROVE IInv'
  <2>1. /\ pc = "mutator" /\ pc' \in {"mark", "malloc"}
        /\ UNCHANGED <<before, list, tagOf, payload, shadow, marked, frames, root>>
    BY <1>4 DEF Alloc
  <2>2. marked' = {} /\ frames' = <<>> /\ root' = 1 /\ before' = <<>>
    BY <2>1
  <2>3. Marking'
    BY <2>2 DEF Marking, TypeOK
  <2> QED
    BY <2>1, <2>2, <2>3, SameGraph
<1>5. CASE CollectNow
  <2>1. /\ pc = "mutator" /\ pc' = "mark"
        /\ UNCHANGED <<before, list, tagOf, payload, shadow, marked, frames, root>>
    BY <1>5 DEF CollectNow
  <2>2. marked' = {} /\ frames' = <<>> /\ root' = 1 /\ before' = <<>>
    BY <2>1
  <2>3. Marking'
    BY <2>2 DEF Marking, TypeOK
  <2> QED
    BY <2>1, <2>2, <2>3, SameGraph
<1> QED
  BY <1>1, <1>2, <1>3, <1>4, <1>5 DEF Client

\* The steps of hulk_alloc outside the collection.
LEMMA AllocStep ==
  ASSUME IInv, TypeOK', AfterGC \/ MallocFails \/ \E o \in Obj : Malloc(o)
  PROVE  IInv'
<1> USE DEF IInv, PhaseInv, CollectionIsExact
<1>1. CASE AfterGC \/ MallocFails
  <2>1. /\ pc \in {"collected", "malloc"}
        /\ pc' \in {"mutator", "oom", "malloc", "malloc failed"}
        /\ UNCHANGED <<before, list, tagOf, payload, shadow, marked, frames, root>>
    BY <1>1 DEF AfterGC, MallocFails
  <2> QED
    BY <2>1, SameGraph
<1>2. ASSUME NEW o \in Obj, Malloc(o) PROVE IInv'
  <2>1. /\ pc = "malloc" /\ pc' = "mutator" /\ o \notin Live
        /\ list' = <<o>> \o list /\ marked' = marked \ {o}
        /\ payload' = [payload EXCEPT ![o] = [f \in Field |-> NULL]]
        /\ tagOf' = [tagOf EXCEPT ![o] = request.tag]
        /\ UNCHANGED <<before, shadow, frames, root>>
    BY <1>2 DEF Malloc
  <2>2. before = <<>> /\ list \in Seq(Obj) /\ Elems(before) = {}
    BY <2>1 DEF TypeOK, Elems
  <2>3. /\ Elems(list') = Elems(list) \cup {o}
        /\ Len(list') = Len(list) + 1 /\ Len(list) \in Nat /\ list'[1] = o
        /\ \A k \in 1..Len(list) : list'[k + 1] = list[k]
    BY <2>1, <2>2, ElemsOfCons
  <2>4. Live' = Live \cup {o} /\ Roots' = Roots
    BY <2>1, <2>3 DEF Live, Roots
  <2>5. NoDoubleFree'
    <3>1. ASSUME NEW i \in 1..Len(list'), NEW j \in 1..Len(list'),
                 list'[i] = list'[j]
          PROVE  i = j
      <4>1. \A k \in 1..Len(list) : list[k] # o
        BY <2>1 DEF Live, Elems
      <4>2. ASSUME NEW k \in 1..Len(list'), k # 1
            PROVE  /\ k - 1 \in 1..Len(list)
                   /\ list'[k] = list[k - 1] /\ list'[k] # o
        <5>1. k - 1 \in 1..Len(list) /\ (k - 1) + 1 = k
          BY <2>3, <4>2
        <5> QED
          BY <2>3, <4>1, <5>1
      <4>3. CASE i = 1 \/ j = 1
        BY <2>3, <3>1, <4>2, <4>3
      <4>4. CASE i # 1 /\ j # 1
        <5>1. i - 1 = j - 1
          BY <3>1, <4>2, <4>4 DEF NoDoubleFree
        <5> QED
          BY <2>3, <5>1
      <4> QED
        BY <4>3, <4>4
    <3>2. before' = <<>> /\ Elems(before') = {}
      BY <2>1, <2>2
    <3> QED
      BY <3>1, <3>2 DEF NoDoubleFree
  <2>6. Children(o)' = {} /\ \A p \in Obj \ {o} : Children(p)' = Children(p)
    <3>1. ASSUME NEW p \in Obj, p # o PROVE Children(p)' = Children(p)
      BY <2>1, <3>1 DEF Children, Child, NumPointers, TypeOK
    <3>2. Children(o)' = {}
      <4>1. /\ tagOf'[o] \in Tag
            /\ Offsets[tagOf'[o]] \in Seq(Field)
            /\ payload'[o] = [f \in Field |-> NULL]
        BY <2>1 DEF TypeOK
      <4>2. \A k \in 1..Len(Offsets[tagOf'[o]]) :
              payload'[o][Offsets[tagOf'[o]][k]] = NULL
        <5>1. \A k \in 1..Len(Offsets[tagOf'[o]]) :
                Offsets[tagOf'[o]][k] \in Field
          BY <4>1
        <5> QED
          BY <4>1, <5>1
      <4> QED
        BY <4>2 DEF Children, Child, NumPointers
    <3> QED
      BY <3>1, <3>2
  <2>7. ClosedHeap'
    <3>1. \A p \in Obj : Edges[p] = Children(p) /\ Edges'[p] = Children(p)'
      BY DEF Edges
    <3>2. Live \subseteq Obj
      BY GraphTypes
    <3>3. Roots \subseteq Live /\ \A p \in Live : Edges[p] \subseteq Live
      BY <2>1 DEF ClosedHeap, Closed
    <3>4. ASSUME NEW p \in Live' PROVE Edges'[p] \subseteq Live'
      BY <2>1, <2>4, <2>6, <3>1, <3>2, <3>3
    <3> QED
      BY <2>4, <3>3, <3>4 DEF ClosedHeap, Closed
  <2>8. marked' = {}
    BY <2>1
  <2> QED
    BY <2>1, <2>2, <2>5, <2>7, <2>8
<1> QED
  BY <1>1, <1>2

\* A step of the mark phase: marking stays within what can be reached, and no
\* child of a marked object is forgotten.
LEMMA MarkStep ==
  ASSUME IInv, TypeOK', MarkRoot \/ MarkChild \/ MarkReturn
  PROVE  IInv'
<1>1. /\ pc = "mark" /\ pc' = "mark" /\ Marking /\ TypeOK
      /\ UNCHANGED <<before, list, tagOf, payload, shadow>>
  BY DEF MarkRoot, MarkChild, MarkReturn, IInv, PhaseInv
<1>2. SUFFICES Marking'
  BY <1>1, SameGraph DEF IInv, PhaseInv, CollectionIsExact
<1>3. /\ Reachable' = Reachable /\ \A o, k : Child(o, k)' = Child(o, k)
      /\ \A o : NumPointers(o)' = NumPointers(o)
  BY <1>1, SameGraph
<1>4. /\ Roots \subseteq Reachable
      /\ \A o \in Reachable : Children(o) \subseteq Reachable
      /\ marked \subseteq Obj
  BY <1>1, ReachableFacts DEF TypeOK
<1>8. \A n \in 1..Len(frames) : frames[n].obj \in marked
  BY <1>1 DEF Marking
<1>9. \A o \in marked : \A k \in 1..NumPointers(o) :
        Child(o, k) \in marked \cup {NULL} \/ Pending(o, k)
  BY <1>1 DEF Marking
<1>5. CASE MarkRoot
  <2>0. PICK r : r = shadow[root]
    OBVIOUS
  <2>1. frames = <<>> /\ root \in 1..Len(shadow) /\ root' = root + 1
    BY <1>1, <1>5 DEF MarkRoot, TypeOK
  <2>2. NeedsMark(r) => r \in Roots
    BY <2>0, <2>1 DEF NeedsMark, Roots, Elems
  <2>3. \A o, k : ~ Pending(o, k)
    BY <2>1 DEF Pending
  <2>6. /\ Len(shadow) \in Nat /\ root \in Nat
        /\ \A j \in 1..Len(shadow) : j < root' => j < root \/ j = root
    BY <1>1, <2>1 DEF TypeOK
  <2>4. CASE NeedsMark(r)
    <3>1. marked' = marked \cup {r} /\ frames' = Enter(frames, r)
      BY <1>5, <2>0, <2>4 DEF MarkRoot
    <3>2. r \in Obj
      BY <1>1, <2>2, <2>4, GraphTypes
    <3>3. Len(frames') = 1 /\ frames'[1] = [obj |-> r, next |-> 1]
      <4>1. frames \in Seq(Frame) /\ Len(frames) = 0
        BY <1>1, <2>1 DEF TypeOK
      <4> QED
        <5>1. /\ Len(Enter(frames, r)) = 1
              /\ Enter(frames, r)[1] = [obj |-> r, next |-> 1]
          <6>1. /\ Len(Enter(frames, r)) = Len(frames) + 1
                /\ Enter(frames, r)[Len(frames) + 1] = [obj |-> r, next |-> 1]
            BY <3>2, <4>1, EnterTop
          <6>2. Len(frames) + 1 = 1
            BY <4>1
          <6> QED
            BY <6>1, <6>2
        <5> QED
          BY <3>1, <5>1
    <3>4. \A k \in 1..NumPointers(r) : Pending(r, k)'
      <4>1. \A k \in 1..NumPointers(r) : 1 <= k
        BY <1>1, NumPointersIsNat, <3>2
      <4>2. 1 \in 1..Len(frames')
        BY <3>3
      <4>3. frames'[1].obj = r /\ frames'[1].next = 1
        BY <3>3
      <4> SUFFICES ASSUME NEW k \in 1..NumPointers(r) PROVE Pending(r, k)'
        OBVIOUS
      <4>4. frames'[1].next <= k
        BY <4>1, <4>3
      <4> QED
        BY <4>2, <4>3, <4>4 DEF Pending
    <3>5. marked' \subseteq Reachable'
      BY <1>1, <1>3, <1>4, <2>2, <2>4, <3>1 DEF Marking
    <3>6. \A j \in 1..Len(shadow') : j < root' => shadow'[j] \in marked' \cup {NULL}
      BY <1>1, <2>0, <2>1, <3>1, <2>6 DEF Marking
    <3>7. \A n \in 1..Len(frames') : frames'[n].obj \in marked'
      BY <3>1, <3>3
    <3>8. \A o \in marked' : \A k \in 1..NumPointers(o)' :
            Child(o, k)' \in marked' \cup {NULL} \/ Pending(o, k)'
      <4>1. ASSUME NEW o \in marked', NEW k \in 1..NumPointers(o)
            PROVE  Child(o, k) \in marked' \cup {NULL} \/ Pending(o, k)'
        <5>1. CASE o = r
          BY <3>4, <5>1
        <5>2. CASE o \in marked
          BY <1>9, <2>3, <3>1, <5>2
        <5> QED
          BY <3>1, <5>1, <5>2
      <4> QED
        BY <1>3, <4>1
    <3> QED
      BY <3>5, <3>6, <3>7, <3>8 DEF Marking
  <2>5. CASE ~ NeedsMark(r)
    <3>1. marked' = marked /\ frames' = <<>>
      BY <1>5, <2>0, <2>1, <2>5 DEF MarkRoot
    <3>2. r \in marked \cup {NULL}
      BY <2>5 DEF NeedsMark
    <3>3. \A j \in 1..Len(shadow') : j < root' => shadow'[j] \in marked' \cup {NULL}
      BY <1>1, <2>0, <2>1, <3>1, <3>2, <2>6 DEF Marking
    <3>4. \A o \in marked' : \A k \in 1..NumPointers(o)' :
            Child(o, k)' \in marked' \cup {NULL}
      BY <1>1, <1>3, <2>3, <3>1 DEF Marking
    <3> QED
      BY <1>1, <1>3, <3>1, <3>3, <3>4 DEF Marking
  <2> QED
    BY <2>4, <2>5
<1>6. CASE MarkChild
  <2>0. PICK t, m, c : t = Top.obj /\ m = Top.next /\ c = Child(t, m)
    OBVIOUS
  <2>1. /\ frames \in Seq(Frame) /\ frames # <<>> /\ m <= NumPointers(t)
        /\ root' = root
    BY <1>1, <1>6, <2>0 DEF MarkChild, MorePointers, TypeOK
  <2>2. /\ Top \in Frame /\ Len(frames) \in Nat \ {0}
        /\ Len(frames) \in 1..Len(frames) /\ Top = frames[Len(frames)]
    BY <2>1 DEF Top
  <2>3. t \in marked /\ t \in Obj /\ m \in 1..NumPointers(t)
    BY <1>1, <1>4, <2>0, <2>1, <2>2, NumPointersIsNat DEF Marking, Frame
  <2>4. NeedsMark(c) => c \in Reachable /\ c \in Obj
    BY <1>1, <1>4, <2>0, <2>3, ChildIsRef DEF Marking, NeedsMark, Children, Ref
  <2> DEFINE adv == Advance(frames)
  <2>5. /\ adv \in Seq(Frame) /\ Len(adv) = Len(frames)
        /\ \A n \in 1..Len(frames) : adv[n].obj = frames[n].obj
        /\ \A n \in 1..Len(frames) : n # Len(frames) => adv[n] = frames[n]
        /\ adv[Len(frames)].next = m + 1
    BY <2>0, <2>1, <2>2, AdvanceTop
  <2> HIDE DEF adv
  <2>6. ASSUME NEW o \in Obj, NEW k \in 1..NumPointers(o), Pending(o, k),
               ~ (o = t /\ k = m)
        PROVE  \E n \in 1..Len(adv) : adv[n].obj = o /\ adv[n].next <= k
    <3>1. PICK n \in 1..Len(frames) : frames[n].obj = o /\ frames[n].next <= k
      BY <2>6 DEF Pending
    <3>2. CASE n # Len(frames)
      BY <2>2, <2>5, <3>1, <3>2
    <3>3. CASE n = Len(frames)
      <4>1. o = t /\ m <= k /\ k # m
        BY <2>0, <2>2, <2>6, <3>1, <3>3
      <4>2. m + 1 <= k
        BY <2>3, <2>6, <4>1, NumPointersIsNat
      <4> QED
        BY <2>2, <2>5, <3>1, <3>3, <4>1, <4>2
    <3> QED
      BY <3>2, <3>3
  <2>7. \A n \in 1..Len(adv) : adv[n].obj \in marked
    BY <1>8, <2>2, <2>5
  <2>8. CASE NeedsMark(c)
    <3>1. marked' = marked \cup {c} /\ frames' = Enter(adv, c)
      BY <1>6, <2>0, <2>8 DEF MarkChild, adv
    <3>2. /\ Len(frames') = Len(adv) + 1 /\ Len(adv) \in Nat
          /\ \A n \in 1..Len(adv) : frames'[n] = adv[n]
          /\ frames'[Len(adv) + 1] = [obj |-> c, next |-> 1]
      <4>1. adv \in Seq(Frame) /\ c \in Obj /\ Len(adv) \in Nat
        BY <2>2, <2>4, <2>5, <2>8
      <4>2. /\ Len(Enter(adv, c)) = Len(adv) + 1
            /\ \A n \in 1..Len(adv) : Enter(adv, c)[n] = adv[n]
            /\ Enter(adv, c)[Len(adv) + 1] = [obj |-> c, next |-> 1]
        BY <4>1, EnterTop
      <4> QED
        BY <3>1, <4>1, <4>2
    <3>3. \A k \in 1..NumPointers(c) : Pending(c, k)'
      <4>1. \A k \in 1..NumPointers(c) : 1 <= k
        BY NumPointersIsNat, <2>4, <2>8
      <4>2. Len(adv) + 1 \in 1..Len(frames')
        BY <3>2
      <4>3. /\ frames'[Len(adv) + 1].obj = c
            /\ frames'[Len(adv) + 1].next = 1
        BY <3>2
      <4> SUFFICES ASSUME NEW k \in 1..NumPointers(c) PROVE Pending(c, k)'
        OBVIOUS
      <4>4. frames'[Len(adv) + 1].next <= k
        BY <4>1, <4>3
      <4> QED
        BY <4>2, <4>3, <4>4 DEF Pending
    <3>4. ASSUME NEW o \in marked, NEW k \in 1..NumPointers(o)
          PROVE  Child(o, k) \in marked' \cup {NULL} \/ Pending(o, k)'
      <4>1. CASE o = t /\ k = m
        BY <2>0, <3>1, <4>1
      <4>2. CASE ~ (o = t /\ k = m) /\ Pending(o, k)
        <5>1. PICK n \in 1..Len(adv) : adv[n].obj = o /\ adv[n].next <= k
          BY <1>4, <2>6, <4>2
        <5>2. n \in 1..Len(frames') /\ frames'[n] = adv[n]
          BY <3>2
        <5> QED
          BY <5>1, <5>2 DEF Pending
      <4>3. CASE ~ Pending(o, k)
        BY <1>1, <3>1, <4>3 DEF Marking
      <4> QED
        BY <4>1, <4>2, <4>3
    <3>5. \A n \in 1..Len(frames') : frames'[n].obj \in marked'
      <4>1. ASSUME NEW n \in 1..Len(frames') PROVE frames'[n].obj \in marked'
        <5>1. n \in 1..Len(adv) \/ n = Len(adv) + 1
          BY <3>2
        <5> QED
          BY <2>7, <3>1, <3>2, <5>1
      <4> QED
        BY <4>1
    <3>6. \A o \in marked' : \A k \in 1..NumPointers(o)' :
            Child(o, k)' \in marked' \cup {NULL} \/ Pending(o, k)'
      <4>1. ASSUME NEW o \in marked', NEW k \in 1..NumPointers(o)
            PROVE  Child(o, k) \in marked' \cup {NULL} \/ Pending(o, k)'
        <5>1. CASE o = c
          BY <3>3, <5>1
        <5>2. CASE o \in marked
          BY <3>4, <5>2
        <5> QED
          BY <3>1, <5>1, <5>2
      <4> QED
        BY <1>3, <4>1
    <3>7. marked' \subseteq Reachable'
      BY <1>1, <1>3, <2>4, <2>8, <3>1 DEF Marking
    <3>8. \A j \in 1..Len(shadow') : j < root' => shadow'[j] \in marked' \cup {NULL}
      BY <1>1, <2>1, <3>1 DEF Marking
    <3> QED
      BY <3>5, <3>6, <3>7, <3>8 DEF Marking
  <2>9. CASE ~ NeedsMark(c)
    <3>1. marked' = marked /\ frames' = adv
      BY <1>6, <2>0, <2>9 DEF MarkChild, adv
    <3>2. c \in marked \cup {NULL}
      BY <2>9 DEF NeedsMark
    <3>3. ASSUME NEW o \in marked, NEW k \in 1..NumPointers(o)
          PROVE  Child(o, k) \in marked \cup {NULL} \/ Pending(o, k)'
      <4>1. CASE o = t /\ k = m
        BY <2>0, <3>2, <4>1
      <4>2. CASE ~ (o = t /\ k = m) /\ Pending(o, k)
        BY <1>4, <2>6, <3>1, <4>2 DEF Pending
      <4>3. CASE ~ Pending(o, k)
        BY <1>1, <4>3 DEF Marking
      <4> QED
        BY <4>1, <4>2, <4>3
    <3> QED
      BY <1>1, <1>3, <2>1, <2>7, <3>1, <3>3 DEF Marking
  <2> QED
    BY <2>8, <2>9
<1>7. CASE MarkReturn
  <2>1. /\ frames \in Seq(Frame) /\ frames # <<>>
        /\ ~ (Top.next <= NumPointers(Top.obj)) /\ Top = frames[Len(frames)]
        /\ frames' = SubSeq(frames, 1, Len(frames) - 1)
        /\ marked' = marked /\ root' = root
    BY <1>1, <1>7 DEF MarkReturn, MorePointers, TypeOK, Top
  <2>2. /\ Len(frames) \in Nat \ {0} /\ Len(frames') = Len(frames) - 1
        /\ \A n \in 1..(Len(frames) - 1) : frames'[n] = frames[n]
    BY <2>1, ElemsOfFront
  <2>3. ASSUME NEW o \in marked, NEW k \in 1..NumPointers(o), Pending(o, k)
        PROVE  Pending(o, k)'
    <3>1. PICK n \in 1..Len(frames) : frames[n].obj = o /\ frames[n].next <= k
      BY <2>3 DEF Pending
    <3>2. NumPointers(o) \in Nat /\ frames[n].next \in Nat
      <4>1. o \in Obj /\ frames[n] \in Frame
        BY <1>4, <2>1, <3>1
      <4> QED
        BY <1>1, <4>1, NumPointersIsNat DEF Frame
    <3>3. n # Len(frames)
      BY <2>1, <3>1, <3>2
    <3>4. n \in 1..Len(frames') /\ frames'[n] = frames[n]
      BY <2>2, <3>3
    <3> QED
      BY <3>1, <3>4 DEF Pending
  <2>4. \A n \in 1..Len(frames') : frames'[n].obj \in marked
    BY <1>1, <2>2 DEF Marking
  <2> QED
    BY <1>1, <1>3, <2>1, <2>3, <2>4 DEF Marking
<1> QED
  BY <1>5, <1>6, <1>7

\* Taking the head off a list without repetitions leaves such a list, and the
\* head is not in it.
LEMMA TailIsInjective ==
  ASSUME NEW S, NEW s \in Seq(S), s # <<>>,
         \A i, j \in 1..Len(s) : s[i] = s[j] => i = j
  PROVE  /\ \A i, j \in 1..Len(Tail(s)) : Tail(s)[i] = Tail(s)[j] => i = j
         /\ Head(s) \notin Elems(Tail(s))
<1>1. Len(s) \in Nat \ {0} /\ Head(s) = s[1] /\ Len(Tail(s)) = Len(s) - 1
  OBVIOUS
<1>2. \A k \in 1..Len(Tail(s)) : Tail(s)[k] = s[k + 1]
  OBVIOUS
<1>3. \A k \in 1..Len(Tail(s)) : k + 1 \in 1..Len(s) /\ k + 1 # 1
  BY <1>1
<1>4. ASSUME NEW i \in 1..Len(Tail(s)), NEW j \in 1..Len(Tail(s)),
             Tail(s)[i] = Tail(s)[j]
      PROVE  i = j
  <2>1. s[i + 1] = s[j + 1]
    BY <1>2, <1>4
  <2>2. i + 1 = j + 1
    BY <1>3, <2>1
  <2> QED
    BY <2>2
<1>5. ASSUME NEW k \in 1..Len(Tail(s)) PROVE Tail(s)[k] # Head(s)
  <2>1. k + 1 \in 1..Len(s) /\ 1 \in 1..Len(s) /\ k + 1 # 1
    BY <1>1, <1>3
  <2> QED
    BY <1>1, <1>2, <2>1
<1> QED
  BY <1>4, <1>5 DEF Elems

\* Putting a new object at the end of a list without repetitions leaves such
\* a list.
LEMMA AppendIsInjective ==
  ASSUME NEW S, NEW s \in Seq(S), NEW x \in S, x \notin Elems(s),
         \A i, j \in 1..Len(s) : s[i] = s[j] => i = j
  PROVE  \A i, j \in 1..Len(Append(s, x)) :
           Append(s, x)[i] = Append(s, x)[j] => i = j
<1> DEFINE t == Append(s, x)
<1>1. /\ Len(s) \in Nat /\ Len(t) = Len(s) + 1 /\ t[Len(s) + 1] = x
      /\ \A k \in 1..Len(s) : t[k] = s[k]
  OBVIOUS
<1> HIDE DEF t
<1>2. \A k \in 1..Len(s) : s[k] # x
  BY DEF Elems
<1>3. ASSUME NEW i \in 1..Len(t), NEW j \in 1..Len(t), t[i] = t[j]
      PROVE  i = j
  <2>1. \A k \in 1..Len(t) : k \in 1..Len(s) \/ k = Len(s) + 1
    BY <1>1
  <2> QED
    BY <1>1, <1>2, <1>3, <2>1
<1> QED
  BY <1>3 DEF t

\* The end of marking: the marked objects hold the roots and, nothing being
\* pending, are closed under references.
LEMMA StartSweepStep ==
  ASSUME IInv, TypeOK', StartSweep
  PROVE  IInv'
<1>1. /\ pc = "mark" /\ pc' = "sweep" /\ root' = 1
      /\ frames = <<>> /\ frames' = <<>> /\ root > Len(shadow)
      /\ TypeOK /\ Marking /\ ClosedHeap /\ before = <<>> /\ NoDoubleFree
      /\ UNCHANGED <<before, list, tagOf, payload, shadow, marked>>
  BY DEF StartSweep, IInv, PhaseInv
<1>2. Live = Elems(list) /\ Elems(before) = {}
  BY <1>1 DEF Live, Elems
<1>3. Reachable \subseteq marked
  <2>1. Roots \subseteq marked
    <3>1. \A j \in 1..Len(shadow) : j < root
      BY <1>1 DEF TypeOK
    <3> QED
      BY <1>1, <3>1 DEF Marking, Roots, Elems
  <2>2. \A o \in marked : Children(o) \subseteq marked
    <3>1. \A o, k : ~ Pending(o, k)
      BY <1>1 DEF Pending
    <3> QED
      BY <1>1, <3>1 DEF Marking, Children
  <2>3. marked \in SUBSET Obj
    BY <1>1 DEF TypeOK
  <2> QED
    BY <1>1, <2>1, <2>2, <2>3, ReachableWithin
<1>4. Reachable \subseteq Live
  <2>1. Live \in SUBSET Obj /\ \A o \in Live : Children(o) \subseteq Live
    BY <1>1, GraphTypes DEF ClosedHeap, Closed
  <2> QED
    BY <1>1, <2>1, ReachableWithin DEF ClosedHeap
<1>5. Sweeping
  BY <1>1, <1>2, <1>3, <1>4 DEF Sweeping, Marking
<1>6. Sweeping'
  BY <1>1, <1>5, SameGraph DEF Sweeping, Elems
<1> QED
  BY <1>1, <1>6, SameGraph DEF IInv, PhaseInv, CollectionIsExact

\* A kept object moves from the part ahead of the cursor to the part behind,
\* and its mark bit is cleared.
LEMMA SweepKeepStep ==
  ASSUME IInv, TypeOK', SweepKeep
  PROVE  IInv'
<1>0. PICK h : h = Head(list)
  OBVIOUS
<1>1. /\ pc = "sweep" /\ pc' = "sweep" /\ list # <<>> /\ h \in marked
      /\ marked' = marked \ {h} /\ before' = Append(before, h)
      /\ list' = Tail(list)
      /\ TypeOK /\ Sweeping /\ NoDoubleFree /\ frames = <<>> /\ root = 1
      /\ UNCHANGED <<tagOf, payload, shadow, frames, root>>
  BY <1>0 DEF SweepKeep, IInv, PhaseInv
<1>2. /\ before \in Seq(Obj) /\ list \in Seq(Obj) /\ h \in Obj
      /\ Elems(list) = Elems(list') \cup {h}
  BY <1>0, <1>1, ElemsOfTail DEF TypeOK
<1>3. Elems(before') = Elems(before) \cup {h}
  BY <1>1, <1>2, ElemsOfAppend
<1>4. h \notin Elems(before)
  BY <1>1, <1>2 DEF NoDoubleFree
<1>5. /\ h \notin Elems(list')
      /\ \A i, j \in 1..Len(list') : list'[i] = list'[j] => i = j
  BY <1>0, <1>1, <1>2, TailIsInjective DEF NoDoubleFree
<1>6. \A i, j \in 1..Len(before') : before'[i] = before'[j] => i = j
  <2>1. \A i, j \in 1..Len(before) : before[i] = before[j] => i = j
    BY <1>1 DEF NoDoubleFree
  <2>2. \A i, j \in 1..Len(Append(before, h)) :
          Append(before, h)[i] = Append(before, h)[j] => i = j
    BY <1>2, <1>4, <2>1, AppendIsInjective
  <2> QED
    BY <1>1, <2>2
<1>7. NoDoubleFree'
  <2>1. Elems(before') \cap Elems(list') = {}
    BY <1>1, <1>2, <1>3, <1>5 DEF NoDoubleFree
  <2> QED
    BY <1>5, <1>6, <2>1 DEF NoDoubleFree, Elems
<1>8. Reachable' = Reachable
  <2>1. Roots' = Roots /\ Edges' = Edges
    BY <1>1 DEF Roots, Elems, Edges, Children, Child, NumPointers
  <2> QED
    BY <2>1 DEF Reachable
<1>9. Sweeping'
  <2>1. marked' \subseteq Elems(list') /\ Elems(before') \cup marked' = Reachable'
    BY <1>1, <1>2, <1>3, <1>8 DEF Sweeping
  <2> QED
    BY <2>1 DEF Sweeping, Elems
<1> QED
  BY <1>1, <1>7, <1>9 DEF IInv, PhaseInv, CollectionIsExact

\* A freed object is one that cannot be reached, so what can be reached does
\* not change with the words of its memory.
LEMMA SweepFreeStep ==
  ASSUME IInv, TypeOK', SweepFree
  PROVE  IInv' /\ Reachable' = Reachable /\ Head(list) \notin Reachable
<1>0. PICK h : h = Head(list)
  OBVIOUS
<1>1. /\ pc = "sweep" /\ pc' = "sweep" /\ list # <<>> /\ h \notin marked
      /\ list' = Tail(list)
      /\ tagOf' = [tagOf EXCEPT ![h] = AnyTag]
      /\ payload' = [payload EXCEPT ![h] = [f \in Field |-> NULL]]
      /\ TypeOK /\ Sweeping /\ NoDoubleFree /\ frames = <<>> /\ root = 1
      /\ UNCHANGED <<before, marked, shadow, frames, root>>
  BY <1>0 DEF SweepFree, IInv, PhaseInv
<1>2. /\ list \in Seq(Obj) /\ h \in Obj
      /\ Elems(list) = Elems(list') \cup {h}
  BY <1>0, <1>1, ElemsOfTail DEF TypeOK
<1>3. /\ h \notin Elems(list')
      /\ \A i, j \in 1..Len(list') : list'[i] = list'[j] => i = j
  BY <1>0, <1>1, <1>2, TailIsInjective DEF NoDoubleFree
<1>4. h \notin Reachable
  BY <1>1, <1>2 DEF Sweeping, NoDoubleFree
<1>5. NoDoubleFree'
  <2>1. Elems(before) \cap Elems(list') = {}
    BY <1>1, <1>2 DEF NoDoubleFree
  <2> QED
    <3>1. Elems(before)' = Elems(before) /\ Elems(list)' = Elems(list')
      BY <1>1 DEF Elems
    <3>2. \A i, j \in 1..Len(before') : before'[i] = before'[j] => i = j
      BY <1>1 DEF NoDoubleFree
    <3> QED
      BY <1>3, <2>1, <3>1, <3>2 DEF NoDoubleFree
<1>6. \A o \in Obj : o # h => Children(o)' = Children(o)
  BY <1>1 DEF Children, Child, NumPointers, TypeOK
<1>7. Children(h)' = {}
  <2>1. /\ payload'[h] = [f \in Field |-> NULL]
        /\ Offsets[tagOf'[h]] \in Seq(Field)
    BY <1>1, <1>2 DEF TypeOK
  <2>2. \A k \in 1..Len(Offsets[tagOf'[h]]) :
          payload'[h][Offsets[tagOf'[h]][k]] = NULL
    <3>1. \A k \in 1..Len(Offsets[tagOf'[h]]) : Offsets[tagOf'[h]][k] \in Field
      BY <2>1
    <3> QED
      BY <2>1, <3>1
  <2> QED
    BY <2>2 DEF Children, Child, NumPointers
<1>8. Reachable' = Reachable
  <2>1. /\ DOMAIN Edges = Obj /\ Roots \subseteq Obj
        /\ \A o \in Obj : Edges[o] = Children(o) /\ Children(o) \subseteq Obj
        /\ Closed(DOMAIN Edges, Edges)
    BY <1>1, GraphTypes
  <2>2. DOMAIN Edges' = Obj /\ \A o \in Obj : Edges'[o] = Children(o)'
    BY DEF Edges
  <2>3. Closed(DOMAIN Edges', Edges')
    BY <1>6, <1>7, <2>1, <2>2 DEF Closed
  <2>4. \A o \in ReachableFrom(Roots, Edges) : Edges'[o] = Edges[o]
    BY <1>4, <1>6, <2>1, <2>2 DEF Reachable, ReachableFrom
  <2>5. ReachableFrom(Roots, Edges') = ReachableFrom(Roots, Edges)
    BY <2>1, <2>2, <2>3, <2>4, UnreachableEdgesDoNotMatter
  <2>6. Roots' = Roots
    BY <1>1 DEF Roots, Elems
  <2> QED
    BY <2>5, <2>6 DEF Reachable
<1>9. Sweeping'
  <2>1. marked \subseteq Elems(list') /\ Elems(before) \cup marked = Reachable
    BY <1>1, <1>2 DEF Sweeping
  <2> QED
    BY <1>1, <1>8, <2>1 DEF Sweeping, Elems
<1> QED
  BY <1>0, <1>1, <1>4, <1>5, <1>8, <1>9 DEF IInv, PhaseInv, CollectionIsExact

\* The end of a sweep: nothing is marked any more, and the list is what can
\* be reached.
LEMMA FinishStep ==
  ASSUME IInv, TypeOK', FinishGC
  PROVE  IInv'
<1>1. /\ pc = "sweep" /\ pc' = "collected" /\ list = <<>>
      /\ list' = before /\ before' = <<>>
      /\ TypeOK /\ Sweeping /\ NoDoubleFree /\ frames = <<>> /\ root = 1
      /\ UNCHANGED <<tagOf, marked, payload, shadow, frames, root>>
  BY DEF FinishGC, IInv, PhaseInv
<1>2. Elems(list) = {} /\ Elems(before') = {} /\ Elems(list') = Elems(before)
  BY <1>1 DEF Elems
<1>3. marked = {} /\ Elems(before) = Reachable
  BY <1>1, <1>2 DEF Sweeping
<1>4. Roots' = Roots /\ Edges' = Edges /\ Reachable' = Reachable
  <2>1. Roots' = Roots /\ Edges' = Edges
    BY <1>1 DEF Roots, Elems, Edges, Children, Child, NumPointers
  <2> QED
    BY <2>1 DEF Reachable
<1>5. Live' = Reachable
  BY <1>1, <1>2, <1>3 DEF Live
<1>6. ClosedHeap'
  <2>1. Roots \subseteq Reachable /\ Closed(Reachable, Edges)
    <3>1. Closed(Reachable, Edges)
      BY <1>1, ReachableFacts, GraphTypes DEF Closed
    <3> QED
      BY <1>1, <3>1, ReachableFacts
  <2> QED
    BY <1>4, <1>5, <2>1 DEF ClosedHeap
<1>7. NoDoubleFree'
  BY <1>1, <1>2 DEF NoDoubleFree, Elems
<1> QED
  BY <1>1, <1>3, <1>4, <1>5, <1>6, <1>7 DEF IInv, PhaseInv, CollectionIsExact

-----------------------------------------------------------------------------
(* The theorems.                                                           *)

\* The inductive invariant holds at first.
LEMMA InitIInv == Init => IInv
<1> SUFFICES ASSUME Init PROVE IInv
  OBVIOUS
<1>1. TypeOK
  BY DEF Init, TypeOK, Phases, AnyTag, NoRequest, Ref
<1>2. Elems(before) = {} /\ Elems(list) = {} /\ Roots = {}
  BY DEF Init, Elems, Roots
<1>3. NoDoubleFree /\ ClosedHeap
  BY <1>2 DEF Init, NoDoubleFree, ClosedHeap, Live, Closed
<1> QED
  BY <1>1, <1>3 DEF Init, IInv, PhaseInv, CollectionIsExact

\* A step that changes nothing keeps it.
LEMMA IdleStep ==
  ASSUME IInv, TypeOK', UNCHANGED vars
  PROVE  IInv'
<1>1. UNCHANGED <<pc, before, list, tagOf, payload, shadow, marked, frames, root>>
  BY DEF vars
<1>2. Marking' = Marking /\ Sweeping' = Sweeping
  BY <1>1, SameGraph DEF Marking, Sweeping, Pending, Elems
<1> QED
  BY <1>1, <1>2, SameGraph DEF IInv, PhaseInv, CollectionIsExact

\* The inductive invariant holds of every behaviour of the collector.
THEOREM InductiveInvariant == Spec => []IInv
<1>1. IInv /\ TypeOK' /\ [Next]_vars => IInv'
  BY ClientStep, AllocStep, MarkStep, StartSweepStep, SweepKeepStep,
     SweepFreeStep, FinishStep, IdleStep
  DEF Next, Runtime, Aborted
<1> QED
  BY <1>1, InitIInv, TypeCorrect, PTL DEF Spec

\* The mark phase starts at every root, follows every offset and forgets no
\* pending child, and the sweep frees only what is not marked: whatever the
\* shape of the heap, an object that a path from the shadow stack leads to is
\* never freed.
THEOREM ReachableObjectsSurvive == Spec => []ReachableIsLive
<1>1. IInv => ReachableIsLive
  <2> SUFFICES ASSUME IInv PROVE ReachableIsLive
    OBVIOUS
  <2>1. CASE pc = "sweep"
    BY <2>1 DEF IInv, PhaseInv, Sweeping, ReachableIsLive, Live
  <2>2. CASE pc # "sweep"
    <3>1. ClosedHeap /\ TypeOK
      BY <2>2 DEF IInv, PhaseInv
    <3>2. Live \in SUBSET Obj /\ \A o \in Live : Children(o) \subseteq Live
      BY <3>1, GraphTypes DEF ClosedHeap, Closed
    <3> QED
      BY <3>1, <3>2, ReachableWithin DEF ClosedHeap, ReachableIsLive
  <2> QED
    BY <2>1, <2>2
<1> QED
  BY <1>1, InductiveInvariant, PTL

\* When hulk_gc returns, the list is exactly what can be reached, and no mark
\* bit is left set.
THEOREM CollectionsAreExact == Spec => []CollectionIsExact
<1>1. IInv => CollectionIsExact
  BY DEF IInv
<1> QED
  BY <1>1, InductiveInvariant, PTL

\* No object is listed twice, so the sweep frees none twice.
THEOREM NothingIsFreedTwice == Spec => []NoDoubleFree
<1>1. IInv => NoDoubleFree
  BY DEF IInv
<1> QED
  BY <1>1, InductiveInvariant, PTL

-----------------------------------------------------------------------------
(* The collector implements the abstract heap.                             *)

\* The abstract phase of each phase of the runtime.
LEMMA PhaseValues ==
  /\ pc \in {"mark", "sweep"} => phase = "collecting"
  /\ pc \in {"mutator", "collected", "malloc"} => phase = "mutator"
  /\ pc \in Aborts => phase = "stopped"
<1>1. CASE pc \in {"mark", "sweep"}
  BY <1>1 DEF phase, Aborts
<1>2. CASE pc \in Aborts
  BY <1>2 DEF phase, Aborts
<1>3. CASE pc \in {"mutator", "collected", "malloc"}
  BY <1>3 DEF phase, Aborts
<1> QED
  BY <1>1, <1>2, <1>3 DEF Aborts

\* The elements of a list are its last one and those before it.
LEMMA ElemsOfFrontAndLast ==
  ASSUME NEW S, NEW s \in Seq(S), s # <<>>
  PROVE  Elems(s) = Elems(SubSeq(s, 1, Len(s) - 1)) \cup {s[Len(s)]}
<1>1. /\ Len(s) \in Nat \ {0} /\ Len(SubSeq(s, 1, Len(s) - 1)) = Len(s) - 1
      /\ \A k \in 1..(Len(s) - 1) : SubSeq(s, 1, Len(s) - 1)[k] = s[k]
      /\ Elems(SubSeq(s, 1, Len(s) - 1)) \subseteq Elems(s)
  BY ElemsOfFront
<1>2. s[Len(s)] \in Elems(s)
  BY <1>1 DEF Elems
<1>3. ASSUME NEW k \in 1..Len(s)
      PROVE  s[k] \in Elems(SubSeq(s, 1, Len(s) - 1)) \cup {s[Len(s)]}
  <2>1. CASE k = Len(s)
    BY <2>1
  <2>2. CASE k # Len(s)
    <3>1. k \in 1..(Len(s) - 1)
      BY <1>1, <2>2
    <3> QED
      BY <1>1, <3>1 DEF Elems
  <2> QED
    BY <2>1, <2>2
<1> QED
  BY <1>1, <1>2, <1>3 DEF Elems

\* A step of the client is a step of the abstract heap.
LEMMA ClientRefines ==
  ASSUME IInv, IInv', Client
  PROVE  [Heap!HeapNext]_(Heap!heapVars)
<1>0. TypeOK /\ TypeOK' /\ pc = "mutator" /\ phase = "mutator"
  BY PhaseValues DEF IInv, Client, ShadowPush, ShadowPop, SetField, Alloc,
     CollectNow
<1>1. ASSUME NEW v \in Ref, ShadowPush(v)
      PROVE  [Heap!HeapNext]_(Heap!heapVars)
  <2>1. UNCHANGED <<before, list, tagOf, payload>> /\ v \in Live \cup {NULL}
    BY <1>1 DEF ShadowPush
  <2>2. Live' = Live /\ Edges' = Edges
    BY <2>1 DEF Live, Elems, Edges, Children, Child, NumPointers
  <2>3. CASE shadow' = Append(shadow, v) /\ pc' = pc
    <3>1. Elems(shadow') = Elems(shadow) \cup {v}
      BY <1>0, <2>3, ElemsOfAppend DEF TypeOK
    <3>2. Roots' = (Elems(shadow) \cup {v}) \ {NULL}
      BY <3>1 DEF Roots, Elems
    <3>3. phase' = phase
      BY <2>3 DEF phase
    <3>4. CASE v = NULL
      <4>1. Roots' = Roots
        BY <3>2, <3>4 DEF Roots
      <4> QED
        BY <2>2, <3>3, <4>1 DEF Heap!heapVars
    <3>5. CASE v # NULL
      <4>1. v \in Live /\ v \in Obj /\ Roots' = Roots \cup {v}
        BY <2>1, <3>2, <3>5 DEF Roots, Ref
      <4> QED
        BY <1>0, <2>2, <3>3, <4>1 DEF Heap!HeapNext, Heap!AddRoot
    <3> QED
      BY <3>4, <3>5
  <2>4. CASE pc' = "overflow" /\ shadow' = shadow
    <3>1. phase' = "stopped"
      BY <2>4 DEF phase, Aborts
    <3>2. Roots' = Roots
      BY <2>4 DEF Roots, Elems
    <3> QED
      BY <1>0, <2>2, <3>1, <3>2 DEF Heap!HeapNext, Heap!Stop
  <2> QED
    BY <1>1, <2>3, <2>4 DEF ShadowPush
<1>2. CASE ShadowPop
  <2>1. UNCHANGED <<before, list, tagOf, payload>>
    BY <1>2 DEF ShadowPop
  <2>2. Live' = Live /\ Edges' = Edges
    BY <2>1 DEF Live, Elems, Edges, Children, Child, NumPointers
  <2>3. CASE /\ shadow # <<>> /\ pc' = pc
             /\ shadow' = SubSeq(shadow, 1, Len(shadow) - 1)
    <3>0. PICK v : v = shadow[Len(shadow)]
      OBVIOUS
    <3>1. v \in Ref /\ Elems(shadow) = Elems(shadow') \cup {v}
      BY <1>0, <2>3, <3>0, ElemsOfFrontAndLast DEF TypeOK
    <3>2. phase' = phase
      BY <2>3 DEF phase
    <3>3. Roots' = Elems(shadow') \ {NULL}
      BY DEF Roots, Elems
    <3>4. CASE v = NULL \/ v \in Elems(shadow')
      <4>1. Roots' = Roots
        BY <3>1, <3>3, <3>4 DEF Roots
      <4> QED
        BY <2>2, <3>2, <4>1 DEF Heap!heapVars
    <3>5. CASE v # NULL /\ v \notin Elems(shadow')
      <4>1. v \in Obj /\ Roots' = Roots \ {v}
        BY <3>1, <3>3, <3>5 DEF Roots, Ref
      <4> QED
        BY <1>0, <2>2, <3>2, <4>1 DEF Heap!HeapNext, Heap!DropRoot
    <3> QED
      BY <3>4, <3>5
  <2>4. CASE pc' = "underflow" /\ shadow' = shadow
    <3>1. phase' = "stopped"
      BY <2>4 DEF phase, Aborts
    <3>2. Roots' = Roots
      BY <2>4 DEF Roots, Elems
    <3> QED
      BY <1>0, <2>2, <3>1, <3>2 DEF Heap!HeapNext, Heap!Stop
  <2> QED
    BY <1>2, <2>3, <2>4 DEF ShadowPop
<1>3. ASSUME NEW o \in Live, NEW v \in Ref, NEW k \in 1..NumPointers(o),
             SetField(o, k, v)
      PROVE  [Heap!HeapNext]_(Heap!heapVars)
  <2>1. /\ pc' = pc /\ o \in Obj
        /\ payload' = [payload EXCEPT ![o][Offsets[tagOf[o]][k]] = v]
        /\ UNCHANGED <<before, list, tagOf, shadow>>
    BY <1>0, <1>3, GraphTypes DEF SetField
  <2>2. Live' = Live /\ Roots' = Roots /\ phase' = phase
    BY <2>1 DEF Live, Roots, Elems, phase
  <2>3. \A p \in Obj : p # o => Children(p)' = Children(p)
    BY <1>0, <2>1 DEF Children, Child, NumPointers, TypeOK
  <2>0. PICK targets : targets = Children(o)'
    OBVIOUS
  <2>4. Edges' = [Edges EXCEPT ![o] = targets]
    BY <2>0, <2>1, <2>3 DEF Edges
  <2>5. targets \subseteq Live
    <3>1. ClosedHeap'
      BY <1>0, <2>1 DEF IInv, PhaseInv
    <3>2. Edges'[o] = targets
      BY <2>0, <2>1 DEF Edges
    <3> QED
      BY <2>2, <3>1, <3>2 DEF ClosedHeap, Closed
  <2>6. targets \in SUBSET Obj
    BY <1>0, <2>5, GraphTypes
  <2>7. Heap!Mutate(o, targets)
    BY <1>0, <2>2, <2>4, <2>5 DEF Heap!Mutate
  <2> QED
    BY <2>1, <2>6, <2>7 DEF Heap!HeapNext
<1>4. ASSUME NEW t \in Tag, NEW n \in Sizes, Alloc(t, n)
      PROVE  [Heap!HeapNext]_(Heap!heapVars)
  <2>1. /\ pc' \in {"mark", "malloc"}
        /\ UNCHANGED <<before, list, tagOf, payload, shadow>>
    BY <1>4 DEF Alloc
  <2>2. phase' \in {"mutator", "collecting"}
    BY <2>1 DEF phase, Aborts
  <2>3. Live' = Live /\ Edges' = Edges /\ Roots' = Roots
    BY <2>1, SameGraph
  <2> QED
    BY <1>0, <2>2, <2>3
    DEF Heap!HeapNext, Heap!BeginCollection, Heap!heapVars
<1>5. CASE CollectNow
  <2>1. pc' = "mark" /\ UNCHANGED <<before, list, tagOf, payload, shadow>>
    BY <1>5 DEF CollectNow
  <2>2. phase' = "collecting"
    BY <2>1 DEF phase, Aborts
  <2>3. Live' = Live /\ Edges' = Edges /\ Roots' = Roots
    BY <2>1, SameGraph
  <2> QED
    BY <1>0, <2>2, <2>3 DEF Heap!HeapNext, Heap!BeginCollection
<1> QED
  BY <1>1, <1>2, <1>3, <1>4, <1>5 DEF Client

\* A step of the runtime is a step of the abstract heap, or none: marking is
\* invisible, and so is keeping an object.
LEMMA RuntimeRefines ==
  ASSUME IInv, IInv', Runtime
  PROVE  [Heap!HeapNext]_(Heap!heapVars)
<1>0. TypeOK /\ TypeOK'
  BY DEF IInv
<1>r. Heap!Reached = Reachable
  BY DEF Heap!Reached, Heap!ReachableFrom, Heap!Closed, Reachable,
     ReachableFrom, Closed
<1>1. CASE AfterGC \/ MallocFails
  <2>1. /\ pc \in {"collected", "malloc"}
        /\ pc' \in {"mutator", "oom", "malloc", "malloc failed"}
        /\ UNCHANGED <<before, list, tagOf, payload, shadow>>
    BY <1>1 DEF AfterGC, MallocFails
  <2>2. phase = "mutator" /\ phase' \in {"mutator", "stopped"}
    BY <2>1 DEF phase, Aborts
  <2>3. Live' = Live /\ Edges' = Edges /\ Roots' = Roots
    BY <2>1, SameGraph
  <2> QED
    BY <2>2, <2>3 DEF Heap!HeapNext, Heap!Stop, Heap!heapVars
<1>2. ASSUME NEW o \in Obj, Malloc(o) PROVE [Heap!HeapNext]_(Heap!heapVars)
  <2>1. /\ pc = "malloc" /\ pc' = "mutator" /\ o \notin Live
        /\ list' = <<o>> \o list
        /\ payload' = [payload EXCEPT ![o] = [f \in Field |-> NULL]]
        /\ tagOf' = [tagOf EXCEPT ![o] = request.tag]
        /\ UNCHANGED <<before, shadow>>
    BY <1>2 DEF Malloc
  <2>2. phase = "mutator" /\ phase' = "mutator" /\ Roots' = Roots
    BY <2>1 DEF phase, Aborts, Roots, Elems
  <2>3. Live' = Live \cup {o}
    <3>0. list \in Seq(Obj) /\ o \in Obj
      BY <1>0 DEF TypeOK
    <3>1. Elems(list') = Elems(list) \cup {o}
      BY <2>1, <3>0, ElemsOfCons
    <3>2. Live' = Elems(before) \cup Elems(list')
      BY <2>1 DEF Live, Elems
    <3> QED
      BY <3>1, <3>2 DEF Live
  <2>4. \A p \in Obj : p # o => Children(p)' = Children(p)
    BY <1>0, <2>1 DEF Children, Child, NumPointers, TypeOK
  <2>5. Children(o)' = {}
    <3>1. /\ payload'[o] = [f \in Field |-> NULL]
          /\ Offsets[tagOf'[o]] \in Seq(Field)
      BY <1>0, <2>1 DEF TypeOK
    <3>2. \A k \in 1..Len(Offsets[tagOf'[o]]) :
            payload'[o][Offsets[tagOf'[o]][k]] = NULL
      <4>1. \A k \in 1..Len(Offsets[tagOf'[o]]) : Offsets[tagOf'[o]][k] \in Field
        BY <3>1
      <4> QED
        BY <3>1, <4>1
    <3> QED
      BY <3>2 DEF Children, Child, NumPointers
  <2>6. Edges' = [Edges EXCEPT ![o] = {}]
    BY <2>4, <2>5 DEF Edges
  <2>7. Heap!Allocate(o)
    BY <2>1, <2>2, <2>3, <2>6 DEF Heap!Allocate
  <2> QED
    BY <2>7 DEF Heap!HeapNext
<1>3. CASE MarkRoot \/ MarkChild \/ MarkReturn \/ StartSweep
  <2>1. /\ pc = "mark" /\ pc' \in {"mark", "sweep"}
        /\ UNCHANGED <<before, list, tagOf, payload, shadow>>
    BY <1>3 DEF MarkRoot, MarkChild, MarkReturn, StartSweep
  <2>2. phase' = phase
    BY <2>1 DEF phase, Aborts
  <2> QED
    BY <2>1, <2>2, SameGraph DEF Heap!heapVars
<1>4. CASE SweepKeep
  <2>1. /\ pc' = pc /\ list # <<>> /\ list' = Tail(list)
        /\ before' = Append(before, Head(list))
        /\ UNCHANGED <<tagOf, payload, shadow>>
    BY <1>4 DEF SweepKeep
  <2>2. phase' = phase /\ Roots' = Roots /\ Edges' = Edges
    BY <2>1 DEF phase, Roots, Elems, Edges, Children, Child, NumPointers
  <2>3. Live' = Live
    <3>0. list \in Seq(Obj) /\ before \in Seq(Obj)
      BY <1>0 DEF TypeOK
    <3>1. Head(list) \in Obj /\ Elems(list) = Elems(list') \cup {Head(list)}
      BY <2>1, <3>0, ElemsOfTail
    <3>2. Elems(before') = Elems(before) \cup {Head(list)}
      BY <2>1, <3>0, <3>1, ElemsOfAppend
    <3>3. Live' = Elems(before') \cup Elems(list')
      BY DEF Live, Elems
    <3> QED
      BY <3>1, <3>2, <3>3 DEF Live
  <2> QED
    BY <2>2, <2>3 DEF Heap!heapVars
<1>5. CASE SweepFree
  <2>0. PICK h : h = Head(list)
    OBVIOUS
  <2>1. /\ pc = "sweep" /\ pc' = "sweep" /\ list # <<>>
        /\ list' = Tail(list)
        /\ tagOf' = [tagOf EXCEPT ![h] = AnyTag]
        /\ payload' = [payload EXCEPT ![h] = [f \in Field |-> NULL]]
        /\ UNCHANGED <<before, shadow>>
    BY <1>5, <2>0 DEF SweepFree
  <2>2. phase = "collecting" /\ phase' = "collecting" /\ Roots' = Roots
    BY <2>1 DEF phase, Aborts, Roots, Elems
  <2>3. h \in Obj /\ Elems(list) = Elems(list') \cup {h}
    BY <1>0, <2>0, <2>1, ElemsOfTail DEF TypeOK
  <2>4. h \notin Elems(list') /\ h \notin Elems(before)
    <3>1. \A i, j \in 1..Len(list) : list[i] = list[j] => i = j
      BY DEF IInv, NoDoubleFree
    <3>2. h \notin Elems(list')
      BY <1>0, <2>0, <2>1, <3>1, TailIsInjective DEF TypeOK
    <3> QED
      BY <2>3, <3>2 DEF IInv, NoDoubleFree
  <2>5. h \in Live /\ Live' = Live \ {h}
    <3>1. Live' = Elems(before) \cup Elems(list')
      BY <2>1 DEF Live, Elems
    <3> QED
      BY <2>3, <2>4, <3>1 DEF Live
  <2>6. h \notin Reachable
    BY <1>0, <1>5, <2>0, SweepFreeStep
  <2>7. \A p \in Obj : p # h => Children(p)' = Children(p)
    BY <1>0, <2>1 DEF Children, Child, NumPointers, TypeOK
  <2>8. Children(h)' = {}
    <3>1. /\ payload'[h] = [f \in Field |-> NULL]
          /\ Offsets[tagOf'[h]] \in Seq(Field)
      BY <1>0, <2>1, <2>3 DEF TypeOK
    <3>2. \A k \in 1..Len(Offsets[tagOf'[h]]) :
            payload'[h][Offsets[tagOf'[h]][k]] = NULL
      <4>1. \A k \in 1..Len(Offsets[tagOf'[h]]) : Offsets[tagOf'[h]][k] \in Field
        BY <3>1
      <4> QED
        BY <3>1, <4>1
    <3> QED
      BY <3>2 DEF Children, Child, NumPointers
  <2>9. Edges' = [Edges EXCEPT ![h] = {}]
    BY <2>7, <2>8 DEF Edges
  <2>10. Heap!Release(h)
    BY <1>r, <2>2, <2>5, <2>6, <2>9 DEF Heap!Release
  <2> QED
    BY <2>3, <2>10 DEF Heap!HeapNext
<1>6. CASE FinishGC
  <2>1. /\ pc = "sweep" /\ pc' = "collected" /\ list = <<>>
        /\ list' = before /\ before' = <<>>
        /\ UNCHANGED <<tagOf, payload, shadow>>
    BY <1>6 DEF FinishGC
  <2>2. /\ phase = "collecting" /\ phase' = "mutator"
        /\ Roots' = Roots /\ Edges' = Edges
    BY <2>1 DEF phase, Aborts, Roots, Elems, Edges, Children, Child, NumPointers
  <2>3. Elems(list) = {} /\ Elems(before') = {} /\ Elems(list') = Elems(before)
    BY <2>1 DEF Elems
  <2>4. Live' = Live
    BY <2>3 DEF Live, Elems
  <2>5. Live = Reachable
    BY <2>1, <2>3 DEF IInv, PhaseInv, Sweeping, Live
  <2>6. Heap!EndCollection
    BY <1>r, <2>2, <2>4, <2>5 DEF Heap!EndCollection
  <2> QED
    BY <2>6 DEF Heap!HeapNext
<1> QED
  BY <1>1, <1>2, <1>3, <1>4, <1>5, <1>6 DEF Runtime

\* hulk_gc and hulk_alloc implement the heap of ManagedHeap: an object is
\* freed only during a collection and only when no path leads to it, and a
\* collection ends only when nothing else is left.
THEOREM CollectorImplementsHeap == Spec => ImplementsHeap
<1>1. Init => Heap!HeapInit
  <2> SUFFICES ASSUME Init PROVE Heap!HeapInit
    OBVIOUS
  <2>1. phase = "mutator" /\ Live = {} /\ Roots = {}
    BY DEF Init, phase, Aborts, Live, Roots, Elems
  <2>2. Edges = [o \in Obj |-> {}]
    <3>1. ASSUME NEW o \in Obj PROVE Children(o) = {}
      <4>1. /\ payload[o] = [f \in Field |-> NULL] /\ tagOf[o] \in Tag
        BY DEF Init, AnyTag
      <4>2. \A k \in 1..Len(Offsets[tagOf[o]]) : Offsets[tagOf[o]][k] \in Field
        BY <4>1
      <4>3. \A k \in 1..NumPointers(o) : Child(o, k) = NULL
        BY <4>1, <4>2 DEF Child, NumPointers
      <4> QED
        BY <4>3 DEF Children
    <3> QED
      BY <3>1 DEF Edges
  <2> QED
    BY <2>1, <2>2 DEF Heap!HeapInit
<1>2. IInv /\ IInv' /\ [Next]_vars => [Heap!HeapNext]_(Heap!heapVars)
  <2> SUFFICES ASSUME IInv, IInv', [Next]_vars
               PROVE  [Heap!HeapNext]_(Heap!heapVars)
    OBVIOUS
  <2>1. CASE UNCHANGED vars
    BY <2>1, SameGraph DEF vars, Heap!heapVars, phase
  <2> QED
    BY <2>1, ClientRefines, RuntimeRefines DEF Next, Aborted
<1> QED
  BY <1>1, <1>2, InductiveInvariant, PTL DEF Spec, ImplementsHeap, Heap!HeapSpec
=============================================================================
