------------------------------- MODULE HulkGC -------------------------------
(***************************************************************************)
(* The mark-and-sweep collector of the HULK runtime (src/runtime/gc.c),    *)
(* one action per step of the C code: a call of mark on a root, one turn   *)
(* of the loop over the pointer offsets in an activation of mark, its      *)
(* return, one turn of the sweep loop, the two threshold tests of          *)
(* hulk_alloc, malloc, and the shadow-stack operations.                    *)
(*                                                                         *)
(* The client is the most general one that keeps the contract of gc.h: it  *)
(* stores and pushes only references to objects that have not been freed,  *)
(* and expects an object to survive a collection only if a path leads to   *)
(* it from the shadow stack.  Generated code is modelled in Mutator.       *)
(***************************************************************************)
EXTENDS Integers, Sequences, Reachability

CONSTANTS
  Obj,               \* the addresses malloc can return (object identities)
  NULL,
  Tag,               \* the type tags of the program
  Field,             \* the words of a payload that may hold a reference
  Offsets,           \* Offsets[t]: the pointer_offsets of tag t, in order
  Sizes,             \* the total sizes (header + payload) requested
  Capacity,          \* HULK_SHADOW_STACK_CAPACITY
  InitialThreshold   \* GC_INITIAL_THRESHOLD

ASSUME NullAssumption == NULL \notin Obj
ASSUME TagAssumption == Tag # {} /\ Offsets \in [Tag -> Seq(Field)]
ASSUME SizesAssumption == Sizes \subseteq Nat \ {0}
ASSUME LimitsAssumption == Capacity \in Nat /\ InitialThreshold \in Nat

VARIABLES
  pc,          \* what the runtime is doing; "mutator" between calls
  before,      \* the allocation list up to the sweep cursor ...
  list,        \* ... and from *cursor on (outside a sweep, all of it)
  tagOf,       \* the header fields: tag,
  sizeOf,      \* size,
  marked,      \* and mark (the set of objects whose mark bit is set)
  payload,     \* the reference words of every payload
  shadow,      \* the shadow stack, its top last
  bytes,       \* __hulk_alloc_bytes
  threshold,   \* __hulk_gc_threshold
  root,        \* the index i of the mark phase's loop over the roots
  frames,      \* the activations of mark: object and next pointer index
  request      \* the hulk_alloc in progress

vars == <<pc, before, list, tagOf, sizeOf, marked, payload, shadow,
          bytes, threshold, root, frames, request>>

Ref       == Obj \cup {NULL}
Elems(s)  == {s[k] : k \in 1..Len(s)}
AnyTag    == CHOOSE t \in Tag : TRUE     \* the tag word of free memory
NoRequest == [tag |-> AnyTag, size |-> 0]
Frame     == [obj : Obj, next : Nat \ {0}]
Aborts    == {"overflow", "underflow", "oom", "malloc failed"}

\* The objects allocated and not freed.
Live == Elems(before) \cup Elems(list)

\* The k-th traced reference of o, and all of them.
NumPointers(o) == Len(Offsets[tagOf[o]])
Child(o, k)    == payload[o][Offsets[tagOf[o]][k]]
Children(o)    == {Child(o, k) : k \in 1..NumPointers(o)} \ {NULL}
Edges          == [o \in Obj |-> Children(o)]
Roots          == Elems(shadow) \ {NULL}
Reachable      == ReachableFrom(Roots, Edges)

-----------------------------------------------------------------------------
(* Wrong versions of definitions below, each the work of a plausible slip  *)
(* in gc.c.  No specification uses them: putting one in place of the right *)
(* definition shows that a property notices.                               *)

StackFullLate     == Len(shadow) > Capacity
NoGrowth          == 1
SmallerOf(m, n)   == IF m < n THEN m ELSE n
MarkedOrNot(v)    == v # NULL
LoopNeverAdvances(stack) == stack
LastPointerSkipped == frames[Len(frames)].next
                        < NumPointers(frames[Len(frames)].obj)

\* The survivor keeps its mark bit.
KeepStillMarked ==
  /\ pc = "sweep" /\ list # <<>> /\ Head(list) \in marked
  /\ before' = Append(before, Head(list)) /\ list' = Tail(list)
  /\ UNCHANGED <<pc, tagOf, sizeOf, marked, payload, shadow, bytes, threshold,
                 root, frames, request>>

\* The cursor does not move past the survivor.
KeepWithoutAdvancing ==
  /\ pc = "sweep" /\ list # <<>> /\ Head(list) \in marked
  /\ marked' = marked \ {Head(list)}
  /\ before' = Append(before, Head(list))
  /\ UNCHANGED <<pc, list, tagOf, sizeOf, payload, shadow, bytes, threshold,
                 root, frames, request>>

\* The bytes of a freed object are still counted.
FreeWithoutAccounting ==
  /\ pc = "sweep" /\ list # <<>> /\ Head(list) \notin marked
  /\ list' = Tail(list)
  /\ tagOf' = [tagOf EXCEPT ![Head(list)] = AnyTag]
  /\ sizeOf' = [sizeOf EXCEPT ![Head(list)] = 0]
  /\ payload' = [payload EXCEPT ![Head(list)] = [f \in Field |-> NULL]]
  /\ UNCHANGED <<pc, before, marked, shadow, bytes, threshold, root, frames,
                 request>>

\* The request is not compared again with the threshold of after the collection.
AfterGCUntested ==
  /\ pc = "collected"
  /\ pc' = IF request.size = 0 THEN "mutator" ELSE "malloc"
  /\ UNCHANGED <<before, list, tagOf, sizeOf, marked, payload, shadow, bytes,
                 threshold, root, frames, request>>

-----------------------------------------------------------------------------
(* Tests and steps inside the C functions.                                 *)

StackFull       == Len(shadow) >= Capacity
GrowthFactor    == 2                          \* GC_GROWTH_FACTOR
Larger(m, n)    == IF m < n THEN n ELSE m
NeedsMark(v)    == v # NULL /\ v \notin marked
Top             == frames[Len(frames)]
MorePointers    == Top.next <= NumPointers(Top.obj)
Enter(stack, o) == Append(stack, [obj |-> o, next |-> 1])
Advance(stack)  == [stack EXCEPT ![Len(stack)].next = @ + 1]

-----------------------------------------------------------------------------
Init ==
  /\ pc = "mutator"
  /\ before = <<>> /\ list = <<>>
  /\ tagOf = [o \in Obj |-> AnyTag]
  /\ sizeOf = [o \in Obj |-> 0]
  /\ marked = {}
  /\ payload = [o \in Obj |-> [f \in Field |-> NULL]]
  /\ shadow = <<>>
  /\ bytes = 0
  /\ threshold = InitialThreshold
  /\ root = 1
  /\ frames = <<>>
  /\ request = NoRequest

-----------------------------------------------------------------------------
(* The client: shadow-stack calls and stores into reference fields.        *)

ShadowPush(v) ==
  /\ pc = "mutator" /\ v \in Live \cup {NULL}
  /\ \/ ~ StackFull /\ shadow' = Append(shadow, v) /\ UNCHANGED pc
     \/ StackFull /\ pc' = "overflow" /\ UNCHANGED shadow
  /\ UNCHANGED <<before, list, tagOf, sizeOf, marked, payload, bytes,
                 threshold, root, frames, request>>

ShadowPop ==
  /\ pc = "mutator"
  /\ \/ /\ shadow # <<>>
        /\ shadow' = SubSeq(shadow, 1, Len(shadow) - 1)
        /\ UNCHANGED pc
     \/ shadow = <<>> /\ pc' = "underflow" /\ UNCHANGED shadow
  /\ UNCHANGED <<before, list, tagOf, sizeOf, marked, payload, bytes,
                 threshold, root, frames, request>>

SetField(o, k, v) ==
  /\ pc = "mutator" /\ o \in Live /\ v \in Live \cup {NULL}
  /\ k \in 1..NumPointers(o)
  /\ payload' = [payload EXCEPT ![o][Offsets[tagOf[o]][k]] = v]
  /\ UNCHANGED <<pc, before, list, tagOf, sizeOf, marked, shadow, bytes,
                 threshold, root, frames, request>>

-----------------------------------------------------------------------------
(* hulk_alloc, and hulk_gc called directly.                                *)

Alloc(t, n) ==
  /\ pc = "mutator"
  /\ request' = [tag |-> t, size |-> n]
  /\ \/ bytes + n > threshold /\ pc' = "mark"
     \/ bytes + n <= threshold /\ pc' = "malloc"
  /\ UNCHANGED <<before, list, tagOf, sizeOf, marked, payload, shadow, bytes,
                 threshold, root, frames>>

CollectNow ==
  /\ pc = "mutator" /\ pc' = "mark" /\ request' = NoRequest
  /\ UNCHANGED <<before, list, tagOf, sizeOf, marked, payload, shadow, bytes,
                 threshold, root, frames>>

\* hulk_gc has returned: to its direct caller, or to hulk_alloc's second test.
AfterGC ==
  /\ pc = "collected"
  /\ pc' = IF request = NoRequest THEN "mutator"
           ELSE IF bytes + request.size > threshold THEN "oom" ELSE "malloc"
  /\ UNCHANGED <<before, list, tagOf, sizeOf, marked, payload, shadow, bytes,
                 threshold, root, frames, request>>

\* malloc returns any free address; the payload is zeroed.
Malloc(o) ==
  /\ pc = "malloc" /\ o \notin Live
  /\ list' = <<o>> \o list
  /\ tagOf' = [tagOf EXCEPT ![o] = request.tag]
  /\ sizeOf' = [sizeOf EXCEPT ![o] = request.size]
  /\ marked' = marked \ {o}
  /\ payload' = [payload EXCEPT ![o] = [f \in Field |-> NULL]]
  /\ bytes' = bytes + request.size
  /\ pc' = "mutator" /\ request' = NoRequest
  /\ UNCHANGED <<before, shadow, threshold, root, frames>>

MallocFails ==
  /\ pc = "malloc" /\ pc' = "malloc failed"
  /\ UNCHANGED <<before, list, tagOf, sizeOf, marked, payload, shadow, bytes,
                 threshold, root, frames, request>>

-----------------------------------------------------------------------------
(* The mark phase of hulk_gc and the recursive function mark.              *)

MarkRoot ==
  /\ pc = "mark" /\ frames = <<>> /\ root <= Len(shadow)
  /\ root' = root + 1
  /\ \/ /\ NeedsMark(shadow[root])
        /\ marked' = marked \cup {shadow[root]}
        /\ frames' = Enter(frames, shadow[root])
     \/ ~ NeedsMark(shadow[root]) /\ UNCHANGED <<marked, frames>>
  /\ UNCHANGED <<pc, before, list, tagOf, sizeOf, payload, shadow, bytes,
                 threshold, request>>

MarkChild ==
  /\ pc = "mark" /\ frames # <<>> /\ MorePointers
  /\ LET c == Child(Top.obj, Top.next) IN
       \/ /\ NeedsMark(c)
          /\ marked' = marked \cup {c}
          /\ frames' = Enter(Advance(frames), c)
       \/ ~ NeedsMark(c) /\ frames' = Advance(frames) /\ UNCHANGED marked
  /\ UNCHANGED <<pc, before, list, tagOf, sizeOf, payload, shadow, bytes,
                 threshold, root, request>>

MarkReturn ==
  /\ pc = "mark" /\ frames # <<>> /\ ~ MorePointers
  /\ frames' = SubSeq(frames, 1, Len(frames) - 1)
  /\ UNCHANGED <<pc, before, list, tagOf, sizeOf, marked, payload, shadow,
                 bytes, threshold, root, request>>

StartSweep ==
  /\ pc = "mark" /\ frames = <<>> /\ root > Len(shadow)
  /\ pc' = "sweep" /\ root' = 1
  /\ UNCHANGED <<before, list, tagOf, sizeOf, marked, payload, shadow, bytes,
                 threshold, frames, request>>

-----------------------------------------------------------------------------
(* The sweep phase: *cursor is the head of list.                           *)

SweepKeep ==
  /\ pc = "sweep" /\ list # <<>> /\ Head(list) \in marked
  /\ marked' = marked \ {Head(list)}
  /\ before' = Append(before, Head(list)) /\ list' = Tail(list)
  /\ UNCHANGED <<pc, tagOf, sizeOf, payload, shadow, bytes, threshold, root,
                 frames, request>>

\* The words of freed memory are given fixed values: nothing reads them.
SweepFree ==
  /\ pc = "sweep" /\ list # <<>> /\ Head(list) \notin marked
  /\ list' = Tail(list)
  /\ bytes' = bytes - sizeOf[Head(list)]
  /\ tagOf' = [tagOf EXCEPT ![Head(list)] = AnyTag]
  /\ sizeOf' = [sizeOf EXCEPT ![Head(list)] = 0]
  /\ payload' = [payload EXCEPT ![Head(list)] = [f \in Field |-> NULL]]
  /\ UNCHANGED <<pc, before, marked, shadow, threshold, root, frames, request>>

FinishGC ==
  /\ pc = "sweep" /\ list = <<>>
  /\ list' = before /\ before' = <<>>
  /\ threshold' = Larger(bytes * GrowthFactor, InitialThreshold)
  /\ pc' = "collected"
  /\ UNCHANGED <<tagOf, sizeOf, marked, payload, shadow, bytes, root, frames,
                 request>>

-----------------------------------------------------------------------------
\* abort() has ended the process.
Aborted == pc \in Aborts /\ UNCHANGED vars

Client ==
  \/ \E v \in Ref : ShadowPush(v)
  \/ ShadowPop
  \/ \E o \in Live, v \in Ref : \E k \in 1..NumPointers(o) : SetField(o, k, v)
  \/ \E t \in Tag, n \in Sizes : Alloc(t, n)
  \/ CollectNow

Runtime ==
  \/ AfterGC \/ MallocFails \/ \E o \in Obj : Malloc(o)
  \/ MarkRoot \/ MarkChild \/ MarkReturn
  \/ StartSweep \/ SweepKeep \/ SweepFree \/ FinishGC

Next == Client \/ Runtime \/ Aborted

Spec == Init /\ [][Next]_vars

\* The runtime is a sequential program: a call that has begun keeps running.
FairSpec == Spec /\ WF_vars(Runtime)

-----------------------------------------------------------------------------
Phases == {"mutator", "mark", "sweep", "collected", "malloc"} \cup Aborts

TypeOK ==
  /\ pc \in Phases
  /\ before \in Seq(Obj) /\ list \in Seq(Obj)
  /\ tagOf \in [Obj -> Tag]
  /\ sizeOf \in [Obj -> Nat]
  /\ marked \subseteq Obj
  /\ payload \in [Obj -> [Field -> Ref]]
  /\ shadow \in Seq(Ref) /\ Len(shadow) <= Capacity
  /\ bytes \in Int /\ threshold \in Nat
  /\ root \in 1..(Capacity + 1)
  /\ frames \in Seq(Frame)
  /\ request \in [tag : Tag, size : Nat]

-----------------------------------------------------------------------------
(* Properties.                                                             *)

\* No object that a path from the shadow stack leads to has been freed, at
\* any point of a collection: hulk_gc marks before it sweeps, follows every
\* offset of the tag, and stops at a set mark bit without losing a subtree.
ReachableIsLive == Reachable \subseteq Live

\* When hulk_gc returns, what is left is exactly what can be reached, cycles
\* of garbage included, and every mark bit is clear again, without which the
\* next collection would take a marked object for a visited one.
CollectionIsExact ==
  /\ pc = "collected" => Live = Reachable
  /\ pc \notin {"mark", "sweep"} => marked = {}

\* The allocation list never holds an object twice, so no object is freed
\* twice, neither in one sweep nor when an address is handed out again.
NoDoubleFree ==
  /\ \A i, j \in 1..Len(list) : list[i] = list[j] => i = j
  /\ \A i, j \in 1..Len(before) : before[i] = before[j] => i = j
  /\ Elems(before) \cap Elems(list) = {}

\* The sum of the sizes of the objects in a list.
Total(size, s) ==
  LET sum[k \in 0..Len(s)] == IF k = 0 THEN 0 ELSE sum[k - 1] + size[s[k]]
  IN  sum[Len(s)]

\* __hulk_alloc_bytes is the sum of the sizes in the list at every step, so
\* the size_t subtraction of the sweep never wraps around.
BytesAreExact == bytes = Total(sizeOf, before) + Total(sizeOf, list)

\* The heap never outgrows the threshold, before and after the threshold
\* has been adapted to what survived.
HeapWithinThreshold == bytes <= threshold /\ InitialThreshold <= threshold

\* hulk_alloc gives up only on a request larger than everything that is
\* still allocated after the collection and than what is left of the first
\* threshold: small objects never end a program.
OnlyLargeRequestsFail ==
  pc = "oom" => /\ request.size > bytes
                /\ request.size > InitialThreshold - bytes

\* The recursion of mark is never deeper than the number of objects: no
\* object has two activations, whatever cycles the heap has.
NoReentrantMark ==
  \A i, j \in 1..Len(frames) : frames[i].obj = frames[j].obj => i = j

\* A collection, and the allocation that asked for it, always ends.
CallsReturn == (pc # "mutator") ~> (pc \in {"mutator"} \cup Aborts)

-----------------------------------------------------------------------------
(* The collector implements the abstract heap.                             *)

phase == CASE pc \in {"mark", "sweep"} -> "collecting"
           [] pc \in Aborts -> "stopped"
           [] OTHER -> "mutator"

Heap == INSTANCE ManagedHeap
          WITH live <- Live, edges <- Edges, roots <- Roots

\* hulk_gc and hulk_alloc keep the promise of ManagedHeap.
ImplementsHeap == Heap!HeapSpec

-----------------------------------------------------------------------------
(* The inductive invariant.                                                *)

\* The client only ever holds references to objects in the list.
ClosedHeap == Roots \subseteq Live /\ Closed(Live, Edges)

\* An activation of mark on o has not come to its k-th pointer yet.
Pending(o, k) ==
  \E n \in 1..Len(frames) : frames[n].obj = o /\ frames[n].next <= k

\* The roots visited so far are marked, only reachable objects are, and a
\* child of a marked object is marked or pending.
Marking ==
  /\ marked \subseteq Reachable
  /\ \A j \in 1..Len(shadow) : j < root => shadow[j] \in marked \cup {NULL}
  /\ \A n \in 1..Len(frames) : frames[n].obj \in marked
  /\ \A o \in marked : \A k \in 1..NumPointers(o) :
       Child(o, k) \in marked \cup {NULL} \/ Pending(o, k)

\* What has been kept and what is marked but not yet visited is what can be
\* reached.
Sweeping ==
  /\ marked \subseteq Elems(list)
  /\ Elems(before) \cup marked = Reachable

PhaseInv ==
  /\ pc # "sweep" => ClosedHeap /\ before = <<>>
  /\ pc # "mark" => frames = <<>> /\ root = 1
  /\ pc = "mark" => Marking
  /\ pc = "sweep" => Sweeping

IInv == TypeOK /\ NoDoubleFree /\ PhaseInv /\ CollectionIsExact

\* What the threshold tests of hulk_alloc and the adaptation of the threshold
\* leave behind them: malloc is called only within the threshold, which a
\* collection has set to what survived, and stays so until it returns.
Thresholds ==
  /\ pc = "malloc" => bytes + request.size <= threshold
  /\ pc \in {"collected", "oom"} =>
       threshold = Larger(bytes * GrowthFactor, InitialThreshold)
  /\ pc = "oom" => bytes + request.size > threshold

Accounting == BytesAreExact /\ HeapWithinThreshold /\ Thresholds

\* Everything that is proved inductive.
CompleteInv == IInv /\ NoReentrantMark /\ Accounting
=============================================================================
