---------------------------- MODULE MutatorProofs ----------------------------
(***************************************************************************)
(* What holds of every compiled program whose code is lawful (CodeShape),  *)
(* however many calls it makes and objects it allocates: the invariants of *)
(* Mutator that say something of the shadow stack and of temporaries.      *)
(* The checks of Mutator find that what Lowering makes is lawful.          *)
(***************************************************************************)
EXTENDS Mutator, SequenceTheorems, Lemmas

\* The code generator is handed nothing else.
LawfulOnes == \A e \in Executables : e.code.ok => IsLawful(e.code)

-----------------------------------------------------------------------------
(* The inductive invariant.                                                *)

IsSeq(s) == s \in Seq(Range(s))

\* What a temporary can hold while so many objects have been allocated.
Slot(v, count) ==
  v \in [k : {"num", "ref", "null"}, v : Int] /\ (v.k = "ref" => v.v \in 1..count)

\* Operands loaded for the instruction i.
Loads(i, l, h) ==
  /\ IsSeq(l)
  /\ \A a \in 1..Len(l) : Slot(l[a], Len(h)) \/ (IsTypeTest(i) /\ a = 2)
  /\ i.op = "call" /\ i.f = "__hulk_concat" /\ Len(l) = 3 =>
       l[3].k = "ref" /\ h[l[3].v].tag = "String"

At(c, f) == c.bodies[f.fn][f.pc]

IsFrame(f) ==
  f = [fn |-> f.fn, pc |-> f.pc, loaded |-> f.loaded, base |-> f.base, temps |-> f.temps]

\* What is read and not yet stored is stored on every path to where it is read.
Fills(c, f) ==
  \A t \in Reads(c.bodies[f.fn]) :
    \/ t \in DOMAIN f.temps
    \/ t \notin Inputs(c.bodies[f.fn]) /\ f.pc \in Before(c.bodies[f.fn], t)

HasSlots(f, count) ==
  DOMAIN f.temps \subseteq Nat /\ \A t \in DOMAIN f.temps : Slot(f.temps[t], count)

FrameOK(c, f, h) ==
  /\ IsFrame(f)
  /\ f.fn \in DOMAIN c.bodies /\ f.pc \in 1..Len(c.bodies[f.fn]) /\ f.base \in Nat
  /\ HasSlots(f, Len(h))
  /\ Loads(At(c, f), f.loaded, h)
  /\ Fills(c, f)

\* How deep the shadow stack is when the frame is the innermost.
Depth_(c, f) == f.base + DepthAt(c.bodies[f.fn], f.pc)

\* A frame that waits for a call to return.
Waits(c, f) ==
  At(c, f).op \in Calls /\ (At(c, f).op = "new" => 1 \in 1..Len(f.loaded))

\* The calls under way, over a shadow stack of a given depth.
StackOK(c, fs, h, depth) ==
  /\ IsSeq(fs)
  /\ \A i \in 1..Len(fs) : FrameOK(c, fs[i], h)
  /\ \A i \in 1..Len(fs) : i > 1 => fs[i].fn # MainName
  /\ \A i \in 1..Len(fs) - 1 : Waits(c, fs[i]) /\ Depth_(c, fs[i]) = fs[i + 1].base
  /\ \A i, j \in 1..Len(fs) : i <= j => fs[i].base <= fs[j].base
  /\ Len(fs) > 0 => fs[1].base = 0 /\ Depth_(c, fs[Len(fs)]) = depth

HoldsSlots(x, count) ==
  x.k = "raw" /\ IsSeq(x.v) /\ \A j \in 1..Len(x.v) : Slot(x.v[j], count)

\* What the collector and the code generator agree on about an object.
ObjectOK(c, x, count) ==
  /\ x = [tag |-> x.tag, words |-> x.words, live |-> x.live]
  /\ x.tag \in DOMAIN c.types => \A f \in DOMAIN x.words : Slot(x.words[f], count)
  /\ x.tag = "Range" =>
       DOMAIN x.words = {"current", "max"} /\ Slot(x.words["current"], count)
  /\ x.tag = "Vector" =>
       /\ DOMAIN x.words = {"pos", "items"} /\ Slot(x.words["pos"], count)
       /\ HoldsSlots(x.words["items"], count)
  /\ x.tag = "ObjArray" =>
       DOMAIN x.words = {"items"} /\ HoldsSlots(x.words["items"], count)

HeapOK(c, h) == IsSeq(h) /\ \A o \in 1..Len(h) : ObjectOK(c, h[o], Len(h))

ShadowOK(s) == IsSeq(s) /\ \A i \in 1..Len(s) : s[i].k \in {"ref", "null"}

IInv ==
  /\ exe \in Executables
  /\ ShadowOK(shadow) /\ HeapOK(code, heap)
  /\ StackOK(code, frames, heap, Len(shadow))
  /\ Running => code.ok
  /\ ~ Running => shadow = <<>>

-----------------------------------------------------------------------------
(* Sequences.                                                              *)

\* A sequence over anything is a sequence over its elements.
LEMMA Sequence ==
  ASSUME NEW S, NEW s \in Seq(S)
  PROVE  IsSeq(s) /\ Len(s) \in Nat /\ DOMAIN s = 1..Len(s)
<1>1. Len(s) \in Nat /\ DOMAIN s = 1..Len(s) /\ s \in [1..Len(s) -> S]
  BY LenProperties
<1>2. s \in [1..Len(s) -> Range(s)]
  BY <1>1 DEF Range
<1>3. s \in UNION {[1..n -> Range(s)] : n \in Nat}
  BY <1>1, <1>2
<1>4. Seq(Range(s)) = UNION {[1..n -> Range(s)] : n \in Nat}
  BY SeqDef
<1> QED
  BY <1>1, <1>3, <1>4 DEF IsSeq

\* The length of a sequence and its elements.
LEMMA SequenceHas ==
  ASSUME NEW s, IsSeq(s)
  PROVE  Len(s) \in Nat /\ DOMAIN s = 1..Len(s) /\ (s = <<>> <=> Len(s) = 0)
<1>1. s \in Seq(Range(s))
  BY DEF IsSeq
<1> HIDE DEF IsSeq
<1>2. Len(s) \in Nat /\ DOMAIN s = 1..Len(s)
  BY <1>1, Sequence
<1> QED
  BY <1>1, <1>2, EmptySeq

\* A sequence with one element more.
LEMMA Appended ==
  ASSUME NEW s, IsSeq(s), NEW x
  PROVE  /\ IsSeq(Append(s, x)) /\ Len(Append(s, x)) = Len(s) + 1
         /\ \A i \in 1..Len(s) : Append(s, x)[i] = s[i]
         /\ Append(s, x)[Len(s) + 1] = x
<1> DEFINE S == Range(s) \cup {x}
<1>1. s \in Seq(S)
  BY SeqMonotonic DEF IsSeq
<1> HIDE DEF S
<1>2. x \in S
  BY DEF S
<1>3. /\ Append(s, x) \in Seq(S) /\ Len(Append(s, x)) = Len(s) + 1
      /\ \A i \in 1..Len(s) : Append(s, x)[i] = s[i]
      /\ Append(s, x)[Len(s) + 1] = x
  BY <1>1, <1>2, AppendProperties
<1> QED
  BY <1>3, Sequence

\* A sequence with one element replaced.
LEMMA Replaced ==
  ASSUME NEW s, IsSeq(s), NEW n \in 1..Len(s), NEW x
  PROVE  /\ IsSeq([s EXCEPT ![n] = x]) /\ Len([s EXCEPT ![n] = x]) = Len(s)
         /\ \A i \in 1..Len(s) : [s EXCEPT ![n] = x][i] = IF i = n THEN x ELSE s[i]
<1> DEFINE S == Range(s) \cup {x}
<1>1. s \in Seq(S)
  BY SeqMonotonic DEF IsSeq
<1> HIDE DEF S
<1>2. x \in S
  BY DEF S
<1>3. /\ [s EXCEPT ![n] = x] \in Seq(S) /\ Len([s EXCEPT ![n] = x]) = Len(s)
      /\ \A i \in 1..Len(s) : [s EXCEPT ![n] = x][i] = IF i = n THEN x ELSE s[i]
  BY <1>1, <1>2, ExceptSeq
<1> QED
  BY <1>3, Sequence

\* The beginning of a sequence.
LEMMA Beginning ==
  ASSUME NEW s, IsSeq(s), NEW n \in Nat, n <= Len(s)
  PROVE  /\ IsSeq(SubSeq(s, 1, n)) /\ Len(SubSeq(s, 1, n)) = n
         /\ \A i \in 1..n : SubSeq(s, 1, n)[i] = s[i]
<1>1. s \in Seq(Range(s)) /\ Len(s) \in Nat
  BY SequenceHas DEF IsSeq
<1>2. \A i \in 1..n : s[i] \in Range(s)
  BY <1>1, ElementOfSeq
<1>3. /\ SubSeq(s, 1, n) \in Seq(Range(s))
      /\ Len(SubSeq(s, 1, n)) = IF 1 <= n THEN n - 1 + 1 ELSE 0
      /\ \A i \in 1..n - 1 + 1 : SubSeq(s, 1, n)[i] = s[1 + i - 1]
  BY <1>2, SubSeqProperties
<1>4. n - 1 + 1 = n /\ (IF 1 <= n THEN n - 1 + 1 ELSE 0) = n /\ \A i \in 1..n : 1 + i - 1 = i
  OBVIOUS
<1>5. \A i \in 1..n : SubSeq(s, 1, n)[i] = s[i]
  BY <1>3, <1>4
<1>6. Len(SubSeq(s, 1, n)) = n
  BY <1>3, <1>4
<1> QED
  BY <1>3, <1>5, <1>6, Sequence

\* So many times the same: an array the runtime has zeroed.
LEMMA Repeated ==
  ASSUME NEW n \in Int, NEW x
  PROVE  /\ IsSeq([i \in 1..n |-> x])
         /\ \A j \in 1..Len([i \in 1..n |-> x]) : [i \in 1..n |-> x][j] = x
<1>1. PICK m \in Nat : 1..n = 1..m
  <2>1. CASE n < 0
    BY <2>1, 1..n = 1..0
  <2>2. CASE n >= 0
    BY <2>2
  <2> QED
    BY <2>1, <2>2
<1> DEFINE s == [i \in 1..n |-> x]
<1>2. s \in [1..m -> {x}]
  BY <1>1
<1>3. s \in Seq({x})
  BY <1>2, SeqDef
<1>4. s \in Seq({x}) /\ \A j \in 1..n : s[j] = x
  BY <1>3
<1> HIDE DEF s
<1>5. IsSeq(s) /\ DOMAIN s = 1..Len(s)
  BY <1>4, Sequence
<1>6. DOMAIN s = 1..n
  BY DEF s
<1> QED
  BY <1>4, <1>5, <1>6 DEF s

-----------------------------------------------------------------------------
(* Lawful code.                                                            *)

\* What IsBody says of each instruction.
LEMMA LawfulBody ==
  ASSUME NEW c, IsLawful(c), NEW fn \in DOMAIN c.bodies
  PROVE  LET b == c.bodies[fn]
         IN  /\ Len(b) \in Nat \ {0} /\ DOMAIN b = 1..Len(b)
             /\ \A n \in 1..Len(b) :
                  HasShape(b[n]) /\ CallsFit(c, b[n]) /\ DepthAt(b, n) \in Nat
<1> DEFINE b == c.bodies[fn]
<1>1. IsBody(c, b)
  BY DEF IsLawful
<1> HIDE DEF b
<1>2. Len(b) \in Nat \ {0} /\ DOMAIN b = 1..Len(b)
  BY <1>1 DEF IsBody, StaysInside
<1>3. \A n \in 1..Len(b) : HasShape(b[n]) /\ CallsFit(c, b[n])
  BY <1>1 DEF IsBody
<1>4. \A n \in 1..Len(b) : DepthAt(b, n) \in Nat
  BY <1>1 DEF IsBody, IsBalanced
<1> QED
  BY <1>2, <1>3, <1>4 DEF b

\* A step along a path: the shadow stack is as deep as the next instruction
\* expects, and a temporary that is still empty may be.
LEMMA AlongPaths ==
  ASSUME NEW c, IsLawful(c), NEW fn \in DOMAIN c.bodies,
         NEW n \in 1..Len(c.bodies[fn]), NEW m \in Successors(c.bodies[fn], n)
  PROVE  LET b == c.bodies[fn]
         IN  /\ m \in 1..Len(b)
             /\ DepthAt(b, m) = DepthAt(b, n) + Change(b[n])
             /\ \A t \in Reads(b) : n \in Before(b, t) =>
                  Writes(b, n, t) \/ m \in Before(b, t)
<1> DEFINE b == c.bodies[fn]
<1>1. IsBody(c, b)
  BY DEF IsLawful
<1>2. n \in 1..Len(b) /\ m \in Successors(b, n)
  OBVIOUS
<1> HIDE DEF b
<1>3. m \in 1..Len(b)
  BY <1>1, <1>2 DEF IsBody, StaysInside
<1>4. DepthAt(b, m) = DepthAt(b, n) + Change(b[n])
  BY <1>1, <1>2 DEF IsBody, IsBalanced
<1>5. ASSUME NEW t \in Reads(b), n \in Before(b, t)
      PROVE  Writes(b, n, t) \/ m \in Before(b, t)
  <2>1. IsClosed(b, t)
    BY <1>1 DEF IsBody
  <2> QED
    BY <1>2, <1>5, <2>1 DEF IsClosed
<1> QED
  BY <1>3, <1>4, <1>5 DEF b

\* Where a function begins.
LEMMA AtTheStart ==
  ASSUME NEW c, IsLawful(c), NEW fn \in DOMAIN c.bodies
  PROVE  LET b == c.bodies[fn]
         IN  /\ 1 \in 1..Len(b) /\ DepthAt(b, 1) = 0
             /\ \A t \in Reads(b) : 1 \in Before(b, t)
<1> DEFINE b == c.bodies[fn]
<1>1. IsBody(c, b)
  BY DEF IsLawful
<1> HIDE DEF b
<1>2. 1 \in 1..Len(b)
  BY <1>1 DEF IsBody, StaysInside
<1>3. DepthAt(b, 1) = 0
  BY <1>1 DEF IsBody, IsBalanced
<1>4. \A t \in Reads(b) : 1 \in Before(b, t)
  BY <1>1 DEF IsBody, IsClosed
<1> QED
  BY <1>2, <1>3, <1>4 DEF b

-----------------------------------------------------------------------------
(* Heaps.                                                                  *)

\* No object goes, and none changes its type.
Grows(h, g) ==
  /\ Len(h) \in Nat /\ Len(g) \in Nat /\ Len(h) <= Len(g)
  /\ \A o \in 1..Len(h) : g[o].tag = h[o].tag

\* A heap that stays as it is has grown by nothing.
LEMMA GrowsNot ==
  ASSUME NEW h, IsSeq(h)
  PROVE  Grows(h, h)
BY SequenceHas DEF Grows

\* What a slot holds it can hold when there are more objects.
LEMMA SlotStays ==
  ASSUME NEW n \in Nat, NEW m \in Nat, n <= m, NEW v, Slot(v, n)
  PROVE  Slot(v, m)
BY DEF Slot

\* So an object stays well formed when there are more objects.
LEMMA ObjectStays ==
  ASSUME NEW c, NEW x, NEW n \in Nat, NEW m \in Nat, n <= m, ObjectOK(c, x, n)
  PROVE  ObjectOK(c, x, m)
<1>1. \A v : Slot(v, n) => Slot(v, m)
  BY SlotStays
<1>2. \A y : HoldsSlots(y, n) => HoldsSlots(y, m)
  BY <1>1 DEF HoldsSlots
<1> QED
  BY <1>1, <1>2 DEF ObjectOK

\* A collection frees objects and does nothing else to them.
LEMMA Collecting ==
  ASSUME HeapOK(code, heap), NEW h \in Heaps
  PROVE  HeapOK(code, h) /\ Len(h) = Len(heap) /\ Grows(heap, h)
<1>1. IsSeq(heap) /\ Len(heap) \in Nat /\ DOMAIN heap = 1..Len(heap)
  BY SequenceHas DEF HeapOK
<1>2. CASE h = heap
  BY <1>1, <1>2, GrowsNot
<1>3. CASE h # heap
  <2>1. h = [o \in DOMAIN heap |-> [heap[o] EXCEPT !.live = @ /\ o \in Survivors]]
    BY <1>3 DEF Heaps
  <2>2. ASSUME NEW o \in 1..Len(heap)
        PROVE  /\ ObjectOK(code, heap[o], Len(heap))
               /\ h[o] = [tag |-> heap[o].tag, words |-> heap[o].words, live |-> h[o].live]
    <3>1. ObjectOK(code, heap[o], Len(heap))
      BY DEF HeapOK
    <3>2. heap[o] = [tag |-> heap[o].tag, words |-> heap[o].words, live |-> heap[o].live]
      BY <3>1 DEF ObjectOK
    <3>3. h[o] = [heap[o] EXCEPT !.live = @ /\ o \in Survivors]
      BY <1>1, <2>1
    <3> QED
      BY <3>1, <3>2, <3>3
  <2>3. ASSUME NEW o \in 1..Len(heap)
        PROVE  ObjectOK(code, h[o], Len(heap)) /\ h[o].tag = heap[o].tag
    <3>1. /\ h[o] = [tag |-> heap[o].tag, words |-> heap[o].words, live |-> h[o].live]
          /\ ObjectOK(code, heap[o], Len(heap))
      BY <2>2
    <3>2. h[o].tag = heap[o].tag /\ h[o].words = heap[o].words
      BY <3>1
    <3>3. h[o] = [tag |-> h[o].tag, words |-> h[o].words, live |-> h[o].live]
      BY <3>1, <3>2
    <3> QED
      BY <3>1, <3>2, <3>3 DEF ObjectOK
  <2>4. h \in [1..Len(heap) -> Range(h)]
    BY <1>1, <2>1 DEF Range
  <2>5. h \in Seq(Range(h))
    BY <1>1, <2>4, SeqDef
  <2>6. Len(h) = Len(heap) /\ IsSeq(h)
    BY <1>1, <2>4, <2>5, LenProperties DEF IsSeq
  <2> QED
    BY <1>1, <2>3, <2>6 DEF HeapOK, Grows
<1> QED
  BY <1>2, <1>3

\* A new object.
LEMMA Allocating ==
  ASSUME NEW c, NEW h, HeapOK(c, h), NEW x, ObjectOK(c, x, Len(h) + 1)
  PROVE  /\ HeapOK(c, Append(h, x)) /\ Grows(h, Append(h, x))
         /\ Len(Append(h, x)) = Len(h) + 1 /\ Append(h, x)[Len(h) + 1] = x
<1> DEFINE g == Append(h, x)
<1>1. IsSeq(h) /\ Len(h) \in Nat
  BY SequenceHas DEF HeapOK
<1>2. /\ IsSeq(g) /\ Len(g) = Len(h) + 1
      /\ \A o \in 1..Len(h) : g[o] = h[o]
      /\ g[Len(h) + 1] = x
  BY <1>1, Appended
<1> HIDE DEF g
<1>3. ASSUME NEW o \in 1..Len(g) PROVE ObjectOK(c, g[o], Len(g))
  <2>1. CASE o \in 1..Len(h)
    <3>1. ObjectOK(c, h[o], Len(h))
      BY <2>1 DEF HeapOK
    <3> QED
      BY <1>1, <1>2, <2>1, <3>1, ObjectStays
  <2>2. CASE o = Len(h) + 1
    BY <1>2, <2>2
  <2> QED
    BY <1>1, <1>2, <2>1, <2>2
<1>4. HeapOK(c, g) /\ Grows(h, g)
  BY <1>1, <1>2, <1>3 DEF HeapOK, Grows
<1> QED
  BY <1>2, <1>4 DEF g

\* A write to an object.
LEMMA Writing ==
  ASSUME NEW c, NEW h, HeapOK(c, h), NEW o \in 1..Len(h), NEW w,
         ObjectOK(c, [tag |-> h[o].tag, words |-> w, live |-> h[o].live], Len(h))
  PROVE  LET g == [h EXCEPT ![o].words = w]
         IN  HeapOK(c, g) /\ Grows(h, g) /\ Len(g) = Len(h)
<1> DEFINE x == [tag |-> h[o].tag, words |-> w, live |-> h[o].live]
           g == [h EXCEPT ![o] = x]
<1>1. IsSeq(h) /\ Len(h) \in Nat
  BY SequenceHas DEF HeapOK
<1>2. h[o] = [tag |-> h[o].tag, words |-> h[o].words, live |-> h[o].live]
  BY DEF HeapOK, ObjectOK
<1>3. [h[o] EXCEPT !.words = w] = x
  BY <1>2
<1>4. [h EXCEPT ![o].words = w] = g
  BY <1>3
<1>5. ObjectOK(c, x, Len(h)) /\ x.tag = h[o].tag
  OBVIOUS
<1> HIDE DEF x
<1>6. IsSeq(g) /\ Len(g) = Len(h) /\ \A p \in 1..Len(h) : g[p] = IF p = o THEN x ELSE h[p]
  BY <1>1, Replaced
<1> HIDE DEF g
<1>7. \A p \in 1..Len(h) : ObjectOK(c, g[p], Len(h)) /\ g[p].tag = h[p].tag
  BY <1>5, <1>6 DEF HeapOK
<1>8. HeapOK(c, g) /\ Grows(h, g)
  BY <1>1, <1>6, <1>7 DEF HeapOK, Grows
<1> QED
  BY <1>4, <1>6, <1>8

-----------------------------------------------------------------------------
(* Frames.                                                                 *)

\* Loaded operands stay what they are in a heap that has grown.
LEMMA LoadsStay ==
  ASSUME NEW h, NEW g, Grows(h, g), NEW i, NEW l, Loads(i, l, h)
  PROVE  Loads(i, l, g)
<1>1. Len(h) \in Nat /\ Len(g) \in Nat /\ Len(h) <= Len(g)
  BY DEF Grows
<1>2. IsSeq(l) /\ Len(l) \in Nat
  BY SequenceHas DEF Loads
<1>3. \A a \in 1..Len(l) : Slot(l[a], Len(g)) \/ (IsTypeTest(i) /\ a = 2)
  BY <1>1, SlotStays DEF Loads
<1>4. ASSUME i.op = "call", i.f = "__hulk_concat", Len(l) = 3
      PROVE  l[3].k = "ref" /\ g[l[3].v].tag = "String"
  <2>1. l[3].k = "ref" /\ h[l[3].v].tag = "String"
    BY <1>4 DEF Loads
  <2>2. Slot(l[3], Len(h))
    BY <1>2, <1>4 DEF Loads
  <2>3. l[3].v \in 1..Len(h)
    BY <2>1, <2>2 DEF Slot
  <2> QED
    BY <2>1, <2>3 DEF Grows
<1> QED
  BY <1>2, <1>3, <1>4 DEF Loads

\* And so does a call under way.
LEMMA FrameStays ==
  ASSUME NEW c, NEW h, NEW g, Grows(h, g), NEW f, FrameOK(c, f, h)
  PROVE  FrameOK(c, f, g)
<1>1. Loads(At(c, f), f.loaded, g)
  BY LoadsStay DEF FrameOK
<1>2. HasSlots(f, Len(g))
  BY SlotStays DEF FrameOK, HasSlots, Grows
<1> QED
  BY <1>1, <1>2 DEF FrameOK

\* An operand is loaded.
LEMMA FrameLoads ==
  ASSUME NEW c, NEW h, NEW g, Grows(h, g), NEW f, FrameOK(c, f, h),
         NEW l, Loads(At(c, f), l, g)
  PROVE  LET x == [f EXCEPT !.loaded = l]
         IN  /\ FrameOK(c, x, g) /\ Depth_(c, x) = Depth_(c, f)
             /\ x.fn = f.fn /\ x.base = f.base
<1> DEFINE x == [f EXCEPT !.loaded = l]
<1>1. f = [fn |-> f.fn, pc |-> f.pc, loaded |-> f.loaded, base |-> f.base, temps |-> f.temps]
  BY DEF FrameOK, IsFrame
<1>2. x = [fn |-> f.fn, pc |-> f.pc, loaded |-> l, base |-> f.base, temps |-> f.temps]
  BY <1>1
<1>3. FrameOK(c, f, g)
  BY FrameStays
<1> HIDE DEF x
<1>4. /\ x.fn = f.fn /\ x.pc = f.pc /\ x.loaded = l /\ x.base = f.base /\ x.temps = f.temps
      /\ IsFrame(x)
  BY <1>2 DEF IsFrame
<1>5. At(c, x) = At(c, f) /\ Depth_(c, x) = Depth_(c, f)
  BY <1>4 DEF At, Depth_
<1>6. Fills(c, x) /\ HasSlots(x, Len(g))
  BY <1>3, <1>4 DEF FrameOK, Fills, HasSlots
<1>7. FrameOK(c, x, g)
  BY <1>3, <1>4, <1>5, <1>6 DEF FrameOK
<1> QED
  BY <1>4, <1>5, <1>7 DEF x

\* An instruction of which nothing is loaded yet.
LEMMA NothingLoaded ==
  ASSUME NEW i, NEW h
  PROVE  Loads(i, <<>>, h)
<1>1. <<>> \in Seq({}) /\ Len(<<>>) = 0
  BY EmptySeq
<1>2. IsSeq(<<>>)
  BY <1>1, Sequence
<1> QED
  BY <1>1, <1>2 DEF Loads

\* The instruction is done, and whatever it computes is stored.
LEMMA FrameMoves ==
  ASSUME NEW c, IsLawful(c), NEW h, NEW g, Grows(h, g), NEW f, FrameOK(c, f, h),
         NEW q \in Successors(c.bodies[f.fn], f.pc),
         NEW T, DOMAIN f.temps \subseteq DOMAIN T, DOMAIN T \subseteq Nat,
         \A t \in DOMAIN T : Slot(T[t], Len(g)),
         At(c, f).op \in Producers => At(c, f).dst \in DOMAIN T
  PROVE  LET x == [fn |-> f.fn, pc |-> q, loaded |-> <<>>, base |-> f.base, temps |-> T]
         IN  FrameOK(c, x, g) /\ Depth_(c, x) = Depth_(c, f) + Change(At(c, f))
<1> DEFINE x == [fn |-> f.fn, pc |-> q, loaded |-> <<>>, base |-> f.base, temps |-> T]
           b == c.bodies[f.fn]
<1>1. f.fn \in DOMAIN c.bodies /\ f.pc \in 1..Len(b) /\ f.base \in Nat /\ Fills(c, f)
  BY DEF FrameOK
<1>2. /\ q \in 1..Len(b)
      /\ DepthAt(b, q) = DepthAt(b, f.pc) + Change(b[f.pc])
      /\ \A t \in Reads(b) : f.pc \in Before(b, t) => Writes(b, f.pc, t) \/ q \in Before(b, t)
  BY <1>1, AlongPaths
<1>3. /\ x.fn = f.fn /\ x.pc = q /\ x.loaded = <<>> /\ x.base = f.base /\ x.temps = T
      /\ IsFrame(x)
  BY DEF IsFrame
<1> HIDE DEF x
<1>4. Fills(c, x)
  <2> SUFFICES ASSUME NEW t \in Reads(b)
               PROVE  t \in DOMAIN T \/ (t \notin Inputs(b) /\ q \in Before(b, t))
    BY <1>3 DEF Fills
  <2>1. CASE t \in DOMAIN f.temps
    BY <2>1
  <2>2. CASE t \notin Inputs(b) /\ f.pc \in Before(b, t)
    BY <1>2, <2>2 DEF Writes, At
  <2> QED
    BY <1>1, <2>1, <2>2 DEF Fills
<1>5. HasSlots(x, Len(g))
  BY <1>3 DEF HasSlots
<1>6. Loads(At(c, x), x.loaded, g)
  BY <1>3, NothingLoaded
<1>7. FrameOK(c, x, g)
  BY <1>1, <1>2, <1>3, <1>4, <1>5, <1>6 DEF FrameOK
<1>8. DepthAt(b, f.pc) \in Nat /\ Change(b[f.pc]) \in Int
  BY <1>1, LawfulBody DEF Change
<1>9. Depth_(c, x) = Depth_(c, f) + Change(At(c, f))
  BY <1>1, <1>2, <1>3, <1>8 DEF Depth_, At
<1> QED
  BY <1>7, <1>9 DEF x

-----------------------------------------------------------------------------
(* The frames of the calls under way.                                      *)

\* What the frames have to do with each other does not depend on the heap.
LEMMA TopReplaced ==
  ASSUME NEW c, NEW h, NEW g, Grows(h, g), NEW fs, NEW d, StackOK(c, fs, h, d),
         Len(fs) > 0, NEW x, FrameOK(c, x, g),
         x.fn = fs[Len(fs)].fn, x.base = fs[Len(fs)].base
  PROVE  StackOK(c, [fs EXCEPT ![Len(fs)] = x], g, Depth_(c, x))
<1> DEFINE n  == Len(fs)
           gs == [fs EXCEPT ![n] = x]
<1>1. IsSeq(fs) /\ n \in Nat /\ n \in 1..n
  BY SequenceHas DEF StackOK
<1>2. IsSeq(gs) /\ Len(gs) = n /\ \A i \in 1..n : gs[i] = IF i = n THEN x ELSE fs[i]
  BY <1>1, Replaced
<1> HIDE DEF gs, n
<1>3. x.fn = fs[n].fn /\ x.base = fs[n].base
  BY DEF n
<1>4. \A i \in 1..n : FrameOK(c, fs[i], g)
  BY FrameStays DEF StackOK, n
<1>5. \A i \in 1..n : gs[i].fn = fs[i].fn /\ gs[i].base = fs[i].base /\ FrameOK(c, gs[i], g)
  BY <1>2, <1>3, <1>4
<1>6. \A i \in 1..n - 1 : gs[i] = fs[i] /\ gs[i + 1].base = fs[i + 1].base
  BY <1>1, <1>2, <1>5
<1>7. gs[n] = x /\ gs[1].base = fs[1].base
  BY <1>1, <1>2, <1>5
<1>8. StackOK(c, gs, g, Depth_(c, x))
  BY <1>1, <1>2, <1>5, <1>6, <1>7 DEF StackOK, n
<1> QED
  BY <1>8 DEF gs, n

\* A call.
LEMMA Entering ==
  ASSUME NEW c, IsLawful(c), NEW h, NEW fs, NEW d \in Nat, StackOK(c, fs, h, d),
         Len(fs) > 0, Waits(c, fs[Len(fs)]), NEW x, FrameOK(c, x, h),
         x.fn # MainName, x.base = d, Depth_(c, x) = d
  PROVE  StackOK(c, Append(fs, x), h, d)
<1> DEFINE n  == Len(fs)
           gs == Append(fs, x)
<1>1. IsSeq(fs) /\ n \in Nat /\ n \in 1..n
  BY SequenceHas DEF StackOK
<1>2. IsSeq(gs) /\ Len(gs) = n + 1 /\ (\A i \in 1..n : gs[i] = fs[i]) /\ gs[n + 1] = x
  BY <1>1, Appended
<1> HIDE DEF gs, n
<1>3. /\ \A i \in 1..n : FrameOK(c, fs[i], h) /\ (i > 1 => fs[i].fn # MainName)
      /\ \A i \in 1..n - 1 : Waits(c, fs[i]) /\ Depth_(c, fs[i]) = fs[i + 1].base
      /\ \A i, j \in 1..n : i <= j => fs[i].base <= fs[j].base
      /\ fs[1].base = 0 /\ Depth_(c, fs[n]) = d /\ Waits(c, fs[n])
  BY <1>1 DEF StackOK, n
<1>4. fs[n].base <= d
  <2>1. /\ fs[n].fn \in DOMAIN c.bodies /\ fs[n].pc \in 1..Len(c.bodies[fs[n].fn])
        /\ fs[n].base \in Nat
    BY <1>1, <1>3 DEF FrameOK
  <2>2. DepthAt(c.bodies[fs[n].fn], fs[n].pc) \in Nat
    BY <2>1, LawfulBody
  <2> QED
    BY <1>3, <2>1, <2>2 DEF Depth_
<1>5. \A i \in 1..n + 1 : FrameOK(c, gs[i], h)
  BY <1>1, <1>2, <1>3
<1>6. \A i \in 1..n + 1 : i > 1 => gs[i].fn # MainName
  BY <1>1, <1>2, <1>3
<1>7. ASSUME NEW i \in 1..n PROVE Waits(c, gs[i]) /\ Depth_(c, gs[i]) = gs[i + 1].base
  <2>1. CASE i = n
    BY <1>2, <1>3, <2>1
  <2>2. CASE i # n
    <3>1. i \in 1..n - 1 /\ i + 1 \in 1..n
      BY <1>1, <2>2
    <3> QED
      BY <1>2, <1>3, <3>1
  <2> QED
    BY <2>1, <2>2
<1>8. ASSUME NEW i \in 1..n + 1, NEW j \in 1..n + 1, i <= j PROVE gs[i].base <= gs[j].base
  <2>1. CASE j \in 1..n
    <3>1. i \in 1..n
      BY <1>1, <1>8, <2>1
    <3> QED
      BY <1>2, <1>3, <1>8, <2>1, <3>1
  <2>2. CASE i = n + 1 /\ j = n + 1
    BY <1>2, <2>2
  <2>3. CASE i \in 1..n /\ j = n + 1
    <3>1. fs[i].base <= fs[n].base /\ fs[i].base \in Nat /\ fs[n].base \in Nat
      BY <1>1, <1>3, <2>3 DEF FrameOK
    <3>2. gs[i].base = fs[i].base /\ gs[j].base = d
      BY <1>2, <2>3
    <3> QED
      BY <1>4, <3>1, <3>2
  <2> QED
    BY <1>1, <1>8, <2>1, <2>2, <2>3
<1>9. gs[1].base = 0 /\ Depth_(c, gs[n + 1]) = d
  BY <1>1, <1>2, <1>3
<1>10. Len(gs) - 1 = n /\ Len(gs) > 0 /\ Len(gs) = n + 1
  BY <1>1, <1>2
<1>11. StackOK(c, gs, h, d)
  <2>1. \A i \in 1..Len(gs) : FrameOK(c, gs[i], h) /\ (i > 1 => gs[i].fn # MainName)
    BY <1>5, <1>6, <1>10
  <2>2. \A i \in 1..Len(gs) - 1 : Waits(c, gs[i]) /\ Depth_(c, gs[i]) = gs[i + 1].base
    BY <1>7, <1>10
  <2>3. \A i, j \in 1..Len(gs) : i <= j => gs[i].base <= gs[j].base
    BY <1>8, <1>10
  <2>4. gs[1].base = 0 /\ Depth_(c, gs[Len(gs)]) = d
    BY <1>9, <1>10
  <2> QED
    BY <1>2, <2>1, <2>2, <2>3, <2>4 DEF StackOK
<1> QED
  BY <1>11 DEF gs

\* A return.
LEMMA Returning ==
  ASSUME NEW c, NEW h, NEW fs, NEW d, StackOK(c, fs, h, d), Len(fs) > 1,
         NEW x, FrameOK(c, x, h),
         x.fn = fs[Len(fs) - 1].fn, x.base = fs[Len(fs) - 1].base
  PROVE  StackOK(c, Append(SubSeq(fs, 1, Len(fs) - 2), x), h, Depth_(c, x))
<1> DEFINE n  == Len(fs)
           ms == SubSeq(fs, 1, n - 2)
           gs == Append(ms, x)
<1>1. IsSeq(fs) /\ n \in Nat /\ n > 1 /\ n - 2 \in Nat /\ n - 2 <= n
  BY SequenceHas DEF StackOK
<1>2. IsSeq(ms) /\ Len(ms) = n - 2 /\ \A i \in 1..n - 2 : ms[i] = fs[i]
  BY <1>1, Beginning
<1> HIDE DEF ms
<1>3. /\ IsSeq(gs) /\ Len(gs) = Len(ms) + 1
      /\ \A i \in 1..Len(ms) : gs[i] = ms[i]
      /\ gs[Len(ms) + 1] = x
  BY <1>2, Appended
<1> HIDE DEF gs, n
<1>4. n - 2 + 1 = n - 1
  BY <1>1
<1>5. IsSeq(gs) /\ Len(gs) = n - 1 /\ (\A i \in 1..n - 2 : gs[i] = fs[i]) /\ gs[n - 1] = x
  BY <1>2, <1>3, <1>4
<1>6. /\ \A i \in 1..n : FrameOK(c, fs[i], h) /\ (i > 1 => fs[i].fn # MainName)
      /\ \A i \in 1..n - 1 : Waits(c, fs[i]) /\ Depth_(c, fs[i]) = fs[i + 1].base
      /\ \A i, j \in 1..n : i <= j => fs[i].base <= fs[j].base
      /\ fs[1].base = 0
  BY <1>1 DEF StackOK, n
<1>7. x.fn = fs[n - 1].fn /\ x.base = fs[n - 1].base
  BY DEF n
<1>8. \A i \in 1..n - 1 : i \in 1..n /\ (i = n - 1 \/ i \in 1..n - 2)
  BY <1>1
<1>9. \A i \in 1..n - 1 : gs[i].fn = fs[i].fn /\ gs[i].base = fs[i].base /\ FrameOK(c, gs[i], h)
  BY <1>5, <1>6, <1>7, <1>8
<1>10. ASSUME NEW i \in 1..n - 1 - 1
       PROVE  Waits(c, gs[i]) /\ Depth_(c, gs[i]) = gs[i + 1].base
  <2>1. i \in 1..n - 2 /\ i \in 1..n - 1 /\ i + 1 \in 1..n - 1
    BY <1>1
  <2> QED
    BY <1>5, <1>6, <1>9, <2>1
<1>11. gs[1].base = 0
  <2>1. 1 \in 1..n - 1
    BY <1>1
  <2> QED
    BY <1>6, <1>9, <2>1
<1>12. StackOK(c, gs, h, Depth_(c, x))
  BY <1>5, <1>6, <1>8, <1>9, <1>10, <1>11 DEF StackOK
<1> QED
  BY <1>12 DEF gs, ms, n

\* A program that has ended has no calls.
LEMMA NoCalls ==
  ASSUME NEW c, NEW h, NEW d
  PROVE  StackOK(c, <<>>, h, d)
<1>1. <<>> \in Seq({}) /\ Len(<<>>) = 0
  BY EmptySeq
<1>2. IsSeq(<<>>)
  BY <1>1, Sequence
<1> QED
  BY <1>1, <1>2 DEF StackOK

-----------------------------------------------------------------------------
(* What a step does to the innermost frame.                                *)

\* The instruction under way.
LEMMA UnderWay ==
  ASSUME LawfulOnes, IInv, Running
  PROVE  /\ IsLawful(code) /\ IsSeq(frames) /\ Len(frames) \in Nat /\ Len(frames) > 0
         /\ Frame = frames[Len(frames)] /\ FrameOK(code, Frame, heap)
         /\ Depth_(code, Frame) = Len(shadow) /\ Len(shadow) \in Nat
         /\ Body = code.bodies[Frame.fn] /\ Instr = At(code, Frame)
         /\ HasShape(Instr) /\ CallsFit(code, Instr)
<1>1. IsLawful(code)
  BY DEF LawfulOnes, IInv, code
<1>2. IsSeq(frames) /\ Len(frames) \in Nat /\ Len(frames) > 0 /\ StackOK(code, frames, heap, Len(shadow))
  BY SequenceHas DEF IInv, StackOK, Running
<1>3. Frame = frames[Len(frames)]
  BY DEF Frame, Last
<1>4. FrameOK(code, Frame, heap) /\ Depth_(code, Frame) = Len(shadow)
  BY <1>2, <1>3 DEF StackOK
<1>5. Body = code.bodies[Frame.fn] /\ Instr = At(code, Frame)
  BY DEF Body, Instr, At
<1>6. Frame.fn \in DOMAIN code.bodies /\ Frame.pc \in 1..Len(code.bodies[Frame.fn])
  BY <1>4 DEF FrameOK
<1>7. HasShape(Instr) /\ CallsFit(code, Instr)
  BY <1>1, <1>5, <1>6, LawfulBody DEF At
<1>8. Len(shadow) \in Nat
  BY SequenceHas DEF IInv, ShadowOK
<1> QED
  BY <1>1, <1>2, <1>3, <1>4, <1>5, <1>7, <1>8

\* An instruction that ends by going on at one of its successors preserves the
\* invariant: the depth of the shadow stack is what the place it goes to wants,
\* and what has no value yet is still ahead there.
LEMMA Moving ==
  ASSUME LawfulOnes, IInv, Running,
         NEW q \in Successors(Body, Frame.pc),
         NEW T, DOMAIN Frame.temps \subseteq DOMAIN T, DOMAIN T \subseteq Nat,
         \A t \in DOMAIN T : Slot(T[t], Len(heap')),
         Instr.op \in Producers => Instr.dst \in DOMAIN T,
         SetFrame([fn |-> Frame.fn, pc |-> q, loaded |-> <<>>, base |-> Frame.base,
                   temps |-> T]),
         exe' = exe, ShadowOK(shadow'), Len(shadow') = Len(shadow) + Change(Instr),
         HeapOK(code, heap'), Grows(heap, heap')
  PROVE  IInv'
<1> DEFINE x == [fn |-> Frame.fn, pc |-> q, loaded |-> <<>>, base |-> Frame.base, temps |-> T]
<1>1. /\ IsLawful(code) /\ IsSeq(frames) /\ Len(frames) \in Nat /\ Len(frames) > 0
      /\ Frame = frames[Len(frames)] /\ FrameOK(code, Frame, heap)
      /\ Depth_(code, Frame) = Len(shadow)
      /\ Body = code.bodies[Frame.fn] /\ Instr = At(code, Frame)
  BY UnderWay
<1>2. FrameOK(code, x, heap') /\ Depth_(code, x) = Depth_(code, Frame) + Change(At(code, Frame))
  BY <1>1, FrameMoves
<1>3. x.fn = Frame.fn /\ x.base = Frame.base
  OBVIOUS
<1>4. frames' = [frames EXCEPT ![Len(frames)] = x]
  BY DEF SetFrame
<1> HIDE DEF x
<1>5. StackOK(code, frames', heap', Depth_(code, x))
  BY <1>1, <1>2, <1>3, <1>4, TopReplaced DEF IInv
<1>6. Depth_(code, x) = Len(shadow')
  BY <1>1, <1>2
<1>7. Len(frames') > 0 /\ frames' # <<>>
  BY <1>1, <1>4, <1>5, Replaced, SequenceHas
<1>8. code' = code
  BY DEF code
<1> QED
  BY <1>5, <1>6, <1>7, <1>8 DEF IInv, Running

\* The next instruction is on a path of the body.
LEMMA NextIsAhead ==
  ASSUME LawfulOnes, IInv, Running, Instr.op \notin {"jump", "return"}
  PROVE  Frame.pc + 1 \in Successors(Body, Frame.pc)
BY DEF Successors, Instr

\* A frame whose instruction is done.
LEMMA FrameUpdated ==
  ASSUME NEW f, IsFrame(f), NEW q, NEW T
  PROVE  /\ [f EXCEPT !.pc = q, !.loaded = <<>>, !.temps = T]
              = [fn |-> f.fn, pc |-> q, loaded |-> <<>>, base |-> f.base, temps |-> T]
         /\ [f EXCEPT !.pc = q, !.loaded = <<>>]
              = [fn |-> f.fn, pc |-> q, loaded |-> <<>>, base |-> f.base, temps |-> f.temps]
         /\ [f EXCEPT !.loaded = <<>>, !.pc = q]
              = [fn |-> f.fn, pc |-> q, loaded |-> <<>>, base |-> f.base, temps |-> f.temps]
<1>1. PICK a, b, l, s, t, e :
        /\ f = [fn |-> a, pc |-> b, loaded |-> l, base |-> s, temps |-> t]
        /\ a = f.fn /\ s = f.base /\ t = f.temps /\ e = <<>>
  BY DEF IsFrame
<1>2. f = [fn |-> a, pc |-> b, loaded |-> l, base |-> s, temps |-> t]
  BY <1>1
<1> DEFINE x == [f EXCEPT !.pc = q]
           y == [x EXCEPT !.loaded = e]
           z == [y EXCEPT !.temps = T]
           w == [f EXCEPT !.loaded = e]
           u == [w EXCEPT !.pc = q]
<1>3. x = [fn |-> a, pc |-> q, loaded |-> l, base |-> s, temps |-> t]
  BY <1>2
<1>4. w = [fn |-> a, pc |-> b, loaded |-> e, base |-> s, temps |-> t]
  BY <1>2
<1>5. /\ z = [f EXCEPT !.pc = q, !.loaded = e, !.temps = T]
      /\ y = [f EXCEPT !.pc = q, !.loaded = e]
      /\ u = [f EXCEPT !.loaded = e, !.pc = q]
  BY <1>2
<1> HIDE DEF x, w
<1>6. y = [fn |-> a, pc |-> q, loaded |-> e, base |-> s, temps |-> t]
  BY <1>3
<1>7. u = [fn |-> a, pc |-> q, loaded |-> e, base |-> s, temps |-> t]
  BY <1>4
<1> HIDE DEF y, u
<1>8. z = [fn |-> a, pc |-> q, loaded |-> e, base |-> s, temps |-> T]
  BY <1>6
<1> HIDE DEF z
<1> QED
  BY <1>1, <1>5, <1>6, <1>7, <1>8

\* What Continue and GoTo make of a frame, written as a record.
LEMMA FrameAdvanced ==
  ASSUME NEW f, IsFrame(f), NEW q
  PROVE  /\ [f EXCEPT !.pc = q, !.loaded = <<>>]
              = [fn |-> f.fn, pc |-> q, loaded |-> <<>>, base |-> f.base, temps |-> f.temps]
         /\ [f EXCEPT !.loaded = <<>>, !.pc = q]
              = [fn |-> f.fn, pc |-> q, loaded |-> <<>>, base |-> f.base, temps |-> f.temps]
<1> PICK T : T = f.temps
  OBVIOUS
<1> QED
  BY FrameUpdated

\* The call under way is a record of the five fields.
LEMMA FrameIsRecord ==
  ASSUME LawfulOnes, IInv, Running
  PROVE  IsFrame(Frame)
BY UnderWay DEF FrameOK

\* An instruction that stores what it computes.
LEMMA Defining ==
  ASSUME LawfulOnes, IInv, Running, Instr.op \in Producers,
         NEW v, Slot(v, Len(heap')), Define(v),
         HeapOK(code, heap'), Grows(heap, heap'), exe' = exe, shadow' = shadow
  PROVE  IInv'
<1> DEFINE T == Stored(Frame.temps, Instr.dst, v)
<1>1. FrameOK(code, Frame, heap) /\ HasShape(Instr) /\ Len(shadow) \in Nat
  BY UnderWay
<1>2. Instr.dst \in Nat
  BY <1>1 DEF HasShape
<1>3. DOMAIN T = DOMAIN Frame.temps \cup {Instr.dst}
  BY DEF Stored
<1>4. \A t \in DOMAIN T : T[t] = IF t = Instr.dst THEN v ELSE Frame.temps[t]
  BY DEF Stored
<1>5. DOMAIN Frame.temps \subseteq Nat /\ \A t \in DOMAIN Frame.temps : Slot(Frame.temps[t], Len(heap'))
  BY <1>1, SlotStays DEF FrameOK, HasSlots, Grows
<1>6. SetFrame([fn |-> Frame.fn, pc |-> Frame.pc + 1, loaded |-> <<>>, base |-> Frame.base,
                temps |-> T])
  <2> DEFINE x == [Frame EXCEPT !.pc = Frame.pc + 1, !.loaded = <<>>,
                                !.temps = Stored(Frame.temps, Instr.dst, v)]
  <2>1. SetFrame(x)
    BY DEF Define
  <2>2. x = [fn |-> Frame.fn, pc |-> Frame.pc + 1, loaded |-> <<>>, base |-> Frame.base,
             temps |-> Stored(Frame.temps, Instr.dst, v)]
    BY FrameIsRecord, FrameUpdated
  <2> HIDE DEF x
  <2> QED
    BY <2>1, <2>2
<1> HIDE DEF T
<1>7. Change(Instr) = 0 /\ Instr.op \notin {"jump", "return"}
  BY DEF Change, Producers, Calls
<1>8. ShadowOK(shadow') /\ Len(shadow') = Len(shadow) + Change(Instr)
  BY <1>1, <1>7 DEF IInv
<1>9. Frame.pc + 1 \in Successors(Body, Frame.pc)
  BY <1>7, NextIsAhead
<1> QED
  BY <1>2, <1>3, <1>4, <1>5, <1>6, <1>8, <1>9, Moving

\* An instruction that stores nothing, and where it may lead.
LEMMA Passing_ ==
  ASSUME LawfulOnes, IInv, Running, Instr.op \notin Producers,
         NEW q \in Successors(Body, Frame.pc),
         SetFrame([Frame EXCEPT !.pc = q, !.loaded = <<>>]),
         HeapOK(code, heap'), Grows(heap, heap'), exe' = exe,
         ShadowOK(shadow'), Len(shadow') = Len(shadow) + Change(Instr)
  PROVE  IInv'
<1> DEFINE T == Frame.temps
<1>1. FrameOK(code, Frame, heap)
  BY UnderWay
<1>2. DOMAIN T \subseteq Nat /\ \A t \in DOMAIN T : Slot(T[t], Len(heap'))
  BY <1>1, SlotStays DEF FrameOK, HasSlots, Grows
<1>3. SetFrame([fn |-> Frame.fn, pc |-> q, loaded |-> <<>>, base |-> Frame.base, temps |-> T])
  <2> DEFINE x == [Frame EXCEPT !.pc = q, !.loaded = <<>>]
  <2>1. SetFrame(x)
    OBVIOUS
  <2>2. x = [fn |-> Frame.fn, pc |-> q, loaded |-> <<>>, base |-> Frame.base,
             temps |-> Frame.temps]
    BY FrameIsRecord, FrameUpdated
  <2> HIDE DEF x
  <2> QED
    BY <2>1, <2>2
<1> HIDE DEF T
<1> QED
  BY <1>2, <1>3, Moving DEF T

\* An instruction that stores nothing and goes on to the next one.
LEMMA Continuing ==
  ASSUME LawfulOnes, IInv, Running, Instr.op \notin Producers \cup {"jump", "return"},
         Continue, HeapOK(code, heap'), Grows(heap, heap'), exe' = exe,
         ShadowOK(shadow'), Len(shadow') = Len(shadow) + Change(Instr)
  PROVE  IInv'
<1>1. Frame.pc + 1 \in Successors(Body, Frame.pc)
  BY NextIsAhead
<1>2. SetFrame([Frame EXCEPT !.pc = Frame.pc + 1, !.loaded = <<>>])
  BY FrameIsRecord DEF Continue
<1> QED
  BY <1>1, <1>2, Passing_

\* A jump: there is a label of that name.
LEMMA Going ==
  ASSUME LawfulOnes, IInv, Running, Instr.op \in {"jump", "jumpif"}, GoTo(Instr.to),
         exe' = exe, heap' = heap, shadow' = shadow
  PROVE  IInv'
<1> DEFINE q == CHOOSE i \in 1..Len(Body) : IsLabel(Body, i, Instr.to)
<1>1. IsLawful(code) /\ FrameOK(code, Frame, heap) /\ Body = code.bodies[Frame.fn]
      /\ Len(shadow) \in Nat
  BY UnderWay
<1>2. Frame.fn \in DOMAIN code.bodies /\ Frame.pc \in 1..Len(Body)
  BY <1>1 DEF FrameOK
<1>3. HasTargets(Body)
  BY <1>1, <1>2 DEF IsLawful, IsBody
<1>4. \E i \in 1..Len(Body) : IsLabel(Body, i, Instr.to)
  BY <1>2, <1>3 DEF HasTargets, Instr
<1>5. q \in 1..Len(Body) /\ IsLabel(Body, q, Instr.to)
  BY <1>4
<1>6. SetFrame([Frame EXCEPT !.pc = q, !.loaded = <<>>])
  <2>1. ASSUME NEW p
        PROVE  [Frame EXCEPT !.loaded = <<>>, !.pc = p] = [Frame EXCEPT !.pc = p, !.loaded = <<>>]
    <3>1. IsFrame(Frame)
      BY FrameIsRecord
    <3> HIDE DEF q
    <3> QED
      BY <3>1, FrameAdvanced, Zenon
  <2>2. SetFrame([Frame EXCEPT !.loaded = <<>>, !.pc = q])
    BY DEF GoTo
  <2> QED
    BY <2>1, <2>2
<1> HIDE DEF q
<1>7. q \in Successors(Body, Frame.pc)
  BY <1>5 DEF Successors, Instr
<1>8. Instr.op \notin Producers /\ Change(Instr) = 0
  BY DEF Producers, Calls, Change
<1>9. HeapOK(code, heap') /\ Grows(heap, heap')
  BY GrowsNot DEF IInv, HeapOK
<1>10. ShadowOK(shadow') /\ Len(shadow') = Len(shadow) + Change(Instr)
  BY <1>1, <1>8 DEF IInv
<1> QED
  BY <1>6, <1>7, <1>8, <1>9, <1>10, Passing_

\* An operand is loaded.
LEMMA Loading ==
  ASSUME LawfulOnes, IInv, Running, NEW l, Loads(Instr, l, heap'),
         SetFrame([Frame EXCEPT !.loaded = l]),
         HeapOK(code, heap'), Grows(heap, heap'), exe' = exe, shadow' = shadow
  PROVE  IInv'
<1> DEFINE x == [Frame EXCEPT !.loaded = l]
<1>1. /\ IsLawful(code) /\ IsSeq(frames) /\ Len(frames) \in Nat /\ Len(frames) > 0
      /\ Frame = frames[Len(frames)] /\ FrameOK(code, Frame, heap)
      /\ Depth_(code, Frame) = Len(shadow) /\ Instr = At(code, Frame)
  BY UnderWay
<1>2. /\ FrameOK(code, x, heap') /\ Depth_(code, x) = Depth_(code, Frame)
      /\ x.fn = Frame.fn /\ x.base = Frame.base
  BY <1>1, FrameLoads
<1>3. frames' = [frames EXCEPT ![Len(frames)] = x]
  BY DEF SetFrame
<1> HIDE DEF x
<1>4. StackOK(code, frames', heap', Len(shadow'))
  <2>1. StackOK(code, frames, heap, Len(shadow))
    BY DEF IInv
  <2>2. StackOK(code, [frames EXCEPT ![Len(frames)] = x], heap', Depth_(code, x))
    BY <1>1, <1>2, <2>1, TopReplaced
  <2> QED
    BY <1>1, <1>2, <1>3, <2>2
<1>5. frames' # <<>>
  BY <1>1, <1>3, <1>4, Replaced, SequenceHas
<1>6. code' = code
  BY DEF code
<1> QED
  BY <1>4, <1>5, <1>6 DEF IInv, Running

-----------------------------------------------------------------------------
(* Operands and results.                                                   *)

\* How many operands lawful instructions have.
LEMMA Counted ==
  ASSUME NEW i, HasShape(i)
  PROVE  /\ Len(i.args) \in Nat
         /\ i.op \in {"copy", "un", "get", "jumpif", "return", "push"} => Len(i.args) = 1
         /\ i.op \in {"bin", "set", "getindex"} => Len(i.args) = 2
         /\ i.op = "setindex" => Len(i.args) = 3
         /\ i.op = "method" => Len(i.args) >= 1
         /\ i.op = "call" /\ i.f \in {"print", "hulk_number_to_string", "__vec_new", "__arr_new",
                                      "__objarr_new"} => Len(i.args) = 1
         /\ i.op = "call" /\ i.f \in {"range", "__hulk_concat", "__hulk_str_eq", "__hulk_is",
                                      "__hulk_as", "__vec_push"} => Len(i.args) = 2
<1>1. HasOperands(i) /\ Len(i.args) \in Nat
  BY LenProperties DEF HasShape
<1>2. /\ i.op \in {"copy", "un", "get", "jumpif", "return", "push"} => Len(i.args) = 1
      /\ i.op \in {"bin", "set", "getindex"} => Len(i.args) = 2
      /\ i.op = "setindex" => Len(i.args) = 3
      /\ i.op = "method" => Len(i.args) >= 1
      /\ i.op = "call" /\ i.f \in Runtime => Len(i.args) = Takes(i.f)
  BY <1>1 DEF HasOperands
<1>3. /\ \A f \in {"print", "hulk_number_to_string", "__vec_new", "__arr_new", "__objarr_new"} :
           f \in Runtime /\ Takes(f) = 1
      /\ \A f \in {"range", "__hulk_concat", "__hulk_str_eq", "__hulk_is", "__hulk_as",
                   "__vec_push"} : f \in Runtime /\ Takes(f) = 2
  BY DEF Runtime, Takes
<1> QED
  BY <1>1, <1>2, <1>3

\* What has been loaded when an instruction is executed.
LEMMA Executed ==
  ASSUME LawfulOnes, IInv, NEW op, Executing(op)
  PROVE  /\ Running /\ Instr.op = op
         /\ IsSeq(Loaded) /\ Len(Loaded) \in Nat /\ Len(Instr.args) \in Nat
         /\ op \notin {"new", "return"} => Len(Loaded) = Len(Instr.args)
         /\ op = "new" => Len(Loaded) = Len(Instr.args) + 1
         /\ op = "return" /\ Frame.fn # MainName => Len(Loaded) = Len(Instr.args)
         /\ \A a \in 1..Len(Loaded) :
              Slot(Loaded[a], Len(heap)) \/ (IsTypeTest(Instr) /\ a = 2)
<1>1. Running /\ Instr.op = op /\ NextIndex = Operands + 1
  BY DEF Executing
<1>2. FrameOK(code, Frame, heap) /\ Instr = At(code, Frame) /\ HasShape(Instr)
  BY <1>1, UnderWay
<1>3. Loads(Instr, Loaded, heap)
  BY <1>2 DEF FrameOK, Loaded
<1>4. IsSeq(Loaded) /\ Len(Loaded) \in Nat
  BY <1>3, SequenceHas DEF Loads
<1>5. \A a \in 1..Len(Loaded) : Slot(Loaded[a], Len(heap)) \/ (IsTypeTest(Instr) /\ a = 2)
  BY <1>3 DEF Loads
<1>6. Len(Instr.args) \in Nat
  BY <1>2, Counted
<1>7. op \notin {"new", "return"} => Len(Loaded) = Len(Instr.args)
  BY <1>1, <1>4, <1>6 DEF NextIndex, Operands
<1>8. op = "new" => Len(Loaded) = Len(Instr.args) + 1
  BY <1>1, <1>4, <1>6 DEF NextIndex, Operands
<1>9. op = "return" /\ Frame.fn # MainName => Len(Loaded) = Len(Instr.args)
  BY <1>1, <1>4, <1>6 DEF NextIndex, Operands
<1> QED
  BY <1>1, <1>4, <1>5, <1>6, <1>7, <1>8, <1>9

\* Numbers, bits and NULL are what a slot can hold.
LEMMA SlotsOfNumbers ==
  ASSUME NEW count
  PROVE  /\ \A n \in Int : Slot(Num(n), count)
         /\ \A b : Slot(Bit(b), count)
         /\ Slot(Null, count)
<1>1. \A n \in Int : Slot(Num(n), count)
  BY DEF Slot, Num
<1>2. \A b : Slot(Bit(b), count)
  BY <1>1 DEF Bit
<1>3. Slot(Null, count)
  BY DEF Slot, Null
<1> QED
  BY <1>1, <1>2, <1>3

\* What is left of a quotient is a number, whatever is divided.
LEMMA QuotientIsNumber ==
  ASSUME NEW l \in Int, NEW r \in Int
  PROVE  Quotient(l, r) \in Int
<1> DEFINE size == IF r = 0 THEN 0 ELSE Magnitude(l) \div Magnitude(r)
<1>1. size \in Int
  <2>1. CASE r = 0
    BY <2>1
  <2>2. CASE r # 0
    <3>1. Magnitude(l) \in Int /\ Magnitude(r) \in Int /\ Magnitude(r) > 0
      BY <2>2 DEF Magnitude
    <3>2. PICK m \in Int, n \in Int : m = Magnitude(l) /\ n = Magnitude(r) /\ n > 0
      BY <3>1
    <3>3. m \div n \in Int
      BY <3>2
    <3> QED
      BY <2>2, <3>2, <3>3
  <2> QED
    BY <2>1, <2>2
<1>2. Quotient(l, r) \in {size, 0 - size}
  BY DEF Quotient
<1> HIDE DEF size
<1> QED
  BY <1>1, <1>2

\* A power is a number: it is multiplied together one factor after the other.
LEMMA PowerIsNumber ==
  ASSUME NEW l \in Int, NEW r \in Int
  PROVE  Power(l, r) \in Int
<1> DEFINE product == CHOOSE f : f = [n \in 0..Magnitude(r) |->
                                        IF n = 0 THEN 1 ELSE l * f[n - 1]]
           step    == [n \in 1..Magnitude(r) |-> [m \in Int |-> l * m]]
<1>1. PICK N \in Nat : N = Magnitude(r)
  BY DEF Magnitude
<1>2. step \in Steps(N, Int)
  BY <1>1 DEF Steps
<1>3. \A n \in 1..N : \A m \in Int : step[n][m] = l * m
  BY <1>1
<1>4. product = [n \in 0..N |-> IF n = 0 THEN 1 ELSE l * product[n - 1]]
  <2> HIDE DEF step
  <2>1. 1 \in Int
    OBVIOUS
  <2>2. PICK f \in [0..N -> Int] : Follows(f, N, 1, step)
    BY <1>1, <1>2, <2>1, Recursion
  <2>3. \A n \in 0..N : f[n] = IF n = 0 THEN 1 ELSE l * f[n - 1]
    <3>1. SUFFICES ASSUME NEW n \in 0..N, n # 0 PROVE f[n] = l * f[n - 1]
      BY <2>2 DEF Follows
    <3>2. n \in 1..N /\ f[n] = step[n][f[n - 1]] /\ f[n - 1] \in Int
      BY <1>1, <2>2, <3>1 DEF Follows
    <3> QED
      BY <1>3, <3>2
  <2>4. f = [n \in 0..N |-> IF n = 0 THEN 1 ELSE l * f[n - 1]]
    BY <2>3
  <2> QED
    BY <1>1, <2>4
<1> HIDE DEF product, step
<1>6. /\ product[0] \in Int
      /\ \A n \in 1..N : product[n - 1] \in Int => product[n] \in Int
  BY <1>1, <1>4
<1>7. product[N] \in Int
  <2>1. \A n \in 0..N : product[n] \in Int
    BY <1>1, <1>6, Onward
  <2> QED
    BY <1>1, <2>1
<1>8. Power(l, r) \in {Quotient(1, product[N]), product[N]}
  BY <1>1 DEF Power, product
<1>9. Quotient(1, product[N]) \in Int
  <2>1. \A m, n \in Int : Quotient(m, n) \in Int
    BY QuotientIsNumber
  <2>2. 1 \in Int
    OBVIOUS
  <2> QED
    BY <1>7, <2>1, <2>2
<1> QED
  BY <1>7, <1>8, <1>9

\* And so is the result of every operator.
LEMMA SlotOfOperation ==
  ASSUME NEW count, NEW op \in Operators, NEW l, NEW r, Slot(l, count), Slot(r, count)
  PROVE  Slot(Computed(op, l, r), count)
<1>1. PICK a \in Int : a = l.v
  BY DEF Slot
<1>2. PICK b \in Int : b = r.v
  BY DEF Slot
<1>3. a + b \in Int /\ a - b \in Int /\ a * b \in Int
  OBVIOUS
<1>8. CASE op = "/"
  <2>1. Computed(op, l, r) = Num(Quotient(a, b))
    BY <1>1, <1>2, <1>8 DEF Computed
  <2> QED
    BY <2>1, QuotientIsNumber, SlotsOfNumbers
<1>9. CASE op = "%"
  <2>1. Computed(op, l, r) = Num(Remainder(a, b))
    BY <1>1, <1>2, <1>9 DEF Computed
  <2>2. Remainder(a, b) \in Int
    BY QuotientIsNumber DEF Remainder
  <2> QED
    BY <2>1, <2>2, SlotsOfNumbers
<1>10. CASE op = "^"
  <2>1. Computed(op, l, r) = Num(Power(a, b))
    BY <1>1, <1>2, <1>10 DEF Computed
  <2> QED
    BY <2>1, PowerIsNumber, SlotsOfNumbers
<1>4. CASE op = "+"
  BY <1>1, <1>2, <1>3, <1>4, SlotsOfNumbers DEF Computed
<1>5. CASE op = "-"
  BY <1>1, <1>2, <1>3, <1>5, SlotsOfNumbers DEF Computed
<1>6. CASE op \in {"*", "&"}
  <2>1. Computed(op, l, r) = Num(l.v * r.v)
    BY <1>6 DEF Computed
  <2> QED
    BY <1>1, <1>2, <1>3, <2>1, SlotsOfNumbers
<1>7. CASE op \in {"<", "<=", ">", ">=", "==", "!=", "|"}
  <2>1. \E c : Computed(op, l, r) = Bit(c)
    BY <1>7 DEF Computed
  <2> QED
    BY <2>1, SlotsOfNumbers
<1> QED
  BY <1>4, <1>5, <1>6, <1>7, <1>8, <1>9, <1>10 DEF Operators

\* The heap as it is, in the form the lemmas below ask for.
LEMMA HeapNow ==
  ASSUME IInv
  PROVE  /\ HeapOK(code, heap) /\ Grows(heap, heap) /\ Len(heap) \in Nat
         /\ DOMAIN heap = 1..Len(heap)
         /\ \A o \in 1..Len(heap) : ObjectOK(code, heap[o], Len(heap))
BY GrowsNot, SequenceHas DEF IInv, HeapOK

\* An instruction that only computes.
LEMMA Computing ==
  ASSUME LawfulOnes, IInv, Running, Instr.op \in Producers, NEW v, Slot(v, Len(heap)),
         Define(v), exe' = exe, heap' = heap, shadow' = shadow
  PROVE  IInv'
<1>1. Slot(v, Len(heap')) /\ HeapOK(code, heap') /\ Grows(heap, heap')
  BY HeapNow
<1> QED
  BY <1>1, Defining

\* An allocation, preceded by a collection or not.
LEMMA NewObjects ==
  ASSUME LawfulOnes, IInv, NEW h \in Heaps, NEW tag, NEW words, Allocate(h, tag, words),
         ObjectOK(code, [tag |-> tag, words |-> words, live |-> TRUE], Len(heap) + 1)
  PROVE  /\ HeapOK(code, heap') /\ Grows(heap, heap') /\ Len(heap') = Len(heap) + 1
         /\ Slot(NewObject, Len(heap')) /\ heap'[NewObject.v].tag = tag
<1> DEFINE x == [tag |-> tag, words |-> words, live |-> TRUE]
<1>1. HeapOK(code, heap) /\ Len(heap) \in Nat
  BY HeapNow
<1>2. HeapOK(code, h) /\ Len(h) = Len(heap) /\ Grows(heap, h)
  BY <1>1, Collecting
<1>3. heap' = Append(h, x)
  BY DEF Allocate
<1>4. x.tag = tag
  OBVIOUS
<1> HIDE DEF x
<1>5. ObjectOK(code, x, Len(h) + 1)
  BY <1>2 DEF x
<1>6. /\ HeapOK(code, heap') /\ Grows(h, heap')
      /\ Len(heap') = Len(h) + 1 /\ heap'[Len(h) + 1] = x
  BY <1>2, <1>3, <1>5, Allocating
<1>7. Grows(heap, heap')
  BY <1>1, <1>2, <1>6 DEF Grows
<1>8. Slot(NewObject, Len(heap')) /\ NewObject.v = Len(heap) + 1
  BY <1>1, <1>2, <1>6 DEF NewObject, Slot, Ref
<1> QED
  BY <1>2, <1>4, <1>6, <1>7, <1>8

\* Strings say nothing that is relied on here.
LEMMA StringsAreOK ==
  ASSUME LawfulOnes, IInv, Running, NEW words, NEW count
  PROVE  ObjectOK(code, [tag |-> "String", words |-> words, live |-> TRUE], count)
<1>1. "String" \notin DOMAIN code.types
  BY UnderWay DEF IsLawful, RuntimeTags
<1> QED
  BY <1>1 DEF ObjectOK

\* An allocation whose object is the result.
LEMMA Making ==
  ASSUME LawfulOnes, IInv, Running, Instr.op \in Producers, NEW h \in Heaps,
         NEW tag, NEW words, Allocate(h, tag, words),
         ObjectOK(code, [tag |-> tag, words |-> words, live |-> TRUE], Len(heap) + 1),
         Define(NewObject), exe' = exe, shadow' = shadow
  PROVE  IInv'
<1>1. HeapOK(code, heap') /\ Grows(heap, heap') /\ Slot(NewObject, Len(heap'))
  BY NewObjects
<1> QED
  BY <1>1, Defining

\* A write to one word of an object.
LEMMA WordWritten ==
  ASSUME LawfulOnes, IInv, NEW o \in 1..Len(heap), NEW f \in DOMAIN heap[o].words, NEW v,
         heap' = [heap EXCEPT ![o].words[f] = v],
         heap[o].tag \in DOMAIN code.types \cup {"Range"} => Slot(v, Len(heap)),
         heap[o].tag = "Vector" /\ f = "pos" => Slot(v, Len(heap)),
         heap[o].tag \in {"Vector", "ObjArray"} /\ f = "items" => HoldsSlots(v, Len(heap))
  PROVE  HeapOK(code, heap') /\ Grows(heap, heap') /\ Len(heap') = Len(heap)
<1> DEFINE n == Len(heap)
           w == [heap[o].words EXCEPT ![f] = v]
           x == [tag |-> heap[o].tag, words |-> w, live |-> heap[o].live]
<1>1. HeapOK(code, heap) /\ ObjectOK(code, heap[o], n)
  BY HeapNow
<1>2. heap' = [heap EXCEPT ![o].words = w]
  OBVIOUS
<1>3. DOMAIN w = DOMAIN heap[o].words
      /\ \A k \in DOMAIN w : w[k] = IF k = f THEN v ELSE heap[o].words[k]
  OBVIOUS
<1>4. x.tag = heap[o].tag /\ x.words = w /\ x = [tag |-> x.tag, words |-> x.words, live |-> x.live]
  OBVIOUS
<1> HIDE DEF x, w, n
<1>5. ObjectOK(code, x, n)
  <2>1. x.tag \in DOMAIN code.types => \A k \in DOMAIN x.words : Slot(x.words[k], n)
    BY <1>1, <1>3, <1>4 DEF ObjectOK, n
  <2>2. x.tag = "Range" => DOMAIN x.words = {"current", "max"} /\ Slot(x.words["current"], n)
    BY <1>1, <1>3, <1>4 DEF ObjectOK, n
  <2>3. x.tag = "Vector" => /\ DOMAIN x.words = {"pos", "items"} /\ Slot(x.words["pos"], n)
                            /\ HoldsSlots(x.words["items"], n)
    BY <1>1, <1>3, <1>4 DEF ObjectOK, n
  <2>4. x.tag = "ObjArray" => DOMAIN x.words = {"items"} /\ HoldsSlots(x.words["items"], n)
    BY <1>1, <1>3, <1>4 DEF ObjectOK, n
  <2> QED
    BY <1>4, <2>1, <2>2, <2>3, <2>4 DEF ObjectOK
<1>6. LET g == [heap EXCEPT ![o].words = w]
      IN  HeapOK(code, g) /\ Grows(heap, g) /\ Len(g) = Len(heap)
  <2>1. ObjectOK(code, [tag |-> heap[o].tag, words |-> w, live |-> heap[o].live], Len(heap))
    BY <1>5 DEF x, n
  <2>2. PICK c, h : c = code /\ h = heap
    OBVIOUS
  <2>3. HeapOK(c, h) /\ o \in 1..Len(h)
    BY <1>1, <2>2
  <2>5. ObjectOK(c, [tag |-> h[o].tag, words |-> w, live |-> h[o].live], Len(h))
    BY <2>1, <2>2
  <2>4. LET g == [h EXCEPT ![o].words = w]
        IN  HeapOK(c, g) /\ Grows(h, g) /\ Len(g) = Len(h)
    BY <2>3, <2>5, Writing, SMTT(30)
  <2> QED
    BY <2>2, <2>4
<1> QED
  BY <1>2, <1>6

-----------------------------------------------------------------------------
(* The instructions that compute.                                          *)

LEMMA Copies ==
  ASSUME LawfulOnes, IInv, DoCopy
  PROVE  IInv'
<1>1. Executing("copy") /\ Define(Loaded[1]) /\ exe' = exe /\ heap' = heap /\ shadow' = shadow
  BY DEF DoCopy
<1>2. Running /\ Instr.op = "copy" /\ HasShape(Instr)
  BY <1>1, Executed, UnderWay
<1>3. Slot(Loaded[1], Len(heap))
  BY <1>1, <1>2, Executed, Counted DEF IsTypeTest
<1>4. Instr.op \in Producers
  BY <1>2 DEF Producers
<1> QED
  BY <1>1, <1>2, <1>3, <1>4, Computing

\* emit_binop.
LEMMA BinaryOperations ==
  ASSUME LawfulOnes, IInv, DoBinOp
  PROVE  IInv'
<1> DEFINE v == Computed(Instr.f, Loaded[1], Loaded[2])
<1>1. Executing("bin") /\ Define(v) /\ exe' = exe /\ heap' = heap /\ shadow' = shadow
  BY DEF DoBinOp
<1>2. Running /\ Instr.op = "bin" /\ HasShape(Instr)
  BY <1>1, Executed, UnderWay
<1>3. Slot(Loaded[1], Len(heap)) /\ Slot(Loaded[2], Len(heap))
  BY <1>1, <1>2, Executed, Counted DEF IsTypeTest
<1>4. Instr.op \in Producers /\ Instr.f \in Operators
  BY <1>2 DEF Producers, HasShape
<1>5. Slot(v, Len(heap))
  BY <1>3, <1>4, SlotOfOperation
<1> HIDE DEF v
<1> QED
  BY <1>1, <1>2, <1>4, <1>5, Computing

\* emit_unop.
LEMMA UnaryOperations ==
  ASSUME LawfulOnes, IInv, DoUnOp
  PROVE  IInv'
<1> DEFINE v == Num(IF Instr.f = "not" THEN 1 - Loaded[1].v ELSE 0 - Loaded[1].v)
<1>1. Executing("un") /\ Define(v) /\ exe' = exe /\ heap' = heap /\ shadow' = shadow
  BY DEF DoUnOp
<1>2. Running /\ Instr.op = "un" /\ HasShape(Instr)
  BY <1>1, Executed, UnderWay
<1>3. Slot(Loaded[1], Len(heap))
  BY <1>1, <1>2, Executed, Counted DEF IsTypeTest
<1>4. Instr.op \in Producers
  BY <1>2 DEF Producers
<1>5. Slot(v, Len(heap))
  <2>1. PICK a \in Int : a = Loaded[1].v
    BY <1>3 DEF Slot
  <2>2. 1 - a \in Int /\ 0 - a \in Int
    OBVIOUS
  <2> QED
    BY <2>1, <2>2, SlotsOfNumbers
<1> HIDE DEF v
<1> QED
  BY <1>1, <1>2, <1>4, <1>5, Computing

\* Those that call the runtime and allocate nothing.
LEMMA RuntimeCall ==
  ASSUME LawfulOnes, IInv, Executing("call"),
         Instr.f \in {"print", "hulk_number_to_string", "range", "__hulk_concat",
                      "__hulk_str_eq", "__hulk_is", "__hulk_as", "__vec_new", "__arr_new",
                      "__objarr_new", "__vec_push"}
  PROVE  /\ Running /\ Instr.op \in Producers /\ Instr.op = "call"
         /\ Slot(Loaded[1], Len(heap))
         /\ Instr.f \in {"range", "__vec_push", "__hulk_concat"} => Slot(Loaded[2], Len(heap))
         /\ IsSeq(Loaded)
         /\ Instr.f = "__hulk_concat" => Len(Loaded) = 2
<1>1. Running /\ Instr.op = "call" /\ HasShape(Instr) /\ IsSeq(Loaded)
  BY Executed, UnderWay
<1>2. /\ Len(Loaded) = Len(Instr.args) /\ Len(Loaded) \in Nat
      /\ \A a \in 1..Len(Loaded) : Slot(Loaded[a], Len(heap)) \/ (IsTypeTest(Instr) /\ a = 2)
  BY <1>1, Executed
<1>3. Instr.f \in {"range", "__vec_push", "__hulk_concat"} => Len(Loaded) = 2 /\ ~ IsTypeTest(Instr)
  BY <1>1, <1>2, Counted DEF IsTypeTest
<1>4. 1 \in 1..Len(Loaded)
  BY <1>1, <1>2, Counted
<1> QED
  BY <1>1, <1>2, <1>3, <1>4 DEF Producers, Calls

\* __hulk_str_eq.
LEMMA StringsCompared ==
  ASSUME LawfulOnes, IInv, StringEq
  PROVE  IInv'
<1>1. /\ Executing("call") /\ Instr.f = "__hulk_str_eq"
      /\ exe' = exe /\ heap' = heap /\ shadow' = shadow
  BY DEF StringEq
<1>2. PICK b : Define(Bit(b))
  BY DEF StringEq
<1> QED
  BY <1>1, <1>2, RuntimeCall, SlotsOfNumbers, Computing

\* print.
LEMMA Prints ==
  ASSUME LawfulOnes, IInv, DoPrint
  PROVE  IInv'
<1>1. /\ Executing("call") /\ Instr.f = "print" /\ Define(Null)
      /\ exe' = exe /\ heap' = heap /\ shadow' = shadow
  BY DEF DoPrint
<1> QED
  BY <1>1, RuntimeCall, SlotsOfNumbers, Computing

\* __hulk_is.
LEMMA TypesTested ==
  ASSUME LawfulOnes, IInv, TypeTest
  PROVE  IInv'
<1>1. /\ Executing("call") /\ Instr.f = "__hulk_is"
      /\ exe' = exe /\ heap' = heap /\ shadow' = shadow
  BY DEF TypeTest
<1>2. PICK b : Define(Bit(b))
  BY DEF TypeTest
<1> QED
  BY <1>1, <1>2, RuntimeCall, SlotsOfNumbers, Computing

\* A program that has ended.
LEMMA Ending ==
  ASSUME IInv, Running, frames' = <<>>, exe' = exe, heap' = heap, shadow' = <<>>
  PROVE  IInv'
<1>1. <<>> \in Seq({}) /\ Len(<<>>) = 0
  BY EmptySeq
<1>2. ShadowOK(shadow')
  <2>1. IsSeq(<<>>)
    BY <1>1, Sequence
  <2> QED
    BY <1>1, <2>1 DEF ShadowOK
<1>3. StackOK(code, frames', heap', Len(shadow'))
  BY NoCalls
<1> QED
  BY <1>2, <1>3 DEF IInv, Running, code

\* __hulk_as, which goes on or ends the program.
LEMMA Downcasts ==
  ASSUME LawfulOnes, IInv, Downcast
  PROVE  IInv'
<1>1. Executing("call") /\ Instr.f = "__hulk_as" /\ exe' = exe /\ heap' = heap
  BY DEF Downcast
<1>2. Running
  BY <1>1, RuntimeCall
<1>3. CASE Define(Loaded[1]) /\ shadow' = shadow
  BY <1>1, <1>3, RuntimeCall, Computing
<1>4. CASE frames' = <<>> /\ shadow' = <<>>
  BY <1>1, <1>2, <1>4, Ending
<1> QED
  BY <1>3, <1>4 DEF Downcast

-----------------------------------------------------------------------------
(* The instructions that read and write objects.                           *)

\* An object that a temporary refers to.
LEMMA Pointed ==
  ASSUME IInv, NEW v, Slot(v, Len(heap)), NEW tags, HasTag(v, tags)
  PROVE  /\ v.v \in 1..Len(heap) /\ heap[v.v].tag \in tags
         /\ ObjectOK(code, heap[v.v], Len(heap))
BY HeapNow DEF Slot, HasTag

\* The elements of an array.
LEMMA ItemsHeld ==
  ASSUME IInv, NEW v, Slot(v, Len(heap)), HasTag(v, {"Vector", "ObjArray"})
  PROVE  /\ IsSeq(Items(v)) /\ Len(Items(v)) \in Nat /\ DOMAIN Items(v) = 1..Len(Items(v))
         /\ \A j \in 1..Len(Items(v)) : Slot(Items(v)[j], Len(heap))
         /\ "items" \in DOMAIN heap[v.v].words
<1>1. ObjectOK(code, heap[v.v], Len(heap)) /\ heap[v.v].tag \in {"Vector", "ObjArray"}
  BY Pointed
<1>2. HoldsSlots(heap[v.v].words["items"], Len(heap)) /\ "items" \in DOMAIN heap[v.v].words
  BY <1>1 DEF ObjectOK
<1>3. IsSeq(Items(v)) /\ \A j \in 1..Len(Items(v)) : Slot(Items(v)[j], Len(heap))
  BY <1>2 DEF HoldsSlots, Items
<1> QED
  BY <1>2, <1>3, SequenceHas

\* What an object array's or a vector's element becomes is a slot as well.
LEMMA ElementIsSlot ==
  ASSUME NEW a, NEW v, NEW count, Slot(v, count)
  PROVE  Slot(Element(a, v), count)
BY SlotsOfNumbers DEF Element, Double, Num, Null

\* emit_get_field.
LEMMA FieldsRead ==
  ASSUME LawfulOnes, IInv, DoGetField
  PROVE  IInv'
<1> DEFINE v == heap[Loaded[1].v].words[Instr.f]
<1>1. /\ Executing("get") /\ HasField(Loaded[1], Instr.f) /\ Define(v)
      /\ exe' = exe /\ heap' = heap /\ shadow' = shadow
  BY DEF DoGetField
<1>2. Running /\ Instr.op = "get" /\ HasShape(Instr)
  BY <1>1, Executed, UnderWay
<1>3. Slot(Loaded[1], Len(heap))
  BY <1>1, <1>2, Executed, Counted DEF IsTypeTest
<1>4. Instr.op \in Producers
  BY <1>2 DEF Producers
<1>5. Slot(v, Len(heap))
  <2>1. HasTag(Loaded[1], DOMAIN code.types) /\ Instr.f \in DOMAIN heap[Loaded[1].v].words
    BY <1>1 DEF HasField
  <2>2. /\ heap[Loaded[1].v].tag \in DOMAIN code.types
        /\ ObjectOK(code, heap[Loaded[1].v], Len(heap))
    BY <1>3, <2>1, Pointed
  <2> QED
    BY <2>1, <2>2 DEF ObjectOK
<1> HIDE DEF v
<1> QED
  BY <1>1, <1>2, <1>4, <1>5, Computing

\* emit_set_field.
LEMMA FieldsWritten ==
  ASSUME LawfulOnes, IInv, DoSetField
  PROVE  IInv'
<1> DEFINE o == Loaded[1].v
<1>1. /\ Executing("set") /\ HasField(Loaded[1], Instr.f) /\ Continue
      /\ exe' = exe /\ shadow' = shadow
      /\ heap' = [heap EXCEPT ![o].words[Instr.f] = Loaded[2]]
  BY DEF DoSetField
<1>2. Running /\ Instr.op = "set" /\ HasShape(Instr)
  BY <1>1, Executed, UnderWay
<1>3. Slot(Loaded[1], Len(heap)) /\ Slot(Loaded[2], Len(heap))
  BY <1>1, <1>2, Executed, Counted DEF IsTypeTest
<1>4. HasTag(Loaded[1], DOMAIN code.types) /\ Instr.f \in DOMAIN heap[o].words
  BY <1>1 DEF HasField
<1>5. o \in 1..Len(heap) /\ heap[o].tag \in DOMAIN code.types
  BY <1>3, <1>4, Pointed
<1>6. heap[o].tag \notin {"Vector", "ObjArray"}
  BY <1>2, <1>5, UnderWay DEF IsLawful, RuntimeTags
<1> HIDE DEF o
<1>7. HeapOK(code, heap') /\ Grows(heap, heap')
  BY <1>1, <1>3, <1>4, <1>5, <1>6, WordWritten
<1>8. /\ ShadowOK(shadow') /\ Len(shadow') = Len(shadow) + Change(Instr)
      /\ Instr.op \notin Producers \cup {"jump", "return"}
  BY <1>1, <1>2, UnderWay DEF IInv, Change, Producers, Calls
<1> QED
  BY <1>1, <1>2, <1>7, <1>8, Continuing

\* emit_get_index.
LEMMA ElementsRead ==
  ASSUME LawfulOnes, IInv, DoGetIndex
  PROVE  IInv'
<1> DEFINE v == Items(Loaded[1])[Loaded[2].v + 1]
<1>1. /\ Executing("getindex") /\ HasItem(Loaded[1], Loaded[2].v + 1) /\ Define(v)
      /\ exe' = exe /\ heap' = heap /\ shadow' = shadow
  BY DEF DoGetIndex
<1>2. Running /\ Instr.op = "getindex" /\ HasShape(Instr)
  BY <1>1, Executed, UnderWay
<1>3. Slot(Loaded[1], Len(heap))
  BY <1>1, <1>2, Executed, Counted DEF IsTypeTest
<1>4. Instr.op \in Producers
  BY <1>2 DEF Producers
<1>5. Slot(v, Len(heap))
  BY <1>1, <1>3, ItemsHeld DEF HasItem
<1> HIDE DEF v
<1> QED
  BY <1>1, <1>2, <1>4, <1>5, Computing

\* emit_set_index.
LEMMA ElementsWritten ==
  ASSUME LawfulOnes, IInv, DoSetIndex
  PROVE  IInv'
<1> DEFINE o == Loaded[1].v
           n == Loaded[2].v + 1
           e == Element(Loaded[1], Loaded[3])
           r == Raw([Items(Loaded[1]) EXCEPT ![n] = e])
<1>1. /\ Executing("setindex") /\ HasItem(Loaded[1], n) /\ Continue
      /\ exe' = exe /\ shadow' = shadow
      /\ heap' = [heap EXCEPT ![o].words["items"] = r]
  BY DEF DoSetIndex, Items
<1>2. Running /\ Instr.op = "setindex" /\ HasShape(Instr)
  BY <1>1, Executed, UnderWay
<1>3. Slot(Loaded[1], Len(heap)) /\ Slot(Loaded[3], Len(heap))
  BY <1>1, <1>2, Executed, Counted DEF IsTypeTest
<1>4. HasTag(Loaded[1], {"Vector", "ObjArray"}) /\ n \in DOMAIN Items(Loaded[1])
  BY <1>1 DEF HasItem
<1>5. /\ IsSeq(Items(Loaded[1])) /\ n \in 1..Len(Items(Loaded[1]))
      /\ \A j \in 1..Len(Items(Loaded[1])) : Slot(Items(Loaded[1])[j], Len(heap))
      /\ "items" \in DOMAIN heap[o].words
  BY <1>3, <1>4, ItemsHeld
<1>6. Slot(e, Len(heap))
  BY <1>3, ElementIsSlot
<1>7. o \in 1..Len(heap) /\ heap[o].tag \in {"Vector", "ObjArray"}
  BY <1>3, <1>4, Pointed
<1>8. heap[o].tag \notin DOMAIN code.types \cup {"Range"}
  BY <1>2, <1>7, UnderWay DEF IsLawful, RuntimeTags
<1>9. HoldsSlots(r, Len(heap))
  <2>1. PICK s, m, x : s = Items(Loaded[1]) /\ m = n /\ x = e
    OBVIOUS
  <2>2. r.k = "raw" /\ r.v = [s EXCEPT ![m] = x]
    BY <2>1 DEF Raw
  <2>3. /\ IsSeq(s) /\ m \in 1..Len(s) /\ Slot(x, Len(heap))
        /\ \A j \in 1..Len(s) : Slot(s[j], Len(heap))
    BY <1>5, <1>6, <2>1
  <2> HIDE DEF r, o, n, e
  <2>4. IsSeq(s) /\ m \in 1..Len(s)
    BY <2>3
  <2>5. /\ IsSeq([s EXCEPT ![m] = x]) /\ Len([s EXCEPT ![m] = x]) = Len(s)
        /\ \A i \in 1..Len(s) : [s EXCEPT ![m] = x][i] = IF i = m THEN x ELSE s[i]
    BY <2>4, Replaced
  <2> QED
    BY <2>2, <2>3, <2>5 DEF HoldsSlots
<1> HIDE DEF o, r, n, e
<1>10. HeapOK(code, heap') /\ Grows(heap, heap')
  BY <1>1, <1>5, <1>7, <1>8, <1>9, WordWritten
<1>11. /\ ShadowOK(shadow') /\ Len(shadow') = Len(shadow) + Change(Instr)
       /\ Instr.op \notin Producers \cup {"jump", "return"}
  BY <1>1, <1>2, UnderWay DEF IInv, Change, Producers, Calls
<1> QED
  BY <1>1, <1>2, <1>10, <1>11, Continuing

\* __vec_push.
LEMMA VectorsGrow ==
  ASSUME LawfulOnes, IInv, VectorPush
  PROVE  IInv'
<1> DEFINE o == Loaded[1].v
           e == Element(Loaded[1], Loaded[2])
           r == Raw(Append(Items(Loaded[1]), e))
<1>1. /\ Executing("call") /\ Instr.f = "__vec_push" /\ HasTag(Loaded[1], {"Vector"})
      /\ Define(Loaded[1]) /\ exe' = exe /\ shadow' = shadow
      /\ heap' = [heap EXCEPT ![o].words["items"] = r]
  BY DEF VectorPush, Items
<1>2. /\ Running /\ Instr.op \in Producers
      /\ Slot(Loaded[1], Len(heap)) /\ Slot(Loaded[2], Len(heap))
  BY <1>1, RuntimeCall
<1>3. HasTag(Loaded[1], {"Vector", "ObjArray"})
  BY <1>1 DEF HasTag
<1>4. /\ IsSeq(Items(Loaded[1])) /\ Len(Items(Loaded[1])) \in Nat
      /\ \A j \in 1..Len(Items(Loaded[1])) : Slot(Items(Loaded[1])[j], Len(heap))
      /\ "items" \in DOMAIN heap[o].words
  BY <1>2, <1>3, ItemsHeld
<1>5. Slot(e, Len(heap))
  BY <1>2, ElementIsSlot
<1>6. o \in 1..Len(heap) /\ heap[o].tag = "Vector"
  BY <1>1, <1>2, Pointed
<1>7. heap[o].tag \notin DOMAIN code.types \cup {"Range"}
  BY <1>2, <1>6, UnderWay DEF IsLawful, RuntimeTags
<1>8. HoldsSlots(r, Len(heap))
  <2>1. PICK s, x : s = Items(Loaded[1]) /\ x = e
    OBVIOUS
  <2>2. r.k = "raw" /\ r.v = Append(s, x)
    BY <2>1 DEF Raw
  <2>3. IsSeq(s) /\ Len(s) \in Nat /\ Slot(x, Len(heap))
    BY <1>4, <1>5, <2>1
  <2>4. \A j \in 1..Len(s) : Slot(s[j], Len(heap))
    BY <1>4, <2>1
  <2> HIDE DEF r, o, e
  <2>5. /\ IsSeq(Append(s, x)) /\ Len(Append(s, x)) = Len(s) + 1
        /\ \A i \in 1..Len(s) : Append(s, x)[i] = s[i]
        /\ Append(s, x)[Len(s) + 1] = x
    BY <2>3, Appended
  <2>6. \A j \in 1..Len(s) + 1 : j \in 1..Len(s) \/ j = Len(s) + 1
    BY <2>3
  <2> QED
    BY <2>2, <2>3, <2>4, <2>5, <2>6 DEF HoldsSlots
<1> HIDE DEF o, r, e
<1>9. HeapOK(code, heap') /\ Grows(heap, heap') /\ Len(heap') = Len(heap)
  BY <1>1, <1>4, <1>6, <1>7, <1>8, WordWritten
<1>10. Slot(Loaded[1], Len(heap'))
  BY <1>2, <1>9
<1> QED
  BY <1>1, <1>2, <1>9, <1>10, Defining

-----------------------------------------------------------------------------
(* The methods of the runtime's iterators.                                 *)

LEMMA RuntimeMethod ==
  ASSUME LawfulOnes, IInv, NEW tags, ExecutingOn(tags)
  PROVE  /\ Running /\ Instr.op = "method" /\ Instr.op \in Producers
         /\ Slot(Loaded[1], Len(heap)) /\ HasTag(Loaded[1], tags)
         /\ Loaded[1].v \in 1..Len(heap) /\ heap[Loaded[1].v].tag \in tags
         /\ ObjectOK(code, heap[Loaded[1].v], Len(heap))
<1>1. Executing("method") /\ HasTag(Loaded[1], tags)
  BY DEF ExecutingOn
<1>2. Running /\ Instr.op = "method" /\ HasShape(Instr)
  BY <1>1, Executed, UnderWay
<1>3. Slot(Loaded[1], Len(heap))
  BY <1>1, <1>2, Executed, Counted DEF IsTypeTest
<1>4. Instr.op \in Producers
  BY <1>2 DEF Producers, Calls
<1> QED
  BY <1>1, <1>2, <1>3, <1>4, Pointed

\* A position that has been moved on, and whether it is still inside.
LEMMA PositionMoved ==
  ASSUME LawfulOnes, IInv, NEW tags, ExecutingOn(tags), tags \cap DOMAIN code.types = {},
         NEW f \in DOMAIN heap[Loaded[1].v].words, f # "items", NEW n \in Int, NEW b,
         heap' = [heap EXCEPT ![Loaded[1].v].words[f] = Num(n)], Define(Bit(b)),
         exe' = exe, shadow' = shadow
  PROVE  IInv'
<1> DEFINE o == Loaded[1].v
<1>1. Running /\ Instr.op \in Producers /\ o \in 1..Len(heap)
  BY RuntimeMethod
<1>2. heap' = [heap EXCEPT ![o].words[f] = Num(n)] /\ f \in DOMAIN heap[o].words
  OBVIOUS
<1>3. Slot(Num(n), Len(heap))
  BY SlotsOfNumbers
<1> HIDE DEF o
<1>4. HeapOK(code, heap') /\ Grows(heap, heap')
  BY <1>1, <1>2, <1>3, WordWritten
<1>5. Slot(Bit(b), Len(heap'))
  BY SlotsOfNumbers
<1> QED
  BY <1>1, <1>4, <1>5, Defining

\* No type of the program has the name of one of the runtime's.
LEMMA RuntimeTypes ==
  ASSUME LawfulOnes, IInv, Running
  PROVE  {"String", "Range", "Vector", "ObjArray"} \cap DOMAIN code.types = {}
BY UnderWay DEF IsLawful, RuntimeTags

\* __range_next.
LEMMA RangesMove ==
  ASSUME LawfulOnes, IInv, RangeNext
  PROVE  IInv'
<1> DEFINE o == Loaded[1].v
           n == heap[o].words["current"].v + 1
<1>1. /\ ExecutingOn({"Range"}) /\ exe' = exe /\ shadow' = shadow
      /\ heap' = [heap EXCEPT ![o].words["current"] = Num(n)]
      /\ \E b : Define(Bit(b))
  BY DEF RangeNext
<1>2. /\ Running /\ heap[o].tag = "Range" /\ ObjectOK(code, heap[o], Len(heap))
  BY <1>1, RuntimeMethod
<1>3. "current" \in DOMAIN heap[o].words /\ Slot(heap[o].words["current"], Len(heap))
  BY <1>2 DEF ObjectOK
<1>4. n \in Int
  BY <1>3 DEF Slot
<1>5. {"Range"} \cap DOMAIN code.types = {}
  BY <1>2, RuntimeTypes
<1> HIDE DEF n
<1> QED
  BY <1>1, <1>3, <1>4, <1>5, PositionMoved

\* __range_current.
LEMMA RangesRead ==
  ASSUME LawfulOnes, IInv, RangeCurrent
  PROVE  IInv'
<1> DEFINE v == heap[Loaded[1].v].words["current"]
<1>1. /\ ExecutingOn({"Range"}) /\ exe' = exe /\ shadow' = shadow /\ heap' = heap /\ Define(v)
  BY DEF RangeCurrent
<1>2. /\ Running /\ Instr.op \in Producers /\ heap[Loaded[1].v].tag = "Range"
      /\ ObjectOK(code, heap[Loaded[1].v], Len(heap))
  BY <1>1, RuntimeMethod
<1>3. Slot(v, Len(heap))
  BY <1>2 DEF ObjectOK
<1> HIDE DEF v
<1> QED
  BY <1>1, <1>2, <1>3, Computing

\* __vec_next.
LEMMA VectorsMove ==
  ASSUME LawfulOnes, IInv, VectorNext
  PROVE  IInv'
<1> DEFINE o == Loaded[1].v
           n == heap[o].words["pos"].v + 1
<1>1. /\ ExecutingOn({"Vector"}) /\ exe' = exe /\ shadow' = shadow
      /\ heap' = [heap EXCEPT ![o].words["pos"] = Num(n)]
      /\ \E b : Define(Bit(b))
  BY DEF VectorNext
<1>2. /\ Running /\ heap[o].tag = "Vector" /\ ObjectOK(code, heap[o], Len(heap))
  BY <1>1, RuntimeMethod
<1>3. "pos" \in DOMAIN heap[o].words /\ Slot(heap[o].words["pos"], Len(heap))
  BY <1>2 DEF ObjectOK
<1>4. n \in Int
  BY <1>3 DEF Slot
<1>5. {"Vector"} \cap DOMAIN code.types = {}
  BY <1>2, RuntimeTypes
<1> HIDE DEF n
<1> QED
  BY <1>1, <1>3, <1>4, <1>5, PositionMoved

\* __vec_current.
LEMMA VectorsRead ==
  ASSUME LawfulOnes, IInv, VectorCurrent
  PROVE  IInv'
<1> DEFINE n == heap[Loaded[1].v].words.pos.v
           v == Items(Loaded[1])[n]
<1>1. /\ ExecutingOn({"Vector"}) /\ HasItem(Loaded[1], n)
      /\ exe' = exe /\ shadow' = shadow /\ heap' = heap /\ Define(v)
  BY DEF VectorCurrent
<1>2. Running /\ Instr.op \in Producers /\ Slot(Loaded[1], Len(heap))
  BY <1>1, RuntimeMethod
<1> HIDE DEF n
<1>3. HasTag(Loaded[1], {"Vector", "ObjArray"}) /\ n \in DOMAIN Items(Loaded[1])
  BY <1>1 DEF HasItem
<1>4. Slot(v, Len(heap))
  BY <1>2, <1>3, ItemsHeld
<1> HIDE DEF v
<1> QED
  BY <1>1, <1>2, <1>4, Computing

\* __vec_size.
LEMMA VectorsMeasured ==
  ASSUME LawfulOnes, IInv, VectorSize
  PROVE  IInv'
<1> DEFINE v == Num(Len(Items(Loaded[1])))
<1>1. /\ ExecutingOn({"Vector", "ObjArray"})
      /\ exe' = exe /\ shadow' = shadow /\ heap' = heap /\ Define(v)
  BY DEF VectorSize
<1>2. /\ Running /\ Instr.op \in Producers /\ Slot(Loaded[1], Len(heap))
      /\ HasTag(Loaded[1], {"Vector", "ObjArray"})
  BY <1>1, RuntimeMethod
<1>3. Len(Items(Loaded[1])) \in Int
  BY <1>2, ItemsHeld
<1>4. Slot(v, Len(heap))
  BY <1>3, SlotsOfNumbers
<1> HIDE DEF v
<1> QED
  BY <1>1, <1>2, <1>4, Computing

-----------------------------------------------------------------------------
(* The instructions that allocate.                                         *)

LEMMA NumbersConverted ==
  ASSUME LawfulOnes, IInv, NumberToString
  PROVE  IInv'
<1>1. /\ Executing("call") /\ Instr.f = "hulk_number_to_string"
      /\ Define(NewObject) /\ exe' = exe /\ shadow' = shadow
  BY DEF NumberToString
<1>2. PICK h, words : h \in Heaps /\ Allocate(h, "String", words)
  BY DEF NumberToString
<1>3. Running /\ Instr.op \in Producers
  BY <1>1, RuntimeCall
<1>4. ObjectOK(code, [tag |-> "String", words |-> words, live |-> TRUE], Len(heap) + 1)
  BY <1>3, StringsAreOK
<1> QED
  BY <1>1, <1>2, <1>3, <1>4, Making

\* hulk_range_new.
LEMMA RangesMade ==
  ASSUME LawfulOnes, IInv, RangeNew
  PROVE  IInv'
<1> DEFINE words == [current |-> Num(Loaded[1].v - 1), max |-> Double(Loaded[2])]
<1>1. /\ Executing("call") /\ Instr.f = "range"
      /\ Define(NewObject) /\ exe' = exe /\ shadow' = shadow
  BY DEF RangeNew
<1>2. PICK h \in Heaps : Allocate(h, "Range", words)
  BY DEF RangeNew
<1>3. Running /\ Instr.op \in Producers /\ Slot(Loaded[1], Len(heap))
  BY <1>1, RuntimeCall
<1>4. "Range" \notin DOMAIN code.types
  BY <1>3, RuntimeTypes
<1>5. Slot(words["current"], Len(heap) + 1) /\ DOMAIN words = {"current", "max"}
  <2>1. PICK a \in Int : a = Loaded[1].v
    BY <1>3 DEF Slot
  <2>2. words["current"] = Num(a - 1) /\ a - 1 \in Int /\ DOMAIN words = {"current", "max"}
    BY <2>1
  <2> HIDE DEF words
  <2> QED
    BY <2>2, SlotsOfNumbers
<1> HIDE DEF words
<1>6. ObjectOK(code, [tag |-> "Range", words |-> words, live |-> TRUE], Len(heap) + 1)
  BY <1>4, <1>5 DEF ObjectOK
<1> QED
  BY <1>1, <1>2, <1>3, <1>6, Making

\* __vec_new and __arr_new.
LEMMA VectorsMade ==
  ASSUME LawfulOnes, IInv, VectorNew
  PROVE  IInv'
<1>1. /\ Executing("call") /\ Instr.f \in {"__vec_new", "__arr_new"}
      /\ Define(NewObject) /\ exe' = exe /\ shadow' = shadow
  BY DEF VectorNew
<1> DEFINE items == IF Instr.f = "__vec_new" THEN <<>> ELSE [i \in 1..Loaded[1].v |-> Num(0)]
           words == [pos |-> Num(0), items |-> Raw(items)]
<1>2. PICK h \in Heaps : Allocate(h, "Vector", words)
  BY DEF VectorNew
<1>3. Running /\ Instr.op \in Producers /\ Slot(Loaded[1], Len(heap))
  BY <1>1, RuntimeCall
<1>4. "Vector" \notin DOMAIN code.types
  BY <1>3, RuntimeTypes
<1>5. IsSeq(items) /\ \A j \in 1..Len(items) : items[j] = Num(0)
  <2>1. IsSeq(<<>>) /\ Len(<<>>) = 0
    <3>1. <<>> \in Seq({}) /\ Len(<<>>) = 0
      BY EmptySeq
    <3> QED
      BY <3>1, Sequence
  <2>0. items = <<>> \/ items = [i \in 1..Loaded[1].v |-> Num(0)]
    OBVIOUS
  <2> HIDE DEF items
  <2>2. CASE items = <<>>
    BY <2>1, <2>2
  <2>3. CASE items = [i \in 1..Loaded[1].v |-> Num(0)]
    <3>1. PICK n, x : n \in Int /\ n = Loaded[1].v /\ x = Num(0)
      BY <1>3 DEF Slot
    <3>2. items = [i \in 1..n |-> x]
      BY <2>3, <3>1
    <3>4. n \in Int
      BY <3>1
    <3>3. /\ IsSeq([i \in 1..n |-> x])
          /\ \A j \in 1..Len([i \in 1..n |-> x]) : [i \in 1..n |-> x][j] = x
      BY <3>4, Repeated
    <3> QED
      BY <3>1, <3>2, <3>3
  <2> QED
    BY <2>0, <2>2, <2>3
<1> HIDE DEF items
<1>6. HoldsSlots(Raw(items), Len(heap) + 1)
  <2>1. \A j \in 1..Len(items) : Slot(items[j], Len(heap) + 1)
    BY <1>5, SlotsOfNumbers
  <2>2. Raw(items).k = "raw" /\ Raw(items).v = items
    BY DEF Raw
  <2> QED
    BY <1>5, <2>1, <2>2 DEF HoldsSlots
<1>7. /\ DOMAIN words = {"pos", "items"} /\ words["pos"] = Num(0)
      /\ words["items"] = Raw(items)
  OBVIOUS
<1> HIDE DEF words
<1>8. ObjectOK(code, [tag |-> "Vector", words |-> words, live |-> TRUE], Len(heap) + 1)
  <2>1. PICK count : count = Len(heap) + 1
    OBVIOUS
  <2>2. Slot(words["pos"], count) /\ HoldsSlots(words["items"], count)
    <3>1. Slot(Num(0), count)
      BY SlotsOfNumbers
    <3>2. HoldsSlots(Raw(items), count)
      BY <1>6, <2>1
    <3> QED
      BY <1>7, <3>1, <3>2
  <2>3. ObjectOK(code, [tag |-> "Vector", words |-> words, live |-> TRUE], count)
    BY <1>4, <1>7, <2>2 DEF ObjectOK
  <2> QED
    BY <2>1, <2>3
<1> QED
  BY <1>1, <1>2, <1>3, <1>8, Making

\* __objarr_new.
LEMMA ObjectArraysMade ==
  ASSUME LawfulOnes, IInv, ObjArrayNew
  PROVE  IInv'
<1>1. /\ Executing("call") /\ Instr.f = "__objarr_new"
      /\ Define(NewObject) /\ exe' = exe /\ shadow' = shadow
  BY DEF ObjArrayNew
<1>2. Running /\ Instr.op \in Producers /\ Slot(Loaded[1], Len(heap))
  BY <1>1, RuntimeCall
<1>3. PICK n, x : n \in Int /\ n = (IF Loaded[1].v > 0 THEN Loaded[1].v ELSE 4) /\ x = Null
  BY <1>2 DEF Slot
<1> DEFINE items == [i \in 1..n |-> x]
           words == [items |-> Raw(items)]
<1>4. PICK h \in Heaps : Allocate(h, "ObjArray", words)
  BY <1>3 DEF ObjArrayNew
<1>5. "ObjArray" \notin DOMAIN code.types
  BY <1>2, RuntimeTypes
<1>6. IsSeq(items) /\ \A j \in 1..Len(items) : items[j] = x
  <2>1. n \in Int
    BY <1>3
  <2> QED
    BY <2>1, Repeated
<1> HIDE DEF items
<1>7. HoldsSlots(Raw(items), Len(heap) + 1)
  BY <1>3, <1>6, SlotsOfNumbers DEF HoldsSlots, Raw
<1>8. DOMAIN words = {"items"} /\ words["items"] = Raw(items)
  OBVIOUS
<1> HIDE DEF words
<1>9. ObjectOK(code, [tag |-> "ObjArray", words |-> words, live |-> TRUE], Len(heap) + 1)
  BY <1>5, <1>7, <1>8 DEF ObjectOK
<1> QED
  BY <1>1, <1>2, <1>4, <1>9, Making

-----------------------------------------------------------------------------
(* Loading operands.                                                       *)

\* One more operand.
LEMMA OneMore ==
  ASSUME LawfulOnes, IInv, Running, NEW v,
         Slot(v, Len(heap')) \/ (IsTypeTest(Instr) /\ Len(Loaded) = 1),
         IsConcat /\ Len(Loaded) = 2 => v.k = "ref" /\ heap'[v.v].tag = "String",
         Load(v), HeapOK(code, heap'), Grows(heap, heap'), exe' = exe, shadow' = shadow
  PROVE  IInv'
<1> DEFINE l == Append(Loaded, v)
<1>1. Loads(Instr, Loaded, heap)
  BY UnderWay DEF FrameOK, Loaded
<1>2. Loads(Instr, Loaded, heap')
  BY <1>1, LoadsStay
<1>3. IsSeq(Loaded) /\ Len(Loaded) \in Nat
  BY <1>2, SequenceHas DEF Loads
<1>4. /\ IsSeq(l) /\ Len(l) = Len(Loaded) + 1
      /\ \A a \in 1..Len(Loaded) : l[a] = Loaded[a]
      /\ l[Len(Loaded) + 1] = v
  BY <1>3, Appended
<1>5. SetFrame([Frame EXCEPT !.loaded = l])
  BY DEF Load, Loaded
<1> HIDE DEF l
<1>6. \A a \in 1..Len(l) : Slot(l[a], Len(heap')) \/ (IsTypeTest(Instr) /\ a = 2)
  <2> SUFFICES ASSUME NEW a \in 1..Len(l)
               PROVE  Slot(l[a], Len(heap')) \/ (IsTypeTest(Instr) /\ a = 2)
    OBVIOUS
  <2>1. CASE a \in 1..Len(Loaded)
    BY <1>2, <1>4, <2>1 DEF Loads
  <2>2. CASE a = Len(Loaded) + 1
    BY <1>4, <2>2
  <2> QED
    BY <1>3, <1>4, <2>1, <2>2
<1>7. IsConcat /\ Len(l) = 3 => l[3].k = "ref" /\ heap'[l[3].v].tag = "String"
  <2> SUFFICES ASSUME IsConcat, Len(l) = 3
               PROVE  l[3].k = "ref" /\ heap'[l[3].v].tag = "String"
    OBVIOUS
  <2>1. Len(Loaded) = 2 /\ Len(Loaded) + 1 = 3
    <3>1. PICK n \in Nat : n = Len(Loaded)
      BY <1>3
    <3>2. n + 1 = 3
      BY <1>4, <3>1
    <3>3. n = 2
      BY <3>2
    <3> QED
      BY <3>1, <3>2, <3>3
  <2>2. l[3] = v
    BY <1>4, <2>1
  <2> QED
    BY <2>1, <2>2
<1>8. Loads(Instr, l, heap')
  BY <1>4, <1>6, <1>7 DEF Loads, IsConcat
<1> QED
  BY <1>5, <1>8, Loading

\* Where there is an operand to load, a concatenation has loaded one at most.
LEMMA StillLoading ==
  ASSUME LawfulOnes, IInv, LoadingOperand
  PROVE  /\ Running /\ NextIndex \in 1..Len(Instr.args)
         /\ Len(Loaded) \in Nat
         /\ Instr.op # "new" => NextIndex = Len(Loaded) + 1
         /\ IsConcat => Len(Loaded) # 2
<1>1. Running /\ NextIndex \in 1..Operands
  BY DEF LoadingOperand
<1>2. HasShape(Instr) /\ Loads(Instr, Loaded, heap)
  BY <1>1, UnderWay DEF FrameOK, Loaded
<1>3. Len(Loaded) \in Nat /\ Len(Instr.args) \in Nat
  BY <1>2, SequenceHas, Counted DEF Loads
<1>4. NextIndex \in 1..Len(Instr.args)
  BY <1>1, <1>3 DEF Operands
<1>5. Instr.op # "new" => NextIndex = Len(Loaded) + 1
  BY DEF NextIndex
<1>6. IsConcat => Len(Instr.args) = 2 /\ Instr.op # "new"
  BY <1>2, Counted DEF IsConcat
<1> QED
  BY <1>1, <1>3, <1>4, <1>5, <1>6

\* materialize_string.
LEMMA StringsLoaded ==
  ASSUME LawfulOnes, IInv, LoadString
  PROVE  IInv'
<1>1. LoadingOperand /\ Load(NewObject) /\ exe' = exe /\ shadow' = shadow
  BY DEF LoadString
<1>2. PICK h, words : h \in Heaps /\ Allocate(h, "String", words)
  BY DEF LoadString
<1>3. Running /\ (IsConcat => Len(Loaded) # 2)
  BY <1>1, StillLoading
<1>4. ObjectOK(code, [tag |-> "String", words |-> words, live |-> TRUE], Len(heap) + 1)
  BY <1>3, StringsAreOK
<1>5. HeapOK(code, heap') /\ Grows(heap, heap') /\ Slot(NewObject, Len(heap'))
  BY <1>2, <1>4, NewObjects
<1> QED
  BY <1>1, <1>3, <1>5, OneMore

\* load_val: a temporary that is loaded has been stored, because what has not
\* been is still ahead.
LEMMA OperandsLoaded ==
  ASSUME LawfulOnes, IInv, LoadOperand
  PROVE  IInv'
<1> DEFINE v == IF NextOperand.k = "temp" THEN Frame.temps[NextOperand.v] ELSE NextOperand
<1>1. /\ LoadingOperand /\ NextOperand.k # "str"
      /\ NextOperand.k = "temp" => NextOperand.v \in DOMAIN Frame.temps
      /\ Load(v) /\ exe' = exe /\ heap' = heap /\ shadow' = shadow
  BY DEF LoadOperand
<1>2. /\ Running /\ NextIndex \in 1..Len(Instr.args) /\ Len(Loaded) \in Nat
      /\ Instr.op # "new" => NextIndex = Len(Loaded) + 1
      /\ IsConcat => Len(Loaded) # 2
  BY <1>1, StillLoading
<1>3. HasShape(Instr) /\ FrameOK(code, Frame, heap)
  BY <1>2, UnderWay
<1>4. NextOperand \in Operand \cup [k : {"global"}, v : STRING]
  <2>1. Instr.args \in Seq(Operand \cup [k : {"global"}, v : STRING])
    BY <1>3 DEF HasShape
  <2> QED
    BY <1>2, <2>1, ElementOfSeq DEF NextOperand
<1>5. NextOperand.k = "global" => IsTypeTest(Instr) /\ NextIndex = 2
  BY <1>2, <1>3 DEF HasShape, NextOperand
<1>6. Slot(v, Len(heap)) \/ (IsTypeTest(Instr) /\ Len(Loaded) = 1)
  <2>1. CASE NextOperand.k = "temp"
    BY <1>1, <1>3, <2>1 DEF FrameOK, HasSlots
  <2>2. CASE NextOperand.k = "global"
    <3>1. IsTypeTest(Instr) /\ NextIndex = 2
      BY <1>5, <2>2
    <3>2. NextIndex = Len(Loaded) + 1
      BY <1>2, <3>1 DEF IsTypeTest
    <3>3. Len(Loaded) = 1
      <4>1. PICK n \in Nat : n = Len(Loaded)
        BY <1>2
      <4>2. n + 1 = 2
        BY <3>1, <3>2, <4>1
      <4>3. n = 1
        BY <4>2
      <4> QED
        BY <4>1, <4>3
    <3> QED
      BY <3>1, <3>3
  <2>3. CASE NextOperand.k \in {"num", "null"}
    <3>1. NextOperand \in Operand /\ v = NextOperand
      BY <1>4, <2>3
    <3> QED
      BY <2>3, <3>1 DEF Operand, Slot
  <2> QED
    BY <1>1, <1>4, <2>1, <2>2, <2>3 DEF Operand
<1> HIDE DEF v
<1>7. HeapOK(code, heap') /\ Grows(heap, heap')
  BY <1>1, HeapNow
<1>8. Slot(v, Len(heap')) \/ (IsTypeTest(Instr) /\ Len(Loaded) = 1)
  BY <1>1, <1>6
<1> QED
  BY <1>1, <1>2, <1>7, <1>8, OneMore

\* The object is allocated before the arguments are loaded.
LEMMA ObjectsMade ==
  ASSUME LawfulOnes, IInv, AllocateNew
  PROVE  IInv'
<1>1. /\ Running /\ Instr.op = "new" /\ Loaded = <<>>
      /\ Load(NewObject) /\ exe' = exe /\ shadow' = shadow
  BY DEF AllocateNew
<1> DEFINE words == [a \in FieldsOf(code, Instr.f) |-> Null]
<1>2. PICK h \in Heaps : Allocate(h, Instr.f, words)
  BY <1>1 DEF AllocateNew
<1>3. CallsFit(code, Instr) /\ Instr.f \in DOMAIN code.types
  BY <1>1, UnderWay DEF CallsFit
<1>4. Instr.f \notin {"String", "Range", "Vector", "ObjArray"}
  BY <1>1, <1>3, RuntimeTypes
<1>5. \A a \in DOMAIN words : Slot(words[a], Len(heap) + 1)
  BY SlotsOfNumbers
<1> HIDE DEF words
<1>6. ObjectOK(code, [tag |-> Instr.f, words |-> words, live |-> TRUE], Len(heap) + 1)
  BY <1>4, <1>5 DEF ObjectOK
<1>7. HeapOK(code, heap') /\ Grows(heap, heap') /\ Slot(NewObject, Len(heap'))
  BY <1>2, <1>6, NewObjects
<1>8. ~ IsConcat
  BY <1>1 DEF IsConcat
<1> QED
  BY <1>1, <1>7, <1>8, OneMore

\* A number among the operands of a concatenation gives way to its text.
LEMMA NumbersCoerced ==
  ASSUME LawfulOnes, IInv, ConcatCoerce
  PROVE  IInv'
<1> DEFINE l == Append(Front(Loaded), NewObject)
<1>1. /\ CoercionDue /\ exe' = exe /\ shadow' = shadow
      /\ SetFrame([Frame EXCEPT !.loaded = l])
  BY DEF ConcatCoerce, Loaded
<1>2. Running /\ IsConcat /\ Loaded # <<>> /\ Last(Loaded).k = "num"
  BY <1>1 DEF CoercionDue
<1>3. PICK h, words : h \in Heaps /\ Allocate(h, "String", words)
  BY DEF ConcatCoerce
<1>4. ObjectOK(code, [tag |-> "String", words |-> words, live |-> TRUE], Len(heap) + 1)
  BY <1>2, StringsAreOK
<1>5. HeapOK(code, heap') /\ Grows(heap, heap') /\ Slot(NewObject, Len(heap'))
  BY <1>3, <1>4, NewObjects
<1>6. Loads(Instr, Loaded, heap')
  BY <1>2, <1>5, UnderWay, LoadsStay DEF FrameOK, Loaded
<1>7. IsSeq(Loaded) /\ Len(Loaded) \in Nat /\ Len(Loaded) # 0
  BY <1>2, <1>6, SequenceHas DEF Loads
<1>8. Last(Loaded) = Loaded[Len(Loaded)]
  BY DEF Last
<1>9. Len(Loaded) # 3
  BY <1>2, <1>6, <1>8 DEF Loads, IsConcat
<1> DEFINE m == Len(Loaded) - 1
<1>10. m \in Nat /\ m <= Len(Loaded) /\ m + 1 = Len(Loaded)
  BY <1>7
<1>11. Front(Loaded) = SubSeq(Loaded, 1, m)
  BY DEF Front
<1> HIDE DEF m
<1>12. /\ IsSeq(Front(Loaded)) /\ Len(Front(Loaded)) = m
       /\ \A i \in 1..m : Front(Loaded)[i] = Loaded[i]
  BY <1>7, <1>10, <1>11, Beginning
<1>13. /\ IsSeq(l) /\ Len(l) = Len(Loaded)
       /\ \A i \in 1..m : l[i] = Loaded[i]
       /\ l[Len(Loaded)] = NewObject
  BY <1>10, <1>12, Appended
<1> HIDE DEF l
<1>14. \A a \in 1..Len(l) : Slot(l[a], Len(heap')) \/ (IsTypeTest(Instr) /\ a = 2)
  <2> SUFFICES ASSUME NEW a \in 1..Len(l)
               PROVE  Slot(l[a], Len(heap')) \/ (IsTypeTest(Instr) /\ a = 2)
    OBVIOUS
  <2>1. CASE a \in 1..m
    <3>1. a \in 1..Len(Loaded)
      BY <1>10, <2>1
    <3> QED
      BY <1>6, <1>13, <2>1, <3>1 DEF Loads
  <2>2. CASE a = Len(Loaded)
    BY <1>5, <1>13, <2>2
  <2> QED
    BY <1>10, <1>13, <2>1, <2>2
<1>15. Loads(Instr, l, heap')
  BY <1>9, <1>13, <1>14 DEF Loads
<1> QED
  BY <1>1, <1>2, <1>5, <1>15, Loading

\* hulk_string_concat has allocated its result and not yet filled it.
LEMMA Concatenates ==
  ASSUME LawfulOnes, IInv, Concat
  PROVE  IInv'
<1>1. /\ Executing("call") /\ Instr.f = "__hulk_concat"
      /\ Load(NewObject) /\ exe' = exe /\ shadow' = shadow
  BY DEF Concat, IsConcat
<1>2. PICK h, words : h \in Heaps /\ Allocate(h, "String", words)
  BY DEF Concat
<1>3. Running
  BY <1>1, RuntimeCall
<1>4. ObjectOK(code, [tag |-> "String", words |-> words, live |-> TRUE], Len(heap) + 1)
  BY <1>3, StringsAreOK
<1>5. /\ HeapOK(code, heap') /\ Grows(heap, heap') /\ Slot(NewObject, Len(heap'))
      /\ heap'[NewObject.v].tag = "String"
  BY <1>2, <1>4, NewObjects
<1>6. NewObject.k = "ref"
  BY DEF NewObject, Ref
<1> QED
  BY <1>1, <1>3, <1>5, <1>6, OneMore

\* The second half of hulk_string_concat.
LEMMA ConcatenationCopied ==
  ASSUME LawfulOnes, IInv, ConcatCopy
  PROVE  IInv'
<1> DEFINE o == Loaded[3].v
           w == Text(TextOf(Loaded[1]) + TextOf(Loaded[2]))
<1>1. /\ Running /\ IsConcat /\ Len(Loaded) = 3
      /\ heap' = [heap EXCEPT ![o].words = w]
      /\ Define(Loaded[3]) /\ exe' = exe /\ shadow' = shadow
  BY DEF ConcatCopy
<1>2. Loads(Instr, Loaded, heap)
  BY <1>1, UnderWay DEF FrameOK, Loaded
<1>3. Loaded[3].k = "ref" /\ heap[o].tag = "String"
  BY <1>1, <1>2 DEF Loads, IsConcat
<1>4. Slot(Loaded[3], Len(heap))
  BY <1>1, <1>2 DEF Loads
<1>5. o \in 1..Len(heap)
  BY <1>3, <1>4 DEF Slot
<1>6. "String" \notin DOMAIN code.types
  BY <1>1, RuntimeTypes
<1>7. Instr.op \in Producers
  BY <1>1 DEF IsConcat, Producers, Calls
<1> HIDE DEF o, w
<1>8. ObjectOK(code, [tag |-> heap[o].tag, words |-> w, live |-> heap[o].live], Len(heap))
  BY <1>3, <1>6 DEF ObjectOK
<1>9. HeapOK(code, heap') /\ Grows(heap, heap') /\ Len(heap') = Len(heap)
  <2>1. PICK c, h : c = code /\ h = heap
    OBVIOUS
  <2>2. HeapOK(c, h) /\ o \in 1..Len(h)
        /\ ObjectOK(c, [tag |-> h[o].tag, words |-> w, live |-> h[o].live], Len(h))
    BY <1>5, <1>8, <2>1, HeapNow
  <2>3. LET g == [h EXCEPT ![o].words = w]
        IN  HeapOK(c, g) /\ Grows(h, g) /\ Len(g) = Len(h)
    BY <2>2, Writing
  <2> QED
    BY <1>1, <2>1, <2>3
<1>10. Slot(Loaded[3], Len(heap'))
  BY <1>4, <1>9
<1> QED
  BY <1>1, <1>7, <1>9, <1>10, Defining

-----------------------------------------------------------------------------
(* Control and the shadow stack.                                           *)

LEMMA LabelsPassed ==
  ASSUME LawfulOnes, IInv, DoLabel
  PROVE  IInv'
<1>1. /\ Executing("label") /\ Continue
      /\ exe' = exe /\ heap' = heap /\ shadow' = shadow
  BY DEF DoLabel
<1>2. Running /\ Instr.op = "label" /\ Len(shadow) \in Nat
  BY <1>1, Executed, UnderWay
<1>3. /\ Instr.op \notin Producers \cup {"jump", "return"}
      /\ Len(shadow') = Len(shadow) + Change(Instr)
  BY <1>1, <1>2 DEF Producers, Calls, Change
<1>4. HeapOK(code, heap') /\ Grows(heap, heap') /\ ShadowOK(shadow')
  BY <1>1, HeapNow DEF IInv
<1> QED
  BY <1>1, <1>2, <1>3, <1>4, Continuing

\* emit_jump.
LEMMA Jumps ==
  ASSUME LawfulOnes, IInv, DoJump
  PROVE  IInv'
<1>1. /\ Executing("jump") /\ GoTo(Instr.to)
      /\ exe' = exe /\ heap' = heap /\ shadow' = shadow
  BY DEF DoJump
<1>2. Running /\ Instr.op = "jump"
  BY <1>1, Executed
<1> QED
  BY <1>1, <1>2, Going

\* emit_jumpif.
LEMMA Branches ==
  ASSUME LawfulOnes, IInv, DoJumpIf
  PROVE  IInv'
<1>1. /\ Executing("jumpif") /\ exe' = exe /\ heap' = heap /\ shadow' = shadow
      /\ GoTo(Instr.to) \/ Continue
  BY DEF DoJumpIf
<1>2. Running /\ Instr.op = "jumpif" /\ Len(shadow) \in Nat
  BY <1>1, Executed, UnderWay
<1>3. CASE GoTo(Instr.to)
  BY <1>1, <1>2, <1>3, Going
<1>4. CASE Continue
  <2>1. /\ Instr.op \notin Producers \cup {"jump", "return"}
        /\ Len(shadow') = Len(shadow) + Change(Instr)
    BY <1>1, <1>2 DEF Producers, Calls, Change
  <2>2. HeapOK(code, heap') /\ Grows(heap, heap') /\ ShadowOK(shadow')
    BY <1>1, HeapNow DEF IInv
  <2> QED
    BY <1>1, <1>2, <1>4, <2>1, <2>2, Continuing
<1> QED
  BY <1>1, <1>3, <1>4

\* emit_shadow_push.
LEMMA Pushes ==
  ASSUME LawfulOnes, IInv, DoShadowPush
  PROVE  IInv'
<1> DEFINE v == IF Loaded[1].k = "num" THEN Null ELSE Loaded[1]
<1>1. /\ Executing("push") /\ Continue /\ exe' = exe /\ heap' = heap
      /\ shadow' = Append(shadow, v)
  BY DEF DoShadowPush
<1>2. Running /\ Instr.op = "push" /\ HasShape(Instr)
  BY <1>1, Executed, UnderWay
<1>3. Slot(Loaded[1], Len(heap))
  BY <1>1, <1>2, Executed, Counted DEF IsTypeTest
<1>4. v.k \in {"ref", "null"}
  BY <1>3 DEF Slot, Null
<1> HIDE DEF v
<1>5. /\ IsSeq(shadow) /\ Len(shadow) \in Nat
      /\ \A i \in 1..Len(shadow) : shadow[i].k \in {"ref", "null"}
  BY SequenceHas DEF IInv, ShadowOK
<1>6. /\ IsSeq(shadow') /\ Len(shadow') = Len(shadow) + 1
      /\ \A i \in 1..Len(shadow) : shadow'[i] = shadow[i]
      /\ shadow'[Len(shadow) + 1] = v
  BY <1>1, <1>5, Appended
<1>7. \A i \in 1..Len(shadow) + 1 : i \in 1..Len(shadow) \/ i = Len(shadow) + 1
  BY <1>5
<1>8. ShadowOK(shadow')
  BY <1>4, <1>5, <1>6, <1>7 DEF ShadowOK
<1>9. /\ Instr.op \notin Producers \cup {"jump", "return"}
      /\ Len(shadow') = Len(shadow) + Change(Instr)
  BY <1>2, <1>6 DEF Producers, Calls, Change
<1>10. HeapOK(code, heap') /\ Grows(heap, heap')
  BY <1>1, HeapNow
<1> QED
  BY <1>1, <1>2, <1>8, <1>9, <1>10, Continuing

\* emit_shadow_pop.
LEMMA Pops_ ==
  ASSUME LawfulOnes, IInv, DoShadowPop
  PROVE  IInv'
<1>1. /\ Executing("pop") /\ Continue /\ exe' = exe /\ heap' = heap
      /\ shadow' = Front(shadow) /\ shadow # <<>>
  BY DEF DoShadowPop
<1>2. Running /\ Instr.op = "pop"
  BY <1>1, Executed
<1>3. /\ IsSeq(shadow) /\ Len(shadow) \in Nat /\ Len(shadow) # 0
      /\ \A i \in 1..Len(shadow) : shadow[i].k \in {"ref", "null"}
  BY <1>1, SequenceHas DEF IInv, ShadowOK
<1>4. PICK m \in Nat : m = Len(shadow) - 1 /\ m <= Len(shadow)
  <2>1. PICK n \in Nat : n = Len(shadow) /\ n # 0
    BY <1>3
  <2>2. n - 1 \in Nat /\ n - 1 <= n
    BY <2>1
  <2> QED
    BY <2>1, <2>2
<1>5. shadow' = SubSeq(shadow, 1, m)
  BY <1>1, <1>4 DEF Front
<1>6. IsSeq(shadow') /\ Len(shadow') = m /\ \A i \in 1..m : shadow'[i] = shadow[i]
  BY <1>3, <1>4, <1>5, Beginning
<1>7. ShadowOK(shadow')
  BY <1>3, <1>4, <1>6 DEF ShadowOK
<1>8. /\ Instr.op \notin Producers \cup {"jump", "return"}
      /\ Len(shadow') = Len(shadow) + Change(Instr)
  BY <1>2, <1>3, <1>4, <1>6 DEF Producers, Calls, Change
<1>9. HeapOK(code, heap') /\ Grows(heap, heap')
  BY <1>1, HeapNow
<1> QED
  BY <1>1, <1>2, <1>7, <1>8, <1>9, Continuing

-----------------------------------------------------------------------------
(* Calls and returns.                                                      *)

\* A call of a function that can take what it is passed.
LEMMA Calling ==
  ASSUME LawfulOnes, IInv, Running, Instr.op \in Calls,
         Instr.op = "new" => 1 \in 1..Len(Loaded),
         NEW fn, CanTake(code, fn, Len(Loaded)),
         Len(Loaded) \in Nat, \A a \in 1..Len(Loaded) : Slot(Loaded[a], Len(heap)),
         Enters(fn, Loaded)
  PROVE  IInv'
<1> DEFINE x == NewFrame(fn, Loaded)
           b == code.bodies[fn]
           T == [t \in 0..(Len(Loaded) - 1) |-> Loaded[t + 1]]
<1>1. /\ IsLawful(code) /\ IsSeq(frames) /\ Len(frames) \in Nat /\ Len(frames) > 0
      /\ Frame = frames[Len(frames)]
      /\ Len(shadow) \in Nat /\ Instr = At(code, Frame)
  BY UnderWay
<1>2. fn \in DOMAIN code.bodies /\ fn # MainName /\ Inputs(b) \subseteq 0..Len(Loaded) - 1
  BY DEF CanTake
<1>3. 1 \in 1..Len(b) /\ DepthAt(b, 1) = 0 /\ \A t \in Reads(b) : 1 \in Before(b, t)
  BY <1>1, <1>2, AtTheStart
<1>4. frames' = Append(frames, x) /\ exe' = exe /\ heap' = heap /\ shadow' = shadow
  BY DEF Enters
<1>5. x = [fn |-> fn, pc |-> 1, loaded |-> <<>>, base |-> Len(shadow), temps |-> T]
  BY DEF NewFrame
<1>6. DOMAIN T = 0..Len(Loaded) - 1 /\ \A t \in DOMAIN T : Slot(T[t], Len(heap))
  OBVIOUS
<1> HIDE DEF T, x
<1>7. /\ x.fn = fn /\ x.pc = 1 /\ x.loaded = <<>> /\ x.base = Len(shadow) /\ x.temps = T
      /\ IsFrame(x)
  BY <1>5 DEF IsFrame
<1>8. FrameOK(code, x, heap)
  <2>1. HasSlots(x, Len(heap))
    BY <1>6, <1>7 DEF HasSlots
  <2>2. Fills(code, x)
    BY <1>2, <1>3, <1>6, <1>7 DEF Fills
  <2>3. Loads(At(code, x), x.loaded, heap)
    BY <1>7, NothingLoaded
  <2> QED
    BY <1>1, <1>2, <1>3, <1>7, <2>1, <2>2, <2>3 DEF FrameOK
<1>9. Depth_(code, x) = Len(shadow)
  BY <1>1, <1>3, <1>7 DEF Depth_
<1>10. Waits(code, frames[Len(frames)])
  BY <1>1 DEF Waits, Loaded
<1>11. StackOK(code, frames, heap, Len(shadow))
  BY DEF IInv
<1>12. StackOK(code, Append(frames, x), heap, Len(shadow))
  BY <1>1, <1>2, <1>7, <1>8, <1>9, <1>10, <1>11, Entering
<1>13. frames' # <<>>
  BY <1>1, <1>4, Appended, SequenceHas
<1> QED
  BY <1>4, <1>12, <1>13 DEF IInv, Running, code

\* resolve_call.
LEMMA FunctionsCalled ==
  ASSUME LawfulOnes, IInv, CallFunction
  PROVE  IInv'
<1>1. Executing("call") /\ Instr.f \notin Runtime /\ Enters(Instr.f, Loaded)
  BY DEF CallFunction
<1>2. Running /\ Instr.op = "call" /\ Len(Loaded) = Len(Instr.args) /\ Len(Loaded) \in Nat
  BY <1>1, Executed
<1>3. CanTake(code, Instr.f, Len(Loaded))
  BY <1>1, <1>2, UnderWay DEF CallsFit
<1>4. ~ IsTypeTest(Instr)
  BY <1>1 DEF IsTypeTest, Runtime
<1>5. \A a \in 1..Len(Loaded) : Slot(Loaded[a], Len(heap))
  BY <1>1, <1>4, Executed
<1>6. Instr.op \in Calls /\ Instr.op # "new"
  BY <1>2 DEF Calls
<1> QED
  BY <1>1, <1>2, <1>3, <1>5, <1>6, Calling

\* emit_static_call.
LEMMA StaticsCalled ==
  ASSUME LawfulOnes, IInv, CallStatic
  PROVE  IInv'
<1>1. Executing("static") /\ Enters(Instr.f, Loaded)
  BY DEF CallStatic
<1>2. Running /\ Instr.op = "static" /\ Len(Loaded) = Len(Instr.args) /\ Len(Loaded) \in Nat
  BY <1>1, Executed
<1>3. CanTake(code, Instr.f, Len(Loaded))
  BY <1>2, UnderWay DEF CallsFit
<1>4. \A a \in 1..Len(Loaded) : Slot(Loaded[a], Len(heap))
  BY <1>1, <1>2, Executed DEF IsTypeTest
<1>5. Instr.op \in Calls /\ Instr.op # "new"
  BY <1>2 DEF Calls
<1> QED
  BY <1>1, <1>2, <1>3, <1>4, <1>5, Calling

\* The nearest ancestor that has the method has it.
LEMMA OwnersImplement ==
  ASSUME LawfulOnes, IInv, Running, NEW T \in DOMAIN code.types, NEW m, Owners(T, m) # {}
  PROVE  Owner(T, m) \in DOMAIN code.types /\ m \in code.types[Owner(T, m)].methods
<1>1. Ancestry(code, T) \in Seq(DOMAIN code.types)
  BY UnderWay DEF IsLawful
<1>2. Owners(T, m) \subseteq Nat
  <2>1. DOMAIN Ancestry(code, T) = 1..Len(Ancestry(code, T)) /\ Len(Ancestry(code, T)) \in Nat
    BY <1>1, LenProperties
  <2> QED
    BY <2>1 DEF Owners
<1>3. \E n \in Owners(T, m) : \A p \in Owners(T, m) : n <= p
  BY <1>2, LeastNumber
<1>4. PICK n \in Owners(T, m) : Owner(T, m) = Ancestry(code, T)[n]
  BY <1>3 DEF Owner
<1>5. Implements(Ancestry(code, T)[n], m)
  BY <1>4 DEF Owners
<1> QED
  BY <1>4, <1>5 DEF Implements

\* emit_method_call: the receiver's implementation takes as many arguments.
LEMMA MethodsCalled ==
  ASSUME LawfulOnes, IInv, CallMethod
  PROVE  IInv'
<1> DEFINE T == heap[Loaded[1].v].tag
           O == Owner(T, Instr.f)
<1>1. /\ ExecutingOn(DOMAIN code.types) /\ Owners(T, Instr.f) # {}
      /\ Enters(O \o "." \o Instr.f, Loaded)
  BY DEF CallMethod, Implementation
<1>2. Executing("method") /\ T \in DOMAIN code.types
  BY <1>1, RuntimeMethod DEF ExecutingOn
<1>3. Running /\ Instr.op = "method" /\ Len(Loaded) = Len(Instr.args) /\ Len(Loaded) \in Nat
  BY <1>2, Executed
<1>4. O \in DOMAIN code.types /\ Instr.f \in code.types[O].methods
  BY <1>1, <1>2, <1>3, OwnersImplement
<1> HIDE DEF T, O
<1>5. CallsFit(code, Instr)
  BY <1>3, UnderWay
<1>6. CanTake(code, O \o "." \o Instr.f, Len(Loaded))
  BY <1>3, <1>4, <1>5 DEF CallsFit
<1>7. \A a \in 1..Len(Loaded) : Slot(Loaded[a], Len(heap))
  BY <1>2, <1>3, Executed DEF IsTypeTest
<1>8. Instr.op \in Calls /\ Instr.op # "new"
  BY <1>3 DEF Calls
<1> QED
  BY <1>1, <1>3, <1>6, <1>7, <1>8, Calling

\* emit_new's call of the constructor.
LEMMA ConstructorsCalled ==
  ASSUME LawfulOnes, IInv, CallInit
  PROVE  IInv'
<1>1. Executing("new") /\ Enters(Instr.f \o ".__init__", Loaded)
  BY DEF CallInit
<1>2. /\ Running /\ Instr.op = "new" /\ Len(Loaded) = Len(Instr.args) + 1
      /\ Len(Loaded) \in Nat /\ Len(Instr.args) \in Nat
  BY <1>1, Executed
<1>3. CallsFit(code, Instr)
  BY <1>2, UnderWay
<1>4. CanTake(code, Instr.f \o ".__init__", Len(Loaded))
  BY <1>2, <1>3 DEF CallsFit
<1>5. \A a \in 1..Len(Loaded) : Slot(Loaded[a], Len(heap))
  BY <1>1, <1>2, Executed DEF IsTypeTest
<1>6. Instr.op \in Calls /\ 1 \in 1..Len(Loaded)
  BY <1>2 DEF Calls
<1> QED
  BY <1>1, <1>2, <1>4, <1>5, <1>6, Calling

\* emit_return_for_fn: the caller finds the shadow stack as it left it.
LEMMA Returns ==
  ASSUME LawfulOnes, IInv, DoReturn
  PROVE  IInv'
<1> DEFINE n == Len(frames)
           caller == frames[n - 1]
           call == code.bodies[caller.fn][caller.pc]
           v == IF call.op = "new" THEN caller.loaded[1] ELSE Loaded[1]
           T == Stored(caller.temps, call.dst, v)
           b == code.bodies[caller.fn]
           x == [fn |-> caller.fn, pc |-> caller.pc + 1, loaded |-> <<>>, base |-> caller.base,
                 temps |-> T]
<1>1. /\ Executing("return") /\ n > 1 /\ exe' = exe /\ heap' = heap /\ shadow' = shadow
      /\ frames' = Append(SubSeq(frames, 1, n - 2),
                          [caller EXCEPT !.pc = caller.pc + 1, !.loaded = <<>>, !.temps = T])
  BY DEF DoReturn
<1>2. Running /\ Instr.op = "return"
  BY <1>1, Executed
<1>3. /\ IsLawful(code) /\ IsSeq(frames) /\ n \in Nat
      /\ Frame = frames[n] /\ FrameOK(code, Frame, heap) /\ Depth_(code, Frame) = Len(shadow)
      /\ Body = code.bodies[Frame.fn] /\ HasShape(Instr) /\ Len(shadow) \in Nat
  BY <1>2, UnderWay
<1>4. StackOK(code, frames, heap, Len(shadow))
  BY DEF IInv
<1>5. /\ n \in 1..n /\ n - 1 \in 1..n /\ n - 1 \in 1..n - 1 /\ n - 1 + 1 = n
  BY <1>1, <1>3
<1>6. /\ FrameOK(code, caller, heap) /\ Waits(code, caller) /\ Frame.fn # MainName
      /\ Depth_(code, caller) = Frame.base
  BY <1>1, <1>3, <1>4, <1>5 DEF StackOK
<1>7. Frame.base = Len(shadow)
  <2>1. Frame.fn \in DOMAIN code.bodies /\ Frame.pc \in 1..Len(Body) /\ Frame.base \in Nat
    BY <1>3 DEF FrameOK
  <2>2. IsBody(code, Body)
    BY <1>3, <2>1 DEF IsLawful
  <2>3. DepthAt(Body, Frame.pc) = 0
    BY <1>2, <2>1, <2>2 DEF IsBody, IsBalanced, Instr
  <2> QED
    BY <1>3, <2>1, <2>3 DEF Depth_
<1>8. Slot(Loaded[1], Len(heap))
  <2>1. Len(Loaded) = 1
    BY <1>1, <1>2, <1>3, <1>6, Executed, Counted
  <2> QED
    BY <1>1, <1>2, <2>1, Executed DEF IsTypeTest
<1>9. /\ IsFrame(caller) /\ caller.fn \in DOMAIN code.bodies /\ caller.pc \in 1..Len(b)
      /\ HasSlots(caller, Len(heap)) /\ Loads(call, caller.loaded, heap)
      /\ At(code, caller) = call
  BY <1>6 DEF FrameOK, At
<1>10. call.op \in Calls /\ (call.op = "new" => 1 \in 1..Len(caller.loaded))
  BY <1>6, <1>9 DEF Waits
<1>11. Slot(v, Len(heap))
  BY <1>8, <1>9, <1>10 DEF Loads, IsTypeTest
<1>12. call.dst \in Nat
  <2>1. HasShape(call)
    BY <1>3, <1>9, LawfulBody
  <2> QED
    BY <1>10, <2>1 DEF HasShape, Producers
<1>13. /\ DOMAIN T = DOMAIN caller.temps \cup {call.dst}
       /\ \A t \in DOMAIN T : T[t] = IF t = call.dst THEN v ELSE caller.temps[t]
  BY DEF Stored
<1>14. [caller EXCEPT !.pc = caller.pc + 1, !.loaded = <<>>, !.temps = T] = x
  <2> HIDE DEF caller, T
  <2> QED
    BY <1>9, FrameUpdated
<1>15. caller.pc + 1 \in Successors(b, caller.pc) /\ Change(call) = 0 /\ call.op \in Producers
  BY <1>10 DEF Successors, Change, Calls, Producers
<1> HIDE DEF caller, call, v, T
<1>16. DOMAIN T \subseteq Nat /\ \A t \in DOMAIN T : Slot(T[t], Len(heap))
  BY <1>9, <1>11, <1>12, <1>13 DEF HasSlots
<1>17. Grows(heap, heap)
  BY HeapNow
<1>18. FrameOK(code, x, heap) /\ Depth_(code, x) = Depth_(code, caller) + Change(call)
  <2>1. DOMAIN caller.temps \subseteq DOMAIN T /\ call.dst \in DOMAIN T
    BY <1>13
  <2> QED
    <3>1. PICK f, q : f = caller /\ q = caller.pc + 1
      OBVIOUS
    <3>2. /\ IsLawful(code) /\ Grows(heap, heap) /\ FrameOK(code, f, heap)
          /\ q \in Successors(code.bodies[f.fn], f.pc)
          /\ DOMAIN f.temps \subseteq DOMAIN T
          /\ DOMAIN T \subseteq Nat /\ \A t \in DOMAIN T : Slot(T[t], Len(heap))
          /\ At(code, f) = call /\ At(code, f).dst \in DOMAIN T
      BY <1>3, <1>6, <1>9, <1>15, <1>16, <1>17, <2>1, <3>1
    <3>3. x = [fn |-> f.fn, pc |-> q, loaded |-> <<>>, base |-> f.base, temps |-> T]
      BY <3>1
    <3> HIDE DEF x
    <3>4. FrameOK(code, x, heap) /\ Depth_(code, x) = Depth_(code, f) + Change(At(code, f))
      BY <3>2, <3>3, FrameMoves
    <3> QED
      BY <3>1, <3>2, <3>4
<1>19. Depth_(code, x) = Len(shadow)
  BY <1>3, <1>6, <1>7, <1>15, <1>18
<1>20. x.fn = caller.fn /\ x.base = caller.base
  OBVIOUS
<1> HIDE DEF x
<1>21. StackOK(code, Append(SubSeq(frames, 1, n - 2), x), heap, Depth_(code, x))
  BY <1>1, <1>4, <1>18, <1>20, Returning DEF caller
<1>22. frames' = Append(SubSeq(frames, 1, n - 2), x)
  BY <1>1, <1>14
<1>23. frames' # <<>>
  <2>1. IsSeq(SubSeq(frames, 1, n - 2)) /\ Len(SubSeq(frames, 1, n - 2)) \in Nat
    <3>1. n - 2 \in Nat /\ n - 2 <= Len(frames)
      BY <1>1, <1>3
    <3> QED
      BY <1>3, <3>1, Beginning
  <2> QED
    BY <1>22, <2>1, Appended, SequenceHas
<1> QED
  BY <1>1, <1>19, <1>21, <1>22, <1>23 DEF IInv, Running, code

\* And from the entry point.
LEMMA MainReturns ==
  ASSUME LawfulOnes, IInv, ReturnFromMain
  PROVE  IInv'
<1>1. /\ Executing("return") /\ Len(frames) = 1 /\ frames' = <<>>
      /\ exe' = exe /\ heap' = heap /\ shadow' = shadow
  BY DEF ReturnFromMain
<1>2. Running /\ Instr.op = "return"
  BY <1>1, Executed
<1>3. /\ IsLawful(code) /\ Frame = frames[1] /\ FrameOK(code, Frame, heap)
      /\ Depth_(code, Frame) = Len(shadow) /\ Body = code.bodies[Frame.fn]
  BY <1>1, <1>2, UnderWay
<1>4. Frame.base = 0
  BY <1>1, <1>3 DEF IInv, StackOK
<1>5. Frame.fn \in DOMAIN code.bodies /\ Frame.pc \in 1..Len(Body)
  BY <1>3 DEF FrameOK
<1>6. IsBody(code, Body)
  BY <1>3, <1>5 DEF IsLawful
<1>7. DepthAt(Body, Frame.pc) = 0
  BY <1>2, <1>5, <1>6 DEF IsBody, IsBalanced, Instr
<1>8. Len(shadow) = 0
  BY <1>3, <1>4, <1>7 DEF Depth_
<1>9. shadow = <<>>
  BY <1>8, SequenceHas DEF IInv, ShadowOK
<1> QED
  BY <1>1, <1>2, <1>9, Ending

-----------------------------------------------------------------------------
(* The invariant, and what it says.                                        *)

LEMMA InitiallyIInv ==
  ASSUME LawfulOnes, Init
  PROVE  IInv
<1>1. exe \in Executables /\ heap = <<>> /\ shadow = <<>>
  BY DEF Init
<1>2. <<>> \in Seq({}) /\ Len(<<>>) = 0
  BY EmptySeq
<1>3. IsSeq(<<>>)
  BY <1>2, Sequence
<1>4. HeapOK(code, heap) /\ ShadowOK(shadow) /\ Len(shadow) = 0
  BY <1>1, <1>2, <1>3 DEF HeapOK, ShadowOK
<1>5. CASE ~ code.ok
  <2>1. frames = <<>>
    BY <1>5 DEF Init
  <2>2. StackOK(code, frames, heap, Len(shadow))
    BY <2>1, NoCalls
  <2> QED
    BY <1>1, <1>4, <2>1, <2>2 DEF IInv, Running
<1>6. CASE code.ok
  <2> DEFINE x == [fn |-> MainName, pc |-> 1, loaded |-> <<>>, base |-> 0, temps |-> NoTemps]
             b == code.bodies[MainName]
  <2>1. frames = <<x>>
    BY <1>6 DEF Init
  <2>2. IsLawful(code)
    BY <1>1, <1>6 DEF LawfulOnes, code
  <2>3. MainName \in DOMAIN code.bodies /\ Inputs(b) = {}
    BY <2>2 DEF IsLawful
  <2>4. 1 \in 1..Len(b) /\ DepthAt(b, 1) = 0 /\ \A t \in Reads(b) : 1 \in Before(b, t)
    BY <2>2, <2>3, AtTheStart
  <2>5. /\ x.fn = MainName /\ x.pc = 1 /\ x.loaded = <<>> /\ x.base = 0 /\ x.temps = NoTemps
        /\ IsFrame(x)
    BY DEF IsFrame
  <2> HIDE DEF x
  <2>6. DOMAIN x.temps = {}
    BY <2>5 DEF NoTemps
  <2>7. FrameOK(code, x, heap)
    <3>1. HasSlots(x, Len(heap))
      BY <2>6 DEF HasSlots
    <3>2. Fills(code, x)
      BY <2>3, <2>4, <2>5 DEF Fills
    <3>3. Loads(At(code, x), x.loaded, heap)
      BY <2>5, NothingLoaded
    <3> QED
      BY <2>3, <2>4, <2>5, <3>1, <3>2, <3>3 DEF FrameOK
  <2>8. Depth_(code, x) = 0
    BY <2>4, <2>5 DEF Depth_
  <2>9. frames \in Seq({x}) /\ Len(frames) = 1 /\ frames[1] = x
    BY <2>1
  <2>10. IsSeq(frames)
    BY <2>9, Sequence
  <2>11. /\ \A i \in 1..Len(frames) : i = 1 /\ i = Len(frames) /\ frames[i] = x
         /\ 1..Len(frames) - 1 = {}
    BY <2>9
  <2>12. StackOK(code, frames, heap, 0)
    BY <2>5, <2>7, <2>8, <2>9, <2>10, <2>11 DEF StackOK
  <2>13. frames # <<>>
    BY <2>9, <2>10, SequenceHas
  <2> QED
    BY <1>1, <1>4, <1>6, <2>12, <2>13 DEF IInv, Running
<1> QED
  BY <1>5, <1>6

\* A stuttering step.
LEMMA UnchangedIInv ==
  ASSUME IInv, UNCHANGED vars
  PROVE  IInv'
BY DEF IInv, vars, code, Running

\* Each action of the program preserves the invariant.
LEMMA NextPreservesIInv ==
  ASSUME LawfulOnes, IInv, Next
  PROVE  IInv'
<1>1. CASE LoadString \/ LoadOperand \/ AllocateNew \/ ConcatCoerce
  BY <1>1, StringsLoaded, OperandsLoaded, ObjectsMade, NumbersCoerced
<1>2. CASE DoCopy \/ DoBinOp \/ DoUnOp \/ DoGetField \/ DoSetField
  BY <1>2, Copies, BinaryOperations, UnaryOperations, FieldsRead, FieldsWritten
<1>3. CASE DoLabel \/ DoJump \/ DoJumpIf \/ DoShadowPush \/ DoShadowPop
  BY <1>3, LabelsPassed, Jumps, Branches, Pushes, Pops_
<1>4. CASE Concat \/ ConcatCopy \/ NumberToString \/ RangeNew \/ DoPrint
  BY <1>4, Concatenates, ConcatenationCopied, NumbersConverted, RangesMade, Prints
<1>5. CASE StringEq \/ TypeTest \/ Downcast
  BY <1>5, StringsCompared, TypesTested, Downcasts
<1>6. CASE VectorNew \/ ObjArrayNew \/ VectorPush \/ DoGetIndex \/ DoSetIndex
  BY <1>6, VectorsMade, ObjectArraysMade, VectorsGrow, ElementsRead, ElementsWritten
<1>7. CASE CallFunction \/ CallStatic \/ CallMethod \/ CallInit
  BY <1>7, FunctionsCalled, StaticsCalled, MethodsCalled, ConstructorsCalled
<1>8. CASE RangeNext \/ RangeCurrent \/ VectorNext \/ VectorCurrent \/ VectorSize
  BY <1>8, RangesMove, RangesRead, VectorsMove, VectorsRead, VectorsMeasured
<1>9. CASE DoReturn \/ ReturnFromMain
  BY <1>9, Returns, MainReturns
<1>10. CASE Terminated
  BY <1>10, UnchangedIInv DEF Terminated
<1> QED
  BY <1>1, <1>2, <1>3, <1>4, <1>5, <1>6, <1>7, <1>8, <1>9, <1>10 DEF Next

\* However long lawful code runs, its frames, its heap and its shadow stack
\* are what its text says of the places the frames have come to (emit.rs).
THEOREM InductiveInvariant ==
  ASSUME LawfulOnes
  PROVE  Spec => []IInv
<1>1. Init => IInv
  BY InitiallyIInv
<1>2. IInv /\ [Next]_vars => IInv'
  BY NextPreservesIInv, UnchangedIInv
<1> QED
  BY <1>1, <1>2, PTL DEF Spec

\* The state is well formed: program counters inside their functions, bases
\* inside the shadow stack, references to objects that were allocated.
THEOREM TypeCorrect ==
  ASSUME LawfulOnes
  PROVE  Spec => []TypeOK
<1>1. IInv => TypeOK
  <2> SUFFICES ASSUME IInv PROVE TypeOK
    OBVIOUS
  <2>1. /\ IsSeq(frames) /\ Len(frames) \in Nat /\ DOMAIN frames = 1..Len(frames)
        /\ StackOK(code, frames, heap, Len(shadow))
    BY SequenceHas DEF IInv, StackOK
  <2>2. DOMAIN heap = 1..Len(heap)
    BY HeapNow
  <2>3. ASSUME NEW i \in DOMAIN frames
        PROVE  /\ frames[i].pc \in DOMAIN code.bodies[frames[i].fn]
               /\ frames[i].base \in 0..Len(shadow)
    <3>1. Running
      BY <2>1, <2>3, SequenceHas DEF Running
    <3>2. /\ IsLawful(code) /\ Frame = frames[Len(frames)] /\ FrameOK(code, Frame, heap)
          /\ Depth_(code, Frame) = Len(shadow) /\ Len(shadow) \in Nat
      BY <3>1, UnderWay
    <3>3. FrameOK(code, frames[i], heap) /\ frames[i].base <= Frame.base
      BY <2>1, <2>3, <3>2 DEF StackOK
    <3>4. /\ frames[i].base \in Nat /\ frames[i].fn \in DOMAIN code.bodies
          /\ frames[i].pc \in 1..Len(code.bodies[frames[i].fn])
          /\ Frame.base \in Nat /\ Frame.fn \in DOMAIN code.bodies
          /\ Frame.pc \in 1..Len(code.bodies[Frame.fn])
      BY <3>2, <3>3 DEF FrameOK
    <3>5. frames[i].pc \in DOMAIN code.bodies[frames[i].fn]
      BY <3>2, <3>4, LawfulBody
    <3>6. DepthAt(code.bodies[Frame.fn], Frame.pc) \in Nat
      BY <3>2, <3>4, LawfulBody
    <3>7. Frame.base <= Len(shadow)
      BY <3>2, <3>4, <3>6 DEF Depth_
    <3> QED
      BY <3>2, <3>3, <3>4, <3>5, <3>7
  <2>4. ASSUME NEW i \in DOMAIN frames, NEW t \in DOMAIN frames[i].temps
        PROVE  /\ t \in Nat /\ frames[i].temps[t].k \in {"num", "ref", "null"}
               /\ frames[i].temps[t].k = "ref" => frames[i].temps[t].v \in DOMAIN heap
    <3>1. HasSlots(frames[i], Len(heap))
      BY <2>1, <2>4 DEF StackOK, FrameOK
    <3> QED
      BY <2>2, <2>4, <3>1 DEF HasSlots, Slot
  <2>5. \A i \in DOMAIN shadow : shadow[i].k \in {"ref", "null"}
    BY SequenceHas DEF IInv, ShadowOK
  <2> QED
    BY <2>3, <2>4, <2>5 DEF TypeOK
<1> QED
  BY <1>1, InductiveInvariant, PTL

\* Whatever path a function takes, it pops only what it pushed itself, and
\* leaves the shadow stack as deep as it found it; a program that has ended
\* leaves it empty (lowerer.rs emit_let, gc.c hulk_shadow_pop).
THEOREM ShadowStackBalanced ==
  ASSUME LawfulOnes
  PROVE  Spec => []ShadowBalanced
<1>1. IInv => ShadowBalanced
  <2> SUFFICES ASSUME IInv PROVE ShadowBalanced
    OBVIOUS
  <2>1. ~ Running => shadow = <<>>
    BY DEF IInv
  <2>2. ASSUME Running
        PROVE  /\ Instr.op = "pop" => Len(shadow) > Frame.base
               /\ Instr.op = "return" => Len(shadow) = Frame.base
    <3>1. /\ IsLawful(code) /\ FrameOK(code, Frame, heap) /\ Body = code.bodies[Frame.fn]
          /\ Depth_(code, Frame) = Len(shadow)
      BY <2>2, UnderWay
    <3>2. Frame.fn \in DOMAIN code.bodies /\ Frame.pc \in 1..Len(Body) /\ Frame.base \in Nat
      BY <3>1 DEF FrameOK
    <3>3. IsBody(code, Body)
      BY <3>1, <3>2 DEF IsLawful
    <3>4. /\ DepthAt(Body, Frame.pc) \in Nat
          /\ Instr.op = "pop" => DepthAt(Body, Frame.pc) > 0
          /\ Instr.op = "return" => DepthAt(Body, Frame.pc) = 0
      BY <3>2, <3>3 DEF IsBody, IsBalanced, Instr
    <3> QED
      BY <3>1, <3>2, <3>4 DEF Depth_
  <2> QED
    BY <2>1, <2>2 DEF ShadowBalanced
<1> QED
  BY <1>1, InductiveInvariant, PTL

\* No path reads the slot of a temporary before something was stored there
\* (emit.rs create_temp_allocas).
THEOREM ReadsFindStores ==
  ASSUME LawfulOnes
  PROVE  Spec => []NoUndefinedRead
<1>1. IInv => NoUndefinedRead
  <2> SUFFICES ASSUME IInv, LoadingOperand, NextOperand.k = "temp"
               PROVE  NextOperand.v \in DOMAIN Frame.temps
    BY DEF NoUndefinedRead
  <2>1. Running /\ NextIndex \in 1..Len(Instr.args)
    BY StillLoading
  <2>2. FrameOK(code, Frame, heap) /\ Body = code.bodies[Frame.fn]
    BY <2>1, UnderWay
  <2>3. Frame.pc \in 1..Len(Body) /\ Fills(code, Frame)
    BY <2>2 DEF FrameOK
  <2>4. NextOperand.v \in ReadsAt(Body, Frame.pc)
    BY <2>1 DEF ReadsAt, NextOperand, Instr
  <2>5. NextOperand.v \in Reads(Body)
    BY <2>3, <2>4 DEF Reads
  <2>6. Frame.pc \in Before(Body, NextOperand.v) => NextOperand.v \in Inputs(Body)
    BY <2>4, <2>5 DEF Inputs
  <2> QED
    BY <2>2, <2>3, <2>5, <2>6 DEF Fills
<1> QED
  BY <1>1, InductiveInvariant, PTL
=============================================================================
