------------------------------ MODULE Mutator ------------------------------
(***************************************************************************)
(* A compiled program running: the BANNER code of Lowering executed the    *)
(* way hulk-codegen's LLVM code does (emit.rs, emit_call.rs, emit_mem.rs,  *)
(* emit_ops.rs) over the runtime of src/runtime, with a collection         *)
(* wherever an allocation may start one.                                   *)
(*                                                                         *)
(* An instruction is executed in two stages, because a string literal is   *)
(* allocated at the moment its operand is loaded (load_val): first the     *)
(* operands, one by one, then the instruction.  hulk_alloc frees what the  *)
(* shadow stack does not reach (HulkGC proves that it does exactly that),  *)
(* so here a collection is one atomic part of an allocation.  Its trigger, *)
(* the byte count, is abstracted to a choice.                              *)
(***************************************************************************)
EXTENDS Rooting, Numbers, SequencesExt, Reachability

CONSTANT Executables   \* [code, collects, says]: what Compile makes of a
                       \* source, whether its heap ever reaches the threshold,
                       \* and what the source prints by its syntax alone

VARIABLES exe,      \* the program being run
          frames,   \* the calls under way, the innermost last
          heap,     \* every object ever allocated, [tag, words, live]
          shadow,   \* the shadow stack, a sequence of values
          out       \* what has been printed

vars == <<exe, frames, heap, shadow, out>>

ASSUME ExecutablesAssumption == \A e \in Executables : e.collects \in BOOLEAN

code == exe.code

Num(n)  == [k |-> "num", v |-> n]
Ref(o)  == [k |-> "ref", v |-> o]
Null    == [k |-> "null", v |-> 0]
Bit(b)  == Num(IF b THEN 1 ELSE 0)
Raw(vs) == [k |-> "raw", v |-> vs]    \* C memory behind an object

-----------------------------------------------------------------------------
\* A call: its parameters are the first temporaries.
NewFrame(fn, args) ==
  [fn |-> fn, pc |-> 1, loaded |-> <<>>, base |-> Len(shadow),
   temps |-> [t \in 0..(Len(args) - 1) |-> args[t + 1]]]

NoTemps == [t \in {} |-> Null]

Init ==
  /\ exe \in Executables
  /\ heap = <<>> /\ shadow = <<>> /\ out = <<>>
  /\ frames = IF code.ok THEN <<[fn |-> MainName, pc |-> 1, loaded |-> <<>>, base |-> 0,
                                 temps |-> NoTemps]>>
              ELSE <<>>

-----------------------------------------------------------------------------
(* The instruction under way.                                              *)

Running == frames # <<>>
Frame   == Last(frames)
Body    == code.bodies[Frame.fn]
Instr   == Body[Frame.pc]
Loaded  == Frame.loaded

\* The entry point does not load the value it returns (emit_return_for_fn);
\* new allocates before it loads its arguments (emit_new).
Operands    == IF Instr.op = "return" /\ Frame.fn = MainName THEN 0
               ELSE Len(Instr.args)
NextIndex   == IF Instr.op = "new" THEN Len(Loaded) ELSE Len(Loaded) + 1
NextOperand == Instr.args[NextIndex]

IsConcat       == Instr.op = "call" /\ Instr.f = "__hulk_concat"
\* A number among the operands of a concatenation is converted as soon as it
\* is loaded, before the next one is (coerce_val_for_concat).
CoercionDue    == Running /\ IsConcat /\ Loaded # <<>> /\ Last(Loaded).k = "num"
LoadingOperand == Running /\ ~ CoercionDue /\ NextIndex \in 1..Operands
Executing(op)  == Running /\ ~ CoercionDue /\ Instr.op = op
                  /\ NextIndex = Operands + 1

\* The slots of the temporaries with v stored in d's.
Stored(temps, d, v) == [t \in DOMAIN temps \cup {d} |-> IF t = d THEN v ELSE temps[t]]

SetFrame(f) == frames' = [frames EXCEPT ![Len(frames)] = f]
Continue    == SetFrame([Frame EXCEPT !.pc = @ + 1, !.loaded = <<>>])
GoTo(l)     == SetFrame([Frame EXCEPT !.loaded = <<>>,
                 !.pc = CHOOSE i \in 1..Len(Body) : IsLabel(Body, i, l)])
Define(v)   == SetFrame([Frame EXCEPT !.pc = @ + 1, !.loaded = <<>>,
                                      !.temps = Stored(@, Instr.dst, v)])
Load(v)     == SetFrame([Frame EXCEPT !.loaded = Append(@, v)])

-----------------------------------------------------------------------------
(* Allocation and collection.                                              *)

IsLive(v)  == v.k = "ref" => heap[v.v].live
LiveSet    == {o \in DOMAIN heap : heap[o].live}
RefsIn(vs) == {vs[i].v : i \in {j \in DOMAIN vs : vs[j].k = "ref"}}
\* What mark follows of an object: the words its tag names.
TracedIn(x) == [f \in Traced(code, x.tag) \cap DOMAIN x.words |-> x.words[f]]
Survivors   == ReachableFrom(RefsIn(shadow),
                             [o \in LiveSet |-> RefsIn(TracedIn(heap[o]))])

\* The heap an allocation starts from: collected or not.
Heaps == {heap} \cup
         (IF exe.collects
          THEN {[o \in DOMAIN heap |->
                   [heap[o] EXCEPT !.live = @ /\ o \in Survivors]]}
          ELSE {})

\* hulk_alloc: the payload is zeroed.
Allocate(h, tag, words) ==
  heap' = Append(h, [tag |-> tag, words |-> words, live |-> TRUE])
NewObject == Ref(Len(heap) + 1)
NoWords   == [f \in {} |-> Null]
Text(n)   == [text |-> Num(n)]

HasTag(v, tags) == v.k = "ref" /\ heap[v.v].tag \in tags
IsText(v)  == HasTag(v, {"String"}) /\ "text" \in DOMAIN heap[v.v].words
TextOf(v)  == heap[v.v].words["text"].v
\* An object of one of the program's types that has the field.  What follows a
\* null pointer, or a field that is not there, is no step.
HasField(v, f) == HasTag(v, DOMAIN code.types) /\ f \in DOMAIN heap[v.v].words
\* %g prints a digit as one character; no program here needs more than two.
Digits(n) == IF n \in 0..9 THEN 1 ELSE 2

\* What the instruction under way dereferences once its operands are loaded.
Touched ==
  CASE Instr.op \in {"get", "set", "method", "getindex", "setindex"} -> {Loaded[1]}
    [] Instr.op = "call" /\ Instr.f \in {"__hulk_is", "__hulk_as", "__vec_push"} -> {Loaded[1]}
    [] Instr.op = "call" /\ Instr.f \in {"__hulk_concat", "__hulk_str_eq", "print"} ->
         Range(Loaded)
    [] OTHER -> {}

\* The slot of a method in the vtable of T: the nearest ancestor's.
Implements(A, m) == A \in DOMAIN code.types /\ m \in code.types[A].methods
Owners(T, m)     == {n \in DOMAIN Ancestry(code, T) : Implements(Ancestry(code, T)[n], m)}
Owner(T, m)      == Ancestry(code, T)[CHOOSE n \in Owners(T, m) : \A p \in Owners(T, m) : n <= p]
Implementation(T, m) == Owner(T, m) \o "." \o m

\* load_val of a literal: materialize_string allocates.
LoadString ==
  /\ LoadingOperand /\ NextOperand.k = "str"
  /\ \E h \in Heaps : Allocate(h, "String", Text(NextOperand.v))
  /\ Load(NewObject)
  /\ UNCHANGED <<exe, shadow, out>>

LoadOperand ==
  /\ LoadingOperand /\ NextOperand.k # "str"
  /\ NextOperand.k = "temp" => NextOperand.v \in DOMAIN Frame.temps
  /\ Load(IF NextOperand.k = "temp" THEN Frame.temps[NextOperand.v] ELSE NextOperand)
  /\ UNCHANGED <<exe, heap, shadow, out>>

\* emit_new, before the arguments.
AllocateNew ==
  /\ Running /\ Instr.op = "new" /\ Loaded = <<>>
  /\ \E h \in Heaps :
       Allocate(h, Instr.f, [a \in FieldsOf(code, Instr.f) |-> Null])
  /\ Load(NewObject)
  /\ UNCHANGED <<exe, shadow, out>>

ConcatCoerce ==
  /\ CoercionDue
  /\ \E h \in Heaps :
       Allocate(h, "String", Text(Digits(Last(Loaded).v)))
  /\ SetFrame([Frame EXCEPT !.loaded = Append(Front(@), NewObject)])
  /\ UNCHANGED <<exe, shadow, out>>

-----------------------------------------------------------------------------
(* The instructions.                                                       *)

DoCopy ==
  /\ Executing("copy")
  /\ Define(Loaded[1])
  /\ UNCHANGED <<exe, heap, shadow, out>>

\* A comparison gives a bit, which is what and and or take; what is compared
\* by == is of one kind.
Computed(op, l, r) ==
  CASE op = "+" -> Num(l.v + r.v)
    [] op = "-" -> Num(l.v - r.v)
    [] op \in {"*", "&"} -> Num(l.v * r.v)
    [] op = "/" -> Num(Quotient(l.v, r.v))
    [] op = "%" -> Num(Remainder(l.v, r.v))
    [] op = "^" -> Num(Power(l.v, r.v))
    [] op = "<" -> Bit(l.v < r.v)
    [] op = "<=" -> Bit(l.v <= r.v)
    [] op = ">" -> Bit(l.v > r.v)
    [] op = ">=" -> Bit(l.v >= r.v)
    [] op = "==" -> Bit(l.k = r.k /\ l.v = r.v)
    [] op = "!=" -> Bit(~ (l.k = r.k /\ l.v = r.v))
    [] op = "|" -> Bit(l.v + r.v > 0)

DoBinOp ==
  /\ Executing("bin")
  /\ Define(Computed(Instr.f, Loaded[1], Loaded[2]))
  /\ UNCHANGED <<exe, heap, shadow, out>>

DoUnOp ==
  /\ Executing("un")
  /\ Define(Num(IF Instr.f = "not" THEN 1 - Loaded[1].v ELSE 0 - Loaded[1].v))
  /\ UNCHANGED <<exe, heap, shadow, out>>

DoGetField ==
  /\ Executing("get") /\ HasField(Loaded[1], Instr.f)
  /\ Define(heap[Loaded[1].v].words[Instr.f])
  /\ UNCHANGED <<exe, heap, shadow, out>>

DoSetField ==
  /\ Executing("set") /\ HasField(Loaded[1], Instr.f)
  /\ heap' = [heap EXCEPT ![Loaded[1].v].words[Instr.f] = Loaded[2]]
  /\ Continue
  /\ UNCHANGED <<exe, shadow, out>>

\* Wrong: the branch that ends a block falling through to a label is built
\* after the builder has moved, and leads from the label's block to itself.
LabelToItself ==
  /\ Executing("label")
  /\ GoTo(Instr.to)
  /\ UNCHANGED <<exe, heap, shadow, out>>

DoLabel ==
  /\ Executing("label")
  /\ Continue
  /\ UNCHANGED <<exe, heap, shadow, out>>

DoJump ==
  /\ Executing("jump")
  /\ GoTo(Instr.to)
  /\ UNCHANGED <<exe, heap, shadow, out>>

DoJumpIf ==
  /\ Executing("jumpif")
  /\ IF Loaded[1].v # 0 THEN GoTo(Instr.to) ELSE Continue
  /\ UNCHANGED <<exe, heap, shadow, out>>

\* emit_shadow_push: coerce_to_ptr makes NULL of a number.
DoShadowPush ==
  /\ Executing("push")
  /\ shadow' = Append(shadow, IF Loaded[1].k = "num" THEN Null ELSE Loaded[1])
  /\ Continue
  /\ UNCHANGED <<exe, heap, out>>

\* hulk_shadow_pop aborts on an empty stack; ShadowBalanced says it never is.
DoShadowPop ==
  /\ Executing("pop")
  /\ shadow # <<>>
  /\ shadow' = Front(shadow)
  /\ Continue
  /\ UNCHANGED <<exe, heap, out>>

\* hulk_string_concat: the lengths, the allocation, and then the characters of
\* both operands again.
Concat ==
  /\ Executing("call") /\ IsConcat
  /\ IsText(Loaded[1]) /\ IsText(Loaded[2])
  /\ \E h \in Heaps : Allocate(h, "String", NoWords)
  /\ Load(NewObject)
  /\ UNCHANGED <<exe, shadow, out>>

ConcatCopy ==
  /\ Running /\ IsConcat /\ Len(Loaded) = 3
  /\ heap' = [heap EXCEPT ![Loaded[3].v].words =
                Text(TextOf(Loaded[1]) + TextOf(Loaded[2]))]
  /\ Define(Loaded[3])
  /\ UNCHANGED <<exe, shadow, out>>

NumberToString ==
  /\ Executing("call") /\ Instr.f = "hulk_number_to_string"
  /\ \E h \in Heaps : Allocate(h, "String", Text(Digits(Loaded[1].v)))
  /\ Define(NewObject)
  /\ UNCHANGED <<exe, shadow, out>>

\* A value where a double is wanted: the bits of a pointer are a denormal one, as
\* good as 0.
Double(v) == IF v.k = "num" THEN v ELSE Num(0)

\* hulk_range_new starts one before the first number.
RangeNew ==
  /\ Executing("call") /\ Instr.f = "range"
  /\ \E h \in Heaps :
       Allocate(h, "Range", [current |-> Num(Loaded[1].v - 1), max |-> Double(Loaded[2])])
  /\ Define(NewObject)
  /\ UNCHANGED <<exe, shadow, out>>

DoPrint ==
  /\ Executing("call") /\ Instr.f = "print"
  /\ out' = Append(out, IF Loaded[1].k = "ref"
                        THEN [k |-> "str", v |-> TextOf(Loaded[1])]
                        ELSE Num(Loaded[1].v))
  /\ Define(Null)
  /\ UNCHANGED <<exe, heap, shadow>>

\* The same pointer, or two strings of the same text.
StringEq ==
  /\ Executing("call") /\ Instr.f = "__hulk_str_eq"
  /\ Define(Bit(\/ Loaded[1] = Loaded[2]
                \/ /\ Loaded[1].k = "ref" /\ Loaded[2].k = "ref"
                   /\ TextOf(Loaded[1]) = TextOf(Loaded[2])))
  /\ UNCHANGED <<exe, heap, shadow, out>>

\* __hulk_is climbs the tags; a string's has no parent.
HasType(v, T) == v.k = "ref" /\ (heap[v.v].tag = T \/ T \in Range(Ancestry(code, heap[v.v].tag)))

TypeTest ==
  /\ Executing("call") /\ Instr.f = "__hulk_is"
  /\ Define(Bit(HasType(Loaded[1], Loaded[2].v)))
  /\ UNCHANGED <<exe, heap, shadow, out>>

\* __hulk_as ends the program when the object is of another type.
Downcast ==
  /\ Executing("call") /\ Instr.f = "__hulk_as"
  /\ IF HasType(Loaded[1], Loaded[2].v) THEN Define(Loaded[1]) /\ UNCHANGED shadow
     ELSE frames' = <<>> /\ shadow' = <<>>
  /\ UNCHANGED <<exe, heap, out>>

\* A vector's elements are not on the collector's heap, and pos, its position as
\* an iterator, starts before the first.
VectorNew ==
  /\ Executing("call") /\ Instr.f \in {"__vec_new", "__arr_new"}
  /\ \E h \in Heaps :
       Allocate(h, "Vector",
         [pos |-> Num(0),
          items |-> Raw(IF Instr.f = "__vec_new" THEN <<>>
                        ELSE [i \in 1..Loaded[1].v |-> Num(0)])])
  /\ Define(NewObject)
  /\ UNCHANGED <<exe, shadow, out>>

\* An array of objects is no iterator, and is never without an element.
ObjArrayNew ==
  /\ Executing("call") /\ Instr.f = "__objarr_new"
  /\ \E h \in Heaps :
       Allocate(h, "ObjArray",
         [items |-> Raw([i \in 1..(IF Loaded[1].v > 0 THEN Loaded[1].v ELSE 4) |-> Null])])
  /\ Define(NewObject)
  /\ UNCHANGED <<exe, shadow, out>>

Items(v) == heap[v.v].words.items.v

\* What an element of a can hold of v: a vector's is a double, an object array's a
\* pointer, and coerce_to_ptr makes NULL of a number.
Element(a, v) ==
  IF heap[a.v].tag = "Vector" THEN Double(v)
  ELSE (IF v.k = "num" THEN Null ELSE v)

VectorPush ==
  /\ Executing("call") /\ Instr.f = "__vec_push" /\ HasTag(Loaded[1], {"Vector"})
  /\ heap' = [heap EXCEPT ![Loaded[1].v].words.items =
                Raw(Append(@.v, Element(Loaded[1], Loaded[2])))]
  /\ Define(Loaded[1])
  /\ UNCHANGED <<exe, shadow, out>>

\* What an index outside the array reads or writes is no step either.
HasItem(v, n) == HasTag(v, {"Vector", "ObjArray"}) /\ n \in DOMAIN Items(v)

DoGetIndex ==
  /\ Executing("getindex") /\ HasItem(Loaded[1], Loaded[2].v + 1)
  /\ Define(Items(Loaded[1])[Loaded[2].v + 1])
  /\ UNCHANGED <<exe, heap, shadow, out>>

DoSetIndex ==
  /\ Executing("setindex") /\ HasItem(Loaded[1], Loaded[2].v + 1)
  /\ heap' = [heap EXCEPT ![Loaded[1].v].words.items =
                Raw([@.v EXCEPT ![Loaded[2].v + 1] = Element(Loaded[1], Loaded[3])])]
  /\ Continue
  /\ UNCHANGED <<exe, shadow, out>>

\* A call of the program's own code.
Enters(fn, args) ==
  /\ frames' = Append(frames, NewFrame(fn, args))
  /\ UNCHANGED <<exe, heap, shadow, out>>

CallFunction ==
  /\ Executing("call") /\ Instr.f \notin Runtime
  /\ Enters(Instr.f, Loaded)

CallStatic ==
  /\ Executing("static")
  /\ Enters(Instr.f, Loaded)

\* A method of a number would be looked up in what NULL points to.
ExecutingOn(tags) == Executing("method") /\ HasTag(Loaded[1], tags)

CallMethod ==
  /\ ExecutingOn(DOMAIN code.types)
  /\ Owners(heap[Loaded[1].v].tag, Instr.f) # {}
  /\ Enters(Implementation(heap[Loaded[1].v].tag, Instr.f), Loaded)

CallInit ==
  /\ Executing("new")
  /\ Enters(Instr.f \o ".__init__", Loaded)

RangeNext ==
  /\ ExecutingOn({"Range"}) /\ Instr.f = "next"
  /\ LET o == Loaded[1].v
         n == heap[o].words.current.v + 1
     IN  /\ heap' = [heap EXCEPT ![o].words.current = Num(n)]
         /\ Define(Bit(n < heap[o].words.max.v))
  /\ UNCHANGED <<exe, shadow, out>>

RangeCurrent ==
  /\ ExecutingOn({"Range"}) /\ Instr.f = "current"
  /\ Define(heap[Loaded[1].v].words.current)
  /\ UNCHANGED <<exe, heap, shadow, out>>

\* The position of a vector is the vector's, and nothing resets it.
VectorNext ==
  /\ ExecutingOn({"Vector"}) /\ Instr.f = "next"
  /\ LET o == Loaded[1].v
         n == heap[o].words.pos.v + 1
     IN  /\ heap' = [heap EXCEPT ![o].words.pos = Num(n)]
         /\ Define(Bit(n <= Len(Items(Loaded[1]))))
  /\ UNCHANGED <<exe, shadow, out>>

VectorCurrent ==
  /\ ExecutingOn({"Vector"}) /\ Instr.f = "current"
  /\ HasItem(Loaded[1], heap[Loaded[1].v].words.pos.v)
  /\ Define(Items(Loaded[1])[heap[Loaded[1].v].words.pos.v])
  /\ UNCHANGED <<exe, heap, shadow, out>>

VectorSize ==
  /\ ExecutingOn({"Vector", "ObjArray"}) /\ Instr.f = "size"
  /\ Define(Num(Len(Items(Loaded[1]))))
  /\ UNCHANGED <<exe, heap, shadow, out>>

\* A constructor's result is dropped: new yields the object it allocated.
DoReturn ==
  /\ Executing("return") /\ Len(frames) > 1
  /\ LET caller == frames[Len(frames) - 1]
         call   == code.bodies[caller.fn][caller.pc]
     IN  frames' = Append(SubSeq(frames, 1, Len(frames) - 2),
           [caller EXCEPT !.pc = @ + 1, !.loaded = <<>>,
              !.temps = Stored(@, call.dst, IF call.op = "new" THEN caller.loaded[1]
                                            ELSE Loaded[1])])
  /\ UNCHANGED <<exe, heap, shadow, out>>

ReturnFromMain ==
  /\ Executing("return") /\ Len(frames) = 1
  /\ frames' = <<>>
  /\ UNCHANGED <<exe, heap, shadow, out>>

Terminated == ~ Running /\ UNCHANGED vars

Next ==
  \/ LoadString \/ LoadOperand \/ AllocateNew \/ ConcatCoerce
  \/ DoCopy \/ DoBinOp \/ DoUnOp \/ DoGetField \/ DoSetField
  \/ DoLabel \/ DoJump \/ DoJumpIf \/ DoShadowPush \/ DoShadowPop
  \/ Concat \/ ConcatCopy \/ NumberToString \/ RangeNew \/ DoPrint
  \/ StringEq \/ TypeTest \/ Downcast
  \/ VectorNew \/ ObjArrayNew \/ VectorPush \/ DoGetIndex \/ DoSetIndex
  \/ CallFunction \/ CallStatic \/ CallMethod \/ CallInit
  \/ RangeNext \/ RangeCurrent \/ VectorNext \/ VectorCurrent \/ VectorSize
  \/ DoReturn \/ ReturnFromMain \/ Terminated

Spec     == Init /\ [][Next]_vars
FairSpec == Spec /\ WF_vars(Next)

-----------------------------------------------------------------------------
(* Properties.                                                             *)

\* The state is well formed: the program counters stay inside their
\* functions, and every reference is to an object that was allocated.
TypeOK ==
  /\ \A i \in DOMAIN frames :
       /\ frames[i].pc \in DOMAIN code.bodies[frames[i].fn]
       /\ frames[i].base \in 0..Len(shadow)
       /\ \A t \in DOMAIN frames[i].temps :
            /\ t \in Nat
            /\ frames[i].temps[t].k \in {"num", "ref", "null"}
            /\ frames[i].temps[t].k = "ref" =>
                 frames[i].temps[t].v \in DOMAIN heap
  /\ \A i \in DOMAIN shadow : shadow[i].k \in {"ref", "null"}

\* Generated code never follows a reference to an object the collector has
\* freed, and leaves none where the next collection would follow it: on the
\* shadow stack, or in a word of a live object its tag names.  Nor does it leave
\* a number there, which mark would take for an address (gc.c mark, strings.c,
\* emit_mem.rs build_type_tag).
NoDanglingAccess ==
  /\ Running /\ ~ CoercionDue /\ NextIndex > Operands =>
       \A v \in Touched : IsLive(v)
  /\ \A i \in DOMAIN shadow : IsLive(shadow[i])
  /\ \A o \in LiveSet : LET followed == TracedIn(heap[o])
                        IN  \A f \in DOMAIN followed :
                              /\ IsLive(followed[f])
                              /\ exe.collects /\ followed[f].k = "num" => followed[f].v = 0

\* Whatever path a function took through its branches and loops, it leaves
\* the shadow stack as deep as it found it, and has popped only what it pushed
\* itself: one pop more ends the program (lowerer.rs emit_let, gc.c).
ShadowBalanced ==
  /\ Running /\ Instr.op = "pop" => Len(shadow) > Frame.base
  /\ Running /\ Instr.op = "return" => Len(shadow) = Frame.base
  /\ ~ Running => shadow = <<>>

\* No path reads a temporary's slot before something was stored in it: the
\* slots are uninitialised allocas (emit.rs create_temp_allocas).
NoUndefinedRead ==
  LoadingOperand /\ NextOperand.k = "temp" =>
    NextOperand.v \in DOMAIN Frame.temps

\* The compiler makes lawful code (CodeShape): a jump names one place, what is
\* pushed on a path is popped on it, no path comes to a read of a temporary
\* without having stored in it, and callers pass what their callees read
\* (lowerer.rs; rt.rs and emit.rs look at none of it).  And where a collection
\* may start, its code has its references where one finds them (Rooting), but
\* for arrays of objects, whose elements none does.  Both are asked of every
\* program when it starts.
CodeIsLawful ==
  heap = <<>> /\ shadow = <<>> /\ out = <<>> /\ Len(frames) = 1 /\ Frame.pc = 1
    => /\ IsLawful(code)
       /\ exe.collects /\ ~ HasObjectArrays(code) => IsRooted(code)

\* What has been printed is a beginning of what the program prints by its
\* syntax alone, and all of it once it has ended.
PrintsWhatItSays ==
  LET expected == exe.says
  IN  /\ IsPrefix(out, expected)
      /\ ~ Running => out = expected

\* A program whose loops end by its syntax ends when compiled.
ProgramsEnd == <>(~ Running)
=============================================================================
