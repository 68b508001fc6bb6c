----------------------------- MODULE Signatures -----------------------------
(***************************************************************************)
(* The signatures of a program's functions and methods                     *)
(* (src/crates/hulk-codegen/src/codegen.rs, predeclare_all).  The          *)
(* generator does not know what a call returns until it has inferred the   *)
(* callee, which may call it back.  So it first finds which functions      *)
(* return an object of which type, then infers every function four times,  *)
(* each time with the kinds recorded so far, then unifies the kinds of     *)
(* methods that override each other, and last infers each function once    *)
(* more, with the final kinds, to emit it.  TempKinds is the inference of  *)
(* one function.                                                           *)
(*                                                                         *)
(* A name is <<type, short name>>, with "" for the type of a plain         *)
(* function; the code has one map for both and for short names of methods. *)
(* A function is [owner, name, instrs, types, hints, result]: hints are    *)
(* the types its parameters are annotated with, "" without one             *)
(* (param_runtime_hints), result is the temporary it returns (the lowerer  *)
(* emits one return), and a method's temporary 1 is self.  To TempKinds'   *)
(* instructions come "new" (name: its type), "cast" (__hulk_as), "call",   *)
(* "static" and "method" (receiver first in args).  A constant counts as a *)
(* temporary that holds it.                                                *)
(***************************************************************************)
EXTENDS Naturals, Sequences, SequencesExt

CONSTANT Programs     \* each [types, methods, functions], types [name, parent]

VARIABLES prog,
          structs,        \* name -> the type of the object it returns
          ret,            \* name -> the kind it returns
          stage,          \* "structs", "infer", "unify", "emit", "declared"
          round, at,      \* the round, and the index of the function or group
          again,          \* has this turn of the unification changed anything
          fn, kinds, changed, phase     \* the inference of that function

inference == <<fn, kinds, changed, phase>>
vars      == <<prog, structs, ret, stage, round, at, again, fn, kinds, changed, phase>>

Rounds == 4

AnyFunction == [instrs : Seq([op : STRING]), types : Seq(STRING)]

K == INSTANCE TempKinds WITH Functions <- AnyFunction

Name(f)      == <<f.owner, f.name>>
Short(name)  == <<"", name[2]>>
Order        == prog.methods \o prog.functions
Current      == Order[at]

-----------------------------------------------------------------------------
(* Which functions return an object of a known type.                       *)

Find(map, name, default) == IF name \in DOMAIN map THEN map[name] ELSE default
Enter(map, name, v) == [n \in DOMAIN map \cup {name} |-> IF n = name THEN v ELSE map[n]]

\* The type of the object an instruction defines, "" if it is not known.  A
\* method is looked up by its short name.
StructMade(s, ts, i) ==
  CASE i.op = "new"    -> i.name[1]
    [] i.op = "copy"   -> ts[i.args[1]]
    [] i.op = "static" -> Find(s, i.name, "")
    [] i.op \in {"call", "method"} -> Find(s, Short(i.name), "")
    [] OTHER -> ""

Tag(ts, i, made) == IF made = "" THEN ts ELSE [ts EXCEPT ![i.d] = made]
Tagged(s, ts, i) == Tag(ts, i, StructMade(s, ts, i))

\* One function, one pass: of two definitions of its result the last counts.
ReturnStruct(s, f) ==
  LET tags[n \in 0..Len(f.instrs)] ==
        IF n = 0 THEN [t \in DOMAIN f.types |-> ""]
        ELSE Tagged(s, tags[n - 1], f.instrs[n])
  IN  tags[Len(f.instrs)][f.result]

LearnStruct(s, f) ==
  LET made == ReturnStruct(s, f)
  IN  IF made = "" THEN s ELSE Enter(s, Name(f), made)

\* All functions, one after the other, each with what the last one learned.
LearnStructs(s) ==
  LET all == prog.functions \o prog.methods
      learned[n \in 0..Len(all)] ==
        IF n = 0 THEN s ELSE LearnStruct(learned[n - 1], all[n])
  IN  learned[Len(all)]

\* The temporaries whose object's type is known: passes until one finds no
\* new temporary.
TempStructs(s, f) ==
  LET Made(ts, i) == IF i.op = "cast" THEN i.name[1] ELSE StructMade(s, ts, i)
      pass[n \in Nat] ==
        IF n = 0
        THEN [t \in DOMAIN f.types |-> IF t = 1 THEN f.owner ELSE ""]
        ELSE FoldLeft(LAMBDA ts, i : Tag(ts, i, Made(ts, i)), pass[n - 1], f.instrs)
      Grows(n) == \E t \in DOMAIN f.types : pass[n - 1][t] = "" /\ pass[n][t] # ""
  IN  pass[CHOOSE n \in 1..Len(f.types) + 1 :
             ~ Grows(n) /\ \A p \in 1..n - 1 : Grows(p)]

-----------------------------------------------------------------------------
(* The inference of a function under the kinds recorded so far.            *)

FirstKnown(r, names) ==
  LET known == {n \in DOMAIN names : names[n] \in DOMAIN r}
  IN  IF known = {} THEN "Ptr" ELSE r[names[Min(known)]]

\* The kind of what a call, a cast or a new returns: for a method by the type
\* of its receiver if that is known, then by its short name.
Returned(r, ts, i) ==
  CASE i.op = "method" -> FirstKnown(r, <<<<ts[i.args[1]], i.name[2]>>, Short(i.name)>>)
    [] i.op = "static" -> FirstKnown(r, <<i.name, Short(i.name)>>)
    [] i.op = "call"   -> FirstKnown(r, <<i.name>>)
    [] i.op \in {"new", "cast"} -> "Ptr"

Calls == {"new", "cast", "call", "static", "method"}

Resolve(r, s, f) ==
  LET ts == TempStructs(s, f)
  IN  [instrs |-> [n \in DOMAIN f.instrs |->
                     LET i == f.instrs[n]
                     IN  IF i.op \in Calls
                         THEN [i EXCEPT !.op = "produce", !.kind = Returned(r, ts, i)]
                         ELSE i],
       types  |-> f.types]

Infer(r, f) ==
  /\ fn' = Resolve(r, structs', f)
  /\ kinds' = [t \in DOMAIN f.types |-> K!Unknown]
  /\ changed' = FALSE
  /\ phase' = "forward"

\* The kind its body returns (infer_return_kind).
ReturnKind(f) == IF kinds[f.result] = K!Unknown THEN "Ptr" ELSE kinds[f.result]

\* Wrong: the last method of a short name decides its kind.
LastOneWins(r, f, k) == Enter(Enter(r, Name(f), k), Short(Name(f)), k)

\* A method's short name takes its kind if it has none yet, or only Ptr.
Recorded(r, f, k) ==
  LET own == Enter(r, Name(f), k)
  IN  IF f.owner # "" /\ (k # "Ptr" \/ Short(Name(f)) \notin DOMAIN own)
         /\ Find(own, Short(Name(f)), "Ptr") = "Ptr"
      THEN Enter(own, Short(Name(f)), k)
      ELSE own

-----------------------------------------------------------------------------
(* Unification along hierarchies.                                          *)

Parents(types) == [T \in {types[n].name : n \in 1..Len(types)} |->
                     (CHOOSE t \in Range(types) : t.name = T).parent]

\* A type and its ancestors, from the type up.
Chain(types, T) ==
  LET parent == Parents(types)
      up[U \in DOMAIN parent] ==
        <<U>> \o IF parent[U] \in DOMAIN parent THEN up[parent[U]] ELSE <<>>
  IN  up[T]

\* The types that own a method, of the names of methods.
Owners(methods, m) == {n[1] : n \in {x \in methods : x[2] = m}}

Owning(types, T, owners) == SelectSeq(Chain(types, T), LAMBDA U : U \in owners)

\* The group that has one of these types, 0 if there is none.
Existing(gs, owning) == SelectInSeq(gs, LAMBDA g : Range(g) \cap Range(owning) # {})

Merge(g, owning) == g \o SelectSeq(owning, LAMBDA U : U \notin Range(g))

Join(gs, owning) ==
  IF owning = <<>> THEN gs
  ELSE IF Existing(gs, owning) = 0 THEN Append(gs, owning)
  ELSE [gs EXCEPT ![Existing(gs, owning)] = Merge(@, owning)]

\* One group per set of overlapping chains.
Groups(types, owners) ==
  LET groups[n \in 0..Len(types)] ==
        IF n = 0 THEN <<>> ELSE Join(groups[n - 1], Owning(types, types[n].name, owners))
  IN  groups[Len(types)]

\* The first concrete kind of a group.
Best(r, g, m) ==
  LET kind(n)  == Find(r, <<g[n], m>>, "Ptr")
      concrete == {n \in DOMAIN g : kind(n) # "Ptr"}
  IN  IF concrete = {} THEN "Ptr" ELSE kind(Min(concrete))

\* Wrong: the short name follows, the other types of the group do not.
ShortNameFollows(r, g, m) ==
  IF Best(r, g, m) = "Ptr" THEN r ELSE Enter(r, <<"", m>>, Best(r, g, m))

\* A group's methods and the short name take the group's kind.
UnifyGroup(r, g, m) ==
  LET best == Best(r, g, m)
  IN  IF best = "Ptr" THEN r
      ELSE [n \in DOMAIN r \cup {<<"", m>>} |->
              IF n[2] = m /\ n[1] \in Range(g) \cup {""} THEN best ELSE r[n]]

\* The groups of all methods, in the order of a turn of the loop.
AllGroups(types, methods, recorded) ==
  LET IsNew(n) == \A p \in 1..n - 1 : methods[p].name # methods[n].name
      found[n \in 0..Len(methods)] ==
        IF n = 0 THEN <<>>
        ELSE IF ~ IsNew(n) THEN found[n - 1]
        ELSE LET m  == methods[n].name
                 gs == Groups(types, Owners(recorded, m))
             IN  found[n - 1] \o [g \in 1..Len(gs) |-> <<gs[g], m>>]
  IN  found[Len(methods)]

Components == AllGroups(prog.types, prog.methods, {n \in DOMAIN ret : n[1] # ""})

-----------------------------------------------------------------------------
\* What Range and Vector have without a definition.
Seeds == [n \in {<<"", "next">>, <<"", "current">>, <<"", "size">>} |->
            IF n = <<"", "next">> THEN "I1" ELSE "F64"]

Init ==
  /\ prog \in Programs
  /\ structs = [n \in {} |-> ""]
  /\ ret = Seeds
  /\ stage = "structs"
  /\ round = 1 /\ at = 1
  /\ again = FALSE
  /\ fn = [instrs |-> <<>>, types |-> <<>>]
  /\ kinds = <<>>
  /\ changed = FALSE
  /\ phase = "done"

\* infer_fn_return_structs, one turn of its loop.
StructPass ==
  /\ stage = "structs"
  /\ structs' = LearnStructs(structs)
  /\ IF structs' = structs
     THEN stage' = "infer" /\ Infer(ret, Order[1])
     ELSE UNCHANGED <<stage, inference>>
  /\ UNCHANGED <<prog, ret, round, at, again>>

\* A pass over the current function.
InferencePass ==
  /\ K!Forward \/ K!Copies \/ K!Backward \/ K!Test
  /\ UNCHANGED <<prog, structs, ret, stage, round, at, again>>

\* A function is inferred: its kind is recorded, and the next one's turn.
Record ==
  /\ stage = "infer" /\ phase = "done"
  /\ ret' = Recorded(ret, Current, ReturnKind(Current))
  /\ at' = IF at = Len(Order) THEN 1 ELSE at + 1
  /\ round' = IF at = Len(Order) THEN round + 1 ELSE round
  /\ stage' = IF round' > Rounds THEN "unify" ELSE "infer"
  /\ UNCHANGED <<prog, structs, again>>
  /\ IF stage' = "infer" THEN Infer(ret', Order[at']) ELSE UNCHANGED inference

\* unify_method_kinds_across_hierarchy: one group, and the end of a turn.
Unify ==
  /\ stage = "unify"
  /\ at \in DOMAIN Components
  /\ \E c \in {Components[at]} : ret' = UnifyGroup(ret, c[1], c[2])
  /\ again' = (again \/ ret' # ret)
  /\ at' = at + 1
  /\ UNCHANGED <<prog, structs, stage, round, inference>>

EndOfTurn ==
  /\ stage = "unify" /\ at \notin DOMAIN Components
  /\ at' = 1
  /\ again' = FALSE
  /\ stage' = IF again THEN "unify" ELSE "emit"
  /\ UNCHANGED <<prog, structs, ret, round>>
  /\ IF again THEN UNCHANGED inference ELSE Infer(ret, Order[1])

\* A function is inferred with the final kinds, and emitted.
Emit ==
  /\ stage = "emit" /\ phase = "done"
  /\ at' = IF at = Len(Order) THEN 1 ELSE at + 1
  /\ stage' = IF at = Len(Order) THEN "declared" ELSE "emit"
  /\ UNCHANGED <<prog, structs, ret, round, again>>
  /\ IF stage' = "emit" THEN Infer(ret, Order[at']) ELSE UNCHANGED inference

Stop == stage = "declared" /\ UNCHANGED vars

Work == StructPass \/ InferencePass \/ Record \/ Unify \/ EndOfTurn \/ Emit
Next == Work \/ Stop

Spec     == Init /\ [][Next]_vars
FairSpec == Spec /\ WF_vars(Work)

-----------------------------------------------------------------------------
(* Properties.                                                             *)

WellFormed ==
  /\ K!TypeOK
  /\ stage \in {"structs", "infer", "unify", "emit", "declared"}
  /\ Range(ret) \subseteq K!Kinds
  /\ Range(structs) \subseteq DOMAIN Parents(prog.types)
  /\ round \in 1..Rounds + 1
  /\ stage = "unify" => at = 1 \/ at - 1 \in DOMAIN Components
  /\ stage # "unify" => at \in 1..Len(Order)
  /\ again \in BOOLEAN /\ (again => stage = "unify")

\* In every round, and with the final kinds, what is inferred for a function
\* is its typing, up to pointers that stay out of arithmetic (emit.rs,
\* infer_temp_kinds).
KindsAreTheTypes == K!KindsAreTheTypes

\* Names under which only methods are looked up.
OfMethods(name) == name[1] = "" /\ \A f \in Range(prog.functions) : f.name # name[2]

\* No pass over a function takes back a concrete kind, nor does the unification:
\* two steps that did would undo each other's work for ever.  And no round takes
\* back that of a short name of methods (codegen.rs: so that a chain of returns
\* does not degrade).  Those of functions it may: a call they make may have been
\* looked up by its short name the round before.
ConcreteKindsStay ==
  [][/\ phase # "done" => \A t \in DOMAIN kinds :
                            kinds[t] \in {"F64", "I1"} => kinds'[t] = kinds[t]
     /\ \A n \in DOMAIN ret :
          ret[n] \in {"F64", "I1"} /\ (stage = "unify" \/ OfMethods(n)) => ret'[n] = ret[n]]_vars

\* All the loops end: the types of objects, every function's kinds, and the
\* unification (codegen.rs: to a fixed point).
SignaturesEnd == <>(stage = "declared")

\* The types that may be found where T is expected.
Subtypes(T) == {U \in DOMAIN Parents(prog.types) : T \in Range(Chain(prog.types, U))}

\* Whose method m an object of type T runs.
Implementor(T, m) ==
  SelectSeq(Chain(prog.types, T),
            LAMBDA U : \E n \in 1..Len(prog.methods) : Name(prog.methods[n]) = <<U, m>>)[1]

\* The functions a call may reach.
Targets(f, i) ==
  IF i.op = "method"
  THEN {<<Implementor(T, i.name[2]), i.name[2]>> : T \in Subtypes(f.classes[i.args[1]])}
  ELSE {i.name}

-----------------------------------------------------------------------------
\* What emission knows of the temporaries before each instruction, which it
\* finds again as it goes: of the parameters, what they are annotated with, and
\* of a method's result, what its receiver's type says.
EmittedTags(f) ==
  LET Made(ts, i) ==
        CASE i.op = "cast" -> i.name[1]
          [] i.op = "method" ->
               Find(structs, <<ts[i.args[1]], i.name[2]>>, Find(structs, Short(i.name), ""))
          [] OTHER -> StructMade(structs, ts, i)
      tags[n \in 0..Len(f.instrs)] ==
        IF n = 0
        THEN [t \in DOMAIN f.types |->
                IF t = 1 /\ f.owner # "" THEN f.owner ELSE Find(f.hints, t, "")]
        ELSE Tag(tags[n - 1], f.instrs[n], Made(tags[n - 1], f.instrs[n]))
  IN  [n \in DOMAIN f.instrs |-> tags[n - 1]]

\* The kind that the call the n-th instruction is emitted as returns: the
\* declared function's, or, through a table, the one recorded for the method.
EmittedKind(f, n) ==
  LET i == f.instrs[n]
  IN  IF i.op = "method"
      THEN FirstKnown(ret, <<<<EmittedTags(f)[n][i.args[1]], i.name[2]>>, Short(i.name)>>)
      ELSE ret[i.name]

\* The signature a call is emitted with is that of every function it may
\* reach, through a table or directly: otherwise the caller takes the result
\* from a register the callee did not put it in.  And the slot it is stored in
\* has that kind, although the inference knows less of the receiver than
\* emission (emit_call.rs, emit_method_call; emit.rs, infer_temp_kinds;
\* f.classes are the static types).
CallersAgree(f) ==
  \A n \in DOMAIN f.instrs :
    f.instrs[n].op \in {"call", "static", "method"} =>
      /\ EmittedKind(f, n) = fn.instrs[n].kind
      /\ \A target \in Targets(f, f.instrs[n]) : ret[target] = EmittedKind(f, n)

\* What a function's body returns is what it was declared to return, or a
\* pointer whose bits are: a number returned as a pointer is lost (emit.rs,
\* emit_return_for_fn).
ReturnAgrees(f) == ReturnKind(f) \in {ret[Name(f)], "Ptr"}

\* When a function is emitted, its calls and its return agree with the
\* declarations.
SignaturesAgree ==
  stage = "emit" /\ phase = "done" => CallersAgree(Current) /\ ReturnAgrees(Current)
=============================================================================
