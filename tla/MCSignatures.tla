---------------------------- MODULE MCSignatures ----------------------------
(***************************************************************************)
(* Programs for Signatures.  Single: every well-typed sequence of          *)
(* instructions of a given length in which, as the lowerer's, a temporary  *)
(* is defined before it is used, and only a copy or a constant defines one *)
(* again.  Several: two types with a method each, in every relation, and   *)
(* two functions, with all bodies of the kinds below.                      *)
(***************************************************************************)
EXTENDS Signatures, FiniteSets

CONSTANT Length

Instruction(op, d, args, k) ==
  [op |-> op, d |-> d, args |-> args, kind |-> k, name |-> <<"", "">>]
Named(op, d, args, name) == [Instruction(op, d, args, "") EXCEPT !.name = name]

Kinds == {"F64", "I1", "Ptr"}

-----------------------------------------------------------------------------
(* One function.                                                           *)

\* Operands of kind k: a temporary of that kind, or a constant.
Operand(types, k) == {<<>>} \cup {<<t>> : t \in {u \in DOMAIN types : types[u] = k}}
Pairs(types, k)   == {l \o r : l, r \in Operand(types, k)}

Extend(f, i, k) ==
  [instrs |-> Append(f.instrs, i),
   types  |-> IF i.d \in {0} \cup DOMAIN f.types THEN f.types ELSE Append(f.types, k)]

\* f and one more instruction.
Extensions(f) ==
  LET new == Len(f.types) + 1
      ty  == f.types
  IN  {Extend(f, Instruction("arith", new, a, ""), "F64") : a \in Pairs(ty, "F64")}
      \cup {Extend(f, Instruction("index", new, a, k), k) :
              a \in Operand(ty, "F64"), k \in {"F64", "Ptr"}}
      \cup {Extend(f, Instruction("store", 0, a, ""), "") : a \in Operand(ty, "F64")}
      \cup UNION {{Extend(f, Instruction("compare", new, a, ""), "I1") : a \in Pairs(ty, k)}
                    : k \in Kinds}
      \cup {Extend(f, Instruction("produce", new, <<>>, known), k) :
              <<known, k>> \in {<<x, y>> \in Kinds \X Kinds : x \in {y, "Ptr"}}}
      \cup {Extend(f, Instruction("produce", d, <<>>, ty[d]), "") : d \in DOMAIN ty}
      \cup {Extend(f, Instruction("copy", d, <<s>>, ""), ty[s]) :
              <<d, s>> \in {<<d, s>> \in (1..new) \X (1..Len(ty)) :
                              d = new \/ ty[d] = ty[s]}}

\* n instructions on the given parameters.
RECURSIVE WellTyped(_, _)
WellTyped(parameters, n) ==
  IF n = 0 THEN {[instrs |-> <<>>, types |-> parameters]}
  ELSE UNION {Extensions(f) : f \in WellTyped(parameters, n - 1)}

Function(owner, name, instrs, types, classes, result) ==
  [owner |-> owner, name |-> name, instrs |-> instrs, types |-> types,
   classes |-> classes, hints |-> <<>>, result |-> result]

Alone(f) == [types |-> <<>>, methods |-> <<>>, functions |-> <<f>>]

\* A parameter, or a copy of one, is not compared: it would count as a number.
KnownWhereCompared(b) ==
  \A i \in Range(b.instrs) : i.op = "compare" =>
    \A t \in Range(i.args) :
      b.types[t] = "F64" \/ \E j \in Range(b.instrs) : j.d = t /\ j.op # "copy"

Single ==
  {Alone(Function("", "f", b.instrs, b.types, [t \in DOMAIN b.types |-> ""], Len(b.types)))
     : b \in {b \in WellTyped(<<>>, Length) : b.types # <<>>}
             \cup UNION {{b \in WellTyped(<<k>>, Length - 1) : KnownWhereCompared(b)}
                            : k \in Kinds}}

-----------------------------------------------------------------------------
(* Several functions.  A body has a parameter of a kind and a class, and   *)
(* is built on it by the operators below; in a method self comes first.    *)

\* A body so far: its last temporary is its result.
Start(owner, k, class) ==
  IF owner = "" THEN Function("", "", <<>>, <<k>>, <<class>>, 1)
  ELSE Function(owner, "", <<>>, <<"Ptr", k>>, <<owner, class>>, 2)

\* A plain function's, whose parameter is annotated with its class.
Annotated(k, class) == [Start("", k, class) EXCEPT !.hints = <<class>>]

\* b, and an instruction that defines a new temporary from its result.
Then(b, op, args, name, known, k, class) ==
  LET d == Len(b.types) + 1
  IN  [b EXCEPT !.instrs = Append(@, [Named(op, d, args, name) EXCEPT !.kind = known]),
                !.types = Append(@, k), !.classes = Append(@, class), !.result = d]

NewOf(b, T)           == Then(b, "new", <<>>, <<T, "">>, "", "Ptr", T)
CallOf(b, g, k)       == Then(b, "call", <<>>, <<"", g>>, "", k, IF k = "Ptr" THEN "A" ELSE "")
MethodOf(b, m, k)     == Then(b, "method", <<b.result>>, <<b.classes[b.result], m>>, "", k,
                              IF k = "Ptr" THEN "A" ELSE "")
BaseOf(b, k)          == Then(b, "static", <<1>>, <<"A", "m">>, "", k, IF k = "Ptr" THEN "A" ELSE "")
PlusOf(b)             == Then(b, "arith", <<b.result>>, <<"", "">>, "", "F64", "")
ConstantOf(b, k)      == Then(b, "produce", <<>>, <<"", "">>, k, k, "")

\* if (c) new T() else g(): two copies into one temporary.
BranchOf(b, T, g) ==
  LET new  == NewOf(b, T)
      call == CallOf(new, g, "Ptr")
      one  == Then(call, "copy", <<new.result>>, <<"", "">>, "", "Ptr", "A")
  IN  [one EXCEPT !.instrs = Append(@, Instruction("copy", one.result, <<call.result>>, ""))]

\* The bodies that return kind k (an object is an A), when functions and
\* methods return what sig says: those of a method or a function, and those
\* only f has.  If receivers are Known, only new objects are asked.
Bodies(owner, k, sig) ==
  LET empty == Start(owner, "F64", "")
  IN  {Start(owner, k, IF k = "Ptr" THEN "A" ELSE ""),
       IF k = "Ptr" THEN NewOf(empty, "A") ELSE ConstantOf(empty, k)}
      \cup {CallOf(empty, g, k) : g \in {g \in {"g"} : sig[<<"", g>>] = k}}

FBodies(k, sig, Known) ==
  LET empty   == Start("", "F64", "")
      plain   == {g \in {"f", "g"} : sig[<<"", g>>] = k}
      asked   == {T \in {"A", "B"} : sig[<<T, "m">>] = k}
      objects == {g \in {"f", "g"} : sig[<<"", g>>] = "Ptr"}
  IN  {MethodOf(NewOf(empty, T), "m", k) : T \in asked}
      \cup (IF k = "Ptr" THEN {BranchOf(empty, "A", g) : g \in plain} ELSE {})
      \cup (IF k = "F64" THEN {PlusOf(CallOf(empty, g, k)) : g \in plain} ELSE {})
      \cup (IF k = "F64" THEN {PlusOf(MethodOf(NewOf(empty, T), "m", k)) : T \in asked} ELSE {})
      \cup {MethodOf(Then(Annotated("Ptr", "A"), "cast", <<1>>, <<T, "">>, "", "Ptr", T), "m", k) : T \in asked}
      \cup (IF Known THEN {}
            ELSE {MethodOf(Start("", "Ptr", T), "m", k) : T \in asked}
                 \cup {MethodOf(Annotated("Ptr", T), "m", k) : T \in asked}
                 \cup {MethodOf(CallOf(empty, g, "Ptr"), "m", k) :
                         g \in IF "A" \in asked THEN objects ELSE {}})

Unrelated   == <<[name |-> "A", parent |-> ""], [name |-> "B", parent |-> ""]>>
ChildAfter  == <<[name |-> "A", parent |-> ""], [name |-> "B", parent |-> "A"]>>
ChildBefore == <<[name |-> "B", parent |-> "A"], [name |-> "A", parent |-> ""]>>

\* A hierarchy, and what the methods and functions return: objects, or the
\* numbers (in one of the hierarchies, bits) that share the programs with them.
Typings ==
  UNION {{<<h, sig>> : sig \in [{<<"A", "m">>, <<"B", "m">>, <<"", "f">>, <<"", "g">>}
                                -> {IF h = ChildBefore THEN "I1" ELSE "F64", "Ptr"}]}
         : h \in {Unrelated, ChildAfter, ChildBefore}}

Program(h, ma, mb, f, g) ==
  [types     |-> h,
   methods   |-> [n \in 1..2 |-> IF h[n].name = "A" THEN [ma EXCEPT !.name = "m"]
                                                     ELSE [mb EXCEPT !.name = "m"]],
   functions |-> <<[f EXCEPT !.name = "f"], [g EXCEPT !.name = "g"]>>]

\* Two bodies of the same instructions.
Alike(b, c) == [n \in DOMAIN b.instrs |-> b.instrs[n].op] = [n \in DOMAIN c.instrs |-> c.instrs[n].op]

\* Unification changes nothing a function has returned already: it comes after
\* the last round, and the kind of that function is not inferred again.
Settled(h, ma, mb, f) ==
  h = Unrelated \/ Alike(ma, mb) \/ f.types[f.result] = "Ptr" \/ Last(f.instrs).op = "arith"

\* Related types return the same kind from m.  Of unrelated types one may
\* return another kind, an object, if only receivers known to the generator
\* are asked.
Several ==
  UNION {LET k == sig[<<"", "f">>]
             l == sig[<<"", "g">>]
             b == sig[<<"B", "m">>]
         IN  {Program(h, p[1], p[2], p[3], p[4]) :
                p \in {q \in Bodies("A", sig[<<"A", "m">>], sig)
                             \X (Bodies("B", b, sig)
                                 \cup IF h = Unrelated THEN {} ELSE {BaseOf(Start("B", "F64", ""), b)})
                             \X FBodies(k, sig, h = Unrelated)
                             \X (Bodies("", l, sig)
                                 \cup IF k = l THEN {CallOf(Start("", "F64", ""), "f", l)} ELSE {}) :
                         Settled(h, q[1], q[2], q[3])}}
         : <<h, sig>> \in {<<x, y>> \in Typings :
                            x = Unrelated \/ y[<<"A", "m">>] = y[<<"B", "m">>]}}

\* type B { m() => 1; } type C { k() => (new A()).m(); } type A { m() => g(); }
\* In the first round k takes the kind of B's m, in the second that of A's m,
\* which is not known to return a number until then.
LaterMethod ==
  [types     |-> [n \in 1..3 |-> [name |-> <<"B", "C", "A">>[n], parent |-> ""]],
   methods   |-> <<[ConstantOf(Start("B", "F64", ""), "F64") EXCEPT !.name = "m"],
                   [MethodOf(NewOf(Start("C", "F64", ""), "A"), "m", "F64") EXCEPT !.name = "k"],
                   [CallOf(Start("A", "F64", ""), "g", "F64") EXCEPT !.name = "m"]>>,
   functions |-> <<[ConstantOf(Start("", "F64", ""), "F64") EXCEPT !.name = "g"]>>]

AllSound == Single \cup Several \cup {LaterMethod}

-----------------------------------------------------------------------------
(* What the loops do not end on.                                           *)

\* (1 < 2) + 1: the type inferer does not look at the operands' types.
ComparisonInArithmetic ==
  Alone(Function("", "f", <<Instruction("compare", 1, <<>>, ""), Instruction("arith", 2, <<1>>, "")>>,
                 <<"I1", "F64">>, <<"", "">>, 2))

\* type A { m() => 1; } type B { m() => true; }
NumberAndBoolean ==
  LET empty == Start("", "F64", "")
  IN  Program(Unrelated, ConstantOf(Start("A", "F64", ""), "F64"),
              ConstantOf(Start("B", "F64", ""), "I1"),
              ConstantOf(empty, "F64"), ConstantOf(empty, "F64"))

\* Three functions, each of which makes an object or returns the next one's.
RingOfReturns ==
  LET Fun(f, T, g) == [BranchOf(Start("", "F64", ""), T, g) EXCEPT !.name = f]
  IN  [types |-> Append(Unrelated, [name |-> "C", parent |-> ""]), methods |-> <<>>,
       functions |-> <<Fun("f", "A", "g"), Fun("g", "B", "h"), Fun("h", "C", "f")>>]

Unending == {ComparisonInArithmetic, NumberAndBoolean, RingOfReturns}
=============================================================================
