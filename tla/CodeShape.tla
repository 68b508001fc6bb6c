----------------------------- MODULE CodeShape -----------------------------
(***************************************************************************)
(* What the code generator and the runtime take for granted of BANNER code *)
(* and do not look at again: emit.rs makes one block per label name and    *)
(* jumps to the block it finds (pre_create_label_blocks), reads a          *)
(* temporary's slot whether or not anything was stored there               *)
(* (create_temp_allocas), and pops whatever is on the shadow stack.  None  *)
(* of the definitions follows an execution: they look at the instructions  *)
(* of a body one by one.                                                   *)
(***************************************************************************)
EXTENDS Banner, Integers, FiniteSets

\* Code is [ok, bodies, types]: whether there is any, the body of every
\* function, and what is known of every type.

Calls     == {"call", "static", "method", "new"}
Producers == Calls \cup {"copy", "bin", "un", "get", "getindex"}
Operators == {"+", "-", "*", "/", "%", "^", "<", "<=", ">", ">=", "==", "!=", "&", "|"}

\* Tags the runtime's own objects have.
RuntimeTags == {"String", "Range", "Vector", "ObjArray"}

IsTypeTest(i) == i.op = "call" /\ i.f \in {"__hulk_is", "__hulk_as"}

-----------------------------------------------------------------------------
(* One instruction.                                                        *)

\* What the runtime's functions take.
Takes(f) ==
  CASE f \in {"print", "hulk_number_to_string", "__vec_new", "__arr_new", "__objarr_new"} -> 1
    [] f \in {"range", "__hulk_concat", "__hulk_str_eq", "__hulk_is", "__hulk_as",
              "__vec_push"} -> 2

\* How many operands an instruction has.
HasOperands(i) ==
  CASE i.op \in {"label", "jump", "pop"} -> Len(i.args) = 0
    [] i.op \in {"copy", "un", "get", "jumpif", "return", "push"} -> Len(i.args) = 1
    [] i.op \in {"bin", "set", "getindex"} -> Len(i.args) = 2
    [] i.op = "setindex" -> Len(i.args) = 3
    [] i.op = "method" -> Len(i.args) >= 1
    [] i.op \in {"static", "new"} -> TRUE
    [] i.op = "call" -> i.f \in Runtime => Len(i.args) = Takes(i.f)

Operand == [k : {"temp", "num", "str", "null"}, v : Nat]

\* A global is only ever the type a test is for.
HasShape(i) ==
  /\ i.op \in Producers \cup {"set", "setindex", "label", "jump", "jumpif", "return", "push", "pop"}
  /\ i.op \in Producers => i.dst \in Nat
  /\ i.op = "bin" => i.f \in Operators
  /\ i.args \in Seq(Operand \cup [k : {"global"}, v : STRING])
  /\ HasOperands(i)
  /\ \A n \in 1..Len(i.args) : i.args[n].k = "global" => IsTypeTest(i) /\ n = 2

-----------------------------------------------------------------------------
(* The paths of a body.                                                    *)

IsLabel(b, n, l) == n \in 1..Len(b) /\ b[n].op = "label" /\ b[n].to = l

\* A jump names one place.
HasTargets(b) ==
  \A n \in 1..Len(b) :
    /\ b[n].op \in {"jump", "jumpif"} => \E m \in 1..Len(b) : IsLabel(b, m, b[n].to)
    /\ b[n].op = "label" => \A m \in 1..Len(b) : IsLabel(b, m, b[n].to) => m = n

\* The instructions that may be next.
Successors(b, n) ==
  (IF b[n].op \in {"jump", "jumpif"}
   THEN {m \in 1..Len(b) : IsLabel(b, m, b[n].to)} ELSE {})
  \cup (IF b[n].op \in {"jump", "return"} THEN {} ELSE {n + 1})

\* No path leaves a body but by a return.
StaysInside(b) ==
  /\ Len(b) \in Nat \ {0} /\ DOMAIN b = 1..Len(b)
  /\ \A n \in 1..Len(b) : Successors(b, n) \subseteq 1..Len(b)

-----------------------------------------------------------------------------
(* The shadow stack.                                                       *)

\* How many pushes of the body are on the shadow stack at its n-th
\* instruction, if branches and loops leave as many as they find.
DepthAt(b, n) ==
  Cardinality({m \in 1..n - 1 : b[m].op = "push"})
    - Cardinality({m \in 1..n - 1 : b[m].op = "pop"})

Change(i) == CASE i.op = "push" -> 1
               [] i.op = "pop"  -> -1
               [] OTHER -> 0

\* And they do.
IsBalanced(b) ==
  /\ DepthAt(b, 1) = 0
  /\ \A n \in 1..Len(b) :
       /\ DepthAt(b, n) \in Nat
       /\ b[n].op = "pop" => DepthAt(b, n) > 0
       /\ b[n].op = "return" => DepthAt(b, n) = 0
       /\ \A m \in Successors(b, n) : DepthAt(b, m) = DepthAt(b, n) + Change(b[n])

-----------------------------------------------------------------------------
(* Temporaries.                                                            *)

ReadsAt(b, n) == {b[n].args[a].v : a \in {a \in 1..Len(b[n].args) : b[n].args[a].k = "temp"}}
Reads(b)        == UNION {ReadsAt(b, n) : n \in 1..Len(b)}
Writes(b, n, t) == b[n].op \in Producers /\ b[n].dst = t

\* Where a path may come to without having stored in t, found in one pass over
\* the body: a jump back leads to where the pass has been.
Before(b, t) ==
  LET pass[n \in Nat] ==
        IF n = 0 THEN {1}
        ELSE LET last == pass[n - 1]
             IN  IF n \in last /\ ~ Writes(b, n, t) THEN last \cup Successors(b, n) ELSE last
  IN  pass[Len(b)]

\* There is no more than that.
IsClosed(b, t) ==
  LET before == Before(b, t)
  IN  /\ 1 \in before
      /\ \A n \in before : Writes(b, n, t) \/ Successors(b, n) \subseteq before

\* The temporaries a body may read before it has stored in them: parameters.
Inputs(b) == {t \in Reads(b) : \E n \in Before(b, t) : t \in ReadsAt(b, n)}

-----------------------------------------------------------------------------
(* A program.                                                              *)

\* A type and its ancestors, nearest first; a layout has the fields of all.
Ancestry(c, T) ==
  LET up[U \in DOMAIN c.types] ==
        LET P == c.types[U].parent
        IN  <<U>> \o (IF P \in DOMAIN c.types THEN up[P] ELSE <<>>)
  IN  IF T \in DOMAIN c.types THEN up[T] ELSE <<>>

\* A body that is called with so many arguments finds all it reads.
CanTake(c, f, count) ==
  f \in DOMAIN c.bodies \ {MainName} /\ Inputs(c.bodies[f]) \subseteq 0..count - 1

CallsFit(c, i) ==
  LET count == Len(i.args)
  IN  /\ i.op = "static" \/ (i.op = "call" /\ i.f \notin Runtime) => CanTake(c, i.f, count)
      /\ i.op = "new" => i.f \in DOMAIN c.types /\ CanTake(c, i.f \o ".__init__", count + 1)
      /\ i.op = "method" => \A T \in DOMAIN c.types :
           i.f \in c.types[T].methods => CanTake(c, T \o "." \o i.f, count)

IsBody(c, b) ==
  /\ \A n \in 1..Len(b) : HasShape(b[n]) /\ CallsFit(c, b[n])
  /\ HasTargets(b) /\ StaysInside(b) /\ IsBalanced(b)
  /\ \A t \in Reads(b) : IsClosed(b, t)

\* Code a program can be run from.
IsLawful(c) ==
  /\ \A f \in DOMAIN c.bodies : IsBody(c, c.bodies[f])
  /\ MainName \in DOMAIN c.bodies /\ Inputs(c.bodies[MainName]) = {}
  /\ DOMAIN c.types \cap RuntimeTags = {}
  /\ \A T \in DOMAIN c.types : Ancestry(c, T) \in Seq(DOMAIN c.types)
=============================================================================
