----------------------------- MODULE Semantics -----------------------------
(***************************************************************************)
(* What a HULK program prints, read off its syntax as parsed: a variable   *)
(* is the innermost binding of its name around the use, operands are       *)
(* evaluated from left to right and exactly once, for visits every element *)
(* of what it is given, a lambda is its body in the scope it was written   *)
(* in, a method is the nearest ancestor's, and a macro is its body in a    *)
(* scope of its own, where a parameter stands for the argument as it means *)
(* at the call.  It knows nothing of symbols, types, rewriting, temporaries*)
(* or the heap, and is what the compiled program (Mutator) is compared     *)
(* with.                                                                   *)
(*                                                                         *)
(* A store is [cells, out]: one cell per binding or object made so far,    *)
(* and what was printed.  An evaluation returns [v, s].  An environment    *)
(* maps names to cells, and a macro's parameters to expressions with the   *)
(* environment they mean something in.                                     *)
(***************************************************************************)
EXTENDS Syntax, Numbers

LOCAL INSTANCE SequencesExt
LOCAL INSTANCE FiniteSetsExt
X == INSTANCE Macros

Number(n)  == [k |-> "num", v |-> n]        \* and a Boolean, as 0 or 1
String(n)  == [k |-> "str", v |-> n]        \* a string of n characters
Object(c)  == [k |-> "obj", v |-> c]        \* the object in cell c
Interval(lo, hi) == [k |-> "range", v |-> lo, hi |-> hi]
Function(f) == [k |-> "function", v |-> f]
Closure(e, env) == [k |-> "closure", v |-> e, env |-> env]
Nothing    == [k |-> "null", v |-> 0]
Truth(b)   == Number(IF b THEN 1 ELSE 0)

\* %g prints a digit as one character; no program here needs more than two.
Digits(n) == IF n \in 0..9 THEN 1 ELSE 2
Text(v)   == IF v.k = "str" THEN v.v ELSE Digits(v.v)

Arithmetic(op, l, r) ==
  CASE op = "+" -> Number(l.v + r.v)
    [] op = "-" -> Number(l.v - r.v)
    [] op = "*" -> Number(l.v * r.v)
    [] op = "/" -> Number(Quotient(l.v, r.v))
    [] op = "%" -> Number(Remainder(l.v, r.v))
    [] op = "^" -> Number(Power(l.v, r.v))
    [] op = "<" -> Truth(l.v < r.v)
    [] op = "<=" -> Truth(l.v <= r.v)
    [] op = ">" -> Truth(l.v > r.v)
    [] op = ">=" -> Truth(l.v >= r.v)
    [] op = "==" -> Truth(l.k = r.k /\ l.v = r.v)
    [] op = "!=" -> Truth(~ (l.k = r.k /\ l.v = r.v))
    [] op = "&" -> Number(l.v * r.v)
    [] op = "|" -> Truth(l.v + r.v > 0)
    [] op = "@" -> String(Text(l) + Text(r))
    [] op = "@@" -> String(Text(l) + 1 + Text(r))

Value(v, s)      == [v |-> v, s |-> s]
NewCell(s, v)    == [s EXCEPT !.cells = Append(@, v)]
Cell(c)          == [k |-> "cell", at |-> c]
Bind(env, x, s)  == (x :> Cell(Len(s.cells))) @@ env
Thunk(e, env)    == [k |-> "thunk", e |-> e, env |-> env]
NoEnv            == [x \in {} |-> Nothing]

\* Names bound to values, each in a cell of its own.
BindAll(env, ps, vs, s) ==
  FoldLeft(LAMBDA acc, i : LET s2 == NewCell(acc.s, vs[i])
                           IN  [env |-> Bind(acc.env, ps[i].name, s2), s |-> s2],
           [env |-> env, s |-> s], [i \in DOMAIN ps |-> i])

-----------------------------------------------------------------------------
(* Declarations.                                                           *)

Is(ds, name)    == \E i \in DOMAIN ds : ds[i].name = name
OwnMethods(P, T) == SelectSeq(Declared(P.types, T).members, LAMBDA m : m.k = "method")

\* The type a method called m of an object of type T is declared in, or "".
RECURSIVE Owner(_, _, _)
Owner(P, T, m) ==
  IF ~ Is(P.types, T) THEN ""
  ELSE IF Is(OwnMethods(P, T), m) THEN T
  ELSE Owner(P, Declared(P.types, T).parent.name, m)

RECURSIVE Inherits(_, _, _)
Inherits(P, T, U) ==
  T = U \/ (Is(P.types, T) /\ Inherits(P, Declared(P.types, T).parent.name, U))

Tag(v, s) == s.cells[v.v].tag

-----------------------------------------------------------------------------
RECURSIVE Eval(_, _, _, _), EvalAll(_, _, _, _), EvalBindings(_, _, _, _),
          EvalIf(_, _, _, _, _), EvalLoop(_, _, _, _), EvalAssign(_, _, _, _),
          EvalCall(_, _, _, _), EvalMethod(_, _, _, _), EvalMacro(_, _, _, _, _),
          EvalMatch(_, _, _, _), Invoke(_, _, _, _, _, _), Apply(_, _, _, _),
          EvalNew(_, _, _, _), Construct(_, _, _, _, _),
          Iterator(_, _, _), Element(_, _, _, _), Turns(_, _, _, _, _, _, _),
          EvalTurns(_, _, _, _, _, _), EvalArrayGen(_, _, _, _)

EvalAll(P, es, env, s) ==
  IF es = <<>> THEN [vs |-> <<>>, s |-> s]
  ELSE LET head == Eval(P, Head(es), env, s)
           tail == EvalAll(P, Tail(es), env, head.s)
       IN  [vs |-> <<head.v>> \o tail.vs, s |-> tail.s]

EvalBindings(P, bs, env, s) ==
  IF bs = <<>> THEN [env |-> env, s |-> s]
  ELSE LET val == Eval(P, Head(bs).kids[1], env, s)
           s2  == NewCell(val.s, val.v)
       IN  EvalBindings(P, Tail(bs), Bind(env, Head(bs).name, s2), s2)

\* The branches of an if from its i-th subexpression on.
EvalIf(P, e, i, env, s) ==
  LET c == Eval(P, e.kids[i], env, s)
  IN  IF i > Len(e.kids) THEN Value(Nothing, s)
      ELSE IF i = Len(e.kids) THEN c
      ELSE IF c.v.v # 0 THEN Eval(P, e.kids[i + 1], env, c.s)
      ELSE EvalIf(P, e, i + 2, env, c.s)

EvalLoop(P, e, env, s) ==
  LET c == Eval(P, e.kids[1], env, s)
  IN  IF c.v.v = 0 THEN Value(Nothing, c.s)
      ELSE EvalLoop(P, e, env, Eval(P, e.kids[2], env, c.s).s)

-----------------------------------------------------------------------------
(* Calls.                                                                  *)

Invoke(P, self, T, m, vs, s) ==
  LET owner  == Owner(P, T, m)
      method == Declared(OwnMethods(P, owner), m)
      s2     == NewCell(s, self)
      base   == "base" :> [k |-> "base", type |-> Declared(P.types, owner).parent.name,
                           method |-> m]
      b      == BindAll(Bind(base, "self", s2), method.params, vs, s2)
  IN  Eval(P, method.body, b.env, b.s)

Apply(P, f, vs, s) ==
  LET decl == Declared(P.functions, f.v)
      b    == CASE f.k = "closure" -> BindAll(f.env, f.v.params, vs, s)
                [] f.k = "function" -> BindAll(NoEnv, decl.params, vs, s)
  IN  CASE f.k = "obj"      -> Invoke(P, f, Tag(f, s), "invoke", vs, s)
        [] f.k = "function" -> Eval(P, decl.body, b.env, b.s)
        [] f.k = "closure"  -> Eval(P, f.v.kids[1], b.env, b.s)

\* A symbolic parameter is another name for the caller's variable.
EvalMacro(P, m, args, env, s) ==
  LET ps == m.params
      For(i) == IF ps[i].kind = "symbolic" THEN env[args[i].name] ELSE Thunk(args[i], env)
  IN  Eval(P, m.body,
           FoldLeft(LAMBDA acc, i : (ps[i].name :> For(i)) @@ acc, NoEnv,
                    [i \in DOMAIN ps |-> i]), s)

\* The first case whose pattern the subject's text has, or the default.
EvalMatch(P, e, env, s) ==
  LET given == ArgsOf(e)[1]
      thunk == given.k = "ident" /\ given.name \in DOMAIN env /\ env[given.name].k = "thunk"
      text  == IF thunk THEN env[given.name].e ELSE given
      scope == IF thunk THEN env[given.name].env ELSE env
      cases == Tail(ArgsOf(e))
      hits  == {i \in DOMAIN cases : X!Matches(cases[i], text)}
      deflt == {i \in DOMAIN cases : X!CaseName(cases[i]) = "__hulk_default"}
      hit   == cases[Min(IF hits # {} THEN hits ELSE deflt)]
      subs  == X!Captures(hit, text)
  IN  Eval(P, BodyOf(hit), [x \in DOMAIN subs |-> Thunk(subs[x].e, scope)] @@ env, s)

EvalCall(P, e, env, s) ==
  LET f    == CalleeOf(e)
      name == IF f.k = "ident" /\ f.name \notin DOMAIN env THEN f.name ELSE ""
      as   == EvalAll(P, ArgsOf(e), env, s)
      all  == EvalAll(P, e.kids, env, s)
      base == env["base"]
  IN  CASE name = "print" -> Value(Nothing, [as.s EXCEPT !.out = Append(@, as.vs[1])])
        [] name = "range" -> Value(Interval(as.vs[1].v, as.vs[2].v), as.s)
        [] name = "__hulk_match" -> EvalMatch(P, e, env, s)
        [] Is(P.macros, name) -> EvalMacro(P, Declared(P.macros, name), ArgsOf(e), env, s)
        [] f.k = "base" /\ base.k = "base" ->
             Invoke(P, s.cells[env["self"].at], base.type, base.method, as.vs, as.s)
        [] OTHER -> Apply(P, all.vs[1], Tail(all.vs), all.s)

EvalMethod(P, e, env, s) ==
  LET all  == EvalAll(P, e.kids, env, s)
      recv == all.vs[1]
  IN  IF recv.k = "obj" /\ Tag(recv, all.s) = "Vector"
      THEN Value(Number(Len(all.s.cells[recv.v].items)), all.s)       \* size
      ELSE Invoke(P, recv, Tag(recv, all.s), e.m, Tail(all.vs), all.s)

\* The part of an object that its type T stands for, ancestors first: without
\* parameters and arguments of its own, T passes on what it was given.
Construct(P, obj, T, vs, s) ==
  LET t     == Declared(P.types, T)
      heir  == t.params = <<>> /\ t.parent.args = <<>>
      b     == BindAll(NoEnv, t.params, IF heir THEN <<>> ELSE vs, s)
      args  == EvalAll(P, t.parent.args, b.env, b.s)
      above == IF ~ Is(P.types, t.parent.name) THEN b.s
               ELSE Construct(P, obj, t.parent.name, IF heir THEN vs ELSE args.vs, args.s)
      attrs == SelectSeq(t.members, LAMBDA m : m.k = "attr")
      store(acc, a) == LET val == Eval(P, a.body, b.env, acc)
                       IN  [val.s EXCEPT !.cells[obj].fields = (a.name :> val.v) @@ @]
  IN  FoldLeft(store, above, attrs)

EvalNew(P, e, env, s) ==
  LET as == EvalAll(P, e.kids, env, s)
      s2 == NewCell(as.s, [tag |-> e.type, fields |-> NoEnv])
  IN  Value(Object(Len(s2.cells)), Construct(P, Len(s2.cells), e.type, as.vs, s2))

-----------------------------------------------------------------------------
(* Iteration.                                                              *)

NewVector(items, s) ==
  LET s2 == NewCell(s, [tag |-> "Vector", items |-> items])
  IN  Value(Object(Len(s2.cells)), s2)

\* What is asked for its elements: an object that has only iter gives another.
Iterator(P, v, s) ==
  IF /\ v.k = "obj" /\ Tag(v, s) # "Vector"
     /\ Owner(P, Tag(v, s), "next") = "" /\ Owner(P, Tag(v, s), "iter") # ""
  THEN Invoke(P, v, Tag(v, s), "iter", <<>>, s)
  ELSE Value(v, s)

\* The element of turn n, which there may not be.
Element(P, it, n, s) ==
  LET items == s.cells[it.v].items
      more  == Invoke(P, it, Tag(it, s), "next", <<>>, s)
      this  == Invoke(P, it, Tag(it, s), "current", <<>>, more.s)
  IN  IF it.k = "range" THEN [is |-> it.v + n < it.hi, v |-> Number(it.v + n), s |-> s]
      ELSE IF Tag(it, s) = "Vector"
      THEN [is |-> n < Len(items), v |-> IF n < Len(items) THEN items[n + 1] ELSE Nothing,
            s |-> s]
      ELSE IF more.v.v = 0 THEN [is |-> FALSE, v |-> Nothing, s |-> more.s]
      ELSE [is |-> TRUE, v |-> this.v, s |-> this.s]

\* body for every element, as x; the values it has.
Turns(P, x, body, it, vs, env, s) ==
  LET t  == Element(P, it, Len(vs), s)
      s2 == NewCell(t.s, t.v)
      b  == Eval(P, body, Bind(env, x, s2), s2)
  IN  IF ~ t.is THEN [vs |-> vs, s |-> t.s]
      ELSE Turns(P, x, body, it, Append(vs, b.v), env, b.s)

EvalTurns(P, e, source, body, env, s) ==
  LET over == Eval(P, source, env, s)
      it   == Iterator(P, over.v, over.s)
  IN  Turns(P, e.name, body, it.v, <<>>, env, it.s)

EvalArrayGen(P, e, env, s) ==
  LET n   == Eval(P, e.kids[1], env, s)
      all == Turns(P, e.name, e.kids[2], Interval(0, n.v.v), <<>>, env, n.s)
  IN  NewVector(all.vs, all.s)

-----------------------------------------------------------------------------
EvalIdent(P, e, env, s) ==
  LET bound == env[e.name]
  IN  IF e.name \notin DOMAIN env
      THEN Value(IF e.name = "PI" THEN Number(3) ELSE Function(e.name), s)
      ELSE IF bound.k = "cell" THEN Value(s.cells[bound.at], s)
      ELSE Eval(P, bound.e, bound.env, s)

\* The value first, then the target.
EvalAssign(P, e, env, s) ==
  LET t  == e.kids[1]
      v  == Eval(P, e.kids[2], env, s)
      at == EvalAll(P, t.kids, env, v.s)
  IN  Value(v.v,
        CASE t.k = "tident" -> [v.s EXCEPT !.cells[env[t.name].at] = v.v]
          [] t.k = "tfield" ->
               [at.s EXCEPT !.cells[at.vs[1].v].fields = (t.field :> v.v) @@ @]
          [] t.k = "tindex" ->
               [at.s EXCEPT !.cells[at.vs[1].v].items[at.vs[2].v + 1] = v.v])

Eval(P, e, env, s) ==
  LET all == EvalAll(P, e.kids, env, s)
      one == all.vs[1]
      two == all.vs[2]
  IN  CASE e.k = "num"   -> Value(Number(e.v), s)
        [] e.k = "str"   -> Value(String(e.v), s)
        [] e.k = "bool"  -> Value(Truth(e.v), s)
        [] e.k = "ident" -> EvalIdent(P, e, env, s)
        [] e.k = "self"  -> Value(s.cells[env["self"].at], s)
        [] e.k = "base"  -> Value(s.cells[env["base"].at], s)
        [] e.k = "bin"   -> Value(Arithmetic(e.op, one, two), all.s)
        [] e.k = "un"    -> Value(Number(IF e.op = "neg" THEN 0 - one.v ELSE 1 - one.v), all.s)
        [] e.k = "let"   -> LET b == EvalBindings(P, BindingsOf(e), env, s)
                            IN  Eval(P, BodyOf(e), b.env, b.s)
        [] e.k = "assign" -> EvalAssign(P, e, env, s)
        [] e.k = "if"    -> EvalIf(P, e, 1, env, s)
        [] e.k = "while" -> EvalLoop(P, e, env, s)
        [] e.k = "for"   -> Value(Nothing, EvalTurns(P, e, e.kids[1], e.kids[2], env, s).s)
        [] e.k = "vecgen" -> LET ts == EvalTurns(P, e, e.kids[2], e.kids[1], env, s)
                             IN  NewVector(ts.vs, ts.s)
        [] e.k = "vec"   -> NewVector(all.vs, all.s)
        [] e.k = "arraynew" -> NewVector([i \in 1..one.v |-> Number(0)], all.s)
        [] e.k = "arraygen" -> EvalArrayGen(P, e, env, s)
        [] e.k = "index" -> Value(all.s.cells[one.v].items[two.v + 1], all.s)
        [] e.k = "block" -> IF e.kids = <<>> THEN Value(Nothing, s)
                            ELSE Value(all.vs[Len(e.kids)], all.s)
        [] e.k = "call"   -> EvalCall(P, e, env, s)
        [] e.k = "method" -> EvalMethod(P, e, env, s)
        [] e.k = "new"    -> EvalNew(P, e, env, s)
        [] e.k = "field"  -> Value(all.s.cells[one.v].fields[e.field], all.s)
        [] e.k = "lambda" -> Value(Closure(e, env), s)
        [] e.k = "is"     -> Value(Truth(Inherits(P, Tag(one, all.s), e.type)), all.s)
        [] e.k = "as"     -> Value(one, all.s)

\* What the program prints.
Printed(P) == Eval(P, P.main, NoEnv, [cells |-> <<>>, out |-> <<>>]).s.out
=============================================================================
