------------------------------ MODULE Lowering ------------------------------
(***************************************************************************)
(* The translation of a desugared program into three-address BANNER code:  *)
(* src/crates/hulk-banner/src/lowerer.rs.                                  *)
(*                                                                         *)
(* The lowerer's state is a record st: the code emitted so far, the next   *)
(* temporary and the next label, the maps locals (by symbol) and byName    *)
(* (by name), the parameters, the pushes of the current let, whether       *)
(* temporary 0 is self, the parent and the method base stands for, and     *)
(* panic, set where the code would panic: such a program has no code.      *)
(***************************************************************************)
EXTENDS Syntax, Banner

LOCAL INSTANCE SequencesExt

-----------------------------------------------------------------------------
\* Wrong: strings taken for values.
StringsAreValues(ty) == ty \notin {NumberTy, BooleanTy, StringTy}

IsReference(ty) == ty \notin {NumberTy, BooleanTy}

\* expr_is_string
IsString(e) == e.k = "str" \/ e.ty = StringTy

-----------------------------------------------------------------------------
(* The state of the lowerer.                                               *)

NoMap == [x \in {} |-> 0]

\* reset_for_function
Reset == [code |-> <<>>, temp |-> 0, label |-> 0, locals |-> NoMap, byName |-> NoMap,
          params |-> NoMap, shadow |-> 0, self |-> FALSE, parent |-> "", method |-> "",
          panic |-> FALSE]

\* What a member starts from: self is the first temporary.
InType(t, m) == [Reset EXCEPT !.temp = 1, !.self = TRUE, !.parent = t.parent.name,
                              !.method = m]

\* setup_params: the next temporaries, in order.
SetupParams(ps, st) ==
  FoldLeft(LAMBDA acc, p : [acc EXCEPT !.params = (p.name :> acc.temp) @@ @, !.temp = @ + 1],
           st, ps)

Emit(st, i)    == [st EXCEPT !.code = Append(@, i)]
FreshTemp(st)  == [st EXCEPT !.temp = @ + 1]
Result(st, v)  == [st |-> st, val |-> v]
Panic(st)      == Result([st EXCEPT !.panic = TRUE], ConstNull)

\* The common end of most cases: a fresh temporary takes an instruction's
\* result.
Into(st, i) == Result(Emit(FreshTemp(st), [i EXCEPT !.dst = st.temp]), Temp(st.temp))

\* The temporary a map has for a key, or a panic.
Found(st, map, key) ==
  IF key \in DOMAIN map THEN Result(st, Temp(map[key])) ELSE Panic(st)
SelfTemp(st) == IF st.self THEN Result(st, Temp(0)) ELSE Panic(st)

\* A name without a symbol: made by the desugarer, or renamed by a macro.
LowerName(name, st) ==
  IF name \in DOMAIN st.byName THEN Found(st, st.byName, name)
  ELSE IF name \in DOMAIN st.params THEN Found(st, st.params, name)
  ELSE Result(st, Global(name))

\* emit_ident: a variable is looked up by its symbol, then by its symbol's name.
LowerIdent(e, st) ==
  LET sym == e.sym
  IN  CASE sym.kind = "Variable" ->
             IF sym.id \in DOMAIN st.locals THEN Found(st, st.locals, sym.id)
             ELSE Found(st, st.byName, sym.name)
        [] sym.kind = "Parameter" -> Found(st, st.params, sym.name)
        [] sym.kind = "SelfValue" -> SelfTemp(st)
        [] sym.kind \in {"Function", "BuiltinFunction", "Macro"} -> Result(st, Global(sym.name))
        [] sym.kind = "BuiltinValue" -> Result(st, ConstNum(3))     \* PI
        [] sym.kind = "none" -> LowerName(e.name, st)
        [] OTHER -> Panic(st)

\* A base that is no local name is self.
LowerBase(e, st) ==
  IF e.sym.kind \in {"Variable", "Parameter"} THEN LowerIdent(e, st) ELSE SelfTemp(st)

\* emit_assign finds its target the same way, but a resolved variable only in
\* locals: a for's variable is never there, and assigning to it has no code.
AssignTemp(e, st) ==
  LET named == LowerName(e.name, st)
  IN  CASE e.sym.kind = "Variable" -> Found(st, st.locals, e.sym.id)
        [] e.sym.kind = "Parameter" -> Found(st, st.params, e.sym.name)
        [] e.sym.kind = "none" /\ named.val.k = "temp" -> named
        [] OTHER -> Panic(st)

\* coerce_to_str_val: numbers and booleans go through hulk_number_to_string.
CoerceToStr(v, e, st) ==
  IF v.k = "num" \/ ~ IsReference(e.ty)
  THEN Into(st, Call(0, "hulk_number_to_string", <<v>>))
  ELSE Result(st, v)

-----------------------------------------------------------------------------
RECURSIVE Lower(_, _), LowerAll(_, _), LowerBindings(_, _), LowerBlock(_, _),
          LowerElifConditions(_, _, _), LowerElifBodies(_, _, _, _, _, _)

LowerAll(es, st) ==
  IF es = <<>> THEN [vals |-> <<>>, st |-> st]
  ELSE LET head == Lower(Head(es), st)
           tail == LowerAll(Tail(es), head.st)
       IN  [vals |-> <<head.val>> \o tail.vals, st |-> tail.st]

\* emit_binop: the destination is taken before the operands are coerced, and
\* the operands of @ are coerced before it.
LowerBin(e, st) ==
  LET both == LowerAll(e.kids, st)
      dst  == both.st.temp
      l    == CoerceToStr(both.vals[1], e.kids[1], FreshTemp(both.st))
      r    == CoerceToStr(both.vals[2], e.kids[2], l.st)
      same == Emit(FreshTemp(both.st), Call(dst, "__hulk_str_eq", both.vals))
  IN  IF e.op = "@"
      THEN Result(Emit(r.st, Call(dst, "__hulk_concat", <<l.val, r.val>>)), Temp(dst))
      ELSE IF e.op = "@@" THEN Panic(both.st)
      ELSE IF e.op \in {"==", "!="} /\ (IsString(e.kids[1]) \/ IsString(e.kids[2]))
      THEN IF e.op = "==" THEN Result(same, Temp(dst))
           ELSE Into(same, UnOp(0, "not", Temp(dst)))
      ELSE Into(both.st, BinOp(0, e.op, both.vals[1], both.vals[2]))

\* emit_let_binding_expr: copy, remember where, push if it is a reference.
LowerBindings(bs, st) ==
  IF bs = <<>> THEN st
  ELSE LET b   == Head(bs)
           val == Lower(b.kids[1], st)
           dst == val.st.temp
           cp  == Emit(FreshTemp(val.st), Copy(dst, val.val))
           at  == IF b.sym # NoSym
                  THEN [cp EXCEPT !.locals = (b.sym.id :> dst) @@ @]
                  ELSE [cp EXCEPT !.byName = (b.name :> dst) @@ @]
       IN  LowerBindings(Tail(bs),
             IF IsReference(b.kids[1].ty)
             THEN [Emit(at, ShadowPush(Temp(dst))) EXCEPT !.shadow = @ + 1]
             ELSE at)

Pops(n) == [i \in 1..n |-> ShadowPop]

\* Wrong: the inner let's count replaces the outer's.
ForgetOuterCount(e, st) ==
  LET bound == LowerBindings(BindingsOf(e), [st EXCEPT !.shadow = 0])
      body  == Lower(BodyOf(e), bound)
  IN  Result([body.st EXCEPT !.code = @ \o Pops(body.st.shadow)], body.val)

\* emit_let: the pushes of this let are popped after its body.
LowerLet(e, st) ==
  LET bound == LowerBindings(BindingsOf(e), [st EXCEPT !.shadow = 0])
      body  == Lower(BodyOf(e), bound)
  IN  Result([body.st EXCEPT !.code = @ \o Pops(body.st.shadow),
                             !.shadow = st.shadow], body.val)

\* emit_assign: the value first, then the target.
LowerAssign(e, st) ==
  LET target == e.kids[1]
      v  == Lower(e.kids[2], st)
      to == AssignTemp(target, v.st)
      at == LowerAll(target.kids, v.st)
  IN  CASE target.k = "tident" ->
             Result(IF to.st.panic THEN to.st ELSE Emit(to.st, Copy(to.val.v, v.val)), v.val)
        [] target.k = "tfield" ->
             Result(Emit(at.st, SetField(at.vals[1], target.field, v.val)), v.val)
        [] target.k = "tindex" ->
             Result(Emit(at.st, SetIndex(at.vals[1], at.vals[2], v.val)), v.val)

\* The elifs of an if, from its i-th subexpression on; the first one's label
\* follows the then's.
LowerElifConditions(e, i, st) ==
  IF i >= Len(e.kids) THEN st
  ELSE LET c == Lower(e.kids[i], st.st)
       IN  LowerElifConditions(e, i + 2,
             [st |-> Emit(c.st, JumpIf(c.val, st.next)), next |-> st.next + 1])

\* Wrong: an elif body that does not store its value.
ElifWithoutResult(e, i, label, res, end, st) ==
  IF i >= Len(e.kids) THEN st
  ELSE LET b == Lower(e.kids[i + 1], Emit(st, Label(label)))
       IN  LowerElifBodies(e, i + 2, label + 1, res, end, Emit(b.st, Jump(end)))

LowerElifBodies(e, i, label, res, end, st) ==
  IF i >= Len(e.kids) THEN st
  ELSE LET b == Lower(e.kids[i + 1], Emit(st, Label(label)))
       IN  LowerElifBodies(e, i + 2, label + 1, res, end,
             Emit(Emit(b.st, Copy(res, b.val)), Jump(end)))

\* emit_if: conditions in order, the else branch on the fall-through path,
\* then the elif bodies, and the then branch last.
LowerIf(e, st) ==
  LET res   == st.temp
      thenL == st.label
      endL  == st.label + (Len(e.kids) - 2) \div 2 + 1
      c     == Lower(e.kids[1], [st EXCEPT !.temp = @ + 1, !.label = endL + 1])
      cs    == LowerElifConditions(e, 3, [st |-> Emit(c.st, JumpIf(c.val, thenL)),
                                          next |-> thenL + 1]).st
      els   == IF HasElse(e) THEN Lower(BodyOf(e), cs) ELSE Result(cs, ConstNull)
      join  == Emit(Emit(els.st, Copy(res, els.val)), Jump(endL))
      bs    == LowerElifBodies(e, 3, thenL + 1, res, endL, join)
      th    == Lower(e.kids[2], Emit(bs, Label(thenL)))
  IN  Result(Emit(Emit(th.st, Copy(res, th.val)), Label(endL)), Temp(res))

\* Wrong: one label number taken where two are used.
ReuseLabel(e, st) ==
  LET loopL == st.label
      endL  == st.label + 1
      c     == Lower(e.kids[1], Emit([st EXCEPT !.label = @ + 1], Label(loopL)))
      neg   == Into(c.st, UnOp(0, "not", c.val))
      body  == Lower(e.kids[2], Emit(neg.st, JumpIf(neg.val, endL)))
  IN  Result(Emit(Emit(body.st, Jump(loopL)), Label(endL)), ConstNull)

\* emit_while: leave when the negated condition holds.
LowerWhile(e, st) ==
  LET loopL == st.label
      endL  == st.label + 1
      c     == Lower(e.kids[1], Emit([st EXCEPT !.label = @ + 2], Label(loopL)))
      neg   == Into(c.st, UnOp(0, "not", c.val))
      body  == Lower(e.kids[2], Emit(neg.st, JumpIf(neg.val, endL)))
  IN  Result(Emit(Emit(body.st, Jump(loopL)), Label(endL)), ConstNull)

\* Wrong: the value of the first expression.
FirstOfBlock(es, st) ==
  LET all == LowerAll(es, st)
  IN  Result(all.st, IF es = <<>> THEN ConstNull ELSE all.vals[1])

LowerBlock(es, st) ==
  LET all == LowerAll(es, st)
  IN  Result(all.st, IF es = <<>> THEN ConstNull ELSE all.vals[Len(es)])

\* emit_call: base is the parent's method of the same name, on the same object.
\* What is called must be a global (resolve_call refuses any other).
LowerCall(e, st) ==
  LET f  == Lower(CalleeOf(e), st)
      as == LowerAll(ArgsOf(e), IF CalleeOf(e).k = "base" THEN st ELSE f.st)
  IN  IF CalleeOf(e).k = "base"
      THEN IF st.self /\ st.parent # ""
           THEN Into(as.st, StaticCall(0, st.parent, st.method, <<Temp(0)>> \o as.vals))
           ELSE Panic(st)
      ELSE IF f.val.k = "global" THEN Into(as.st, Call(0, f.val.v, as.vals))
      ELSE Panic(as.st)

LowerMethodCall(e, st) ==
  LET all == LowerAll(e.kids, st)
  IN  Into(all.st, MethodCall(0, all.vals[1], e.m, Tail(all.vals)))

LowerNew(e, st) ==
  LET as == LowerAll(e.kids, st) IN Into(as.st, New(0, e.type, as.vals))

\* is and as: calls that take the type as an argument.
LowerTypeTest(e, st) ==
  LET v == Lower(e.kids[1], st)
  IN  Into(v.st, Call(0, "__hulk_" \o e.k, <<v.val, Global(e.type)>>))

LowerIndex(e, st) ==
  LET both == LowerAll(e.kids, st)
  IN  Into(both.st, GetIndex(0, both.vals[1], both.vals[2]))

LowerArrayNew(e, st) ==
  LET n == Lower(e.kids[1], st)
  IN  Into(n.st, Call(0, IF e.type = "Number" THEN "__arr_new" ELSE "__objarr_new", <<n.val>>))

\* emit_vec_literal: the elements are evaluated after the vector is made.
LowerVec(e, st) ==
  LET vec == Into(st, Call(0, "__vec_new", <<ConstNum(Len(e.kids))>>))
      push(acc, kid) == LET v == Lower(kid, acc)
                        IN  Into(v.st, Call(0, "__vec_push", <<vec.val, v.val>>)).st
  IN  Result(FoldLeft(push, vec.st, e.kids), vec.val)

\* emit_expr: what should have been desugared panics.
Lower(e, st) ==
  CASE e.k = "num"    -> Result(st, ConstNum(e.v))
    [] e.k = "str"    -> Result(st, ConstStr(e.v))
    [] e.k = "bool"   -> Result(st, ConstNum(IF e.v THEN 1 ELSE 0))
    [] e.k = "ident"  -> LowerIdent(e, st)
    [] e.k = "self"   -> SelfTemp(st)
    [] e.k = "base"   -> LowerBase(e, st)
    [] e.k = "bin"    -> LowerBin(e, st)
    [] e.k = "un"     -> LET v == Lower(e.kids[1], st) IN Into(v.st, UnOp(0, e.op, v.val))
    [] e.k = "call"   -> LowerCall(e, st)
    [] e.k = "method" -> LowerMethodCall(e, st)
    [] e.k = "new"    -> LowerNew(e, st)
    [] e.k = "field"  -> LET o == Lower(e.kids[1], st)
                         IN  Into(o.st, GetField(0, o.val, e.field))
    [] e.k = "index"  -> LowerIndex(e, st)
    [] e.k = "block"  -> LowerBlock(e.kids, st)
    [] e.k = "let"    -> LowerLet(e, st)
    [] e.k = "assign" -> LowerAssign(e, st)
    [] e.k = "if"     -> LowerIf(e, st)
    [] e.k = "while"  -> LowerWhile(e, st)
    [] e.k = "vec"    -> LowerVec(e, st)
    [] e.k = "arraynew" -> LowerArrayNew(e, st)
    [] e.k \in {"is", "as"} -> LowerTypeTest(e, st)
    [] OTHER -> Panic(st)

-----------------------------------------------------------------------------
(* Declarations.                                                           *)

\* Wrong: a body that falls off its end.
NoReturn(body, st) == Lower(body, st).st

\* lower_function, lower_method, and lower_program for the entry expression.
LowerBody(body, st) ==
  LET b == Lower(body, st) IN Emit(b.st, Return(b.val))

MethodsIn(t)    == SelectSeq(t.members, LAMBDA m : m.k = "method")
AttributesIn(t) == SelectSeq(t.members, LAMBDA m : m.k = "attr")

\* What the type's constructor takes: without parameters of its own, what its
\* parent declares.
ParamsOf(P, name) ==
  IF \E i \in DOMAIN P.types : P.types[i].name = name THEN Declared(P.types, name).params ELSE <<>>
InitParams(P, t) ==
  IF t.params = <<>> /\ t.parent.args = <<>> THEN ParamsOf(P, t.parent.name) ELSE t.params

\* The constructor of the parent, unless that is a protocol: with the given
\* arguments, or with the parameters inherited from it.
LowerParentInit(P, t, st) ==
  LET as   == LowerAll(t.parent.args, st)
      heir == IF t.params = <<>> /\ t.parent.args = <<>> THEN ParamsOf(P, t.parent.name) ELSE <<>>
      own  == [i \in DOMAIN heir |-> Temp(st.params[heir[i].name])]
  IN  IF t.parent = NoParent \/ \E i \in DOMAIN P.protocols : P.protocols[i].name = t.parent.name
      THEN st
      ELSE Into(as.st, StaticCall(0, t.parent.name, "__init__",
                                  <<Temp(0)>> \o as.vals \o own)).st

\* lower_type_init: the parent's part, every attribute in order, self.
LowerInit(P, t) ==
  LET store(acc, a) == LET v == Lower(a.body, acc)
                       IN  Emit(v.st, SetField(Temp(0), a.name, v.val))
      start == SetupParams(InitParams(P, t), InType(t, "__init__"))
      attrs == FoldLeft(store, LowerParentInit(P, t, start), AttributesIn(t))
  IN  Emit(attrs, Return(Temp(0)))

\* The functions of a program by name.
LowerType(P, t) ==
  LET methods == MethodsIn(t)
      named   == {methods[i].name : i \in DOMAIN methods}
  IN  ((t.name \o ".__init__") :> LowerInit(P, t))
      @@ [f \in {t.name \o "." \o m : m \in named} |->
            LET m == methods[CHOOSE i \in DOMAIN methods : t.name \o "." \o methods[i].name = f]
            IN  LowerBody(m.body, SetupParams(m.params, InType(t, m.name)))]

\* lower_program
LowerProgram(P) ==
  FoldLeft(LAMBDA acc, t : LowerType(P, t) @@ acc,
           [f \in {P.functions[i].name : i \in DOMAIN P.functions} |->
              LET d == Declared(P.functions, f)
              IN  LowerBody(d.body, SetupParams(d.params, Reset))]
           @@ ("__main__" :> LowerBody(P.main, Reset)),
           P.types)
=============================================================================
