------------------------------ MODULE Desugar ------------------------------
(***************************************************************************)
(* Desugaring: src/crates/hulk-desugar, between macro expansion and        *)
(* lowering.  for loops, generators of vectors and arrays, @@, lambdas and *)
(* functions passed as arguments become lets, loops, calls and types.      *)
(*                                                                         *)
(* The state is a record d: the resolver's state r and the inferer's i,    *)
(* the two counters of fresh names, the functions by name, the wrapper     *)
(* made for each function, the types made so far, and first, the node with *)
(* the first id of the program.                                            *)
(***************************************************************************)
EXTENDS Syntax

LOCAL INSTANCE SequencesExt
R == INSTANCE Scoping
I == INSTANCE Inference

\* A new node in the place of e takes its id, and with it its symbol and type.
InPlaceOf(e, new) == [new EXCEPT !.sym = e.sym, !.ty = e.ty]
Desugared(e, d)   == [e |-> e, d |-> d]

\* fresh_temp, fresh_type_name
TempName(suffix, n) == "__" \o suffix \o "_" \o ToString(n)
TypeName(suffix, n) == "__" \o suffix \o ToString(n)

LetOf(name, value, body) == LetExpr(<<BindExpr(name, NoAnn, value)>>, body)

-----------------------------------------------------------------------------
(* Loops and generators.                                                   *)

OwnsOnlyIter(d, type) == R!HasMethod(d.r, R!Lookup(d.r, type), "iter")
                         /\ ~ R!HasMethod(d.r, R!Lookup(d.r, type), "next")

\* is_enumerable_kind, user_type_is_enumerable
IsEnumerable(d, kind) ==
  \/ kind.k \in {"protocol", "user"} /\ kind.name = "Enumerable"
  \/ kind.k = "user" /\ OwnsOnlyIter(d, kind.name)

\* for_strategy: by the type named in new, by the node's type, or by its
\* symbol's; anything else is taken for an iterator.
NeedsIter(d, e) ==
  \/ e.k = "new" /\ OwnsOnlyIter(d, e.type)
  \/ IsEnumerable(d, I!KindOf(d.i, e.ty))
  \/ e.sym.id \in DOMAIN d.i.symbols
     /\ IsEnumerable(d, I!KindOf(d.i, d.i.symbols[e.sym.id]))

\* wrap_for_loop
WrapForLoop(x, it, source, body) ==
  LetOf(it, source,
    WhileExpr(MethodExpr(Ident(it), "next", <<>>),
              LetOf(x, MethodExpr(Ident(it), "current", <<>>), body)))

\* desugar_for: of two temporaries the iterator's is numbered first.
DesugarFor(e, x, iterable, body, d) ==
  LET it   == TempName("it", d.temps)
      enum == TempName("enum", d.temps + 1)
      loop(source) == InPlaceOf(e, WrapForLoop(x, it, source, body))
  IN  IF NeedsIter(d, iterable)
      THEN Desugared(LetOf(enum, iterable, loop(MethodExpr(Ident(enum), "iter", <<>>))),
                     [d EXCEPT !.temps = @ + 2])
      ELSE Desugared(loop(iterable), [d EXCEPT !.temps = @ + 1])

\* desugar_vec_generator; its for is a new node.
DesugarVecGen(e, d) ==
  LET vec  == TempName("vec", d.temps)
      push == CallExpr(Ident("__vec_push"), <<Ident(vec), e.kids[1]>>)
      loop == DesugarFor(Node("for", <<>>), e.name, e.kids[2], push,
                         [d EXCEPT !.temps = @ + 1])
  IN  Desugared(InPlaceOf(e, LetOf(vec, CallExpr(Ident("__vec_new"), <<NumLit(0)>>),
                                   BlockExpr(<<loop.e, Ident(vec)>>))), loop.d)

\* desugar_array_gen: the size is evaluated for the array and again before
\* every turn, and the result takes the id 0, which is another node's.
DesugarArrayGen(e, d) ==
  LET arr  == TempName("arr", d.temps)
      idx  == TempName("idx", d.temps + 1)
      size == e.kids[1]
      turn == BlockExpr(<<
        AssignExpr(TargetIndex(Ident(arr), Ident(idx)), LetOf(e.name, Ident(idx), e.kids[2])),
        AssignExpr(TargetIdent(idx), BinExpr("+", Ident(idx), NumLit(1)))>>)
  IN  Desugared(
        InPlaceOf(d.first,
          LetOf(arr, ArrayNewExpr(e.type, size),
            LetOf(idx, NumLit(0),
              BlockExpr(<<WhileExpr(BinExpr("<", Ident(idx), size), turn), Ident(arr)>>)))),
        [d EXCEPT !.temps = @ + 2])

\* desugar_concat_spaced; a space is one character.
DesugarConcat(e) ==
  InPlaceOf(e, BinExpr("@", BinExpr("@", e.kids[1], StrLit(1)), e.kids[2]))

-----------------------------------------------------------------------------
(* Lambdas.                                                                *)

IsLocal(sym) == sym.kind \in {"Variable", "Parameter"}
Name(e)      == IF e.k = "base" THEN "base" ELSE e.name

\* collect_free_vars: the uses of local names that the body does not bind, in
\* the order of their first; what is only assigned to is not among them.
\* Desugared, a body has no other binder than let.
RECURSIVE FreeVars(_, _, _)
FreeVars(e, bound, free) ==
  LET Within(es, b, f) == FoldLeft(LAMBDA acc, kid : FreeVars(kid, b, acc), f, es)
      InBinding(acc, b) == [bound |-> acc.bound \cup {b.name},
                            free  |-> FreeVars(b.kids[1], acc.bound, acc.free)]
      bs == FoldLeft(InBinding, [bound |-> bound, free |-> free], BindingsOf(e))
  IN  CASE e.k \in {"ident", "base"} ->
             IF /\ Name(e) \notin bound /\ IsLocal(e.sym)
                /\ \A j \in DOMAIN free : Name(free[j]) # Name(e)
             THEN Append(free, e) ELSE free
        [] e.k = "let" -> FreeVars(BodyOf(e), bs.bound, bs.free)
        [] e.k \in {"tident", "tfield", "tindex"} -> free
        [] OTHER -> Within(e.kids, bound, free)

\* rewrite_free_vars: every use of the name, whatever binds it; no target.
RECURSIVE RewriteFree(_, _)
RewriteFree(e, names) ==
  LET Inside(kid) == RewriteFree(kid, names)
  IN  IF e.k \in {"ident", "base"}
      THEN IF Name(e) \in names THEN InPlaceOf(e, FieldExpr(SelfExpr, Name(e))) ELSE e
      ELSE IF e.k \in {"tident", "tfield", "tindex"} THEN e
      ELSE WithKids(e, Inside)

\* symbol_type_ann
CaptureAnn(d, sym) ==
  LET kind == I!KindOf(d.i, d.i.symbols[sym.id])
  IN  IF sym.id \in DOMAIN d.i.symbols /\ kind.k # "vector"
      THEN Named(kind.name) ELSE Named("Object")

\* A type of one method, and fields the constructor's parameters initialise.
Generated(name, fields, params, body) ==
  [k |-> "type", name |-> name, params |-> fields, parent |-> NoParent,
   members |->
     [j \in DOMAIN fields |-> [k |-> "attr", name |-> fields[j].name,
                               ann |-> fields[j].ann, body |-> Ident(fields[j].name)]]
     \o <<[k |-> "method", name |-> "invoke", params |-> params, ret |-> NoAnn,
           body |-> body]>>]

\* register_generated_type
RegisterGenerated(d, type) ==
  [d EXCEPT !.kinds = @ + 1, !.types = Append(@, type),
            !.i = I!AddType(@, I!Kind("user", type.name, ObjectTy))]

\* lower_lambda: an object of a type of its own, made with the values the
\* captured variables have there.
LowerLambda(e, d) ==
  LET name   == TypeName("Lambda", d.kinds)
      free   == FreeVars(e.kids[1], {e.params[j].name : j \in DOMAIN e.params}, <<>>)
      fields == [j \in DOMAIN free |-> Param(Name(free[j]), CaptureAnn(d, free[j].sym))]
      args   == [j \in DOMAIN free |-> [Ident(Name(free[j])) EXCEPT !.sym = free[j].sym]]
      body   == RewriteFree(e.kids[1], {Name(free[j]) : j \in DOMAIN free})
  IN  Desugared(InPlaceOf(e, NewExpr(name, args)),
                RegisterGenerated(d, Generated(name, fields, e.params, body)))

-----------------------------------------------------------------------------
(* Functions as values.                                                    *)

\* create_function_wrapper: a function nothing is known of gets no parameters.
MakeWrapper(f, d) ==
  LET sig    == IF f \in DOMAIN d.sigs THEN d.sigs[f] ELSE <<>>
      params == [j \in DOMAIN sig |-> Param("__arg_" \o ToString(j - 1), sig[j].ann)]
      args   == [j \in DOMAIN sig |-> Ident(params[j].name)]
      name   == TypeName("Wrapper" \o f, d.kinds)
  IN  RegisterGenerated([d EXCEPT !.wrappers = (f :> name) @@ @],
                        Generated(name, <<>>, params, CallExpr(Ident(f), args)))

\* wrap_function_argument_if_needed, with one wrapper for each function.
WrapFunction(e, d) ==
  LET d1 == IF e.name \in DOMAIN d.wrappers THEN d ELSE MakeWrapper(e.name, d)
  IN  IF e.k # "ident" \/ e.sym.kind # "Function" THEN Desugared(e, d)
      ELSE Desugared(InPlaceOf(e, NewExpr(d1.wrappers[e.name], <<>>)), d1)

\* should_rewrite_functor_call
IsFunctor(callee) ==
  \/ callee.k = "ident" /\ IsLocal(callee.sym)
  \/ callee.k \in {"call", "method", "field"}

-----------------------------------------------------------------------------
RECURSIVE Desugar(_, _), DesugarAll(_, _), DesugarArgs(_, _)

DesugarAll(es, d) ==
  IF es = <<>> THEN [es |-> <<>>, d |-> d]
  ELSE LET head == Desugar(Head(es), d)
           tail == DesugarAll(Tail(es), head.d)
       IN  [es |-> <<head.e>> \o tail.es, d |-> tail.d]

DesugarArgs(es, d) ==
  IF es = <<>> THEN [es |-> <<>>, d |-> d]
  ELSE LET arg  == Desugar(Head(es), d)
           head == WrapFunction(arg.e, arg.d)
           tail == DesugarArgs(Tail(es), head.d)
       IN  [es |-> <<head.e>> \o tail.es, d |-> tail.d]

DesugarCall(e, d) ==
  LET callee == Desugar(CalleeOf(e), d)
      args   == DesugarArgs(ArgsOf(e), callee.d)
  IN  Desugared(IF IsFunctor(callee.e)
                THEN InPlaceOf(e, MethodExpr(callee.e, "invoke", args.es))
                ELSE [e EXCEPT !.kids = <<callee.e>> \o args.es], args.d)

\* desugar_expr: the subexpressions first.  Those of an assignment's target are
\* left as they are, sugar included.
Desugar(e, d) ==
  LET all == DesugarAll(e.kids, d)
      e1  == [e EXCEPT !.kids = all.es]
  IN  CASE e.k \in {"tident", "tfield", "tindex"} -> Desugared(e, d)
        [] e.k = "call" -> DesugarCall(e, d)
        [] e.k = "bin" -> Desugared(IF e.op = "@@" THEN DesugarConcat(e1) ELSE e1, all.d)
        [] e.k = "for" -> DesugarFor(e1, e.name, e1.kids[1], e1.kids[2], all.d)
        [] e.k = "vecgen" -> DesugarVecGen(e1, all.d)
        [] e.k = "arraygen" -> DesugarArrayGen(e1, all.d)
        [] e.k = "lambda" -> LowerLambda(e1, all.d)
        [] OTHER -> Desugared(e1, all.d)

-----------------------------------------------------------------------------
(* Programs.                                                               *)

DesugarBodies(ds, d) ==
  LET all == DesugarAll([j \in DOMAIN ds |-> ds[j].body], d)
  IN  [ds |-> [j \in DOMAIN ds |-> [ds[j] EXCEPT !.body = all.es[j]]], d |-> all.d]

DesugarTypes(ts, d) ==
  FoldLeft(LAMBDA acc, t : LET ms == DesugarBodies(t.members, acc.d)
                           IN  [ts |-> Append(acc.ts, [t EXCEPT !.members = ms.ds]),
                                d |-> ms.d],
           [ts |-> <<>>, d |-> d], ts)

\* The node parsed first, of a program as parsed: the leftmost of the first body.
RECURSIVE Leftmost(_)
Leftmost(e) == IF e.kids = <<>> THEN e ELSE Leftmost(e.kids[1])
FirstNode(P) == Leftmost(IF P.functions = <<>> THEN P.main ELSE P.functions[1].body)

\* desugar: functions, members (but no parent's arguments), macros, the main
\* expression; the types made on the way are the last of the program.
DesugarProgram(P, r, i, first) ==
  LET names == {P.functions[j].name : j \in DOMAIN P.functions}
      fs    == DesugarBodies(P.functions,
                 [r |-> r, i |-> i, temps |-> 0, kinds |-> 0, types |-> <<>>,
                  wrappers |-> R!NoMap, first |-> first,
                  sigs |-> [f \in names |-> Declared(P.functions, f).params]])
      ts    == DesugarTypes(P.types, fs.d)
      ms    == DesugarBodies(P.macros, ts.d)
      main  == Desugar(P.main, ms.d)
  IN  [program |-> [P EXCEPT !.functions = fs.ds, !.types = ts.ts \o main.d.types,
                             !.macros = ms.ds, !.main = main.e],
       d |-> main.d]
=============================================================================
