------------------------------ MODULE MCNames ------------------------------
(***************************************************************************)
(* Programs for the checks of Names: every small expression over two names *)
(* in every place an expression may stand, every hierarchy of three types, *)
(* and protocols that extend one another.                                  *)
(***************************************************************************)
EXTENDS Names

CONSTANT Wide     \* whether the bindings nest on both sides

Prog(fs, ts, ps, e) ==
  [functions |-> fs, types |-> ts, protocols |-> ps, macros |-> <<>>, main |-> e]
WithMacros(P, ms) == [P EXCEPT !.macros = ms]
Fun(f, ps, e)   == [name |-> f, params |-> ps, ret |-> NoAnn, body |-> e]
Attr(a, e)      == [k |-> "attr", name |-> a, ann |-> NoAnn, body |-> e]
Meth(m, ps, e)  == [k |-> "method", name |-> m, params |-> ps, ret |-> NoAnn, body |-> e]
Type(t, ps, up, ms) == [k |-> "type", name |-> t, params |-> ps, parent |-> up, members |-> ms]
Untyped(x)      == <<Param(x, NoAnn)>>
Say(e)        == CallExpr(Ident("print"), <<e>>)

\* Ways to build an expression from two others over the names x and y.
Builds(a, b) ==
  UNION {{LetExpr(<<BindExpr(n, NoAnn, a)>>, b), ForExpr(n, a, b), VecGenExpr(b, n, a),
          ArrayGenExpr("Number", a, n, b), AssignExpr(TargetIdent(n), a),
          LambdaExpr(Untyped(n), a), CallExpr(Ident(n), <<a>>)} : n \in {"x", "y"}}
  \cup {BlockExpr(<<a, b>>), IfExpr(a, b, <<>>, a), SelfExpr,
        LetExpr(<<BindExpr("x", NoAnn, a), BindExpr("y", NoAnn, b)>>,
                BinExpr("+", Ident("x"), Ident("y")))}

Leaves  == {Ident("x"), Ident("y"), NumLit(1)}
Shallow == UNION {Builds(a, b) : a, b \in Leaves}
Deep    == UNION {Builds(a, b) : a \in IF Wide THEN Shallow ELSE Leaves, b \in Shallow}
           \cup UNION {Builds(a, b) : a \in Shallow, b \in Leaves}

\* As the main expression; in a function f(x) and a macro of the same
\* parameter; in a method of a type with a parameter y, beside an attribute x,
\* and as what the type gives its parent.
Nested == {Prog(<<>>, <<>>, <<>>, e) : e \in Deep}
Placed ==
  UNION {{WithMacros(Prog(<<Fun("f", Untyped("x"), e), Fun("g", Untyped("y"), e)>>,
                          <<>>, <<>>, Say(Ident("PI"))),
                     <<Fun("k", Untyped("x"), e)>>),
          Prog(<<>>, <<Type("S", Untyped("x"), NoParent, <<>>),
                       Type("T", Untyped("y"), [name |-> "S", args |-> <<e>>],
                            <<Attr("x", e), Meth("m", Untyped("x"), e),
                              Attr("z", e)>>)>>, <<>>, Say(NumLit(1)))} : e \in Shallow}

\* Three types, each with or without a parent.
Ups == {NoParent} \cup {[name |-> t, args |-> <<>>] : t \in {"A", "B", "C"}}
Hierarchies ==
  {Prog(<<>>, <<Type("A", <<>>, a, <<>>), Type("B", <<>>, b, <<>>),
                Type("C", <<>>, c, <<>>)>>, <<>>, NumLit(1)) : a, b, c \in Ups}

\* protocol P { m } protocol Q extends P { n }, or each extending the other;
\* the argument is of a type B that inherits A or does not.
Methods(ms) == [i \in DOMAIN ms |-> Meth(ms[i], <<>>, NumLit(1))]
Protocols ==
  {Prog(<<Fun("use", <<Param("o", Named(p))>>, NumLit(1))>>,
        <<Type("A", <<>>, NoParent, Methods(ma)), Type("B", <<>>, up, Methods(mb))>>,
        <<[name |-> "P", methods |-> {"m"}, extends |-> ep],
          [name |-> "Q", methods |-> {"n"}, extends |-> <<"P">>]>>,
        CallExpr(Ident("use"), <<NewExpr(t, <<>>)>>)) :
     p \in {"P", "Q"}, up \in {NoParent, [name |-> "A", args |-> <<>>]},
     ma, mb \in {<<>>, <<"m">>, <<"n">>, <<"m", "n">>}, ep \in {<<>>, <<"Q">>},
     t \in {"A", "B"}}

\* What a method of B, which may inherit A, asks of itself and of its base,
\* with B declared before A or after it; A may inherit B in its turn, and the
\* search for what B asks go round the two for ever.
Asks == {MethodExpr(SelfExpr, "m", <<>>), MethodExpr(SelfExpr, "n", <<>>),
         FieldExpr(SelfExpr, "a"), CallExpr(BaseExpr, <<>>),
         MethodExpr(NewExpr("A", <<>>), "n", <<>>),
         LetExpr(<<BindExpr("base", NoAnn, NumLit(1))>>, BaseExpr)}
Asked(e, up) ==
  Type("B", <<>>, up, <<Attr("b", NumLit(1)), Meth("m", <<>>, e), Meth("o", <<>>, NumLit(1))>>)
Members == {<<>>, <<Meth("m", <<>>, NumLit(1))>>, <<Meth("n", <<>>, NumLit(1))>>,
            <<Attr("a", NumLit(1))>>}
Inheriting ==
  UNION {{Prog(<<>>, <<Type("A", <<>>, over, ms), Asked(e, up)>>, <<>>, NumLit(1)),
          Prog(<<>>, <<Asked(e, up), Type("A", <<>>, over, ms)>>, <<>>, NumLit(1))} :
           e \in Asks, ms \in Members, up \in {NoParent, [name |-> "A", args |-> <<>>]},
           over \in {NoParent, [name |-> "B", args |-> <<>>]}}

All == Nested \cup Placed \cup Hierarchies \cup Protocols \cup Inheriting
=============================================================================
