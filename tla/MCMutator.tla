------------------------------ MODULE MCMutator ------------------------------
(***************************************************************************)
(* Programs for the checks of Mutator.  In the rooted ones every reference *)
(* that must survive an allocation is in a let-bound variable nothing      *)
(* assigns to, in a parameter whose argument is, or in a field of such an  *)
(* object.                                                                 *)
(***************************************************************************)
EXTENDS Mutator, Compiler

S == INSTANCE Semantics

CONSTANT Depth     \* of the generated programs

N(n)        == NumLit(n)
T(n)        == StrLit(n)
V(x)        == Ident(x)
Op(o, l, r) == BinExpr(o, l, r)
Cat(l, r)   == BinExpr("@", l, r)
Let(x, e, b) == LetExpr(<<BindExpr(x, NoAnn, e)>>, b)
Set(x, e)   == AssignExpr(TargetIdent(x), e)
Put(f, e)   == AssignExpr(TargetField(SelfExpr, f), e)
My(f)       == FieldExpr(SelfExpr, f)
If(c, a, b) == IfExpr(c, a, <<>>, b)
Do(es)      == BlockExpr(es)
App(f, as)  == CallExpr(Ident(f), as)
Ask(o, m)   == MethodExpr(o, m, <<>>)
Say(e)      == App("print", <<e>>)
Upto(lo, hi) == App("range", <<N(lo), N(hi)>>)
Str(x)      == Param(x, Named("String"))
Num_(x)     == Param(x, Named("Number"))

Attr(a, e)     == [k |-> "attr", name |-> a, ann |-> NoAnn, body |-> e]
Meth(m, ps, e) == [k |-> "method", name |-> m, params |-> ps, ret |-> NoAnn, body |-> e]
Fun(f, ps, e)  == [name |-> f, params |-> ps, ret |-> NoAnn, body |-> e]
Def(m, ps, e)  == [name |-> m, params |-> ps, body |-> e]
Inherits(T_, as) == [name |-> T_, args |-> as]
Type(T_, ps, up, ms) == [k |-> "type", name |-> T_, params |-> ps, parent |-> up, members |-> ms]

-----------------------------------------------------------------------------
(* Declarations the programs share.                                        *)

\* function grow(s: String, n: Number) => if (n < 1) s else let t = s @ s in
\*   grow(t, n - 1);
Grow == Fun("grow", <<Str("s"), Num_("n")>>,
  If(Op("<", V("n"), N(1)), V("s"),
     Let("t", Cat(V("s"), V("s")), App("grow", <<V("t"), Op("-", V("n"), N(1))>>))))

\* function twice(f: (String) -> String, s: String) => f(f(s)) with lets;
\* function shout(s: String) => s @ s;
Twice == Fun("twice", <<Param("f", Functor(<<"String", "String">>)), Str("s")>>,
  Let("t", App("f", <<V("s")>>), App("f", <<V("t")>>)))
Shout == Fun("shout", <<Str("s")>>, Cat(V("s"), V("s")))

\* type Box(v: String) { v = v; n = 0; double() => let t = self.v @ self.v in
\*   { self.v := t; self.n := self.n + 1; self.v; } }
Box == Type("Box", <<Str("v")>>, NoParent,
  <<Attr("v", V("v")), Attr("n", N(0)),
    Meth("double", <<>>,
      Let("t", Cat(My("v"), My("v")),
          Do(<<Put("v", V("t")), Put("n", Op("+", My("n"), N(1))), My("v")>>)))>>)

\* A hierarchy: Dog inherits its constructor, Pup calls it with its own argument.
Animal == Type("Animal", <<Str("name")>>, NoParent,
  <<Attr("name", V("name")), Meth("call", <<>>, My("name")),
    Meth("speak", <<>>, Cat(My("name"), My("name")))>>)
Dog == Type("Dog", <<>>, Inherits("Animal", <<>>),
  <<Meth("speak", <<>>, Let("s", CallExpr(BaseExpr, <<>>), Cat(V("s"), V("s"))))>>)
Pup == Type("Pup", <<Str("own")>>, Inherits("Dog", <<V("own")>>),
  <<Attr("own", V("own"))>>)

\* An iterator, and a type that only gives one.
Count == Type("Count", <<Num_("n")>>, NoParent,
  <<Attr("i", N(0)), Attr("n", V("n")),
    Meth("next", <<>>, Do(<<Put("i", Op("+", My("i"), N(1))), Op("<", My("i"), My("n"))>>)),
    Meth("current", <<>>, My("i"))>>)
Bag == Type("Bag", <<>>, NoParent, <<Meth("iter", <<>>, NewExpr("Count", <<N(3)>>))>>)

\* def repeat(n, *body) => let i = n in while (0 < i) { body; i := i - 1; };
Repeat == Def("repeat", <<MacroParam("n", "regular", Named("Number")),
                          MacroParam("body", "body", Named("Object"))>>,
  Let("i", V("n"), WhileExpr(Op("<", N(0), V("i")),
                             Do(<<V("body"), Set("i", Op("-", V("i"), N(1)))>>))))
\* def both(a, b) => let c = a in { repeat(1) { print(c); } print(b); };
Both == Def("both", <<MacroParam("a", "regular", NoAnn), MacroParam("b", "regular", NoAnn)>>,
  Let("c", V("a"), Do(<<App("repeat", <<N(1), Do(<<Say(V("c"))>>)>>), Say(V("b"))>>)))
\* def fold(e) => match (e) { case (l: Number + r: Number) => l * r; case 0 => 7;
\*   default => e + 0; };
Case(name, as) == App("__hulk_" \o name, as)
Fold == Def("fold", <<MacroParam("e", "regular", NoAnn)>>,
  App("__hulk_match", <<V("e"),
    Case("case_binop", <<TextLit("+"), V("l"), TextLit("Number"), V("r"), TextLit("Number"),
                         Op("*", V("l"), V("r"))>>),
    Case("case_lit", <<N(0), N(7)>>),
    Case("default", <<Op("-", N(9), N(0))>>)>>))

\* Only what a program uses, so that nothing else can be what goes wrong.
Program(fs, ts, ms, e) ==
  [functions |-> fs, types |-> ts, protocols |-> <<>>, macros |-> ms, main |-> e,
   collects |-> TRUE]
Prog(e)  == Program(<<>>, <<>>, <<>>, e)
Small(p) == [p EXCEPT !.collects = FALSE]

-----------------------------------------------------------------------------
(* Rooted programs.                                                        *)

Chain == Prog(
  Let("x", T(1), Let("y", T(2), Let("z", Cat(V("x"), V("y")), Let("w", Cat(V("z"), V("x")),
    Do(<<Say(V("w")), Say(V("z")), Say(V("y"))>>))))))

\* The result of a let outlives its pops until the outer variable takes it.
NestedLets == Prog(
  Let("x", Let("y", T(2), Let("z", Cat(V("y"), V("y")), V("z"))),
    Let("w", Cat(V("x"), V("x")), Do(<<Say(V("x")), Say(V("w"))>>))))

Recursion == Program(<<Grow>>, <<>>, <<>>,
  Let("x", T(1), Let("y", App("grow", <<V("x"), N(2)>>), Do(<<Say(V("y")), Say(V("x"))>>))))

\* The object's field keeps what a loop's body makes.
Objects == Program(<<>>, <<Box>>, <<>>,
  Let("x", T(1), Let("b", NewExpr("Box", <<V("x")>>),
    Do(<<ForExpr("k", Upto(0, 2), Say(Ask(V("b"), "double"))),
         Say(FieldExpr(V("b"), "n")), Say(V("x"))>>))))

\* One for after another with one variable name.
TwoFors == Prog(
  Let("x", T(1), Do(<<
    ForExpr("k", Upto(0, 2), Say(V("k"))),
    ForExpr("k", Upto(5, 7), Let("y", Cat(V("x"), V("x")), Do(<<Say(V("k")), Say(V("y"))>>)))>>)))

\* The first turn takes the elif, the second the else, the third the then.
Branches == Prog(
  Let("i", N(0), Let("x", T(1),
    WhileExpr(Op("<", V("i"), N(3)),
      Do(<<Say(IfExpr(Op("<", N(1), V("i")), Let("y", Cat(V("x"), V("x")), V("y")),
                      <<Op("<", V("i"), N(1)), If(Op("<", N(2), V("i")), V("x"),
                                                  Let("y", T(5), V("y")))>>,
                      V("x"))),
           Set("i", Op("+", V("i"), N(1)))>>)))))

\* A lambda takes what it captures with it, and is called in another scope.
Lambdas == Prog(
  Let("x", T(1), Let("f", LambdaExpr(<<Str("y")>>, Cat(V("x"), V("y"))),
    Let("x", T(5), Let("a", App("f", <<V("x")>>), Let("b", App("f", <<V("a")>>),
      Do(<<Say(V("b")), Say(V("a"))>>)))))))

\* A lambda passed on is called with what it captured.
Passing == Program(<<Twice>>, <<>>, <<>>,
  Let("x", T(1), Let("a", T(2),
    Let("f", LambdaExpr(<<Str("y")>>, Cat(V("y"), V("a"))),
      Let("c", App("twice", <<V("f"), V("x")>>), Do(<<Say(V("x")), Say(V("c"))>>))))))

\* Vectors: a literal, a generator, elements and the size.
Vectors == Prog(
  Let("x", T(1), Let("v", VecExpr(<<N(4), N(5)>>),
    Let("w", VecGenExpr(Op("+", V("k"), V("k")), "k", V("v")),
      Do(<<Say(IndexExpr(V("v"), N(1))), AssignExpr(TargetIndex(V("v"), N(0)), N(9)),
           Say(IndexExpr(V("v"), N(0))), ForExpr("k", V("w"), Say(V("k"))),
           Say(Ask(V("w"), "size")), Say(V("x"))>>)))))

\* An object is an array's, too.
ObjectArray == Program(<<>>, <<Box>>, <<>>,
  Let("x", T(1), Let("b", NewExpr("Box", <<V("x")>>), Let("c", ArrayNewExpr("Box", N(2)),
    Do(<<AssignExpr(TargetIndex(V("c"), N(1)), V("b")),
         Say(Ask(IndexExpr(V("c"), N(1)), "double")), Say(Ask(V("c"), "size"))>>)))))

Iterators == Program(<<>>, <<Count, Bag>>, <<>>,
  Let("x", T(1), Do(<<ForExpr("k", NewExpr("Count", <<N(3)>>), Say(V("k"))),
    ForExpr("k", NewExpr("Bag", <<>>), Let("y", Cat(V("x"), V("x")),
                                           Do(<<Say(V("k")), Say(V("y"))>>)))>>)))

\* The caller's i and c are not the macros', and the block means the caller's.
Repeating == Program(<<>>, <<>>, <<Repeat>>,
  Let("i", T(3), Let("c", T(2),
    App("repeat", <<N(2), Do(<<Say(V("i")), Set("i", Cat(V("c"), V("c")))>>)>>))))
Hygiene == Program(<<>>, <<>>, <<Repeat, Both>>,
  Let("i", T(3), Let("c", T(2), App("both", <<V("i"), V("c")>>))))
Matching == Program(<<>>, <<>>, <<Fold>>,
  Let("x", N(2), Do(<<Say(App("fold", <<Op("+", N(3), N(5))>>)),
                      Say(App("fold", <<N(0)>>)), Say(App("fold", <<V("x")>>))>>)))

\* Every operator on numbers, on both sides of its boundary.
Arithmetic == Prog(
  Let("x", N(7), Let("y", N(2),
    Do(<<Say(Op("/", V("x"), V("y"))), Say(Op("%", V("x"), V("y"))), Say(Op("^", V("x"), V("y"))),
         Say(Op("/", Op("-", V("y"), V("x")), V("y"))), Say(Op("%", Op("-", V("y"), V("x")), V("y"))),
         Say(Op("<=", V("x"), N(7))), Say(Op(">", V("x"), N(7))), Say(Op(">=", V("x"), N(7))),
         Say(Op("<=", V("x"), V("y"))), Say(Op(">", V("x"), V("y"))), Say(Op(">=", V("y"), V("x")))>>))))

\* Every rooted expression of type String of the given depth over the
\* variables vs: bindings of literals and concatenations, branches taken and
\* not, blocks, loops, macros and lambdas.
RECURSIVE Strings(_, _)
Strings(depth, vs) ==
  IF depth = 0 THEN vs
  ELSE LET less == Strings(depth - 1, vs)
           v    == <<"v1", "v2", "v3">>[depth]
           k    == <<"k1", "k2", "k3">>[depth]
       IN  less
           \cup {Let(v, e, b) : e \in {T(1)} \cup {Cat(l, r) : l, r \in vs},
                               b \in Strings(depth - 1, vs \cup {V(v)})}
           \cup {If(Op("<", N(n), N(1)), l, r) : n \in 0..1, l, r \in less}
           \cup {Do(<<Say(l), r>>) : l \in less, r \in vs}
           \cup {Do(<<ForExpr(k, Upto(0, 2), Say(l)), r>>) : l \in less, r \in vs}

Rooted == {Chain, NestedLets, Recursion, Objects, TwoFors, Branches, Lambdas,
           Passing, Vectors, ObjectArray, Iterators, Repeating, Hygiene, Matching, Arithmetic}
          \cup {Prog(Let("x", T(1), Let("y", T(2), Say(e)))) :
                  e \in Strings(Depth, {V("x"), V("y")})}

-----------------------------------------------------------------------------
(* Programs that are not.                                                  *)

\* let x = "a" in { x := x @ x; let y = "bb" in print(x); }
Reassigned == Prog(
  Let("x", T(1), Do(<<Set("x", Cat(V("x"), V("x"))), Let("y", T(2), Say(V("x")))>>)))

\* print("a" @ 1)
Literals == Prog(Say(Cat(T(1), N(1))))

\* let b = new Box("a") in print(b.n @ b.n)
Numbers == Program(<<>>, <<Box>>, <<>>,
  Let("x", T(1), Let("b", NewExpr("Box", <<V("x")>>),
    Say(Cat(FieldExpr(V("b"), "n"), FieldExpr(V("b"), "n"))))))

\* let x = "a" in print(x @@ x): the space between is a literal.
Spaced == Prog(Let("x", T(1), Say(Op("@@", V("x"), V("x")))))

\* twice(shout, x): what shout is wrapped in is in no variable.
Wrapping == Program(<<Twice, Shout>>, <<>>, <<>>,
  Let("x", T(1), Let("a", App("twice", <<V("shout"), V("x")>>),
    Let("b", App("twice", <<V("shout"), V("a")>>), Do(<<Say(V("b")), Say(V("a"))>>)))))

\* let b = new Loud("a") in print(b.v): the object under construction.
Loud == Program(<<>>, <<Type("Loud", <<Str("v")>>, NoParent, <<Attr("v", Cat(V("v"), V("v")))>>)>>, <<>>,
  Let("x", T(1), Let("b", NewExpr("Loud", <<V("x")>>), Say(FieldExpr(V("b"), "v")))))

\* Strings are compared by their text, and != negates.
Comparisons == Prog(
  Let("x", T(2), Let("y", Cat(T(1), T(1)),
    Do(<<Say(Op("==", V("x"), V("y"))), Say(Op("!=", V("x"), V("y"))),
         Say(UnExpr("not", Op("&", BoolLit(TRUE), Op("==", N(1), N(2)))))>>))))

\* The variable of the array being filled has the type of the first node, 2.
Arrays == Prog(
  Let("a", ArrayGenExpr("Number", N(2), "i", Op("+", V("i"), N(3))),
    Let("b", ArrayNewExpr("Number", N(1)),
      Do(<<Say(IndexExpr(V("a"), N(1))), Say(IndexExpr(V("b"), N(0)))>>))))

\* An object only the elements of an array refer to.
Elements == Program(<<>>, <<Box>>, <<>>,
  Let("x", T(1), Let("v", ArrayNewExpr("Box", N(1)),
    Do(<<AssignExpr(TargetIndex(V("v"), N(0)), NewExpr("Box", <<V("x")>>)),
         Let("y", Cat(V("x"), V("x")), Say(Ask(IndexExpr(V("v"), N(0)), "double")))>>))))

\* The tags of Dog and Pup do not name the word of the inherited name.
Inheriting == Program(<<>>, <<Animal, Dog, Pup>>, <<>>,
  Let("x", T(1), Let("d", NewExpr("Dog", <<V("x")>>), Let("p", NewExpr("Pup", <<V("x")>>),
    Do(<<Say(Ask(V("d"), "speak")), Say(Ask(V("p"), "speak")), Say(Ask(V("d"), "call")),
         Say(IsExpr(V("p"), "Animal")), Say(IsExpr(V("d"), "Pup")),
         Say(Ask(AsExpr(V("p"), "Dog"), "call"))>>)))))

\* function make() => let x = "a" in new Dog(x);
\* let d = make() in let y = "bb" in print(d.call())
Inherited == Program(<<Fun("make", <<>>, Let("x", T(1), NewExpr("Dog", <<V("x")>>)))>>,
                     <<Animal, Dog>>, <<>>,
  Let("d", App("make", <<>>), Let("y", T(2), Say(Ask(V("d"), "call")))))

\* A type that inherits a number: its own pointer's offset is the number's.
Tagged == Type("Tagged", <<Str("s"), Num_("m")>>, Inherits("Count", <<V("m")>>),
  <<Attr("s", V("s")), Attr("t", V("s"))>>)
Misplaced == Program(<<>>, <<Count, Tagged>>, <<>>,
  Let("x", T(1), Let("d", NewExpr("Tagged", <<V("x"), N(3)>>),
    Do(<<Ask(V("d"), "next"), Let("y", T(2), Say(FieldExpr(V("d"), "s")))>>))))

Unrooted == {Reassigned, Literals, Numbers, Spaced, Wrapping, Loud, Comparisons, Arrays, Elements,
             Inheriting, Inherited, Misplaced}
\* Without a collection the unrooted ones must work as well.
Sound    == Rooted \cup {Small(p) : p \in Unrooted}

\* for (k in range(0, 1)) { for (k in range(7, 8)) print(k); print(k); }
Shadowed == Small(Prog(
  ForExpr("k", Upto(0, 1), Do(<<ForExpr("k", Upto(7, 8), Say(V("k"))), Say(V("k"))>>))))

\* let v = [4, 5] in { for (k in v) print(k); for (j in v) print(j); }
TwiceOver == Small(Prog(
  Let("v", VecExpr(<<N(4), N(5)>>),
    Do(<<ForExpr("k", V("v"), Say(V("k"))), ForExpr("j", V("v"), Say(V("j")))>>))))

\* Each compiled, and beside it what the source says.
Built(Programs) ==
  {[code |-> Compile(P), collects |-> P.collects, says |-> S!Printed(P)] : P \in Programs}
SoundOnes    == LET Ps == Sound IN Built(Ps)
UnrootedOnes == LET Ps == Unrooted IN Built(Ps)
ShadowedOnes == LET Ps == {Shadowed, TwiceOver} IN Built(Ps)
=============================================================================
