------------------------------- MODULE Syntax -------------------------------
(***************************************************************************)
(* The syntax tree (src/crates/hulk-ast).  A node is a record: its kind k, *)
(* its subexpressions kids in the order the visitors walk them, whatever   *)
(* else the kind needs (a name, an operator, a type), and what the passes  *)
(* know of it: sym, the symbol the resolver recorded for the node, and ty, *)
(* the type the inferer recorded.  In the code the last two are maps keyed *)
(* by node id; a pass that makes a new node leaves it without either.      *)
(*                                                                         *)
(* Strings are their lengths, numbers are natural numbers, and a type      *)
(* annotation is a form and the names in it.                               *)
(***************************************************************************)
EXTENDS Naturals, Sequences, TLC

NoSym == [id |-> 0, name |-> "", kind |-> "none"]

\* The first ids of the table of types.
ObjectTy  == 0
NumberTy  == 1
StringTy  == 2
BooleanTy == 3

\* A node nothing is known of: Object is what an unrecorded type counts as.
Node(kind, kids) == [k |-> kind, kids |-> kids, sym |-> NoSym, ty |-> ObjectTy]

\* One visitor's turn: a node with its subexpressions replaced, in order.
WithKids(e, f(_)) == [e EXCEPT !.kids = [i \in DOMAIN @ |-> f(@[i])]]

\* Every node a visitor meets.
RECURSIVE Subexpressions(_)
Subexpressions(e) ==
  {e} \cup UNION {Subexpressions(e.kids[i]) : i \in DOMAIN e.kids}

NumLit(n)         == Node("num", <<>>) @@ [v |-> n]
StrLit(n)         == Node("str", <<>>) @@ [v |-> n]
\* The literal that names an operator or a type in a case of match.
TextLit(t)        == Node("text", <<>>) @@ [text |-> t]
BoolLit(b)        == Node("bool", <<>>) @@ [v |-> b]
Ident(x)          == Node("ident", <<>>) @@ [name |-> x]
SelfExpr          == Node("self", <<>>)
BaseExpr          == Node("base", <<>>)
BinExpr(o, l, r)  == Node("bin", <<l, r>>) @@ [op |-> o]
UnExpr(o, e)      == Node("un", <<e>>) @@ [op |-> o]
CallExpr(f, as)   == Node("call", <<f>> \o as)
MethodExpr(e, m, as) == Node("method", <<e>> \o as) @@ [m |-> m]
FieldExpr(e, f)   == Node("field", <<e>>) @@ [field |-> f]
IndexExpr(e, i)   == Node("index", <<e, i>>)
BlockExpr(es)     == Node("block", es)
VecExpr(es)       == Node("vec", es)
VecGenExpr(e, x, it) == Node("vecgen", <<e, it>>) @@ [name |-> x]
BindExpr(x, ann, e) == Node("bind", <<e>>) @@ [name |-> x, ann |-> ann]
LetExpr(bs, e)    == Node("let", bs \o <<e>>)
TargetIdent(x)    == Node("tident", <<>>) @@ [name |-> x]
TargetField(e, f) == Node("tfield", <<e>>) @@ [field |-> f]
TargetIndex(e, i) == Node("tindex", <<e, i>>)
AssignExpr(t, e)  == Node("assign", <<t, e>>)
\* elifs: conditions and bodies, alternating; an else that is missing leaves
\* an even number of subexpressions.
IfExpr(c, t, elifs, e) == Node("if", <<c, t>> \o elifs \o <<e>>)
HasElse(e)        == Len(e.kids) % 2 = 1
WhileExpr(c, b)   == Node("while", <<c, b>>)
ForExpr(x, it, b) == Node("for", <<it, b>>) @@ [name |-> x]
NewExpr(t, as)    == Node("new", as) @@ [type |-> t]
IsExpr(e, t)      == Node("is", <<e>>) @@ [type |-> t]
AsExpr(e, t)      == Node("as", <<e>>) @@ [type |-> t]
LambdaExpr(ps, e) == Node("lambda", <<e>>) @@ [params |-> ps]
ArrayNewExpr(t, n) == Node("arraynew", <<n>>) @@ [type |-> t]
ArrayGenExpr(t, n, x, e) == Node("arraygen", <<n, e>>) @@ [type |-> t, name |-> x]

\* The parts of a let, of an if and of a call.
BodyOf(e)     == e.kids[Len(e.kids)]
BindingsOf(e) == SubSeq(e.kids, 1, Len(e.kids) - 1)
CalleeOf(e)   == Head(e.kids)
ArgsOf(e)     == Tail(e.kids)
CallsName(e)  == e.k = "call" /\ CalleeOf(e).k = "ident"

NoAnn         == [form |-> "none", names |-> <<>>]
Named(t)      == [form |-> "named", names |-> <<t>>]
VectorOf(t)   == [form |-> "vector", names |-> <<t>>]
Functor(ts)   == [form |-> "functor", names |-> ts]   \* parameters and result
Param(x, ann) == [name |-> x, ann |-> ann]
\* regular n, *body, @symbolic or $placeholder.
MacroParam(x, kind, ann) == [name |-> x, kind |-> kind, ann |-> ann]

NoParent == [name |-> "", args |-> <<>>]

\* A declaration by name: a later one of the same name replaces an earlier.
Declared(decls, name) ==
  decls[CHOOSE i \in DOMAIN decls :
          /\ decls[i].name = name
          /\ \A j \in DOMAIN decls : decls[j].name = name => j <= i]
=============================================================================
