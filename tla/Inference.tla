----------------------------- MODULE Inference -----------------------------
(***************************************************************************)
(* Type inference: src/crates/hulk-types, as infer_all of                  *)
(* src/crates/hulk-driver/src/compile.rs runs it after the resolver r.     *)
(*                                                                         *)
(* The state is a record i: the table of types, the types known of symbols *)
(* and the diagnostics.  Inferring an expression leaves its type in every  *)
(* node the inferer reaches; the others keep ObjectTy, which is what the     *)
(* passes that follow take an unrecorded type for.                         *)
(***************************************************************************)
EXTENDS Syntax

R == INSTANCE Scoping

NoType == 99             \* no parent: not the id of a type

Kind(k, name, of) == [k |-> k, name |-> name, of |-> of]
BuiltinKinds ==
  <<Kind("builtin", "Object", NoType), Kind("builtin", "Number", NoType),
    Kind("builtin", "String", NoType), Kind("builtin", "Boolean", NoType)>>

NewInferer == [types |-> BuiltinKinds, symbols |-> R!NoMap, bag |-> <<>>]

\* The ids of the table are one less than its indices.
KindOf(i, ty)   == i.types[ty + 1]
NextType(i)     == Len(i.types)
AddType(i, kind) == [i EXCEPT !.types = Append(@, kind)]
TypesNamed(i, name) ==
  {n \in DOMAIN i.types : i.types[n].name = name /\ i.types[n].k # "vector"}
TypeIdByName(i, name) ==
  IF TypesNamed(i, name) = {} THEN ObjectTy ELSE R!Min(TypesNamed(i, name)) - 1

\* register_user_type, register_protocol: a type's parent is not recorded.
RegisterType(i, name, kind) ==
  IF TypesNamed(i, name) # {} THEN i ELSE AddType(i, Kind(kind, name, NoType))

\* resolve_named_type: the builtin types, and Object for any other.
NamedType(name) == CASE name = "Number" -> NumberTy
                     [] name = "String" -> StringTy
                     [] name = "Boolean" -> BooleanTy
                     [] OTHER -> ObjectTy

RECURSIVE Conforms(_, _, _), Lca(_, _, _)
Conforms(i, t, u) ==
  \/ t = u \/ u = ObjectTy
  \/ KindOf(i, t).k = "user" /\ KindOf(i, t).of # NoType /\ Conforms(i, KindOf(i, t).of, u)

Lca(i, t, u) ==
  IF Conforms(i, t, u) THEN u
  ELSE IF Conforms(i, u, t) THEN t
  ELSE IF KindOf(i, t).k = "user" /\ KindOf(i, t).of # NoType THEN Lca(i, KindOf(i, t).of, u)
  ELSE ObjectTy
LcaOf(i, tys) == R!FoldLeft(LAMBDA t, u : Lca(i, t, u), tys[1], Tail(tys))

\* is_iterable_type
Iterable(i, r, ty) ==
  LET kind == KindOf(i, ty)
      has(m) == R!HasMethod(r, R!Lookup(r, kind.name), m)
  IN  \/ kind.k = "vector"
      \/ kind.k = "protocol" /\ kind.name \in {"Iterable", "Enumerable"}
      \/ /\ kind.k = "user" /\ R!Lookup(r, kind.name) # R!None
         /\ (has("next") /\ has("current")) \/ has("iter")

-----------------------------------------------------------------------------
(* Expressions.                                                            *)

Complain(c, i, what) == IF c THEN [i EXCEPT !.bag = Append(@, what)] ELSE i
Unsuited(ty, wanted) == ty \notin {wanted, ObjectTy}

\* check_call_arity_and_types, against whatever the name means globally.
CheckCall(e, r, i) ==
  LET f    == R!Lookup(r, CalleeOf(e).name)
      anns == r.paramAnns[f]
      args == ArgsOf(e)
      Misfit(n) == LET want == IF anns[n].form = "named" THEN NamedType(anns[n].names[1])
                               ELSE ObjectTy
                   IN  want # ObjectTy /\ Unsuited(args[n].ty, want)
  IN  IF f \notin DOMAIN r.paramAnns THEN i
      ELSE IF Len(args) # Len(anns) THEN Complain(TRUE, i, "arity")
      ELSE Complain(\E n \in DOMAIN args : Misfit(n), i, "argument type")

\* The subexpressions a node's inference visits, in order.
Visited(e) ==
  CASE e.k \in {"new", "is", "as", "tident", "tfield", "tindex"} -> <<>>
    [] e.k \in {"assign", "while"} -> <<2>>
    [] e.k = "call" -> [n \in 1..(Len(e.kids) - 1) |-> n + 1]
                       \o (IF CalleeOf(e).k = "ident" THEN <<>> ELSE <<1>>)
    [] OTHER -> [n \in DOMAIN e.kids |-> n]

\* The types of an if's branches: then, each elif's body, else or Object.
BranchTypes(e) ==
  <<e.kids[2].ty>>
  \o [n \in 1..((Len(e.kids) - 2) \div 2) |-> e.kids[2 * n + 2].ty]
  \o <<IF HasElse(e) THEN BodyOf(e).ty ELSE ObjectTy>>
Conditions(e) ==
  {e.kids[1]} \cup {e.kids[2 * n + 1] : n \in 1..((Len(e.kids) - 2) \div 2)}

OpType(op) == CASE op \in {"+", "-", "*", "/", "%", "^", "neg"} -> NumberTy
                [] op \in {"@", "@@"} -> StringTy
                [] OTHER -> BooleanTy

\* The type of a node whose subexpressions have theirs.
TypeOf(e, i) ==
  CASE e.k = "num" -> NumberTy
    [] e.k = "str" -> StringTy
    [] e.k \in {"bool", "is"} -> BooleanTy
    [] e.k = "ident" -> IF e.sym.id \in DOMAIN i.symbols THEN i.symbols[e.sym.id] ELSE ObjectTy
    [] e.k \in {"bin", "un"} -> OpType(e.op)
    [] e.k = "index" -> IF KindOf(i, e.kids[1].ty).k = "vector"
                        THEN KindOf(i, e.kids[1].ty).of ELSE ObjectTy
    [] e.k = "block" -> IF e.kids = <<>> THEN ObjectTy ELSE BodyOf(e).ty
    [] e.k \in {"let", "for", "assign", "while"} -> BodyOf(e).ty
    [] e.k = "bind" -> e.kids[1].ty
    [] e.k = "if" -> LcaOf(i, BranchTypes(e))
    [] e.k = "new" -> TypeIdByName(i, e.type)
    [] e.k \in {"vec", "vecgen"} -> NextType(i)
    [] OTHER -> ObjectTy

\* What a node adds to the state: every vector is a type of its own.
Consequence(e, r, i) ==
  CASE e.k = "vec" /\ e.kids = <<>> -> AddType(i, Kind("user", "Vector", ObjectTy))
    [] e.k = "vec" -> AddType(i, Kind("vector", "", LcaOf(i, [n \in DOMAIN e.kids |-> e.kids[n].ty])))
    [] e.k = "vecgen" -> AddType(i, Kind("vector", "", e.kids[1].ty))
    [] e.k = "bind" /\ e.sym # NoSym -> [i EXCEPT !.symbols = (e.sym.id :> e.kids[1].ty) @@ @]
    [] e.k = "call" /\ CalleeOf(e).k = "ident" -> CheckCall(e, r, i)
    [] e.k = "if" -> Complain(\E c \in Conditions(e) : Unsuited(c.ty, BooleanTy), i, "condition")
    [] e.k = "for" -> Complain(e.kids[1].ty # ObjectTy /\ ~ Iterable(i, r, e.kids[1].ty),
                               i, "not iterable")
    [] OTHER -> i

RECURSIVE Infer(_, _, _), InferKids(_, _, _, _)
InferKids(e, order, r, i) ==
  IF order = <<>> THEN [e |-> e, i |-> i]
  ELSE LET kid == Infer(e.kids[Head(order)], r, i)
       IN  InferKids([e EXCEPT !.kids[Head(order)] = kid.e], Tail(order), r, kid.i)

\* infer_expr
Infer(e, r, i) ==
  LET all == InferKids(e, Visited(e), r, i)
  IN  [e |-> [all.e EXCEPT !.ty = TypeOf(all.e, all.i)],
       i |-> Consequence(all.e, r, all.i)]

-----------------------------------------------------------------------------
(* Declarations.                                                           *)

\* register_function_params: of a function, a method or a constructor.
RegisterParams(id, r, i) ==
  IF id \notin DOMAIN r.paramSyms THEN i
  ELSE R!FoldLeft(LAMBDA acc, n :
         IF r.paramAnns[id][n].form # "named" THEN acc
         ELSE [acc EXCEPT !.symbols =
                 (r.paramSyms[id][n] :> NamedType(r.paramAnns[id][n].names[1])) @@ @],
         i, [n \in DOMAIN r.paramSyms[id] |-> n])

\* check_function_return_type
CheckReturn(f, ty, i) ==
  LET declared == IF f.ret.form = "named" THEN NamedType(f.ret.names[1]) ELSE ObjectTy
  IN  Complain(declared # ObjectTy /\ Unsuited(ty, declared), i, "return type")

InferFunction(f, r, i) ==
  LET body == Infer(f.body, r, RegisterParams(R!Lookup(r, f.name), r, i))
  IN  [d |-> [f EXCEPT !.body = body.e], i |-> CheckReturn(f, body.e.ty, body.i)]

InferMember(type, m, r, i) ==
  LET id   == R!Lookup(r, type)
      i1   == IF m.k = "method" THEN RegisterParams(r.methods[id][m.name], r, i) ELSE i
      body == Infer(m.body, r, i1)
  IN  [d |-> [m EXCEPT !.body = body.e], i |-> body.i]

\* A pass over a sequence, threading the state.
InferEach(ds, F(_, _), i) ==
  R!FoldLeft(LAMBDA acc, d : LET one == F(d, acc.i)
                             IN  [ds |-> Append(acc.ds, one.d), i |-> one.i],
             [ds |-> <<>>, i |-> i], ds)

InferType(t, r, i) ==
  LET expr(e, acc)   == LET one == Infer(e, r, acc) IN [d |-> one.e, i |-> one.i]
      member(m, acc) == InferMember(t.name, m, r, acc)
      as == InferEach(t.parent.args, expr, RegisterParams(R!Lookup(r, t.name), r, i))
      ms == InferEach(t.members, member, as.i)
  IN  [d |-> [t EXCEPT !.parent.args = as.ds, !.members = ms.ds], i |-> ms.i]

\* infer_all: the types are registered before any body is inferred.
InferProgram(P, r) ==
  LET function(f, acc) == InferFunction(f, r, acc)
      type(t, acc)     == InferType(t, r, acc)
      macro(m, acc)    == LET body == Infer(m.body, r, acc)
                          IN  [d |-> [m EXCEPT !.body = body.e], i |-> body.i]
      known == R!FoldLeft(LAMBDA acc, t : RegisterType(acc, t.name, "user"), NewInferer, P.types)
      start == R!FoldLeft(LAMBDA acc, p : RegisterType(acc, p.name, "protocol"), known, P.protocols)
      fs    == InferEach(P.functions, function, start)
      ts    == InferEach(P.types, type, fs.i)
      ms    == InferEach(P.macros, macro, ts.i)
      main  == Infer(P.main, r, ms.i)
  IN  [program |-> [P EXCEPT !.functions = fs.ds, !.types = ts.ds, !.macros = ms.ds,
                             !.main = main.e],
       i |-> main.i]
=============================================================================
