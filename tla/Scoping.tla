------------------------------ MODULE Scoping ------------------------------
(***************************************************************************)
(* Name resolution: the operations of the resolver of                      *)
(* src/crates/hulk-semantic, as functions from its state to its state.     *)
(*                                                                         *)
(* The state is a record r: the table of symbols, the stack of scopes      *)
(* (each from names to symbols), what is known of types and protocols, the *)
(* type, method and method name being resolved, the diagnostics (bag), and *)
(* stuck, set where the code would climb a cycle of parents for ever.  A   *)
(* resolved expression is the expression with the symbols in its nodes.    *)
(***************************************************************************)
EXTENDS Syntax, FiniteSets, FiniteSetsExt, SequencesExt

None == 0                \* no symbol: the ids of the table start with 1
NoMap == [x \in {} |-> 0]

Entry(name, kind) == [name |-> name, kind |-> kind]

Intrinsics == <<"__hulk_match", "__hulk_case_lit", "__hulk_case_var",
                "__hulk_case_binop", "__hulk_case_binop_right_lit", "__hulk_default">>
IsIntrinsic(name) == Contains(Intrinsics, name)

\* register_builtins, of the mathematical functions and constants one each.
BuiltinTable ==
  <<Entry("print", "BuiltinFunction"), Entry("sqrt", "BuiltinFunction"),
    Entry("range", "BuiltinFunction")>>
  \o [i \in DOMAIN Intrinsics |-> Entry(Intrinsics[i], "BuiltinFunction")]
  \o <<Entry("PI", "BuiltinValue"), Entry("Object", "BuiltinType"),
       Entry("Number", "BuiltinType"), Entry("String", "BuiltinType"),
       Entry("Boolean", "BuiltinType")>>

NewResolver ==
  [table |-> BuiltinTable,
   scopes |-> <<[x \in {BuiltinTable[i].name : i \in DOMAIN BuiltinTable} |->
                   CHOOSE i \in DOMAIN BuiltinTable : BuiltinTable[i].name = x]>>,
   parents |-> NoMap, methods |-> NoMap, attributes |-> NoMap,
   protocolMethods |-> NoMap, protocolExtends |-> NoMap,
   paramAnns |-> NoMap, paramSyms |-> NoMap,
   type |-> None, method |-> None, methodName |-> "",
   bag |-> <<>>, stuck |-> FALSE]

Report(r, what)  == [r EXCEPT !.bag = Append(@, what)]
ReportIf(c, r, what) == IF c THEN Report(r, what) ELSE r
SymbolOf(r, id)  == Entry(r.table[id].name, r.table[id].kind) @@ [id |-> id]
KindOf(r, id)    == IF id = None THEN "none" ELSE r.table[id].kind
Resolved(e, r)   == [e |-> e, r |-> r]
Prepend(head, tail) == [es |-> <<head.e>> \o tail.es, r |-> tail.r]
WithSym(e, r, id) == [e EXCEPT !.sym = SymbolOf(r, id)]

-----------------------------------------------------------------------------
(* Scopes.                                                                 *)

PushScope(r) == [r EXCEPT !.scopes = Append(@, NoMap)]

\* Wrong: the last scope above the global one stays.
KeepLast(r)  == IF Len(r.scopes) > 2 THEN [r EXCEPT !.scopes = Front(@)] ELSE r

PopScope(r)  == IF Len(r.scopes) > 1 THEN [r EXCEPT !.scopes = Front(@)] ELSE r

\* Wrong: the outermost binding.
OutermostLookup(r, name) ==
  LET hits == {i \in DOMAIN r.scopes : name \in DOMAIN r.scopes[i]}
  IN  IF hits = {} THEN None ELSE r.scopes[Min(hits)][name]

Lookup(r, name) ==
  LET hits == {i \in DOMAIN r.scopes : name \in DOMAIN r.scopes[i]}
  IN  IF hits = {} THEN None ELSE r.scopes[Max(hits)][name]

\* Wrong: the last symbol's id, not the next.
LastId(r, name, kind) ==
  LET top == Len(r.scopes)
      id  == Len(r.table)
  IN  [id |-> id, r |-> [r EXCEPT !.table = Append(@, Entry(name, kind)),
                                  !.scopes[top] = (name :> id) @@ @]]

\* define: a name already in the innermost scope keeps its symbol.
Define(r, name, kind) ==
  LET top == Len(r.scopes)
  IN  IF name \in DOMAIN r.scopes[top]
      THEN [id |-> r.scopes[top][name], r |-> Report(r, "redefinition")]
      ELSE LET id == Len(r.table) + 1
           IN  [id |-> id,
                r  |-> [r EXCEPT !.table = Append(@, Entry(name, kind)),
                                 !.scopes[top] = (name :> id) @@ @]]

-----------------------------------------------------------------------------
(* Types and protocols.                                                    *)

ResolveTypeName(r, name) ==
  ReportIf(KindOf(r, Lookup(r, name)) \notin {"Type", "BuiltinType", "Protocol"},
           r, "no such type")
RECURSIVE ResolveTypeNames(_, _)
ResolveTypeNames(r, names) ==
  IF names = <<>> THEN r ELSE ResolveTypeNames(ResolveTypeName(r, Head(names)), Tail(names))
ResolveAnn(r, ann) == ResolveTypeNames(r, ann.names)

\* A literal against its annotation (validate_expr_against_annotation).
LiteralType(e) == CASE e.k = "num" -> "Number"
                    [] e.k = "str" -> "String"
                    [] e.k = "bool" -> "Boolean"
                    [] OTHER -> "Object"
CheckLiteral(e, ann, r) ==
  ReportIf(/\ ann.form = "named" /\ e.k \in {"num", "str", "bool"}
           /\ LiteralType(e) # ann.names[1], r, "incompatible annotation")

\* Wrong: a type without a parent is its own.
OwnParent(r, t) ==
  IF t \in DOMAIN r.parents /\ r.parents[t] # None THEN r.parents[t] ELSE t

ParentOf(r, t) == IF t \in DOMAIN r.parents THEN r.parents[t] ELSE None
MethodsOf(r, t) == IF t \in DOMAIN r.methods THEN DOMAIN r.methods[t] ELSE {}
AttributesOf(r, t) == IF t \in DOMAIN r.attributes THEN r.attributes[t] ELSE {}

\* The types from t upwards, as far as the first that comes back.
RECURSIVE Climb(_, _, _)
Climb(r, t, seen) ==
  IF t = None THEN [path |-> seen, cyclic |-> FALSE]
  ELSE IF Contains(seen, t) THEN [path |-> seen, cyclic |-> TRUE]
  ELSE Climb(r, ParentOf(r, t), Append(seen, t))

HasMethod(r, t, m) ==
  \E i \in DOMAIN Climb(r, t, <<>>).path : m \in MethodsOf(r, Climb(r, t, <<>>).path[i])
HasAttribute(r, t, a) ==
  \E i \in DOMAIN Climb(r, t, <<>>).path :
     a \in AttributesOf(r, Climb(r, t, <<>>).path[i])

\* type_has_method and ancestor_owns_attribute climb with no visited set: on a
\* cycle they come back only if they find what they look for.
Missing(r, t, what) ==
  IF Climb(r, t, <<>>).cyclic THEN [r EXCEPT !.stuck = TRUE] ELSE Report(r, what)

\* resolve_concrete_type_symbol
ConcreteType(r, e) ==
  CASE e.k = "new"  -> Lookup(r, e.type)
    [] e.k = "self" -> r.type
    [] OTHER -> None

CheckMethod(e, r) ==
  LET t == ConcreteType(r, e.kids[1])
  IN  IF t = None \/ HasMethod(r, t, e.m) THEN r ELSE Missing(r, t, "no such method")
CheckField(e, r) ==
  IF r.type = None \/ HasAttribute(r, r.type, e.field) THEN r
  ELSE Missing(r, r.type, "no such attribute")

\* collect_protocol_methods: this climb has its visited set.
RECURSIVE ProtocolsFrom(_, _, _)
ProtocolsFrom(r, todo, seen) ==
  IF todo = {} THEN seen
  ELSE LET p == CHOOSE p \in todo : TRUE
       IN  ProtocolsFrom(r, (todo \cup Range(r.protocolExtends[p])) \ (seen \cup {p}),
                         seen \cup {p})
\* Wrong: the methods of the protocol alone.
OwnMethodsOnly(r, p) == r.protocolMethods[p]

Required(r, p) ==
  UNION {r.protocolMethods[q] : q \in ProtocolsFrom(r, {p}, {})}

CheckArgument(r, arg, ann) ==
  LET p == IF ann.form = "named" THEN Lookup(r, ann.names[1]) ELSE None
      t == ConcreteType(r, arg)
  IN  IF KindOf(r, p) # "Protocol" \/ t = None
         \/ \A m \in Required(r, p) : HasMethod(r, t, m)
      THEN r
      ELSE Missing(r, t, "does not conform")

\* validate_call_argument_protocol_conformance
RECURSIVE CheckEach(_, _, _)
CheckEach(r, args, anns) ==
  IF args = <<>> \/ anns = <<>> THEN r
  ELSE CheckEach(CheckArgument(r, Head(args), Head(anns)), Tail(args), Tail(anns))
CheckArguments(r, f, args) ==
  IF f \in DOMAIN r.paramAnns THEN CheckEach(r, args, r.paramAnns[f]) ELSE r

-----------------------------------------------------------------------------
(* Expressions.                                                            *)

ResolveIdent(e, r) ==
  LET id == Lookup(r, e.name)
  IN  IF id = None THEN Resolved(e, Report(r, "undeclared"))
      ELSE Resolved(WithSym(e, r, id),
             ReportIf(KindOf(r, id) = "Type", r, "not a variable"))

ResolveSelf(e, r) ==
  IF r.method = None THEN Resolved(e, Report(r, "self outside a method"))
  ELSE Resolved(WithSym(e, r, r.method), r)

\* A variable called base hides the keyword; else the direct parent must have
\* the method being resolved.
ResolveBase(e, r) ==
  LET local  == Lookup(r, "base")
      parent == ParentOf(r, r.type)
  IN  IF local # None THEN Resolved(WithSym(e, r, local), r)
      ELSE IF r.type = None \/ r.methodName = ""
      THEN Resolved(e, Report(r, "base outside a method"))
      ELSE IF r.methodName \in MethodsOf(r, parent)
      THEN Resolved(WithSym(e, r, r.methods[parent][r.methodName]), r)
      ELSE Resolved(e, Report(r, "no base method"))

ResolveTarget(e, r) ==
  LET id == Lookup(r, e.name)
  IN  IF e.name = "self" THEN Resolved(e, Report(r, "self assigned to"))
      ELSE IF id = None THEN Resolved(e, Report(r, "undeclared"))
      ELSE Resolved(WithSym(e, r, id), r)

\* define_params; the parameters of types and macros may have any name.
DefineParam(r, p, reserved) ==
  Define(ResolveAnn(ReportIf(p.name \in reserved, r, "reserved name"), p.ann),
         p.name, "Parameter")
RECURSIVE DefineEach(_, _, _, _)
DefineEach(ps, reserved, ids, r) ==
  IF ps = <<>> THEN [ids |-> ids, r |-> r]
  ELSE LET d == DefineParam(r, Head(ps), reserved)
       IN  DefineEach(Tail(ps), reserved, Append(ids, d.id), d.r)
DefineParams(ps, r) == DefineEach(ps, {"base", "self"}, <<>>, r)

Callable == {"Function", "BuiltinFunction", "Parameter", "Variable", "SelfValue", "Macro"}

RECURSIVE ResolveExpr(_, _), ResolveExprs(_, _), ResolveKids(_, _), ResolveBinder(_, _, _, _),
          ResolveBindings(_, _), ResolveLet(_, _), ResolveCall(_, _),
          ResolveMethodCall(_, _), ResolveLambda(_, _), ResolveBlock(_, _)

ResolveExprs(es, r) ==
  IF es = <<>> THEN [es |-> <<>>, r |-> r]
  ELSE LET head == ResolveExpr(Head(es), r)
       IN  Prepend(head, ResolveExprs(Tail(es), head.r))

ResolveKids(e, r) ==
  LET all == ResolveExprs(e.kids, r) IN Resolved([e EXCEPT !.kids = all.es], all.r)

\* A name visible in one subexpression: for, vector and array generators.
ResolveBinder(e, outer, inner, r) ==
  LET o == ResolveExpr(e.kids[outer], r)
      b == ResolveExpr(e.kids[inner], Define(PushScope(o.r), e.name, "Variable").r)
  IN  Resolved([e EXCEPT !.kids[outer] = o.e, !.kids[inner] = b.e], PopScope(b.r))

\* Wrong: the value of a binding in its own scope.
RecursiveBindings(bs, r) ==
  IF bs = <<>> THEN [es |-> <<>>, r |-> r]
  ELSE LET b    == Head(bs)
           d    == Define(PushScope(ResolveAnn(r, b.ann)), b.name, "Variable")
           val  == ResolveExpr(b.kids[1], d.r)
           rest == ResolveBindings(Tail(bs), CheckLiteral(b.kids[1], b.ann, val.r))
       IN  [es |-> <<[WithSym(b, d.r, d.id) EXCEPT !.kids = <<val.e>>]>> \o rest.es,
            r  |-> rest.r]

\* Each binding in a scope of its own, which its value does not see.
ResolveBindings(bs, r) ==
  IF bs = <<>> THEN [es |-> <<>>, r |-> r]
  ELSE LET b    == Head(bs)
           val  == ResolveExpr(b.kids[1], ResolveAnn(r, b.ann))
           d    == Define(PushScope(CheckLiteral(b.kids[1], b.ann, val.r)),
                          b.name, "Variable")
           rest == ResolveBindings(Tail(bs), d.r)
       IN  [es |-> <<[WithSym(b, d.r, d.id) EXCEPT !.kids = <<val.e>>]>> \o rest.es,
            r  |-> rest.r]

RECURSIVE PopEach(_, _)
PopEach(bs, r) == IF bs = <<>> THEN r ELSE PopEach(Tail(bs), PopScope(r))

ResolveLet(e, r) ==
  LET bs   == ResolveBindings(BindingsOf(e), r)
      body == ResolveExpr(BodyOf(e), bs.r)
  IN  Resolved([e EXCEPT !.kids = Append(bs.es, body.e)], PopEach(bs.es, body.r))

\* The arguments of the pattern matching intrinsics are not looked at.
ResolveCall(e, r) ==
  LET f   == CalleeOf(e)
      id  == IF f.k = "ident" THEN Lookup(r, f.name) ELSE None
      fun == IF f.k # "ident" THEN ResolveExpr(f, r)
             ELSE IF id = None THEN Resolved(f, Report(r, "no such function"))
             ELSE IF KindOf(r, id) \in Callable THEN Resolved(WithSym(f, r, id), r)
             ELSE Resolved(f, Report(r, "not a function"))
      as  == ResolveExprs(ArgsOf(e), fun.r)
  IN  IF f.k = "ident" /\ IsIntrinsic(f.name)
      THEN Resolved([e EXCEPT !.kids[1] = WithSym(f, r, id)], r)
      ELSE Resolved([e EXCEPT !.kids = <<fun.e>> \o as.es],
                    IF KindOf(r, id) \in Callable
                    THEN CheckArguments(as.r, id, ArgsOf(e)) ELSE as.r)

ResolveMethodCall(e, r) ==
  LET recv == ResolveExpr(e.kids[1], r)
      as   == ResolveExprs(Tail(e.kids), CheckMethod(e, recv.r))
  IN  Resolved([e EXCEPT !.kids = <<recv.e>> \o as.es], as.r)

ResolveLambda(e, r) ==
  LET body == ResolveExpr(e.kids[1], DefineParams(e.params, PushScope(r)).r)
  IN  Resolved([e EXCEPT !.kids = <<body.e>>], PopScope(body.r))

ResolveBlock(e, r) ==
  LET all == ResolveKids(e, PushScope(r)) IN Resolved(all.e, PopScope(all.r))

ResolveExpr(e, r) ==
  CASE e.k = "ident"   -> ResolveIdent(e, r)
    [] e.k = "self"    -> ResolveSelf(e, r)
    [] e.k = "base"    -> ResolveBase(e, r)
    [] e.k = "tident"  -> ResolveTarget(e, r)
    [] e.k = "call"    -> ResolveCall(e, r)
    [] e.k = "method"  -> ResolveMethodCall(e, r)
    [] e.k = "field"   -> LET all == ResolveKids(e, r)
                          IN  Resolved(all.e, CheckField(e, all.r))
    [] e.k = "block"   -> ResolveBlock(e, r)
    [] e.k = "let"     -> ResolveLet(e, r)
    [] e.k = "lambda"  -> ResolveLambda(e, r)
    [] e.k = "for"     -> ResolveBinder(e, 1, 2, r)
    [] e.k = "vecgen"  -> ResolveBinder(e, 2, 1, r)
    [] e.k = "arraygen" -> ResolveBinder(e, 1, 2, ResolveTypeName(r, e.type))
    [] e.k \in {"new", "arraynew"} -> ResolveKids(e, ResolveTypeName(r, e.type))
    [] e.k \in {"is", "as"} -> LET all == ResolveKids(e, r)
                               IN  Resolved(all.e, ResolveTypeName(all.r, e.type))
    [] OTHER -> ResolveKids(e, r)

-----------------------------------------------------------------------------
(* Declarations.                                                           *)

Anns(ps) == [i \in DOMAIN ps |-> ps[i].ann]
DeclareFunction(r, f) ==
  LET d == Define(r, f.name, "Function")
  IN  [d.r EXCEPT !.paramAnns = (d.id :> Anns(f.params)) @@ @]

\* The attributes of every type are known before any body is resolved, its
\* methods and its parent are not.
DeclareType(r, t) ==
  LET d   == Define(r, t.name, "Type")
      own == {t.members[i].name : i \in {j \in DOMAIN t.members : t.members[j].k = "attr"}}
  IN  [d.r EXCEPT !.parents = (d.id :> None) @@ @,
                  !.attributes = (d.id :> own) @@ @]

\* register_protocol_details: an extended name that is no protocol is ignored.
DeclareProtocol(r, p) ==
  LET id == Lookup(r, p.name)
      up == [i \in DOMAIN p.extends |-> Lookup(r, p.extends[i])]
  IN  [r EXCEPT
        !.protocolMethods = (id :> p.methods) @@ @,
        !.protocolExtends = (id :> SelectSeq(up, LAMBDA q : KindOf(r, q) = "Protocol")) @@ @]

RECURSIVE DeclareEach(_, _, _)
DeclareEach(what, ds, r) ==
  IF ds = <<>> THEN r
  ELSE DeclareEach(what, Tail(ds),
         CASE what = "function" -> DeclareFunction(r, Head(ds))
           [] what = "type"     -> DeclareType(r, Head(ds))
           [] what = "protocol" -> Define(r, Head(ds).name, "Protocol").r
           [] what = "macro"    -> Define(r, Head(ds).name, "Macro").r
           [] what = "details"  -> DeclareProtocol(r, Head(ds)))

DeclareAll(P, r) ==
  DeclareEach("macro", P.macros, DeclareEach("protocol", P.protocols,
    DeclareEach("type", P.types, DeclareEach("function", P.functions, r))))
DeclareProtocols(P, r) == DeclareEach("details", P.protocols, r)

\* report_ambiguous_function_inference: the body is one of the untyped
\* parameters and nothing else.
Ambiguous(f) ==
  /\ f.body.k = "ident"
  /\ \E i \in DOMAIN f.params : f.params[i].name = f.body.name /\ f.params[i].ann = NoAnn

\* What calls are checked against: the parameters ps of the symbol id.
KnowParams(id, params, ps) ==
  [ps.r EXCEPT !.paramAnns = (id :> Anns(params)) @@ @,
               !.paramSyms = (id :> ps.ids) @@ @]

\* A parameter of the function's own name is found in its place.
InFunction(f, ps) == [ps.r EXCEPT !.paramSyms = (Lookup(ps.r, f.name) :> ps.ids) @@ @]

LeaveFunction(f, body) ==
  Resolved([f EXCEPT !.body = body.e],
           PopScope(ReportIf(Ambiguous(f), CheckLiteral(f.body, f.ret, body.r), "not inferable")))

ResolveFunction(f, r) ==
  LeaveFunction(f, ResolveExpr(f.body,
    InFunction(f, DefineParams(f.params, ResolveAnn(PushScope(r), f.ret)))))

\* A method's symbol lives in its type's scope; its own scope has self and the
\* parameters.
DeclareMethod(m, r) ==
  LET d     == Define(ResolveAnn(r, m.ret), m.name, "Function")
      known == IF r.type \in DOMAIN r.methods THEN r.methods[r.type] ELSE NoMap
  IN  [id |-> d.id,
       r  |-> [d.r EXCEPT !.methods = (r.type :> ((m.name :> d.id) @@ known)) @@ @]]

DefineSelf(m, r) ==
  LET self == Define(PushScope(r), "self", "SelfValue")
  IN  [self.r EXCEPT !.method = self.id, !.methodName = m.name]

InMethod(m, d) ==
  KnowParams(d.id, m.params, DefineParams(m.params, DefineSelf(m, d.r)))

LeaveMethod(m, body, r) ==
  Resolved([m EXCEPT !.body = body.e],
           PopScope([body.r EXCEPT !.method = r.method, !.methodName = r.methodName]))

ResolveMethod(m, r) == LeaveMethod(m, ResolveExpr(m.body, InMethod(m, DeclareMethod(m, r))), r)

ResolveMember(m, r) ==
  IF m.k = "method" THEN ResolveMethod(m, r)
  ELSE LET val == ResolveExpr(m.body, ResolveAnn(r, m.ann))
       IN  Resolved([m EXCEPT !.body = val.e], val.r)

RECURSIVE ResolveMembers(_, _)
ResolveMembers(ms, r) ==
  IF ms = <<>> THEN [es |-> <<>>, r |-> r]
  ELSE LET head == ResolveMember(Head(ms), r)
       IN  Prepend(head, ResolveMembers(Tail(ms), head.r))

\* resolve_parent_spec
ResolveParent(t, r) ==
  IF t.parent = NoParent THEN [id |-> None, args |-> <<>>, r |-> r]
  ELSE LET as == ResolveExprs(t.parent.args, ResolveTypeName(r, t.parent.name))
       IN  [id |-> Lookup(as.r, t.parent.name), args |-> as.es,
            r  |-> ReportIf(t.parent.name \in {"Number", "String", "Boolean"},
                            as.r, "not inheritable")]

\* The parameters of the type and its members are two scopes.
InType(t, id, r) ==
  KnowParams(id, t.params,
             DefineEach(t.params, {}, <<>>, PushScope([r EXCEPT !.type = id])))

TypeBody(t, up, r) ==
  LET ms == ResolveMembers(t.members,
              [up.r EXCEPT !.parents = (Lookup(r, t.name) :> up.id) @@ @])
  IN  Resolved([t EXCEPT !.parent.args = up.args, !.members = ms.es],
               [PopScope(PopScope(ms.r)) EXCEPT !.type = r.type])

ResolveType(t, r) ==
  TypeBody(t, ResolveParent(t, PushScope(InType(t, Lookup(r, t.name), r))), r)

LeaveMacro(m, body) == Resolved([m EXCEPT !.body = body.e], PopScope(body.r))
ResolveMacro(m, r) ==
  LeaveMacro(m, ResolveExpr(m.body, DefineEach(m.params, {}, <<>>, PushScope(r)).r))

\* detect_inheritance_cycles: one report per walk that comes back, but none
\* from a type already found on a cycle.  The code walks a hash map; its order
\* decides how many reports there are, never whether there is one.
Cycle(r, path) ==
  {path[i] : i \in {i \in DOMAIN path :
     \E j \in 1..i : path[j] = ParentOf(r, path[Len(path)])}}
RECURSIVE CyclesFrom(_, _, _)
CyclesFrom(types, found, r) ==
  IF types = {} THEN r
  ELSE LET t == Min(types)
       IN  IF t \notin found /\ Climb(r, t, <<>>).cyclic
           THEN CyclesFrom(types \ {t}, found \cup Cycle(r, Climb(r, t, <<>>).path),
                           Report(r, "cycle"))
           ELSE CyclesFrom(types \ {t}, found, r)
DetectCycles(r) == CyclesFrom(DOMAIN r.parents, {}, r)

\* resolve_program at one go, for the passes that follow.
RECURSIVE ResolveEach(_, _, _)
ResolveEach(what, ds, r) ==
  IF ds = <<>> THEN [es |-> <<>>, r |-> r]
  ELSE LET head == CASE what = "type" -> ResolveType(Head(ds), r)
                     [] what = "function" -> ResolveFunction(Head(ds), r)
                     [] what = "macro" -> ResolveMacro(Head(ds), r)
       IN  Prepend(head, ResolveEach(what, Tail(ds), head.r))

ResolveTypes(P, r) ==
  LET all == ResolveEach("type", P.types, r)
  IN  [program |-> [P EXCEPT !.types = all.es], r |-> all.r]
ResolveFunctions(x) ==
  LET all == ResolveEach("function", x.program.functions, x.r)
  IN  [program |-> [x.program EXCEPT !.functions = all.es], r |-> all.r]
ResolveMacros(x) ==
  LET all == ResolveEach("macro", x.program.macros, x.r)
  IN  [program |-> [x.program EXCEPT !.macros = all.es], r |-> all.r]
ResolveMainExpr(x) ==
  LET main == ResolveExpr(x.program.main, x.r)
  IN  [program |-> [x.program EXCEPT !.main = main.e], r |-> DetectCycles(main.r)]

ResolveProgram(P) ==
  ResolveMainExpr(ResolveMacros(ResolveFunctions(ResolveTypes(P,
    DeclareProtocols(P, DeclareAll(P, NewResolver))))))
=============================================================================
