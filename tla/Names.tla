------------------------------- MODULE Names -------------------------------
(***************************************************************************)
(* The resolver at work: resolve_program, one declaration at a time, over  *)
(* the operations of Scoping (src/crates/hulk-semantic/src/resolver).  What *)
(* it finds is compared with lexical scoping and inheritance defined       *)
(* without a stack, a table or an order: a use means the innermost binding *)
(* around it, and a hierarchy is a graph.                                  *)
(***************************************************************************)
EXTENDS Scoping, Reachability

CONSTANT Programs    \* syntax trees of whole programs

VARIABLES source,    \* the program as parsed
          program,   \* the program with the symbols found so far
          r,         \* the resolver
          pc,        \* the part of resolve_program under way
          next       \* the declaration it has reached

vars == <<source, program, r, pc, next>>

ASSUME NamesAssumption == \A P \in Programs : P.types # <<>> => P.types[1].k = "type"

Init ==
  /\ source \in Programs
  /\ program = source
  /\ r = NewResolver
  /\ pc = "globals" /\ next = 1

\* A part is under way unless the one before it never ended.
At(part)   == pc = part /\ ~ r.stuck
GoOn(part) == pc' = part /\ next' = 1

RegisterGlobals ==
  /\ At("globals")
  /\ r' = DeclareAll(source, r)
  /\ GoOn("protocols")
  /\ UNCHANGED <<source, program>>

RegisterProtocols ==
  /\ At("protocols")
  /\ r' = DeclareProtocols(source, r)
  /\ GoOn("types")
  /\ UNCHANGED <<source, program>>

ResolveNextType ==
  /\ At("types") /\ next <= Len(source.types)
  /\ LET t == ResolveType(source.types[next], r)
     IN  r' = t.r /\ program' = [program EXCEPT !.types[next] = t.e]
  /\ next' = next + 1
  /\ UNCHANGED <<source, pc>>

ResolveNextFunction ==
  /\ At("functions") /\ next <= Len(source.functions)
  /\ LET f == ResolveFunction(source.functions[next], r)
     IN  r' = f.r /\ program' = [program EXCEPT !.functions[next] = f.e]
  /\ next' = next + 1
  /\ UNCHANGED <<source, pc>>

ResolveNextMacro ==
  /\ At("macros") /\ next <= Len(source.macros)
  /\ LET m == ResolveMacro(source.macros[next], r)
     IN  r' = m.r /\ program' = [program EXCEPT !.macros[next] = m.e]
  /\ next' = next + 1
  /\ UNCHANGED <<source, pc>>

EndOfPart ==
  /\ \/ At("types") /\ next > Len(source.types) /\ GoOn("functions")
     \/ At("functions") /\ next > Len(source.functions) /\ GoOn("macros")
     \/ At("macros") /\ next > Len(source.macros) /\ GoOn("main")
  /\ UNCHANGED <<source, program, r>>

ResolveMain ==
  /\ At("main")
  /\ LET e == ResolveExpr(source.main, r)
     IN  r' = e.r /\ program' = [program EXCEPT !.main = e.e]
  /\ GoOn("cycles")
  /\ UNCHANGED source

FindCycles ==
  /\ At("cycles")
  /\ r' = DetectCycles(r)
  /\ GoOn("done")
  /\ UNCHANGED <<source, program>>

Done == At("done") /\ UNCHANGED vars

\* A search that goes round a cycle of parents.
GoRound == r.stuck /\ UNCHANGED vars

Next ==
  \/ RegisterGlobals \/ RegisterProtocols \/ ResolveNextType
  \/ ResolveNextFunction \/ ResolveNextMacro \/ EndOfPart
  \/ ResolveMain \/ FindCycles \/ Done \/ GoRound

Spec == Init /\ [][Next]_vars

-----------------------------------------------------------------------------
(* Lexical scoping, from the tree alone.  A binding is the place of the    *)
(* node that makes it and a name, a use is a place and the binding it      *)
(* means.                                                                  *)

Free == <<<<"free">>, "">>
Means(env, x) == IF x \in DOMAIN env THEN env[x] ELSE Free
UseAt(what, at, env, x) == {[at |-> at, means |-> Means(env, x), as |-> what]}

RECURSIVE Uses(_, _, _), UsesInLet(_, _, _, _)

\* The n-th binding of a let and all that follows.
UsesInLet(e, n, env, at) ==
  IF n = Len(e.kids) THEN Uses(e.kids[n], env, Append(at, n))
  ELSE LET here == Append(at, n)
       IN  Uses(e.kids[n].kids[1], env, Append(here, 1))
           \cup UseAt("binding", here, e.kids[n].name :> <<here, e.kids[n].name>>, e.kids[n].name)
           \cup UsesInLet(e, n + 1, (e.kids[n].name :> <<here, e.kids[n].name>>) @@ env, at)

UsesInKids(e, env, at) ==
  UNION {Uses(e.kids[i], env, Append(at, i)) : i \in DOMAIN e.kids}

Uses(e, env, at) ==
  CASE e.k \in {"ident", "tident"} -> UseAt("name", at, env, e.name)
    [] e.k = "self" -> UseAt("self", at, env, "self")
    [] e.k = "let" -> UsesInLet(e, 1, env, at)
    [] e.k \in {"for", "arraygen"} ->
         Uses(e.kids[1], env, Append(at, 1))
         \cup Uses(e.kids[2], (e.name :> <<at, e.name>>) @@ env, Append(at, 2))
    [] e.k = "vecgen" ->
         Uses(e.kids[2], env, Append(at, 2))
         \cup Uses(e.kids[1], (e.name :> <<at, e.name>>) @@ env, Append(at, 1))
    [] e.k = "lambda" ->
         Uses(e.kids[1], [x \in {e.params[i].name : i \in DOMAIN e.params} |->
                            <<at, x>>] @@ env, Append(at, 1))
    [] e.k = "call" /\ e.kids[1].k = "ident" /\ ~ IsIntrinsic(e.kids[1].name) ->
         UseAt("call", Append(at, 1), env, e.kids[1].name)
         \cup UNION {Uses(e.kids[i], env, Append(at, i)) : i \in 2..Len(e.kids)}
    [] e.k = "call" /\ e.kids[1].k = "ident" -> {}
    [] OTHER -> UsesInKids(e, env, at)

Globals ==
  [x \in {BuiltinTable[i].name : i \in DOMAIN BuiltinTable} |-> <<<<"global">>, x>>]
  @@ [x \in {source.functions[i].name : i \in DOMAIN source.functions}
            \cup {source.types[i].name : i \in DOMAIN source.types}
            \cup {source.macros[i].name : i \in DOMAIN source.macros} |-> <<<<"global">>, x>>]
ParamsAt(ps, at) == [x \in {ps[i].name : i \in DOMAIN ps} |-> <<Append(at, 0), x>>]

\* The uses of the whole program: the main expression, the bodies of functions,
\* macros and members, and what a type gives its parent's constructor.
UsesOfBody(d, at) == Uses(d.body, ParamsAt(d.params, at) @@ Globals, at)
UsesOfMember(m, env, at) ==
  Uses(m.body, IF m.k = "attr" THEN env
               ELSE ParamsAt(m.params, at) @@ ("self" :> <<at, "self">>) @@ env, at)
UsesOfType(t, i) ==
  LET env == ParamsAt(t.params, <<"type", i>>) @@ Globals
  IN  (UNION {Uses(t.parent.args[j], env, <<"parent", i, j>>) : j \in DOMAIN t.parent.args})
      \cup (UNION {UsesOfMember(t.members[j], env, <<"type", i, j>>) : j \in DOMAIN t.members})
AllUses ==
  Uses(source.main, Globals, <<"main">>)
  \cup (UNION {UsesOfBody(source.functions[i], <<"function", i>>) : i \in DOMAIN source.functions})
  \cup (UNION {UsesOfBody(source.macros[i], <<"macro", i>>) : i \in DOMAIN source.macros})
  \cup UNION {UsesOfType(source.types[i], i) : i \in DOMAIN source.types}

\* The symbol the resolver left at a place.
RECURSIVE NodeAt(_, _)
NodeAt(e, at) == IF at = <<>> THEN e ELSE NodeAt(e.kids[Head(at)], Tail(at))
SymbolAt(at) ==
  LET from(n) == SubSeq(at, n, Len(at))
  IN  CASE at[1] = "main"     -> NodeAt(program.main, from(2)).sym
        [] at[1] = "function" -> NodeAt(program.functions[at[2]].body, from(3)).sym
        [] at[1] = "macro"    -> NodeAt(program.macros[at[2]].body, from(3)).sym
        [] at[1] = "type"     -> NodeAt(program.types[at[2]].members[at[3]].body, from(4)).sym
        [] at[1] = "parent"   -> NodeAt(program.types[at[2]].parent.args[at[3]], from(4)).sym

-----------------------------------------------------------------------------
(* Hierarchies, as graphs of names.                                        *)

TypeNames == {source.types[i].name : i \in DOMAIN source.types}
Upwards ==
  [t \in TypeNames |-> {Declared(source.types, t).parent.name} \cap TypeNames]
HasCycle == \E t \in TypeNames : t \in ReachableFrom(Upwards[t], Upwards)

ProtocolGraph ==
  [p \in {source.protocols[i].name : i \in DOMAIN source.protocols} |->
     Range(Declared(source.protocols, p).extends)]
MethodsByName(t) ==
  UNION {{Declared(source.types, u).members[j].name :
            j \in {j \in DOMAIN Declared(source.types, u).members :
                     Declared(source.types, u).members[j].k = "method"}} :
           u \in ReachableFrom({t}, Upwards)}
AttributesByName(t) ==
  UNION {{Declared(source.types, u).members[j].name :
            j \in {j \in DOMAIN Declared(source.types, u).members :
                     Declared(source.types, u).members[j].k = "attr"}} :
           u \in ReachableFrom({t}, Upwards)}
RequiredByName(p) ==
  UNION {Declared(source.protocols, q).methods : q \in ReachableFrom({p}, ProtocolGraph)}

-----------------------------------------------------------------------------
(* Properties.                                                             *)

Reported(what) == \E i \in DOMAIN r.bag : r.bag[i] = what
Finished == pc = "done"
ErrorFor(what) == CASE what = "name" -> "undeclared"
                    [] what = "call" -> "no such function"
                    [] what = "self" -> "self outside a method"

\* The resolver's tables speak of symbols that exist, and a scope never gives
\* two names one symbol.
TypeOK ==
  /\ next \in Nat \ {0}
  /\ \A i \in DOMAIN r.scopes : \A x \in DOMAIN r.scopes[i] :
       r.scopes[i][x] \in DOMAIN r.table /\ r.table[r.scopes[i][x]].name = x
  /\ \A t \in DOMAIN r.parents : r.parents[t] \in {None} \cup DOMAIN r.table

\* Between two declarations the resolver is at the top level again: the global
\* scope alone, no type and no method, or one declaration would see the names
\* of another (decls.rs: every push_scope has its pop_scope, every current_type
\* and current_method is put back).
BackAtTopLevel ==
  Len(r.scopes) = 1 /\ r.type = None /\ r.method = None /\ r.methodName = ""

\* Resolution is lexical scoping: two uses get one symbol exactly if they mean
\* one binding, however names repeat, and a use without a binding is reported,
\* as is nothing else (exprs.rs, mod.rs define and lookup).
BindsLexically ==
  Finished =>
    LET uses  == AllUses
        bound == {<<u.means, SymbolAt(u.at).id>> : u \in {w \in uses : w.means # Free}}
    IN  /\ \A u, v \in bound : u[1] = v[1] <=> u[2] = v[2]
        /\ \A what \in {"name", "call", "self"} :
             Reported(ErrorFor(what)) <=> \E u \in uses : u.as = what /\ u.means = Free

\* A cycle of parents is reported exactly if there is one, whatever the order
\* of the declarations, and an argument exactly if its type lacks a method of
\* the protocol or of one it extends.  A program without a report asks an
\* object only for what its type or one above it declares (inheritance.rs,
\* protocols.rs, validation.rs).
HierarchyIsChecked ==
  Finished =>
    /\ Reported("cycle") <=> HasCycle
    /\ r.bag = <<>> =>
         \A i \in DOMAIN source.types : \A j \in DOMAIN source.types[i].members :
            LET t == source.types[i].name
                e == source.types[i].members[j].body
            IN  /\ e.k = "method" /\ e.kids[1].k \in {"self", "new"} =>
                     e.m \in MethodsByName(IF e.kids[1].k = "self" THEN t ELSE e.kids[1].type)
                /\ e.k = "field" => e.field \in AttributesByName(t)
                /\ e.k = "call" /\ e.kids[1].k = "base" =>
                     source.types[i].members[j].name
                       \in MethodsByName(source.types[i].parent.name)
    /\ source.main.k = "call" /\ source.protocols # <<>> =>
         (Reported("does not conform") <=>
            ~ (RequiredByName(Declared(source.functions, source.main.kids[1].name)
                                .params[1].ann.names[1])
                 \subseteq MethodsByName(source.main.kids[2].type)))

\* In a hierarchy without a cycle the resolver comes back: every search for a
\* method or an attribute, of whatever type, comes to a type without a parent
\* (inheritance.rs type_has_method, validation.rs ancestor_owns_attribute).  On
\* a cycle neither looks whether it has been there before: a search for what no
\* type of the cycle has goes round it for ever, and the cycle is never reported.
ClimbsEnd == r.stuck => HasCycle
=============================================================================
