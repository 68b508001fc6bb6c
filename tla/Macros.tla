------------------------------- MODULE Macros -------------------------------
(***************************************************************************)
(* Macro expansion: src/crates/hulk-macros, between inference and          *)
(* desugaring.                                                             *)
(*                                                                         *)
(* The state is a record x: the resolver's state r (placeholders are new   *)
(* symbols) and the inferer's i (they have a type), the macros by name,    *)
(* the number n of expansions so far, the diagnostics, and stuck.          *)
(*                                                                         *)
(* A node that gets a new id loses its type, keyed by the old one, and     *)
(* keeps its symbol, which is copied.                                      *)
(***************************************************************************)
EXTENDS Syntax

LOCAL INSTANCE SequencesExt
LOCAL INSTANCE FiniteSetsExt

NoSubstitution == [x \in {} |-> 0]

\* A macro that calls itself is expanded for ever (expand_macro_call expands
\* what it has substituted, and nothing counts): past this bound it is stuck.
MaxExpansions == 12

ReportIf(c, x, what) == IF c THEN [x EXCEPT !.bag = Append(@, what)] ELSE x
Expanded(e, x) == [e |-> e, x |-> x]

-----------------------------------------------------------------------------
(* Renaming, substitution and new ids.                                     *)

\* fresh_name: the prefix tells one expansion from every other.
Prefix(m, n) == "__hulk_macro_" \o m \o "_" \o ToString(n) \o "_"

RECURSIVE Sanitize(_, _, _), SanitizeBindings(_, _, _)

\* A binding's value is renamed before the binding is known.
SanitizeBindings(bs, prefix, names) ==
  IF bs = <<>> THEN [bs |-> <<>>, names |-> names]
  ELSE LET b    == Head(bs)
           rest == SanitizeBindings(Tail(bs), prefix, (b.name :> prefix \o b.name) @@ names)
       IN  [bs |-> <<[b EXCEPT !.kids = <<Sanitize(@[1], prefix, names)>>,
                               !.name = prefix \o @]>> \o rest.bs,
            names |-> rest.names]

\* sanitize_locals: what the body of the macro binds is renamed; names holds
\* the new names of the bindings around e.  The index variable of an array
\* generator keeps its name.
Sanitize(e, prefix, names) ==
  LET inner == (e.name :> prefix \o e.name) @@ names
      bs    == SanitizeBindings(BindingsOf(e), prefix, names)
      ps    == {e.params[i].name : i \in DOMAIN e.params}
      Outer(kid) == Sanitize(kid, prefix, names)
      Inner(kid) == Sanitize(kid, prefix, inner)
  IN  CASE e.k \in {"ident", "tident"} ->
             IF e.name \in DOMAIN names THEN [e EXCEPT !.name = names[@]] ELSE e
        [] e.k = "for" ->
             [e EXCEPT !.name = prefix \o @, !.kids = <<Outer(@[1]), Inner(@[2])>>]
        [] e.k = "vecgen" ->
             [e EXCEPT !.name = prefix \o @, !.kids = <<Inner(@[1]), Outer(@[2])>>]
        [] e.k = "let" ->
             [e EXCEPT !.kids = Append(bs.bs, Sanitize(BodyOf(e), prefix, bs.names))]
        [] e.k = "lambda" ->
             [e EXCEPT !.params = [i \in DOMAIN @ |-> [@[i] EXCEPT !.name = prefix \o @]],
                       !.kids = <<Sanitize(@[1], prefix, [p \in ps |-> prefix \o p] @@ names)>>]
        [] OTHER -> WithKids(e, Outer)

\* What stands for a parameter: an expression, or another name.
ByExpr(e)    == [k |-> "expr", e |-> e]
ByName(name) == [k |-> "name", name |-> name]

\* substitute_params: names of bindings are not parameters' names.
RECURSIVE Substitute(_, _)
Substitute(e, subs) ==
  LET sub == subs[e.name]
      Inside(kid) == Substitute(kid, subs)
  IN  IF e.k \notin {"ident", "tident"} THEN WithKids(e, Inside)
      ELSE IF e.name \notin DOMAIN subs THEN e
      ELSE IF sub.k = "name" THEN [e EXCEPT !.name = sub.name]
      ELSE IF e.k = "ident" THEN sub.e
      ELSE e

\* Reported instead of substituted.
AssignsToParameter(e, subs) ==
  \E t \in Subexpressions(e) :
     t.k = "tident" /\ t.name \in DOMAIN subs /\ subs[t.name].k = "expr"

\* refresh_node_ids_with_resolver
RECURSIVE Refresh(_)
Refresh(e) == WithKids([e EXCEPT !.ty = ObjectTy], Refresh)

\* bind_placeholder_idents: the uses, not the targets of assignments.
RECURSIVE BindPlaceholders(_, _)
BindPlaceholders(e, symbols) ==
  LET Inside(kid) == BindPlaceholders(kid, symbols)
  IN  IF e.k = "ident" /\ e.name \in DOMAIN symbols
      THEN [e EXCEPT !.sym = symbols[e.name]]
      ELSE WithKids(e, Inside)

-----------------------------------------------------------------------------
(* Pattern matching, on the text of its subject.                           *)

CaseName(c) == IF CallsName(c) THEN CalleeOf(c).name ELSE ""

Operators == {"+", "-", "*", "/", "==", "!=", "<", "<=", ">", ">="}

\* parse_match_case
KindsOfArgs(c) == [i \in DOMAIN ArgsOf(c) |-> ArgsOf(c)[i].k]
ValidCase(c) ==
  LET as    == ArgsOf(c)
      kinds == KindsOfArgs(c)
  IN  CASE CaseName(c) = "__hulk_case_lit" -> Len(as) = 2
        [] CaseName(c) = "__hulk_case_var" ->
             Len(as) = 3 /\ SubSeq(kinds, 1, 2) = <<"ident", "text">>
        [] CaseName(c) = "__hulk_case_binop" ->
             /\ Len(as) = 6
             /\ SubSeq(kinds, 1, 5) = <<"text", "ident", "text", "ident", "text">>
             /\ as[1].text \in Operators
        [] CaseName(c) = "__hulk_case_binop_right_lit" ->
             /\ Len(as) = 5
             /\ SubSeq(kinds, 1, 3) = <<"text", "ident", "text">>
             /\ as[1].text \in Operators
        [] CaseName(c) = "__hulk_default" -> Len(as) = 1
        [] OTHER -> FALSE

SameLiteral(a, b) == a.k = b.k /\ a.k \in {"num", "str", "bool"} /\ a.v = b.v

RECURSIVE IsNumberExpr(_)
IsNumberExpr(e) ==
  \/ e.k = "num"
  \/ e.k = "un" /\ e.op = "neg" /\ IsNumberExpr(e.kids[1])
  \/ e.k = "bin" /\ IsNumberExpr(e.kids[1]) /\ IsNumberExpr(e.kids[2])

\* expr_conforms_type_name
ConformsTo(e, type) ==
  \/ type = "Object"
  \/ type = "Number" /\ IsNumberExpr(e)
  \/ type = "String" /\ e.k = "str"
  \/ type = "Boolean" /\ e.k = "bool"

\* match_pattern
Matches(c, s) ==
  LET as == ArgsOf(c)
  IN  CASE CaseName(c) = "__hulk_case_lit" -> SameLiteral(as[1], s)
        [] CaseName(c) = "__hulk_case_var" -> ConformsTo(s, as[2].text)
        [] CaseName(c) = "__hulk_case_binop" ->
             /\ s.k = "bin" /\ s.op = as[1].text
             /\ ConformsTo(s.kids[1], as[3].text) /\ ConformsTo(s.kids[2], as[5].text)
        [] CaseName(c) = "__hulk_case_binop_right_lit" ->
             /\ s.k = "bin" /\ s.op = as[1].text
             /\ ConformsTo(s.kids[1], as[3].text) /\ SameLiteral(as[4], s.kids[2])
        [] OTHER -> FALSE

\* What a case that matches binds; of two equal names the right one counts.
Captures(c, s) ==
  LET as == ArgsOf(c)
  IN  CASE CaseName(c) = "__hulk_case_var" -> as[1].name :> ByExpr(s)
        [] CaseName(c) = "__hulk_case_binop" ->
             (as[4].name :> ByExpr(s.kids[2])) @@ (as[2].name :> ByExpr(s.kids[1]))
        [] CaseName(c) = "__hulk_case_binop_right_lit" -> as[2].name :> ByExpr(s.kids[1])
        [] OTHER -> NoSubstitution

IsNum(e, n) == e.k = "num" /\ e.v = n

\* Simplify: the replacement keeps the id of the whole, and with it the whole's
\* symbol (it has none) and type, whatever those of the part were.
RECURSIVE SimplifyNode(_), Simplify(_)
SimplifyNode(e) ==
  LET l == e.kids[1]
      r == e.kids[2]
      As(part) == SimplifyNode([part EXCEPT !.sym = e.sym, !.ty = e.ty])
  IN  IF e.k # "bin" THEN e
      ELSE IF \/ e.op = "+" /\ IsNum(l, 0)
              \/ e.op = "*" /\ IsNum(l, 1) THEN As(r)
      ELSE IF \/ e.op \in {"+", "-"} /\ IsNum(r, 0)
              \/ e.op = "*" /\ IsNum(r, 1) THEN As(l)
      ELSE IF e.op = "*" /\ (IsNum(l, 0) \/ IsNum(r, 0)) THEN As(NumLit(0))
      ELSE e
Simplify(e) == SimplifyNode(WithKids(e, Simplify))

-----------------------------------------------------------------------------
(* Expansion.                                                              *)

\* map_type_ann_to_type_id
TypeOfAnn(ann) ==
  CASE ann = Named("Number") -> NumberTy
    [] ann = Named("String") -> StringTy
    [] ann = Named("Boolean") -> BooleanTy
    [] OTHER -> ObjectTy

\* build_substitution, for one parameter after another until one is refused.
\* A placeholder is a new symbol of the name the caller gave.
BuildSubstitution(acc, param, arg) ==
  LET id  == Len(acc.x.r.table) + 1
      sym == [id |-> id, name |-> arg.name, kind |-> "Variable"]
      Refused(what) == [acc EXCEPT !.ok = FALSE, !.x = ReportIf(TRUE, @, what)]
      With(sub)     == [acc EXCEPT !.subs = (param.name :> sub) @@ @]
      NeedsName     == param.kind \in {"symbolic", "placeholder"}
  IN  IF ~ acc.ok THEN acc
      ELSE IF param.kind = "body" /\ arg.k # "block" THEN Refused("not a block")
      ELSE IF NeedsName /\ arg.k # "ident" THEN Refused("not a name")
      ELSE IF ~ NeedsName THEN With(ByExpr(arg))
      ELSE IF param.kind = "symbolic" THEN With(ByName(arg.name))
      ELSE [With(ByName(arg.name)) EXCEPT
              !.fresh = (arg.name :> sym) @@ @,
              !.x.r.table = Append(@, [name |-> arg.name, kind |-> "Variable"]),
              !.x.i.symbols = (id :> TypeOfAnn(param.ann)) @@ @]

RECURSIVE Expand(_, _), ExpandAll(_, _), ExpandCall(_, _), ExpandMatch(_, _)

ExpandAll(es, x) ==
  IF es = <<>> THEN [es |-> <<>>, x |-> x]
  ELSE LET head == Expand(Head(es), x)
           tail == ExpandAll(Tail(es), head.x)
       IN  [es |-> <<head.e>> \o tail.es, x |-> tail.x]

\* expand_macro_call: rename what the body binds, substitute, expand what has
\* come in, and only then give the nodes ids of their own.
ExpandCall(e, x) ==
  LET m    == x.macros[CalleeOf(e).name]
      args == ArgsOf(e)
      sub  == FoldLeft(LAMBDA acc, j : BuildSubstitution(acc, m.params[j], args[j]),
                       [ok |-> TRUE, subs |-> NoSubstitution, fresh |-> NoSubstitution,
                        x |-> x], [j \in DOMAIN args |-> j])
      body == Sanitize(m.body, Prefix(m.name, x.n), NoSubstitution)
      all  == Expand(Substitute(body, sub.subs),
                     ReportIf(AssignsToParameter(body, sub.subs),
                              [sub.x EXCEPT !.n = @ + 1], "assigns to a parameter"))
  IN  IF Len(args) # Len(m.params) THEN Expanded(e, ReportIf(TRUE, x, "macro arity"))
      ELSE IF ~ sub.ok THEN Expanded(e, sub.x)
      ELSE IF x.n = MaxExpansions THEN Expanded(e, [x EXCEPT !.stuck = TRUE])
      ELSE Expanded(BindPlaceholders(Refresh(all.e), sub.fresh), all.x)

\* evaluate_pattern_match: the first case that matches, else the last default.
\* The subject and the other cases are not expanded.
ExpandMatch(e, x) ==
  LET s     == ArgsOf(e)[1]
      cases == Tail(ArgsOf(e))
      hits  == {j \in DOMAIN cases : ValidCase(cases[j]) /\ Matches(cases[j], s)}
      last  == IF hits = {} THEN Len(cases) ELSE Min(hits)
      deflt == {j \in DOMAIN cases : CaseName(cases[j]) = "__hulk_default"
                                     /\ ValidCase(cases[j])}
      x1    == ReportIf(\E j \in 1..last : ~ ValidCase(cases[j]), x, "case")
      subs  == Captures(cases[last], s)
      body  == IF hits # {} THEN BodyOf(cases[last]) ELSE BodyOf(cases[Max(deflt)])
      hit   == Expand(Substitute(body, subs),
                      ReportIf(AssignsToParameter(body, subs), x1, "assigns to a parameter"))
      other == Expand(body, x1)
  IN  IF ArgsOf(e) = <<>> THEN Expanded(e, ReportIf(TRUE, x, "match without subject"))
      ELSE IF hits # {} THEN Expanded(Refresh(hit.e), hit.x)
      ELSE IF deflt # {} THEN Expanded(Refresh(Simplify(other.e)), other.x)
      ELSE Expanded(e, ReportIf(TRUE, x1, "no case"))

\* expand_expr
Expand(e, x) ==
  LET kids == ExpandAll(e.kids, x)
      e1   == [e EXCEPT !.kids = kids.es]
  IN  IF CallsName(e) /\ CalleeOf(e).name = "__hulk_match" THEN ExpandMatch(e, x)
      ELSE IF CallsName(e1) /\ CalleeOf(e1).name \in DOMAIN x.macros
      THEN ExpandCall(e1, kids.x)
      ELSE Expanded(e1, kids.x)

-----------------------------------------------------------------------------
(* Programs.                                                               *)

\* The declarations ds with every body expanded.
ExpandBodies(ds, x) ==
  LET all == ExpandAll([j \in DOMAIN ds |-> ds[j].body], x)
  IN  [ds |-> [j \in DOMAIN ds |-> [ds[j] EXCEPT !.body = all.es[j]]], x |-> all.x]

ExpandTypes(ts, x) ==
  FoldLeft(LAMBDA acc, t : LET ms == ExpandBodies(t.members, acc.x)
                           IN  [ts |-> Append(acc.ts, [t EXCEPT !.members = ms.ds]),
                                x |-> ms.x],
           [ts |-> <<>>, x |-> x], ts)

\* expand_macros: functions, members (but no parent's arguments), the macros'
\* own bodies, the main expression.  What is expanded is the macro as declared.
ExpandProgram(P, r, i) ==
  LET names == {P.macros[j].name : j \in DOMAIN P.macros}
      fs    == ExpandBodies(P.functions,
                 [r |-> r, i |-> i, n |-> 0, bag |-> <<>>, stuck |-> FALSE,
                  macros |-> [m \in names |-> Declared(P.macros, m)]])
      ts    == ExpandTypes(P.types, fs.x)
      ms    == ExpandBodies(P.macros, ts.x)
      main  == Expand(P.main, ms.x)
  IN  [program |-> [P EXCEPT !.functions = fs.ds, !.types = ts.ts, !.macros = ms.ds,
                             !.main = main.e],
       x |-> main.x]
=============================================================================
