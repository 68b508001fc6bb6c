------------------------------ MODULE Compiler ------------------------------
(***************************************************************************)
(* From a syntax tree to the code a process executes: the passes of        *)
(* Scoping, Inference, Macros, Desugar and Lowering in the order in which  *)
(* the driver (src/crates/hulk-driver/src/compile.rs) runs them, and what  *)
(* the code generator needs of the result.                                 *)
(***************************************************************************)
EXTENDS Lowering

LOCAL INSTANCE SequencesExt

R == INSTANCE Scoping
I == INSTANCE Inference
X == INSTANCE Macros
D == INSTANCE Desugar

\* The names in P's code mean something to the code generator: resolve_call,
\* emit_static_call, emit_method_call, emit_new, load_val.
Links(P, bodies) ==
  LET types   == {P.types[i].name : i \in DOMAIN P.types}
      methods == UNION {{P.types[i].members[j].name :
                           j \in {n \in DOMAIN P.types[i].members : P.types[i].members[n].k = "method"}} :
                          i \in DOMAIN P.types}
      globals == Runtime \cup DOMAIN bodies \cup types
      Linked(i) ==
        /\ i.op = "call" => i.f \in Runtime \cup DOMAIN bodies
        /\ i.op = "static" => i.f \in DOMAIN bodies
        /\ i.op = "method" => i.f \in BuiltinMethods \cup methods
        /\ i.op = "new" => i.f \in types
        /\ \A n \in DOMAIN i.args : i.args[n].k = "global" => i.args[n].v \in globals
  IN  \A f \in DOMAIN bodies : \A i \in DOMAIN bodies[f].code : Linked(bodies[f].code[i])

\* field_kinds: the annotation says whether a field holds references, or else the
\* type of what it starts with.
HoldsReferences(a) ==
  IF a.ann = NoAnn THEN IsReference(a.body.ty)
  ELSE a.ann \notin {Named("Number"), Named("Boolean")}

\* What the code generator knows of the types: parents, own fields in order,
\* which of them hold references, and own methods.
Descriptors(P) ==
  [T \in {P.types[i].name : i \in DOMAIN P.types} |->
     LET t     == Declared(P.types, T)
         attrs == AttributesIn(t)
     IN  [parent   |-> t.parent.name,
          fields   |-> [i \in DOMAIN attrs |-> attrs[i].name],
          pointers |-> [i \in DOMAIN attrs |-> HoldsReferences(attrs[i])],
          methods  |-> {MethodsIn(t)[i].name : i \in DOMAIN MethodsIn(t)}]]

\* The verifier of the module: who is called by name gets as many arguments as it
\* has parameters.
Verifies(lowered) ==
  LET Parameters(f) == Cardinality(DOMAIN lowered[f].params) + (IF lowered[f].self THEN 1 ELSE 0)
      Passes(i) ==
        /\ i.op = "new" => Len(i.args) + 1 = Parameters(i.f \o ".__init__")
        /\ i.op = "static" \/ (i.op = "call" /\ i.f \in DOMAIN lowered) =>
             Len(i.args) = Parameters(i.f)
  IN  \A f \in DOMAIN lowered : \A n \in DOMAIN lowered[f].code : Passes(lowered[f].code[n])

Rejected == [ok |-> FALSE, bodies |-> NoMap, types |-> NoMap]

\* build_hir: the front end and the rewriting passes in order, each on what the
\* one before it made, as long as there is nothing to report.
BuildHir(P) ==
  LET named == R!ResolveProgram(P)
      typed == I!InferProgram(named.program, named.r)
      grown == X!ExpandProgram(typed.program, named.r, typed.i)
  IN  IF \/ named.r.bag # <<>> \/ named.r.stuck
         \/ typed.i.bag # <<>>
         \/ grown.x.bag # <<>> \/ grown.x.stuck
      THEN [ok |-> FALSE, program |-> P]
      ELSE [ok |-> TRUE,
            program |-> D!DesugarProgram(grown.program, grown.x.r, grown.x.i,
                                         D!FirstNode(typed.program)).program]

\* compile: the HIR is lowered, and the code generated from that.
Compile(P) ==
  LET hir     == BuildHir(P)
      lowered == LowerProgram(hir.program)
  IN  IF \/ ~ hir.ok
         \/ \E f \in DOMAIN lowered : lowered[f].panic
         \/ ~ Links(hir.program, lowered) \/ ~ Verifies(lowered)
      THEN Rejected
      ELSE [ok |-> TRUE, bodies |-> [f \in DOMAIN lowered |-> lowered[f].code],
            types |-> Descriptors(hir.program)]
=============================================================================
