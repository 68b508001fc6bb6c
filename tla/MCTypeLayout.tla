---------------------------- MODULE MCTypeLayout ----------------------------
(***************************************************************************)
(* Every hierarchy of the types, in every order of declaration.            *)
(***************************************************************************)
EXTENDS TypeLayout

CONSTANTS ta, tb, tc, plain, ref, meth

FieldLists == {<<>>, <<ref>>, <<plain, ref>>, <<ref, ref>>}

Hierarchies ==
  [declared : {s \in [1..Cardinality(Types) -> Types] : Range(s) = Types},
   parent   : {p \in [Types -> Types \cup {None, Protocol}] : Acyclic(p)},
   own      : [Types -> FieldLists],
   direct   : [Types -> SUBSET Methods]]
=============================================================================
