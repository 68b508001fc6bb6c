SPECIFICATION Spec
CONSTANTS
  Wide = FALSE
  Programs <- All
INVARIANTS
  TypeOK
  BackAtTopLevel
  BindsLexically
  HierarchyIsChecked
  ClimbsEnd
