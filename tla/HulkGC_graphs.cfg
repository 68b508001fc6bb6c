\* Every shape of a heap of three objects, of one size.
SPECIFICATION Spec
CONSTANTS
  o1 = o1
  o2 = o2
  o3 = o3
  f1 = f1
  f2 = f2
  leaf = leaf
  pair = pair
  Obj = {o1, o2, o3}
  NULL = NULL
  Tag = {leaf, pair}
  Field = {f1, f2}
  Offsets <- MCOffsets
  Sizes = {1}
  Capacity = 2
  InitialThreshold = 2
SYMMETRY MCSymmetry
INVARIANTS
  TypeOK
  ReachableIsLive
  CollectionIsExact
  NoDoubleFree
  NoReentrantMark
