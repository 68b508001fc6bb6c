\* Requests of different sizes on a heap of two objects: the threshold, the
\* accounting, the promise of ManagedHeap, and the end of every call.
SPECIFICATION FairSpec
CONSTANTS
  o1 = o1
  o2 = o2
  o3 = o3
  f1 = f1
  f2 = f2
  leaf = leaf
  pair = pair
  Obj = {o1, o2}
  NULL = NULL
  Tag = {leaf, pair}
  Field = {f1, f2}
  Offsets <- MCOffsets
  Sizes = {1, 3, 8}
  Capacity = 2
  InitialThreshold = 3
INVARIANTS
  BytesAreExact
  HeapWithinThreshold
  OnlyLargeRequestsFail
  CompleteInv
PROPERTIES
  ImplementsHeap
  CallsReturn
