SPECIFICATION Spec
CONSTANTS
  ta = ta
  tb = tb
  tc = tc
  plain = plain
  ref = ref
  meth = meth
  Types = {ta, tb, tc}
  Fields = {plain, ref}
  Methods = {meth}
  RefFields = {ref}
  None = None
  Protocol = Protocol
  Programs <- Hierarchies
INVARIANTS
  EveryTypeIsTracedExactly
