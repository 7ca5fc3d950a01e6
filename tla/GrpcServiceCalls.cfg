SPECIFICATION Spec
CONSTANTS
  None = None
  BadKey = BadKey
  k1 = k1
  k2 = k2
  small = small
  huge = huge
  other = other
  r1 = r1
  r2 = r2
  r3 = r3
  Values = {small, huge, other}
  SizeOf <- Sizes
  max_items = 2
  max_memory_bytes = 3
  value_limit = None
  Keys = {k1, k2}
  Ttls = {None, 1}
  Rpcs = {r1, r2, r3}
  Requests <- Mixed
  Workers = 2
  MaxClock = 1
SYMMETRY RpcSymmetry
INVARIANTS
  TypeOK
  ActiveExact
  
  StatusTruthful
  NoLostUpdate
PROPERTIES
  EffectsInScope
CHECK_DEADLOCK FALSE
