SPECIFICATION Spec
CONSTANTS
  None = None
  k1 = k1
  k2 = k2
  k3 = k3
  small = small
  large = large
  huge = huge
  Keys = {k1, k2, k3}
  Values = {small, large, huge}
  SizeOf <- Sizes
  Ttls = {None}
  max_items = 2
  max_memory_bytes = 3
  value_limit = 5
  MaxClock = 0
  MaxEvents = 2
SYMMETRY KeySymmetry
INVARIANTS
  TypeOK
  AccountingExact
  WithinLimits
  FrameConsistent
  NeverExhausted
PROPERTIES
  ImplementsContract
  LastUsedSurvives
