SPECIFICATION Spec
CONSTANTS
  None = None
  k1 = k1
  k2 = k2
  k3 = k3
  small = small
  large = large
  huge = huge
  SizeOf <- Sizes
  Keys = {k1, k2}
  Values = {small, huge}
  Ttls = {1}
  max_items = 1
  max_memory_bytes = 3
  value_limit = 5
  Persisted <- OldFiles
  Mishaps = {"crash", "sql_error"}
  MaxMishaps = 1
  MaxClock = 1
  MaxEvents = 2
SYMMETRY KeySymmetry
INVARIANTS
  TypeOK
  AccountingExact
  NeverExhausted
  LastUsedHottest
PROPERTIES
  GrowthWithinLimits
  LiveEntryKept
  LossesCounted
  ImplementsContract
