SPECIFICATION Spec
CONSTANTS
  None = None
  k1 = k1
  k2 = k2
  small = small
  Keys = {k1, k2}
  Values = {small}
  SizeOf <- Sizes
  Ttls = {None}
  max_items = 2
  max_memory_bytes = 3
  value_limit = None
  MaxClock = 0
  MaxEvents = 4
  Int32Max = 2
PROPERTY StatsAnswered
