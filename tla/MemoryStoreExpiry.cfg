SPECIFICATION FairSpec
CONSTANTS
  None = None
  k1 = k1
  k2 = k2
  k3 = k3
  small = small
  large = large
  huge = huge
  Keys = {k1, k2}
  Values = {small, huge}
  SizeOf <- Sizes
  Ttls = {1}
  max_items = 1
  max_memory_bytes = 3
  value_limit = 2
  MaxClock = 2
  MaxEvents = 2
PROPERTIES
  LiveEntryKept
  LossesCounted
  ImplementsContract
  ExpiredRemoved
  LockReleased
  CleanerEnds
