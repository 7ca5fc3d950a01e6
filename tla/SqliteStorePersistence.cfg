SPECIFICATION Spec
CONSTANTS
  None = None
  k1 = k1
  k2 = k2
  k3 = k3
  small = small
  large = large
  huge = huge
  SizeOf <- Sizes
  Keys = {k1, k2}
  Values = {small}
  Ttls = {1}
  max_items = 2
  max_memory_bytes = 3
  value_limit = 2
  Persisted <- NewFile
  Mishaps = {"crash", "reboot"}
  MaxMishaps = 2
  MaxClock = 1
  MaxEvents = 1
PROPERTY EntriesPersist
