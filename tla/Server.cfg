SPECIFICATION CliSpec
CONSTANTS
  None = None
  BadKey = BadKey
  k1 = k1
  k2 = k2
  small = small
  r1 = r1
  p1 = p1
  Values = {small}
  SizeOf <- Sizes
  max_items = 2
  max_memory_bytes = 3
  value_limit = None
  Keys = {k1, k2}
  Ttls = {None}
  Rpcs = {r1, p1}
  Probes = {p1}
  Requests <- Some
  Workers = 1
  MaxClock = 0
INVARIANTS
  ServerTypeOK
  DrainedFirst
  StoppedOnce
  CallsCounted
  ExitTruthful
PROPERTIES
  StoreStops
  ProcessEnds
  CallsReturn
CHECK_DEADLOCK FALSE
