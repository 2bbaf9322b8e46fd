CONSTANTS
  a = a
  b = b
  Ids = {a, b}
  Clients = {c1, c2}
  Loaders = {c2}
  Disks <- MCDisks
  MaxCalls = 2
  Projects <- MCProjects
SPECIFICATION StoreSpec
CHECK_DEADLOCK FALSE
INVARIANTS RoundTrip LoadFailureExplained
