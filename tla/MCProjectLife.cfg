SPECIFICATION Spec
CONSTANTS
  d1 = d1
  d2 = d2
  NIL = NIL
  Drivers <- MCDrivers
  Servers <- MCServers
  MaxAdded = 3
  MaxChanges = 2
INVARIANTS
  StatusesAreTrue
  LoadedPlusAdded
  AddedIsFound
PROPERTIES
  LastWordFirst
  CreatorKeepsContract
CHECK_DEADLOCK FALSE
