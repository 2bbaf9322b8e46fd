SPECIFICATION Spec
CONSTANTS
  Ids = {"i", "j"}
  Contents = {"x", "y"}
  Clients = {c1, c2}
INVARIANT SettledContent
INVARIANT ListIsComplete
INVARIANT FailuresAreRaces
