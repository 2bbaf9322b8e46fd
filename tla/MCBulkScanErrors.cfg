SPECIFICATION Spec
CONSTANTS
  Lower <- MCLower
  Databases <- MCDatabases
INVARIANT FailureIsReported
