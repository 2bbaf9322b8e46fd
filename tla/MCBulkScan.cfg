SPECIFICATION Spec
CONSTANTS
  Lower <- MCLower
  Databases <- MCDatabases
INVARIANT RowsLandInOrder
INVARIANT OrderDecidesFind
INVARIANT ReferencesMirrored
PROPERTY LateScanFails
