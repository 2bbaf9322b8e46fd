SPECIFICATION TableScanSpec
CONSTANTS
  Lower <- MCLower
  TableDatabases <- MCDatabases
INVARIANT NoErrorNoGap
INVARIANT PrimaryKeyOrdered
PROPERTY TableScanEnds
