SPECIFICATION ItemSpec
CONSTANTS
  NIL = NIL
  MaxNames = 3
  Inputs <- MCInputs
  ValidateTree <- ValidateFolderTree
INVARIANTS
  NoDefectSlipsThrough
  PanicsAreNilOrLongKeys
  KeysInOrderAccepted
PROPERTIES
  SavedItemsStaySound
CHECK_DEADLOCK FALSE
