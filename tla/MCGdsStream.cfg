SPECIFICATION Spec
CONSTANTS
  Cellviews <- MCCellviews
  Lists <- MCLists
  OddNames <- MCOddNames
  LayerMap <- MCLayerMap
  ObjectMap <- MCObjectMap
  PinPurpose = 1
  MakePin = TRUE
  Foreign <- Foreigners
  None = None
INVARIANTS
  TypeOK
  CellsSurvive
  WholeFilesAccepted
CHECK_DEADLOCK FALSE
