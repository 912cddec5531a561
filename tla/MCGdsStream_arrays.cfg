SPECIFICATION Spec
CONSTANTS
  Cellviews <- MCCellviews
  Lists <- MCStraightLists
  OddNames <- MCOddNames
  LayerMap <- MCLayerMap
  ObjectMap <- MCObjectMap
  PinPurpose = 1
  MakePin = TRUE
  Foreign <- Foreigners
  None = None
INVARIANTS
  ArraysSurvive
CHECK_DEADLOCK FALSE
