SPECIFICATION Spec
CONSTANTS
  MaxInt = 100
  Boxes <- MCBoxes
  InfoLists <- MCInfoLists
INVARIANTS
  TypeOK
  ViaLegal
  NotDominated
PROPERTIES
  BestOfTried
  ReturnsIfFeasible
CHECK_DEADLOCK FALSE
