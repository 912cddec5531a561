SPECIFICATION Spec
CONSTANTS
  MaxInt = 100
  Boxes <- MCBoxes
  InfoLists <- MCInfoLists
PROPERTIES
  Returns
CHECK_DEADLOCK FALSE
