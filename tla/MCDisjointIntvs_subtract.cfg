SPECIFICATION Spec
CONSTANTS
  MinCoord = 0
  MaxCoord = 5
  Scales <- MCScales
  Shifts <- MCShifts
  Others <- MCOthers
PROPERTIES
  SubtractExact
