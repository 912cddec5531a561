SPECIFICATION NamingSpec
CONSTANTS
  A = A
  Numbers <- MCNumbers
  Others <- MCOthers
  NoName = NoName
  Nullopt = Nullopt
  MaxAdds = 9
INVARIANTS
  NamingTypeOK
  SavedNameFree
PROPERTIES
  SearchEnds
CHECK_DEADLOCK FALSE
