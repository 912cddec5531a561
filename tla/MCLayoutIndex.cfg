SPECIFICATION Spec
CONSTANTS
  NCells = 3
  ShapeSeqs <- MCShapeSeqs
  Insts <- MCInsts
  Queries <- MCQueries
  MaxCalls = 4
  None = None
INVARIANTS
  TypeOK
  QuerySound
  QueryComplete
CHECK_DEADLOCK FALSE
