SPECIFICATION Spec
CONSTANTS
  TermBits <- MCTermBits
  Prims <- MCPrims
  Schematics <- MCSchematics
  Lists <- MCLists
  AnalogLib <- MCAnalogLib
  GndCells <- MCGndCells
  Ground <- MCGround
  BitsOf <- NameBits
  PartsOf <- Partition
  Attrs <- MCAttrs
  NoAttr = NoAttr
  Scalar = Scalar
  NoIndex = Scalar
INVARIANTS
  TypeOK
  InstancesDefined
  ConnectionsSplit
  NetsCollected
CHECK_DEADLOCK FALSE
