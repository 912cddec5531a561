SPECIFICATION Spec
CONSTANTS
  NameOrder <- MCNameOrder
  NetBits <- MCNetBits
  PinName <- MCPinName
  ColorMap <- MCColorMap
  ViaDefs = {"v1"}
  PinPurpose = "pin"
  MakePin = TRUE
  Disks <- MCDisks
  Libraries = {"prim", "tmpl", "out"}
  TechLibs = {"prim"}
  SchLists <- MCSchLists
  LayLists <- MCLayLists
  NewLibs = {"out"}
  YamlLibs = {"tmpl", "out"}
  PrimLibs = {"prim"}
  Roots <- MCRoots
  SchView = "schematic"
  SymView = "symbol"
  LayView = "layout"
  NoSym = NoSym
  MaxCalls = 2
  MaxFaults = 1
CHECK_DEADLOCK FALSE
INVARIANTS
  TypeOK
  ReadBack
  ListComplete
  ReadReachable
  NothingHeld
  LayoutSaved
PROPERTIES
  CallsEnd
