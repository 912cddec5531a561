SPECIFICATION Spec
CONSTANTS
  BotLevel = 1
  TopLevel = 3
  InitTracks <- MCInitTracks
  Sizes <- MCSizes
  Offsets <- MCOffsets
  Xforms <- MCXforms
  BadParities <- MCBadParities
  Requests <- MCRequests
  MaxEdits = 2
  MaxTracks = 8
  None = None
  NumColors <- MCNumColors
  SpaceRules <- MCSpaceRules
  LenRules <- MCLenRules
  ViaIds <- MCViaIds
  ViaMetal <- MCViaMetal
  MetalEm <- MCMetalEm
  ViaEm <- MCViaEm
  Arrays <- MCArrays
  Bounds <- MCBounds
  BoxCalls <- MCBoxCalls
  ViaCalls <- MCViaCalls
  MaxCoord = 1000
  MaxCalls = 4
INVARIANTS
  TypeOK
  OnGrid
  TracksLeast
  ViasCovered
PROPERTIES
  SizingEnds
CHECK_DEADLOCK FALSE
