SPECIFICATION Spec
CONSTANTS
  X = X
  X2 = X2
  X3 = X3
  bad = bad
  t1 = t1
  t2 = t2
  net1 = net1
  net2 = net2
  net3 = net3
  InstNames <- MCInstNames
  NameSize <- MCNameSize
  UnitNames <- MCUnitNames
  Terms <- MCTerms
  TermSize <- MCTermSize
  Nets <- MCNets
  Masters = {m}
  PinNames = {in, out, badpin}
  LegalPins = {in, out}
  AttrVals = {v}
  NoName = NoName
  NoAttr = NoAttr
  NoSym = NoSym
  MapKeys = {1, 2, 3, 4, 5}
  MapVals = {1, 2}
INVARIANTS
  TypeOK
  ConnWidth
  InstanceMapExact
PROPERTIES
  ResizeKeepsDevices
  ArrayKeepsInstances
  PinsStayInSync

