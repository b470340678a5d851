\* Everything that connects, disconnects and frees ports.
SPECIFICATION Spec
CONSTANTS
  P1 = P1
  P2 = P2
  P3 = P3
  M1 = M1
  Ports = {P1, P2, P3, M1}
  PortType <- MCType
  PortFlow <- MCFlow
  MaxDestinations = 23
  LastStandard = 0
SYMMETRY MCSymmetry
INVARIANTS
  TypeOK
  Symmetric
  StoredOnce
  TypesMatch
  RestoresConnections
CHECK_DEADLOCK FALSE
