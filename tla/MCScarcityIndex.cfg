CONSTANTS
  Data = {d, e}
  Position = {p1, p2}
  Peer = {a, b, c}
  MaxAttsPerMessage = 2
  InitLevels = 1
  NoPeer = NoPeer
SPECIFICATION SlotSpec
SYMMETRY Symmetry
INVARIANTS
  HolderCountExact
  IndexExact
PROPERTIES
  ScarcestFirst
  RollbackRestores
