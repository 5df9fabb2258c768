CONSTANTS
  Data = {d}
  Position = {p1, p2}
  Peer = {a, b}
  MaxAttsPerMessage = 1
  InitLevels = 1
  NoPeer = NoPeer
  SendBudgetB = 1
  ReadersPerPeer = 1
  MaxSessions = 1
SPECIFICATION Spec
SYMMETRY Symmetry
INVARIANTS
  BitmapBudget
  NothingSendableWhenIdle
  StrictOneInFlight
PROPERTIES
  ForwardSpec
