CONSTANTS
  Data = {d}
  Position = {p1, p2, p3}
  Peer = {a}
  MaxAttsPerMessage = 2
  InitLevels = 1
  NoPeer = NoPeer
  SendBudgetB = 1
  ReadersPerPeer = 1
  MaxSessions = 2
SPECIFICATION FairSpec
INVARIANTS
  BudgetExact
  HashAfterFullData
PROPERTIES
  NeverSentTwice
  PushPeersGetEverything
