CONSTANTS
  a = a
  b = b
  c = c
  f = f
  d = d
  NoNode = NoNode
  Node = {a, b, c}
  Data = {d}
  Position = {1}
  Mesh <- Link
  Fanout = {}
  FanoutPeers <- Nowhere
  Own <- OneAttestation
  StartPhase = "open"
  Ending = {}
  MaxPeersPerAttestation = 2
  MaxIWantPerPosition = 1
  MaxPerMessage = 1
  DisableIHaveGossip = FALSE
  SendAvailableWithData = TRUE
SPECIFICATION LiveSpec
INVARIANTS
  RequestsCapped
  GossipNotLost
PROPERTIES
  Converges
CHECK_DEADLOCK FALSE
