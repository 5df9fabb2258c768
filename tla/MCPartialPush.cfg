CONSTANTS
  a = a
  b = b
  c = c
  f = f
  d = d
  NoNode = NoNode
  Node = {a, b, c, f}
  Data = {d}
  Position = {1, 2, 3}
  Mesh <- Star
  Fanout = {f}
  FanoutPeers <- ToB
  Own <- ThreeAttestations
  StartPhase = "fresh"
  Ending = {a, b, c, f}
  MaxPeersPerAttestation = 2
  MaxIWantPerPosition = 1
  MaxPerMessage = 1
  DisableIHaveGossip = TRUE
  SendAvailableWithData = TRUE
SPECIFICATION Spec
INVARIANTS
  SendsCounted
  KnownOrOnItsWay
  HashesResolvable
  MeshNotGossip
  IndexInvariant
PROPERTIES
  TickDrains
  LeastForwardedFirst
  DissSpec
CHECK_DEADLOCK FALSE
