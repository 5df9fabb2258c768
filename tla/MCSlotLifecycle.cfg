CONSTANTS
  d1 = d1
  d2 = d2
  p1 = p1
  p2 = p2
  Data = {d1, d2}
  Position = {p1, p2}
  MaxSlot = 2
  SlotOf <- SlotOfData
  MaxFrames = 2
SPECIFICATION Spec
SYMMETRY Positions
INVARIANTS ClosedSlotsStayEmpty VerifiedOnce HashesResolvable
CHECK_DEADLOCK FALSE
