CONSTANTS
  a = a
  b = b
  c = c
  Node = {a, b, c}
  Links <- Clique
  PushDlow = 1
  PushD = 1
  PushDhigh = 2
  BitmapDlow = 1
  BitmapD = 1
  BitmapDhigh = 2
  WriterBuf = 2
SPECIFICATION LiveSpec
PROPERTIES
  SymmetryReturns
