CONSTANTS
  a = a
  b = b
  c = c
  Node = {a, b, c}
  Links <- Line
  PushDlow = 1
  PushD = 1
  PushDhigh = 1
  BitmapDlow = 0
  BitmapD = 0
  BitmapDhigh = 1
  WriterBuf = 1
SPECIFICATION FairSpec
INVARIANTS
  DegreeBounds
PROPERTIES
  ExchangesEnd
