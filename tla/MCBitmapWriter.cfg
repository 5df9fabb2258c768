SPECIFICATION FairSpec
CONSTANTS
  Peer = {a, b}
  Data = {d}
  Position = {p1, p2}
  BitmapBytes = 3
  EnablePushMeshBitmap = TRUE
  MaxSessions = 2
INVARIANTS QueuedIsSignalled NothingForgotten DifferencesAddUp HashesResolvable
PROPERTIES AdSpec BitmapPeersLearn
