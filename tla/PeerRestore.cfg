SPECIFICATION SpecWithPeers
CONSTANTS
  MaxIds = 4
  MaxLen = 2
  MaxDepth = 1
  MaxUndo = 2
  MaxLocal = 2
  MaxPeer = 2
  MaxDone = 3
INVARIANT
  ShowsTheDocument
CHECK_DEADLOCK FALSE
