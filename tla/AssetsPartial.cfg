\* A request while the asset is still on its way to the store.
SPECIFICATION Spec
CONSTANTS
  Peer = {p1, p2, p3}
  NoPeer = NoPeer
  NotWanted = NotWanted
  LastChunk = 1
  MaxAsks = 1
  MaxJoins = 3
  MaxPrunes = 0
SYMMETRY PeerSymmetry
INVARIANTS ServedIsWritten
\* Nobody has to ask.
CHECK_DEADLOCK FALSE
