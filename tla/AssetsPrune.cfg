\* A store that drops the asset once.
SPECIFICATION Spec
CONSTANTS
  Peer = {p1, p2, p3}
  NoPeer = NoPeer
  NotWanted = NotWanted
  LastChunk = 1
  MaxAsks = 1
  MaxJoins = 4
  MaxPrunes = 1
SYMMETRY PeerSymmetry
INVARIANTS SourcesConnected OneOrigin NoRequestForgotten
\* Nobody has to ask.
CHECK_DEADLOCK FALSE
