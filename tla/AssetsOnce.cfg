\* Clients that ask once, a store that keeps what it has, and fair delivery.
SPECIFICATION FairSpec
CONSTANTS
  Peer = {p1, p2, p3}
  NoPeer = NoPeer
  NotWanted = NotWanted
  LastChunk = 1
  MaxAsks = 1
  MaxJoins = 3
  MaxPrunes = 0
INVARIANTS TypeOK RecipientsConnected OneRequestPerSource PatientServer
PROPERTIES AvailableIsComplete AnsweredUnlessStuck
\* Nobody has to ask.
CHECK_DEADLOCK FALSE
