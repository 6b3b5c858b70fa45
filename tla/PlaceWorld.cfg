\* The bounds stop every client, and a crash the server: no deadlock check.
CONSTANTS
  Client = {c1, c2}
  NoAgent = NoAgent
  None = None
  SubscribesTwice = FALSE
  MaxAgents = 3
  MaxEntities = 3
  MaxTracks = 1
  MaxMade = 3
  MaxEdits = 1
  MaxLaunches = 1
SPECIFICATION Spec
SYMMETRY Symmetry
INVARIANTS TypeOK OwnersConnected OriginsConnected RecipientsSubscribed SafeCleanup
PROPERTIES TreesGoWhole
CHECK_DEADLOCK FALSE
