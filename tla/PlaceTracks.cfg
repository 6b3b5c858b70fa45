\* Two subscriptions of a client to one track.  Subscriptions go on until the
\* invariant is violated.
CONSTANTS
  Client = {c1, c2}
  NoAgent = NoAgent
  None = None
  SubscribesTwice = TRUE
  MaxAgents = 3
  MaxEntities = 1
  MaxTracks = 1
  MaxMade = 2
  MaxEdits = 0
  MaxLaunches = 0
SPECIFICATION Spec
INVARIANTS RecipientsSubscribed
CHECK_DEADLOCK FALSE
