\* A crash ends the server, and the bounds stop its clients: no deadlock check.
CONSTANTS
  None = None
  Spot <- Spots
  Gesture <- Gestures
  Children <- AvatarChildren
  Shape <- SpawnedShapes
  Animation <- AddedAnimations
  MaxSimulated = 2
  MaxAgents = 3
  MaxEntities = 4
  MaxIntents = 2
  MaxEdits = 1
  MaxAnimations = 2
  MaxEvents = 6
  MaxSteps = 2
SPECIFICATION Spec
INVARIANTS TypeOK
PROPERTIES HandsFollowIntents FollowersFollow GrabbedIsInHand AnimationsEnd
CHECK_DEADLOCK FALSE
