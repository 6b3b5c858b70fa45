\* An application that disconnects in its disconnected_callback.
SPECIFICATION FairSpec
CONSTANTS
  DisconnectInCallback = TRUE
  MaxCalls = 1
  MaxPosts = 1
PROPERTY DisconnectReturns
CHECK_DEADLOCK FALSE
