\* An application that keeps polling and disconnects outside of its callbacks.
SPECIFICATION FairSpec
CONSTANTS
  DisconnectInCallback = FALSE
  MaxCalls = 2
  MaxPosts = 2
INVARIANTS TypeOK NoCircularWait AckFollowsApp
PROPERTIES ImplementsChannels NothingLost DisconnectReturns
\* Nothing happens after the disconnect.
CHECK_DEADLOCK FALSE
