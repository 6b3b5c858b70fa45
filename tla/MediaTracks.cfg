\* Two entities whose tracks come, change and go; "h264" has no subsystem.
SPECIFICATION FairSpec
CONSTANTS
  Entity = {e1, e2}
  Registered = {"opus", "mjpeg"}
  MaxTracks = 2
  MaxChanges = 1
  MaxPosts = 2
  MaxCalls = 1
INVARIANTS TracksFollowWorld TrackInUseExists MediaWasAnnounced
PROPERTY TracksCatchUp
