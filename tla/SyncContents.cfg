\* One client, a ring of three slots and an entity that comes and goes.
SPECIFICATION FairSpec
CONSTANTS
  HistoryLength = 3
  RollAt = 8
  Entity = {e1}
  Value = {v}
  Absent = Absent
  Client = {c1}
  InitWorld <- MCInitWorld
  IntMax = 8
  MaxRev = 5
  MaxInFlight = 2
INVARIANTS MirrorExact MergeBaseAvailable CacheTransparent AcksTruthful
PROPERTIES ImplementsPublishedWorld DeltasReachClient
