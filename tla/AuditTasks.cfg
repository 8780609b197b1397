CONSTANTS
  e1 = e1
  e2 = e2
  e3 = e3
  e4 = e4
  None = None
  Events = {e1, e2, e3, e4}
  Legacy = 1
  MaxCrashes = 1
SPECIFICATION FairSpec
INVARIANTS
  ChainLinked
  LogFollowsEmission
  
PROPERTIES
  EveryTaskEnds
  TrailSpec
