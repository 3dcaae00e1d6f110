SPECIFICATION FairSpec
CONSTANTS
  Group = {"a", "b"}
  Instance = {"o1", "o2", "o3", "o4", "s1"}
  OnDemand = {"o1", "o2", "o3", "o4"}
  InitialEc2 <- MCInitialEc2
  Listed <- MCListed
  Leaving = {"o4"}
  Protected = {}
  Setting <- MCSetting
  NoInstance = NoInstance
  Unset = Unset
  MaxSize = 3
  MaxRuns = 2
  MaxFailures = 1
INVARIANTS TypeOK MissedOnlyIfRaced MinimumKeptByHandler
PROPERTIES QueuedRightly RunEnds
CHECK_DEADLOCK FALSE
