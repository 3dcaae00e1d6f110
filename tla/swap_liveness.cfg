SPECIFICATION FairSpec
CONSTANTS
  OD = {o1, o2}
  Spot = {s1, s2, s3}
  NoInstance = NoInstance
  InitialOD = {o1}
  Protected = {}
  MinOnDemand = 0
  MinSize = 1
  OwnerMax = 1
  EventDriven = TRUE
  LifecycleHooks = TRUE
  OutdatedScans = FALSE
  FaultKinds = {"crash", "api", "timeout", "launch", "scan", "event", "describe"}
  MaxFaults = 1
  MaxScalings = 0
  MaxLosses = 0
  MaxQueue = 2
INVARIANTS OneSpareInstance MaxSizeRatchet
PROPERTIES EventuallyReplaced ProcessesResumed
