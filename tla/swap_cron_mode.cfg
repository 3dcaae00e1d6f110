SPECIFICATION FairSpec
CONSTANTS
  OD = {o1, o2}
  Spot = {s1, s2, s3}
  NoInstance = NoInstance
  InitialOD = {o1}
  Protected = {}
  MinOnDemand = 0
  MinSize = 1
  OwnerMax = 1
  EventDriven = FALSE
  LifecycleHooks = FALSE
  OutdatedScans = FALSE
  FaultKinds = {}
  MaxFaults = 0
  MaxScalings = 0
  MaxLosses = 0
  MaxQueue = 1
PROPERTIES EventuallyReplaced
