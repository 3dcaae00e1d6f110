SPECIFICATION FairRebalanceSpec
CONSTANTS
  OD = {o1, o2}
  Spot = {s1, s2}
  NoInstance = NoInstance
  InitialOD = {o1}
  Protected = {}
  MinOnDemand = 0
  MinSize = 1
  OwnerMax = 1
  EventDriven = TRUE
  LifecycleHooks = FALSE
  OutdatedScans = FALSE
  FaultKinds = {}
  MaxFaults = 0
  MaxScalings = 0
  MaxLosses = 0
  MaxQueue = 1
  Actions = {"detach"}
  MaxRebalances = 1
PROPERTY EventuallyReplaced
