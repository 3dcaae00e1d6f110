SPECIFICATION FairRebalanceSpec
CONSTANTS
  OD = {o1, o2}
  Spot = {s1, s2, s3}
  NoInstance = NoInstance
  InitialOD = {o1}
  Protected = {}
  MinOnDemand = 0
  MinSize = 1
  OwnerMax = 1
  EventDriven = TRUE
  LifecycleHooks = FALSE
  OutdatedScans = FALSE
  FaultKinds = {"crash", "scan"}
  MaxFaults = 1
  MaxScalings = 0
  MaxLosses = 0
  MaxQueue = 1
  Actions = {"detach", "terminate"}
  MaxRebalances = 1
INVARIANTS RebalanceTypeOK SparesBounded CapacityBand
PROPERTIES ReplacedOrBlocked
