SPECIFICATION Spec
CONSTANTS
  OD = {o1, o2, o3}
  Spot = {s1, s2}
  NoInstance = NoInstance
  InitialOD = {o1, o2}
  Protected = {}
  MinOnDemand = 1
  MinSize = 2
  OwnerMax = 3
  EventDriven = TRUE
  LifecycleHooks = FALSE
  OutdatedScans = TRUE
  FaultKinds = {"crash", "api", "timeout", "launch", "event", "describe"}
  MaxFaults = 1
  MaxScalings = 1
  MaxLosses = 1
  MaxQueue = 1
SYMMETRY Symmetric
INVARIANTS TypeOK CapacityBand
PROPERTIES  ReplacedBeforeRetired KeepsCapacity
