SPECIFICATION FairSpec
CONSTANTS
  Spot = {s1}
  Fresh = {f1, f2}
  NoInstance = NoInstance
  Actions = {"auto", "detach", "terminate"}
  FaultKinds = {"crash", "api"}
  MaxFaults = 2
  MaxRetags = 1
INVARIANTS TypeOK LateTerminationSafe DetachedBeforeTerminated
PROPERTIES HookHonoured CapacityRecovered
CHECK_DEADLOCK FALSE
