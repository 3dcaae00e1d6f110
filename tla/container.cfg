SPECIFICATION FairContainerSpec
CONSTANTS
  Keys = {"spot-enabled"}
  Values = {"true", "false"}
  Absent = Absent
  Groups <- MCGroups
  Filters <- MCFilters
  Modes = {"opt-in", "opt-out"}
  Setups <- MCSetups
  Overrides <- MCOverrides
  Unset = Unset
  Invalid = Invalid
  Hours = 3
  Message = {m1}
  NoReceipt = NoReceipt
  Savings <- MCSavings
  MaxFaults = 2
INVARIANTS ContainerTypeOK OnlyRequestedGroups
PROPERTIES SelectsAsSpecified OneSwapPerMessage ScheduleKept NoFreeRide CronResumes
