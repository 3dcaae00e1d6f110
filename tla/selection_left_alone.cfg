SPECIFICATION Spec
CONSTANTS
  Keys <- MCKeys
  Values <- MCValues
  Absent = Absent
  Groups <- Group
  Filters <- MCBlank
  Modes = {"opt-in"}
INVARIANTS LeftAlone
