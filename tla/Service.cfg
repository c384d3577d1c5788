CONSTANTS
  Keys = {1}
  Backlog = {}
  Vals = {0, 1, 2}
  Default = 0
  Floor = 1
  Inputs = {1, 2}
  Tuned <- MCTuned
  Builtin <- MCBuiltin
  Ids = {1, 2, 3}
  Absent = Absent
  Foreign = Foreign
  Irregular = Irregular
  ModulesLine = ModulesLine
  UnitText = UnitText
  OldUnit = OldUnit
  None = None
  Proc = {p1, p2}
  Free = Free
  InitVals = {0}
  Faults = {"cmd", "fs", "cancel", "kill", "reboot"}
  MaxFaults = 1
  MaxOps = 2
SPECIFICATION MCSpec
PROPERTIES InstallAllOrNothing InstallTunes VerdictIsRight BootTunes
CHECK_DEADLOCK FALSE
