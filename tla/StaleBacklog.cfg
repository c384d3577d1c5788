CONSTANTS
  Keys = {1, 2}
  Backlog = {2}
  Vals = {0, 1, 2}
  Default = 0
  Floor = 1
  Inputs = {1, 2}
  Tuned <- MCTuned
  Builtin <- MCBuiltin
  Ids = {i1, i2}
  Absent = Absent
  Foreign = Foreign
  Irregular = Irregular
  ModulesLine = ModulesLine
  None = None
  Proc = {p1}
  Free = Free
  InitVals = {0}
  Faults = {"drift"}
  MaxFaults = 1
  MaxOps = 1
SPECIFICATION Spec
PROPERTIES BacklogNeverLowered
CHECK_DEADLOCK FALSE
