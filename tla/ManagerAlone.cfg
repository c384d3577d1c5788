CONSTANTS
  Keys = {1, 2}
  Backlog = {2}
  Vals = {0, 1, 2}
  Default = 0
  Floor = 1
  Inputs = {1, 2}
  Tuned <- MCTuned
  Builtin <- MCBuiltin
  Ids = {i1, i2, i3, i4}
  Absent = Absent
  Foreign = Foreign
  Irregular = Irregular
  ModulesLine = ModulesLine
  None = None
  Proc = {p1}
  Free = Free
  InitVals = {0, 2}
  Faults = {"cmd", "fs", "ignore", "kill", "reboot"}
  MaxFaults = 1
  MaxOps = 4
SPECIFICATION Spec
SYMMETRY Symmetry
PROPERTIES FailedApplyReverts ReconcileNeedsDrift BacklogNeverLowered Idempotent
CHECK_DEADLOCK FALSE
