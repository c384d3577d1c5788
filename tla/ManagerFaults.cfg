CONSTANTS
  Keys = {1, 2}
  Backlog = {2}
  Vals = {0, 1, 2}
  Default = 0
  Floor = 1
  Inputs = {1, 2}
  Tuned <- MCTuned
  Builtin <- MCBuiltin
  Ids = {i1, i2}
  Absent = Absent
  Foreign = Foreign
  Irregular = Irregular
  ModulesLine = ModulesLine
  None = None
  Proc = {p1, p2}
  Free = Free
  InitVals = {0}
  Faults = {"cmd", "fs", "ignore", "cancel", "kill", "reboot"}
  MaxFaults = 2
  MaxOps = 2
SPECIFICATION RSpec
SYMMETRY Symmetry
INVARIANTS TypeOK MutualExclusion Recoverable
PROPERTIES HonestOutcome RollbackUndoesCrash ImplementsContract
CHECK_DEADLOCK FALSE
