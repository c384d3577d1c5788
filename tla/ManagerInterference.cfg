CONSTANTS
  Keys = {1, 2}
  Backlog = {2}
  Vals = {0, 1}
  Default = 0
  Floor = 1
  Inputs = {1}
  Tuned <- MCTuned
  Builtin <- MCBuiltin
  Ids = {i1, i2}
  Absent = Absent
  Foreign = Foreign
  Irregular = Irregular
  ModulesLine = ModulesLine
  None = None
  Proc = {p1, p2}
  Free = Free
  InitVals = {0}
  Faults = {"fs", "cancel", "kill", "interfere"}
  MaxFaults = 1
  MaxOps = 2
SPECIFICATION FairSpec
INVARIANTS LatestExists
PROPERTIES SnapshotsKept CommandsEnd
CHECK_DEADLOCK FALSE
