CONSTANTS
  Proc = {p1, p2}
  Free = Free
  Profiles = {v1, v2}
  UnitText = UnitText
  OldUnit = OldUnit
  Absent = Absent
  Foreign = Foreign
  Irregular = Irregular
  Faults = {"fs", "kill", "reboot"}
  MaxFaults = 2
  MaxOps = 3
SPECIFICATION Spec
SYMMETRY Symmetry
INVARIANTS TypeOK StatusHidesNothing
PROPERTIES RemovedWhole UndoneIsUndone
CHECK_DEADLOCK FALSE
