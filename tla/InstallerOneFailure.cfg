CONSTANTS
  Proc = {p1, p2}
  Free = Free
  Profiles = {v1, v2}
  UnitText = UnitText
  OldUnit = OldUnit
  Absent = Absent
  Foreign = Foreign
  Irregular = Irregular
  Faults = {"cmd", "fs", "cancel", "kill", "reboot", "interfere"}
  MaxFaults = 1
  MaxOps = 3
SPECIFICATION Spec
SYMMETRY Symmetry
PROPERTIES ForeignKept InstalledWhole InstallIsTransaction FirstInstallLeavesNoUnit
CHECK_DEADLOCK FALSE
