SPECIFICATION Spec
CONSTANTS
  Paths = {a, b}
  Files = {a, b}
  Tasks = {t1}
  NoFile = NoFile
  NoPath = NoPath
  Ops = {"open"}
  WriteFails = FALSE
  MaxEdits = 2
CHECK_DEADLOCK FALSE
PROPERTIES
  SwitchKeepsEdits
