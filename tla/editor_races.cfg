SPECIFICATION FairSpec
CONSTANTS
  Paths = {a, b}
  Files = {a, b}
  Tasks = {t1, t2, t3}
  NoFile = NoFile
  NoPath = NoPath
  Ops = {"open", "delete"}
  WriteFails = FALSE
  MaxEdits = 2
CHECK_DEADLOCK FALSE
PROPERTIES
  NotesNeverMix
  EditsReachDisk
