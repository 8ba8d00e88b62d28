SPECIFICATION Spec
CONSTANTS
  Paths = {a, b}
  Files = {a, b}
  Tasks = {t1, t2}
  NoFile = NoFile
  NoPath = NoPath
  Ops = {"open", "title", "rename", "delete", "summary"}
  WriteFails = TRUE
  MaxEdits = 2
CHECK_DEADLOCK FALSE
SYMMETRY MCSymmetry
INVARIANTS
  TypeOK
  CleanMeansSaved
  DirtyIsScheduled
