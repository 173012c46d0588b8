CONSTANTS
  p1 = p1
  Tasks = {t1, t2, t3}
  Paths = {p1}
  NoTask = NoTask
  NoPath = NoPath
  NoFile = NoFile
  Storage <- OnePath
  Size = 1
  Ranges = {TRUE}
  MaxProcessing = 0
  MaxCrashes = 0
SPECIFICATION Spec
CHECK_DEADLOCK FALSE
INVARIANTS OneWriterPerFile
