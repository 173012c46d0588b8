CONSTANTS
  p1 = p1
  Tasks = {t1, t2}
  Paths = {p1}
  NoTask = NoTask
  NoPath = NoPath
  NoFile = NoFile
  Storage <- OnePath
  Size = 2
  Ranges = {TRUE}
  MaxProcessing = 1
  MaxCrashes = 1
SPECIFICATION PartsSpec
CHECK_DEADLOCK FALSE
INVARIANTS TypeOK EachTaskInOnePlace
PROPERTIES SuccessMeansComplete DataTasksReported
