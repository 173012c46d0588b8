CONSTANTS
  changed = changed
  deleted = deleted
  zipped = zipped
  Assets = {changed, deleted, zipped}
  MaxVersion = 2
  Md5 <- ThreeVersions
  NoFile = NoFile
  Broken = Broken
  NoManifest = NoManifest
  Compressed = {zipped}
  MaxConcurrent = 2
  Calls = {"update"}
  AssetFailures = FALSE
  CrashPoints = {"merging"}
  MaxCrashes = 1
SPECIFICATION Spec
CHECK_DEADLOCK FALSE
INVARIANTS CachedVersionIsComplete
