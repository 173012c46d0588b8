CONSTANTS
  changed = changed
  deleted = deleted
  zipped = zipped
  Assets = {changed, deleted, zipped}
  MaxVersion = 2
  Md5 <- ThreeVersions
  NoFile = NoFile
  Broken = Broken
  NoManifest = NoManifest
  Compressed = {zipped}
  MaxConcurrent = 2
  Calls = {"checkUpdate", "recheck", "update", "retry"}
  AssetFailures = TRUE
  CrashPoints = {"running"}
  MaxCrashes = 2
SPECIFICATION PartsSpec
CHECK_DEADLOCK FALSE
INVARIANTS TypeOK CountersMatch SavedProgressIsTrue RemoteManifestKept UpdatesAreComplete
PROPERTIES UpdateEnds
