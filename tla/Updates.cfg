CONSTANTS
  Targets = {t1, t2}
  Keys = {k1, k2}
  Timers = {x1, x2, x3}
  NoTarget = NoTarget
  NoTimer = NoTimer
  UIntMax = 3
  Plans <- RepeatingPlans
  FrameTimes = {2}
  MaxCalls = 2
  BackBuffers = 2
  Buffers = {b1}
  Sets = {d1}
  None = None
  MaxObjects = 2
  MaxCommands = 3
  MaxUploads = 1
  MaxRecreates = 1
SPECIFICATION UpdatesSpec
SYMMETRY Symmetric
INVARIANTS TypeOK MemorySafe IndexAtCurrentTimer EveryDueTimerTicked SpentTimerIsGone NothingPendingIsReused DescriptorsAreCurrent
PROPERTIES TickedAtMostOncePerFrame
