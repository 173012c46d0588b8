CONSTANTS
  Targets = {t1, t2}
  Keys = {k1}
  Timers = {x1, x2, x3}
  NoTarget = NoTarget
  NoTimer = NoTimer
  UIntMax = 3
  Plans <- EndingPlans
  FrameTimes = {2}
  MaxCalls = 2
  PoolThreads = 1
  MaxCaches = 2
  MaxPlays = 2
  MaxLoads = 1
SPECIFICATION FramesSpec
INVARIANTS TypeOK SoundsKeepWhatTheyUse NoInstanceIsLeaked
PROPERTIES CocosThreadGoesOn SoundsAndLoadsAreAnswered
