CONSTANTS
  Targets = {t1, t2}
  Keys = {k1, k2}
  Timers = {x1, x2, x3}
  NoTarget = NoTarget
  NoTimer = NoTimer
  UIntMax = 3
  Plans <- RepeatingPlans
  FrameTimes = {2}
  MaxCalls = 2
SPECIFICATION Spec
PROPERTIES ZeroIntervalTriggersOncePerFrame
