CONSTANTS
  Workers = {w1, w2}
  CocosThread = cocos
  NoThread = NoThread
  MaxPosts = 3
  MinThreads = 1
  MaxThreads = 2
  ShrinkStep = 2
  StretchStep = 2
  FixedSize = FALSE
  Types = {sound, other}
  MaxTasks = 3
  MaxCalls = 1
  NumTypes = 2
  MaxEnqueued = 4
  MaxClears = 1
SPECIFICATION PoolsSpec
INVARIANTS PoolsTypeOK MutexOwned PerformedInOrder NoneIsLost EveryTaskHasAThread NoThreadIsLost QueuesInStep
PROPERTIES ImplementsCalls ImplementsService EverythingIsHandled
