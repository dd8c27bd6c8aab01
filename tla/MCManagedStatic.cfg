SPECIFICATION TimersSpec
CONSTANTS
  StatLock = StatLock
  StatInfo = StatInfo
  LibSupportInfoOutputFilename = LibSupportInfoOutputFilename
  TimerLock = TimerLock
  NamedTimers = NamedTimers
  DefaultTimerGroup = DefaultTimerGroup
  TimingInfoMutex = TimingInfoMutex
  TTI = TTI
  Nobody = Nobody
  None = None
  GlobalLock = GlobalLock
  Threads = {t1, t2}
  Statics <- CompilerStatics
  Immortal = {}
  Creator <- Creators
  Deleter <- Deleters
  Startup <- InfoOutputFilename
  Operations <- CompilerOperations
  MaxShutdowns = 2
INVARIANTS
  ObjectsAreReady
  NothingIsLost
  OutlivesItsUsers
PROPERTIES
  ShutdownLeavesNothing
  EveryCallReturns
  InReverseOrder
