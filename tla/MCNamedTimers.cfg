SPECIFICATION TimersSpec
CONSTANTS
  StatLock = StatLock
  StatInfo = StatInfo
  LibSupportInfoOutputFilename = LibSupportInfoOutputFilename
  TimerLock = TimerLock
  NamedTimers = NamedTimers
  DefaultTimerGroup = DefaultTimerGroup
  TimingInfoMutex = TimingInfoMutex
  TTI = TTI
  Nobody = Nobody
  None = None
  GlobalLock = GlobalLock
  Threads = {t1, t2}
  Statics <- TimerStatics
  Immortal <- TimerImmortals
  Creator <- Creators
  Deleter <- Deleters
  Startup <- InfoOutputFilename
  Operations <- TimerOperations
  MaxShutdowns = 0
INVARIANTS
  NoCircularWait
