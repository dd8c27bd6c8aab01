------------------------ MODULE TimersAndStatistics ------------------------
(***************************************************************************)
(* What uses statics from several threads: statistics (Statistic.cpp),     *)
(* timers (Timer.cpp) and the timing of passes (PassManager.cpp), each     *)
(* function as the script of the statics it uses and the mutexes it takes. *)
(* Where a function has cases, the script is the longest one: statistics   *)
(* and timing are enabled, and there is something to print.                *)
(***************************************************************************)
EXTENDS ManagedStatic

CONSTANTS
  StatLock, StatInfo,                \* Statistic.cpp
  LibSupportInfoOutputFilename, TimerLock, NamedTimers,
  DefaultTimerGroup,                 \* Timer.cpp
  TimingInfoMutex, TTI               \* PassManager.cpp

\* SmartScopedLock<true> L(*m), over the code inside.
Scoped(m, inside) == <<Use(m), Lock(m)>> \o inside \o <<Unlock(m)>>

\* The initializer of the option InfoOutputFilename, before main.
InfoOutputFilename == <<Use(LibSupportInfoOutputFilename)>>

CreateInfoOutputFile == <<Use(LibSupportInfoOutputFilename)>>

RegisterStatistic == Scoped(StatLock, <<Use(StatInfo)>>)

\* Also what ~StatisticInfo does.
PrintStatistics == <<Use(StatInfo)>> \o CreateInfoOutputFile

addTimer == Scoped(TimerLock, <<>>)

\* The last timer of its group: the report is printed.
removeTimer == Scoped(TimerLock, CreateInfoOutputFile)

\* The constructor of TimerGroup.
TimerGroup == Scoped(TimerLock, <<>>)

\* Timer::init, of a timer of no group in particular.
init == <<Use(DefaultTimerGroup)>> \o addTimer

getNamedRegionTimer == Scoped(TimerLock, <<Use(NamedTimers)>> \o init)

\* What createTheTimeInfo does if TheTimeInfo is null.
createTheTimeInfo == <<Use(TTI)>>

\* TimingInfo::getPassTimer, of a pass that has none.
getPassTimer == Scoped(TimingInfoMutex, addTimer)

\* ~TimingInfo: its timers, then the group they are in.
TimingDtor == removeTimer \o Scoped(TimerLock, <<>>)

CreatorOf(s) == IF s \in {TTI, DefaultTimerGroup} THEN TimerGroup ELSE <<>>

DeleterOf(s) ==
  CASE s = StatInfo    -> PrintStatistics
    [] s = TTI         -> TimingDtor
    [] s = NamedTimers -> removeTimer
    [] OTHER           -> <<>>

-----------------------------------------------------------------------------
VARIABLE TheTimeInfo   \* is it anything but null?

Calls(t, script) == stack[t] = <<>> /\ stack'[t] = <<Frame("operation", None, script)>>

\* createTheTimeInfo stores the address that it has got before it returns.
Assigns(t) == At(t, "operation") /\ stack'[t] = <<>> /\ TTI \in {o[1] : o \in Top(t).got}

TimersInit == Init /\ TheTimeInfo = FALSE

\* A call that finds TheTimeInfo set returns at once; llvm_shutdown leaves it set.
TimersNext ==
  \E t \in Threads :
    /\ ClientStep(t) \/ LibraryStep(t)
    /\ Calls(t, createTheTimeInfo) => ~TheTimeInfo
    /\ TheTimeInfo' = (TheTimeInfo \/ Assigns(t))

\* Every behaviour of it is one of Spec.
TimersSpec == TimersInit /\ [][TimersNext]_<<vars, TheTimeInfo>> /\ Fairness
=============================================================================
