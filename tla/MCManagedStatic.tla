-------------------------- MODULE MCManagedStatic --------------------------
\* A compiler that counts and times its passes, on two threads; and a
\* program with named timers.
EXTENDS TimersAndStatistics

CompilerStatics == {StatLock, StatInfo, LibSupportInfoOutputFilename, TimerLock, TTI}
CompilerOperations == {RegisterStatistic, createTheTimeInfo}

TimerStatics == {LibSupportInfoOutputFilename, TimerLock, NamedTimers, DefaultTimerGroup}
TimerOperations == {init, getNamedRegionTimer}
TimerImmortals == {DefaultTimerGroup}

Creators == [s \in Statics |-> CreatorOf(s)]
Deleters == [s \in Statics |-> DeleterOf(s)]
=============================================================================
