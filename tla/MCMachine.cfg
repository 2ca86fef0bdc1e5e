\* Three threads, every schedule, one restart, up to two RUN_TAPEs.
CONSTANTS
    NThreads = 3
    Args <- MCArgs
    Schedules <- MCSchedules
    SpawnBound = 2
    RestartBound = 1
    SpuriousWakeups = FALSE
    EagerTrigger = FALSE
    JoinAll = TRUE
SPECIFICATION Spec
INVARIANTS TypeOK SynchronizedStart LineBarrier ReloadAlone NeverRunsNothing
PROPERTIES JoinAfterFinish NoTapeOverwritten NoLineSkipped Termination ImplementsForkJoin
