\* Three instances, each with or without --daemonize: the lock is meant to
\* admit one at a time.
CONSTANTS
    p1 = p1
    p2 = p2
    p3 = p3
    None = None
    Procs <- MCProcs
    DaemonModes <- MCBothModes
    MaxLaunches = 1
INIT Init
NEXT Next
INVARIANT
    MutualExclusion
CHECK_DEADLOCK FALSE
