\* Three instances in the foreground (no daemon(), so no lock dies by fork):
\* the lock is meant to admit one at a time across exits and restarts.
CONSTANTS
    p1 = p1
    p2 = p2
    p3 = p3
    None = None
    Procs <- MCProcs
    DaemonModes <- MCForeground
    MaxLaunches = 1
INIT Init
NEXT Next
INVARIANT
    MutualExclusion
CHECK_DEADLOCK FALSE
