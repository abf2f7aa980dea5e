\* Under fair scheduling and no faults, the gateway is meant to settle on
\* what L announces; two overlapping links leave it stale for good.
CONSTANTS
    s1 = s1
    s2 = s2
    loc = loc
    u1 = u1
    u2 = u2
    Uuids <- MCUuids
    LinkUuid = u1
    Services <- MCServices
    Restricted <- MCRestricted
    MaxSessions = 2
    MaxSignals = 2
    MaxFaults = 0
    MaxRestarts = 0
SPECIFICATION FairSpec
PROPERTY
    EventuallySynced
CHECK_DEADLOCK FALSE
