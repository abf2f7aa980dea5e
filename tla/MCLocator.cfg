\* Gateway synchronisation with a publishing locator: relinks, session
\* errors, two restarts of L (so L can come back under its first uuid after
\* a session reached the second), restricted names and shutdown.
CONSTANTS
    s1 = s1
    s2 = s2
    loc = loc
    u1 = u1
    u2 = u2
    Uuids <- MCUuids
    LinkUuid = u1
    Services <- MCServices
    Restricted <- MCRestricted
    MaxSessions = 3
    MaxSignals = 4
    MaxFaults = 2
    MaxRestarts = 2
INIT Init
NEXT Next
INVARIANTS
    TypeOK
    NoRestrictedExport
    InSync
    NoForeignEntries
SYMMETRY MCSymmetry
CHECK_DEADLOCK FALSE
