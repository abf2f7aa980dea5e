\* on_refresh against a concurrently written store: two groups, four writes
\* (a group written twice within one refresh), two storage failures.
CONSTANTS
    g1 = g1
    g2 = g2
    m1 = m1
    m2 = m2
    Absent = Absent
    Groups <- MCGroups
    Values <- MCValues
    Requests <- MCRequests
    MaxWrites = 4
    MaxFaults = 2
INIT Init
NEXT Next
INVARIANTS
    TypeOK
    FailedRefreshKeepsRouters
    ResolveFollowsStore
PROPERTY
    ImplementsRoutingTable
CHECK_DEADLOCK FALSE
