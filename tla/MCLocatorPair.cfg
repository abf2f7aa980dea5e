\* Two locators linked both ways under fair scheduling; one connection error
\* on B's session to A, nothing else fails.  Each gateway is meant to settle
\* on what the other locator announces.
CONSTANTS
    sa = sa
    sb = sb
    ua = ua
    ub = ub
    ServicesA <- MCServicesA
    ServicesB <- MCServicesB
    UuidA = ua
    UuidB = ub
    SessionsAB = 1
    SessionsBA = 1
    SignalsA = 0
    SignalsB = 1
    FaultsAB = 1
    FaultsBA = 0
SPECIFICATION FairSpec
PROPERTY
    PeersEventuallySynced
CHECK_DEADLOCK FALSE
