---------------------------- MODULE MCLocatorPair ----------------------------
EXTENDS LocatorPair, TLC

CONSTANTS sa, sb, ua, ub

MCServicesA == {sa}
MCServicesB == {sb}
=============================================================================
