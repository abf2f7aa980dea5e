------------------------------ MODULE MCLocator ------------------------------
EXTENDS Locator, TLC

CONSTANTS s1, s2, loc, u1, u2

MCServices == {s1, s2, loc}
MCRestricted == {loc}
MCUuids == {u1, u2}
MCSymmetry == Permutations({s1, s2})
=============================================================================
