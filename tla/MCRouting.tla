------------------------------ MODULE MCRouting ------------------------------
(* Two routing groups, two member services, and the refresh requests an     *)
(* operator issues: one group, both groups in either order.                 *)
EXTENDS Routing, TLC

CONSTANTS g1, g2, m1, m2

MCGroups == {g1, g2}
MCValues == {{m1}, {m2}}
MCRequests == {<<g1>>, <<g1, g2>>, <<g2, g1>>}

=============================================================================
