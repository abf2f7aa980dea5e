----------------------------- MODULE RoutingTable -----------------------------
(***************************************************************************)
(* What locator::refresh promises the clients of locator::resolve, with no *)
(* storage calls, read loop or failure paths: the routing table changes    *)
(* only when a refresh completes, all requested groups in one step, and    *)
(* each requested group then holds an entry that the store held for it at  *)
(* some moment since that refresh began (or none, if the store had none).  *)
(* Groups not requested keep their entries.  A refresh may also abort and  *)
(* change nothing.                                                         *)
(*                                                                          *)
(* Routing implements it: asked is the request of the on_refresh in        *)
(* progress, seen is a history variable of Routing.                        *)
(***************************************************************************)
CONSTANTS
    Groups,   \* routing group names
    Values,   \* continuum definitions
    Absent    \* no entry for the group

Entry == Values \cup {Absent}

VARIABLES
    store,    \* the "groups" collection
    routers,  \* the routing table resolve reads
    asked,    \* the groups the refresh in progress reloads ({} when none)
    seen      \* per group, the entries the store held since that refresh began

vars == <<store, routers, asked, seen>>

\* Values a group's entry may be reloaded to: those seen since the start.
Init ==
    /\ store \in [Groups -> Entry]
    /\ routers = store
    /\ asked = {}
    /\ seen = [g \in Groups |-> {store[g]}]

\* Another client writes one group.
Write(g, e) ==
    /\ store' = [store EXCEPT ![g] = e]
    /\ seen' = [seen EXCEPT ![g] = @ \cup {e}]
    /\ UNCHANGED <<routers, asked>>

\* A refresh of the groups R begins; what the store holds now is seen.
Begin(R) ==
    /\ asked = {}
    /\ asked' = R
    /\ seen' = [g \in Groups |-> {store[g]}]
    /\ UNCHANGED <<store, routers>>

\* The refresh completes: every asked group takes an entry seen since it
\* began, every other group keeps its own.
Reload ==
    /\ asked # {}
    /\ routers' \in [Groups -> Entry]
    /\ \A g \in asked : routers'[g] \in seen[g]
    /\ \A g \in Groups \ asked : routers'[g] = routers[g]
    /\ asked' = {}
    /\ UNCHANGED <<store, seen>>

\* The refresh fails and the table stays as it was.
Abort ==
    /\ asked # {}
    /\ asked' = {}
    /\ UNCHANGED <<store, routers, seen>>

Next ==
    \/ \E g \in Groups, e \in Entry : Write(g, e)
    \/ \E R \in SUBSET Groups \ {{}} : Begin(R)
    \/ Reload
    \/ Abort

Spec == Init /\ [][Next]_vars

=============================================================================
