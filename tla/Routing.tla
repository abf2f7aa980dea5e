------------------------------- MODULE Routing -------------------------------
(***************************************************************************)
(* Routing groups of the locator (src/service/locator.cpp): m_routers, the *)
(* table of continuums loaded from the "groups" collection of the core     *)
(* storage by the constructor and reloaded by on_refresh, and the remap    *)
(* of on_resolve through it.                                               *)
(*                                                                          *)
(* on_refresh runs on the locator's reactor, one request at a time, but    *)
(* each storage call it makes (find, then one get per group) is a separate *)
(* read of a store that other clients (the storage service, the admin      *)
(* tools) write concurrently.  So the handler is split at its storage      *)
(* calls: RefreshFind, one RefreshGet per requested group, RefreshApply.   *)
(* No other locator handler touches m_routers in between.                  *)
(***************************************************************************)
EXTENDS Naturals, Sequences, FiniteSets

CONSTANTS
    Groups,      \* routing group names
    Values,      \* continuum definitions (sets of member services)
    Absent,      \* no active entry for the group in the store / table
    Requests,    \* the group vectors a refresh may be called with
    MaxWrites,   \* bound on writes to the store
    MaxFaults    \* bound on storage_error_t thrown by a storage call

ASSUME /\ Absent \notin Values
       /\ Requests \subseteq Seq(Groups)
       /\ MaxWrites \in Nat /\ MaxFaults \in Nat

Entry == Values \cup {Absent}

VARIABLES
    store,     \* "groups" collection: active group -> stored continuum
    routers,   \* m_routers
    phase,     \* "idle" or "get": where the current on_refresh is
    req,       \* its groups argument
    pos,       \* index of the next group its loop reads
    updated,   \* result of storage->find("groups", {"group", "active"})
    values,    \* the local map values built by the read loop
    \* history
    ver,       \* number of writes to each group so far
    ver0,      \* ver when the current refresh called find
    basis,     \* per group, ver0 of the last refresh that reloaded it
    before,    \* m_routers when the current or last refresh began
    outcome,   \* "none", "ok" or "failed": how the last refresh ended
    seen,      \* per group, the entries the store held since the last find
    writes, faults

vars == <<store, routers, phase, req, pos, updated, values,
          ver, ver0, basis, before, outcome, seen, writes, faults>>

\* on_resolve's remap: a group name goes to a member of its continuum
\* (get() or get(seed)); any other name stays as it is.
on_resolve(name) ==
    IF name \in Groups /\ routers[name] # Absent THEN routers[name] ELSE {name}

-----------------------------------------------------------------------------
(* The store, written by others *)

\* A group is created, updated or removed in the "groups" collection.
StoreWrite(g, e) ==
    /\ writes < MaxWrites
    /\ writes' = writes + 1
    /\ store' = [store EXCEPT ![g] = e]
    /\ ver' = [ver EXCEPT ![g] = @ + 1]
    /\ seen' = [seen EXCEPT ![g] = @ \cup {e}]
    /\ UNCHANGED <<routers, phase, req, pos, updated, values, ver0, basis, before, outcome, faults>>

-----------------------------------------------------------------------------
(* on_refresh(groups) *)

\* The catch of storage_error_t: the call fails with routing_storage_error.
Fail ==
    /\ phase' = "idle"
    /\ outcome' = "failed"
    /\ UNCHANGED <<routers, req, pos, updated, values, basis, seen>>

\* A storage call throws.
Fault ==
    /\ faults < MaxFaults
    /\ faults' = faults + 1
    /\ Fail

\* Variant: a find that does not restart the read loop at groups.begin().
RefreshFind_no_restart(r) ==
    /\ phase = "idle"
    /\ before' = routers
    /\ ver0' = ver
    /\ \/ /\ phase' = "get"
          /\ req' = r
          /\ updated' = {g \in Groups : store[g] # Absent}
          /\ values' = [g \in Groups |-> Absent]
          /\ seen' = [g \in Groups |-> {store[g]}]
          /\ UNCHANGED <<routers, pos, basis, outcome, faults>>
       \/ Fault
    /\ UNCHANGED <<store, ver, writes>>

\* Variant: values kept from the last refresh (a member map, not a local).
RefreshFind_keep_values(r) ==
    /\ phase = "idle"
    /\ before' = routers
    /\ ver0' = ver
    /\ \/ /\ phase' = "get"
          /\ req' = r
          /\ pos' = 1
          /\ updated' = {g \in Groups : store[g] # Absent}
          /\ seen' = [g \in Groups |-> {store[g]}]
          /\ UNCHANGED <<routers, values, basis, outcome, faults>>
       \/ Fault
    /\ UNCHANGED <<store, ver, writes>>

\* storage->find for the active groups, or its failure.
RefreshFind(r) ==
    /\ phase = "idle"
    /\ before' = routers
    /\ ver0' = ver
    /\ \/ /\ phase' = "get"
          /\ req' = r
          /\ pos' = 1
          /\ updated' = {g \in Groups : store[g] # Absent}
          /\ values' = [g \in Groups |-> Absent]
          /\ seen' = [g \in Groups |-> {store[g]}]
          /\ UNCHANGED <<routers, basis, outcome, faults>>
       \/ Fault
    /\ UNCHANGED <<store, ver, writes>>

\* Variant: a read loop that installs each group in m_routers as it reads it.
RefreshGet_applying ==
    /\ phase = "get"
    /\ pos <= Len(req)
    /\ LET g == req[pos] IN
       \/ /\ g \notin updated \/ store[g] # Absent
          /\ pos' = pos + 1
          /\ values' = IF g \in updated /\ values[g] = Absent
                       THEN [values EXCEPT ![g] = store[g]] ELSE values
          /\ routers' = [routers EXCEPT ![g] = IF g \in updated THEN store[g] ELSE Absent]
          /\ UNCHANGED <<phase, req, updated, basis, outcome, faults>>
       \/ /\ g \in updated /\ store[g] = Absent
          /\ Fail
          /\ UNCHANGED faults
       \/ /\ g \in updated
          /\ Fault
    /\ UNCHANGED <<store, ver, ver0, before, seen, writes>>

\* One turn of the read loop: a group that find did not list is skipped;
\* otherwise storage->get reads it, throwing when the entry has gone since
\* find or the store fails.  values.insert keeps a value already there.
RefreshGet ==
    /\ phase = "get"
    /\ pos <= Len(req)
    /\ LET g == req[pos] IN
       \/ /\ g \notin updated \/ store[g] # Absent
          /\ pos' = pos + 1
          /\ values' = IF g \in updated /\ values[g] = Absent
                       THEN [values EXCEPT ![g] = store[g]] ELSE values
          /\ UNCHANGED <<routers, phase, req, updated, basis, outcome, faults>>
       \/ /\ g \in updated /\ store[g] = Absent
          /\ Fail
          /\ UNCHANGED faults
       \/ /\ g \in updated
          /\ Fault
    /\ UNCHANGED <<store, ver, ver0, before, seen, writes>>

\* The groups of the request.
Requested == {req[k] : k \in DOMAIN req}

\* Variant: insert without the erase before it (std::map::insert keeps the
\* entry already there).
Install_no_erase(g) == IF routers[g] = Absent THEN values[g] ELSE routers[g]

\* One group of the update loop: erase the old continuum, then insert the
\* one read, if any.
Install(g) == values[g]

\* The update loop under m_routers.synchronize(), once every read succeeded.
RefreshApply ==
    /\ phase = "get"
    /\ pos > Len(req)
    /\ routers' = [g \in Groups |-> IF g \in Requested THEN Install(g) ELSE routers[g]]
    /\ basis' = [g \in Groups |-> IF g \in Requested THEN ver0[g] ELSE basis[g]]
    /\ phase' = "idle"
    /\ outcome' = "ok"
    /\ UNCHANGED <<store, req, pos, updated, values, ver, ver0, before, seen, writes, faults>>

-----------------------------------------------------------------------------

\* The constructor populates m_routers with every active group of the store
\* (a storage_error_t there fails the locator's construction).
Init ==
    /\ store \in [Groups -> Entry]
    /\ routers = store
    /\ phase = "idle"
    /\ req = <<>>
    /\ pos = 1
    /\ updated = {}
    /\ values = [g \in Groups |-> Absent]
    /\ ver = [g \in Groups |-> 0]
    /\ ver0 = ver
    /\ basis = ver
    /\ before = routers
    /\ outcome = "none"
    /\ seen = [g \in Groups |-> {store[g]}]
    /\ writes = 0
    /\ faults = 0

Next ==
    \/ \E g \in Groups, e \in Entry : StoreWrite(g, e)
    \/ \E r \in Requests : RefreshFind(r)
    \/ RefreshGet
    \/ RefreshApply

Spec == Init /\ [][Next]_vars

-----------------------------------------------------------------------------
(* Properties *)

TypeOK ==
    /\ store \in [Groups -> Entry] /\ routers \in [Groups -> Entry]
    /\ phase \in {"idle", "get"} /\ req \in Requests \cup {<<>>}
    /\ pos \in 1..(Len(req) + 1) /\ updated \subseteq Groups
    /\ values \in [Groups -> Entry]
    /\ outcome \in {"none", "ok", "failed"}
    /\ writes \in 0..MaxWrites /\ faults \in 0..MaxFaults

\* A refresh that fails (find or a get throws) leaves the routing table as
\* it was when the refresh began: resolve keeps using the previous snapshot.
FailedRefreshKeepsRouters ==
    outcome = "failed" => routers = before

\* A group not written since the refresh that last reloaded it began
\* resolves to exactly the continuum the store holds for it (or to its own
\* name when the store has no active entry): refresh replaces or removes.
ResolveFollowsStore ==
    \A g \in Groups :
        basis[g] = ver[g] =>
            on_resolve(g) = IF store[g] = Absent THEN {g} ELSE store[g]

\* The refresh refines RoutingTable: m_routers changes only when an
\* on_refresh completes, all its groups at once, and each of them then holds
\* what the store held for it at some moment between the refresh's find and
\* the end of its read loop; groups not requested keep their continuums.
\* This is what the split of on_refresh at its storage calls could break:
\* a value carried over from before the find, or a group changed early.
Table == INSTANCE RoutingTable
            WITH asked <- IF phase = "get" THEN Requested ELSE {}

ImplementsRoutingTable == Table!Spec

=============================================================================
