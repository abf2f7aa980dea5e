----------------------------- MODULE LocatorPair -----------------------------
(***************************************************************************)
(* Two locators A and B of one cluster, each linked to the other: A        *)
(* streams its services to B (direction AB) and B streams its services to  *)
(* A (direction BA).  Each direction is an instance of Locator; a locator  *)
(* is the publisher of one and the subscriber of the other.                *)
(*                                                                          *)
(* The two directions share two pieces of code (src/service/locator.cpp):  *)
(*   - drop_node(uuid) on the subscriber erases its m_remotes entry and    *)
(*     also its own m_streams entry for the same peer: the stream of the   *)
(*     other direction;                                                    *)
(*   - on_context_shutdown closes the locator's streams (its publishing    *)
(*     side) and clears m_remotes (its subscribing side), and with         *)
(*     m_cluster gone, cluster discovery no longer calls link_node.        *)
(* Restarts are left to Locator: a restart would reset both directions.    *)
(***************************************************************************)
EXTENDS Naturals

CONSTANTS
    ServicesA, ServicesB,   \* the services each locator's context may expose
    UuidA, UuidB,           \* m_cfg.uuid of A and of B
    SessionsAB, SessionsBA, \* bound on the connections each subscriber opens
    SignalsA, SignalsB,     \* bound on service signals of each context
    FaultsAB, FaultsBA      \* bound on connection errors in each direction

VARIABLES
    \* direction AB: A publishes, B subscribes
    abExposed, abSnapshot, abStream, abCluster, abLuuid, abSess,
    abClient, abActive, abGw, abSignals, abFaults, abRestarts,
    \* direction BA: B publishes, A subscribes
    baExposed, baSnapshot, baStream, baCluster, baLuuid, baSess,
    baClient, baActive, baGw, baSignals, baFaults, baRestarts

abVars == <<abExposed, abSnapshot, abStream, abCluster, abLuuid, abSess,
            abClient, abActive, abGw, abSignals, abFaults, abRestarts>>
baVars == <<baExposed, baSnapshot, baStream, baCluster, baLuuid, baSess,
            baClient, baActive, baGw, baSignals, baFaults, baRestarts>>
vars == <<abVars, baVars>>

AB == INSTANCE Locator
        WITH Services <- ServicesA, Restricted <- {}, MaxSessions <- SessionsAB,
             MaxSignals <- SignalsA, MaxFaults <- FaultsAB, Uuids <- {UuidA},
             LinkUuid <- UuidA, MaxRestarts <- 0,
             exposed <- abExposed, snapshot <- abSnapshot, stream <- abStream,
             cluster <- abCluster, luuid <- abLuuid, sess <- abSess,
             client <- abClient, active <- abActive, gw <- abGw,
             signals <- abSignals, faults <- abFaults, restarts <- abRestarts

BA == INSTANCE Locator
        WITH Services <- ServicesB, Restricted <- {}, MaxSessions <- SessionsBA,
             MaxSignals <- SignalsB, MaxFaults <- FaultsBA, Uuids <- {UuidB},
             LinkUuid <- UuidB, MaxRestarts <- 0,
             exposed <- baExposed, snapshot <- baSnapshot, stream <- baStream,
             cluster <- baCluster, luuid <- baLuuid, sess <- baSess,
             client <- baClient, active <- baActive, gw <- baGw,
             signals <- baSignals, faults <- baFaults, restarts <- baRestarts

NoSession == AB!NoSession

-----------------------------------------------------------------------------
(* Steps of one direction *)

\* drop_node's last line, m_streams->erase(uuid): when a step of one
\* direction drops the node, the subscriber's own stream to that node (the
\* other direction's stream) goes, and nothing is written to it.
EraseStream(client, stream) ==
    IF client # NoSession /\ client' = NoSession
    THEN stream' = NoSession
    ELSE stream' = stream

\* A step of direction AB: B's drop_node(A) also erases B's stream to A.
StepAB(act) ==
    /\ act
    /\ EraseStream(abClient, baStream)
    /\ UNCHANGED <<baExposed, baSnapshot, baCluster, baLuuid, baSess,
                   baClient, baActive, baGw, baSignals, baFaults, baRestarts>>

\* A step of direction BA: A's drop_node(B) also erases A's stream to B.
StepBA(act) ==
    /\ act
    /\ EraseStream(baClient, abStream)
    /\ UNCHANGED <<abExposed, abSnapshot, abCluster, abLuuid, abSess,
                   abClient, abActive, abGw, abSignals, abFaults, abRestarts>>

-----------------------------------------------------------------------------
(* on_context_shutdown of a whole locator *)

\* A shuts down: it closes its streams (AB) and clears m_remotes, which
\* destroys its client for B and the remote_t with it (BA).  No drop_node
\* runs, so nothing else is erased.
ShutdownA ==
    /\ AB!on_context_shutdown
    /\ BA!drop_node
    /\ UNCHANGED <<baExposed, baSnapshot, baStream, baCluster, baLuuid,
                   baSignals, baFaults, baRestarts>>

\* B shuts down.
ShutdownB ==
    /\ BA!on_context_shutdown
    /\ AB!drop_node
    /\ UNCHANGED <<abExposed, abSnapshot, abStream, abCluster, abLuuid,
                   abSignals, abFaults, abRestarts>>

-----------------------------------------------------------------------------

Init == AB!Init /\ BA!Init

\* Cluster discovery of a locator calls link_node only while its m_cluster
\* is set: B links to A while B is up (abCluster is A's, baCluster is B's).
LinkAB == StepAB(baCluster /\ AB!link_node)
LinkBA == StepBA(abCluster /\ BA!link_node)

NextAB ==
    \/ LinkAB
    \/ \E i \in 1..SessionsAB :
          StepAB(AB!Connected(i)) \/ StepAB(AB!ConnectFailed(i)) \/ StepAB(AB!on_connect(i))
    \/ StepAB(AB!Receive)
    \/ StepAB(AB!SessionError)
    \/ \E s \in ServicesA : StepAB(AB!on_service(s))

NextBA ==
    \/ LinkBA
    \/ \E i \in 1..SessionsBA :
          StepBA(BA!Connected(i)) \/ StepBA(BA!ConnectFailed(i)) \/ StepBA(BA!on_connect(i))
    \/ StepBA(BA!Receive)
    \/ StepBA(BA!SessionError)
    \/ \E s \in ServicesB : StepBA(BA!on_service(s))

Next == NextAB \/ NextBA \/ ShutdownA \/ ShutdownB

Spec == Init /\ [][Next]_vars

\* The fairness of Locator, in both directions.
Fairness ==
    /\ WF_vars(LinkAB) /\ WF_vars(LinkBA)
    /\ \A i \in 1..SessionsAB : WF_vars(StepAB(AB!Connected(i))) /\ WF_vars(StepAB(AB!on_connect(i)))
    /\ \A i \in 1..SessionsBA : WF_vars(StepBA(BA!Connected(i))) /\ WF_vars(StepBA(BA!on_connect(i)))
    /\ WF_vars(StepAB(AB!Receive)) /\ WF_vars(StepBA(BA!Receive))

FairSpec == Spec /\ Fairness

-----------------------------------------------------------------------------
(* Properties *)

\* While both locators are up, each eventually holds in its gateway exactly
\* what the other announces, once the faults are over: a failure of one
\* direction is repaired by link_node, and the other direction, whose
\* sessions did not fail, keeps streaming.
PeersEventuallySynced ==
    <>[]((abCluster /\ baCluster) => abGw = abSnapshot /\ baGw = baSnapshot)

=============================================================================
