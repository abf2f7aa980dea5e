------------------------------- MODULE Locator -------------------------------
(***************************************************************************)
(* Locator synchronisation of cocaine-core (src/service/locator.cpp): a    *)
(* publishing locator L that streams its exposed services (m_snapshot,     *)
(* m_streams, on_service, on_connect, on_context_shutdown) to a subscriber *)
(* locator that links to it (link_node, drop_node, m_remotes, remote_t)    *)
(* and feeds what it hears into its gateway (consume / cleanup).           *)
(*                                                                          *)
(* Each TCP connection the subscriber opens to L is a session 1..MaxSessions*)
(* with a FIFO channel from L to the subscriber.  Handlers of one locator  *)
(* run on its reactor one at a time, so each is one atomic action.  The    *)
(* remote_t of a session lives exactly while the subscriber's client for L *)
(* is attached to that session.                                            *)
(***************************************************************************)
EXTENDS Naturals, Sequences, FiniteSets

CONSTANTS
    Services,      \* service names the context of L may expose
    Restricted,    \* m_cfg.restricted of L (it holds the locator's own name)
    MaxSessions,   \* bound on the connections the subscriber opens
    MaxSignals,    \* bound on service signals of L's context
    MaxFaults,     \* bound on connection errors
    Uuids,         \* m_cfg.uuid an incarnation of L may run with
    LinkUuid,      \* the uuid cluster discovery links the subscriber to
    MaxRestarts    \* bound on restarts of L

ASSUME /\ Restricted \subseteq Services
       /\ MaxSessions \in Nat \ {0}
       /\ MaxSignals \in Nat /\ MaxFaults \in Nat
       /\ LinkUuid \in Uuids /\ MaxRestarts \in Nat

Sessions == 1..MaxSessions
NoSession == 0

VARIABLES
    \* L (the publisher)
    exposed,    \* services L's context currently exposes
    snapshot,   \* m_snapshot: names of the services announced to peers
    stream,     \* m_streams[subscriber]: the session its stream writes to
    cluster,    \* m_cluster (and m_signals) non-null: L not shut down
    luuid,      \* m_cfg.uuid of the running incarnation of L
    \* the sessions between the two locators
    sess,       \* per session: state, connect invocation unread by L, channel
    \* the subscriber
    client,     \* m_remotes[L]: the session its client is attached to
    active,     \* remote_t::active of the live remote_t
    gw,         \* gateway entries for L's uuid
    \* bounds
    signals, faults, restarts

vars == <<exposed, snapshot, stream, cluster, luuid, sess, client, active, gw,
          signals, faults, restarts>>

\* A chunk of results::connect (name -> announced?) or the stream's choke.
Chunk(upd) == [kind |-> "chunk", upd |-> upd]
Choke == [kind |-> "choke", upd |-> {}]
Msg == [kind : {"chunk", "choke"}, upd : SUBSET (Services \X BOOLEAN)]

\* node: the uuid of the incarnation of L the session reached; "reset": the
\* session was broken by L's restart and the subscriber has not noticed yet.
SessionState == [state : {"idle", "connecting", "open", "reset", "closed"},
                 node : Uuids, conn : BOOLEAN, chan : Seq(Msg)]

\* Write a message on session i: queued while it is open; on a closed
\* session the upstream throws (the result is FALSE).
Write(i, m) ==
    IF sess[i].state = "open"
    THEN [ok |-> TRUE, sess |-> [sess EXCEPT ![i].chan = Append(@, m)]]
    ELSE [ok |-> FALSE, sess |-> sess]

\* Closing a session loses what it still carries to the subscriber; a connect
\* invocation already written may still be read by L.
Close(s, i) == [s EXCEPT ![i].state = "closed", ![i].chan = <<>>]

\* drop_node / attach / mapping.erase: the client goes, the remote_t of its
\* session is destroyed and ~remote_t cleans up every announced service.
DestroyRemote ==
    /\ gw' = gw \ active
    /\ active' = {}

-----------------------------------------------------------------------------
(* The subscriber *)

\* link_node: no client for L yet, so start an async connect on a new socket.
link_node ==
    /\ client = NoSession
    /\ \E i \in Sessions :
          /\ sess[i].state = "idle"
          /\ \A j \in Sessions : j < i => sess[j].state # "idle"
          /\ sess' = [sess EXCEPT ![i].state = "connecting"]
    /\ UNCHANGED <<exposed, snapshot, stream, cluster, client, active, gw, signals, faults, luuid, restarts>>

\* The async_connect completion: mapping->operator[](uuid) yields the client
\* (an existing one when two links raced), attach adopts the socket, and
\* connect is invoked with a fresh remote_t.
Connected(i) ==
    /\ sess[i].state = "connecting"
    /\ LET s == IF client = NoSession THEN sess ELSE Close(sess, client)
       IN  sess' = [s EXCEPT ![i].state = "open", ![i].node = luuid, ![i].conn = TRUE]
    /\ client' = i
    /\ DestroyRemote
    /\ UNCHANGED <<exposed, snapshot, stream, cluster, signals, faults, luuid, restarts>>

\* The async_connect completion with an error: logged, nothing retried.
ConnectFailed(i) ==
    /\ sess[i].state = "connecting"
    /\ faults < MaxFaults
    /\ faults' = faults + 1
    /\ sess' = [sess EXCEPT ![i].state = "closed"]
    /\ UNCHANGED <<exposed, snapshot, stream, cluster, client, active, gw, signals, luuid, restarts>>

\* Variant: drop_node that closes the session but keeps the mapping entry.
drop_node_keeps_client ==
    /\ client' = client
    /\ sess' = IF client = NoSession THEN sess ELSE Close(sess, client)
    /\ DestroyRemote

\* drop_node(L) on the subscriber.
drop_node ==
    /\ client' = NoSession
    /\ sess' = IF client = NoSession THEN sess ELSE Close(sess, client)
    /\ DestroyRemote

\* Variant: on_announce without the node id check.
node_matches_unchecked(i) == TRUE

\* on_announce's check that the chunk's node is the remote_t's uuid.
node_matches(i) == sess[i].node = LinkUuid

\* remote_t::on_announce: consume announced services, clean up withdrawn ones.
on_announce(upd) ==
    /\ gw' = (gw \ {x[1] : x \in {y \in upd : ~y[2]}}) \cup {x[1] : x \in {y \in upd : y[2]}}
    /\ active' = (active \ {x[1] : x \in {y \in upd : ~y[2]}}) \cup {x[1] : x \in {y \in upd : y[2]}}
    /\ sess' = [sess EXCEPT ![client].chan = Tail(@)]
    /\ client' = client

\* The client's session delivers the next message to its remote_t: a chunk
\* (on_announce, which drops the node when the chunk names another node than
\* the remote_t's uuid) or the choke (on_shutdown, which drops the node).
\* Every chunk carries the m_cfg.uuid of the incarnation that wrote it.
Receive ==
    /\ client # NoSession
    /\ sess[client].chan # <<>>
    /\ LET m == Head(sess[client].chan)
       IN  IF m.kind = "chunk" /\ node_matches(client)
           THEN on_announce(m.upd) ELSE drop_node
    /\ UNCHANGED <<exposed, snapshot, stream, cluster, signals, faults, luuid, restarts>>

\* The client's session fails: remote_t::discard with an error drops the node.
SessionError ==
    /\ client # NoSession
    /\ faults < MaxFaults
    /\ faults' = faults + 1
    /\ drop_node
    /\ UNCHANGED <<exposed, snapshot, stream, cluster, signals, luuid, restarts>>

\* The client's session was reset by L's restart: the upstream reports the
\* error to remote_t::discard, which drops the node.
PeerReset ==
    /\ client # NoSession
    /\ sess[client].state = "reset"
    /\ drop_node
    /\ UNCHANGED <<exposed, snapshot, stream, cluster, signals, faults, luuid, restarts>>

-----------------------------------------------------------------------------
(* L, the publisher *)

\* Variant: on_connect that registers the stream without writing the snapshot.
on_connect_no_snapshot(i) ==
    /\ sess[i].conn
    /\ LET s == [sess EXCEPT ![i].conn = FALSE]
       IN  IF ~cluster
           THEN /\ sess' = IF s[i].state = "open" THEN [s EXCEPT ![i].chan = Append(@, Choke)] ELSE s
                /\ UNCHANGED stream
           ELSE /\ stream' = i
                /\ sess' = s
    /\ UNCHANGED <<exposed, snapshot, cluster, client, active, gw, signals, faults, luuid, restarts>>

\* on_connect on session i: with no cluster the stream is closed at once;
\* otherwise it replaces any stream for the subscriber and the snapshot is
\* written to it when non-empty (a throwing write leaves it in m_streams).
on_connect(i) ==
    /\ sess[i].conn
    /\ LET s == [sess EXCEPT ![i].conn = FALSE]
           w(m) == IF s[i].state = "open" THEN [s EXCEPT ![i].chan = Append(@, m)] ELSE s
       IN  IF ~cluster
           THEN /\ sess' = w(Choke)
                /\ UNCHANGED stream
           ELSE /\ stream' = i
                /\ sess' = IF snapshot = {} THEN s ELSE w(Chunk(snapshot \X {TRUE}))
    /\ UNCHANGED <<exposed, snapshot, cluster, client, active, gw, signals, faults, luuid, restarts>>

\* Variant: on_service without the m_cfg.restricted check.
on_service_unrestricted(name) ==
    /\ cluster
    /\ signals < MaxSignals
    /\ signals' = signals + 1
    /\ LET act == name \notin exposed
           w == Write(stream, Chunk({<<name, act>>}))
       IN  /\ exposed' = IF act THEN exposed \cup {name} ELSE exposed \ {name}
           /\ snapshot' = IF act THEN snapshot \cup {name} ELSE snapshot \ {name}
           /\ IF stream = NoSession THEN UNCHANGED <<stream, sess>>
              ELSE /\ sess' = w.sess
                   /\ stream' = IF w.ok THEN stream ELSE NoSession
    /\ UNCHANGED <<cluster, client, active, gw, faults, luuid, restarts>>

\* A service of L's context is exposed or removed (the context signals);
\* on_service writes it to the stream, evicting the stream if the write
\* throws, then records it in m_snapshot.  Restricted names are skipped.
on_service(name) ==
    /\ cluster
    /\ signals < MaxSignals
    /\ signals' = signals + 1
    /\ LET act == name \notin exposed
           w == Write(stream, Chunk({<<name, act>>}))
       IN  /\ exposed' = IF act THEN exposed \cup {name} ELSE exposed \ {name}
           /\ IF name \in Restricted
              THEN UNCHANGED <<snapshot, stream, sess>>
              ELSE /\ snapshot' = IF act THEN snapshot \cup {name} ELSE snapshot \ {name}
                   /\ IF stream = NoSession THEN UNCHANGED <<stream, sess>>
                      ELSE /\ sess' = w.sess
                           /\ stream' = IF w.ok THEN stream ELSE NoSession
    /\ UNCHANGED <<cluster, client, active, gw, faults, luuid, restarts>>

\* on_context_shutdown: close and forget every stream, release the cluster
\* and the signal slot.
on_context_shutdown ==
    /\ cluster
    /\ cluster' = FALSE
    /\ stream' = NoSession
    /\ sess' = IF stream = NoSession THEN sess ELSE Write(stream, Choke).sess
    /\ UNCHANGED <<exposed, snapshot, client, active, gw, signals, faults, luuid, restarts>>

\* L's process restarts: its open sessions are reset and lose what they
\* carry, unread connect invocations die with the old process, and the new
\* locator starts with no streams and an empty snapshot while its context
\* exposes its services again.  Its m_cfg.uuid is the configured "uuid", or
\* a fresh unique_id_t when none is configured.
Restart ==
    /\ restarts < MaxRestarts
    /\ restarts' = restarts + 1
    /\ luuid' \in Uuids
    /\ sess' = [i \in Sessions |->
                  [sess[i] EXCEPT !.state = IF @ = "open" THEN "reset" ELSE @,
                                  !.conn = FALSE,
                                  !.chan = <<>>]]
    /\ exposed' = {}
    /\ snapshot' = {}
    /\ stream' = NoSession
    /\ cluster' = TRUE
    /\ UNCHANGED <<client, active, gw, signals, faults>>

-----------------------------------------------------------------------------

Init ==
    /\ exposed = {}
    /\ snapshot = {}
    /\ stream = NoSession
    /\ cluster = TRUE
    /\ luuid = LinkUuid
    /\ sess = [i \in Sessions |-> [state |-> "idle", node |-> LinkUuid, conn |-> FALSE, chan |-> <<>>]]
    /\ client = NoSession
    /\ active = {}
    /\ gw = {}
    /\ signals = 0
    /\ faults = 0
    /\ restarts = 0

Next ==
    \/ link_node
    \/ \E i \in Sessions : Connected(i) \/ ConnectFailed(i) \/ on_connect(i)
    \/ Receive
    \/ SessionError
    \/ PeerReset
    \/ \E name \in Services : on_service(name)
    \/ on_context_shutdown
    \/ Restart

Spec == Init /\ [][Next]_vars

\* The reactors run every ready completion handler, and cluster discovery
\* calls link_node again on every announce it receives while no client
\* for L exists.
Fairness ==
    /\ WF_vars(link_node)
    /\ \A i \in Sessions : WF_vars(Connected(i)) /\ WF_vars(on_connect(i))
    /\ WF_vars(Receive)
    /\ WF_vars(PeerReset)

FairSpec == Spec /\ Fairness

-----------------------------------------------------------------------------
(* Properties *)

TypeOK ==
    /\ exposed \subseteq Services /\ snapshot \subseteq Services
    /\ stream \in Sessions \cup {NoSession} /\ cluster \in BOOLEAN
    /\ luuid \in Uuids
    /\ sess \in [Sessions -> SessionState]
    /\ client \in {NoSession} \cup {i \in Sessions : sess[i].state \in {"open", "reset"}}
    /\ active \subseteq Services /\ gw \subseteq Services
    /\ signals \in 0..MaxSignals /\ faults \in 0..MaxFaults
    /\ restarts \in 0..MaxRestarts

\* A restricted service of L never reaches the subscriber's gateway: on_service
\* skips it, and on_connect's snapshot never holds it.
NoRestrictedExport == gw \cap Restricted = {}

\* Once the stream of the subscriber's current session has delivered all it
\* carries, the gateway holds exactly L's m_snapshot: on_connect's snapshot
\* write, the ordered on_service updates, and the ~remote_t cleanups of the
\* sessions before it add up to L's state.
InSync ==
    (client # NoSession /\ ~sess[client].conn /\ stream = client
        /\ sess[client].chan = <<>>) => gw = snapshot

\* The gateway never holds services under LinkUuid while the subscriber's
\* client is attached to a session that reached an incarnation of L with
\* another uuid: on_announce's id check drops such a node before it
\* consumes anything, and the attach cleaned up what the previous remote_t
\* had announced.
NoForeignEntries ==
    (client # NoSession /\ sess[client].node # LinkUuid) => gw = {}

\* Once faults and restarts are over, the subscriber ends up holding exactly
\* what a running L announces: the sessions link_node opens, L's on_connect
\* and the stream's updates bring the gateway to m_snapshot and keep it there.
EventuallySynced == <>[](cluster => gw = snapshot)

=============================================================================
