------------------------------ MODULE Session ------------------------------
(***************************************************************************)
(* The users of PeerConnection on one machine: ControllerSession and       *)
(* ControlledSession (app/session/), and code that drives a PeerConnection *)
(* of its own through its public methods.                                  *)
(*                                                                         *)
(* A session's Initialize makes a new PeerConnection, which destroys, and  *)
(* so disconnects, the one before.  It ends with Connect.  A connection_   *)
(* always has an open socket (SocketsOwned), so Connect always finds it    *)
(* open, returns the error of Open, and never starts the receive thread:   *)
(* peer_connection.cpp:68-80 and 193-206 are never reached.  With them     *)
(* OnRemoteDataChannel is not called either, and ControlledSession's Send  *)
(* functions return at once.                                               *)
(***************************************************************************)
EXTENDS PeerConnection

CONSTANTS
    Controllers, Hosts, Apps,   \* who owns a PeerConnection
    HostPort                    \* local_port of the hosts

ASSUME SessionAssumption ==
    /\ Peers = Controllers \cup Hosts \cup Apps
    /\ Controllers \cap (Hosts \cup Apps) = {}
    /\ Hosts \cap Apps = {}
    /\ HostPort \in Ports

Sessions == Controllers \cup Hosts

\* peer_connection_ = make_unique<PeerConnection>(): what it was is destroyed.
Renewed(p) == [Disconnected(peers[p]) EXCEPT !.added = {}]

\* (Bug: the PeerConnection before is not disconnected.)
Released_Not(p) == net

\* The machine once it is.
Released(p) == Closed(net, peers[p].connection)

\* A controller asks for any port; its remote may not have been configured.
\* Audio and video are optional, the input channel is not.
ControllerInitialize(p) ==
    \/ \E tracks \in SUBSET Tracks, remote \in BOOLEAN :
          /\ Initialized(p, Renewed(p), Released(p),
                         [port |-> 0, remote |-> remote], tracks \cup Channels)
          /\ reported' = [reported EXCEPT ![p] = OpenResult(net', made')]
    \/ InitializeFails(p, Renewed(p), Released(p))

HostInitialize(p) ==
    \/ /\ Initialized(p, Renewed(p), Released(p), [port |-> HostPort, remote |-> FALSE], {})
       /\ reported' = [reported EXCEPT ![p] = OpenResult(net', made')]
    \/ InitializeFails(p, Renewed(p), Released(p))

\* The tracks and the channel go with the session.
Shutdown(p) ==
    /\ peers' = [peers EXCEPT ![p] = NewPeer]
    /\ net' = Released(p)
    /\ reported' = [reported EXCEPT ![p] = "none"]
    /\ reopened' = reopened \ {p}
    /\ UNCHANGED <<made, failures, used>>

\* SetVideoEnabled, SetAudioEnabled.
SetEnabled(p, t) ==
    /\ \E disabled \in {peers[p].disabled \cup {t}, peers[p].disabled \ {t}} :
          peers' = [peers EXCEPT ![p].disabled = disabled]
    /\ UNCHANGED <<net, reported, made, failures, reopened, used>>

-----------------------------------------------------------------------------
(* The methods of PeerConnection, called by an application.                *)

AppInitialize(p) ==
    \/ \E port \in Ports \cup {0}, remote \in BOOLEAN :
          /\ Initialized(p, peers[p], net, [port |-> port, remote |-> remote], {})
          /\ reported' = [reported EXCEPT ![p] = "Ok"]
    \/ InitializeFails(p, peers[p], net)

AppConnect(p) ==
    /\ reported' = [reported EXCEPT
                      ![p] = IF peers[p].connection = 0 THEN "Err"
                             ELSE OpenResult(net, peers[p].connection)]
    /\ UNCHANGED <<peers, net, made, failures, reopened, used>>

AppDisconnect(p) ==
    /\ peers' = [peers EXCEPT ![p] = Disconnected(peers[p])]
    /\ net' = Closed(net, peers[p].connection)
    /\ reopened' = reopened \ {p}
    /\ UNCHANGED <<reported, made, failures, used>>

\* AddTrack, CreateDataChannel: an id that is there already is refused.
AppAdd(p, a) ==
    /\ a \notin peers[p].added
    /\ peers' = [peers EXCEPT ![p] = Added(peers[p], {a})]
    /\ UNCHANGED <<net, reported, made, failures, reopened, used>>

AppRemoveTrack(p, t) ==
    /\ t \in peers[p].added
    /\ peers' = [peers EXCEPT ![p] = Removed(peers[p], t)]
    /\ UNCHANGED <<net, reported, made, failures, reopened, used>>

\* SendFrame of a track, Send of a channel: an enabled one that is attached uses
\* its connection.  Only the harm is recorded: a call on a destroyed object.
Send(p, a) ==
    /\ a \notin peers[p].disabled
    /\ peers[p].bound[a] # 0
    /\ used' = IF peers[p].bound[a] \in Open(net) THEN used ELSE used \cup {p}
    /\ UNCHANGED <<peers, net, reported, made, failures, reopened>>

Next ==
    \/ \E p \in Controllers : ControllerInitialize(p)
    \/ \E p \in Hosts : HostInitialize(p)
    \/ \E p \in Sessions : Shutdown(p)
    \/ \E p \in Controllers, t \in Tracks : SetEnabled(p, t)
    \/ \E p \in Apps : AppInitialize(p) \/ AppConnect(p) \/ AppDisconnect(p)
    \/ \E p \in Apps, a \in Media : AppAdd(p, a)
    \/ \E p \in Apps, t \in Tracks : AppRemoveTrack(p, t)
    \/ \E p \in Controllers \cup Apps, a \in Media : Send(p, a)

Spec == Init /\ [][Next]_vars

-----------------------------------------------------------------------------
TypeOK ==
    /\ peers \in [Peers -> Peer]
    /\ Open(net) \subseteq 1 .. made
    /\ net.sockets \in [Open(net) -> Endpoint]
    /\ net.startups \in Nat
    /\ reported \in [Peers -> {"none", "Ok", "Err"}]
    /\ made \in 0 .. MaxConnections
    /\ failures \in 0 .. MaxFailures
    /\ reopened \subseteq Peers
    /\ used \subseteq Peers

\* Every open socket belongs to exactly one PeerConnection, whose connection_
\* it is: none is left behind by a failed, repeated or abandoned Initialize,
\* and no PeerConnection holds a closed one.
SocketsOwned ==
    /\ Open(net) = {peers[p].connection : p \in Peers} \ {0}
    /\ \A p, q \in Peers :
          p # q /\ peers[p].connection # 0 => peers[p].connection # peers[q].connection

\* In a session the tracks and the channel follow the connection: all of them
\* are attached to the open one, or none is, through every Initialize, failed
\* Initialize and Shutdown.
SessionsAttached ==
    \A p \in Sessions, a \in Media :
        peers[p].bound[a] = IF a \in peers[p].added THEN peers[p].connection ELSE 0

\* A track or channel sends through a destroyed connection only when the owner
\* of the PeerConnection called Initialize on a connected one.
UsedOnlyWhenReopened == [][used' \ used \subseteq reopened]_vars

\* WSAStartup and WSACleanup are balanced, but for one reference that every
\* failed socket() leaves.
StartupsBalanced == net.startups = Cardinality(Open(net)) + failures

\* What the interface says of Open: a connection whose opening was reported as
\* failed is not open.
ErrMeansClosed ==
    \A p \in Peers : reported[p] = "Err" => peers[p].connection \notin Open(net)
=============================================================================
