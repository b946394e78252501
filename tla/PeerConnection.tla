--------------------------- MODULE PeerConnection ---------------------------
(***************************************************************************)
(* PeerConnection (transport/peer_connection.cpp), the DirectConnection    *)
(* and UdpSocket it owns (network/connection/direct_connection.cpp,        *)
(* network/io/udp_socket.cpp), and the tracks and channels that keep a raw *)
(* pointer to the connection (RTPSender in a track, ReliableTransport in a *)
(* channel).                                                               *)
(*                                                                         *)
(* A DirectConnection is known by the order in which it was opened; 0 is   *)
(* the null pointer.  A connection that failed to open is destroyed at     *)
(* once, so the connections that exist are the ones with an open socket.   *)
(* For a track or channel, bound is the pointer its sender or transport    *)
(* holds, 0 when it has none; a channel is kOpen exactly when it has one.  *)
(* The calls on one PeerConnection come from one thread, as nothing in the *)
(* class is locked.  Statistics and RTP sequence numbers are left out.     *)
(***************************************************************************)
EXTENDS Integers, FiniteSets, Functions

CONSTANTS
    Peers,              \* the owners of a PeerConnection
    Tracks,             \* track ids
    Channels,           \* data channel labels
    Ports,              \* local ports in use; 0 asks for any free one
    MaxConnections,     \* bound: connections opened in a behaviour
    MaxFailures         \* bound: failures of socket()

Media == Tracks \cup Channels

ASSUME PeerAssumption ==
    /\ Tracks \cap Channels = {}
    /\ Ports \subseteq Nat \ {0}
    /\ MaxConnections \in Nat
    /\ MaxFailures \in Nat

VARIABLES
    peers,      \* per owner: connection_, tracks_ and data_channels_, pointers
    net,        \* open sockets and WSAStartup calls without their WSACleanup
    reported,   \* result of the owner's last Initialize or Connect
    \* history
    made,       \* connections opened so far
    failures,   \* calls of socket() that failed
    reopened,   \* owners that replaced a connection without Disconnect
    used        \* owners that sent through a destroyed connection

vars == <<peers, net, reported, made, failures, reopened, used>>

Connections == 1 .. MaxConnections
Pointers == Connections \cup {0}

Peer == [connection : Pointers,
         added : SUBSET Media,
         bound : [Media -> Pointers],
         disabled : SUBSET Tracks]

NewPeer == [connection |-> 0,
            added |-> {},
            bound |-> [a \in Media |-> 0],
            disabled |-> {}]

Endpoint == [port : Ports \cup {0}, remote : BOOLEAN]

Init ==
    /\ peers = [p \in Peers |-> NewPeer]
    /\ net = [sockets |-> << >>, startups |-> 0]
    /\ reported = [p \in Peers |-> "none"]
    /\ made = 0
    /\ failures = 0
    /\ reopened = {}
    /\ used = {}

Open(n) == DOMAIN n.sockets

-----------------------------------------------------------------------------
(* The sockets: what UdpSocket does to the machine.                        *)

\* Close gives its WSAStartup back; it does nothing on a closed socket.
Closed(n, c) ==
    IF c \in Open(n)
    THEN [sockets |-> Restrict(n.sockets, Open(n) \ {c}), startups |-> n.startups - 1]
    ELSE n

Opened(n, c, endpoint) ==
    [sockets |-> [d \in Open(n) \cup {c} |-> IF d = c THEN endpoint ELSE n.sockets[d]],
     startups |-> n.startups + 1]

\* bind fails on a port that another socket of the machine is bound to.
PortFree(n, port) == port = 0 \/ \A c \in Open(n) : n.sockets[c].port # port

\* (Bug: the WSAStartup before a failed bind is kept.)
Failed_NoCleanup(n, call) ==
    IF call \in {"socket", "bind"} THEN [n EXCEPT !.startups = @ + 1] ELSE n

\* Open that fails in the given call: after a failed bind it closes the socket;
\* after a failed socket() there is nothing Close would close, and the
\* WSAStartup stays.
Failed(n, call) == IF call = "socket" THEN [n EXCEPT !.startups = @ + 1] ELSE n

-----------------------------------------------------------------------------
(* What the calls do to a PeerConnection, as functions of its state.       *)

\* (Bug: Disconnect leaves the tracks and channels alone.)
Detached_Kept(pc) == pc

Detached(pc) ==
    [pc EXCEPT !.bound = [a \in Media |-> IF a \in pc.added THEN 0 ELSE pc.bound[a]]]

Disconnected(pc) ==
    IF pc.connection = 0 THEN pc ELSE [Detached(pc) EXCEPT !.connection = 0]

\* (Bug: what is added to a connected peer is not attached.)
Added_Unattached(pc, new) ==
    [pc EXCEPT !.added = @ \cup new, !.disabled = @ \ new]

\* AddTrack and CreateDataChannel: what is added to a connected peer gets its
\* connection at once.  A new track is enabled.
Added(pc, new) ==
    [pc EXCEPT !.added = @ \cup new,
               !.bound = [a \in Media |-> IF a \in new THEN pc.connection
                                                       ELSE pc.bound[a]],
               !.disabled = @ \ new]

\* RemoveTrack.
Removed(pc, t) == [pc EXCEPT !.added = @ \ {t}, !.bound = [@ EXCEPT ![t] = 0]]

\* What Open reports for a connection that exists: it is Initialize over again,
\* and Initialize refuses when the socket is open.
OpenResult(n, c) == IF c \in Open(n) THEN "Err" ELSE "Ok"

\* PeerConnection::Initialize in direct mode for p, whose state was made pc and
\* whose machine n by what the caller did before.  The old connection_, if there
\* is one, is destroyed after the new one is open: its tracks and channels are
\* not told.  What the caller adds next is new.
Initialized(p, pc, n, endpoint, new) ==
    LET c == made + 1
    IN  /\ made < MaxConnections
        /\ PortFree(n, endpoint.port)
        /\ net' = Closed(Opened(n, c, endpoint), pc.connection)
        /\ peers' = [peers EXCEPT ![p] = Added([pc EXCEPT !.connection = c], new)]
        /\ made' = c
        /\ reopened' = IF pc.connection = 0 THEN reopened ELSE reopened \cup {p}
        /\ UNCHANGED <<failures, used>>

\* A mode other than kDirect fails like WSAStartup: nothing was done yet.
InitializeFails(p, pc, n) ==
    \E call \in {"WSAStartup", "socket", "bind"} :
        /\ net' = Failed(n, call)
        /\ peers' = [peers EXCEPT ![p] = pc]
        /\ reported' = [reported EXCEPT ![p] = "Err"]
        /\ failures' = IF call = "socket" THEN failures + 1 ELSE failures
        /\ failures' <= MaxFailures
        /\ UNCHANGED <<made, reopened, used>>
=============================================================================
