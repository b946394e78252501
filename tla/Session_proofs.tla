--------------------------- MODULE Session_proofs ---------------------------
(***************************************************************************)
(* Theorems about PeerConnection and its users, for any number of them and *)
(* any sequence of calls.                                                  *)
(***************************************************************************)
EXTENDS Session, FiniteSetTheorems, TLAPS

\* A PeerConnection alone: what is not added points nowhere, and what is added
\* points to connection_ or nowhere, unless connection_ was replaced (loose).
Good(pc, loose) ==
    /\ pc \in Peer
    /\ \A a \in Media : a \notin pc.added => pc.bound[a] = 0
    /\ loose \/ \A a \in Media : pc.bound[a] \in {0, pc.connection}
    /\ pc.connection = 0 => ~loose

\* Sockets, with numbers up to top; lost WSAStartup calls have no WSACleanup.
NetOK(n, top, lost) ==
    /\ Open(n) \subseteq 1 .. top
    /\ n = [sockets |-> n.sockets, startups |-> n.startups]
    /\ n.sockets \in [Open(n) -> Endpoint]
    /\ n.startups \in Nat
    /\ n.startups = Cardinality(Open(n)) + lost

IInv ==
    /\ peers \in [Peers -> Peer]
    /\ \A p \in Peers : Good(peers[p], p \in reopened)
    /\ NetOK(net, made, failures)
    /\ reported \in [Peers -> {"none", "Ok", "Err"}]
    /\ made \in 0 .. MaxConnections
    /\ failures \in 0 .. MaxFailures
    /\ reopened \subseteq Apps
    /\ used \subseteq Peers
    /\ SocketsOwned
    /\ SessionsAttached

-----------------------------------------------------------------------------
(* The operators on a PeerConnection.                                      *)

LEMMA NewPeerGood == NewPeer \in Peer /\ Good(NewPeer, FALSE)
BY DEF NewPeer, Peer, Good, Pointers, Connections

LEMMA DetachedFields ==
    ASSUME NEW pc \in Peer
    PROVE  /\ Detached(pc) \in Peer
           /\ Detached(pc).connection = pc.connection
           /\ Detached(pc).added = pc.added
           /\ Detached(pc).disabled = pc.disabled
           /\ \A a \in Media : Detached(pc).bound[a] =
                                 IF a \in pc.added THEN 0 ELSE pc.bound[a]
BY DEF Detached, Peer, Pointers

\* After Disconnect nothing points anywhere.
LEMMA DisconnectedGood ==
    ASSUME NEW pc, NEW loose, Good(pc, loose)
    PROVE  /\ Good(Disconnected(pc), FALSE)
           /\ Disconnected(pc).connection = 0
           /\ Disconnected(pc).added = pc.added
           /\ \A a \in Media : Disconnected(pc).bound[a] = 0
<1>1. CASE pc.connection = 0
  BY <1>1 DEF Disconnected, Good
<1>2. CASE pc.connection # 0
  <2> DEFINE d == Detached(pc)
  <2>1. /\ d \in Peer
        /\ d.added = pc.added
        /\ \A a \in Media : d.bound[a] = 0
    BY DetachedFields DEF Good
  <2>2. Disconnected(pc) = [d EXCEPT !.connection = 0]
    BY <1>2 DEF Disconnected
  <2> HIDE DEF d
  <2>3. /\ [d EXCEPT !.connection = 0] \in Peer
        /\ [d EXCEPT !.connection = 0].connection = 0
        /\ [d EXCEPT !.connection = 0].added = d.added
        /\ [d EXCEPT !.connection = 0].bound = d.bound
    BY <2>1 DEF Peer, Pointers
  <2> QED BY <2>1, <2>2, <2>3 DEF Good
<1> QED BY <1>1, <1>2

LEMMA AddedFields ==
    ASSUME NEW pc \in Peer, NEW new \in SUBSET Media
    PROVE  /\ Added(pc, new) \in Peer
           /\ Added(pc, new).connection = pc.connection
           /\ Added(pc, new).added = pc.added \cup new
           /\ \A a \in Media : Added(pc, new).bound[a] =
                                 IF a \in new THEN pc.connection ELSE pc.bound[a]
BY DEF Added, Peer, Pointers

LEMMA AddedGood ==
    ASSUME NEW pc, NEW loose, Good(pc, loose), NEW new \in SUBSET Media
    PROVE  Good(Added(pc, new), loose)
BY AddedFields DEF Good

LEMMA WithConnection ==
    ASSUME NEW pc \in Peer, NEW c \in Pointers
    PROVE  /\ [pc EXCEPT !.connection = c] \in Peer
           /\ [pc EXCEPT !.connection = c].connection = c
           /\ [pc EXCEPT !.connection = c].added = pc.added
           /\ [pc EXCEPT !.connection = c].bound = pc.bound
BY DEF Peer

-----------------------------------------------------------------------------
(* The operators on the sockets.                                           *)

LEMMA OpenFinite ==
    ASSUME NEW n, NEW top \in Nat, NEW lost, NetOK(n, top, lost)
    PROVE  IsFiniteSet(Open(n)) /\ Cardinality(Open(n)) \in Nat
<1>1. IsFiniteSet(1 .. top)
  BY FS_Interval
<1>2. IsFiniteSet(Open(n))
  BY <1>1, FS_Subset DEF NetOK
<1> QED BY <1>2, FS_CardinalityType

LEMMA ClosedNet ==
    ASSUME NEW n, NEW top \in Nat, NEW lost \in Nat, NetOK(n, top, lost), NEW c
    PROVE  NetOK(Closed(n, c), top, lost) /\ Open(Closed(n, c)) = Open(n) \ {c}
<1>1. CASE c \in Open(n)
  <2>1. Closed(n, c) = [sockets |-> Restrict(n.sockets, Open(n) \ {c}),
                        startups |-> n.startups - 1]
    BY <1>1 DEF Closed
  <2>2. Open(Closed(n, c)) = Open(n) \ {c}
    BY <2>1 DEF Open, Restrict
  <2>3. Closed(n, c).sockets \in [Open(n) \ {c} -> Endpoint]
    BY <2>1 DEF NetOK, Restrict, Open
  <2>4. Cardinality(Open(n) \ {c}) = Cardinality(Open(n)) - 1
    BY <1>1, OpenFinite, FS_RemoveElement
  <2>5. /\ Closed(n, c).startups = Cardinality(Open(n) \ {c}) + lost
        /\ Closed(n, c).startups \in Nat
    <3>1. Cardinality(Open(n) \ {c}) \in Nat
      BY OpenFinite, FS_RemoveElement, FS_CardinalityType, FS_Subset
    <3>2. n.startups = Cardinality(Open(n)) + lost /\ Cardinality(Open(n)) \in Nat
      BY OpenFinite DEF NetOK
    <3> QED BY <2>1, <2>4, <3>1, <3>2
  <2> QED BY <2>1, <2>2, <2>3, <2>5 DEF NetOK
<1>2. CASE c \notin Open(n)
  <2>1. Closed(n, c) = n
    BY <1>2 DEF Closed
  <2>2. Open(n) \ {c} = Open(n)
    BY <1>2
  <2> QED BY <2>1, <2>2
<1> QED BY <1>1, <1>2

LEMMA OpenedNet ==
    ASSUME NEW n, NEW top \in Nat, NEW lost \in Nat, NetOK(n, top, lost),
           NEW e \in Endpoint, NEW c, c = top + 1
    PROVE  NetOK(Opened(n, c, e), c, lost) /\ Open(Opened(n, c, e)) = Open(n) \cup {c}
<1> DEFINE o == Opened(n, c, e)
<1>1. /\ Open(o) = Open(n) \cup {c}
      /\ o.startups = n.startups + 1
      /\ o = [sockets |-> o.sockets, startups |-> o.startups]
  BY DEF Opened, Open
<1>2. o.sockets \in [Open(o) -> Endpoint]
  BY <1>1 DEF Opened, NetOK
<1>3. c \notin Open(n)
  BY DEF NetOK
<1>4. Cardinality(Open(n) \cup {c}) = Cardinality(Open(n)) + 1
  BY <1>3, OpenFinite, FS_AddElement
<1>5. Open(o) \subseteq 1 .. c
  BY <1>1 DEF NetOK
<1>6. o.startups = Cardinality(Open(o)) + lost /\ o.startups \in Nat
  <2> HIDE DEF o
  <2> QED BY <1>1, <1>4, OpenFinite DEF NetOK
<1> HIDE DEF o
<1>7. NetOK(o, c, lost)
  BY <1>1, <1>2, <1>5, <1>6 DEF NetOK
<1> QED BY <1>1, <1>7 DEF o

-----------------------------------------------------------------------------
(* The invariant.                                                          *)

\* Ownership is kept when p lets go of its connection and its socket, and
\* what it gets instead is a new one, or nothing, or the same again.
LEMMA OwnedStep ==
    ASSUME IInv, NEW p \in Peers, NEW new \in Peer,
           peers' = [peers EXCEPT ![p] = new],
           \/ new.connection \in {0, peers[p].connection}
           \/ new.connection \notin Open(net),
           Open(net)' = (Open(net) \ {peers[p].connection}) \cup ({new.connection} \ {0})
    PROVE  SocketsOwned'
<1>1. \A q \in Peers : peers'[q] = IF q = p THEN new ELSE peers[q]
  BY DEF IInv
<1>2. \A q \in Peers : peers[q].connection # 0 => peers[q].connection \in Open(net)
  BY DEF IInv, SocketsOwned
<1>3. \A q \in Peers : q # p /\ peers[q].connection # 0 =>
         /\ peers[q].connection # peers[p].connection
         /\ peers[q].connection # new.connection
  BY <1>2 DEF IInv, SocketsOwned
<1>4. \A x : x \in Open(net)' <=> x \in {peers'[q].connection : q \in Peers} \ {0}
  <2>1. ASSUME NEW x \in Open(net)'
        PROVE  x # 0 /\ \E q \in Peers : peers'[q].connection = x
    <3>1. CASE x \in {new.connection} \ {0}
      BY <1>1, <3>1
    <3>2. CASE x \in Open(net) /\ x # peers[p].connection
      <4>1. PICK q \in Peers : peers[q].connection = x /\ x # 0
        BY <3>2 DEF IInv, SocketsOwned
      <4> QED BY <1>1, <3>2, <4>1
    <3> QED BY <2>1, <3>1, <3>2
  <2>2. ASSUME NEW q \in Peers, peers'[q].connection # 0
        PROVE  peers'[q].connection \in Open(net)'
    <3>1. CASE q = p
      BY <1>1, <2>2, <3>1
    <3>2. CASE q # p
      BY <1>1, <1>2, <1>3, <2>2, <3>2
    <3> QED BY <3>1, <3>2
  <2> QED BY <2>1, <2>2
<1>5. \A q, r \in Peers : q # r /\ peers'[q].connection # 0 =>
         peers'[q].connection # peers'[r].connection
  <2> SUFFICES ASSUME NEW q \in Peers, NEW r \in Peers, q # r,
                      peers'[q].connection # 0
               PROVE  peers'[q].connection # peers'[r].connection
    OBVIOUS
  <2>1. CASE q = p
    <3>1. CASE peers[r].connection = 0
      BY <1>1, <2>1, <3>1
    <3>2. CASE peers[r].connection # 0
      BY <1>1, <1>3, <2>1, <3>2
    <3> QED BY <3>1, <3>2
  <2>2. CASE r = p
    BY <1>1, <1>3, <2>2
  <2>3. CASE q # p /\ r # p
    BY <1>1, <2>3 DEF IInv, SocketsOwned
  <2> QED BY <2>1, <2>2, <2>3
<1> QED BY <1>4, <1>5 DEF SocketsOwned

LEMMA InitIInv == Init => IInv
<1> SUFFICES ASSUME Init PROVE IInv
  OBVIOUS
<1>1. \A p \in Peers : peers[p] = NewPeer
  BY DEF Init
<1>2. Open(net) = {}
  BY DEF Init, Open
<1>3. NetOK(net, made, failures)
  <2>1. Cardinality(Open(net)) = 0
    BY <1>2, FS_EmptySet
  <2> QED BY <1>2, <2>1 DEF Init, NetOK
<1>4. SocketsOwned
  BY <1>1, <1>2 DEF SocketsOwned, NewPeer
<1>5. SessionsAttached
  BY <1>1, SessionAssumption DEF SessionsAttached, NewPeer, Sessions
<1>7. peers \in [Peers -> Peer]
  BY NewPeerGood DEF Init
<1>8. \A p \in Peers : Good(peers[p], p \in reopened)
  <2>1. \A p \in Peers : p \notin reopened
    BY DEF Init
  <2> QED BY <1>1, <2>1, NewPeerGood DEF Good
<1> QED
  BY <1>3, <1>4, <1>5, <1>7, <1>8, PeerAssumption DEF Init, IInv

\* What all steps that open a connection, or fail to, have in common: the peer
\* they start from is the old one, or the old one disconnected, and the machine
\* goes with it.
Start(p, pc, n) ==
    \/ pc = peers[p] /\ n = net /\ p \notin Sessions
    \/ pc = Renewed(p) /\ n = Released(p) /\ p \in Sessions

LEMMA StartGood ==
    ASSUME IInv, NEW p \in Peers, NEW pc, NEW n, Start(p, pc, n)
    PROVE  /\ pc \in Peer
           /\ Good(pc, p \in reopened)
           /\ NetOK(n, made, failures)
           /\ pc.connection \in {0, peers[p].connection}
           /\ Open(n) = (Open(net) \ {peers[p].connection}) \cup ({pc.connection} \ {0})
           /\ p \in Sessions =>
                 /\ pc.connection = 0 /\ pc.added = {}
                 /\ \A a \in Media : pc.bound[a] = 0
<1>1. /\ Good(peers[p], p \in reopened)
      /\ NetOK(net, made, failures)
      /\ made \in Nat /\ failures \in Nat
      /\ peers[p].connection # 0 => peers[p].connection \in Open(net)
      /\ 0 \notin Open(net)
  BY PeerAssumption DEF IInv, SocketsOwned
<1>2. CASE pc = peers[p] /\ n = net /\ p \notin Sessions
  <2>1. Good(pc, p \in reopened)
    BY <1>1, <1>2 DEF Good
  <2>2. Open(n) = (Open(net) \ {peers[p].connection}) \cup ({pc.connection} \ {0})
    BY <1>1, <1>2
  <2> QED BY <1>1, <1>2, <2>1, <2>2 DEF Good
<1>3. CASE pc = Renewed(p) /\ n = Released(p) /\ p \in Sessions
  <2> DEFINE d == Disconnected(peers[p])
  <2>1. /\ Good(d, FALSE)
        /\ d.connection = 0
        /\ \A a \in Media : d.bound[a] = 0
    BY <1>1, DisconnectedGood
  <2>2. pc = [d EXCEPT !.added = {}]
    BY <1>3 DEF Renewed
  <2> HIDE DEF d
  <2>3. /\ pc \in Peer
        /\ pc.connection = 0
        /\ pc.added = {}
        /\ \A a \in Media : pc.bound[a] = 0
    BY <2>1, <2>2 DEF Good, Peer
  <2>4. Good(pc, p \in reopened)
    BY <1>3, <2>3, SessionAssumption DEF Good, IInv, Sessions
  <2>5. /\ NetOK(n, made, failures)
        /\ Open(n) = Open(net) \ {peers[p].connection}
    BY <1>1, <1>3, ClosedNet DEF Released
  <2> QED BY <2>3, <2>4, <2>5
<1> QED BY <1>2, <1>3 DEF Start

\* A step that changes one PeerConnection and the sockets with it.
LEMMA PeerStep ==
    ASSUME IInv, NEW p \in Peers, NEW new,
           Good(new, p \in reopened'),
           peers' = [peers EXCEPT ![p] = new],
           \/ new.connection \in {0, peers[p].connection}
           \/ new.connection \notin Open(net),
           Open(net)' = (Open(net) \ {peers[p].connection}) \cup ({new.connection} \ {0}),
           NetOK(net', made', failures'),
           p \in Sessions => \A a \in Media :
                new.bound[a] = IF a \in new.added THEN new.connection ELSE 0,
           reported' \in [Peers -> {"none", "Ok", "Err"}],
           made' \in 0 .. MaxConnections,
           failures' \in 0 .. MaxFailures,
           reopened' \subseteq Apps,
           \A q \in Peers \ {p} : q \in reopened' <=> q \in reopened,
           used' \subseteq Peers
    PROVE  IInv'
<1>1. new \in Peer
  BY DEF Good
<1>2. SocketsOwned'
  BY <1>1, OwnedStep
<1>3. \A q \in Peers : peers'[q] = IF q = p THEN new ELSE peers[q]
  BY DEF IInv
<1>4. SessionsAttached'
  BY <1>3 DEF IInv, SessionsAttached, Sessions
<1>5. ASSUME NEW q \in Peers PROVE Good(peers'[q], q \in reopened')
  <2>1. CASE q = p
    BY <1>3, <2>1
  <2>2. CASE q # p
    <3>1. Good(peers[q], q \in reopened)
      BY DEF IInv
    <3>2. peers'[q] = peers[q] /\ (q \in reopened' <=> q \in reopened)
      BY <1>3, <2>2
    <3> QED BY <3>1, <3>2 DEF Good
  <2> QED BY <2>1, <2>2
<1>6. peers' \in [Peers -> Peer]
  BY <1>1 DEF IInv
<1> QED BY <1>2, <1>4, <1>5, <1>6 DEF IInv

\* A new connection is attached to everything that is added with it.
LEMMA InitializedInv ==
    ASSUME IInv, NEW p \in Peers, NEW pc, NEW n, Start(p, pc, n),
           NEW endpoint \in Endpoint, NEW new \in SUBSET Media,
           Initialized(p, pc, n, endpoint, new),
           reported' \in [Peers -> {"none", "Ok", "Err"}]
    PROVE  IInv'
<1> DEFINE c == made + 1
           opened == Opened(n, c, endpoint)
           joined == [pc EXCEPT !.connection = c]
           result == Added(joined, new)
<1>1. /\ made < MaxConnections
      /\ net' = Closed(opened, pc.connection)
      /\ peers' = [peers EXCEPT ![p] = result]
      /\ made' = c
      /\ reopened' = IF pc.connection = 0 THEN reopened ELSE reopened \cup {p}
      /\ failures' = failures /\ used' = used
  BY DEF Initialized
<1>2. made \in Nat /\ failures \in Nat /\ MaxConnections \in Nat /\ c \in Connections
  BY <1>1, PeerAssumption DEF IInv, Connections
<1>3. /\ pc \in Peer
      /\ Good(pc, p \in reopened)
      /\ NetOK(n, made, failures)
      /\ pc.connection \in {0, peers[p].connection}
      /\ Open(n) = (Open(net) \ {peers[p].connection}) \cup ({pc.connection} \ {0})
      /\ p \in Sessions =>
            pc.connection = 0 /\ pc.added = {} /\ \A a \in Media : pc.bound[a] = 0
  BY StartGood
<1>4. NetOK(opened, c, failures) /\ Open(opened) = Open(n) \cup {c}
  <2>1. c = made + 1
    OBVIOUS
  <2>2. made \in Nat /\ failures \in Nat /\ NetOK(n, made, failures)
    BY <1>2, <1>3
  <2> HIDE DEF c
  <2> QED BY <2>1, <2>2, OpenedNet
<1>5. NetOK(net', made', failures') /\ Open(net') = (Open(n) \cup {c}) \ {pc.connection}
  <2>1. c \in Nat
    BY <1>2
  <2>2. made' = c /\ net' = Closed(opened, pc.connection) /\ failures' = failures
    BY <1>1
  <2> HIDE DEF opened, c
  <2>3. /\ NetOK(Closed(opened, pc.connection), c, failures)
        /\ Open(Closed(opened, pc.connection)) = Open(opened) \ {pc.connection}
    BY <1>2, <1>4, <2>1, ClosedNet
  <2> QED BY <1>4, <2>2, <2>3
<1>6. c \notin Open(net) /\ 0 \notin Open(net)
  BY <1>2 DEF IInv, NetOK
<1>7. pc.connection \notin {c} /\ peers[p].connection # c
  BY <1>2, <1>3, <1>6 DEF IInv, SocketsOwned
<1>8. Open(net)' = (Open(net) \ {peers[p].connection}) \cup ({c} \ {0})
  <2>1. Open(net') = (Open(n) \ {pc.connection}) \cup {c}
    BY <1>5, <1>7
  <2>2. Open(n) \ {pc.connection} = Open(net) \ {peers[p].connection}
    BY <1>3, <1>6
  <2>3. Open(net)' = Open(net')
    BY DEF Open
  <2> QED BY <1>2, <2>1, <2>2, <2>3
<1>9. /\ joined \in Peer
      /\ joined.connection = c /\ joined.added = pc.added /\ joined.bound = pc.bound
  BY <1>2, <1>3, WithConnection DEF Pointers
<1>10. /\ result \in Peer
       /\ result.connection = c
       /\ result.added = pc.added \cup new
       /\ \A a \in Media : result.bound[a] = IF a \in new THEN c ELSE pc.bound[a]
  <2> HIDE DEF joined
  <2> QED BY <1>9, AddedFields
<1> HIDE DEF result
<1>11. Good(result, p \in reopened')
  <2>1. CASE pc.connection = 0
    <3>1. \A a \in Media : pc.bound[a] = 0
      BY <1>3, <2>1 DEF Good
    <3>2. \A a \in Media : result.bound[a] \in {0, result.connection}
      BY <1>10, <3>1
    <3> QED BY <1>2, <1>3, <1>10, <3>1, <3>2 DEF Good, Connections
  <2>2. CASE pc.connection # 0
    <3>1. p \in reopened'
      BY <1>1, <2>2
    <3>2. \A a \in Media : a \notin result.added => result.bound[a] = 0
      BY <1>3, <1>10 DEF Good
    <3> QED BY <1>2, <1>10, <3>1, <3>2 DEF Good, Connections
  <2> QED BY <2>1, <2>2
<1>12. p \in Sessions => \A a \in Media :
          result.bound[a] = IF a \in result.added THEN result.connection ELSE 0
  BY <1>3, <1>10
<1>14. reopened' \subseteq Apps /\ \A q \in Peers \ {p} : q \in reopened' <=> q \in reopened
  BY <1>1, <1>3, SessionAssumption DEF IInv, Sessions
<1>15. /\ made' \in 0 .. MaxConnections
       /\ failures' \in 0 .. MaxFailures
       /\ used' \subseteq Peers
  BY <1>1, <1>2 DEF IInv, Connections
<1>16. result.connection \notin Open(net)
  BY <1>6, <1>10
<1>17. Open(net)' = (Open(net) \ {peers[p].connection}) \cup ({result.connection} \ {0})
  BY <1>8, <1>10
<1>18. peers' = [peers EXCEPT ![p] = result]
  BY <1>1
<1> HIDE DEF c
<1> QED BY <1>5, <1>11, <1>12, <1>14, <1>15, <1>16, <1>17, <1>18, PeerStep

LEMMA InitializeFailsInv ==
    ASSUME IInv, NEW p \in Peers, NEW pc, NEW n, Start(p, pc, n),
           InitializeFails(p, pc, n)
    PROVE  IInv'
<1>1. PICK call \in {"WSAStartup", "socket", "bind"} :
         /\ net' = Failed(n, call)
         /\ failures' = IF call = "socket" THEN failures + 1 ELSE failures
  BY DEF InitializeFails
<1>2. /\ peers' = [peers EXCEPT ![p] = pc]
      /\ reported' = [reported EXCEPT ![p] = "Err"]
      /\ failures' <= MaxFailures
      /\ UNCHANGED <<made, reopened, used>>
  BY DEF InitializeFails
<1>3. /\ made \in Nat /\ failures \in Nat /\ MaxFailures \in Nat
  BY PeerAssumption DEF IInv
<1>4. /\ pc \in Peer
      /\ Good(pc, p \in reopened)
      /\ NetOK(n, made, failures)
      /\ pc.connection \in {0, peers[p].connection}
      /\ Open(n) = (Open(net) \ {peers[p].connection}) \cup ({pc.connection} \ {0})
      /\ p \in Sessions =>
            pc.connection = 0 /\ pc.added = {} /\ \A a \in Media : pc.bound[a] = 0
  BY StartGood
<1>5. NetOK(net', made', failures') /\ Open(net') = Open(n)
  <2>1. CASE call = "socket"
    <3>1. /\ net' = [n EXCEPT !.startups = @ + 1]
          /\ failures' = failures + 1
          /\ made' = made
      BY <1>1, <1>2, <2>1 DEF Failed
    <3>2. /\ net'.sockets = n.sockets
          /\ net'.startups = n.startups + 1
          /\ net' = [sockets |-> net'.sockets, startups |-> net'.startups]
      BY <1>4, <3>1 DEF NetOK
    <3>3. Open(net') = Open(n)
      BY <3>2 DEF Open
    <3>4. Cardinality(Open(n)) \in Nat
      BY <1>3, <1>4, OpenFinite
    <3> QED BY <1>3, <1>4, <3>1, <3>2, <3>3, <3>4 DEF NetOK
  <2>2. CASE call # "socket"
    BY <1>1, <1>2, <1>4, <2>2 DEF Failed
  <2> QED BY <2>1, <2>2
<1>6. Open(net)' = (Open(net) \ {peers[p].connection}) \cup ({pc.connection} \ {0})
  BY <1>4, <1>5 DEF Open
<1>7. Good(pc, p \in reopened')
  BY <1>2, <1>4
<1>8. p \in Sessions => \A a \in Media :
         pc.bound[a] = IF a \in pc.added THEN pc.connection ELSE 0
  BY <1>4
<1>9. failures' \in 0 .. MaxFailures
  <2>1. failures' \in Nat
    BY <1>1, <1>3
  <2> QED BY <1>2, <1>3, <2>1
<1>10. /\ reported' \in [Peers -> {"none", "Ok", "Err"}]
       /\ made' \in 0 .. MaxConnections
       /\ reopened' \subseteq Apps
       /\ \A q \in Peers \ {p} : q \in reopened' <=> q \in reopened
       /\ used' \subseteq Peers
  BY <1>2 DEF IInv
<1> QED BY <1>2, <1>4, <1>5, <1>6, <1>7, <1>8, <1>9, <1>10, PeerStep

LEMMA ShutdownInv ==
    ASSUME IInv, NEW p \in Sessions, Shutdown(p)
    PROVE  IInv'
<1>1. p \in Peers /\ p \notin Apps
  BY SessionAssumption DEF Sessions
<1>2. made \in Nat /\ failures \in Nat
  BY PeerAssumption DEF IInv
<1>3. NetOK(net', made', failures') /\ Open(net') = Open(net) \ {peers[p].connection}
  <2>1. NetOK(net, made, failures)
    BY DEF IInv
  <2>2. net' = Closed(net, peers[p].connection) /\ made' = made /\ failures' = failures
    BY DEF Shutdown, Released
  <2> QED BY <1>2, <2>1, <2>2, ClosedNet
<1>4. /\ NewPeer.connection = 0
      /\ \A a \in Media : NewPeer.bound[a] = 0
  BY DEF NewPeer
<1>5. Good(NewPeer, p \in reopened')
  <2>1. p \notin reopened'
    BY DEF Shutdown
  <2> QED BY <2>1, NewPeerGood DEF Good
<1>6. Open(net)' = (Open(net) \ {peers[p].connection}) \cup ({NewPeer.connection} \ {0})
  BY <1>3, <1>4 DEF Open
<1>7. /\ peers' = [peers EXCEPT ![p] = NewPeer]
      /\ reported' \in [Peers -> {"none", "Ok", "Err"}]
      /\ made' \in 0 .. MaxConnections
      /\ failures' \in 0 .. MaxFailures
      /\ reopened' \subseteq Apps
      /\ \A q \in Peers \ {p} : q \in reopened' <=> q \in reopened
      /\ used' \subseteq Peers
  BY DEF Shutdown, IInv
<1> QED BY <1>1, <1>3, <1>4, <1>5, <1>6, <1>7, PeerStep

LEMMA DisconnectInv ==
    ASSUME IInv, NEW p \in Apps, AppDisconnect(p)
    PROVE  IInv'
<1> DEFINE d == Disconnected(peers[p])
<1>1. p \in Peers /\ p \notin Sessions
  BY SessionAssumption DEF Sessions
<1>2. made \in Nat /\ failures \in Nat
  BY PeerAssumption DEF IInv
<1>3. NetOK(net', made', failures') /\ Open(net') = Open(net) \ {peers[p].connection}
  <2>1. NetOK(net, made, failures)
    BY DEF IInv
  <2>2. net' = Closed(net, peers[p].connection) /\ made' = made /\ failures' = failures
    BY DEF AppDisconnect
  <2> QED BY <1>2, <2>1, <2>2, ClosedNet
<1>4. Good(d, FALSE) /\ d.connection = 0
  <2>1. Good(peers[p], p \in reopened)
    BY <1>1 DEF IInv
  <2> QED BY <2>1, DisconnectedGood
<1>5. peers' = [peers EXCEPT ![p] = d]
  BY DEF AppDisconnect
<1> HIDE DEF d
<1>6. Good(d, p \in reopened')
  <2>1. p \notin reopened'
    BY DEF AppDisconnect
  <2> QED BY <1>4, <2>1 DEF Good
<1>7. Open(net)' = (Open(net) \ {peers[p].connection}) \cup ({d.connection} \ {0})
  BY <1>3, <1>4 DEF Open
<1>8. /\ reported' \in [Peers -> {"none", "Ok", "Err"}]
      /\ made' \in 0 .. MaxConnections
      /\ failures' \in 0 .. MaxFailures
      /\ reopened' \subseteq Apps
      /\ \A q \in Peers \ {p} : q \in reopened' <=> q \in reopened
      /\ used' \subseteq Peers
  BY DEF AppDisconnect, IInv
<1> QED BY <1>1, <1>3, <1>4, <1>5, <1>6, <1>7, <1>8, PeerStep

\* The tracks of an application's PeerConnection come and go.
LEMMA AddInv ==
    ASSUME IInv, NEW p \in Apps, NEW a \in Media, AppAdd(p, a)
    PROVE  IInv'
<1> DEFINE new == Added(peers[p], {a})
<1>1. p \in Peers /\ p \notin Sessions
  BY SessionAssumption DEF Sessions
<1>2. /\ Good(peers[p], p \in reopened)
      /\ peers[p] \in Peer
      /\ peers[p].connection # 0 => peers[p].connection \in Open(net)
      /\ 0 \notin Open(net)
  BY <1>1 DEF IInv, SocketsOwned
<1>3. /\ new \in Peer
      /\ new.connection = peers[p].connection
      /\ new.added = peers[p].added \cup {a}
      /\ \A b \in Media : new.bound[b] =
            IF b \in {a} THEN peers[p].connection ELSE peers[p].bound[b]
  BY <1>2, AddedFields
<1>4. peers' = [peers EXCEPT ![p] = new]
  BY DEF AppAdd
<1> HIDE DEF new
<1>5. Good(new, p \in reopened)
  BY <1>2, <1>3 DEF Good
<1>6. UNCHANGED <<net, reported, made, failures, reopened, used>>
  BY DEF AppAdd
<1>7. Open(net)' = (Open(net) \ {peers[p].connection}) \cup ({new.connection} \ {0})
  BY <1>2, <1>3, <1>6 DEF Open
<1>8. Good(new, p \in reopened')
  BY <1>5, <1>6
<1>9. /\ NetOK(net', made', failures')
      /\ reported' \in [Peers -> {"none", "Ok", "Err"}]
      /\ made' \in 0 .. MaxConnections
      /\ failures' \in 0 .. MaxFailures
      /\ reopened' \subseteq Apps
      /\ \A q \in Peers \ {p} : q \in reopened' <=> q \in reopened
      /\ used' \subseteq Peers
  BY <1>6 DEF IInv
<1> QED BY <1>1, <1>3, <1>4, <1>7, <1>8, <1>9, PeerStep

LEMMA RemoveTrackInv ==
    ASSUME IInv, NEW p \in Apps, NEW t \in Tracks, AppRemoveTrack(p, t)
    PROVE  IInv'
<1> DEFINE new == Removed(peers[p], t)
<1>1. p \in Peers /\ p \notin Sessions
  BY SessionAssumption DEF Sessions
<1>2. /\ Good(peers[p], p \in reopened)
      /\ peers[p] \in Peer
      /\ peers[p].connection # 0 => peers[p].connection \in Open(net)
      /\ 0 \notin Open(net)
  BY <1>1 DEF IInv, SocketsOwned
<1>3. peers' = [peers EXCEPT ![p] = new]
  BY DEF AppRemoveTrack
<1>4. /\ new \in Peer
      /\ new.connection = peers[p].connection
      /\ \A b \in Media : new.bound[b] = IF b = t THEN 0 ELSE peers[p].bound[b]
      /\ new.added = peers[p].added \ {t}
  BY <1>2 DEF Removed, Peer, Pointers, Media
<1> HIDE DEF new
<1>5. Good(new, p \in reopened)
  BY <1>2, <1>4 DEF Good
<1>6. UNCHANGED <<net, reported, made, failures, reopened, used>>
  BY DEF AppRemoveTrack
<1>7. Open(net)' = (Open(net) \ {peers[p].connection}) \cup ({new.connection} \ {0})
  BY <1>2, <1>4, <1>6 DEF Open
<1>8. Good(new, p \in reopened')
  BY <1>5, <1>6
<1>9. /\ NetOK(net', made', failures')
      /\ reported' \in [Peers -> {"none", "Ok", "Err"}]
      /\ made' \in 0 .. MaxConnections
      /\ failures' \in 0 .. MaxFailures
      /\ reopened' \subseteq Apps
      /\ \A q \in Peers \ {p} : q \in reopened' <=> q \in reopened
      /\ used' \subseteq Peers
  BY <1>6 DEF IInv
<1> QED BY <1>1, <1>3, <1>4, <1>7, <1>8, <1>9, PeerStep

LEMMA SetEnabledInv ==
    ASSUME IInv, NEW p \in Controllers, NEW t \in Tracks, SetEnabled(p, t)
    PROVE  IInv'
<1>1. p \in Peers /\ p \in Sessions
  BY SessionAssumption DEF Sessions
<1>2. /\ Good(peers[p], p \in reopened)
      /\ peers[p] \in Peer
      /\ peers[p].connection # 0 => peers[p].connection \in Open(net)
      /\ 0 \notin Open(net)
  BY <1>1 DEF IInv, SocketsOwned
<1>3. PICK disabled \in {peers[p].disabled \cup {t}, peers[p].disabled \ {t}} :
         peers' = [peers EXCEPT ![p].disabled = disabled]
  BY DEF SetEnabled
<1> DEFINE new == [peers[p] EXCEPT !.disabled = disabled]
<1>4. peers' = [peers EXCEPT ![p] = new]
  BY <1>3
<1>5. /\ new \in Peer
      /\ new.connection = peers[p].connection
      /\ new.bound = peers[p].bound
      /\ new.added = peers[p].added
  BY <1>2, <1>3 DEF Peer
<1> HIDE DEF new
<1>6. Good(new, p \in reopened)
  BY <1>2, <1>5 DEF Good
<1>7. UNCHANGED <<net, reported, made, failures, reopened, used>>
  BY DEF SetEnabled
<1>8. Open(net)' = (Open(net) \ {peers[p].connection}) \cup ({new.connection} \ {0})
  BY <1>2, <1>5, <1>7 DEF Open
<1>9. p \in Sessions => \A a \in Media :
         new.bound[a] = IF a \in new.added THEN new.connection ELSE 0
  BY <1>1, <1>5 DEF IInv, SessionsAttached
<1>10. Good(new, p \in reopened')
  BY <1>6, <1>7
<1>11. /\ NetOK(net', made', failures')
       /\ reported' \in [Peers -> {"none", "Ok", "Err"}]
       /\ made' \in 0 .. MaxConnections
       /\ failures' \in 0 .. MaxFailures
       /\ reopened' \subseteq Apps
       /\ \A q \in Peers \ {p} : q \in reopened' <=> q \in reopened
       /\ used' \subseteq Peers
  BY <1>7 DEF IInv
<1> QED BY <1>1, <1>4, <1>5, <1>8, <1>9, <1>10, <1>11, PeerStep

\* The other actions leave the PeerConnections and the sockets alone.
LEMMA UnchangedInv ==
    ASSUME IInv, UNCHANGED <<peers, net, made, failures, reopened>>,
           reported' \in [Peers -> {"none", "Ok", "Err"}], used' \subseteq Peers
    PROVE  IInv'
<1>1. SocketsOwned' /\ SessionsAttached'
  BY DEF IInv, SocketsOwned, SessionsAttached, Open
<1>2. \A p \in Peers : Good(peers'[p], p \in reopened')
  BY DEF IInv
<1> QED BY <1>1, <1>2 DEF IInv

LEMMA ResultType == \A n, c : OpenResult(n, c) \in {"none", "Ok", "Err"}
BY DEF OpenResult

LEMMA NextInv == IInv /\ [Next]_vars => IInv'
<1> SUFFICES ASSUME IInv, [Next]_vars PROVE IInv'
  OBVIOUS
<1>1. reported \in [Peers -> {"none", "Ok", "Err"}] /\ used \subseteq Peers
  BY DEF IInv
<1>2. ASSUME NEW p \in Controllers, ControllerInitialize(p) PROVE IInv'
  <2>1. p \in Peers /\ Start(p, Renewed(p), Released(p))
    BY SessionAssumption DEF Sessions, Start
  <2>2. CASE InitializeFails(p, Renewed(p), Released(p))
    BY <2>1, <2>2, InitializeFailsInv
  <2>3. ASSUME NEW tracks \in SUBSET Tracks, NEW remote \in BOOLEAN,
               Initialized(p, Renewed(p), Released(p),
                           [port |-> 0, remote |-> remote], tracks \cup Channels),
               reported' = [reported EXCEPT ![p] = OpenResult(net', made')]
        PROVE  IInv'
    <3>1. [port |-> 0, remote |-> remote] \in Endpoint
      BY DEF Endpoint
    <3>2. tracks \cup Channels \in SUBSET Media
      BY DEF Media
    <3>3. reported' \in [Peers -> {"none", "Ok", "Err"}]
      BY <1>1, <2>3, ResultType
    <3> QED BY <2>1, <2>3, <3>1, <3>2, <3>3, InitializedInv
  <2> QED BY <1>2, <2>2, <2>3 DEF ControllerInitialize
<1>3. ASSUME NEW p \in Hosts, HostInitialize(p) PROVE IInv'
  <2>1. p \in Peers /\ Start(p, Renewed(p), Released(p))
    BY SessionAssumption DEF Sessions, Start
  <2>2. CASE InitializeFails(p, Renewed(p), Released(p))
    BY <2>1, <2>2, InitializeFailsInv
  <2>3. CASE /\ Initialized(p, Renewed(p), Released(p),
                            [port |-> HostPort, remote |-> FALSE], {})
             /\ reported' = [reported EXCEPT ![p] = OpenResult(net', made')]
    <3>1. [port |-> HostPort, remote |-> FALSE] \in Endpoint
      BY SessionAssumption DEF Endpoint
    <3>2. reported' \in [Peers -> {"none", "Ok", "Err"}]
      BY <1>1, <2>3, ResultType
    <3>3. {} \in SUBSET Media
      OBVIOUS
    <3> QED BY <2>1, <2>3, <3>1, <3>2, <3>3, InitializedInv
  <2> QED BY <1>3, <2>2, <2>3 DEF HostInitialize
<1>4. ASSUME NEW p \in Sessions, Shutdown(p) PROVE IInv'
  BY <1>4, ShutdownInv
<1>5. ASSUME NEW p \in Controllers, NEW t \in Tracks, SetEnabled(p, t) PROVE IInv'
  BY <1>5, SetEnabledInv
<1>6. ASSUME NEW p \in Apps, AppInitialize(p) PROVE IInv'
  <2>1. p \in Peers /\ Start(p, peers[p], net)
    BY SessionAssumption DEF Sessions, Start
  <2>2. CASE InitializeFails(p, peers[p], net)
    BY <2>1, <2>2, InitializeFailsInv
  <2>3. ASSUME NEW port \in Ports \cup {0}, NEW remote \in BOOLEAN,
               Initialized(p, peers[p], net, [port |-> port, remote |-> remote], {}),
               reported' = [reported EXCEPT ![p] = "Ok"]
        PROVE  IInv'
    <3>1. [port |-> port, remote |-> remote] \in Endpoint
      BY DEF Endpoint
    <3>2. reported' \in [Peers -> {"none", "Ok", "Err"}]
      BY <1>1, <2>3
    <3>3. {} \in SUBSET Media
      OBVIOUS
    <3> QED BY <2>1, <2>3, <3>1, <3>2, <3>3, InitializedInv
  <2> QED BY <1>6, <2>2, <2>3 DEF AppInitialize
<1>7. ASSUME NEW p \in Apps, AppConnect(p) PROVE IInv'
  <2>1. reported' \in [Peers -> {"none", "Ok", "Err"}]
    BY <1>1, <1>7, ResultType DEF AppConnect
  <2> QED BY <1>1, <1>7, <2>1, UnchangedInv DEF AppConnect
<1>8. ASSUME NEW p \in Apps, AppDisconnect(p) PROVE IInv'
  BY <1>8, DisconnectInv
<1>9. ASSUME NEW p \in Apps, NEW a \in Media, AppAdd(p, a) PROVE IInv'
  BY <1>9, AddInv
<1>10. ASSUME NEW p \in Apps, NEW t \in Tracks, AppRemoveTrack(p, t) PROVE IInv'
  BY <1>10, RemoveTrackInv
<1>11. ASSUME NEW p \in Controllers \cup Apps, NEW a \in Media, Send(p, a) PROVE IInv'
  <2>1. used' \subseteq Peers
    BY <1>1, <1>11, SessionAssumption DEF Send
  <2> QED BY <1>1, <1>11, <2>1, UnchangedInv DEF Send
<1>12. CASE UNCHANGED vars
  BY <1>1, <1>12, UnchangedInv DEF vars
<1> QED
  BY <1>2, <1>3, <1>4, <1>5, <1>6, <1>7, <1>8, <1>9, <1>10, <1>11, <1>12 DEF Next

\* A send finds a destroyed connection only behind a pointer that is loose.
LEMMA NextUsed == IInv /\ [Next]_vars => [used' \ used \subseteq reopened]_vars
<1> SUFFICES ASSUME IInv, Next, NEW p \in used', p \notin used
             PROVE  p \in reopened
  BY DEF vars
<1>1. PICK q \in Controllers \cup Apps, a \in Media : Send(q, a)
  BY DEF Next, ControllerInitialize, HostInitialize, Initialized, InitializeFails,
         Shutdown, SetEnabled, AppInitialize, AppConnect, AppDisconnect, AppAdd,
         AppRemoveTrack
<1>2. p = q /\ peers[q].bound[a] # 0 /\ peers[q].bound[a] \notin Open(net)
  BY <1>1 DEF Send
<1>3. q \in Peers
  BY SessionAssumption
<1>4. peers[q].connection # 0 => peers[q].connection \in Open(net)
  BY <1>3 DEF IInv, SocketsOwned
<1>5. Good(peers[q], q \in reopened)
  BY <1>3 DEF IInv
<1> QED BY <1>1, <1>2, <1>4, <1>5 DEF Good

LEMMA IInvImplies == IInv => TypeOK /\ StartupsBalanced
<1> SUFFICES ASSUME IInv PROVE TypeOK /\ StartupsBalanced
  OBVIOUS
<1>1. reopened \subseteq Peers
  BY SessionAssumption DEF IInv
<1> QED BY <1>1 DEF IInv, NetOK, TypeOK, StartupsBalanced

-----------------------------------------------------------------------------
\* The strengthened invariant holds throughout.
THEOREM IInvCorrect == Spec => []IInv
BY InitIInv, NextInv, PTL DEF Spec

\* Every variable keeps its type, and the sockets are numbered as opened.
THEOREM TypeCorrect == Spec => []TypeOK
BY IInvCorrect, IInvImplies, PTL

\* Exactly the connections that PeerConnections hold have an open socket, and
\* no two hold the same.
THEOREM NoSocketLeaks == Spec => []SocketsOwned
<1>1. IInv => SocketsOwned
  BY DEF IInv
<1> QED BY <1>1, IInvCorrect, PTL

\* A session's tracks and channel are attached to its open connection or to
\* nothing.
THEOREM SessionsStayAttached == Spec => []SessionsAttached
<1>1. IInv => SessionsAttached
  BY DEF IInv
<1> QED BY <1>1, IInvCorrect, PTL

\* WSAStartup and WSACleanup balance but for the failures of socket().
THEOREM StartupsBalance == Spec => []StartupsBalanced
BY IInvCorrect, IInvImplies, PTL

\* No sequence of calls makes a track or channel use a destroyed connection,
\* except after a second Initialize without Disconnect.
THEOREM UsedRarely == Spec => UsedOnlyWhenReopened
BY IInvCorrect, NextUsed, PTL DEF UsedOnlyWhenReopened, Spec
=============================================================================
