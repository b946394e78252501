----------------------------- MODULE Handshake -----------------------------
(***************************************************************************)
(* HandshakeManager (network/protocol/handshake.{h,cpp}): the controller   *)
(* sends one Handshake request with a session id and its SSRC, the         *)
(* controlled host answers with one HandshakeAck, and both sides learn the *)
(* SSRC of the other.  Nothing is retransmitted: a manager that fails is   *)
(* replaced by a new one, on the same socket, with a new session id.       *)
(*                                                                         *)
(* A manager is identified with its SSRC.  Its operations are public and   *)
(* not synchronised: one thread uses it, and for one side only.  UDP may   *)
(* lose, duplicate, delay and reorder: a datagram, once sent, may be read  *)
(* by any manager of the other side at any later moments, or never.        *)
(***************************************************************************)
EXTENDS Naturals, FiniteSets

CONSTANTS
    Controllers,    \* managers of the controller, which initiate
    Hosts,          \* managers of the controlled host, which wait for a request
    SessionIds,     \* uint32_t, drawn at random for every attempt
    None            \* 0: session_id_ and remote_ssrc_ before they are known

ASSUME ManagersAssumption ==
    /\ Controllers \cap Hosts = {}
    /\ None \notin Controllers \cup Hosts \cup SessionIds

Managers == Controllers \cup Hosts

States == {"kIdle", "kRequestSent", "kCompleted", "kFailed"}

VARIABLES
    state,          \* state_
    session_id,     \* session_id_
    remote_ssrc,    \* remote_ssrc_
    requests,       \* Handshake datagrams sent: [session_id, ssrc]
    responses,      \* HandshakeAck datagrams sent: [session_id, ssrc]
    directly        \* history: the requests the application had a host manager
                    \* answer by calling SendHandshakeResponse itself

handshakeVars == <<state, session_id, remote_ssrc, requests, responses, directly>>

Payload(from) == [session_id : SessionIds, ssrc : from]

HandshakeInit ==
    /\ state = [m \in Managers |-> "kIdle"]
    /\ session_id = [m \in Managers |-> None]
    /\ remote_ssrc = [m \in Managers |-> None]
    /\ requests = {}
    /\ responses = {}
    /\ directly = [h \in Hosts |-> {}]

\* Random ids of 32 bits: no two attempts draw the same one.
Unused == {s \in SessionIds : \A c \in Controllers : session_id[c] # s}

-----------------------------------------------------------------------------
(* The controller.                                                         *)

\* The session id is stored before the send that may fail.
InitiateHandshake(c) ==
    /\ state[c] = "kIdle"
    /\ \E s \in Unused :
          /\ session_id' = [session_id EXCEPT ![c] = s]
          /\ \/ /\ requests' = requests \cup {[session_id |-> s, ssrc |-> c]}
                /\ state' = [state EXCEPT ![c] = "kRequestSent"]
             \/ /\ state' = [state EXCEPT ![c] = "kFailed"]
                /\ UNCHANGED requests
    /\ UNCHANGED <<remote_ssrc, responses, directly>>

\* (Bug: the session id of the answer is not compared.)
Accepts_AnySession(c, ack) == TRUE

Accepts(c, ack) == ack.session_id = session_id[c]

\* One packet is read.  A timeout, a packet that is not a control packet, not
\* a HandshakeAck or not readable, and an answer to another session all fail
\* the handshake for good.
WaitForHandshakeResponse(c) ==
    /\ state[c] = "kRequestSent"
    /\ \/ \E ack \in responses :
             /\ Accepts(c, ack)
             /\ remote_ssrc' = [remote_ssrc EXCEPT ![c] = ack.ssrc]
             /\ state' = [state EXCEPT ![c] = "kCompleted"]
       \/ /\ state' = [state EXCEPT ![c] = "kFailed"]
          /\ UNCHANGED remote_ssrc
    /\ UNCHANGED <<session_id, requests, responses, directly>>

-----------------------------------------------------------------------------
(* The controlled host.                                                    *)

Answer(h, req) ==
    responses' = responses \cup {[session_id |-> req.session_id, ssrc |-> h]}

\* (Bug: the two 32-bit arguments of SendHandshakeResponse are swapped.)
Learn_Swapped(h, req) ==
    /\ session_id' = [session_id EXCEPT ![h] = req.ssrc]
    /\ remote_ssrc' = [remote_ssrc EXCEPT ![h] = req.session_id]

Learn(h, req) ==
    /\ session_id' = [session_id EXCEPT ![h] = req.session_id]
    /\ remote_ssrc' = [remote_ssrc EXCEPT ![h] = req.ssrc]

\* What the request says is stored before the send that may fail.
Respond(h, req) ==
    /\ Learn(h, req)
    /\ \/ /\ Answer(h, req)
          /\ state' = [state EXCEPT ![h] = "kCompleted"]
       \/ /\ state' = [state EXCEPT ![h] = "kFailed"]
          /\ UNCHANGED responses
    /\ UNCHANGED requests

\* The public call, with the ids of a request that was sent: to repeat an
\* answer that was lost, or to answer another controller.  No state forbids it.
SendHandshakeResponse(h) ==
    \E req \in requests :
        /\ Respond(h, req)
        /\ directly' = [directly EXCEPT ![h] = @ \cup {req}]

\* (Bug: a manager that completed keeps answering requests.)
Waiting_Always(h) == state[h] # "kFailed"

Waiting(h) == state[h] = "kIdle"

\* One packet is read; anything but a readable request leaves the manager idle
\* and unchanged, to be called again: no step.
WaitForHandshakeRequest(h) ==
    /\ Waiting(h)
    /\ \E req \in requests : Respond(h, req)
    /\ UNCHANGED directly

HandshakeNext ==
    \/ \E c \in Controllers : InitiateHandshake(c) \/ WaitForHandshakeResponse(c)
    \/ \E h \in Hosts : WaitForHandshakeRequest(h) \/ SendHandshakeResponse(h)

HandshakeSpec == HandshakeInit /\ [][HandshakeNext]_handshakeVars

-----------------------------------------------------------------------------
HandshakeTypeOK ==
    /\ state \in [Managers -> States]
    /\ session_id \in [Managers -> SessionIds \cup {None}]
    /\ remote_ssrc \in [Managers -> Managers \cup {None}]
    /\ requests \subseteq Payload(Controllers)
    /\ responses \subseteq Payload(Hosts)
    /\ directly \in [Hosts -> SUBSET Payload(Controllers)]

\* The request of a controller's attempt.
Request(c) == [session_id |-> session_id[c], ssrc |-> c]

\* A controller that completed agrees with a host manager on the session, and
\* each on the SSRC of the other, until the application itself has that
\* manager answer another request; and the manager completed, unless the
\* application had it answer again, which may fail.  Late, duplicated or
\* misdirected datagrams of earlier attempts cannot complete a handshake.
Agreement ==
    \A c \in Controllers : state[c] = "kCompleted" =>
        \E h \in Hosts :
            /\ remote_ssrc[c] = h
            /\ directly[h] \subseteq {Request(c)} =>
                  remote_ssrc[h] = c /\ session_id[h] = session_id[c]
            /\ directly[h] = {} => state[h] = "kCompleted"

\* WaitForHandshakeRequest makes a host manager serve one controller attempt
\* at most: two complete with it only after a direct SendHandshakeResponse.
HostServesOne ==
    \A c, d \in Controllers :
        (state[c] = "kCompleted" /\ state[d] = "kCompleted"
            /\ remote_ssrc[c] = remote_ssrc[d] /\ directly[remote_ssrc[c]] = {}) => c = d

\* A host manager that answered knows the controller attempt that asked, even
\* when that attempt has failed since.
HostKnowsPeer ==
    \A h \in Hosts : state[h] = "kCompleted" =>
        /\ remote_ssrc[h] \in Controllers
        /\ session_id[remote_ssrc[h]] = session_id[h]
        /\ state[remote_ssrc[h]] # "kIdle"
=============================================================================
