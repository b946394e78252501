----------------------------- MODULE MediaPath -----------------------------
(***************************************************************************)
(* One video stream from end to end: Pacer and RTPSender on one host, UDP  *)
(* between, RTPReceiver and JitterBuffer on the other.  No code under src/ *)
(* wires these classes yet; the caller here uses each one as its tests do, *)
(* and hands what one returns to the next.                                 *)
(*                                                                         *)
(* The i-th packet of the stream is packet i.  PerFrame packets in a row   *)
(* carry the same timestamp.  Beside it go packets of other payload types, *)
(* which neither wait for the pacer nor go through the jitter buffer.  UDP *)
(* may lose packets, deliver them twice and in any order.                  *)
(***************************************************************************)
EXTENDS Pacer, RtpStream, JitterBuffer

CONSTANTS
    MaxPackets,         \* bound: packets of the stream
    MaxArrivals,        \* bound: packets that arrive
    MaxAside,           \* bound: packets of other payload types
    PerFrame            \* packets of a frame

ASSUME MediaAssumption ==
    /\ MaxPackets \in Nat /\ MaxArrivals \in Nat /\ MaxAside \in Nat /\ PerFrame \in Nat \ {0}
    /\ "video" \in Kinds

VARIABLES
    sent,               \* packets the sender has numbered
    wire,               \* packets that may arrive
    aside,              \* numbers of the other payload types that may arrive
    asideSent,
    arrived,            \* history: the packets that did
    first, last,        \* history: which came first, and last; -1 for none
    inOrder,            \* history: each one was newer than all before
    cut,                \* history: a gap was too long to be counted in full
    mixed               \* history: another payload type has arrived

media == <<sent, wire, aside, asideSent, arrived, first, last, inOrder, cut, mixed>>
vars == <<pacer, rtpSender, rtpReceiver, jitter, media>>

Packets == 0 .. MaxPackets - 1
SeqOf(i) == i % SeqMod
TimestampOf(i) == i \div PerFrame

Init ==
    /\ PacerInit
    /\ RtpInit
    /\ JitterInit
    /\ sent = 0
    /\ wire = {}
    /\ arrived = {}
    /\ first = -1
    /\ last = -1
    /\ inOrder = TRUE
    /\ cut = FALSE
    /\ aside = {}
    /\ asideSent = 0
    /\ mixed = FALSE

\* The sending loop asks the pacer.
Ask ==
    /\ sent < MaxPackets
    /\ CanSend
    /\ UNCHANGED <<rtpSender, rtpReceiver, jitter, media>>

\* It sends the next packet and tells the pacer, whatever became of it.
SendNext ==
    /\ granted
    /\ OnPacketSent
    /\ \E ok \in BOOLEAN :
          /\ SendPacket("video", ok)
          /\ wire' = IF ok THEN wire \cup {sent} ELSE wire
    /\ sent' = sent + 1
    /\ UNCHANGED <<rtpReceiver, jitter, aside, asideSent, arrived, first, last,
                   inOrder, cut, mixed>>

\* Audio and control packets have numbers of their own.
SendAside(kind) ==
    /\ asideSent < MaxAside
    /\ \E ok \in BOOLEAN :
          /\ SendPacket(kind, ok)
          /\ aside' = IF ok THEN aside \cup {sequence_number[kind]} ELSE aside
    /\ asideSent' = asideSent + 1
    /\ UNCHANGED <<pacer, rtpReceiver, jitter, sent, wire, arrived, first, last,
                   inOrder, cut, mixed>>

\* Bound: UDP keeps no packet while 2^16 others go by.
Fresh(i) == last = -1 \/ (i - last <= SeqMod /\ last - i < SeqMod)

\* The receiving loop parses packet i and puts it into the buffer.
Receive(i) ==
    /\ i \in wire
    /\ packets_received < MaxArrivals
    /\ Fresh(i)
    /\ UpdateStats(SeqOf(i))
    /\ InsertPacket(TimestampOf(i))
    /\ wire' \in {wire, wire \ {i}}
    /\ arrived' = arrived \cup {i}
    /\ first' = IF first = -1 THEN i ELSE first
    /\ last' = i
    /\ inOrder' = (inOrder /\ \A j \in arrived : j < i)
    /\ cut' = (cut \/ (last # -1 /\ i - last > MaxMissing + 2))
    /\ UNCHANGED <<pacer, rtpSender, sent, aside, asideSent, mixed>>

\* It parses one of another payload type: the receiver does not tell them apart.
ReceiveAside(seq) ==
    /\ seq \in aside
    /\ packets_received < MaxArrivals
    /\ UpdateStats(seq)
    /\ aside' \in {aside, aside \ {seq}}
    /\ mixed' = TRUE
    /\ UNCHANGED <<pacer, rtpSender, jitter, sent, wire, asideSent, arrived, first,
                   last, inOrder, cut>>

\* The decoding loop polls.
Extract ==
    /\ TryExtractFrame
    /\ UNCHANGED <<pacer, rtpSender, rtpReceiver, media>>

Tick ==
    /\ PacerTick
    /\ JitterTick
    /\ UNCHANGED <<rtpSender, rtpReceiver, media>>

\* The sender starts a new batch, for a new stream of its own.
ResetPacer ==
    /\ PacerReset
    /\ UNCHANGED <<rtpSender, rtpReceiver, jitter, media>>

ResetBuffer ==
    /\ Frames # {}
    /\ JitterReset
    /\ UNCHANGED <<pacer, rtpSender, rtpReceiver, media>>

Next ==
    \/ Ask
    \/ SendNext
    \/ \E i \in Packets : Receive(i)
    \/ \E kind \in Kinds \ {"video"} : SendAside(kind)
    \/ \E seq \in aside : ReceiveAside(seq)
    \/ Extract
    \/ Tick
    \/ ResetPacer
    \/ ResetBuffer

Spec == Init /\ [][Next]_vars

-----------------------------------------------------------------------------
TypeOK ==
    /\ PacerTypeOK
    /\ RtpTypeOK
    /\ \A t \in Frames :
          /\ t \in {TimestampOf(i) : i \in Packets}
          /\ buffer_[t].age \in 0 .. BufferTicks
          /\ buffer_[t].packets \in Seq(Nat) \ {<< >>}
    /\ inserted \in Nat
    /\ sent \in 0 .. MaxPackets
    /\ aside \subseteq 0 .. SeqMod - 1 /\ asideSent \in 0 .. MaxAside
    /\ wire \subseteq Packets /\ arrived \subseteq Packets
    /\ first \in Packets \cup {-1} /\ last \in Packets \cup {-1}

\* The jitter buffer neither loses nor repeats a packet in silence: each one
\* inserted was handed out in one frame, or dropped with a frame on overflow,
\* or is still there, and once.
Buffered == UNION {PacketsOf(t) : t \in Frames}

AllAccounted ==
    /\ handedOut \cup evicted \cup Buffered = 0 .. inserted - 1
    /\ handedOut \cap evicted = {} /\ (handedOut \cup evicted) \cap Buffered = {}
    /\ \A t, u \in Frames :
          \A k \in DOMAIN buffer_[t].packets, l \in DOMAIN buffer_[u].packets :
              buffer_[t].packets[k] = buffer_[u].packets[l] => t = u /\ k = l

\* The packets a receiver can know to be missing: newer than the first that
\* arrived, older than the newest.
Missing ==
    {i \in Packets : i > first /\ i \notin arrived /\ \E j \in arrived : i < j}

\* packets_lost never hides a loss, sends that failed included, but for gaps of
\* more than MaxMissing + 1 packets, which are cut short; and it invents none
\* for as long as packets arrive in order.  Both hold when numbers wrap around,
\* and until a packet of another payload type arrives: the one expected number
\* then moves to that type's, and losses are hidden as well as invented.
LossReported ==
    (first # -1 /\ ~mixed) =>
        /\ ~cut => packets_lost >= Cardinality(Missing)
        /\ inOrder => packets_lost <= Cardinality(Missing)
=============================================================================
