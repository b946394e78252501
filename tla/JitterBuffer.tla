---------------------------- MODULE JitterBuffer ----------------------------
(***************************************************************************)
(* JitterBuffer (network/protocol/jitter_buffer.{h,cpp}): packets gathered *)
(* into frames by RTP timestamp, each frame handed out buffer_ms after its *)
(* first packet came.  buffer_ is an ordered map: its begin() is the frame *)
(* with the smallest timestamp, and a frame is the sequence of its packets *)
(* in the order of their arrival; packet n is the n-th ever inserted, from *)
(* 0. expected_timestamp_ and the two members behind GetBufferedMs are     *)
(* written but decide nothing; they are left out.                          *)
(***************************************************************************)
EXTENDS Integers, FiniteSets, Sequences, Functions

CONSTANTS
    BufferTicks,        \* buffer_ms, in ticks
    MaxFrames           \* max_packets, which the code compares to the frames

ASSUME JitterAssumption ==
    /\ BufferTicks \in Nat
    /\ MaxFrames \in Nat \ {0}      \* 0 would erase begin() of an empty map

VARIABLES
    buffer_,            \* timestamp -> [packets, age of the first]
    inserted,           \* history: how many packets were given to InsertPacket
    handedOut,          \* history: packets given to the decoder
    evicted,            \* history: packets of frames dropped on overflow
    lastOut,            \* history: timestamp of the frame handed out last
    late                \* history: timestamps that came behind lastOut

jitter == <<buffer_, inserted, handedOut, evicted, lastOut, late>>

Frames == DOMAIN buffer_

JitterInit ==
    /\ buffer_ = << >>
    /\ inserted = 0
    /\ handedOut = {}
    /\ evicted = {}
    /\ lastOut = -1
    /\ late = {}

\* begin()
Oldest == CHOOSE t \in Frames : \A u \in Frames : t <= u

PacketsOf(t) == Range(buffer_[t].packets)

Without(t) == [u \in Frames \ {t} |-> buffer_[u]]

Full == Cardinality(Frames) >= MaxFrames

\* (Bug: the packet replaces the frame's packets.)
Added_Replacing(buf, t, packet) ==
    [u \in DOMAIN buf \cup {t} |->
       IF u = t THEN [packets |-> <<packet>>, age |-> 0] ELSE buf[u]]

\* buf[t].push_back(packet)
Added(buf, t, packet) ==
    [u \in DOMAIN buf \cup {t} |->
       CASE u # t -> buf[u]
         [] u = t /\ t \in DOMAIN buf -> [buf[t] EXCEPT !.packets = Append(@, packet)]
         [] OTHER -> [packets |-> <<packet>>, age |-> 0]]

\* A full buffer loses its oldest frame first, even when the packet belongs to
\* a frame that is there, or to the very frame that is dropped.
InsertPacket(t) ==
    /\ buffer_' = Added(IF Full THEN Without(Oldest) ELSE buffer_, t, inserted)
    /\ inserted' = inserted + 1
    /\ evicted' = IF Full THEN evicted \cup PacketsOf(Oldest) ELSE evicted
    /\ late' = IF t <= lastOut THEN late \cup {t} ELSE late
    /\ UNCHANGED <<handedOut, lastOut>>

\* (Bug: hand out the newest frame.)
Chosen_Newest == CHOOSE t \in Frames : \A u \in Frames : u <= t

\* The frame TryExtractFrame looks at.
Chosen == Oldest

\* TryExtractFrame that succeeds: complete or not, the frame is handed out.
TryExtractFrame ==
    /\ Frames # {}
    /\ buffer_[Chosen].age >= BufferTicks
    /\ handedOut' = handedOut \cup PacketsOf(Chosen)
    /\ lastOut' = Chosen
    /\ buffer_' = Without(Chosen)
    /\ UNCHANGED <<inserted, evicted, late>>

JitterReset ==
    /\ buffer_' = << >>
    /\ inserted' = 0
    /\ handedOut' = {}
    /\ evicted' = {}
    /\ lastOut' = -1
    /\ late' = {}

\* Ages past buffer_ms are all the same.
JitterTick ==
    /\ buffer_' = [t \in Frames |->
                     [buffer_[t] EXCEPT !.age = IF @ < BufferTicks THEN @ + 1 ELSE @]]
    /\ UNCHANGED <<inserted, handedOut, evicted, lastOut, late>>

-----------------------------------------------------------------------------
\* The buffer never holds more frames than configured.
WithinCapacity == Cardinality(Frames) <= MaxFrames

\* Frames leave in the order of their timestamps.  Behind the last frame
\* handed out there is nothing in the buffer but what arrived behind it.
OrderedUnlessLate == \A t \in Frames : t > lastOut \/ t \in late
=============================================================================
