-------------------------- MODULE MediaPath_proofs --------------------------
(***************************************************************************)
(* Theorems about the media path, for streams of any length, buffers and   *)
(* batches of any size, and sequence numbers of any width: the order and   *)
(* the capacity of the jitter buffer; where its packets are; how many      *)
(* packets the pacer lets go; what the receiver counts as lost.            *)
(***************************************************************************)
EXTENDS MediaPath, FiniteSetTheorems, SequenceTheorems, WellFoundedInduction, TLAPS

\* The timestamps in the buffer are a finite set of naturals, at most as many
\* as configured; behind the last frame handed out only late ones remain.
Inv ==
    /\ Frames \subseteq Nat
    /\ IsFiniteSet(Frames)
    /\ lastOut \in Int
    /\ WithinCapacity
    /\ OrderedUnlessLate

\* begin() of a map that is not empty is its smallest key.
LEMMA OldestIsMin ==
    ASSUME Frames \subseteq Nat, Frames # {}
    PROVE  Oldest \in Frames /\ \A u \in Frames : Oldest <= u
<1> DEFINE below == {pair \in Nat \X Nat : pair[1] < pair[2]}
<1>1. IsWellFoundedOn(below, Nat)
  BY NatLessThanWellFounded DEF OpToRel
<1>2. PICK t \in Frames : \A u \in Frames : ~(<<u, t>> \in below)
  <2> HIDE DEF below
  <2> QED BY <1>1, WFMin
<1>3. ASSUME NEW u \in Frames PROVE t <= u
  <2>1. <<u, t>> \notin below
    BY <1>2
  <2>2. u \in Nat /\ t \in Nat
    OBVIOUS
  <2>3. ~(u < t)
    BY <2>1, <2>2
  <2> QED BY <2>2, <2>3
<1> QED BY <1>3 DEF Oldest

\* What the timestamps of the buffer are after an insertion.
LEMMA InsertFrames ==
    ASSUME NEW t, InsertPacket(t)
    PROVE  Frames' = (IF Full THEN Frames \ {Oldest} ELSE Frames) \cup {t}
BY DEF InsertPacket, Added, Without, Frames

LEMMA InitInv == Init => Inv
<1> SUFFICES ASSUME Init PROVE Inv
  OBVIOUS
<1>1. Frames = {} /\ lastOut = -1
  BY DEF Init, JitterInit, Frames
<1> QED
  BY <1>1, FS_EmptySet, JitterAssumption DEF Inv, WithinCapacity, OrderedUnlessLate

\* An insertion into a full buffer makes room first, so capacity is kept; a
\* packet that comes behind the last frame handed out is noted as late.
LEMMA InsertInv ==
    ASSUME Inv, NEW t \in Nat, InsertPacket(t)
    PROVE  Inv'
<1> DEFINE kept == IF Full THEN Frames \ {Oldest} ELSE Frames
<1>1. Frames' = kept \cup {t} /\ lastOut' = lastOut
  BY InsertFrames DEF InsertPacket
<1>2. kept \subseteq Frames /\ IsFiniteSet(kept) /\ Cardinality(kept) < MaxFrames
  <2>1. CASE Full
    <3>1. Frames # {}
      BY <2>1, FS_EmptySet, JitterAssumption DEF Full
    <3>2. Oldest \in Frames
      BY <3>1, OldestIsMin DEF Inv
    <3>3. /\ IsFiniteSet(Frames \ {Oldest})
          /\ Cardinality(Frames \ {Oldest}) = Cardinality(Frames) - 1
      BY <3>2, FS_RemoveElement DEF Inv
    <3>4. Cardinality(Frames) \in Nat
      BY FS_CardinalityType DEF Inv
    <3> QED BY <2>1, <3>3, <3>4, JitterAssumption DEF Inv, WithinCapacity
  <2>2. CASE ~Full
    <3>1. Cardinality(Frames) \in Nat
      BY FS_CardinalityType DEF Inv
    <3> QED BY <2>2, <3>1, JitterAssumption DEF Full, Inv
  <2> QED BY <2>1, <2>2
<1>3. IsFiniteSet(Frames') /\ Cardinality(Frames') <= MaxFrames
  <2> HIDE DEF kept
  <2>1. /\ IsFiniteSet(kept \cup {t})
        /\ Cardinality(kept \cup {t}) \in {Cardinality(kept), Cardinality(kept) + 1}
    BY <1>2, FS_AddElement
  <2>2. Cardinality(kept) \in Nat
    BY <1>2, FS_CardinalityType
  <2> QED BY <1>1, <1>2, <2>1, <2>2, JitterAssumption
<1>4. OrderedUnlessLate'
  <2>1. ASSUME NEW u \in Frames' PROVE u > lastOut' \/ u \in late'
    <3>1. CASE u = t
      BY <1>1, <3>1 DEF InsertPacket, Inv
    <3>2. CASE u \in Frames
      BY <1>1, <3>2 DEF InsertPacket, Inv, OrderedUnlessLate
    <3> QED BY <1>1, <1>2, <3>1, <3>2
  <2> QED BY <2>1 DEF OrderedUnlessLate
<1> QED BY <1>1, <1>2, <1>3, <1>4 DEF Inv, WithinCapacity

\* Handing out the oldest frame leaves only newer ones.
LEMMA ExtractInv ==
    ASSUME Inv, TryExtractFrame
    PROVE  Inv'
<1>1. Oldest \in Frames /\ \A u \in Frames : Oldest <= u
  BY OldestIsMin DEF Inv, TryExtractFrame
<1>2. Frames' = Frames \ {Oldest} /\ lastOut' = Oldest /\ late' = late
  BY DEF TryExtractFrame, Chosen, Without, Frames
<1>3. IsFiniteSet(Frames') /\ Cardinality(Frames') = Cardinality(Frames) - 1
  BY <1>1, <1>2, FS_RemoveElement DEF Inv
<1>4. Cardinality(Frames) \in Nat
  BY FS_CardinalityType DEF Inv
<1> QED BY <1>1, <1>2, <1>3, <1>4, JitterAssumption DEF Inv, WithinCapacity, OrderedUnlessLate

LEMMA StepInv == Inv /\ [Next]_vars => Inv'
<1> SUFFICES ASSUME Inv, [Next]_vars PROVE Inv'
  OBVIOUS
<1>1. CASE UNCHANGED jitter
  BY <1>1 DEF Inv, jitter, Frames, WithinCapacity, OrderedUnlessLate
<1>2. ASSUME NEW i \in Packets, Receive(i) PROVE Inv'
  <2>1. TimestampOf(i) \in Nat
    BY MediaAssumption DEF Packets, TimestampOf
  <2> QED BY <1>2, <2>1, InsertInv DEF Receive
<1>3. CASE Extract
  BY <1>3, ExtractInv DEF Extract
<1>4. CASE Tick
  <2>1. Frames' = Frames /\ lastOut' = lastOut /\ late' = late
    BY <1>4 DEF Tick, JitterTick, Frames
  <2> QED BY <2>1 DEF Inv, WithinCapacity, OrderedUnlessLate
<1>5. CASE ResetBuffer
  <2>1. Frames' = {} /\ lastOut' = -1
    BY <1>5 DEF ResetBuffer, JitterReset, Frames
  <2> QED
    BY <2>1, FS_EmptySet, JitterAssumption DEF Inv, WithinCapacity, OrderedUnlessLate
<1>6. CASE \/ Ask \/ SendNext \/ ResetPacer \/ UNCHANGED vars
           \/ \E kind \in Kinds \ {"video"} : SendAside(kind)
           \/ \E seq \in aside : ReceiveAside(seq)
  BY <1>1, <1>6 DEF Ask, SendNext, ResetPacer, SendAside, ReceiveAside, vars
<1> QED BY <1>2, <1>3, <1>4, <1>5, <1>6 DEF Next

\* The buffer never holds more frames than configured, however many packets
\* come in whatever order.
THEOREM CapacityKept == Spec => []WithinCapacity
BY InitInv, StepInv, PTL DEF Spec, Inv

\* Frames leave the buffer in the order of their timestamps, except those of
\* which a packet came after a newer frame had left.
THEOREM FramesInOrder == Spec => []OrderedUnlessLate
BY InitInv, StepInv, PTL DEF Spec, Inv

-----------------------------------------------------------------------------
(* Where the packets of the jitter buffer are.                             *)

\* Buffers: frames of packet numbers by timestamp.
IsBuffer(buf) ==
    buf \in [DOMAIN buf -> [packets : Seq(Nat), age : 0 .. BufferTicks]]

Inside(buf) == UNION {Range(buf[t].packets) : t \in DOMAIN buf}

\* No packet is in a buffer twice.
Once(buf) ==
    \A t, u \in DOMAIN buf :
        \A k \in DOMAIN buf[t].packets, l \in DOMAIN buf[u].packets :
            buf[t].packets[k] = buf[u].packets[l] => t = u /\ k = l

LEMMA InsideDef ==
    ASSUME NEW buf, NEW x
    PROVE  x \in Inside(buf) <=>
             \E t \in DOMAIN buf : \E k \in DOMAIN buf[t].packets : buf[t].packets[k] = x
BY DEF Inside, Range

\* A frame that leaves takes its own packets with it and no others.
LEMMA DropFrame ==
    ASSUME NEW buf, IsBuffer(buf), Once(buf), NEW o \in DOMAIN buf,
           NEW rest, rest = [u \in DOMAIN buf \ {o} |-> buf[u]]
    PROVE  /\ IsBuffer(rest) /\ Once(rest)
           /\ Range(buf[o].packets) \subseteq Inside(buf)
           /\ Inside(rest) = Inside(buf) \ Range(buf[o].packets)
<1>1. DOMAIN rest = DOMAIN buf \ {o} /\ \A u \in DOMAIN rest : rest[u] = buf[u]
  OBVIOUS
<1>2. IsBuffer(rest)
  BY DEF IsBuffer
<1>3. Once(rest)
  BY <1>1 DEF Once
<1>4. ASSUME NEW x
      PROVE  /\ x \in Range(buf[o].packets) => x \in Inside(buf)
             /\ x \in Inside(rest) <=> x \in Inside(buf) /\ x \notin Range(buf[o].packets)
  <2>1. x \in Range(buf[o].packets) <=> \E k \in DOMAIN buf[o].packets : buf[o].packets[k] = x
    BY DEF Range
  <2>2. /\ x \in Inside(buf) <=>
             \E t \in DOMAIN buf : \E k \in DOMAIN buf[t].packets : buf[t].packets[k] = x
        /\ x \in Inside(rest) <=>
             \E t \in DOMAIN rest : \E k \in DOMAIN rest[t].packets : rest[t].packets[k] = x
    BY InsideDef
  <2> QED BY <1>1, <2>1, <2>2 DEF Once
<1> QED BY <1>2, <1>3, <1>4

\* A new packet goes behind those of its frame, or begins a frame.
LEMMA AddPacket ==
    ASSUME NEW buf, IsBuffer(buf), Once(buf), NEW t,
           NEW n \in Nat, n \notin Inside(buf)
    PROVE  /\ IsBuffer(Added(buf, t, n)) /\ Once(Added(buf, t, n))
           /\ DOMAIN Added(buf, t, n) = DOMAIN buf \cup {t}
           /\ \A x : x \in Inside(Added(buf, t, n)) <=> x \in Inside(buf) \/ x = n
<1> DEFINE more == Added(buf, t, n)
           old == IF t \in DOMAIN buf THEN buf[t].packets ELSE <<>>
<1>1. DOMAIN more = DOMAIN buf \cup {t}
  BY DEF Added
<1>2. \A u \in DOMAIN more : u # t => u \in DOMAIN buf /\ more[u] = buf[u]
  BY DEF Added
<1>3. old \in Seq(Nat)
  BY DEF IsBuffer
<1>4. /\ more[t] \in [packets : Seq(Nat), age : 0 .. BufferTicks]
      /\ more[t].packets = Append(old, n)
  <2>1. CASE t \in DOMAIN buf
    <3>1. buf[t] \in [packets : Seq(Nat), age : 0 .. BufferTicks]
      BY <2>1 DEF IsBuffer
    <3>2. more[t] = [buf[t] EXCEPT !.packets = Append(@, n)]
      BY <2>1 DEF Added
    <3>3. Append(buf[t].packets, n) \in Seq(Nat)
      BY <3>1, AppendProperties
    <3> QED BY <2>1, <3>1, <3>2, <3>3
  <2>2. CASE t \notin DOMAIN buf
    <3>1. more[t] = [packets |-> <<n>>, age |-> 0]
      BY <2>2 DEF Added
    <3>2. 0 \in 0 .. BufferTicks
      BY JitterAssumption
    <3> QED BY <2>2, <3>1, <3>2
  <2> QED BY <2>1, <2>2
<1>5. /\ DOMAIN more[t].packets = 1 .. Len(old) + 1
      /\ DOMAIN old = 1 .. Len(old) /\ Len(old) \in Nat
      /\ \A k \in DOMAIN old : more[t].packets[k] = old[k]
      /\ more[t].packets[Len(old) + 1] = n
  BY <1>3, <1>4
<1>6. \A k \in DOMAIN old : t \in DOMAIN buf /\ old[k] = buf[t].packets[k] /\ DOMAIN old = DOMAIN buf[t].packets
  BY <1>5
<1>7. IsBuffer(more)
  <2>1. \A u \in DOMAIN more : more[u] \in [packets : Seq(Nat), age : 0 .. BufferTicks]
    BY <1>2, <1>4 DEF IsBuffer
  <2>2. more = [u \in DOMAIN more |-> more[u]]
    BY DEF Added
  <2> HIDE DEF more
  <2> QED BY <2>1, <2>2 DEF IsBuffer
<1>8. \A u \in DOMAIN more : \A k \in DOMAIN more[u].packets :
         \/ u = t /\ k = Len(old) + 1 /\ more[u].packets[k] = n
         \/ /\ u \in DOMAIN buf /\ k \in DOMAIN buf[u].packets
            /\ more[u].packets[k] = buf[u].packets[k] /\ buf[u].packets[k] # n
  <2>1. \A u \in DOMAIN buf : \A k \in DOMAIN buf[u].packets : buf[u].packets[k] # n
    BY InsideDef
  <2> HIDE DEF more, old
  <2> QED BY <1>2, <1>5, <1>6, <2>1
<1>9. \A u \in DOMAIN buf : \A k \in DOMAIN buf[u].packets :
         /\ u \in DOMAIN more /\ k \in DOMAIN more[u].packets
         /\ more[u].packets[k] = buf[u].packets[k]
  <2>1. \A u \in DOMAIN buf : u # t => more[u] = buf[u]
    BY <1>1, <1>2
  <2>2. t \in DOMAIN buf => old = buf[t].packets
    OBVIOUS
  <2> HIDE DEF more, old
  <2> QED BY <1>1, <1>5, <2>1, <2>2
<1>10. Once(more)
  <2> HIDE DEF more, old
  <2> QED BY <1>8 DEF Once
<1>11. ASSUME NEW x PROVE x \in Inside(more) <=> x \in Inside(buf) \/ x = n
  <2>1. /\ x \in Inside(buf) <=>
             \E u \in DOMAIN buf : \E k \in DOMAIN buf[u].packets : buf[u].packets[k] = x
        /\ x \in Inside(more) <=>
             \E u \in DOMAIN more : \E k \in DOMAIN more[u].packets : more[u].packets[k] = x
    BY InsideDef
  <2>2. t \in DOMAIN more /\ Len(old) + 1 \in DOMAIN more[t].packets
    BY <1>1, <1>5
  <2> HIDE DEF more, old
  <2> QED BY <1>5, <1>8, <1>9, <2>1, <2>2
<1> QED BY <1>1, <1>7, <1>10, <1>11

\* Each packet is where it was put once.
Places ==
    /\ inserted \in Nat
    /\ IsBuffer(buffer_)
    /\ AllAccounted

LEMMA BufferedInside == Buffered = Inside(buffer_) /\ Buffered' = Inside(buffer_')
BY DEF Buffered, Inside, Frames, PacketsOf

LEMMA InsertPlaces ==
    ASSUME Places, Full => Oldest \in Frames, NEW t, InsertPacket(t)
    PROVE  Places'
<1>1. PICK kept, gone :
        /\ kept = IF Full THEN Without(Oldest) ELSE buffer_
        /\ gone = IF Full THEN PacketsOf(Oldest) ELSE {}
  OBVIOUS
<1>2. /\ buffer_' = Added(kept, t, inserted) /\ inserted' = inserted + 1
      /\ evicted' = evicted \cup gone /\ handedOut' = handedOut
  BY <1>1 DEF InsertPacket
<1>3. /\ IsBuffer(kept) /\ Once(kept)
      /\ gone \subseteq Buffered /\ Inside(kept) = Buffered \ gone
  <2>1. IsBuffer(buffer_) /\ Once(buffer_) /\ Buffered = Inside(buffer_)
    BY BufferedInside DEF Places, AllAccounted, Once, Frames
  <2>2. CASE Full
    BY <1>1, <2>1, <2>2, DropFrame DEF Without, PacketsOf, Frames
  <2>3. CASE ~Full
    BY <1>1, <2>1, <2>3
  <2> QED BY <2>2, <2>3
<1>4. inserted \in Nat /\ inserted \notin Buffered
  BY DEF Places, AllAccounted
<1>5. /\ IsBuffer(buffer_') /\ Once(buffer_')
      /\ Inside(buffer_') = (Buffered \ gone) \cup {inserted}
  BY <1>2, <1>3, <1>4, AddPacket
<1>6. Buffered' = (Buffered \ gone) \cup {inserted}
  BY <1>5, BufferedInside
<1>7. 0 .. inserted' - 1 = (0 .. inserted - 1) \cup {inserted}
  BY <1>2 DEF Places
<1>8. /\ (handedOut \cup evicted \cup Buffered)' = (0 .. inserted - 1)'
      /\ (handedOut \cap evicted)' = {} /\ ((handedOut \cup evicted) \cap Buffered)' = {}
  <2>1. /\ handedOut \cup evicted \cup Buffered = 0 .. inserted - 1
        /\ handedOut \cap evicted = {} /\ (handedOut \cup evicted) \cap Buffered = {}
        /\ inserted \notin handedOut \cup evicted
    BY DEF Places, AllAccounted
  <2> QED BY <1>2, <1>3, <1>6, <1>7, <2>1
<1>9. AllAccounted'
  BY <1>5, <1>8 DEF AllAccounted, Once, Frames
<1> QED BY <1>2, <1>4, <1>5, <1>9 DEF Places

LEMMA ExtractPlaces ==
    ASSUME Places, Oldest \in Frames, TryExtractFrame
    PROVE  Places'
<1>1. IsBuffer(buffer_) /\ Once(buffer_) /\ Buffered = Inside(buffer_)
  BY BufferedInside DEF Places, AllAccounted, Once, Frames
<1>2. /\ buffer_' = Without(Oldest) /\ UNCHANGED <<inserted, evicted>>
      /\ handedOut' = handedOut \cup PacketsOf(Oldest)
  BY DEF TryExtractFrame, Chosen
<1>3. /\ IsBuffer(buffer_') /\ Once(buffer_')
      /\ PacketsOf(Oldest) \subseteq Buffered
      /\ Inside(buffer_') = Buffered \ PacketsOf(Oldest)
  BY <1>1, <1>2, DropFrame DEF Without, PacketsOf, Frames
<1>4. Buffered' = Buffered \ PacketsOf(Oldest)
  BY <1>3, BufferedInside
<1>5. /\ (handedOut \cup evicted \cup Buffered)' = (0 .. inserted - 1)'
      /\ (handedOut \cap evicted)' = {} /\ ((handedOut \cup evicted) \cap Buffered)' = {}
  BY <1>2, <1>3, <1>4 DEF Places, AllAccounted
<1>6. AllAccounted'
  BY <1>3, <1>5 DEF AllAccounted, Once, Frames
<1> QED BY <1>2, <1>3, <1>6 DEF Places

\* Time moves no packet.
LEMMA TickPlaces ==
    ASSUME Places, JitterTick
    PROVE  Places'
<1>1. /\ DOMAIN buffer_' = DOMAIN buffer_ /\ UNCHANGED <<inserted, evicted, handedOut>>
      /\ \A t \in Frames : /\ buffer_'[t] \in [packets : Seq(Nat), age : 0 .. BufferTicks]
                           /\ buffer_'[t].packets = buffer_[t].packets
  BY JitterAssumption DEF JitterTick, Places, IsBuffer, Frames
<1>2. IsBuffer(buffer_')
  <2>1. buffer_' = [t \in DOMAIN buffer_' |-> buffer_'[t]]
    BY DEF JitterTick, Frames
  <2> QED BY <1>1, <2>1 DEF IsBuffer, Frames
<1>3. Buffered' = Buffered
  BY <1>1 DEF Buffered, Frames, PacketsOf
<1> QED BY <1>1, <1>2, <1>3 DEF Places, AllAccounted, Frames

LEMMA EmptyPlaces ==
    ASSUME buffer_ = << >>, inserted = 0, handedOut = {}, evicted = {}
    PROVE  Places
<1>1. DOMAIN buffer_ = {}
  OBVIOUS
<1>2. IsBuffer(buffer_)
  BY <1>1 DEF IsBuffer
<1>3. Buffered = {}
  BY <1>1 DEF Buffered, Frames
<1> QED BY <1>1, <1>2, <1>3 DEF Places, AllAccounted, Frames

LEMMA StepPlaces ==
    ASSUME Inv, Places, [Next]_vars
    PROVE  Places'
<1>1. CASE UNCHANGED jitter
  BY <1>1 DEF Places, AllAccounted, Buffered, Frames, PacketsOf, IsBuffer, jitter
<1>2. Frames # {} => Oldest \in Frames
  BY OldestIsMin DEF Inv
<1>3. ASSUME NEW i \in Packets, Receive(i) PROVE Places'
  <2>1. Full => Frames # {}
    BY FS_EmptySet, JitterAssumption DEF Full
  <2> QED BY <1>2, <1>3, <2>1, InsertPlaces DEF Receive
<1>4. CASE Extract
  BY <1>2, <1>4, ExtractPlaces DEF Extract, TryExtractFrame
<1>5. CASE Tick
  BY <1>5, TickPlaces DEF Tick
<1>6. CASE ResetBuffer
  <2>1. (/\ buffer_ = << >> /\ inserted = 0 /\ handedOut = {} /\ evicted = {})'
    BY <1>6 DEF ResetBuffer, JitterReset
  <2> QED BY <2>1, EmptyPlaces, PTL
<1>7. CASE \/ Ask \/ SendNext \/ ResetPacer \/ UNCHANGED vars
           \/ \E kind \in Kinds \ {"video"} : SendAside(kind)
           \/ \E seq \in aside : ReceiveAside(seq)
  BY <1>1, <1>7 DEF Ask, SendNext, ResetPacer, SendAside, ReceiveAside, vars
<1> QED BY <1>3, <1>4, <1>5, <1>6, <1>7 DEF Next

\* The jitter buffer loses and repeats no packet in silence: each one inserted
\* was handed out in one frame, dropped with a frame, or waits in one place.
THEOREM PacketsAccountedFor == Spec => []AllAccounted
<1>1. Init => Places
  BY EmptyPlaces DEF Init, JitterInit
<1>2. Places => AllAccounted
  BY DEF Places
<1> QED BY <1>1, <1>2, InitInv, StepInv, StepPlaces, PTL DEF Spec

-----------------------------------------------------------------------------
(* What the pacer lets go.                                                 *)

\* A batch holds no more than it may; the packets sent since it began are its
\* own, and those sent in the interval before are of one batch as well.
Paced ==
    /\ PacerTypeOK
    /\ packets_in_batch <= BatchLimit
    /\ granted => IntervalOver \/ HasRoom
    /\ \A a \in Window :
          /\ IntervalOver => sentWithin[a] <= BatchLimit
          /\ ~IntervalOver => sentWithin[a] <= BatchLimit + packets_in_batch
          /\ ~IntervalOver /\ a < elapsed => sentWithin[a] <= packets_in_batch

LEMMA LimitType ==
    BatchLimit \in Nat /\ BatchLimit >= 1 /\ (MaxPerBatch # 0 => BatchLimit = MaxPerBatch)
BY PacerAssumption DEF BatchLimit

LEMMA StartPaced ==
    ASSUME elapsed = 0, packets_in_batch = 0, granted = FALSE,
           sentWithin = [a \in Window |-> 0]
    PROVE  Paced
<1>1. ~IntervalOver
  BY PacerAssumption DEF IntervalOver
<1>2. PacerTypeOK
  <2>1. granted \in BOOLEAN
    BY Zenon
  <2>2. elapsed \in 0 .. PacingInterval /\ packets_in_batch \in Nat
    BY PacerAssumption
  <2>3. sentWithin \in [Window -> Nat]
    OBVIOUS
  <2> QED BY <2>1, <2>2, <2>3 DEF PacerTypeOK
<1> QED BY <1>1, <1>2, LimitType DEF Paced

LEMMA CanSendPaced ==
    ASSUME Paced, CanSend
    PROVE  Paced'
<1>1. elapsed' = elapsed /\ sentWithin' = sentWithin /\ granted' = TRUE
  BY DEF CanSend
<1>2. IntervalOver' <=> IntervalOver
  BY <1>1 DEF IntervalOver
<1>3. CASE IntervalOver
  <2>1. packets_in_batch' = 0
    BY <1>3 DEF CanSend
  <2> QED BY <1>1, <1>2, <1>3, <2>1, LimitType DEF Paced, PacerTypeOK
<1>4. CASE ~IntervalOver
  <2>1. packets_in_batch' = packets_in_batch /\ HasRoom
    BY <1>4 DEF CanSend
  <2> QED BY <1>1, <1>2, <1>4, <2>1 DEF Paced, PacerTypeOK, HasRoom
<1> QED BY <1>3, <1>4

LEMMA OnPacketSentPaced ==
    ASSUME Paced, OnPacketSent
    PROVE  Paced'
<1>1. /\ granted /\ granted' = FALSE
      /\ \A a \in Window : sentWithin'[a] = sentWithin[a] + 1
      /\ sentWithin' \in [Window -> Nat]
  BY DEF OnPacketSent, Paced, PacerTypeOK
<1>2. CASE IntervalOver
  <2>1. elapsed' = 0 /\ packets_in_batch' = 1 /\ ~IntervalOver'
    BY <1>2, PacerAssumption DEF OnPacketSent, IntervalOver
  <2>2. PacerTypeOK'
    <3>1. granted' \in BOOLEAN
      BY <1>1, Zenon
    <3>2. elapsed' \in 0 .. PacingInterval /\ packets_in_batch' \in Nat
      BY <2>1, PacerAssumption
    <3> QED BY <1>1, <3>1, <3>2 DEF PacerTypeOK
  <2> QED BY <1>1, <1>2, <2>1, <2>2, LimitType DEF Paced, PacerTypeOK, Window
<1>3. CASE ~IntervalOver
  <2>1. /\ elapsed' = elapsed /\ packets_in_batch' = packets_in_batch + 1 /\ ~IntervalOver'
        /\ HasRoom
    BY <1>1, <1>3 DEF OnPacketSent, IntervalOver, Paced
  <2>2. PacerTypeOK'
    <3>1. granted' \in BOOLEAN
      BY <1>1, Zenon
    <3>2. elapsed' \in 0 .. PacingInterval /\ packets_in_batch' \in Nat
      BY <2>1 DEF PacerTypeOK, Paced
    <3> QED BY <1>1, <3>1, <3>2 DEF PacerTypeOK
  <2>3. packets_in_batch + 1 <= BatchLimit
    BY <2>1, LimitType, PacerAssumption DEF HasRoom, Paced, PacerTypeOK
  <2> QED BY <1>1, <1>3, <2>1, <2>2, <2>3, LimitType DEF Paced, PacerTypeOK
<1> QED BY <1>2, <1>3

LEMMA PacerTickPaced ==
    ASSUME Paced, PacerTick
    PROVE  Paced'
<1>1. /\ granted' = granted /\ packets_in_batch' = packets_in_batch
      /\ \A a \in Window : sentWithin'[a] = IF a = 0 THEN 0 ELSE sentWithin[a - 1]
      /\ \A a \in Window : a # 0 => a - 1 \in Window
  BY PacerAssumption DEF PacerTick, Window
<1>2. PacerTypeOK'
  BY <1>1, PacerAssumption DEF PacerTick, IntervalOver, Paced, PacerTypeOK, Window
<1>3. CASE IntervalOver
  <2>1. elapsed' = elapsed /\ IntervalOver'
    BY <1>3 DEF PacerTick, IntervalOver
  <2> QED BY <1>1, <1>2, <1>3, <2>1, LimitType DEF Paced, PacerTypeOK, HasRoom
<1>4. CASE ~IntervalOver
  <2>1. elapsed' = elapsed + 1
    BY <1>4 DEF PacerTick
  <2>2. ASSUME NEW a \in Window
        PROVE  /\ sentWithin'[a] <= BatchLimit + packets_in_batch
               /\ a < elapsed' => sentWithin'[a] <= packets_in_batch
    BY <1>1, <1>4, <2>1, LimitType DEF Paced, PacerTypeOK, Window
  <2>3. ASSUME NEW a \in Window, IntervalOver' PROVE sentWithin'[a] <= BatchLimit
    <3>1. a < elapsed'
      BY <2>3, <2>1, PacerAssumption DEF IntervalOver, Paced, PacerTypeOK, Window
    <3> QED BY <1>1, <1>2, <2>2, <3>1, LimitType DEF Paced, PacerTypeOK
  <2>4. granted' => IntervalOver' \/ HasRoom'
    BY <1>1, <1>4 DEF Paced, HasRoom
  <2> QED BY <1>1, <1>2, <2>2, <2>3, <2>4 DEF Paced
<1> QED BY <1>3, <1>4

LEMMA PacedBounds == Paced => WindowBounded
<1> SUFFICES ASSUME Paced, NEW a \in Window PROVE sentWithin[a] <= 2 * BatchLimit
  BY DEF WindowBounded
<1> QED BY LimitType DEF Paced, PacerTypeOK

LEMMA StepPaced ==
    ASSUME Paced, [Next]_vars
    PROVE  Paced'
<1>1. CASE UNCHANGED pacer
  BY <1>1 DEF Paced, PacerTypeOK, IntervalOver, HasRoom, pacer
<1>2. CASE Ask
  BY <1>2, CanSendPaced DEF Ask
<1>3. CASE SendNext
  BY <1>3, OnPacketSentPaced DEF SendNext
<1>4. CASE Tick
  BY <1>4, PacerTickPaced DEF Tick
<1>5. CASE ResetPacer
  <2>1. (/\ elapsed = 0 /\ packets_in_batch = 0 /\ granted = FALSE
         /\ sentWithin = [a \in Window |-> 0])'
    BY <1>5 DEF ResetPacer, PacerReset
  <2> QED BY <2>1, StartPaced, PTL
<1>6. CASE \/ Extract \/ ResetBuffer \/ UNCHANGED vars
           \/ \E i \in Packets : Receive(i)
           \/ \E kind \in Kinds \ {"video"} : SendAside(kind)
           \/ \E seq \in aside : ReceiveAside(seq)
  BY <1>1, <1>6 DEF Extract, ResetBuffer, Receive, SendAside, ReceiveAside, vars
<1> QED BY <1>2, <1>3, <1>4, <1>5, <1>6 DEF Next

\* No window of one interval holds more than two batches, wherever it starts
\* and however the caller's questions fall between the ticks.
THEOREM PacedWindows == Spec => []WindowBounded
<1>1. Init => Paced
  BY StartPaced DEF Init, PacerInit
<1> QED BY <1>1, StepPaced, PacedBounds, PTL DEF Spec

-----------------------------------------------------------------------------
(* What the receiver counts as lost.                                       *)

LEMMA Division ==
    ASSUME NEW M \in Nat \ {0}, NEW i \in Int
    PROVE  \E q \in Int : \E r \in 0 .. M - 1 : i % M = r /\ i = M * q + r
<1>1. i = M * (i \div M) + (i % M)
  BY SMTT(30)
<1>2. i % M \in 0 .. M - 1
  OBVIOUS
<1>3. i \div M \in Int
  OBVIOUS
<1> QED BY <1>1, <1>2, <1>3

LEMMA RemainderUnique ==
    ASSUME NEW M \in Nat \ {0}, NEW q \in Int, NEW r \in 0 .. M - 1,
           NEW x, x = q * M + r
    PROVE  x % M = r
BY SMTT(30)

\* A remainder taken on the way changes nothing.
LEMMA ShiftWraps ==
    ASSUME NEW M \in Nat \ {0}, NEW x \in Int, NEW c \in Int
    PROVE  ((x % M) + c) % M = (x + c) % M /\ x % M \in 0 .. M - 1
<1>1. PICK a \in Int, r \in 0 .. M - 1 : x % M = r /\ x = M * a + r
  BY Division
<1>2. x + c \in Int
  OBVIOUS
<1>3. PICK b \in Int, s \in 0 .. M - 1 : (x + c) % M = s /\ x + c = M * b + s
  BY <1>2, Division
<1>4. r + c = (b - a) * M + s
  <2>1. (b - a) * M = M * b - M * a
    BY SMTT(30)
  <2>2. /\ M * a = x - r /\ M * b = x + c - s
    BY <1>1, <1>3
  <2> QED BY <2>1, <2>2
<1>5. (r + c) % M = s
  <2>1. b - a \in Int
    OBVIOUS
  <2> QED BY <1>4, <2>1, RemainderUnique, ZenonT(40)
<1> QED BY <1>1, <1>3, <1>5

\* The gap that is computed from the sequence numbers of two packets is the
\* true one, as long as no full cycle of numbers lies between them; and no gap
\* is seen behind the expected number.
LEMMA GapIsTrue ==
    ASSUME NEW l \in Nat, NEW i \in Nat, l < i, i - l <= SeqMod
    PROVE  /\ Gap((Succ(SeqOf(l)) - 1) % SeqMod, SeqOf(i)) = i - l - 1
           /\ SeqOf(i) = Succ(SeqOf(l)) => i - l - 1 = 0
<1>1. SeqMod \in Nat \ {0}
  BY RtpAssumption
<1>2. /\ Succ(SeqOf(l)) = (l + 1) % SeqMod
      /\ SeqOf(l) \in 0 .. SeqMod - 1 /\ SeqOf(i) \in 0 .. SeqMod - 1
  <2>1. l \in Int /\ i \in Int /\ 1 \in Int
    OBVIOUS
  <2> QED BY <1>1, <2>1, ShiftWraps, Zenon DEF Succ, SeqOf
<1>3. (Succ(SeqOf(l)) - 1) % SeqMod = SeqOf(l)
  <2>1. (((l + 1) % SeqMod) + (-1)) % SeqMod = (l + 1 + (-1)) % SeqMod
    <3>1. l + 1 \in Int /\ -1 \in Int
      OBVIOUS
    <3> QED BY <1>1, <3>1, ShiftWraps, Zenon
  <2>2. (l + 1) % SeqMod \in Int
    BY <1>1
  <2>3. /\ ((l + 1) % SeqMod) + (-1) = ((l + 1) % SeqMod) - 1
        /\ l + 1 + (-1) = l
    BY <2>2
  <2> QED BY <1>2, <2>1, <2>3 DEF SeqOf
<1>4. i - l - 1 \in 0 .. SeqMod - 1
  BY <1>1
<1>5. \A b \in Int : (SeqMod * b + (i - l - 1)) % SeqMod = i - l - 1
  BY <1>1, <1>4, RemainderUnique
<1>6. PICK b \in Int : l = SeqMod * b + SeqOf(l)
  <2>1. l \in Int
    OBVIOUS
  <2> QED BY <1>1, <2>1, Division, Zenon DEF SeqOf
<1>7. (SeqOf(i) - SeqOf(l) - 1) % SeqMod = i - l - 1
  <2> DEFINE c == -SeqOf(l) - 1
  <2>1. c \in Int
    BY <1>2
  <2>2. (SeqOf(i) + c) % SeqMod = (i + c) % SeqMod
    <3>1. i \in Int
      OBVIOUS
    <3> HIDE DEF c
    <3> QED BY <1>1, <2>1, <3>1, ShiftWraps, Zenon DEF SeqOf
  <2>3. SeqOf(i) + c = SeqOf(i) - SeqOf(l) - 1 /\ i + c = SeqMod * b + (i - l - 1)
    BY <1>1, <1>2, <1>6
  <2> QED BY <1>5, <2>2, <2>3
<1>8. ASSUME SeqOf(i) = Succ(SeqOf(l)) PROVE i - l - 1 = 0
  <2>1. i % SeqMod = (l + 1) % SeqMod
    BY <1>2, <1>8 DEF SeqOf
  <2>2. ((i % SeqMod) + (-(l + 1))) % SeqMod = (i - l - 1) % SeqMod
    <3>1. -(l + 1) \in Int /\ i + (-(l + 1)) = i - l - 1 /\ i \in Int
      OBVIOUS
    <3> QED BY <1>1, <3>1, ShiftWraps, Zenon
  <2>3. (((l + 1) % SeqMod) + (-(l + 1))) % SeqMod = 0 % SeqMod
    <3>1. -(l + 1) \in Int /\ (l + 1) + (-(l + 1)) = 0 /\ l + 1 \in Int
      OBVIOUS
    <3> QED BY <1>1, <3>1, ShiftWraps, Zenon
  <2>4. 0 % SeqMod = 0 /\ (i - l - 1) % SeqMod = i - l - 1
    <3>1. 0 % SeqMod = 0
      BY <1>1, RemainderUnique
    <3>2. (i - l - 1) % SeqMod = i - l - 1
      <4>1. SeqMod * 0 + (i - l - 1) = i - l - 1
        BY <1>1
      <4> QED BY <1>5, <4>1
    <3> QED BY <3>1, <3>2
  <2> QED BY <2>1, <2>2, <2>3, <2>4
<1> QED BY <1>3, <1>7, <1>8 DEF Gap

\* Some number of packets is counted for any two sequence numbers.
LEMMA CountIsNat ==
    ASSUME NEW e \in Int, NEW s \in Int
    PROVE  MissingCount((e - 1) % SeqMod, s) \in Nat
<1>1. SeqMod \in Nat \ {0}
  BY RtpAssumption
<1>2. e - 1 \in Int /\ \A x \in Int : x % SeqMod \in 0 .. SeqMod - 1
  BY <1>1
<1>3. PICK p \in Int : p = (e - 1) % SeqMod
  BY <1>2
<1>4. s - p - 1 \in Int
  OBVIOUS
<1>5. Gap(p, s) \in Nat
  BY <1>1, <1>2, <1>4 DEF Gap
<1> QED BY <1>3, <1>5, RtpAssumption DEF MissingCount

\* Until a packet of another payload type arrives, the receiver expects the
\* number behind the last packet, and its count is between what is missing
\* and what is missing for sure.
Counted ==
    ~mixed =>
      /\ arrived \subseteq Packets
      /\ packets_lost \in Nat
      /\ first = -1 =>
           arrived = {} /\ last = -1 /\ ~has_received_first_packet /\ packets_lost = 0
      /\ first # -1 =>
           /\ {first, last} \subseteq arrived
           /\ has_received_first_packet /\ expected_sequence_number = Succ(SeqOf(last))
           /\ ~cut => packets_lost >= Cardinality(Missing)
           /\ inOrder => /\ \A j \in arrived : first <= j /\ j <= last
                         /\ packets_lost <= Cardinality(Missing)

LEMMA PacketsNat == Packets \subseteq Nat
BY MediaAssumption DEF Packets

LEMMA MissingFinite ==
    /\ IsFiniteSet(Missing) /\ Cardinality(Missing) \in Nat
    /\ IsFiniteSet(Missing') /\ Cardinality(Missing') \in Nat
<1>1. IsFiniteSet(Packets)
  BY FS_Interval, MediaAssumption DEF Packets
<1>2. Missing \subseteq Packets /\ Missing' \subseteq Packets
  BY DEF Missing
<1> QED BY <1>1, <1>2, FS_Subset, FS_CardinalityType

LEMMA FirstCounted ==
    ASSUME Counted, NEW i \in Packets, Receive(i), ~mixed', first = -1
    PROVE  Counted'
<1>1. /\ first' = i /\ last' = i /\ arrived' = {i}
      /\ packets_lost' = 0 /\ has_received_first_packet'
      /\ expected_sequence_number' = Succ(SeqOf(last'))
  BY DEF Counted, Receive, UpdateStats
<1>2. i \in Int /\ i # -1
  BY MediaAssumption DEF Packets
<1>3. Missing' = {}
  BY <1>1, <1>2 DEF Missing, Packets
<1>4. Cardinality(Missing') = 0
  BY <1>3, FS_EmptySet
<1> QED BY <1>1, <1>2, <1>4 DEF Counted

\* A packet from behind the last one adds no missing packet.
LEMMA OldCounted ==
    ASSUME Counted, NEW i \in Packets, Receive(i), ~mixed', first # -1, i <= last
    PROVE  Counted'
<1>1. /\ first' = first /\ last' = i /\ arrived' = arrived \cup {i} /\ ~mixed
      /\ has_received_first_packet' /\ expected_sequence_number' = Succ(SeqOf(last'))
      /\ cut => cut'
  BY DEF Receive, UpdateStats
<1>2. /\ arrived \subseteq Packets /\ {first, last} \subseteq arrived /\ packets_lost \in Nat
      /\ expected_sequence_number = Succ(SeqOf(last))
      /\ ~cut => packets_lost >= Cardinality(Missing)
  BY <1>1 DEF Counted
<1>3. packets_lost' \in Nat /\ packets_lost' >= packets_lost
  <2>1. expected_sequence_number \in Int /\ SeqOf(i) \in Int
    BY <1>2, RtpAssumption, MediaAssumption DEF Packets, SeqOf, Succ
  <2>2. MissingCount((expected_sequence_number - 1) % SeqMod, SeqOf(i)) \in Nat
    BY <2>1, CountIsNat
  <2> QED BY <1>2, <2>2 DEF Receive, UpdateStats
<1>4. ~inOrder'
  <2>1. last \in arrived /\ last \in Nat /\ i \in Nat
    BY <1>2, PacketsNat
  <2>2. ~(last < i)
    BY <2>1
  <2> QED BY <2>1, <2>2 DEF Receive
<1>5. Missing' \subseteq Missing
  <2>1. last \in arrived /\ last \in Nat /\ i \in Nat /\ Packets \subseteq Nat
    BY <1>2, PacketsNat
  <2>2. ASSUME NEW x \in Missing' PROVE x \in Missing
    BY <1>1, <2>1, <2>2 DEF Missing
  <2> QED BY <2>2
<1>6. Cardinality(Missing') <= Cardinality(Missing)
  BY <1>5, MissingFinite, FS_Subset
<1> QED BY <1>1, <1>2, <1>3, <1>4, <1>6, MissingFinite DEF Counted

\* A packet from ahead of the last one adds the gap between the two.
LEMMA NewCounted ==
    ASSUME Counted, NEW i \in Packets, Receive(i), ~mixed', first # -1, i > last
    PROVE  Counted'
<1> DEFINE between == (last + 1) .. (i - 1)
<1>1. /\ first' = first /\ last' = i /\ arrived' = arrived \cup {i} /\ ~mixed
      /\ has_received_first_packet' /\ expected_sequence_number' = Succ(SeqOf(last'))
      /\ inOrder' => inOrder
      /\ cut' = (cut \/ (last # -1 /\ i - last > MaxMissing + 2))
  BY DEF Receive, UpdateStats
<1>2. /\ arrived \subseteq Packets /\ {first, last} \subseteq arrived /\ packets_lost \in Nat
      /\ has_received_first_packet /\ expected_sequence_number = Succ(SeqOf(last))
      /\ ~cut => packets_lost >= Cardinality(Missing)
      /\ inOrder => /\ \A j \in arrived : first <= j /\ j <= last
                    /\ packets_lost <= Cardinality(Missing)
  BY <1>1 DEF Counted
<1>3. last \in Nat /\ i \in Nat /\ first \in Nat /\ arrived \subseteq Nat
  BY <1>2, PacketsNat
<1>4. i - last <= SeqMod
  BY <1>3 DEF Receive, Fresh
<1>5. PICK gap \in Nat : gap = i - last - 1
  BY <1>3
<1>6. /\ packets_lost' <= packets_lost + gap /\ packets_lost' \in Nat
      /\ ~cut' => ~cut /\ packets_lost' = packets_lost + gap
  <2>1. /\ Gap((expected_sequence_number - 1) % SeqMod, SeqOf(i)) = gap
        /\ SeqOf(i) = expected_sequence_number => gap = 0
    BY <1>2, <1>3, <1>4, <1>5, GapIsTrue
  <2>2. ~cut' => ~cut /\ gap <= MaxMissing + 1
    <3>1. ~cut' => ~cut /\ ~(last # -1 /\ i - last > MaxMissing + 2)
      BY <1>1, Zenon
    <3>2. i - last = gap + 1 /\ last # -1
      BY <1>3, <1>5
    <3>3. gap + 1 > MaxMissing + 2 \/ gap <= MaxMissing + 1
      BY RtpAssumption
    <3> QED BY <3>1, <3>2, <3>3, Zenon
  <2>3. packets_lost' = IF SeqOf(i) # expected_sequence_number
                        THEN packets_lost + IF gap > MaxMissing THEN MaxMissing + 1 ELSE gap
                        ELSE packets_lost
    BY <1>2, <2>1 DEF Receive, UpdateStats, MissingCount
  <2> QED BY <1>2, <2>1, <2>2, <2>3, RtpAssumption
<1>7. IsFiniteSet(between) /\ Cardinality(between) = gap
  <2>1. last + 1 \in Int /\ i - 1 \in Int
    BY <1>3
  <2>2. /\ IsFiniteSet(between)
        /\ Cardinality(between) = IF last + 1 > i - 1 THEN 0 ELSE i - 1 - (last + 1) + 1
    BY <2>1, FS_Interval, Zenon
  <2> QED BY <1>3, <1>5, <2>2
<1>8. Missing' \subseteq Missing \cup between
  <2>1. ASSUME NEW x \in Missing', x \notin Missing PROVE x \in between
    <3>1. x \in Packets /\ x \in Int /\ x > first /\ x \notin arrived /\ x # i
      BY <1>1, PacketsNat DEF Missing
    <3>2. x < i
      BY <1>1, <2>1, <3>1, PacketsNat DEF Missing
    <3>3. ~(x < last)
      BY <1>2, <2>1, <3>1 DEF Missing
    <3>4. x # last
      BY <1>2, <3>1
    <3> QED BY <1>3, <3>1, <3>2, <3>3, <3>4
  <2> QED BY <2>1
<1>9. /\ IsFiniteSet(Missing \cup between)
      /\ Cardinality(Missing \cup between)
           = Cardinality(Missing) + gap - Cardinality(Missing \cap between)
      /\ Cardinality(Missing \cap between) \in Nat
  BY <1>7, MissingFinite, FS_Union, FS_Intersection, FS_CardinalityType
<1>10. Cardinality(Missing') <= Cardinality(Missing) + gap
  <2>1. Cardinality(Missing') <= Cardinality(Missing \cup between)
    BY <1>8, <1>9, FS_Subset
  <2> HIDE DEF between
  <2> QED BY <1>9, <2>1, MissingFinite
<1>11. ASSUME inOrder'
       PROVE  /\ inOrder
              /\ \A j \in arrived' : first' <= j /\ j <= last'
              /\ Cardinality(Missing') = Cardinality(Missing) + gap
  <2>1. \A j \in arrived : first <= j /\ j <= last
    BY <1>1, <1>2, <1>11
  <2>2. Missing \cap between = {}
    BY <1>2, <1>3, <2>1 DEF Missing
  <2>3. Missing' = Missing \cup between
    BY <1>1, <1>2, <1>3, <2>1, MediaAssumption DEF Missing, Packets
  <2>4. Cardinality(Missing \cap between) = 0
    BY <2>2, FS_EmptySet
  <2>5. Cardinality(Missing') = Cardinality(Missing) + gap
    <3> HIDE DEF between
    <3> QED BY <1>9, <2>3, <2>4, MissingFinite
  <2> QED BY <1>1, <1>2, <1>3, <1>11, <2>1, <2>5
<1>12. arrived' \subseteq Packets /\ {first', last'} \subseteq arrived'
  BY <1>1, <1>2
<1> HIDE DEF between
<1>13. /\ ~cut' => packets_lost' >= Cardinality(Missing')
       /\ inOrder' => packets_lost' <= Cardinality(Missing')
  <2>1. ASSUME ~cut' PROVE packets_lost' >= Cardinality(Missing')
    BY <1>2, <1>6, <1>10, <2>1, MissingFinite
  <2>2. ASSUME inOrder' PROVE packets_lost' <= Cardinality(Missing')
    BY <1>2, <1>6, <1>11, <2>2, MissingFinite
  <2> QED BY <2>1, <2>2
<1> QED BY <1>1, <1>6, <1>11, <1>12, <1>13 DEF Counted

LEMMA StepCounted ==
    ASSUME Counted, [Next]_vars
    PROVE  Counted'
<1>1. CASE UNCHANGED <<rtpReceiver, arrived, first, last, inOrder, cut, mixed>>
  BY <1>1 DEF Counted, Missing, rtpReceiver
<1>2. ASSUME NEW i \in Packets, Receive(i), ~mixed' PROVE Counted'
  <2>1. CASE first = -1
    BY <1>2, <2>1, FirstCounted
  <2>2. CASE first # -1
    <3>1. last \in Nat /\ i \in Nat
      BY <1>2, <2>2, PacketsNat DEF Counted, Receive
    <3>2. i <= last \/ i > last
      BY <3>1
    <3> QED BY <1>2, <2>2, <3>2, OldCounted, NewCounted
  <2> QED BY <2>1, <2>2
<1>3. ASSUME mixed' PROVE Counted'
  BY <1>3 DEF Counted
<1>4. CASE \/ Ask \/ SendNext \/ Extract \/ Tick \/ ResetPacer \/ ResetBuffer
           \/ UNCHANGED vars
           \/ \E kind \in Kinds \ {"video"} : SendAside(kind)
  BY <1>1, <1>4 DEF Ask, SendNext, Extract, Tick, ResetPacer, ResetBuffer, SendAside,
                    vars, media
<1>5. ASSUME NEW seq \in aside, ReceiveAside(seq) PROVE Counted'
  BY <1>3, <1>5 DEF ReceiveAside
<1> QED BY <1>2, <1>3, <1>4, <1>5 DEF Next

\* While only one payload type arrives, packets_lost hides no loss but in gaps
\* that are cut short, and invents none while packets arrive in order; at any
\* width of the sequence numbers, wrapping around as often as they do.
THEOREM LossesReported == Spec => []LossReported
<1>1. Init => Counted
  BY DEF Init, RtpInit, Counted
<1>2. Counted => LossReported
  BY DEF Counted, LossReported
<1> QED BY <1>1, <1>2, StepCounted, PTL DEF Spec
=============================================================================
