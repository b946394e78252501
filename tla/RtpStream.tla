----------------------------- MODULE RtpStream -----------------------------
(***************************************************************************)
(* Numbering and loss accounting of RTP packets: RTPSender and RTPReceiver *)
(* (network/protocol/rtp_sender.cpp, rtp_receiver.cpp).  The sender has a  *)
(* counter for each payload type, the receiver one expected number for all *)
(* that arrives.  Byte counts, timestamps and headers are left out.        *)
(***************************************************************************)
EXTENDS Integers

CONSTANTS
    Kinds,              \* payload types: "video", "audio", "control"
    SeqMod,             \* 2^16 in the code
    MaxMissing          \* 100 in the code: longer gaps are cut short

ASSUME RtpAssumption == SeqMod \in Nat \ {0} /\ MaxMissing \in Nat

VARIABLES
    \* RTPSender
    sequence_number,    \* video_, audio_ and control_sequence_number_
    packets_sent,
    \* RTPReceiver
    expected_sequence_number, has_received_first_packet,
    packets_received, packets_lost

rtpSender == <<sequence_number, packets_sent>>
rtpReceiver == <<expected_sequence_number, has_received_first_packet,
                 packets_received, packets_lost>>

\* uint16_t arithmetic
Succ(seq) == (seq + 1) % SeqMod

RtpInit ==
    /\ sequence_number = [k \in Kinds |-> 0]
    /\ packets_sent = 0
    /\ expected_sequence_number = 0
    /\ has_received_first_packet = FALSE
    /\ packets_received = 0
    /\ packets_lost = 0

\* SendVideoFrame, SendAudioPacket, SendControlMessage: the number is used up
\* whether or not the connection takes the packet.
SendPacket(kind, ok) ==
    /\ sequence_number' = [sequence_number EXCEPT ![kind] = Succ(@)]
    /\ packets_sent' = IF ok THEN packets_sent + 1 ELSE packets_sent

\* (Bug: the gap is taken without wrapping around.)
Gap_NoWrap(prev_seq, curr_seq) ==
    IF curr_seq > prev_seq THEN curr_seq - prev_seq - 1 ELSE 0

\* How many numbers lie between the two, going up and around.
Gap(prev_seq, curr_seq) == (curr_seq - prev_seq - 1) % SeqMod

\* The size of DetectMissingSequences(prev_seq, curr_seq): the loop stops
\* when it has collected more than MaxMissing.
MissingCount(prev_seq, curr_seq) ==
    IF Gap(prev_seq, curr_seq) > MaxMissing THEN MaxMissing + 1
    ELSE Gap(prev_seq, curr_seq)

\* ParsePacket of a well-formed packet, numbered seq.
UpdateStats(seq) ==
    /\ packets_received' = packets_received + 1
    /\ packets_lost' =
         IF has_received_first_packet /\ seq # expected_sequence_number
         THEN packets_lost
              + MissingCount((expected_sequence_number - 1) % SeqMod, seq)
         ELSE packets_lost
    /\ has_received_first_packet' = TRUE
    /\ expected_sequence_number' = Succ(seq)

-----------------------------------------------------------------------------
RtpTypeOK ==
    /\ sequence_number \in [Kinds -> 0 .. SeqMod - 1]
    /\ packets_sent \in Nat
    /\ expected_sequence_number \in 0 .. SeqMod - 1
    /\ has_received_first_packet \in BOOLEAN
    /\ packets_received \in Nat
    /\ packets_lost \in Nat
=============================================================================
