---------------------------- MODULE VideoEncoder ----------------------------
(***************************************************************************)
(* The video encoder of the host: CreateVideoEncoder with its fallback     *)
(* (video_encoder.cpp), SoftwareEncoder and HardwareEncoder. The two       *)
(* classes have the same Encode, ProcessOutput and Flush line by line and  *)
(* differ in what can fail in Initialize. One action per call; a frame is  *)
(* the number Encode writes into its pts. Left out: the statistics and the *)
(* codec's parameters, which nothing here reads back.                      *)
(***************************************************************************)
EXTENDS AvCodec

CONSTANT MaxEncodes  \* bound: Encode calls between two Initialize

ASSUME MaxEncodesAssumption == MaxEncodes \in Nat \ {0}

VARIABLES
  encoder,          \* the class the factory made, "none" before it did
  enc_initialized_,
  enc_frame_count_, \* the pts of the next frame
  force_keyframe_,
  answer,           \* what the last Encode or Flush answered
  keyOwed,          \* history: a key frame asked for is not in the codec yet
  keyMissed         \* history: the frame carrying that request was not taken

encVars == <<encoder, enc_initialized_, enc_frame_count_, force_keyframe_,
             codecVars, answer, keyOwed, keyMissed>>

NoHistory == CodecAfresh /\ answer' = "none"

EncoderInit ==
  /\ encoder = "none" /\ enc_initialized_ = FALSE
  /\ enc_frame_count_ = 0 /\ force_keyframe_ = FALSE
  /\ CodecInit /\ answer = "none"
  /\ keyOwed = FALSE /\ keyMissed = FALSE

-----------------------------------------------------------------------------
(* CreateVideoEncoder makes a new object; the hardware class falls back to *)
(* the software one, and if that fails too there is no encoder.            *)
CreateVideoEncoder ==
  /\ encoder = "none"
  /\ \E class \in {"hardware", "software"} : encoder' = class
  /\ enc_initialized_' = TRUE /\ enc_frame_count_' = 0
  /\ force_keyframe_' = FALSE /\ keyOwed' = FALSE /\ keyMissed' = FALSE
  /\ NoHistory

(* Mutant: Initialize also clears the request.                             *)
ReopenedAfresh ==
  /\ enc_initialized_' = TRUE /\ enc_frame_count_' = 0
  /\ force_keyframe_' = FALSE
  /\ NoHistory
  /\ UNCHANGED <<encoder, keyOwed, keyMissed>>

(* Initialize that succeeds: a new context and numbers from 0 again; a     *)
(* request for a key frame made before stays.                              *)
Reopened ==
  /\ enc_initialized_' = TRUE /\ enc_frame_count_' = 0
  /\ NoHistory
  /\ UNCHANGED <<encoder, force_keyframe_, keyOwed, keyMissed>>

SoftwareInitialize == encoder = "software" /\ ~enc_initialized_ /\ Reopened
HardwareInitialize == encoder = "hardware" /\ ~enc_initialized_ /\ Reopened

(* Shutdown frees the context with whatever it still holds.                *)
SoftwareShutdown ==
  /\ encoder = "software" /\ enc_initialized_
  /\ enc_initialized_' = FALSE
  /\ NoHistory
  /\ UNCHANGED <<encoder, enc_frame_count_, force_keyframe_, keyOwed, keyMissed>>

HardwareShutdown ==
  /\ encoder = "hardware" /\ enc_initialized_
  /\ enc_initialized_' = FALSE
  /\ NoHistory
  /\ UNCHANGED <<encoder, enc_frame_count_, force_keyframe_, keyOwed, keyMissed>>

(* The owner drops its encoder (the destructor calls Shutdown).            *)
EncoderDestroyed ==
  /\ encoder # "none"
  /\ encoder' = "none" /\ enc_initialized_' = FALSE
  /\ force_keyframe_' = FALSE /\ keyOwed' = FALSE /\ keyMissed' = FALSE
  /\ NoHistory
  /\ UNCHANGED enc_frame_count_

ForceKeyFrame ==
  /\ encoder # "none"
  /\ force_keyframe_' = TRUE /\ keyOwed' = TRUE /\ keyMissed' = FALSE
  /\ UNCHANGED <<encoder, enc_initialized_, enc_frame_count_, codecVars, answer>>

-----------------------------------------------------------------------------
(* ProcessOutput, the last thing Encode does: EAGAIN and EOF are Ok(false).*)
(* n packets were received and dropped before it.                          *)
ProcessOutput(c, n) ==
  \E r \in ReceiveAnswers(c, FALSE) :
    /\ codec' = r.codec
    /\ reported' = IF r.ret = "ok" THEN Append(reported, r.unit) ELSE reported
    /\ lost' = lost + n + r.lost
    /\ answer' = CASE r.ret = "ok" -> "true"
                   [] r.ret = "error" -> "err"
                   [] OTHER -> "false"

(* The codec took the frame that this Encode numbered.                     *)
Taken ==
  /\ accepted' = accepted \cup {enc_frame_count_}
  /\ keyOwed' = (keyOwed /\ ~force_keyframe_)
  /\ UNCHANGED keyMissed

(* It did not, and a request that the frame carried went with it.          *)
NotTaken ==
  /\ keyMissed' = (keyMissed \/ force_keyframe_)
  /\ UNCHANGED <<accepted, keyOwed>>

(* Mutant: a packet is received to make room before every send.            *)
SendFrameAfterReceive(n) ==
  /\ "ok" \in SendAnswers(codec) /\ Taken
  /\ \E r \in ReceiveAnswers(Accepted(codec, n), FALSE) : ProcessOutput(r.codec, 0)

SendFrame(n) ==
  \/ /\ "ok" \in SendAnswers(codec)
     /\ Taken /\ ProcessOutput(Accepted(codec, n), 0)
  \/ /\ "eof" \in SendAnswers(codec)   \* passes for success
     /\ NotTaken /\ ProcessOutput(codec, 0)
  \/ /\ "error" \in SendAnswers(codec)
     /\ NotTaken /\ answer' = "err"
     /\ UNCHANGED <<codec, reported, lost>>

(* EAGAIN: one packet is received to make room and the frame sent again;   *)
(* the second ProcessOutput starts by giving that packet back.             *)
SendFrameAgain(n) ==
  /\ "again" \in SendAnswers(codec)
  /\ \E r \in ReceiveAnswers(codec, TRUE) :
       \/ /\ r.ret = "ok"
          /\ Taken /\ ProcessOutput(Accepted(r.codec, n), 1)
       \/ /\ NotTaken
          /\ answer' = "err" /\ codec' = r.codec
          /\ lost' = lost + 1
          /\ UNCHANGED reported

(* Encode numbers the frame and takes the request for a key frame before   *)
(* it knows whether the codec will take the frame.                         *)
Encode ==
  /\ enc_initialized_ /\ enc_frame_count_ < MaxEncodes
  /\ enc_frame_count_' = enc_frame_count_ + 1
  /\ force_keyframe_' = FALSE
  /\ SendFrame(enc_frame_count_) \/ SendFrameAgain(enc_frame_count_)
  /\ UNCHANGED <<encoder, enc_initialized_>>

(* Flush sends the end of the stream and receives until nothing is left;   *)
(* an error on the way ends it with what came before. EAGAIN on the send   *)
(* is an error here.                                                       *)
Flush ==
  /\ enc_initialized_
  /\ \/ \E k \in 0..Len(codec.inside) : \E r \in ReceiveAnswers(Drained(k), FALSE) :
          /\ Drain(k, r)
          /\ answer' = IF r.ret = "error" THEN "err" ELSE "flushed"
     \/ /\ SendAnswers(codec) \cap {"error", "again"} # {}
        /\ answer' = "err"
        /\ UNCHANGED codecVars
  /\ UNCHANGED <<encoder, enc_initialized_, enc_frame_count_, force_keyframe_,
                 keyOwed, keyMissed>>

EncoderLifecycle ==
  \/ CreateVideoEncoder \/ SoftwareInitialize \/ HardwareInitialize
  \/ SoftwareShutdown \/ HardwareShutdown \/ EncoderDestroyed \/ Flush

-----------------------------------------------------------------------------
(* Packets come out in the order of their frames, each once, and a frame   *)
(* the codec took is in the codec or its packet has been given to the      *)
(* caller, except for what a repeated send or a reported error may cost;   *)
(* after a Flush that succeeds nothing is left inside.                     *)
PacketsAccounted == Accounted /\ (answer = "flushed" => codec.inside = <<>>)

(* A key frame asked for is still to be requested of the codec, or went    *)
(* with a frame that the codec did not take (Encode clears the request     *)
(* before it sends): no other path, and no new Initialize, loses one.      *)
KeyRequestLostOnlyAs == keyOwed => force_keyframe_ \/ keyMissed
=============================================================================
