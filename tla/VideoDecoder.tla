---------------------------- MODULE VideoDecoder ----------------------------
(***************************************************************************)
(* VideoDecoder (video_decoder.cpp) and its HWDecoderContext               *)
(* (hw_decoder_context.cpp): Initialize with the hardware attempt and the  *)
(* fallback to software, Decode, Flush, FlushBuffers, Shutdown, and the    *)
(* get_format callback that the library makes while it decodes. Packets    *)
(* are numbered in the order they are passed in. Left out: the statistics  *)
(* and the parameters of the codec.                                        *)
(***************************************************************************)
EXTENDS D3DDevices, AvCodec

CONSTANT MaxDecodes  \* bound: packets passed to Decode between two Initialize

ASSUME DecoderAssumption == MaxDecodes \in Nat \ {0}

VARIABLES
  dec_initialized_, hw_init_attempted_,
  hw_context_,    \* the device of hw_context_, NoDevice when there is none
  codec_device,   \* the device codec_ctx_ decodes with, NoDevice: in software
  hw_frames_ctx,  \* the codec has a frame pool on that device
  frame,          \* the AVFrame of the caller
  epoch,          \* history: how often Initialize has succeeded
  decodes         \* history: packets passed in since it last did

decVars == <<dec_initialized_, hw_init_attempted_, hw_context_, codec_device,
             hw_frames_ctx, codecVars, frame, epoch, decodes>>

NoFrame == [device |-> NoDevice, epoch |-> 0]

DecoderInit ==
  /\ dec_initialized_ = FALSE /\ hw_init_attempted_ = FALSE
  /\ hw_context_ = NoDevice /\ codec_device = NoDevice /\ hw_frames_ctx = FALSE
  /\ CodecInit /\ frame = NoFrame /\ epoch = 0 /\ decodes = 0

-----------------------------------------------------------------------------
DecoderOpened(d) ==
  /\ dec_initialized_' = TRUE
  /\ hw_context_' = d /\ codec_device' = d /\ hw_frames_ctx' = FALSE
  /\ CodecAfresh /\ epoch' = epoch + 1 /\ decodes' = 0
  /\ UNCHANGED frame

(* HWDecoderContext has a D3D11 device when it is of type kD3D11VA.        *)
GetD3D11Device == IF hw_context_ \in D3D11Devices THEN hw_context_ ELSE NoDevice

(* DecoderConfig::hw_decoder_type, or the one that is detected: any device *)
(* there is. Its context has two references, hw_context_ and codec_ctx_.   *)
InitHWDecoder ==
  /\ ~dec_initialized_ /\ ~hw_init_attempted_
  /\ hw_init_attempted_' = TRUE
  /\ \E d \in Fresh : mem' = AvRef(AvCreate(mem, d), d) /\ DecoderOpened(d)

(* Software, because it was asked for, because the hardware attempt failed *)
(* (what it had made is dropped), or because there was one before.         *)
InitSWDecoder ==
  /\ ~dec_initialized_
  /\ hw_init_attempted_' \in {hw_init_attempted_, TRUE}
  /\ DecoderOpened(NoDevice)
  /\ UNCHANGED mem

DecoderInitializeFails ==
  /\ ~dec_initialized_
  /\ hw_init_attempted_' \in {hw_init_attempted_, TRUE}
  /\ UNCHANGED <<mem, dec_initialized_, hw_context_, codec_device,
                 hw_frames_ctx, codecVars, frame, epoch, decodes>>

PoolUnref(m) == IF hw_frames_ctx THEN AvUnref(m, codec_device) ELSE m

DecoderShutdown ==
  /\ dec_initialized_
  /\ dec_initialized_' = FALSE /\ hw_init_attempted_' = FALSE
  /\ mem' = AvUnref(AvUnref(PoolUnref(mem), codec_device), hw_context_)
  /\ hw_context_' = NoDevice /\ codec_device' = NoDevice /\ hw_frames_ctx' = FALSE
  /\ CodecAfresh
  /\ UNCHANGED <<frame, epoch, decodes>>

-----------------------------------------------------------------------------
(* ReceiveFrame empties the caller's frame first; a hardware frame keeps   *)
(* its pool, and so the device, alive. n frames were dropped before it.    *)
ReceiveFrame(c, m, n) ==
  LET emptied == AvUnref(m, frame.device) IN
  \E r \in ReceiveAnswers(c, FALSE) :
    /\ codec' = r.codec
    /\ lost' = lost + n + r.lost
    /\ IF r.ret = "ok"
       THEN /\ frame' = [device |-> codec_device, epoch |-> epoch]
            /\ mem' = AvRef(emptied, codec_device)
            /\ reported' = Append(reported, r.unit)
       ELSE frame' = NoFrame /\ mem' = emptied /\ UNCHANGED reported

(* GetHWFormat: without a frame pool, or with one the library has replaced,*)
(* the context makes one.                                                  *)
GetHWFormat == hw_frames_ctx' = (codec_device # NoDevice)

WithPool == IF codec_device # NoDevice /\ ~hw_frames_ctx
            THEN AvRef(mem, codec_device) ELSE mem

(* It answers AV_PIX_FMT_NONE, and the library fails the packet: the codec *)
(* decodes with the device or not at all.                                  *)
GetHWFormatFails ==
  /\ codec_device # NoDevice
  /\ hw_frames_ctx' = FALSE /\ mem' = PoolUnref(mem)
  /\ UNCHANGED <<codecVars, frame>>

(* Mutant: a frame is received to make room before every send.             *)
SendPacketAfterReceive(n) ==
  /\ "ok" \in SendAnswers(codec)
  /\ accepted' = accepted \cup {n}
  /\ GetHWFormat
  /\ \E r \in ReceiveAnswers(Accepted(codec, n), FALSE) :
       ReceiveFrame(r.codec, WithPool, 0)

SendPacket(n) ==
  \/ /\ "ok" \in SendAnswers(codec)
     /\ accepted' = accepted \cup {n}
     /\ GetHWFormat /\ ReceiveFrame(Accepted(codec, n), WithPool, 0)
  \/ /\ "eof" \in SendAnswers(codec)   \* passes for success
     /\ ReceiveFrame(codec, mem, 0)
     /\ UNCHANGED <<accepted, hw_frames_ctx>>
  \/ /\ "error" \in SendAnswers(codec)
     /\ UNCHANGED <<codecVars, frame, mem, hw_frames_ctx>>
  \/ GetHWFormatFails

(* EAGAIN: a frame is received to make room and the packet sent again; the *)
(* second ReceiveFrame starts by emptying the frame.                       *)
SendPacketAgain(n) ==
  /\ "again" \in SendAnswers(codec)
  /\ \E r \in ReceiveAnswers(codec, TRUE) :
       \/ /\ r.ret = "ok"
          /\ accepted' = accepted \cup {n}
          /\ GetHWFormat /\ ReceiveFrame(Accepted(r.codec, n), WithPool, 1)
       \/ /\ r.ret = "ok"    \* the packet is refused, the frame is filled
          /\ frame' = [device |-> codec_device, epoch |-> epoch]
          /\ mem' = AvRef(AvUnref(mem, frame.device), codec_device)
          /\ codec' = r.codec /\ lost' = lost + 1
          /\ UNCHANGED <<accepted, reported, hw_frames_ctx>>
       \/ /\ r.ret = "error"
          /\ frame' = NoFrame /\ mem' = AvUnref(mem, frame.device)
          /\ codec' = r.codec /\ lost' = lost + 1
          /\ UNCHANGED <<accepted, reported, hw_frames_ctx>>

Decode ==
  /\ dec_initialized_ /\ decodes < MaxDecodes
  /\ decodes' = decodes + 1
  /\ SendPacket(decodes) \/ SendPacketAgain(decodes)
  /\ UNCHANGED <<dec_initialized_, hw_init_attempted_, hw_context_,
                 codec_device, epoch>>

(* Flush sends the end of the stream and receives until nothing is left or *)
(* an error ends it; the frames go to the caller, who drops them.          *)
DecoderFlush ==
  /\ dec_initialized_
  /\ \E k \in 0..Len(codec.inside) : \E r \in ReceiveAnswers(Drained(k), FALSE) :
       Drain(k, r)
  /\ UNCHANGED <<mem, dec_initialized_, hw_init_attempted_, hw_context_,
                 codec_device, hw_frames_ctx, frame, epoch, decodes>>

FlushBuffers ==
  /\ dec_initialized_
  /\ codec' = EmptyCodec
  /\ accepted' = accepted \ Range(codec.inside)
  /\ UNCHANGED <<mem, dec_initialized_, hw_init_attempted_, hw_context_,
                 codec_device, hw_frames_ctx, frame, epoch, decodes, reported,
                 lost>>

(* The caller is done with its frame (av_frame_unref).                     *)
DropFrame ==
  /\ frame # NoFrame
  /\ frame' = NoFrame /\ mem' = AvUnref(mem, frame.device)
  /\ UNCHANGED <<dec_initialized_, hw_init_attempted_, hw_context_,
                 codec_device, hw_frames_ctx, codecVars, epoch, decodes>>

DecoderNext ==
  \/ InitHWDecoder \/ InitSWDecoder \/ DecoderInitializeFails \/ DecoderShutdown
  \/ Decode \/ DecoderFlush \/ FlushBuffers \/ DropFrame
=============================================================================
