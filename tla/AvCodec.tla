------------------------------ MODULE AvCodec ------------------------------
(***************************************************************************)
(* The send/receive interface of libavcodec, as the encoders and the       *)
(* decoder of src/media/codec use it (the library itself is external).     *)
(* A codec context holds the units it has accepted and not returned yet,   *)
(* oldest first; without B-frames (max_b_frames = 0, video_encoder.h:83)   *)
(* it returns them in the order it was given them.                         *)
(* A unit is the number its caller gave it.                                *)
(***************************************************************************)
EXTENDS Naturals, Sequences, FiniteSets, Functions

VARIABLES
  codec,     \* codec_ctx_: the units inside, and whether it is draining
  accepted,  \* history: units the codec took
  reported,  \* history: what came of them and was given to the caller, in order
  lost       \* history: how often something may have been lost

codecVars == <<codec, accepted, reported, lost>>

EmptyCodec == [inside |-> <<>>, draining |-> FALSE]

CodecInit == codec = EmptyCodec /\ accepted = {} /\ reported = <<>> /\ lost = 0

(* A new context, or none.                                                 *)
CodecAfresh ==
  codec' = EmptyCodec /\ accepted' = {} /\ reported' = <<>> /\ lost' = 0

Accepted(c, n) == [c EXCEPT !.inside = Append(@, n)]

(* avcodec_send_*: a draining context answers EOF; a full one, which it    *)
(* can be only while it has output to give, answers EAGAIN.                *)
SendAnswers(c) ==
  IF c.draining THEN {"eof"}
  ELSE {"ok", "error"} \cup IF c.inside # <<>> THEN {"again"} ELSE {}

(* avcodec_receive_*: the oldest unit, if the context is ready to give it; *)
(* a context that has just refused input with EAGAIN is ready (owing). A   *)
(* draining one gives all it has and then answers EOF. An error costs the  *)
(* unit that was to come; lost counts it.                                  *)
Gone(c) == [c EXCEPT !.inside = Tail(@)]

ReceiveAnswers(c, owing) ==
  IF c.inside = <<>>
  THEN {[ret |-> r, codec |-> c, lost |-> 0] :
          r \in {"error", IF c.draining THEN "eof" ELSE "again"}}
  ELSE {[ret |-> "ok", unit |-> Head(c.inside), codec |-> Gone(c), lost |-> 0],
        [ret |-> "error", codec |-> Gone(c), lost |-> 1]}
       \cup IF c.draining \/ owing THEN {}
            ELSE {[ret |-> "again", codec |-> c, lost |-> 0]}

(* The end of the stream is sent, k units are received and given to the    *)
(* caller, and the next receive answers r.                                 *)
Drained(k) == [inside |-> SubSeq(codec.inside, k + 1, Len(codec.inside)),
               draining |-> TRUE]

Drain(k, r) ==
  /\ r \in ReceiveAnswers(Drained(k), FALSE)
  /\ r.ret # "ok"
  /\ codec' = r.codec
  /\ reported' = reported \o SubSeq(codec.inside, 1, k)
  /\ lost' = lost + r.lost
  /\ UNCHANGED accepted

-----------------------------------------------------------------------------
Missing == accepted \ (Range(codec.inside) \cup Range(reported))

(* What comes out comes in the order of what went in, each once; and what  *)
(* the codec took is in it or has been given to the caller, except for     *)
(* what a repeated send or a reported error may have cost.                 *)
Accounted ==
  /\ \A i, j \in 1..Len(reported) : i < j => reported[i] < reported[j]
  /\ Cardinality(Missing) <= lost
=============================================================================
