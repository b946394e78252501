------------------------------ MODULE HostVideo ------------------------------
(***************************************************************************)
(* The sending side's video: the loop that the interface prescribes        *)
(* (screen_capturer.h:108-118): capture a frame, encode it, release it. No *)
(* code under src/src runs it yet; the example program runs it without an  *)
(* encoder, which is the case of no encoder here.                          *)
(* Starting, stopping and destroying either part may come between two      *)
(* rounds, requests for a key frame and the desktop's changes at any time. *)
(***************************************************************************)
EXTENDS VideoEncoder, ScreenCapturer

VARIABLE encoded  \* the frame held has been passed to Encode

vars == <<encVars, capVars, encoded>>

Init == EncoderInit /\ CaptureInit /\ encoded = FALSE

EncodeHeld ==
  /\ held /\ ~encoded
  /\ Encode
  /\ encoded' = TRUE
  /\ UNCHANGED capVars

ManageEncoder ==
  /\ ~held
  /\ EncoderLifecycle
  /\ UNCHANGED <<capVars, encoded>>

AskForKeyFrame == ForceKeyFrame /\ UNCHANGED <<capVars, encoded>>

(* A frame is released once it was passed to the encoder, if there is one. *)
CaptureStep ==
  /\ CaptureNext
  /\ held /\ ~held' => encoded \/ ~enc_initialized_
  /\ encoded' = (encoded /\ held')
  /\ UNCHANGED encVars

Next == EncodeHeld \/ ManageEncoder \/ AskForKeyFrame \/ CaptureStep

Spec == Init /\ [][Next]_vars
=============================================================================
