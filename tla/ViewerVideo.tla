----------------------------- MODULE ViewerVideo -----------------------------
(***************************************************************************)
(* The receiving side's video: a decoder and the renderer that             *)
(* CreateVideoRenderer made. The D3D11 renderer is given the decoder's     *)
(* hardware context (RendererConfig::hw_context,                           *)
(* VideoDecoder::GetHWContext), so that both use one D3D11 device; the SDL *)
(* renderer takes no notice of it.                                         *)
(***************************************************************************)
EXTENDS VideoDecoder, D3D11Renderer, SDLRenderer

CONSTANTS
  MaxEpochs,       \* bound: Initialize calls of the decoder that succeed
  SoftwareFormats  \* formats of the frames that are decoded in software

ASSUME ViewerAssumption == SoftwareFormats \subseteq Formats \ {"surface"}

VARIABLES
  renderer_type,  \* what CreateVideoRenderer was asked for
  paired,  \* history: the decoder's epoch at the renderer's Initialize
  shown    \* history: the frame that was rendered last

viewerVars == <<mem, decVars, renVars, sdlVars, renderer_type, paired, shown>>

ViewerInit ==
  /\ DevicesInit /\ DecoderInit /\ RendererInit /\ SDLInit
  /\ renderer_type \in {"kD3D11", "kSDL"}
  /\ paired = 0 /\ shown = NoFrame

DecoderStep ==
  /\ DecoderNext /\ epoch' <= MaxEpochs
  /\ UNCHANGED <<renVars, sdlVars, renderer_type, paired, shown>>

(* The renderer gets the context of the decoder as it is at that moment.   *)
InitializeRenderer ==
  /\ renderer_type = "kD3D11"
  /\ RendererInitialize(GetD3D11Device) \/ RendererInitializeFails(GetD3D11Device)
  /\ paired' = IF dec_initialized_ THEN epoch ELSE 0
  /\ UNCHANGED <<decVars, sdlVars, renderer_type, shown>>

RendererStep ==
  /\ renderer_type = "kD3D11"
  /\ RendererShutdown \/ RendererReplaced \/ OnResize \/ Clear
  /\ UNCHANGED <<decVars, sdlVars, renderer_type, paired, shown>>

FormatsOf(f) ==
  CASE f.device = NoDevice       -> SoftwareFormats
    [] f.device \in D3D11Devices -> {"surface"}
    [] OTHER                     -> {"surface", "other"}

RenderFrame ==
  /\ renderer_type = "kD3D11" /\ frame # NoFrame
  /\ \E fmt \in FormatsOf(frame), size \in Sizes : Render(frame, fmt, size)
  /\ shown' = frame
  /\ UNCHANGED <<decVars, sdlVars, renderer_type, paired>>

(* RendererConfig::input_format is NV12 unless the caller knows better.    *)
SDLStep ==
  /\ renderer_type = "kSDL"
  /\ \/ \E kind \in {"own", "foreign"}, size \in Sizes, fmt \in {"nv12", "yuv420p"} :
           SDLInitialize(kind, size, fmt) \/ SDLInitializeFails(kind, size, fmt)
     \/ SDLShutdown \/ SDLClear
  /\ UNCHANGED <<mem, decVars, renVars, renderer_type, paired, shown>>

SDLRenderFrame ==
  /\ renderer_type = "kSDL" /\ frame # NoFrame
  /\ \E fmt \in FormatsOf(frame), size \in Sizes : SDLRender(fmt, size)
  /\ shown' = frame
  /\ UNCHANGED <<mem, decVars, renVars, renderer_type, paired>>

ViewerNext ==
  \/ DecoderStep
  \/ InitializeRenderer \/ RendererStep \/ RenderFrame
  \/ SDLStep \/ SDLRenderFrame

ViewerSpec == ViewerInit /\ [][ViewerNext]_viewerVars

-----------------------------------------------------------------------------
One(b) == IF b THEN 1 ELSE 0

(* Every reference to a device, and to the context around it, belongs to   *)
(* somebody who will let go of it: the decoder, its codec and frame pool,  *)
(* the caller's frame, the renderer. The references that are left over     *)
(* are those which Shutdown of a sharing renderer detached.                *)
DeviceRefsAccounted ==
  \A d \in Devices :
    /\ mem.av[d] = One(hw_context_ = d) + One(codec_device = d)
                   + One(hw_frames_ctx /\ codec_device = d) + One(frame.device = d)
    /\ mem.com[d] = One(mem.av[d] > 0) + One(device_ = d) + detached[d]

(* The renderer copies between two devices only for a frame the decoder    *)
(* made before or after the opening whose context the renderer was given:  *)
(* nobody tells the renderer of another. It takes a texture for pixels     *)
(* only for such a frame, or for one of a hardware decoder without D3D11.  *)
WrongDeviceOnlyWhenReopened ==
  /\ drawn = "foreign" => shown.epoch # paired
  /\ drawn = "pixels" => shown.epoch # paired \/ shown.device \notin D3D11Devices

(* Render of the D3D11 renderer answers Ok, for a frame of its own device  *)
(* or of software, without showing the whole picture for one of three      *)
(* reasons: an OnResize or a new texture has failed; the video has not had *)
(* one size since Initialize, which zero copy does not notice; or frames   *)
(* decoded in software are not NV12.                                       *)
D3D11DarkOnlyAs ==
  /\ drawn = "nothing" => broken
  /\ drawn = "misfit" => \E s, t \in seen_sizes : s # t
  /\ drawn = "luma" => ~(SoftwareFormats \subseteq {"nv12"})

(* The SDL renderer fails to show a frame for one of four reasons: it is a *)
(* hardware surface; its format has no SDL format, whatever the texture;   *)
(* the texture is still the one that Initialize made for another format    *)
(* (or the decoder itself gives frames of two formats); or a texture of a  *)
(* new size could not be made and the old one is gone.                     *)
SDLDarkOnlyAs ==
  /\ shows = "no_lines" => showsFmt = "surface"
  /\ shows = "garbage" => showsFmt = "other"
  /\ shows = "mismatch" => configured \/ {"nv12", "yuv420p"} \subseteq SoftwareFormats
  /\ shows = "untextured" => lostTo # "nothing"

(* Whichever renderer the viewer has, a frame that Render answered Ok for, *)
(* or failed for, stays dark for one of those reasons only.                *)
DarkOnlyAs == D3D11DarkOnlyAs /\ SDLDarkOnlyAs

(* The window on the screen is the renderer's, or there is none: however   *)
(* Initialize fails, no window it made stays behind.                       *)
SDLWindowOwned ==
  /\ windows = One(window_ = "own")
  /\ window_ = "own" => sdl_initialized_

(* Frames come out in the order of their packets, each once, and a packet  *)
(* that the codec took is in it or has given its frame to the caller,      *)
(* except for what a repeated send or a reported error may have cost.      *)
FramesAccounted == Accounted
=============================================================================
