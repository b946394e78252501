---------------------------- MODULE D3D11Renderer ----------------------------
(***************************************************************************)
(* D3D11Renderer (d3d11_renderer.cpp): the device it shares with the       *)
(* hardware decoder or makes for itself, its render target and its video   *)
(* texture, through Initialize, Shutdown, Render, Clear, OnResize and the  *)
(* destructor. Shaders, viewports and statistics are left out.             *)
(***************************************************************************)
EXTENDS D3DDevices

CONSTANTS
  Sizes,       \* bound: the sizes of video frames
  MaxDetached  \* bound: how often a renderer detaches a device

ASSUME RendererAssumption == Sizes # {} /\ MaxDetached \in Nat

VARIABLES
  ren_initialized_,
  device_,              \* the device of device_ and context_
  zero_copy_enabled_,
  render_target_view_,  \* there is one
  video_texture_, video_size_,
  broken,               \* history: OnResize or a new texture has failed
  seen_sizes,           \* history: the size Initialize was given, and those of
                        \* the frames rendered since
  drawn,                \* history: what the last Render that answered Ok did
  detached              \* history: how often Shutdown detached each device

renVars == <<ren_initialized_, device_, zero_copy_enabled_, render_target_view_,
             video_texture_, video_size_, broken, seen_sizes, drawn, detached>>

RendererInit ==
  /\ ren_initialized_ = FALSE /\ device_ = NoDevice /\ zero_copy_enabled_ = FALSE
  /\ render_target_view_ = FALSE /\ video_texture_ = FALSE
  /\ video_size_ \in Sizes
  /\ broken = FALSE /\ seen_sizes = {} /\ drawn = "none"
  /\ detached = [d \in Devices |-> 0]

-----------------------------------------------------------------------------
(* Mutant: Attach without AddRef.                                          *)
AttachedUncounted(hw) ==
  IF hw = NoDevice THEN [device |-> device_, mem |-> mem]
  ELSE [device |-> hw, mem |-> ComUnref(mem, device_)]

(* Initialize with the D3D11 device of a hardware decoder, or NoDevice.    *)
(* device_.Attach lets go of the device held before; AddRef follows.       *)
Attached(hw) ==
  IF hw = NoDevice THEN [device |-> device_, mem |-> mem]
  ELSE [device |-> hw, mem |-> ComRef(ComUnref(mem, device_), hw)]

(* Mutant: the test for a device is left out.                              *)
WithOwnDevice(a) ==
  {[device |-> d, mem |-> ComRef(ComUnref(a.mem, a.device), d)] :
     d \in Fresh \cap D3D11Devices}

(* CreateDeviceAndSwapChain makes a device only when there is none.        *)
WithDevice(a) ==
  IF a.device # NoDevice THEN {a}
  ELSE {[device |-> d, mem |-> ComRef(a.mem, d)] : d \in Fresh \cap D3D11Devices}

(* Mutant: the size of the configuration is not taken over.                *)
SizedAsBefore(size) == UNCHANGED video_size_

Sized(size) == video_size_' = size

RendererInitialize(hw) ==
  /\ ~ren_initialized_
  /\ zero_copy_enabled_' = (zero_copy_enabled_ \/ hw # NoDevice)
  /\ \E a \in WithDevice(Attached(hw)) : device_' = a.device /\ mem' = a.mem
  /\ \E size \in Sizes : Sized(size) /\ seen_sizes' = {size}
  /\ ren_initialized_' = TRUE
  /\ render_target_view_' = TRUE /\ video_texture_' = TRUE
  /\ broken' = FALSE /\ drawn' = "none"
  /\ UNCHANGED detached

(* A step fails: what the steps before it made stays where it is (the      *)
(* video texture is made last).                                            *)
RendererInitializeFails(hw) ==
  /\ ~ren_initialized_
  /\ zero_copy_enabled_' = (zero_copy_enabled_ \/ hw # NoDevice)
  /\ \E a \in {Attached(hw)} \cup WithDevice(Attached(hw)) :
       /\ device_' = a.device /\ mem' = a.mem
  /\ \E size \in Sizes : Sized(size)
  /\ render_target_view_' \in BOOLEAN
  /\ drawn' = "none"
  /\ UNCHANGED <<ren_initialized_, video_texture_, broken, seen_sizes, detached>>

(* Shutdown releases its own device and detaches the shared one.           *)
RendererShutdown ==
  /\ ren_initialized_
  /\ IF zero_copy_enabled_
     THEN /\ detached[device_] < MaxDetached
          /\ detached' = [detached EXCEPT ![device_] = @ + 1]
          /\ UNCHANGED mem
     ELSE mem' = ComUnref(mem, device_) /\ UNCHANGED detached
  /\ device_' = NoDevice
  /\ render_target_view_' = FALSE /\ video_texture_' = FALSE
  /\ ren_initialized_' = FALSE /\ seen_sizes' = {} /\ drawn' = "none"
  /\ UNCHANGED <<zero_copy_enabled_, video_size_, broken>>

(* The owner drops a renderer that is not initialized (its members release *)
(* what they hold) and makes another.                                      *)
RendererReplaced ==
  /\ ~ren_initialized_
  /\ mem' = ComUnref(mem, device_) /\ device_' = NoDevice
  /\ zero_copy_enabled_' = FALSE
  /\ render_target_view_' = FALSE /\ video_texture_' = FALSE
  /\ drawn' = "none"
  /\ UNCHANGED <<ren_initialized_, video_size_, broken, seen_sizes, detached>>

-----------------------------------------------------------------------------
(* What is drawn of a video texture (there may be none) into the target.   *)
Target(texture) == IF texture /\ render_target_view_ THEN "video" ELSE "nothing"

(* Present ends a Render; when it fails Render answers an error.           *)
Presented(what) == drawn' \in {what, "none"}

(* A D3D11 frame, with zero copy: as much of its texture as the frame has  *)
(* is copied into the video texture, which may have another size.          *)
RenderHWFrame(f, size) ==
  /\ f.device \in D3D11Devices /\ zero_copy_enabled_
  /\ Presented(IF f.device # device_ THEN "foreign"
               ELSE IF size # video_size_ THEN "misfit"
               ELSE Target(video_texture_))
  /\ UNCHANGED <<video_texture_, video_size_, broken>>

(* Any other frame is uploaded, from its first plane on and as NV12. That  *)
(* is no picture when the frame is on a device, and only the brightness    *)
(* when the frame has another format.                                      *)
Uploaded(f, fmt, texture) ==
  IF f.device # NoDevice THEN "pixels"
  ELSE IF Target(texture) = "video" /\ fmt # "nv12" THEN "luma"
  ELSE Target(texture)

(* A new size needs a new texture, made after the old one is gone.         *)
RenderSWFrame(f, fmt, size) ==
  /\ f.device \notin D3D11Devices \/ ~zero_copy_enabled_
  /\ \/ /\ size = video_size_
        /\ Presented(Uploaded(f, fmt, video_texture_))
        /\ UNCHANGED <<video_texture_, video_size_, broken>>
     \/ /\ size # video_size_
        /\ video_texture_' = TRUE /\ video_size_' = size
        /\ Presented(Uploaded(f, fmt, TRUE))
        /\ UNCHANGED broken
     \/ /\ size # video_size_
        /\ video_texture_' = FALSE /\ broken' = TRUE
        /\ drawn' = "none"
        /\ UNCHANGED video_size_

Render(f, fmt, size) ==
  /\ ren_initialized_
  /\ RenderHWFrame(f, size) \/ RenderSWFrame(f, fmt, size)
  /\ seen_sizes' = seen_sizes \cup {size}
  /\ UNCHANGED <<mem, ren_initialized_, device_, zero_copy_enabled_,
                 render_target_view_, detached>>

(* Clear shows black.                                                      *)
Clear ==
  /\ ren_initialized_
  /\ drawn' = "none"
  /\ UNCHANGED <<mem, ren_initialized_, device_, zero_copy_enabled_,
                 render_target_view_, video_texture_, video_size_, broken,
                 seen_sizes, detached>>

(* Mutant: the render target is not made again.                            *)
OnResizeWithoutTarget ==
  /\ ren_initialized_
  /\ render_target_view_' = FALSE /\ drawn' = "none"
  /\ UNCHANGED <<mem, ren_initialized_, device_, zero_copy_enabled_,
                 video_texture_, video_size_, broken, seen_sizes, detached>>

(* OnResize gives up the render target before the swap chain is resized.   *)
OnResize ==
  /\ ren_initialized_
  /\ \/ render_target_view_' = TRUE /\ UNCHANGED broken
     \/ render_target_view_' = FALSE /\ broken' = TRUE
  /\ drawn' = "none"
  /\ UNCHANGED <<mem, ren_initialized_, device_, zero_copy_enabled_,
                 video_texture_, video_size_, seen_sizes, detached>>
=============================================================================
