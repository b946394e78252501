----------------------------- MODULE SDLRenderer -----------------------------
(***************************************************************************)
(* SDLRenderer (sdl_renderer.cpp): its window and its texture through      *)
(* Initialize, Render, Clear, OnResize and Shutdown. SDL is external: it   *)
(* refuses to make what it is asked for, to fill a texture that is not     *)
(* there or has another planar format, and to copy lines of no length.     *)
(* Left out: rectangles and statistics.                                    *)
(***************************************************************************)
EXTENDS Naturals

VARIABLES
  sdl_initialized_,
  window_,           \* "none", "own", or "foreign": made from a given handle
  texture_,          \* the size and the format it was made for, or NoTexture
  sdl_video_size_,   \* video_width_, video_height_
  windows,           \* history: the windows it made and has not destroyed
  lostTo,            \* history: why the last texture could not be made
  configured,        \* history: the texture is the one Initialize made
  shows, showsFmt    \* history: what the last Render did, with which format

sdlVars == <<sdl_initialized_, window_, texture_, sdl_video_size_, windows,
             lostTo, configured, shows, showsFmt>>

(* Planar formats with a branch of their own; what GetSDLPixelFormat does  *)
(* not know but has lines, like yuvj420p and CUDA; and hardware surfaces,  *)
(* which have none (D3D11, DXVA2, QSV). Packed formats are left out: no    *)
(* decoder of this program produces them.                                  *)
Formats == {"nv12", "yuv420p", "other", "surface"}
HasSDLFormat(fmt) == fmt \in {"nv12", "yuv420p"}
NoTexture == [size |-> 0, fmt |-> "none"]

SDLInit ==
  /\ sdl_initialized_ = FALSE /\ window_ = "none" /\ texture_ = NoTexture
  /\ sdl_video_size_ = 0
  /\ windows = 0
  /\ lostTo = "nothing" /\ configured = FALSE
  /\ shows = "none" /\ showsFmt = "none"

-----------------------------------------------------------------------------
(* Mutant: the format the renderer was configured with is kept.            *)
CreateTextureOfOldFormat(size, fmt) ==
  /\ texture_' = [size |-> size, fmt |-> IF texture_ = NoTexture THEN fmt ELSE texture_.fmt]
  /\ sdl_video_size_' = size
  /\ lostTo' = "nothing"

(* The old texture is destroyed first.                                     *)
CreateTexture(size, fmt) ==
  /\ HasSDLFormat(fmt)
  /\ texture_' = [size |-> size, fmt |-> fmt]
  /\ sdl_video_size_' = size
  /\ lostTo' = "nothing"

(* SDL refuses it, or there is no such format: the texture is gone, and    *)
(* the renderer still has the size of the old one.                         *)
CreateTextureFails(fmt) ==
  /\ texture_' = NoTexture
  /\ lostTo' = IF HasSDLFormat(fmt) THEN "refusal" ELSE "format"

MakeWindow(kind) ==
  /\ window_' = kind
  /\ windows' = IF kind = "own" THEN windows + 1 ELSE windows

SDLInitialize(kind, size, fmt) ==
  /\ ~sdl_initialized_
  /\ MakeWindow(kind)
  /\ CreateTexture(size, fmt)
  /\ sdl_initialized_' = TRUE
  /\ configured' = TRUE
  /\ shows' = "none" /\ showsFmt' = "none"

(* Mutant: the window it made is not destroyed.                            *)
GiveUpWindowLeaks(kind) == MakeWindow(kind)

(* A window it made itself is destroyed again; one made from a handle is   *)
(* kept, for nobody: the next Initialize overwrites window_.               *)
GiveUpWindow(kind) ==
  /\ window_' = IF kind = "own" THEN "none" ELSE kind
  /\ UNCHANGED windows

(* SDL cannot start; or there is no window; or no renderer, not even in    *)
(* software; or no texture.                                                *)
SDLInitializeFails(kind, size, fmt) ==
  /\ ~sdl_initialized_
  /\ \/ UNCHANGED <<window_, windows, sdl_video_size_>>
     \/ window_' = "none" /\ sdl_video_size_' = size /\ UNCHANGED windows
     \/ GiveUpWindow(kind) /\ sdl_video_size_' = size
  /\ shows' = "none" /\ showsFmt' = "none"
  /\ UNCHANGED <<sdl_initialized_, texture_, lostTo, configured>>

(* Shutdown, also by the destructor. SDL_DestroyWindow is for own windows. *)
SDLShutdown ==
  /\ sdl_initialized_
  /\ sdl_initialized_' = FALSE
  /\ texture_' = NoTexture
  /\ window_' = "none"
  /\ windows' = IF window_ = "own" THEN windows - 1 ELSE windows
  /\ configured' = FALSE /\ lostTo' = "nothing"
  /\ shows' = "none" /\ showsFmt' = "none"
  /\ UNCHANGED sdl_video_size_

-----------------------------------------------------------------------------
(* SDL_UpdateNVTexture and SDL_UpdateYUVTexture want a texture of their    *)
(* format. SDL_UpdateTexture takes any, and reads all of it from the first *)
(* plane; the "lines" of a hardware surface have no length.                *)
Updated(tex, fmt) ==
  IF tex = NoTexture THEN "untextured"
  ELSE CASE fmt = "surface" -> "no_lines"
         [] fmt = "other"   -> "garbage"
         [] OTHER           -> IF tex.fmt = fmt THEN "video" ELSE "mismatch"

(* A frame of another size than the last texture was made for needs a new  *)
(* one; a frame of another format does not get one.                        *)
SDLRender(fmt, size) ==
  /\ sdl_initialized_
  /\ \/ /\ size = sdl_video_size_
        /\ shows' = Updated(texture_, fmt)
        /\ UNCHANGED <<texture_, sdl_video_size_, lostTo, configured>>
     \/ /\ size # sdl_video_size_
        /\ CreateTexture(size, fmt)
        /\ shows' = Updated(texture_', fmt)
        /\ configured' = FALSE
     \/ /\ size # sdl_video_size_
        /\ CreateTextureFails(fmt)
        /\ configured' = FALSE
        /\ shows' = "untextured"
        /\ UNCHANGED sdl_video_size_
  /\ showsFmt' = fmt
  /\ UNCHANGED <<sdl_initialized_, window_, windows>>

(* Clear shows black. OnResize, which only notes the size of the window,   *)
(* changes nothing here.                                                   *)
SDLClear ==
  /\ sdl_initialized_
  /\ shows' = "none" /\ showsFmt' = "none"
  /\ UNCHANGED <<sdl_initialized_, window_, texture_, sdl_video_size_, windows,
                 lostTo, configured>>
=============================================================================
