--------------------------- MODULE ScreenCapturer ---------------------------
(***************************************************************************)
(* ScreenCapturerDxgi (screen_capturer_win.cpp): the COM objects it holds  *)
(* through raw pointers, through Initialize with its steps and their       *)
(* failures, Start, Stop, CaptureFrame, ReleaseFrame, Shutdown and the     *)
(* destructor. Around it the desktop: a change of the display mode or of   *)
(* the desktop ends a duplication, and the GPU may be removed. A frame is  *)
(* what its metadata says of it: whether it is a key frame, and which      *)
(* regions of the desktop it reports as changed. Left out: pixels, sizes,  *)
(* the frame rate, accumulated frames and the choice of the adapter.       *)
(***************************************************************************)
EXTENDS Naturals

CONSTANT Regions  \* parts of the desktop that change as a whole

Objects == {"device", "context", "output", "dup", "staging"}

VARIABLES
  exists,    \* the capturer has been made and not destroyed
  ptr,       \* member pointers: null, set, or never written (garbage)
  refs,      \* references to each kind of object that are not released
  is_initialized_, is_running_,
  held,      \* the caller has a frame that it has not released
  desktop,   \* whether the duplication is lost, the GPU removed
  fault,     \* history: an access through a pointer to no object
  failed,    \* history: what has failed since the last Shutdown
  config_,   \* enable_dirty_rect and enable_move_rect
  should_force_key_frame_,
  changes,   \* what happened to each region since the last frame acquired
  unseen,    \* history: regions with a change that no frame has reported
  excused    \* history: regions dropped with a frame, or moved unread

objVars == <<exists, ptr, refs, is_initialized_, is_running_, held, desktop,
             fault, failed>>
metaVars == <<config_, should_force_key_frame_, changes, unseen, excused>>
capVars == <<objVars, metaVars>>

Unchanged == [r \in Regions |-> "no"]
Redrawn == [r \in Regions |-> "dirty"]
NothingUnseen == unseen' = {} /\ excused' = {}

CaptureInit ==
  /\ exists = FALSE
  /\ ptr = [o \in Objects |-> "null"] /\ refs = [o \in Objects |-> 0]
  /\ is_initialized_ = FALSE /\ is_running_ = FALSE /\ held = FALSE
  /\ desktop = [lost |-> FALSE, removed |-> FALSE]
  /\ fault = "none" /\ failed = {}
  /\ config_ = [dirty |-> TRUE, move |-> TRUE]
  /\ should_force_key_frame_ = FALSE
  /\ changes = Unchanged /\ unseen = {} /\ excused = {}

Usable(o) == ptr[o] = "set" /\ refs[o] > 0

-----------------------------------------------------------------------------
(* The constructor writes every member but output_.                        *)
Construct ==
  /\ ~exists /\ exists' = TRUE
  /\ \E p \in {"null", "garbage"} : ptr' = [ptr EXCEPT !["output"] = p]
  /\ config_' = [dirty |-> TRUE, move |-> TRUE]
  /\ should_force_key_frame_' = FALSE
  /\ UNCHANGED <<refs, is_initialized_, is_running_, held, desktop, fault, failed,
                 changes, unseen, excused>>

(* Initialize keeps the configuration it is given, even when it fails.     *)
Configure == \E dirty, move \in BOOLEAN : config_' = [dirty |-> dirty, move |-> move]

(* The steps of Initialize that can fail: what the steps before made, and  *)
(* the pointers into which a failing creation writes null.                 *)
Steps ==
  {[made |-> {}, fails |-> {"device", "context"}],
   [made |-> {"device", "context"}, fails |-> {}],
   [made |-> {"device", "context", "output"}, fails |-> {"dup"}],
   [made |-> Objects \ {"staging"}, fails |-> {"staging"}]}

(* A step fails, before or in its creation: Initialize releases what was   *)
(* made and leaves the pointers as they are.                               *)
InitializeFails ==
  /\ exists /\ ~is_initialized_
  /\ \E s \in Steps, written \in BOOLEAN :
       /\ ptr' = [o \in Objects |->
                    IF o \in s.made THEN "set"
                    ELSE IF written /\ o \in s.fails THEN "null" ELSE ptr[o]]
       /\ failed' = failed \cup (IF s.made = {} THEN {} ELSE {"initialize"})
  /\ Configure
  /\ UNCHANGED <<exists, refs, is_initialized_, is_running_, held, desktop, fault,
                 should_force_key_frame_, changes, unseen, excused>>

(* The first frame of a new duplication shows the whole desktop.           *)
Initialize ==
  /\ exists /\ ~is_initialized_
  /\ is_initialized_' = TRUE
  /\ ptr' = [o \in Objects |-> "set"]
  /\ refs' = [o \in Objects |-> refs[o] + 1]
  /\ desktop' = [lost |-> FALSE, removed |-> FALSE]
  /\ Configure
  /\ changes' = Redrawn /\ NothingUnseen
  /\ UNCHANGED <<exists, is_running_, held, fault, failed, should_force_key_frame_>>

Start ==
  /\ is_initialized_ /\ ~is_running_
  /\ is_running_' = TRUE
  /\ UNCHANGED <<exists, ptr, refs, is_initialized_, held, desktop, fault, failed,
                 metaVars>>

Stop ==
  /\ exists /\ is_running_
  /\ is_running_' = FALSE
  /\ UNCHANGED <<exists, ptr, refs, is_initialized_, held, desktop, fault, failed,
                 metaVars>>

-----------------------------------------------------------------------------
(* CaptureFrame, by what AcquireNextFrame answers: a timeout, a removed    *)
(* GPU and another error answer no frame and change nothing.               *)
Acquires ==
  /\ is_running_ /\ ~held /\ Usable("dup")
  /\ ~desktop.lost /\ ~desktop.removed
  /\ changes' = Unchanged
  /\ UNCHANGED <<exists, ptr, refs, is_initialized_, is_running_, desktop,
                 fault, failed, config_>>

Changed(kind) == {r \in Regions : changes[r] = kind}

(* The frame cannot be copied or mapped: it is given back to the driver,   *)
(* which takes its changes for seen, and CaptureFrame answers no frame.    *)
CaptureDropped ==
  /\ Acquires
  /\ unseen' = {r \in Regions : changes[r] # "no"} \cup unseen
  /\ excused' = {r \in Regions : changes[r] # "no"} \cup excused
  /\ UNCHANGED <<held, should_force_key_frame_>>

(* Mutant: a list that cannot be read is taken for an empty one.           *)
ExtractDirtyRectsOrNone(readable) ==
  IF ~config_.dirty THEN Regions ELSE IF readable THEN Changed("dirty") ELSE {}

(* The dirty rects: all of the desktop when they are not asked for, when   *)
(* there is no metadata, and when either list cannot be read.              *)
ExtractDirtyRects(readable) ==
  IF config_.dirty /\ readable THEN Changed("dirty") ELSE Regions

(* The move rects, by their destination; none if they cannot be read.      *)
ExtractMoveRects(readable) ==
  IF config_.move /\ readable THEN Changed("moved") ELSE {}

(* A frame. A key frame is for all of the desktop: one asked for, or the   *)
(* first since Start or since the frame rate was last computed. The move   *)
(* rects are read twice, and either time may fail.                         *)
CaptureFrame ==
  /\ Acquires
  /\ \E first, dirtyRead, moveRead \in BOOLEAN :
       LET shown == IF should_force_key_frame_ \/ first THEN Regions
                    ELSE ExtractDirtyRects(dirtyRead) \cup ExtractMoveRects(moveRead)
           changed == {r \in Regions : changes[r] # "no"}
           movesRead == config_.move /\ moveRead
       IN /\ unseen' = (unseen \cup changed) \ shown
          /\ excused' = (excused \cup (IF movesRead THEN {} ELSE Changed("moved"))) \ shown
  /\ held' = TRUE /\ should_force_key_frame_' = FALSE

CapturerForceKeyFrame ==
  /\ exists /\ should_force_key_frame_' = TRUE
  /\ UNCHANGED <<objVars, config_, changes, unseen, excused>>

(* Mutant: the lost duplication is not released.                           *)
RecreateUnreleased ==
  /\ is_running_ /\ ~held /\ Usable("dup") /\ desktop.lost /\ ~desktop.removed
  /\ desktop' = [desktop EXCEPT !.lost = FALSE]
  /\ refs' = [refs EXCEPT !["dup"] = @ + 1]
  /\ changes' = Redrawn /\ NothingUnseen
  /\ UNCHANGED <<exists, ptr, is_initialized_, is_running_, held, fault, failed,
                 config_, should_force_key_frame_>>

(* DXGI_ERROR_ACCESS_LOST: RecreateOutputDuplication releases the lost     *)
(* duplication and makes a new one of the same output; no frame.           *)
RecreateOutputDuplication ==
  /\ is_running_ /\ ~held /\ Usable("dup") /\ desktop.lost
  /\ \/ /\ ~desktop.removed
        /\ desktop' = [desktop EXCEPT !.lost = FALSE]
        /\ changes' = Redrawn /\ NothingUnseen
        /\ UNCHANGED <<ptr, refs, failed>>
     \/ /\ ptr' = [ptr EXCEPT !["dup"] = "null"]
        /\ refs' = [refs EXCEPT !["dup"] = @ - 1]
        /\ failed' = failed \cup {"recreate"}
        /\ UNCHANGED <<desktop, changes, unseen, excused>>
  /\ UNCHANGED <<exists, is_initialized_, is_running_, held, fault, config_,
                 should_force_key_frame_>>

(* AcquireNextFrame through a null dxgi_output_dup_.                       *)
CaptureThroughNothing ==
  /\ is_running_ /\ ~held /\ ~Usable("dup")
  /\ fault' = "capture"
  /\ UNCHANGED <<exists, ptr, refs, is_initialized_, is_running_, held,
                 desktop, failed, metaVars>>

ReleaseFrame ==
  /\ held /\ held' = FALSE
  /\ UNCHANGED <<exists, ptr, refs, is_initialized_, is_running_, desktop,
                 fault, failed, metaVars>>

(* Mutant: Shutdown releases and forgets to write null.                    *)
ShutdownKeepsPointers ==
  /\ exists /\ ~held
  /\ LET named == {o \in Objects : ptr[o] # "null"} IN
     IF \A o \in named : Usable(o)
     THEN /\ exists' \in BOOLEAN
          /\ refs' = [o \in Objects |-> IF o \in named THEN refs[o] - 1 ELSE refs[o]]
          /\ failed' = {}
          /\ UNCHANGED <<ptr, fault>>
     ELSE fault' = "release" /\ UNCHANGED <<exists, ptr, refs, failed>>
  /\ is_running_' = FALSE /\ is_initialized_' = FALSE
  /\ changes' = Unchanged /\ NothingUnseen
  /\ UNCHANGED <<held, desktop, config_, should_force_key_frame_>>

(* Shutdown, of its own or from the destructor, stops and releases what    *)
(* every non-null pointer names.                                           *)
Shutdown ==
  /\ exists /\ ~held
  /\ LET named == {o \in Objects : ptr[o] # "null"} IN
     IF \A o \in named : Usable(o)
     THEN /\ exists' \in BOOLEAN
          /\ refs' = [o \in Objects |-> IF o \in named THEN refs[o] - 1 ELSE refs[o]]
          /\ ptr' = [o \in Objects |-> "null"]
          /\ failed' = {}
          /\ UNCHANGED fault
     ELSE fault' = "release" /\ UNCHANGED <<exists, ptr, refs, failed>>
  /\ is_running_' = FALSE /\ is_initialized_' = FALSE
  /\ changes' = Unchanged /\ NothingUnseen
  /\ UNCHANGED <<held, desktop, config_, should_force_key_frame_>>

-----------------------------------------------------------------------------
(* The desktop (Windows).                                                  *)
LoseAccess ==
  /\ ~desktop.lost
  /\ desktop' = [desktop EXCEPT !.lost = TRUE]
  /\ UNCHANGED <<exists, ptr, refs, is_initialized_, is_running_, held, fault, failed,
                 metaVars>>

RemoveGpu ==
  /\ ~desktop.removed
  /\ desktop' = [desktop EXCEPT !.removed = TRUE]
  /\ UNCHANGED <<exists, ptr, refs, is_initialized_, is_running_, held, fault, failed,
                 metaVars>>

(* Between two frames a region may be drawn to, or moved to as a whole.     *)
Draw ==
  /\ Usable("dup")
  /\ \E r \in Regions :
       \/ changes' = [changes EXCEPT ![r] = "dirty"]
       \/ changes[r] = "no" /\ changes' = [changes EXCEPT ![r] = "moved"]
  /\ UNCHANGED <<objVars, config_, should_force_key_frame_, unseen, excused>>

CaptureNext ==
  /\ fault = "none"
  /\ \/ Construct \/ InitializeFails \/ Initialize \/ Start \/ Stop
     \/ CaptureFrame \/ CaptureDropped \/ CapturerForceKeyFrame \/ Draw
     \/ RecreateOutputDuplication \/ CaptureThroughNothing
     \/ ReleaseFrame \/ Shutdown \/ LoseAccess \/ RemoveGpu

-----------------------------------------------------------------------------
(* As long as no access has gone wrong, each COM object has at most one    *)
(* reference, a member pointer names it, and a destroyed capturer has left *)
(* none: no step of Initialize, Shutdown or a recreation leaks.            *)
RefsNamed ==
  fault = "none" =>
    \A o \in Objects : /\ refs[o] <= 1
                       /\ refs[o] = 1 => ptr[o] = "set" /\ exists

(* The capturer goes through a pointer to nothing only after a step has    *)
(* failed: CaptureFrame after a recreation that failed, Shutdown after an  *)
(* Initialize that failed once it had made an object, or one that never    *)
(* wrote output_.                                                          *)
FaultOnlyAfterFailure ==
  /\ fault = "capture" => "recreate" \in failed
  /\ fault = "release" => \/ "initialize" \in failed
                          \/ ptr["output"] = "garbage"

(* What has changed on the desktop is in the rects of a frame, or has still *)
(* to come, except after a frame that the driver gave and CaptureFrame did *)
(* not (which nobody makes up for with a key frame), or moves that were    *)
(* not asked for or could not be read.                                     *)
ChangesReported == unseen \subseteq excused
=============================================================================
