---------------------------- MODULE DmabufSharing ----------------------------
(***************************************************************************)
(* dmabuf-sharing.c: one thread polls a video device that captures into    *)
(* buffers and a display that shows them, and passes the buffers between   *)
(* the two.  On a CRTC a frame is shown by a page flip, of which one may be*)
(* outstanding; on a plane by drmModeSetPlane, whose completion is the next*)
(* vertical blank.  A failing call ends the program (BYE_ON).              *)
(***************************************************************************)
EXTENDS Integers, Sequences, SequencesExt

CONSTANTS
  NBuffers,
  NFrames,   \* bound: frames captured
  MayFail    \* calls may fail

ASSUME SharingAssumption ==
  /\ NBuffers \in Nat \ {0} /\ NFrames \in Nat
  /\ MayFail \in BOOLEAN

None    == -1
Buffers == 0 .. NBuffers - 1

VARIABLES
  plane,          \* the output is a plane (-p), not a CRTC (-o)
  pc,             \* "poll", "video", "vblank", "drm", "handle"; "exit" when main has returned
  revents,        \* what poll has reported: a subset of {"video", "drm"}
  current_buffer, \* stream.current_buffer
  flipped,        \* the buffer of drm_page_flip
  read,           \* the events drmHandleEvent has read and not yet handled
  queued, done,   \* the buffers of the video device, to be filled and filled
  captured,       \* frames captured
  scanout,        \* the buffer on the screen
  next,           \* the buffer that will be there after the next vertical blank
  asked,          \* the events that will be sent then
  events,         \* the events sent
  failed          \* a call has failed

progVars  == <<plane, pc, revents, current_buffer, flipped, read>>
videoVars == <<queued, done, captured>>
crtcVars  == <<scanout, next, asked, events>>
vars == <<progVars, videoVars, crtcVars, failed>>

TypeOK ==
  /\ plane \in BOOLEAN
  /\ pc \in {"poll", "video", "vblank", "drm", "handle", "exit"}
  /\ revents \subseteq {"video", "drm"}
  /\ current_buffer \in Buffers \cup {-1} /\ flipped \in Buffers \cup {None}
  /\ read \in Seq(Buffers)
  /\ queued \in Seq(Buffers) /\ done \in Seq(Buffers)
  /\ captured \in 0 .. NFrames
  /\ scanout \in Buffers \cup {None} /\ next \in Buffers \cup {None}
  /\ asked \in Seq(Buffers) /\ events \in Seq(Buffers)
  /\ failed \in BOOLEAN

(* The first buffer is on the CRTC from the beginning.                     *)
FirstQueued == IF plane THEN 0 ELSE 1

Init ==
  /\ plane \in BOOLEAN
  /\ pc = "poll" /\ revents = {} /\ flipped = None /\ read = <<>>
  /\ current_buffer = (IF plane THEN -1 ELSE 0)
  /\ queued = [i \in 1 .. NBuffers - FirstQueued |-> FirstQueued + i - 1]
  /\ done = <<>> /\ captured = 0
  /\ scanout = (IF plane THEN None ELSE 0) /\ next = None
  /\ asked = <<>> /\ events = <<>>
  /\ failed = FALSE

-----------------------------------------------------------------------------
(* main                                                                    *)

Ready == (IF done # <<>> THEN {"video"} ELSE {}) \cup (IF events # <<>> THEN {"drm"} ELSE {})

AfterVideo == IF "drm" \in revents THEN "drm" ELSE "poll"

Poll ==
  /\ pc = "poll" /\ Ready # {}
  /\ revents' = Ready
  /\ pc' = IF "video" \in Ready THEN "video" ELSE "drm"
  /\ UNCHANGED <<plane, current_buffer, flipped, read, videoVars, crtcVars, failed>>

(* Five seconds without a frame or an event end the program; a vertical    *)
(* blank that is asked for comes sooner.                                   *)
PollTimeout ==
  /\ pc = "poll" /\ Ready = {} /\ asked = <<>>
  /\ pc' = "exit"
  /\ UNCHANGED <<plane, revents, current_buffer, flipped, read, videoVars, crtcVars, failed>>

CanFlip == plane \/ next = None

(* The buffer filled first                                                 *)
Dequeued == Head(done)

(* The frame dequeued is flipped to.                                       *)
Flip ==
  /\ pc = "video" /\ CanFlip
  /\ done' = Tail(done)
  /\ flipped' = Dequeued /\ next' = Dequeued
  /\ IF plane THEN pc' = "vblank" /\ UNCHANGED asked
     ELSE pc' = AfterVideo /\ asked' = <<Dequeued>>
  /\ UNCHANGED <<plane, revents, current_buffer, read, queued, captured, scanout, events, failed>>

(* drmWaitVBlank after drmModeSetPlane; a vertical blank may be in between.*)
AskForVblank_Skipped ==
  /\ pc = "vblank"
  /\ pc' = AfterVideo
  /\ UNCHANGED <<plane, revents, current_buffer, flipped, read, videoVars, crtcVars, failed>>

AskForVblank ==
  /\ pc = "vblank"
  /\ asked' = Append(asked, flipped) /\ pc' = AfterVideo
  /\ UNCHANGED <<plane, revents, current_buffer, flipped, read, videoVars, scanout, next, events, failed>>

(* The kernel refuses a flip before the last one is done: BYE_ON.          *)
FlipRefused ==
  /\ pc = "video" /\ ~CanFlip
  /\ done' = Tail(done) /\ flipped' = Head(done)
  /\ pc' = "exit" /\ failed' = TRUE
  /\ UNCHANGED <<plane, revents, current_buffer, read, queued, captured, crtcVars>>

drmHandleEvent ==
  /\ pc = "drm"
  /\ read' = events /\ events' = <<>> /\ pc' = "handle"
  /\ UNCHANGED <<plane, revents, current_buffer, flipped, videoVars, scanout, next, asked, failed>>

Released_New == Head(read)

(* What was shown before the buffer of the event.                          *)
Released == current_buffer

NothingToRelease_Never == FALSE

NothingToRelease == current_buffer < 0

page_flip_handler ==
  /\ pc = "handle" /\ read # <<>>
  /\ current_buffer' = Head(read) /\ read' = Tail(read)
  /\ queued' = IF NothingToRelease THEN queued ELSE Append(queued, Released)
  /\ UNCHANGED <<plane, pc, revents, flipped, done, captured, crtcVars, failed>>

Handled ==
  /\ pc = "handle" /\ read = <<>>
  /\ pc' = "poll"
  /\ UNCHANGED <<plane, revents, current_buffer, flipped, read, videoVars, crtcVars, failed>>

Bye ==
  /\ MayFail /\ pc \in {"video", "vblank", "drm", "handle"}
  /\ pc' = "exit" /\ failed' = TRUE
  /\ UNCHANGED <<plane, revents, current_buffer, flipped, read, videoVars, crtcVars>>

Exited == pc = "exit" /\ UNCHANGED vars

Main ==
  \/ Poll \/ Flip \/ AskForVblank \/ FlipRefused
  \/ drmHandleEvent \/ page_flip_handler \/ Handled

-----------------------------------------------------------------------------
(* The devices                                                             *)

Capture ==
  /\ pc # "exit" /\ queued # <<>> /\ captured < NFrames
  /\ captured' = captured + 1
  /\ done' = Append(done, Head(queued)) /\ queued' = Tail(queued)
  /\ UNCHANGED <<progVars, crtcVars, failed>>

Vblank ==
  /\ next # None \/ asked # <<>>
  /\ scanout' = (IF next = None THEN scanout ELSE next) /\ next' = None
  /\ events' = events \o asked /\ asked' = <<>>
  /\ UNCHANGED <<progVars, videoVars, failed>>

Next == Main \/ PollTimeout \/ Bye \/ Exited \/ Capture \/ Vblank

Spec == Init /\ [][Next]_vars

(* The display goes on, and main handles what poll reports; poll waits five*)
(* seconds, in which a vertical blank comes.                               *)
FairSpec == Spec /\ WF_vars(Main) /\ WF_vars(Vblank)

-----------------------------------------------------------------------------
(* A buffer has one owner.  No frame is captured into one that the screen  *)
(* shows or is going to show: page_flip_handler queues the one shown       *)
(* before.  A buffer is with the video device at most once, and not also   *)
(* with the display code: the events of all flips give every one back once.*)
BuffersOwnedOnce ==
  LET away == IF pc = "vblank" THEN <<flipped>> ELSE <<>>
      kept == IF current_buffer < 0 THEN <<>> ELSE <<current_buffer>>
      all  == queued \o done \o kept \o away \o asked \o events \o read
  IN  /\ {scanout, next} \cap Range(queued \o done) = {}
      /\ \A i, j \in DOMAIN all : all[i] = all[j] => i = j
      /\ pc # "exit" => Range(all) = Buffers

(* The video device always gets a buffer again: while frames come no buffer*)
(* stays with the display but the one shown, unless the program ends early.*)
CaptureGoesOn ==
  queued = <<>> ~> (queued # <<>> \/ failed \/ captured = NFrames)
=============================================================================
