---------------------------- MODULE DecoderDisplay ----------------------------
(***************************************************************************)
(* What the display thread of v4l2-mfc-example does with one picture after *)
(* the other, which in DecoderThreads is the step from "process" to "free":*)
(* fimc_thread_func converts it with the FIMC into the memory of the frame *)
(* buffer or of DRM, and with -V into the one of two buffers that is not on*)
(* the screen, and then flips to it; ipp_thread_func has the IPP write it  *)
(* to the screen and waits for the IPP's event.                            *)
(***************************************************************************)
EXTENDS Integers, Sequences, SequencesExt

CONSTANTS
  NPictures,   \* bound: pictures to show
  MaxTries,    \* count in exynos_drm_ipp_process_frame, 20 in the code
  Copies,      \* DRM_IPP_MAX_BUF: times each picture is queued for the IPP
  MaxFaults    \* bound: calls that fail

ASSUME DisplayAssumption ==
  /\ NPictures \in Nat /\ MaxTries \in Nat \ {0} /\ Copies \in Nat \ {0} /\ MaxFaults \in Nat

None == -1
NoPicture == 0

VARIABLES
  display,     \* "fb" (-d), "drm" (-D) or "ipp" (-I); not -d and -D together
  double_buf,  \* -V was given
  pc,          \* where the thread is
  n,           \* the picture it has taken
  cur_buf,     \* the buffer of the screen it is to be drawn into
  first_run,   \* the streams have not been started
  tries,       \* count
  error,       \* the thread has given up
  source,      \* the picture with the FIMC: [picture, done], NoPicture if none
  target,      \* the screen buffer with the FIMC, likewise
  on,          \* the queues that are streaming
  jobs,        \* the pictures queued for the IPP
  drawn,       \* what each of the two buffers shows
  scanout,     \* the buffer on the screen
  next,        \* the one that is to follow at the next vertical blank
  vblank,      \* there was a vertical blank since the thread began to wait
  events,      \* the events to be read from drm.fd: "flip" and "ipp"
  typed,       \* standard input is readable, and nobody reads it
  faults       \* the calls that have failed

threadVars == <<display, double_buf, n, cur_buf, first_run, tries, error>>
fimcVars   == <<source, target, on>>
screenVars == <<scanout, next, vblank>>
vars == <<threadVars, pc, fimcVars, jobs, drawn, screenVars, events, typed, faults>>

Buffers  == {0, 1}
Empty    == [what |-> None, done |-> FALSE]
Queued(what) == [what |-> what, done |-> FALSE]

(* The first buffer is on the screen (fb_set_virt_y_offset, drmModeSetCrtc)*)
(* and some pictures are with the IPP, which has not been started.         *)
Init ==
  /\ display \in {"fb", "drm", "ipp"} /\ double_buf \in BOOLEAN
  /\ pc = "take" /\ n = NoPicture /\ cur_buf = 0 /\ first_run = TRUE
  /\ tries = MaxTries /\ error = FALSE
  /\ source = Empty /\ target = Empty /\ on = {}
  /\ jobs = IF display = "ipp" THEN [k \in 1 .. Copies |-> NoPicture] ELSE <<>>
  /\ drawn = [b \in Buffers |-> NoPicture]
  /\ scanout = 0 /\ next = None /\ vblank = FALSE
  /\ events = <<>> /\ typed = FALSE /\ faults = 0

GoTo(where) == pc' = where

(* The thread sets error and leaves its loop.                              *)
GiveUp == pc' = "exit" /\ error' = TRUE

Fault == faults < MaxFaults /\ faults' = faults + 1

-----------------------------------------------------------------------------
(* Both threads take a picture from their queue.                           *)
Take ==
  /\ pc = "take" /\ n < NPictures
  /\ n' = n + 1
  /\ GoTo(IF display # "ipp" THEN "queueOut" ELSE IF first_run THEN "play" ELSE "enqueue")
  /\ UNCHANGED <<display, double_buf, cur_buf, first_run, tries, error, fimcVars, jobs, drawn,
                 screenVars, events, typed, faults>>

(* The picture's buffer goes back to the MFC thread.                       *)
Free ==
  /\ pc = "free"
  /\ GoTo("take")
  /\ UNCHANGED <<threadVars, fimcVars, jobs, drawn, screenVars, events, typed, faults>>

(* A call fails whose failure ends the thread.                             *)
CallFails ==
  /\ pc \in {"queueOut", "queueCap", "streamOut", "streamCap", "dequeueCap", "dequeueOut", "play"}
  /\ Fault /\ GiveUp
  /\ UNCHANGED <<display, double_buf, n, cur_buf, first_run, tries, fimcVars, jobs, drawn,
                 screenVars, events, typed>>

-----------------------------------------------------------------------------
(* fimc_thread_func                                                        *)

fimc_dec_queue_buf_out_from_mfc ==
  /\ pc = "queueOut" /\ source = Empty
  /\ source' = Queued(n) /\ GoTo("queueCap")
  /\ UNCHANGED <<threadVars, target, on, jobs, drawn, screenVars, events, typed, faults>>

(* Streams can only be switched on when a buffer is queued: the thread does*)
(* it, the first time.                                                     *)
fimc_dec_queue_buf_cap ==
  /\ pc = "queueCap" /\ target = Empty
  /\ target' = Queued(cur_buf)
  /\ GoTo(IF first_run THEN "streamOut" ELSE "dequeueCap")
  /\ first_run' = FALSE
  /\ UNCHANGED <<display, double_buf, n, cur_buf, tries, error, source, on, jobs, drawn,
                 screenVars, events, typed, faults>>

fimc_stream(queue, from, to) ==
  /\ pc = from
  /\ on' = on \cup {queue} /\ GoTo(to)
  /\ UNCHANGED <<threadVars, source, target, jobs, drawn, screenVars, events, typed, faults>>

fimc_dec_dequeue_buf_cap ==
  /\ pc = "dequeueCap" /\ target.done
  /\ target' = Empty /\ GoTo("dequeueOut")
  /\ UNCHANGED <<threadVars, source, on, jobs, drawn, screenVars, events, typed, faults>>

AfterConversion == IF ~double_buf THEN "free" ELSE IF display = "fb" THEN "pan" ELSE "flip"

fimc_dec_dequeue_buf_out_Not ==
  /\ pc = "dequeueOut" /\ GoTo(AfterConversion)
  /\ UNCHANGED <<threadVars, fimcVars, jobs, drawn, screenVars, events, typed, faults>>

fimc_dec_dequeue_buf_out ==
  /\ pc = "dequeueOut" /\ source.done
  /\ source' = Empty /\ GoTo(AfterConversion)
  /\ UNCHANGED <<threadVars, target, on, jobs, drawn, screenVars, events, typed, faults>>

(* Whether the display could be moved is not looked at.                    *)
fb_set_virt_y_offset ==
  /\ pc = "pan"
  /\ \/ next' = cur_buf /\ UNCHANGED faults
     \/ Fault /\ UNCHANGED next
  /\ vblank' = FALSE /\ GoTo("vsync")
  /\ UNCHANGED <<threadVars, fimcVars, jobs, drawn, scanout, events, typed>>

AfterVsync_NoWait == TRUE

AfterVsync == vblank

(* Nor whether the vertical blank was waited for.                          *)
fb_wait_for_vsync ==
  /\ pc = "vsync"
  /\ \/ AfterVsync /\ UNCHANGED faults
     \/ Fault
  /\ GoTo("next")
  /\ UNCHANGED <<threadVars, fimcVars, jobs, drawn, screenVars, events, typed>>

(* One flip may be outstanding, and another is refused; nobody notices.    *)
drmModePageFlip ==
  /\ pc = "flip"
  /\ \/ next' = (IF next = None THEN cur_buf ELSE next) /\ UNCHANGED faults
     \/ Fault /\ UNCHANGED next
  /\ GoTo("wait")
  /\ UNCHANGED <<threadVars, fimcVars, jobs, drawn, scanout, vblank, events, typed>>

(* The thread waits for events or for standard input, of which nothing is  *)
(* ever read, and goes on waiting every three seconds.                     *)
wait_for_flip ==
  /\ pc = "wait" /\ (typed \/ events # <<>>)
  /\ events' = IF typed THEN events ELSE <<>>
  /\ GoTo("next")
  /\ UNCHANGED <<threadVars, fimcVars, jobs, drawn, screenVars, typed, faults>>

NextBuffer_Same == cur_buf

NextBuffer == (cur_buf + 1) % 2

switch_buffer ==
  /\ pc = "next"
  /\ cur_buf' = NextBuffer /\ GoTo("free")
  /\ UNCHANGED <<display, double_buf, n, first_run, tries, error, fimcVars, jobs, drawn,
                 screenVars, events, typed, faults>>

fimc_thread_func ==
  \/ fimc_dec_queue_buf_out_from_mfc \/ fimc_dec_queue_buf_cap
  \/ fimc_stream("output", "streamOut", "streamCap")
  \/ fimc_stream("capture", "streamCap", "dequeueCap")
  \/ fimc_dec_dequeue_buf_cap \/ fimc_dec_dequeue_buf_out
  \/ fb_set_virt_y_offset \/ fb_wait_for_vsync
  \/ drmModePageFlip \/ wait_for_flip \/ switch_buffer

-----------------------------------------------------------------------------
(* ipp_thread_func                                                         *)

exynos_drm_ipp_cmd_ctrl ==
  /\ pc = "play"
  /\ first_run' = FALSE /\ GoTo("enqueue")
  /\ UNCHANGED <<display, double_buf, n, cur_buf, tries, error, fimcVars, jobs, drawn,
                 screenVars, events, typed, faults>>

(* The picture is queued as often as there are buffers; that it could not  *)
(* be is only printed.                                                     *)
exynos_drm_ipp_do_buffer ==
  /\ pc = "enqueue"
  /\ \/ jobs' = jobs \o [k \in 1 .. Copies |-> n] /\ UNCHANGED faults
     \/ Fault /\ UNCHANGED jobs
  /\ tries' = MaxTries /\ GoTo("select")
  /\ UNCHANGED <<display, double_buf, n, cur_buf, first_run, error, fimcVars, drawn,
                 screenVars, events, typed>>

CountDown_Never == tries

CountDown == tries - 1

(* Three seconds without an event, or a failing select: one try less, and  *)
(* after the last one the thread gives up.                                 *)
select_Timeout ==
  /\ pc = "select"
  /\ \/ events = <<>> /\ ~typed /\ UNCHANGED faults
     \/ Fault
  /\ tries' = CountDown
  /\ IF tries' = 0 THEN GiveUp ELSE UNCHANGED <<pc, error>>
  /\ UNCHANGED <<display, double_buf, n, cur_buf, first_run, fimcVars, jobs, drawn,
                 screenVars, events, typed>>

select_Typed ==
  /\ pc = "select" /\ typed
  /\ GiveUp
  /\ UNCHANGED <<display, double_buf, n, cur_buf, first_run, tries, fimcVars, jobs, drawn,
                 screenVars, events, typed, faults>>

(* One event is read.  Any will do; one of the IPP is followed by a flip.  *)
(* So will a read that fails, for its -1 is compared as an unsigned number.*)
read_event ==
  /\ pc = "select" /\ events # <<>> /\ ~typed
  /\ \/ events' = Tail(events) /\ UNCHANGED faults
        /\ GoTo(IF Head(events) = "ipp" THEN "display_flip" ELSE "dequeue")
     \/ Fault /\ UNCHANGED events /\ GoTo("dequeue")
  /\ UNCHANGED <<threadVars, fimcVars, jobs, drawn, screenVars, typed>>

(* A flip to the one buffer that is always on the screen.  Its result and  *)
(* that of the wait, which is not repeated, are left alone.                *)
exynos_drm_ipp_display_flip ==
  /\ pc = "display_flip"
  /\ \/ next = None /\ next' = 0 /\ GoTo("waitFlip") /\ UNCHANGED faults
     \/ next # None /\ GoTo("dequeue") /\ UNCHANGED <<next, faults>>
     \/ Fault /\ GoTo("dequeue") /\ UNCHANGED next
  /\ UNCHANGED <<threadVars, fimcVars, jobs, drawn, scanout, vblank, events, typed>>

(* drmHandleEvent reads all events, those of the IPP too.                  *)
wait_for_ipp_flip ==
  /\ pc = "waitFlip"
  /\ \/ typed /\ UNCHANGED <<events, faults>>
     \/ ~typed /\ events # <<>> /\ events' = <<>> /\ UNCHANGED faults
     \/ Fault /\ UNCHANGED events
  /\ GoTo("dequeue")
  /\ UNCHANGED <<threadVars, fimcVars, jobs, drawn, screenVars, typed>>

exynos_drm_ipp_dequeue_buffors ==
  /\ pc = "dequeue"
  /\ \/ jobs' = <<>> /\ UNCHANGED faults
     \/ Fault /\ UNCHANGED jobs
  /\ GoTo("free")
  /\ UNCHANGED <<threadVars, fimcVars, drawn, screenVars, events, typed>>

ipp_thread_func ==
  \/ exynos_drm_ipp_cmd_ctrl \/ exynos_drm_ipp_do_buffer
  \/ select_Timeout \/ select_Typed \/ read_event
  \/ exynos_drm_ipp_display_flip \/ wait_for_ipp_flip \/ exynos_drm_ipp_dequeue_buffors

-----------------------------------------------------------------------------
(* The devices                                                             *)

Fimc ==
  /\ on = {"output", "capture"}
  /\ source # Empty /\ target # Empty /\ ~source.done /\ ~target.done
  /\ drawn' = [drawn EXCEPT ![target.what] = source.what]
  /\ source' = [source EXCEPT !.done = TRUE] /\ target' = [target EXCEPT !.done = TRUE]
  /\ UNCHANGED <<threadVars, pc, on, jobs, screenVars, events, typed, faults>>

Ipp ==
  /\ display = "ipp" /\ ~first_run /\ jobs # <<>> /\ Len(events) < 3
  /\ drawn' = [drawn EXCEPT ![0] = Head(jobs)] /\ jobs' = Tail(jobs)
  /\ events' = Append(events, "ipp")
  /\ UNCHANGED <<threadVars, pc, fimcVars, screenVars, typed, faults>>

(* The frame buffer's pan has no event.                                    *)
Vblank ==
  /\ next # None \/ ~vblank
  /\ scanout' = (IF next = None THEN scanout ELSE next) /\ next' = None
  /\ vblank' = TRUE
  /\ events' = IF next = None \/ display = "fb" THEN events ELSE Append(events, "flip")
  /\ UNCHANGED <<threadVars, pc, fimcVars, jobs, drawn, typed, faults>>

(* A key is pressed, or standard input ends.                               *)
Type ==
  /\ ~typed /\ typed' = TRUE
  /\ UNCHANGED <<threadVars, pc, fimcVars, jobs, drawn, screenVars, events, faults>>

Thread == Take \/ Free \/ fimc_thread_func \/ ipp_thread_func
Device == Fimc \/ Ipp

Next == Thread \/ CallFails \/ Device \/ Vblank \/ Type

(* The thread is scheduled, a device does what it was asked for, and the   *)
(* display goes on; nothing has to be typed and nothing to fail.           *)
Spec ==
  /\ Init /\ [][Next]_vars
  /\ WF_vars(Thread /\ faults' = faults) /\ WF_vars(Device) /\ WF_vars(Vblank)

-----------------------------------------------------------------------------
Undisturbed == ~typed /\ faults = 0

(* With two buffers the FIMC never draws what is on the screen or is about *)
(* to be, once the first picture is there: it has to wait for the flip of  *)
(* one picture before it draws the next.                                   *)
NoDrawOnScreen ==
  double_buf /\ n > 1 /\ Undisturbed /\ target # Empty => target.what \notin {scanout, next}

(* A picture is given back to the MFC only when it is on the screen, where *)
(* one may be that is older only if a flip failed or was not waited for.   *)
OnScreenWhenFreed ==
  pc = "free" /\ display # "ipp" /\ (Undisturbed \/ ~double_buf) => drawn[scanout] = n

(* The FIMC reads no picture but the one that the thread has taken and not *)
(* given back, whatever fails.                                             *)
ReadWhileTaken ==
  source # Empty => source.what = n /\ pc \notin {"take", "free"}

(* The thread gives back what it takes, or gives up; only a flip that the  *)
(* frame thread does not know to have failed can keep it for ever.         *)
TakenIsFreed ==
  pc \in {"queueOut", "play", "enqueue"} ~> (pc \in {"free", "exit"} \/ (display = "drm" /\ faults > 0))
=============================================================================
