------------------------------- MODULE DrmDirect -------------------------------
(***************************************************************************)
(* v4l2-mfc-drm-direct: main feeds the MFC with the frames of a stream and *)
(* takes the used source buffers back; the presentation thread dequeues    *)
(* decoded pages, flips to them and queues a free page again.  The MFC     *)
(* decodes into the pages the display shows.                               *)
(*                                                                         *)
(* The MFC, the display and the stream are external.  System calls may     *)
(* fail; MaxFaults bounds how many do.                                     *)
(***************************************************************************)
EXTENDS Integers, Sequences, FiniteSets

CONSTANTS
  NFrames,    \* frames in the stream, the header not counted
  NSrc,       \* input_buffer_count
  MinQueued,  \* V4L2_CID_MIN_BUFFERS_FOR_CAPTURE, dest_queue_min
  NPages,     \* dest_buffer_count
  MaxFaults   \* bound: system calls that fail

(* init asks for dest_extra_buffer_count = 2 buffers more than the minimum;*)
(* the driver may grant more.                                              *)
ASSUME DirectAssumption ==
  /\ NFrames \in Nat \ {0} /\ NSrc \in Nat \ {0}
  /\ MinQueued \in Nat \ {0} /\ NPages \in Nat /\ NPages >= MinQueued + 2
  /\ MaxFaults \in Nat

Pages == 1 .. NPages
Srcs  == 1 .. NSrc
None  == 0

VARIABLES
  mpc, ppc,        \* where main and the presentation thread are
  error,           \* thread_data::decoding_state
  busy,            \* the flags of source_buffers
  next,            \* the source buffer run() looks at
  parsed,          \* frames the parser has cut off the stream
  dest_buffers,    \* the pages by their V4L2 index
  dest_num_queued,
  page,            \* p of the presentation thread
  page_used, pageflip_pending, cur_page,
  streaming,       \* flags & dest_stream
  source,          \* frames and buffers queued at the MFC
  sourceDone,      \* source buffers to be dequeued
  dest, held, destReady,  \* indices the MFC may decode to, has decoded to, has delivered
  scanout, flipping, events,  \* the display: page shown, next one, flips completed
  content,         \* the frame decoded to a page
  shown,           \* the frames shown
  faults

mainVars == <<mpc, busy, next, parsed, streaming>>
presVars == <<ppc, dest_buffers, dest_num_queued, page, page_used, pageflip_pending, cur_page>>
mfcVars  == <<source, sourceDone, dest, held, destReady, content>>
crtcVars == <<scanout, flipping, events, shown>>
vars == <<mainVars, presVars, mfcVars, crtcVars, error, faults>>

TypeOK ==
  /\ mpc \in {"test", "check", "fill", "dequeue", "error", "join", "done"}
  /\ ppc \in {"test", "dequeue", "flip", "wait", "commit", "get", "getWait", "queue",
              "error", "stopped"}
  /\ error \in BOOLEAN
  /\ busy \in [Srcs -> BOOLEAN] /\ next \in 1 .. NSrc + 1 /\ parsed \in 0 .. NFrames
  /\ dest_buffers \in Seq(Pages) /\ dest_num_queued \in Nat
  /\ page \in Pages \cup {None} /\ cur_page \in Pages
  /\ page_used \in [Pages -> BOOLEAN] /\ pageflip_pending \in BOOLEAN /\ streaming \in BOOLEAN
  /\ source \in Seq(Srcs \X (1 .. NFrames)) /\ sourceDone \in Seq(Srcs)
  /\ dest \in Seq(Pages) /\ held \in Seq(Pages) /\ destReady \in Seq(Pages)
  /\ scanout \in Pages /\ flipping \in Pages \cup {None} /\ events \in Seq(Pages)
  /\ content \in [Pages -> 0 .. NFrames] /\ shown \in Seq(0 .. NFrames)
  /\ faults \in 0 .. MaxFaults

-----------------------------------------------------------------------------
InitiallyQueued_NoSpare == MinQueued

(* The pages the MFC needs and the first one to be dequeued.               *)
InitiallyQueued == MinQueued + 1

(* main before it starts the thread: the header has been decoded from the  *)
(* first source buffer, the first page is displayed and enough others are  *)
(* queued, and one more.                                                   *)
Init ==
  /\ mpc = "test" /\ ppc = "test" /\ error = FALSE
  /\ busy = [b \in Srcs |-> b = 1] /\ next = 1 /\ parsed = 0 /\ streaming = FALSE
  /\ cur_page = 1 /\ scanout = 1 /\ flipping = None /\ events = <<>>
  /\ dest_buffers = [i \in 1 .. InitiallyQueued |-> i + 1]
  /\ dest = [i \in 1 .. InitiallyQueued |-> i]
  /\ dest_num_queued = InitiallyQueued
  /\ page_used = [p \in Pages |-> p <= InitiallyQueued + 1]
  /\ page = None /\ pageflip_pending = FALSE
  /\ source = <<>> /\ sourceDone = <<1>> /\ held = <<>> /\ destReady = <<>>
  /\ content = [p \in Pages |-> 0] /\ shown = <<>>
  /\ faults = 0

Fault == faults < MaxFaults /\ faults' = faults + 1

-----------------------------------------------------------------------------
(* main and MFCDecoder::run                                                *)

MainTest ==
  /\ mpc = "test"
  /\ mpc' = IF error THEN "join" ELSE "check"
  /\ UNCHANGED <<busy, next, parsed, streaming, presVars, mfcVars, crtcVars, error, faults>>

(* Too few pages are an error; the capture side is started once.           *)
RunCheck ==
  /\ mpc = "check"
  /\ IF dest_num_queued < MinQueued THEN mpc' = "error" /\ UNCHANGED <<streaming, next>>
     ELSE mpc' = "fill" /\ streaming' = TRUE /\ next' = 1
  /\ UNCHANGED <<busy, parsed, presVars, mfcVars, crtcVars, error, faults>>

StreamOnFails ==
  /\ mpc = "check" /\ dest_num_queued >= MinQueued /\ ~streaming
  /\ Fault /\ mpc' = "error"
  /\ UNCHANGED <<busy, next, parsed, streaming, presVars, mfcVars, crtcVars, error>>

RunSkip ==
  /\ mpc = "fill" /\ next <= NSrc /\ busy[next]
  /\ next' = next + 1
  /\ UNCHANGED <<mpc, busy, parsed, streaming, presVars, mfcVars, crtcVars, error, faults>>

FrameFinished_Always == TRUE

(* H264Parser::parse returns frame_finished: a frame ends where the next   *)
(* one starts.                                                             *)
FrameFinished == parsed + 1 < NFrames

(* There is always a next frame in the file when FrameFinished, so that    *)
(* run() never returns run_finished.                                       *)
RunQueue ==
  /\ mpc = "fill" /\ next <= NSrc /\ ~busy[next] /\ FrameFinished
  /\ parsed' = parsed + 1
  /\ source' = Append(source, <<next, parsed + 1>>)
  /\ busy' = [busy EXCEPT ![next] = TRUE]
  /\ next' = next + 1
  /\ UNCHANGED <<mpc, streaming, presVars, sourceDone, dest, held, destReady, content,
                 crtcVars, error, faults>>

RunQueueFails ==
  /\ mpc = "fill" /\ next <= NSrc /\ ~busy[next] /\ FrameFinished
  /\ Fault /\ mpc' = "error" /\ parsed' = parsed + 1
  /\ UNCHANGED <<busy, next, streaming, presVars, mfcVars, crtcVars, error>>

ParseFails ==
  /\ mpc = "fill" /\ next <= NSrc /\ ~busy[next] /\ ~FrameFinished
  /\ mpc' = "error" /\ parsed' = NFrames
  /\ UNCHANGED <<busy, next, streaming, presVars, mfcVars, crtcVars, error, faults>>

RunFilled ==
  /\ mpc = "fill" /\ next > NSrc
  /\ mpc' = IF \E b \in Srcs : busy[b] THEN "dequeue" ELSE "test"
  /\ UNCHANGED <<busy, next, parsed, streaming, presVars, mfcVars, crtcVars, error, faults>>

(* VIDIOC_DQBUF waits for a used source buffer.                            *)
RunDequeue ==
  /\ mpc = "dequeue" /\ sourceDone # <<>>
  /\ busy' = [busy EXCEPT ![Head(sourceDone)] = FALSE]
  /\ sourceDone' = Tail(sourceDone)
  /\ mpc' = "test"
  /\ UNCHANGED <<next, parsed, streaming, presVars, source, dest, held, destReady, content,
                 crtcVars, error, faults>>

RunDequeueFails ==
  /\ mpc = "dequeue"
  /\ Fault /\ mpc' = "error"
  /\ UNCHANGED <<busy, next, parsed, streaming, presVars, mfcVars, crtcVars, error>>

MainError ==
  /\ mpc = "error"
  /\ error' = TRUE /\ mpc' = "test"
  /\ UNCHANGED <<busy, next, parsed, streaming, presVars, mfcVars, crtcVars, faults>>

Join ==
  /\ mpc = "join" /\ ppc = "stopped"
  /\ mpc' = "done"
  /\ UNCHANGED <<busy, next, parsed, streaming, presVars, mfcVars, crtcVars, error, faults>>

Main ==
  \/ MainTest \/ RunCheck \/ StreamOnFails \/ RunSkip \/ RunQueue \/ RunQueueFails
  \/ ParseFails \/ RunFilled \/ RunDequeue \/ RunDequeueFails \/ MainError \/ Join

-----------------------------------------------------------------------------
(* presentation_thread                                                     *)

PresTest ==
  /\ ppc = "test"
  /\ ppc' = IF error THEN "stopped" ELSE "dequeue"
  /\ UNCHANGED <<mainVars, dest_buffers, dest_num_queued, page, page_used, pageflip_pending,
                 cur_page, mfcVars, crtcVars, error, faults>>

(* dequeue_dest: VIDIOC_DQBUF waits for a picture.                         *)
dequeue_dest ==
  /\ ppc = "dequeue" /\ destReady # <<>>
  /\ page' = dest_buffers[Head(destReady)]
  /\ destReady' = Tail(destReady)
  /\ dest_num_queued' = dest_num_queued - 1
  /\ ppc' = "flip"
  /\ UNCHANGED <<mainVars, dest_buffers, page_used, pageflip_pending, cur_page,
                 source, sourceDone, dest, held, content, crtcVars, error, faults>>

DequeueFails ==
  /\ ppc = "dequeue"
  /\ Fault /\ ppc' = "error"
  /\ UNCHANGED <<mainVars, dest_buffers, dest_num_queued, page, page_used, pageflip_pending,
                 cur_page, mfcVars, crtcVars, error>>

MustWait_Never == FALSE

MustWait == pageflip_pending

issue_flip ==
  /\ ppc = "flip"
  /\ ppc' = IF MustWait THEN "wait" ELSE "commit"
  /\ UNCHANGED <<mainVars, dest_buffers, dest_num_queued, page, page_used, pageflip_pending,
                 cur_page, mfcVars, crtcVars, error, faults>>

Released_New(new) == new

(* The page a completed flip takes off the screen.                         *)
Released(new) == cur_page

HandleFlip_Pending ==
  /\ events # <<>>
  /\ events' = Tail(events)
  /\ page_used' = [page_used EXCEPT ![Released(Head(events))] = FALSE]
  /\ cur_page' = Head(events)
  /\ UNCHANGED pageflip_pending

(* FlipHandler::wait and handle_flip: poll waits for a completed flip.     *)
HandleFlip ==
  /\ events # <<>>
  /\ events' = Tail(events)
  /\ page_used' = [page_used EXCEPT ![Released(Head(events))] = FALSE]
  /\ pageflip_pending' = FALSE
  /\ cur_page' = Head(events)

WaitForFlip ==
  /\ ppc \in {"wait", "getWait"}
  /\ HandleFlip
  /\ ppc' = IF ppc = "wait" THEN "commit" ELSE "get"
  /\ UNCHANGED <<mainVars, dest_buffers, dest_num_queued, page, mfcVars,
                 scanout, flipping, shown, error, faults>>

(* poll is interrupted: wait returns without an event.                     *)
WaitInterrupted ==
  /\ ppc \in {"wait", "getWait"}
  /\ Fault
  /\ ppc' = IF ppc = "wait" THEN "commit" ELSE "get"
  /\ UNCHANGED <<mainVars, dest_buffers, dest_num_queued, page, page_used, pageflip_pending,
                 cur_page, mfcVars, crtcVars, error>>

(* The kernel refuses a flip while another one is under way.               *)
Commit ==
  /\ ppc = "commit" /\ flipping = None
  /\ flipping' = page /\ pageflip_pending' = TRUE
  /\ page' = None /\ ppc' = "get"
  /\ UNCHANGED <<mainVars, dest_buffers, dest_num_queued, page_used, cur_page, mfcVars,
                 scanout, events, shown, error, faults>>

CommitRefused ==
  /\ ppc = "commit" /\ flipping # None
  /\ ppc' = "error"
  /\ UNCHANGED <<mainVars, dest_buffers, dest_num_queued, page, page_used, pageflip_pending,
                 cur_page, mfcVars, crtcVars, error, faults>>

CommitFails ==
  /\ ppc = "commit"
  /\ Fault /\ ppc' = "error"
  /\ UNCHANGED <<mainVars, dest_buffers, dest_num_queued, page, page_used, pageflip_pending,
                 cur_page, mfcVars, crtcVars, error>>

Free_NotShown == Pages \ {cur_page}

Free == {p \in Pages : ~page_used[p]}

get_page ==
  /\ ppc = "get" /\ Free # {}
  /\ page' = CHOOSE p \in Free : \A q \in Free : p <= q
  /\ page_used' = [page_used EXCEPT ![page'] = TRUE]
  /\ ppc' = "queue"
  /\ UNCHANGED <<mainVars, dest_buffers, dest_num_queued, pageflip_pending, cur_page,
                 mfcVars, crtcVars, error, faults>>

NoPage ==
  /\ ppc = "get" /\ Free = {}
  /\ ppc' = "getWait"
  /\ UNCHANGED <<mainVars, dest_buffers, dest_num_queued, page, page_used, pageflip_pending,
                 cur_page, mfcVars, crtcVars, error, faults>>

Known == {i \in DOMAIN dest_buffers : dest_buffers[i] = page}

(* A page gets its V4L2 index when it is queued for the first time.        *)
queue_dest ==
  /\ ppc = "queue"
  /\ dest_buffers' = IF Known = {} THEN Append(dest_buffers, page) ELSE dest_buffers
  /\ dest' = Append(dest, IF Known = {} THEN Len(dest_buffers) + 1 ELSE CHOOSE i \in Known : TRUE)
  /\ dest_num_queued' = dest_num_queued + 1
  /\ page' = None /\ ppc' = "test"
  /\ UNCHANGED <<mainVars, page_used, pageflip_pending, cur_page,
                 source, sourceDone, held, destReady, content, crtcVars, error, faults>>

(* dest_buffers has the page although the MFC did not get it.              *)
QueueFails ==
  /\ ppc = "queue"
  /\ Fault /\ ppc' = "error"
  /\ dest_buffers' = IF Known = {} THEN Append(dest_buffers, page) ELSE dest_buffers
  /\ UNCHANGED <<mainVars, dest_num_queued, page, page_used, pageflip_pending, cur_page,
                 mfcVars, crtcVars, error>>

PresError ==
  /\ ppc = "error"
  /\ error' = TRUE /\ ppc' = "stopped"
  /\ UNCHANGED <<mainVars, dest_buffers, dest_num_queued, page, page_used, pageflip_pending,
                 cur_page, mfcVars, crtcVars, faults>>

presentation_thread ==
  \/ PresTest \/ dequeue_dest \/ DequeueFails \/ issue_flip \/ WaitForFlip \/ WaitInterrupted
  \/ Commit \/ CommitRefused \/ CommitFails \/ get_page \/ NoPage \/ queue_dest \/ QueueFails
  \/ PresError

-----------------------------------------------------------------------------
(* The devices                                                             *)

swVars == <<mainVars, presVars, error, faults>>

(* The MFC decodes a frame to a page, provided it has the pages it needs.  *)
MfcDecode ==
  /\ streaming /\ source # <<>> /\ dest # <<>>
  /\ Len(dest) + Len(held) + Len(destReady) >= MinQueued
  /\ LET b == Head(source)[1]
         f == Head(source)[2]
     IN  /\ sourceDone' = Append(sourceDone, b)
         /\ content' = [content EXCEPT ![dest_buffers[Head(dest)]] = f]
  /\ source' = Tail(source)
  /\ held' = Append(held, Head(dest)) /\ dest' = Tail(dest)
  /\ UNCHANGED <<swVars, destReady, crtcVars>>

MfcDeliver ==
  /\ held # <<>>
  /\ destReady' = Append(destReady, Head(held)) /\ held' = Tail(held)
  /\ UNCHANGED <<swVars, source, sourceDone, dest, content, crtcVars>>

Vblank ==
  /\ flipping # None
  /\ scanout' = flipping /\ flipping' = None
  /\ events' = Append(events, flipping)
  /\ shown' = Append(shown, content[flipping])
  /\ UNCHANGED <<swVars, mfcVars>>

Next == Main \/ presentation_thread \/ MfcDecode \/ MfcDeliver \/ Vblank

Spec == Init /\ [][Next]_vars

-----------------------------------------------------------------------------
PagesOf(s) == {dest_buffers[s[k]] : k \in DOMAIN s}

AtMfc == PagesOf(dest) \cup PagesOf(held) \cup PagesOf(destReady)

OnDisplay == {scanout, flipping} \ {None}

(* A page has one owner: the MFC never decodes to one that is on the screen*)
(* or about to be; get_page never hands out one that the MFC, the display  *)
(* or the thread still has; and dest_num_queued, which main reads while the*)
(* presentation thread changes it (mfc.cpp:431), counts those of the MFC.  *)
PagesAreOwnedOnce ==
  /\ AtMfc \cap OnDisplay = {}
  /\ Free \cap (AtMfc \cup OnDisplay \cup {cur_page, page}) = {}
  /\ dest_num_queued = Len(dest) + Len(held) + Len(destReady)

(* Frames are shown in their order and none is left out.                   *)
ShownInOrder == \A k \in DOMAIN shown : shown[k] = k

(* Nobody can go on: a thread waits in a call, main for the other thread,  *)
(* the MFC for frames or pages, and no flip is under way.                  *)
MainWaits ==
  \/ mpc = "dequeue" /\ sourceDone = <<>>
  \/ mpc = "join" /\ ppc # "stopped"
  \/ mpc = "done"

PresentationWaits ==
  \/ ppc = "dequeue" /\ destReady = <<>>
  \/ ppc \in {"wait", "getWait"} /\ events = <<>>
  \/ ppc = "stopped"

MfcWaits ==
  /\ held = <<>>
  /\ streaming /\ source # <<>> /\ dest # <<>> => Len(dest) + Len(destReady) < MinQueued

(* Until the program gives up, and unless a call has failed, main, the     *)
(* presentation thread (in DQBUF, or in poll for a flip), the MFC and the  *)
(* display never all wait for each other: main starts the thread with one  *)
(* page more than the MFC needs, and a page of the display is always on    *)
(* its way back.                                                           *)
NeverStuck ==
  ~error /\ faults = 0 => ~(MainWaits /\ PresentationWaits /\ MfcWaits /\ flipping = None)

(* The last frame that was decoded to some page                            *)
Newest == CHOOSE n \in 0 .. NFrames :
  (\E p \in Pages : content[p] = n) /\ \A p \in Pages : content[p] <= n

(* The abstract pipeline: a frame is in it from when it is queued at the   *)
(* MFC until the display shows it.                                         *)
Pipeline == INSTANCE FramePipeline WITH
  OutCnt  <- NSrc,
  CapCnt  <- NPages,
  parsed  <- Newest + Len(source),
  decoded <- Newest

(* Every step of a thread or a device moves one frame on by one stage, or  *)
(* none, and the frames come in the order of the stream: whatever call     *)
(* fails, a frame that is queued or decoded when the threads give up is    *)
(* not overtaken, and none is shown twice, for the pages it could be in    *)
(* are never more than NPages.                                             *)
ImplementsPipeline == Pipeline!Init /\ [][Pipeline!Next]_(Pipeline!vars)

(* parser.h:84-85: parse returns false only if an error occurs, so that    *)
(* without a failing call the program does not end with an error.          *)
NoErrorWithoutFault == error => faults > 0
=============================================================================
