--------------------------- MODULE DecoderThreads ---------------------------
(***************************************************************************)
(* v4l2-mfc-example/main.c: the decoder application.  A parser thread      *)
(* feeds OUTPUT buffers with stream frames to the MFC, an MFC thread       *)
(* collects decoded CAPTURE buffers and hands them through a queue and the *)
(* semaphore todo to a display thread (FIMC or IPP), which returns them    *)
(* through the buffer flags and the semaphore done.  main waits for the    *)
(* threads one after the other.                                            *)
(*                                                                         *)
(* The MFC itself is external: it is modelled from the ioctls main.c and   *)
(* mfc.c issue.  A system call may fail; MaxFaults bounds how many do.     *)
(* The buffer queue is used through the operations Fifo.tla specifies.     *)
(***************************************************************************)
EXTENDS Integers, Sequences, FiniteSets

CONSTANTS
  OutCnt,     \* mfc.out_buf_cnt
  CapCnt,     \* mfc.cap_buf_cnt
  CapMin,     \* mfc.cap_buf_cnt_min
  QueueSize,  \* MFC_MAX_CAP_BUF, the size given to queue_init
  NFrames,    \* frames in the input stream
  Display,    \* "fimc", "ipp" or "none": the thread that shows frames
  MaxFaults   \* bound: system calls that fail

ASSUME DecoderAssumption ==
  /\ OutCnt \in Nat \ {0}
  /\ CapCnt \in Nat \ {0}
  /\ CapMin \in Nat
  /\ CapMin <= CapCnt       \* REQBUFS grants at least what the decoder needs
  /\ QueueSize \in Nat
  /\ CapCnt <= QueueSize    \* cap_buf_flag has MFC_MAX_CAP_BUF entries
  /\ NFrames \in Nat
  /\ Display \in {"fimc", "ipp", "none"}
  /\ MaxFaults \in Nat

OutBufs == 0 .. OutCnt - 1
CapBufs == 0 .. CapCnt - 1
Frames  == 0 .. NFrames     \* frame 0 is the header, or an empty picture

(* BUF_FREE, BUF_MFC and BUF_FIMC of common.h                              *)
BUF_FREE == "free"
BUF_MFC  == "mfc"
BUF_FIMC == "fimc"

VARIABLES
  error, finish, parserFinished, \* the flags of struct instance
  parserPc, offs, outFlag,       \* parser thread: offset in frames, out_buf_flag
  mfcPc, mfcN, capQueued,        \* MFC thread: local n, cap_buf_queued
  capFlag,                       \* cap_buf_flag, written by both threads
  queue, todo, done,             \* buffer queue and semaphores of the display
  displayPc, displayN, shown,    \* display thread: local n, frames shown so far
  mainPc,                        \* which pthread_join main has reached
  hwOut,     \* OUTPUT queue of the MFC: <<buffer, frame>>
  hwOutDone, \* OUTPUT buffers the MFC has consumed
  hwCap,     \* CAPTURE buffers the MFC may decode into
  hwHeld,    \* decoded, not yet output (display delay): <<buffer, frame>>
  hwCapDone, \* CAPTURE buffers ready to be dequeued: <<buffer, frame>>
  hwStopped, \* V4L2_DEC_CMD_STOP was accepted
  hwDrained, \* the empty picture that ends the stream was output
  content,   \* content[b]: the frame that is in CAPTURE buffer b
  faults     \* system calls that have failed so far

flagVars    == <<error, finish, parserFinished>>
parserVars  == <<parserPc, offs, outFlag>>
mfcVars     == <<mfcPc, mfcN, capQueued>>
syncVars    == <<queue, todo, done>>
displayVars == <<displayPc, displayN, shown>>
hwOutVars   == <<hwOut, hwOutDone, hwStopped>>
hwCapVars   == <<hwCap, hwHeld, hwCapDone, hwDrained, content>>

(* What the steps of the parser, of the MFC thread (mfcControl: those that  *)
(* only move its control), of the display thread and of the MFC leave be.  *)
parserRest  == <<finish, mfcVars, capFlag, syncVars, displayVars, mainPc, hwCapVars>>
mfcRest     == <<parserFinished, parserVars, displayPc, displayN, mainPc, hwOutVars,
                 hwHeld, hwDrained, content>>
mfcControl  == <<mfcRest, finish, capQueued, capFlag, shown, hwCap, hwCapDone>>
displayRest == <<finish, parserFinished, parserVars, mfcVars, mainPc, hwOutVars,
                 hwCapVars>>
hwRest      == <<flagVars, parserVars, mfcVars, capFlag, syncVars, displayVars, mainPc,
                 faults>>

vars == <<flagVars, parserVars, mfcVars, capFlag, syncVars, displayVars, mainPc,
          hwOutVars, hwCapVars, faults>>

ParserPcs  == {"start", "test", "work", "exit"}
MfcPcs     == {"test", "work", "waitAny", "pick", "waitSpare", "queue",
               "dequeue", "add", "post", "exit"}
DisplayPcs == {"test", "wait", "remove", "process", "free", "post", "exit"}
MainPcs    == {"joinParser", "joinMfc", "joinDisplay", "exit"}

TypeOK ==
  /\ error \in BOOLEAN /\ finish \in BOOLEAN /\ parserFinished \in BOOLEAN
  /\ parserPc \in ParserPcs /\ offs \in Frames /\ outFlag \in [OutBufs -> BOOLEAN]
  /\ mfcPc \in MfcPcs /\ mfcN \in CapBufs /\ capQueued \in Int
  /\ capFlag \in [CapBufs -> {BUF_FREE, BUF_MFC, BUF_FIMC}]
  /\ queue \in Seq(CapBufs) /\ todo \in Nat /\ done \in Nat
  /\ displayPc \in DisplayPcs /\ displayN \in CapBufs /\ shown \in Seq(Frames)
  /\ mainPc \in MainPcs
  /\ hwOut \in Seq(OutBufs \X Frames) /\ hwOutDone \in Seq(OutBufs)
  /\ hwCap \in SUBSET CapBufs
  /\ hwHeld \in Seq(CapBufs \X Frames) /\ hwCapDone \in Seq(CapBufs \X Frames)
  /\ hwStopped \in BOOLEAN /\ hwDrained \in BOOLEAN
  /\ content \in [CapBufs -> Frames]
  /\ faults \in 0 .. MaxFaults

-----------------------------------------------------------------------------
(* main up to the creation of the threads: the header is in OUTPUT buffer  *)
(* 0, every CAPTURE buffer is queued and the semaphores are zero.          *)
Init ==
  /\ error = FALSE /\ finish = FALSE /\ parserFinished = FALSE
  /\ parserPc = "start" /\ offs = 0 /\ outFlag = [b \in OutBufs |-> FALSE]
  /\ mfcPc = "test" /\ mfcN = 0 /\ capQueued = CapCnt
  /\ capFlag = [b \in CapBufs |-> BUF_MFC]
  /\ queue = <<>> /\ todo = 0 /\ done = 0
  /\ displayPc = (IF Display = "none" THEN "exit" ELSE "test")
  /\ displayN = 0 /\ shown = <<>>
  /\ mainPc = "joinParser"
  /\ hwOut = << <<0, 0>> >> /\ hwOutDone = <<>>
  /\ hwCap = CapBufs /\ hwHeld = <<>> /\ hwCapDone = <<>>
  /\ hwStopped = FALSE /\ hwDrained = FALSE
  /\ content = [b \in CapBufs |-> 0]
  /\ faults = 0

(* A system call fails.                                                    *)
Fault == faults < MaxFaults /\ faults' = faults + 1

-----------------------------------------------------------------------------
(* parser_thread_func                                                      *)

(* The header of extract_and_process_header is still in buffer 0.          *)
ParserStart ==
  /\ parserPc = "start"
  /\ outFlag' = [outFlag EXCEPT ![0] = TRUE]
  /\ parserPc' = "test"
  /\ UNCHANGED <<parserRest, hwOutVars, error, parserFinished, offs, faults>>

ParserTest ==
  /\ parserPc = "test"
  /\ parserPc' = IF error \/ finish \/ parserFinished THEN "exit" ELSE "work"
  /\ UNCHANGED <<parserRest, hwOutVars, error, parserFinished, offs, outFlag, faults>>

(* b is the first OUTPUT buffer that is not with the MFC.                  *)
FirstFree(b) == ~outFlag[b] /\ \A a \in OutBufs : a < b => outFlag[a]

mfc_dec_stop_Missing == UNCHANGED <<hwStopped, faults>>

(* V4L2_DEC_CMD_STOP; the parser ignores whether it was accepted.          *)
mfc_dec_stop ==
  \/ hwStopped' = TRUE /\ UNCHANGED faults
  \/ Fault /\ UNCHANGED hwStopped

(* The stream is exhausted.                                                *)
ParserStop ==
  /\ parserPc = "work"
  /\ \E b \in OutBufs : FirstFree(b)
  /\ offs = NFrames
  /\ parserFinished' = TRUE
  /\ mfc_dec_stop
  /\ parserPc' = "exit"
  /\ UNCHANGED <<parserRest, error, offs, outFlag, hwOut, hwOutDone>>

(* Parse the next frame into a free buffer and queue it.  The result of    *)
(* mfc_dec_queue_buf_out is not looked at.                                 *)
ParserQueue ==
  /\ parserPc = "work"
  /\ offs < NFrames
  /\ \E b \in OutBufs :
       /\ FirstFree(b)
       /\ outFlag' = [outFlag EXCEPT ![b] = TRUE]
       /\ \/ hwOut' = Append(hwOut, <<b, offs + 1>>) /\ UNCHANGED faults
          \/ Fault /\ UNCHANGED hwOut
  /\ offs' = offs + 1
  /\ parserPc' = "test"
  /\ UNCHANGED <<parserRest, error, parserFinished, hwOutDone, hwStopped>>

(* No buffer is free: block until the MFC has consumed one.                *)
ParserDequeue ==
  /\ parserPc = "work"
  /\ \A b \in OutBufs : outFlag[b]
  /\ hwOutDone # <<>>
  /\ outFlag' = [outFlag EXCEPT ![Head(hwOutDone)] = FALSE]
  /\ hwOutDone' = Tail(hwOutDone)
  /\ parserPc' = "test"
  /\ UNCHANGED <<parserRest, error, parserFinished, offs, hwOut, hwStopped, faults>>

(* DQBUF fails.  n is still out_buf_cnt, so that the store to the flag     *)
(* lands past the flags in use.                                            *)
ParserDequeueFails ==
  /\ parserPc = "work"
  /\ \A b \in OutBufs : outFlag[b]
  /\ Fault
  /\ error' = TRUE
  /\ parserPc' = "test"
  /\ UNCHANGED <<parserRest, hwOutVars, parserFinished, offs, outFlag>>

parser_thread_func ==
  ParserStart \/ ParserTest \/ ParserStop \/ ParserQueue \/ ParserDequeue
  \/ ParserDequeueFails

-----------------------------------------------------------------------------
(* mfc_thread_func                                                         *)

MfcTest ==
  /\ mfcPc = "test"
  /\ mfcPc' = IF error \/ finish THEN "exit" ELSE "work"
  /\ UNCHANGED <<mfcControl, syncVars, error, mfcN, faults>>

TooFewQueued_OffByOne == capQueued < CapMin - 1

TooFewQueued == capQueued < CapMin

WaitDone_NoBlock == done' = done - 1

(* sem_wait on done                                                        *)
WaitDone == done > 0 /\ done' = done - 1

IsFree_NotShown(b) == capFlag[b] # BUF_FIMC

IsFree(b) == capFlag[b] = BUF_FREE

(* Without a display thread there is nothing to wait for.                  *)
MfcNeedBuffer ==
  /\ mfcPc = "work"
  /\ TooFewQueued
  /\ mfcPc' = IF Display = "none" THEN "pick" ELSE "waitAny"
  /\ UNCHANGED <<mfcControl, syncVars, error, mfcN, faults>>

(* sem_wait on done with no buffer chosen yet.                             *)
MfcWaitAny ==
  /\ mfcPc = "waitAny"
  /\ WaitDone
  /\ mfcPc' = "pick"
  /\ UNCHANGED <<mfcControl, error, mfcN, queue, todo, faults>>

(* The scan of cap_buf_flag: it takes the first BUF_FREE it comes to, but  *)
(* the display thread may free a lower index behind it, so that it can be  *)
(* any free buffer.  Finding none is what the code calls seriously wrong.  *)
MfcPick ==
  /\ mfcPc = "pick"
  /\ \/ \E b \in CapBufs :
          /\ IsFree(b)
          /\ mfcN' = b
          /\ mfcPc' = "queue"
          /\ UNCHANGED error
     \/ /\ \A b \in CapBufs : ~IsFree(b)
        /\ error' = TRUE
        /\ mfcPc' = "test"
        /\ UNCHANGED mfcN
  /\ UNCHANGED <<mfcControl, syncVars, faults>>

AfterPickSpare_NoWait == "queue"

(* What comes after a spare buffer was found.                              *)
AfterPickSpare == IF Display = "none" THEN "queue" ELSE "waitSpare"

(* Enough is queued and there is a free buffer: choose it, then wait.      *)
MfcPickSpare ==
  /\ mfcPc = "work"
  /\ ~TooFewQueued /\ capQueued < CapCnt
  /\ \E b \in CapBufs : IsFree(b) /\ mfcN' = b
  /\ mfcPc' = AfterPickSpare
  /\ UNCHANGED <<mfcControl, syncVars, error, faults>>

(* sem_wait on done with the buffer already chosen.                        *)
MfcWaitSpare ==
  /\ mfcPc = "waitSpare"
  /\ WaitDone
  /\ mfcPc' = "queue"
  /\ UNCHANGED <<mfcControl, error, mfcN, queue, todo, faults>>

(* mfc_dec_queue_buf_cap, whose result is not looked at.                   *)
MfcQueue ==
  /\ mfcPc = "queue"
  /\ \/ hwCap' = hwCap \cup {mfcN} /\ UNCHANGED faults
     \/ Fault /\ UNCHANGED hwCap
  /\ capFlag' = [capFlag EXCEPT ![mfcN] = BUF_MFC]
  /\ capQueued' = capQueued + 1
  /\ mfcPc' = "test"
  /\ UNCHANGED <<mfcRest, syncVars, error, finish, mfcN, shown, hwCapDone>>

MfcNoSpare ==
  /\ mfcPc = "work"
  /\ ~TooFewQueued
  /\ capQueued < CapCnt => \A b \in CapBufs : ~IsFree(b)
  /\ mfcPc' = "dequeue"
  /\ UNCHANGED <<mfcControl, syncVars, error, mfcN, faults>>

HandedTo_Free == BUF_FREE

(* The flag that a buffer leaving the MFC gets.                            *)
HandedTo == IF Display = "none" THEN BUF_FREE ELSE BUF_FIMC

(* DQBUF returned a picture: it belongs to the display from here on.  With *)
(* no display thread the frame ends here, and the buffer is free again.    *)
MfcDequeue ==
  /\ mfcPc = "dequeue"
  /\ hwCapDone # <<>>
  /\ LET b == Head(hwCapDone)[1] IN
       /\ Head(hwCapDone)[2] # 0
       /\ mfcN' = b
       /\ capFlag' = [capFlag EXCEPT ![b] = HandedTo]
       /\ shown' = IF Display = "none" THEN Append(shown, content[b]) ELSE shown
  /\ capQueued' = capQueued - 1
  /\ mfcPc' = IF Display = "none" THEN "test" ELSE "add"
  /\ hwCapDone' = Tail(hwCapDone)
  /\ UNCHANGED <<mfcRest, syncVars, error, finish, hwCap, faults>>

(* DQBUF returned the empty picture.  The display thread is not told.      *)
MfcFinish ==
  /\ mfcPc = "dequeue"
  /\ hwCapDone # <<>>
  /\ Head(hwCapDone)[2] = 0
  /\ mfcN' = Head(hwCapDone)[1]
  /\ finish' = TRUE
  /\ mfcPc' = "exit"
  /\ hwCapDone' = Tail(hwCapDone)
  /\ UNCHANGED <<mfcRest, syncVars, error, capQueued, capFlag, shown, hwCap, faults>>

MfcDequeueFails ==
  /\ mfcPc = "dequeue"
  /\ Fault
  /\ error' = TRUE
  /\ mfcPc' = "exit"
  /\ UNCHANGED <<mfcControl, syncVars, mfcN>>

queue_add_AtFront(s, b) == <<b>> \o s

(* A full queue refuses the index.                                         *)
queue_add(s, b) == IF Len(s) < QueueSize THEN Append(s, b) ELSE s

(* Whether queue_add served the request is not looked at.                  *)
MfcAdd ==
  /\ mfcPc = "add"
  /\ queue' = queue_add(queue, mfcN)
  /\ mfcPc' = "post"
  /\ UNCHANGED <<mfcControl, error, mfcN, todo, done, faults>>

(* sem_post on todo                                                        *)
MfcPost ==
  /\ mfcPc = "post"
  /\ todo' = todo + 1
  /\ mfcPc' = "test"
  /\ UNCHANGED <<mfcControl, error, mfcN, queue, done, faults>>

mfc_thread_func ==
  MfcTest \/ MfcNeedBuffer \/ MfcWaitAny \/ MfcPick \/ MfcPickSpare
  \/ MfcWaitSpare \/ MfcQueue \/ MfcNoSpare \/ MfcDequeue \/ MfcFinish
  \/ MfcDequeueFails \/ MfcAdd \/ MfcPost

-----------------------------------------------------------------------------
(* fimc_thread_func and ipp_thread_func                                    *)

KeepShowing_NoDrain == ~error /\ ~finish

(* The loop condition: after finish the queue is still drained.            *)
KeepShowing == ~error /\ (finish => queue # <<>>)

DisplayTest ==
  /\ displayPc = "test"
  /\ displayPc' = IF KeepShowing THEN "wait" ELSE "exit"
  /\ UNCHANGED <<displayRest, syncVars, error, capFlag, displayN, shown, faults>>

(* sem_wait on todo                                                        *)
DisplayWait ==
  /\ displayPc = "wait"
  /\ todo > 0
  /\ todo' = todo - 1
  /\ displayPc' = "remove"
  /\ UNCHANGED <<displayRest, error, capFlag, queue, done, displayN, shown, faults>>

(* queue_remove and the checks of what it returned.  From an empty queue   *)
(* the index is -1: the flag the code then reads is outside the array, and *)
(* the device refuses the index when that flag happens to be BUF_FIMC.     *)
DisplayRemove ==
  /\ displayPc = "remove"
  /\ queue' = IF queue = <<>> THEN queue ELSE Tail(queue)
  /\ displayN' = IF queue = <<>> THEN displayN ELSE Head(queue)
  /\ \/ /\ queue # <<>> /\ capFlag[Head(queue)] = BUF_FIMC
        /\ displayPc' = "process"
        /\ UNCHANGED error
     \/ /\ queue = <<>> \/ capFlag[Head(queue)] # BUF_FIMC
        /\ displayPc' = "exit"
        /\ error' = TRUE
  /\ UNCHANGED <<displayRest, capFlag, todo, done, shown, faults>>

(* Scale and show the picture in displayN, with the FIMC or the IPP        *)
(* (DecoderDisplay has the calls).                                         *)
ShowFrame ==
  /\ displayPc = "process"
  /\ shown' = Append(shown, content[displayN])
  /\ displayPc' = "free"
  /\ UNCHANGED <<displayRest, syncVars, error, capFlag, displayN, faults>>

(* One of the ioctls on the FIMC or the IPP fails.                         *)
ProcessFails ==
  /\ displayPc = "process"
  /\ Fault
  /\ error' = TRUE
  /\ displayPc' = "exit"
  /\ UNCHANGED <<displayRest, syncVars, capFlag, displayN, shown>>

DisplayFree ==
  /\ displayPc = "free"
  /\ capFlag' = [capFlag EXCEPT ![displayN] = BUF_FREE]
  /\ displayPc' = "post"
  /\ UNCHANGED <<displayRest, syncVars, error, displayN, shown, faults>>

(* sem_post on done                                                        *)
DisplayPost ==
  /\ displayPc = "post"
  /\ done' = done + 1
  /\ displayPc' = "test"
  /\ UNCHANGED <<displayRest, error, capFlag, queue, todo, displayN, shown, faults>>

display_thread_func ==
  DisplayTest \/ DisplayWait \/ DisplayRemove \/ ShowFrame
  \/ ProcessFails \/ DisplayFree \/ DisplayPost

-----------------------------------------------------------------------------
(* main: pthread_join on the parser, the MFC and the display thread.       *)

JoinParser ==
  mainPc = "joinParser" /\ parserPc = "exit" /\ mainPc' = "joinMfc"

JoinMfc ==
  /\ mainPc = "joinMfc" /\ mfcPc = "exit"
  /\ mainPc' = IF Display = "none" THEN "exit" ELSE "joinDisplay"

JoinDisplay ==
  mainPc = "joinDisplay" /\ displayPc = "exit" /\ mainPc' = "exit"

main ==
  /\ JoinParser \/ JoinMfc \/ JoinDisplay
  /\ UNCHANGED <<flagVars, parserVars, mfcVars, capFlag, syncVars, displayVars,
                 hwOutVars, hwCapVars, faults>>

-----------------------------------------------------------------------------
(* The MFC                                                                 *)

HeaderNext == hwOut # <<>> /\ hwOut[1][2] = 0

ConsumeOut ==
  hwOut' = Tail(hwOut) /\ hwOutDone' = Append(hwOutDone, Head(hwOut)[1])

HwHeader ==
  /\ HeaderNext
  /\ ConsumeOut
  /\ UNCHANGED <<hwRest, hwCapVars, hwStopped>>

(* Decode the next frame into any CAPTURE buffer the MFC has.              *)
HwDecode ==
  /\ hwOut # <<>> /\ ~HeaderNext
  /\ ConsumeOut
  /\ \E b \in hwCap :
       /\ hwCap' = hwCap \ {b}
       /\ content' = [content EXCEPT ![b] = Head(hwOut)[2]]
       /\ hwHeld' = Append(hwHeld, <<b, Head(hwOut)[2]>>)
  /\ UNCHANGED <<hwRest, hwStopped, hwCapDone, hwDrained>>

(* Nothing more will come: the decoder flushes what it holds.              *)
Draining == hwStopped /\ hwOut = <<>>

(* The decoder keeps reference pictures back until it holds CapMin of      *)
(* them: that is what it needs its minimum of buffers for.                 *)
HwOutput ==
  /\ hwHeld # <<>>
  /\ Len(hwHeld) >= CapMin \/ Draining
  /\ hwCapDone' = Append(hwCapDone, Head(hwHeld))
  /\ hwHeld' = Tail(hwHeld)
  /\ UNCHANGED <<hwRest, hwOutVars, hwCap, hwDrained, content>>

(* The end of the stream is a picture of no bytes.                         *)
HwDrained ==
  /\ Draining /\ hwHeld = <<>> /\ ~hwDrained
  /\ \E b \in hwCap :
       hwCap' = hwCap \ {b} /\ hwCapDone' = Append(hwCapDone, <<b, 0>>)
  /\ hwDrained' = TRUE
  /\ UNCHANGED <<hwRest, hwOutVars, hwHeld, content>>

Mfc == HwHeader \/ HwDecode \/ HwOutput \/ HwDrained

-----------------------------------------------------------------------------
Next ==
  parser_thread_func \/ mfc_thread_func \/ display_thread_func \/ main \/ Mfc

Spec == Init /\ [][Next]_vars

(* Each thread is scheduled, a blocked call returns when it can (each      *)
(* semaphore has one waiter), and the decoder works on what it has.        *)
Fairness ==
  /\ WF_vars(parser_thread_func)
  /\ WF_vars(mfc_thread_func)
  /\ WF_vars(display_thread_func)
  /\ WF_vars(main)
  /\ WF_vars(Mfc)

FairSpec == Spec /\ Fairness

-----------------------------------------------------------------------------
(* Safety                                                                  *)

Flagged(f) == {b \in CapBufs : capFlag[b] = f}

One(p) == IF p THEN 1 ELSE 0

DriverBufs ==
  hwCap \cup {hwHeld[k][1] : k \in DOMAIN hwHeld}
        \cup {hwCapDone[k][1] : k \in DOMAIN hwCapDone}

(* The semaphores agree with the buffers they stand for, whatever the      *)
(* threads are in the middle of: todo with the queue (main.c:304, 341) and *)
(* done with the free flags (main.c:222, 258, 446).  A post too few blocks *)
(* a thread for ever; one too many ends in "seriously wrong".              *)
SemaphoresCountBuffers ==
  Display # "none" =>
    /\ Len(queue) = todo + One(mfcPc = "post") + One(displayPc = "remove")
    /\ Cardinality(Flagged(BUF_FREE)) =
         done + One(displayPc = "post") + One(mfcPc \in {"pick", "queue"})

(* cap_buf_queued is the number of buffers flagged BUF_MFC (main.c:217),   *)
(* and the queue holds distinct buffers, all flagged BUF_FIMC.             *)
FlagsMatchQueues ==
  /\ capQueued = Cardinality(Flagged(BUF_MFC))
  /\ \A j \in DOMAIN queue : capFlag[queue[j]] = BUF_FIMC
  /\ \A j, k \in DOMAIN queue : queue[j] = queue[k] => j = k

(* A buffer the MFC may write is flagged BUF_MFC: it is neither free, nor  *)
(* queued for the display, nor being shown, and a buffer the display       *)
(* thread reads or is about to free is its alone.                          *)
ExclusiveOwnership ==
  /\ \A b \in DriverBufs : capFlag[b] = BUF_MFC
  /\ displayPc \in {"process", "free"} =>
       /\ capFlag[displayN] = BUF_FIMC
       /\ \A k \in DOMAIN queue : queue[k] # displayN

(* The checks of the threads on each other (main.c:241, 348 and 354) never *)
(* fire: error is only ever set because a system call failed.              *)
NoFalseAlarm == error => faults > 0

(* Who waits, or has left: the parser for a buffer that the MFC has read   *)
(* (main.c:193), the MFC thread for done or for a picture (:222, 258, 278),*)
(* the display thread for todo (:341), and the MFC for a frame, for a      *)
(* buffer to decode into or for more pictures than it holds.               *)
ParserWaits ==
  \/ parserPc = "exit"
  \/ parserPc = "work" /\ (\A b \in OutBufs : outFlag[b]) /\ hwOutDone = <<>>

MfcThreadWaits ==
  \/ mfcPc = "exit"
  \/ mfcPc \in {"waitAny", "waitSpare"} /\ done = 0
  \/ mfcPc = "dequeue" /\ hwCapDone = <<>>

DisplayWaits ==
  \/ displayPc = "exit"
  \/ displayPc = "wait" /\ todo = 0

MfcWaits ==
  /\ hwOut = <<>> \/ (~HeaderNext /\ hwCap = {})
  /\ hwHeld = <<>> \/ (Len(hwHeld) < CapMin /\ ~Draining)
  /\ ~Draining \/ hwHeld # <<>> \/ hwDrained \/ hwCap = {}

(* Until the end of the stream is seen they never all wait for each other, *)
(* unless a call has failed: the MFC, which needs CapMin buffers to go on, *)
(* gets them before the MFC thread asks for a picture (main.c:217).        *)
NobodyIsStuck ==
  CapMin > 0 /\ faults = 0 /\ ~finish =>
    ~(ParserWaits /\ MfcThreadWaits /\ DisplayWaits /\ MfcWaits)

(* Frames are shown in stream order and none is shown twice, even when     *)
(* system calls fail and frames are lost.                                  *)
ShownInOrder ==
  \A j, k \in DOMAIN shown : j < k => shown[j] < shown[k]

-----------------------------------------------------------------------------
(* The abstract pipeline: a frame counts as decoded once the MFC has taken *)
(* it from its OUTPUT queue.                                               *)

Pipeline == INSTANCE FramePipeline WITH
  parsed <- offs,
  decoded <- offs - Cardinality({k \in DOMAIN hwOut : hwOut[k][2] # 0})

(* Without faults, no frame is lost, duplicated or overtaken between the   *)
(* parser, the decoder and the display, and all of them are shown.         *)
ImplementsPipeline == Pipeline!Spec

(* common.h:259 says of finish that it is set when decoding has been       *)
(* completed "and all threads finish": main then joins all of them.        *)
AllThreadsFinish == finish ~> mainPc = "exit"
=============================================================================
