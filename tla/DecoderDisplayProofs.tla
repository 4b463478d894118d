------------------------ MODULE DecoderDisplayProofs ------------------------
(***************************************************************************)
(* What the display thread shows and gives back, for any number of         *)
(* pictures, of tries and of failing calls.                                *)
(***************************************************************************)
EXTENDS DecoderDisplay, TLAPS

FimcPcs == {"queueOut", "queueCap", "streamOut", "streamCap", "dequeueCap", "dequeueOut",
            "pan", "vsync", "flip", "wait", "next"}
IppPcs  == {"play", "enqueue", "select", "display_flip", "waitFlip", "dequeue"}

ThreadTypeOK ==
  /\ display \in {"fb", "drm", "ipp"} /\ double_buf \in BOOLEAN
  /\ pc \in {"take", "free", "exit"} \cup IppPcs \cup FimcPcs
  /\ IF display = "ipp" THEN pc \notin FimcPcs ELSE pc \notin IppPcs
  /\ n \in 0 .. NPictures /\ cur_buf \in Buffers /\ first_run \in BOOLEAN
  /\ tries \in 0 .. MaxTries /\ (pc = "select" => tries > 0) /\ error \in BOOLEAN
  /\ typed \in BOOLEAN /\ faults \in 0 .. MaxFaults

FimcTypeOK ==
  /\ source \in [what : -1 .. NPictures, done : BOOLEAN]
  /\ target \in [what : -1 .. 1, done : BOOLEAN]
  /\ on \subseteq {"output", "capture"}

ScreenTypeOK ==
  /\ jobs \in Seq(0 .. NPictures) /\ events \in Seq({"flip", "ipp"})
  /\ drawn \in [Buffers -> 0 .. NPictures]
  /\ scanout \in Buffers /\ next \in -1 .. 1 /\ vblank \in BOOLEAN

DisplayTypeOK == ThreadTypeOK /\ FimcTypeOK /\ ScreenTypeOK

(* Where the thread is tells which buffers are with the FIMC, whether it   *)
(* is done with them, and what it has drawn.                               *)
Conversion ==
  /\ pc \in {"take", "queueOut", "pan", "vsync", "flip", "wait", "next", "free"} \cup IppPcs =>
       source = Empty /\ target = Empty
  /\ display = "ipp" => source = Empty /\ target = Empty
  /\ pc = "queueCap" => source = Queued(n) /\ target = Empty
  /\ pc \in {"streamOut", "streamCap", "dequeueCap"} =>
       /\ source.what = n /\ target.what = cur_buf /\ source.done = target.done
       /\ target.done => drawn[cur_buf] = n
  /\ pc = "dequeueOut" => source = [what |-> n, done |-> TRUE] /\ target = Empty
  /\ pc \in {"dequeueOut", "pan", "vsync", "flip", "wait", "next"} => drawn[cur_buf] = n
  /\ pc = "exit" => (source = Empty \/ source.what = n) /\ (target = Empty \/ target.what \in Buffers)

(* With one buffer it is always that one which is on the screen.           *)
OneBuffer ==
  display # "ipp" /\ ~double_buf =>
    /\ cur_buf = 0 /\ scanout = 0 /\ next = None
    /\ pc \notin {"pan", "vsync", "flip", "wait", "next"}
    /\ pc = "free" => drawn[0] = n

(* With two, and nothing typed and no call failed, the flip of a picture   *)
(* has ended, and its event was read, before the thread takes the next.    *)
TwoBuffers ==
  display # "ipp" /\ double_buf /\ Undisturbed =>
    /\ pc # "exit"
    /\ pc \in {"pan", "vsync"} => display = "fb"
    /\ pc \in {"flip", "wait"} => display = "drm"
    /\ pc # "wait" => events = <<>>
    /\ pc \notin {"vsync", "wait"} => next = None
    /\ pc \notin {"vsync", "wait", "next", "free"} /\ n > (IF pc = "take" THEN 0 ELSE 1) =>
         scanout # cur_buf
    /\ pc = "vsync" => (next = cur_buf /\ ~vblank) \/ (next = None /\ scanout = cur_buf)
    /\ pc = "wait" => (next = cur_buf /\ events = <<>>) \/ (next = None /\ scanout = cur_buf)
    /\ pc = "next" => scanout = cur_buf
    /\ pc = "free" => scanout # cur_buf /\ drawn[scanout] = n

IInv == DisplayTypeOK /\ Conversion /\ OneBuffer /\ TwoBuffers

-----------------------------------------------------------------------------
(* Each step keeps the types; two steps need a fact about a sequence.      *)

(* The device and main start with values of their types.                   *)
LEMMA TypeInit == Init => DisplayTypeOK
<1> SUFFICES ASSUME Init PROVE DisplayTypeOK
  OBVIOUS
<1> USE DisplayAssumption DEF Init, Buffers, Empty, None, NoPicture
<1>1. jobs \in Seq(0 .. NPictures)
  <2>1. CASE display = "ipp"
    BY <2>1
  <2>2. CASE display # "ipp"
    BY <2>2
  <2>3. QED
    BY <2>1, <2>2
<1>2. ThreadTypeOK
  <2>1. {double_buf, first_run, error, typed} \subseteq BOOLEAN
    OBVIOUS
  <2>2. pc \notin FimcPcs /\ pc \notin IppPcs /\ pc # "select"
    BY DEF FimcPcs, IppPcs
  <2>3. QED
    BY <2>1, <2>2 DEF ThreadTypeOK
<1>3. FimcTypeOK
  BY DEF FimcTypeOK
<1>4. drawn \in [Buffers -> 0 .. NPictures] /\ scanout \in Buffers /\ next \in -1 .. 1
  OBVIOUS
<1>5. vblank \in BOOLEAN
  OBVIOUS
<1>7. events \in Seq({"flip", "ipp"})
  OBVIOUS
<1>6. QED
  BY <1>1, <1>2, <1>3, <1>4, <1>5, <1>7 DEF DisplayTypeOK, ScreenTypeOK

(* The copies of a picture that are queued for the IPP are pictures.       *)
LEMMA JobsType ==
  ASSUME NEW S, NEW s \in Seq(S), NEW k \in Nat, NEW e \in S
  PROVE  s \o [i \in 1 .. k |-> e] \in Seq(S)
<1>1. [i \in 1 .. k |-> e] \in Seq(S)
  OBVIOUS
<1>2. QED
  BY <1>1

(* What is left of a sequence is one of the same elements.                 *)
LEMMA TailType ==
  ASSUME NEW S, NEW s \in Seq(S), s # <<>>
  PROVE  Head(s) \in S /\ Tail(s) \in Seq(S)
OBVIOUS

(* The thread's own variables.                                             *)
LEMMA ThreadType == DisplayTypeOK /\ Next => ThreadTypeOK'
<1> SUFFICES ASSUME DisplayTypeOK, Next PROVE ThreadTypeOK'
  OBVIOUS
<1> USE DisplayAssumption DEF DisplayTypeOK, ThreadTypeOK, FimcPcs, IppPcs, GoTo, GiveUp, Fault,
      threadVars, Buffers, NoPicture
<1>1. CASE Take \/ Free
  BY <1>1 DEF Take, Free
<1>2. CASE CallFails
  BY <1>2 DEF CallFails
<1>3. CASE fimc_thread_func
  <2>1. CASE \/ fimc_dec_queue_buf_out_from_mfc \/ fimc_dec_queue_buf_cap
             \/ fimc_dec_dequeue_buf_cap \/ fimc_dec_dequeue_buf_out
    BY <2>1 DEF fimc_dec_queue_buf_out_from_mfc, fimc_dec_queue_buf_cap,
      fimc_dec_dequeue_buf_cap, fimc_dec_dequeue_buf_out, AfterConversion
  <2>2. CASE \/ fimc_stream("output", "streamOut", "streamCap")
             \/ fimc_stream("capture", "streamCap", "dequeueCap")
    BY <2>2 DEF fimc_stream
  <2>3. CASE fb_set_virt_y_offset
    BY <2>3 DEF fb_set_virt_y_offset
  <2>4. CASE fb_wait_for_vsync
    BY <2>4 DEF fb_wait_for_vsync
  <2>5. CASE drmModePageFlip
    BY <2>5 DEF drmModePageFlip
  <2>6. CASE wait_for_flip \/ switch_buffer
    BY <2>6 DEF wait_for_flip, switch_buffer, NextBuffer
  <2>7. QED
    BY <1>3, <2>1, <2>2, <2>3, <2>4, <2>5, <2>6 DEF fimc_thread_func
<1>4. CASE ipp_thread_func
  <2>1. CASE exynos_drm_ipp_cmd_ctrl \/ select_Typed
    BY <2>1 DEF exynos_drm_ipp_cmd_ctrl, select_Typed
  <2>2. CASE exynos_drm_ipp_do_buffer
    BY <2>2 DEF exynos_drm_ipp_do_buffer
  <2>3. CASE select_Timeout
    <3>1. tries' \in 0 .. MaxTries /\ faults' \in 0 .. MaxFaults
      BY <2>3 DEF select_Timeout, CountDown
    <3>2. CASE tries' = 0
      BY <2>3, <3>1, <3>2 DEF select_Timeout
    <3>3. CASE tries' # 0
      BY <2>3, <3>1, <3>3 DEF select_Timeout
    <3>4. QED
      BY <3>2, <3>3
  <2>4. CASE read_event
    BY <2>4 DEF read_event
  <2>5. CASE exynos_drm_ipp_display_flip
    BY <2>5 DEF exynos_drm_ipp_display_flip
  <2>6. CASE wait_for_ipp_flip
    BY <2>6 DEF wait_for_ipp_flip
  <2>7. CASE exynos_drm_ipp_dequeue_buffors
    BY <2>7 DEF exynos_drm_ipp_dequeue_buffors
  <2>8. QED
    BY <1>4, <2>1, <2>2, <2>3, <2>4, <2>5, <2>6, <2>7 DEF ipp_thread_func
<1>5. CASE Device
  BY <1>5 DEF Device, Fimc, Ipp
<1>6. CASE Vblank
  BY <1>6 DEF Vblank
<1>7. CASE Type
  BY <1>7 DEF Type
<1>8. QED
  BY <1>1, <1>2, <1>3, <1>4, <1>5, <1>6, <1>7 DEF Next, Thread

(* What the FIMC has.                                                      *)
LEMMA FimcType == DisplayTypeOK /\ Next => FimcTypeOK'
<1> SUFFICES ASSUME DisplayTypeOK, Next PROVE FimcTypeOK'
  OBVIOUS
<1> USE DEF FimcTypeOK, fimcVars
<1> USE DEF DisplayTypeOK, ThreadTypeOK, Buffers, Queued, Empty, None
<1>1. CASE fimc_dec_queue_buf_out_from_mfc \/ fimc_dec_dequeue_buf_out
  <2>1. source' \in {Queued(n), Empty}
    BY <1>1 DEF fimc_dec_queue_buf_out_from_mfc, fimc_dec_dequeue_buf_out
  <2>2. Queued(n) \in [what : -1 .. NPictures, done : BOOLEAN] /\ Empty \in [what : -1 .. NPictures, done : BOOLEAN]
    BY DisplayAssumption
  <2>3. UNCHANGED <<target, on>>
    BY <1>1 DEF fimc_dec_queue_buf_out_from_mfc, fimc_dec_dequeue_buf_out
  <2>4. QED
    BY <2>1, <2>2, <2>3 DEF FimcTypeOK
<1>6. CASE fimc_dec_queue_buf_cap \/ fimc_dec_dequeue_buf_cap
  <2>1. target' \in {Queued(cur_buf), Empty}
    BY <1>6 DEF fimc_dec_queue_buf_cap, fimc_dec_dequeue_buf_cap
  <2>2. Queued(cur_buf) \in [what : -1 .. 1, done : BOOLEAN] /\ Empty \in [what : -1 .. 1, done : BOOLEAN]
    BY DisplayAssumption
  <2>3. UNCHANGED <<source, on>>
    BY <1>6 DEF fimc_dec_queue_buf_cap, fimc_dec_dequeue_buf_cap
  <2>4. QED
    BY <2>1, <2>2, <2>3 DEF FimcTypeOK
<1>2. CASE \/ fimc_stream("output", "streamOut", "streamCap")
           \/ fimc_stream("capture", "streamCap", "dequeueCap")
  BY <1>2 DEF DisplayTypeOK, fimc_stream
<1>3. CASE Fimc
  BY <1>3 DEF DisplayTypeOK, Fimc
<1>4. CASE UNCHANGED fimcVars
  BY <1>4 DEF DisplayTypeOK
<1>5. QED
  BY <1>1, <1>2, <1>3, <1>4, <1>6 DEF Next, Thread, Device, Take, Free, CallFails, fimc_thread_func,
    fb_set_virt_y_offset, fb_wait_for_vsync, drmModePageFlip, wait_for_flip, switch_buffer,
    ipp_thread_func, exynos_drm_ipp_cmd_ctrl, exynos_drm_ipp_do_buffer, select_Timeout,
    select_Typed, read_event, exynos_drm_ipp_display_flip, wait_for_ipp_flip,
    exynos_drm_ipp_dequeue_buffors, Ipp, Vblank, Type

(* The pictures, the display and the events.                               *)
LEMMA ScreenType == DisplayTypeOK /\ Next => ScreenTypeOK'
<1> SUFFICES ASSUME DisplayTypeOK, Next PROVE ScreenTypeOK'
  OBVIOUS
<1> USE DEF DisplayTypeOK, ScreenTypeOK, screenVars, Buffers, None
<1>1. CASE fb_set_virt_y_offset \/ drmModePageFlip \/ exynos_drm_ipp_display_flip
  <2>1. CASE fb_set_virt_y_offset
    <3>1. next' \in {cur_buf, next} /\ vblank' \in BOOLEAN
      BY <2>1 DEF fb_set_virt_y_offset
    <3>2. QED
      BY <2>1, <3>1 DEF ThreadTypeOK, fb_set_virt_y_offset
  <2>2. CASE drmModePageFlip
    BY <2>2 DEF ThreadTypeOK, drmModePageFlip
  <2>3. CASE exynos_drm_ipp_display_flip
    BY <2>3 DEF exynos_drm_ipp_display_flip
  <2>4. QED
    BY <1>1, <2>1, <2>2, <2>3
<1>2. CASE wait_for_flip \/ read_event \/ wait_for_ipp_flip
  <2>1. events # <<>> => Tail(events) \in Seq({"flip", "ipp"})
    BY TailType
  <2>2. <<>> \in Seq({"flip", "ipp"})
    OBVIOUS
  <2>3. events' \in {events, <<>>} \/ (events # <<>> /\ events' = Tail(events))
    BY <1>2 DEF wait_for_flip, read_event, wait_for_ipp_flip
  <2>4. UNCHANGED <<jobs, drawn, screenVars>>
    BY <1>2 DEF wait_for_flip, read_event, wait_for_ipp_flip
  <2>5. events' \in Seq({"flip", "ipp"})
    BY <2>1, <2>2, <2>3
  <2>6. QED
    BY <2>4, <2>5
<1>3. CASE exynos_drm_ipp_do_buffer
  <2>1. Copies \in Nat /\ n \in 0 .. NPictures /\ jobs \in Seq(0 .. NPictures)
    BY DisplayAssumption DEF ThreadTypeOK
  <2>2. jobs \o [k \in 1 .. Copies |-> n] \in Seq(0 .. NPictures)
    BY <2>1, JobsType
  <2>3. jobs' \in {jobs, jobs \o [k \in 1 .. Copies |-> n]}
    BY <1>3 DEF exynos_drm_ipp_do_buffer
  <2>4. QED
    BY <1>3, <2>1, <2>2, <2>3 DEF exynos_drm_ipp_do_buffer
<1>4. CASE exynos_drm_ipp_dequeue_buffors
  <2>1. jobs' \in {jobs, <<>>} /\ <<>> \in Seq(0 .. NPictures)
    BY <1>4 DEF exynos_drm_ipp_dequeue_buffors
  <2>2. QED
    BY <1>4, <2>1 DEF exynos_drm_ipp_dequeue_buffors
<1>5. CASE Fimc
  BY <1>5 DEF FimcTypeOK, Fimc, Empty
<1>6. CASE Ipp
  <2>1. Head(jobs) \in 0 .. NPictures /\ jobs' \in Seq(0 .. NPictures)
    BY <1>6, TailType DEF Ipp
  <2>2. QED
    BY <1>6, <2>1 DEF Ipp
<1>7. CASE Vblank
  BY <1>7 DEF Vblank
<1>8. CASE UNCHANGED <<jobs, drawn, screenVars, events>>
  BY <1>8
<1>9. QED
  BY <1>1, <1>2, <1>3, <1>4, <1>5, <1>6, <1>7, <1>8 DEF Next, Thread, Device, Take, Free,
    CallFails, fimc_thread_func, fimc_dec_queue_buf_out_from_mfc, fimc_dec_queue_buf_cap,
    fimc_stream, fimc_dec_dequeue_buf_cap, fimc_dec_dequeue_buf_out, fb_wait_for_vsync,
    switch_buffer, ipp_thread_func, exynos_drm_ipp_cmd_ctrl, select_Timeout, select_Typed, Type

-----------------------------------------------------------------------------
(* The picture that is converted                                           *)

(* At the start there is none.                                             *)
LEMMA ConversionInit == Init => Conversion /\ OneBuffer /\ TwoBuffers
BY DEF Init, Conversion, OneBuffer, TwoBuffers, Buffers, IppPcs, NoPicture, None

(* A step of the thread, of a device or of the display keeps where the     *)
(* picture is, and what was drawn of it.                                   *)
LEMMA ConversionStep == DisplayTypeOK /\ Conversion /\ Next => Conversion'
<1> SUFFICES ASSUME DisplayTypeOK, Conversion, Next PROVE Conversion'
  OBVIOUS
<1> USE DEF DisplayTypeOK, Conversion, IppPcs, FimcPcs, GoTo, GiveUp, threadVars, fimcVars
<1>1. CASE Take \/ Free
  BY <1>1 DEF Take, Free
<1>2. CASE CallFails
  BY <1>2 DEF CallFails, ThreadTypeOK, Queued
<1>3. CASE fimc_dec_queue_buf_out_from_mfc
  BY <1>3 DEF fimc_dec_queue_buf_out_from_mfc, ThreadTypeOK
<1>4. CASE fimc_dec_queue_buf_cap
  <2>1. pc' \in {"streamOut", "dequeueCap"}
    BY <1>4 DEF fimc_dec_queue_buf_cap
  <2>2. source' = Queued(n') /\ target' = Queued(cur_buf')
    BY <1>4 DEF fimc_dec_queue_buf_cap
  <2>3. display' # "ipp"
    BY <1>4 DEF fimc_dec_queue_buf_cap, ThreadTypeOK
  <2>4. QED
    BY <2>1, <2>2, <2>3 DEF Queued
<1>5. CASE \/ fimc_stream("output", "streamOut", "streamCap")
           \/ fimc_stream("capture", "streamCap", "dequeueCap")
  BY <1>5 DEF fimc_stream
<1>6. CASE fimc_dec_dequeue_buf_cap
  BY <1>6 DEF fimc_dec_dequeue_buf_cap, FimcTypeOK
<1>7. CASE fimc_dec_dequeue_buf_out
  BY <1>7 DEF fimc_dec_dequeue_buf_out, AfterConversion
<1>8. CASE fb_set_virt_y_offset \/ fb_wait_for_vsync \/ drmModePageFlip \/ wait_for_flip
  BY <1>8 DEF fb_set_virt_y_offset, fb_wait_for_vsync, drmModePageFlip, wait_for_flip
<1>9. CASE switch_buffer
  BY <1>9 DEF switch_buffer
<1>10. CASE ipp_thread_func
  BY <1>10 DEF ipp_thread_func, exynos_drm_ipp_cmd_ctrl, exynos_drm_ipp_do_buffer,
    select_Timeout, select_Typed, read_event, exynos_drm_ipp_display_flip, wait_for_ipp_flip,
    exynos_drm_ipp_dequeue_buffors
<1>11. CASE Fimc
  BY <1>11 DEF Fimc, ThreadTypeOK, FimcTypeOK, ScreenTypeOK, Empty, Queued
<1>12. CASE Ipp
  BY <1>12 DEF Ipp, ThreadTypeOK
<1>13. CASE Vblank \/ Type
  BY <1>13 DEF Vblank, Type
<1>14. QED
  BY <1>1, <1>2, <1>3, <1>4, <1>5, <1>6, <1>7, <1>8, <1>9, <1>10, <1>11, <1>12, <1>13
  DEF Next, Thread, Device, fimc_thread_func

-----------------------------------------------------------------------------
(* The screen                                                              *)

(* With one buffer nothing is ever flipped, and the FIMC draws what is     *)
(* shown.                                                                  *)
LEMMA OneBufferStep == DisplayTypeOK /\ Conversion /\ OneBuffer /\ Next => OneBuffer'
<1> SUFFICES ASSUME DisplayTypeOK, Conversion, OneBuffer, Next,
                    display # "ipp", double_buf = FALSE,
                    UNCHANGED <<display, double_buf>>
             PROVE  OneBuffer'
  BY DEF OneBuffer, Next, Thread, Device, Take, Free, CallFails, fimc_thread_func,
    fimc_dec_queue_buf_out_from_mfc, fimc_dec_queue_buf_cap, fimc_stream,
    fimc_dec_dequeue_buf_cap, fimc_dec_dequeue_buf_out, fb_set_virt_y_offset, fb_wait_for_vsync,
    drmModePageFlip, wait_for_flip, switch_buffer, ipp_thread_func, exynos_drm_ipp_cmd_ctrl,
    exynos_drm_ipp_do_buffer, select_Timeout, select_Typed, read_event,
    exynos_drm_ipp_display_flip, wait_for_ipp_flip, exynos_drm_ipp_dequeue_buffors, Fimc, Ipp,
    Vblank, Type, threadVars, DisplayTypeOK, ThreadTypeOK
<1> USE DEF OneBuffer, GoTo, GiveUp, threadVars, screenVars
<1>1. CASE Take \/ Free \/ CallFails
  BY <1>1 DEF Take, Free, CallFails
<1>2. CASE fimc_thread_func
  <2>1. CASE \/ fimc_dec_queue_buf_out_from_mfc \/ fimc_dec_queue_buf_cap
             \/ fimc_stream("output", "streamOut", "streamCap")
             \/ fimc_stream("capture", "streamCap", "dequeueCap")
             \/ fimc_dec_dequeue_buf_cap
    BY <2>1 DEF fimc_dec_queue_buf_out_from_mfc, fimc_dec_queue_buf_cap, fimc_stream,
      fimc_dec_dequeue_buf_cap
  <2>2. CASE fimc_dec_dequeue_buf_out
    BY <2>2 DEF fimc_dec_dequeue_buf_out, AfterConversion, Conversion
  <2>3. CASE \/ fb_set_virt_y_offset \/ fb_wait_for_vsync
             \/ drmModePageFlip \/ wait_for_flip \/ switch_buffer
    BY <2>3 DEF fb_set_virt_y_offset, fb_wait_for_vsync, drmModePageFlip, wait_for_flip,
      switch_buffer
  <2>4. QED
    BY <1>2, <2>1, <2>2, <2>3 DEF fimc_thread_func
<1>3. CASE ipp_thread_func
  BY <1>3 DEF DisplayTypeOK, ThreadTypeOK, IppPcs, FimcPcs, ipp_thread_func,
    exynos_drm_ipp_cmd_ctrl, exynos_drm_ipp_do_buffer,
    select_Timeout, select_Typed, read_event, exynos_drm_ipp_display_flip, wait_for_ipp_flip,
    exynos_drm_ipp_dequeue_buffors
<1>4. CASE Fimc
  BY <1>4 DEF Fimc, Conversion
<1>5. CASE Ipp \/ Vblank \/ Type
  BY <1>5 DEF Ipp, Vblank, Type
<1>6. QED
  BY <1>1, <1>2, <1>3, <1>4, <1>5 DEF Next, Thread, Device

(* Nothing that was typed is ever read, no failure is undone, and how the  *)
(* pictures are shown does not change.                                     *)
LEMMA StaysDisturbed ==
  DisplayTypeOK /\ Next =>
    UNCHANGED <<display, double_buf>> /\ (typed => typed') /\ faults' \in {faults, faults + 1}
<1> SUFFICES ASSUME DisplayTypeOK, Next
             PROVE  /\ UNCHANGED <<display, double_buf>>
                    /\ typed => typed'
                    /\ faults' \in {faults, faults + 1}
  OBVIOUS
<1> USE DEF Next, Thread, Device, Take, Free, CallFails, fimc_thread_func,
    fimc_dec_queue_buf_out_from_mfc, fimc_dec_queue_buf_cap, fimc_stream,
    fimc_dec_dequeue_buf_cap, fimc_dec_dequeue_buf_out, fb_set_virt_y_offset, fb_wait_for_vsync,
    drmModePageFlip, wait_for_flip, switch_buffer, ipp_thread_func, exynos_drm_ipp_cmd_ctrl,
    exynos_drm_ipp_do_buffer, select_Timeout, select_Typed, read_event,
    exynos_drm_ipp_display_flip, wait_for_ipp_flip, exynos_drm_ipp_dequeue_buffors, Fimc, Ipp,
    Vblank, Type,
    threadVars, Fault
<1>1. UNCHANGED <<display, double_buf>>
  OBVIOUS
<1>2. typed' = typed \/ typed' = TRUE
  OBVIOUS
<1>3. faults' = faults \/ faults' = faults + 1
  OBVIOUS
<1>4. QED
  BY <1>1, <1>2, <1>3

(* With two, each picture is flipped to and the flip is waited for before  *)
(* the FIMC is given the other buffer.                                     *)
LEMMA TwoBuffersStep ==
  DisplayTypeOK /\ Conversion /\ TwoBuffers /\ Next => TwoBuffers'
<1> SUFFICES ASSUME DisplayTypeOK, Conversion, TwoBuffers, Next,
                    display # "ipp", double_buf, ~typed, faults = 0, faults' = faults,
                    UNCHANGED <<display, double_buf>>
             PROVE  TwoBuffers'
  <2> SUFFICES ASSUME DisplayTypeOK, Conversion, TwoBuffers, Next,
                      display' # "ipp", double_buf', ~typed', faults' = 0
               PROVE  TwoBuffers'
    BY DEF TwoBuffers, Undisturbed
  <2>1. UNCHANGED <<display, double_buf>> /\ ~typed
    BY StaysDisturbed
  <2>2. faults = 0 /\ faults' = faults
    <3>1. faults \in 0 .. MaxFaults /\ faults' \in {faults, faults + 1}
      BY StaysDisturbed DEF DisplayTypeOK, ThreadTypeOK
    <3>2. QED
      BY <3>1, DisplayAssumption
  <2>3. QED
    BY <2>1, <2>2
<1> USE DEF TwoBuffers, Undisturbed, GoTo, GiveUp, Fault, threadVars, screenVars
<1>1. CASE Take
  BY <1>1 DEF Take, DisplayTypeOK, ThreadTypeOK
<1>2. CASE Free
  BY <1>2 DEF Free
<1>3. CASE CallFails
  BY <1>3 DEF CallFails
<1>4. CASE fimc_thread_func
  <2>1. CASE \/ fimc_dec_queue_buf_out_from_mfc \/ fimc_dec_queue_buf_cap
             \/ fimc_stream("output", "streamOut", "streamCap")
             \/ fimc_stream("capture", "streamCap", "dequeueCap")
             \/ fimc_dec_dequeue_buf_cap
    BY <2>1 DEF fimc_dec_queue_buf_out_from_mfc, fimc_dec_queue_buf_cap, fimc_stream,
      fimc_dec_dequeue_buf_cap
  <2>2. CASE fimc_dec_dequeue_buf_out
    BY <2>2 DEF fimc_dec_dequeue_buf_out, AfterConversion, DisplayTypeOK, ThreadTypeOK
  <2>3. CASE fb_set_virt_y_offset \/ fb_wait_for_vsync
    BY <2>3 DEF fb_set_virt_y_offset, fb_wait_for_vsync, AfterVsync, DisplayTypeOK, ThreadTypeOK,
      Buffers, None
  <2>4. CASE drmModePageFlip \/ wait_for_flip
    BY <2>4 DEF drmModePageFlip, wait_for_flip, DisplayTypeOK, ThreadTypeOK, Buffers, None
  <2>5. CASE switch_buffer
    BY <2>5 DEF switch_buffer, NextBuffer, Conversion, DisplayTypeOK, ThreadTypeOK, Buffers
  <2>6. QED
    BY <1>4, <2>1, <2>2, <2>3, <2>4, <2>5 DEF fimc_thread_func
<1>5. CASE ipp_thread_func
  BY <1>5 DEF DisplayTypeOK, ThreadTypeOK, IppPcs, FimcPcs, ipp_thread_func,
    exynos_drm_ipp_cmd_ctrl, exynos_drm_ipp_do_buffer,
    select_Timeout, select_Typed, read_event, exynos_drm_ipp_display_flip, wait_for_ipp_flip,
    exynos_drm_ipp_dequeue_buffors
<1>6. CASE Fimc
  BY <1>6 DEF Fimc, Conversion, Empty, Queued
<1>7. CASE Ipp \/ Type
  BY <1>7 DEF Ipp, Type
<1>8. CASE Vblank
  BY <1>8 DEF Vblank, DisplayTypeOK, ThreadTypeOK, ScreenTypeOK, Buffers, None
<1>9. QED
  BY <1>1, <1>2, <1>3, <1>4, <1>5, <1>6, <1>7, <1>8 DEF Next, Thread, Device

-----------------------------------------------------------------------------
(* The theorems                                                            *)

(* The strengthened invariant holds in every reachable state.              *)
THEOREM DisplayInvariant == Spec => []IInv
<1>1. Init => IInv
  BY TypeInit, ConversionInit DEF IInv
<1>2. IInv /\ [Next]_vars => IInv'
  <2>1. IInv /\ Next => IInv'
    BY ThreadType, FimcType, ScreenType, ConversionStep, OneBufferStep, TwoBuffersStep
    DEF IInv, DisplayTypeOK
  <2>2. IInv /\ UNCHANGED vars => IInv'
    BY DEF IInv, DisplayTypeOK, ThreadTypeOK, FimcTypeOK, ScreenTypeOK, Conversion, OneBuffer,
      TwoBuffers, Undisturbed, vars, threadVars, fimcVars, screenVars
  <2>3. QED
    BY <2>1, <2>2
<1>3. QED
  BY <1>1, <1>2, PTL DEF Spec

(* With two buffers, however many pictures there are, the FIMC never draws *)
(* the buffer that is on the screen or is about to be.                     *)
THEOREM FlippedBeforeDrawn == Spec => []NoDrawOnScreen
<1>1. IInv => NoDrawOnScreen
  <2> SUFFICES ASSUME IInv, double_buf, n > 1, Undisturbed, target # Empty
               PROVE  target.what \notin {scanout, next}
    BY DEF NoDrawOnScreen
  <2>1. display # "ipp" /\ pc \in {"streamOut", "streamCap", "dequeueCap"}
    BY DEF IInv, Conversion, TwoBuffers, DisplayTypeOK, ThreadTypeOK, IppPcs, FimcPcs
  <2>2. target.what = cur_buf /\ scanout # cur_buf /\ next = None
    BY <2>1 DEF IInv, Conversion, TwoBuffers
  <2>3. QED
    BY <2>2 DEF IInv, DisplayTypeOK, ThreadTypeOK, Buffers, None
<1>2. QED
  BY <1>1, DisplayInvariant, PTL

(* A picture's memory is given back to the MFC only once it is shown.      *)
THEOREM ShownWhenFreed == Spec => []OnScreenWhenFreed
<1>1. IInv => OnScreenWhenFreed
  BY DEF IInv, OneBuffer, TwoBuffers, OnScreenWhenFreed, DisplayTypeOK, ThreadTypeOK
<1>2. QED
  BY <1>1, DisplayInvariant, PTL

(* Whatever fails, the FIMC reads a picture only between its being taken   *)
(* and its being given back.                                               *)
THEOREM TakenWhileRead == Spec => []ReadWhileTaken
<1>1. IInv => ReadWhileTaken
  BY DEF IInv, Conversion, ReadWhileTaken, DisplayTypeOK, ThreadTypeOK, IppPcs, FimcPcs, Queued
<1>2. QED
  BY <1>1, DisplayInvariant, PTL
=============================================================================
