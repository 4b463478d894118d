------------------------ MODULE DecoderThreadsProofs ------------------------
(***************************************************************************)
(* The buffer and semaphore accounting of the decoder threads, the order   *)
(* in which they show frames, and that their steps are those of            *)
(* FramePipeline: for any number of buffers, frames and failing system     *)
(* calls, with an FIMC or IPP display thread or none.                      *)
(***************************************************************************)
EXTENDS DecoderThreads, QueueLemmas, FiniteSetTheorems, SequenceTheorems, TLAPS

Flags == {BUF_FREE, BUF_MFC, BUF_FIMC}

(* The header and the frames are legal values of content.                  *)
LEMMA FrameZero == 0 \in Frames /\ 0 \in OutBufs /\ 0 \in CapBufs
BY DecoderAssumption DEF Frames, OutBufs, CapBufs

-----------------------------------------------------------------------------
(* The places of a sequence after its head was taken or something appended *)

(* A sequence whose head is taken moves one place to the front.            *)
LEMMA TailIndex ==
  ASSUME NEW S, NEW s \in Seq(S), s # <<>>
  PROVE  /\ Len(s) \in Nat \ {0} /\ 1 \in DOMAIN s
         /\ Head(s) \in S /\ Head(s) = s[1]
         /\ Tail(s) \in Seq(S) /\ Len(Tail(s)) = Len(s) - 1
         /\ \A k \in DOMAIN Tail(s) :
              k \in Nat \ {0} /\ k + 1 \in DOMAIN s /\ Tail(s)[k] = s[k + 1]
<1>1. Len(s) \in Nat /\ DOMAIN s = 1 .. Len(s) /\ Len(s) # 0
  BY EmptySeq
<1>2. /\ Head(s) \in S /\ Tail(s) \in Seq(S) /\ Len(Tail(s)) = Len(s) - 1
      /\ \A k \in 1 .. Len(Tail(s)) : Tail(s)[k] = s[k + 1]
  BY HeadTailProperties
<1>3. DOMAIN Tail(s) = 1 .. Len(s) - 1
  BY <1>2
<1>4. QED
  BY <1>1, <1>2, <1>3

(* A sequence keeps its places when an element is appended.                *)
LEMMA AppendIndex ==
  ASSUME NEW S, NEW s \in Seq(S), NEW e \in S
  PROVE  /\ Append(s, e) \in Seq(S) /\ Len(Append(s, e)) = Len(s) + 1
         /\ Len(s) \in Nat /\ Append(s, e)[Len(s) + 1] = e
         /\ DOMAIN Append(s, e) = DOMAIN s \cup {Len(s) + 1}
         /\ \A k \in DOMAIN s : k # Len(s) + 1 /\ Append(s, e)[k] = s[k]
OBVIOUS

(* The places of a sequence and what is there                              *)
LEMMA SeqRange ==
  ASSUME NEW S, NEW s \in Seq(S)
  PROVE  (\A k \in DOMAIN s : s[k] \in S) /\ DOMAIN s \subseteq Nat \ {0}
OBVIOUS

-----------------------------------------------------------------------------
(* Type correctness, one lemma per thread                                  *)

(* The parser thread,                                                      *)
LEMMA ParserType == TypeOK /\ parser_thread_func => TypeOK'
<1> SUFFICES ASSUME TypeOK, parser_thread_func PROVE TypeOK'
  OBVIOUS
<1> USE DecoderAssumption DEF TypeOK, parserRest, mfcVars, syncVars, displayVars, hwCapVars,
      hwOutVars, flagVars, ParserPcs
<1>1. CASE ParserStart
  BY <1>1, FrameZero DEF ParserStart
<1>2. CASE ParserTest
  BY <1>2 DEF ParserTest
<1>3. CASE ParserStop
  <2>1. CASE hwStopped' = TRUE /\ UNCHANGED faults
    BY <1>3, <2>1 DEF ParserStop
  <2>2. CASE Fault /\ UNCHANGED hwStopped
    BY <1>3, <2>2 DEF ParserStop, Fault
  <2>3. QED
    BY <1>3, <2>1, <2>2 DEF ParserStop, mfc_dec_stop
<1>4. CASE ParserQueue
  <2>1. PICK b \in OutBufs :
          /\ outFlag' = [outFlag EXCEPT ![b] = TRUE]
          /\ \/ hwOut' = Append(hwOut, <<b, offs + 1>>) /\ UNCHANGED faults
             \/ Fault /\ UNCHANGED hwOut
    BY <1>4 DEF ParserQueue
  <2>2. offs' \in Frames /\ <<b, offs + 1>> \in OutBufs \X Frames
    BY <1>4 DEF ParserQueue, Frames
  <2>3. hwOut' \in Seq(OutBufs \X Frames) /\ faults' \in 0 .. MaxFaults
    <3>1. CASE hwOut' = Append(hwOut, <<b, offs + 1>>) /\ UNCHANGED faults
      BY <2>2, <3>1
    <3>2. CASE Fault /\ UNCHANGED hwOut
      BY <3>2 DEF Fault
    <3>3. QED
      BY <2>1, <3>1, <3>2
  <2>4. QED
    BY <1>4, <2>1, <2>2, <2>3 DEF ParserQueue
<1>5. CASE ParserDequeue
  BY <1>5 DEF ParserDequeue
<1>6. CASE ParserDequeueFails
  BY <1>6 DEF ParserDequeueFails, Fault
<1>7. QED
  BY <1>1, <1>2, <1>3, <1>4, <1>5, <1>6 DEF parser_thread_func

(* the MFC thread,                                                         *)
LEMMA MfcThreadType == TypeOK /\ mfc_thread_func => TypeOK'
<1> SUFFICES ASSUME TypeOK, mfc_thread_func PROVE TypeOK'
  OBVIOUS
<1> USE DecoderAssumption DEF TypeOK, mfcRest, mfcControl, parserVars, syncVars, hwOutVars, MfcPcs
<1>1. CASE MfcTest
  BY <1>1 DEF MfcTest
<1>2. CASE MfcNeedBuffer
  BY <1>2 DEF MfcNeedBuffer
<1>3. CASE MfcWaitAny
  BY <1>3 DEF MfcWaitAny, WaitDone
<1>4. CASE MfcPick
  BY <1>4 DEF MfcPick
<1>5. CASE MfcPickSpare
  BY <1>5 DEF MfcPickSpare, AfterPickSpare
<1>6. CASE MfcWaitSpare
  BY <1>6 DEF MfcWaitSpare, WaitDone
<1>7. CASE MfcQueue
  BY <1>7 DEF MfcQueue, Fault
<1>8. CASE MfcNoSpare
  BY <1>8 DEF MfcNoSpare
<1>9. CASE MfcDequeue
  <2>1. Head(hwCapDone) \in CapBufs \X Frames /\ Tail(hwCapDone) \in Seq(CapBufs \X Frames)
    BY <1>9 DEF MfcDequeue
  <2>2. capFlag' \in [CapBufs -> Flags] /\ shown' \in Seq(Frames) /\ mfcN' \in CapBufs
    BY <1>9, <2>1 DEF MfcDequeue, HandedTo, Flags
  <2>3. QED
    BY <1>9, <2>1, <2>2 DEF MfcDequeue, Flags
<1>10. CASE MfcFinish
  <2>1. Head(hwCapDone) \in CapBufs \X Frames /\ Tail(hwCapDone) \in Seq(CapBufs \X Frames)
    BY <1>10 DEF MfcFinish
  <2>2. QED
    BY <1>10, <2>1 DEF MfcFinish
<1>11. CASE MfcDequeueFails
  BY <1>11 DEF MfcDequeueFails, Fault
<1>12. CASE MfcAdd
  BY <1>12 DEF MfcAdd, queue_add
<1>13. CASE MfcPost
  BY <1>13 DEF MfcPost
<1>14. QED
  BY <1>1, <1>2, <1>3, <1>4, <1>5, <1>6, <1>7, <1>8, <1>9, <1>10, <1>11, <1>12, <1>13
  DEF mfc_thread_func

(* the display thread,                                                     *)
LEMMA DisplayType == TypeOK /\ display_thread_func => TypeOK'
<1> SUFFICES ASSUME TypeOK, display_thread_func PROVE TypeOK'
  OBVIOUS
<1> USE DecoderAssumption DEF TypeOK, displayRest, parserVars, mfcVars, syncVars, hwOutVars,
      hwCapVars, DisplayPcs
<1>1. CASE DisplayTest
  BY <1>1 DEF DisplayTest
<1>2. CASE DisplayWait
  BY <1>2 DEF DisplayWait
<1>3. CASE DisplayRemove
  <2>1. displayPc' \in DisplayPcs /\ error' \in BOOLEAN
    BY <1>3 DEF DisplayRemove
  <2>2. queue' \in Seq(CapBufs) /\ displayN' \in CapBufs
    BY <1>3 DEF DisplayRemove
  <2>3. QED
    BY <1>3, <2>1, <2>2 DEF DisplayRemove
<1>4. CASE ShowFrame
  BY <1>4 DEF ShowFrame
<1>5. CASE ProcessFails
  BY <1>5 DEF ProcessFails, Fault
<1>6. CASE DisplayFree
  BY <1>6 DEF DisplayFree
<1>7. CASE DisplayPost
  BY <1>7 DEF DisplayPost
<1>8. QED
  BY <1>1, <1>2, <1>3, <1>4, <1>5, <1>6, <1>7 DEF display_thread_func

(* main, while the threads run,                                            *)
LEMMA MainType == TypeOK /\ main => TypeOK'
BY DEF TypeOK, main, JoinParser, JoinMfc, JoinDisplay, MainPcs, flagVars, parserVars, mfcVars,
       syncVars, displayVars, hwOutVars, hwCapVars

(* and the MFC keep the types of all variables.                            *)
LEMMA MfcType == TypeOK /\ Mfc => TypeOK'
<1> SUFFICES ASSUME TypeOK, Mfc PROVE TypeOK'
  OBVIOUS
<1> USE DecoderAssumption DEF TypeOK, hwRest, flagVars, parserVars, mfcVars, syncVars,
      displayVars, hwOutVars, hwCapVars
<1>1. ASSUME HeaderNext \/ hwOut # <<>>, ConsumeOut
      PROVE  hwOut' \in Seq(OutBufs \X Frames) /\ hwOutDone' \in Seq(OutBufs)
  <2>1. Head(hwOut) \in OutBufs \X Frames /\ Tail(hwOut) \in Seq(OutBufs \X Frames)
    BY <1>1 DEF HeaderNext
  <2>2. QED
    BY <1>1, <2>1 DEF ConsumeOut
<1>2. CASE HwHeader
  BY <1>1, <1>2 DEF HwHeader
<1>3. CASE HwDecode
  <2>1. PICK b \in hwCap :
          /\ hwCap' = hwCap \ {b}
          /\ content' = [content EXCEPT ![b] = Head(hwOut)[2]]
          /\ hwHeld' = Append(hwHeld, <<b, Head(hwOut)[2]>>)
    BY <1>3 DEF HwDecode
  <2>2. Head(hwOut) \in OutBufs \X Frames
    BY <1>3 DEF HwDecode
  <2>3. b \in CapBufs /\ <<b, Head(hwOut)[2]>> \in CapBufs \X Frames
    BY <2>1, <2>2
  <2>4. QED
    BY <1>1, <1>3, <2>1, <2>2, <2>3 DEF HwDecode
<1>4. CASE HwOutput
  BY <1>4 DEF HwOutput
<1>5. CASE HwDrained
  <2>1. PICK b \in hwCap : hwCap' = hwCap \ {b} /\ hwCapDone' = Append(hwCapDone, <<b, 0>>)
    BY <1>5 DEF HwDrained
  <2>2. <<b, 0>> \in CapBufs \X Frames
    BY <2>1, FrameZero
  <2>3. QED
    BY <1>5, <2>1, <2>2 DEF HwDrained
<1>6. QED
  BY <1>2, <1>3, <1>4, <1>5 DEF Mfc

(* Type correctness of the decoder.                                        *)
THEOREM TypeCorrect == Spec => []TypeOK
<1>1. Init => TypeOK
  BY DecoderAssumption, FrameZero
  DEF Init, TypeOK, ParserPcs, MfcPcs, DisplayPcs, MainPcs
<1>2. TypeOK /\ [Next]_vars => TypeOK'
  <2>1. TypeOK /\ UNCHANGED vars => TypeOK'
    BY DEF TypeOK, vars, flagVars, parserVars, mfcVars, syncVars, displayVars, hwOutVars,
           hwCapVars
  <2>2. QED
    BY <2>1, ParserType, MfcThreadType, DisplayType, MainType, MfcType DEF Next
<1>3. QED
  BY <1>1, <1>2, PTL DEF Spec

-----------------------------------------------------------------------------
(* The inductive invariant                                                 *)

(* The buffer a thread has in its local n is where the flags say.          *)
ThreadsHold ==
  /\ mfcPc \in {"waitSpare", "queue"} => capFlag[mfcN] = BUF_FREE
  /\ mfcPc = "add" =>
       /\ capFlag[mfcN] = BUF_FIMC
       /\ \A k \in DOMAIN queue : queue[k] # mfcN
       /\ displayPc \in {"process", "free"} => displayN # mfcN
  /\ mfcPc \in {"waitAny", "pick"} => capQueued < CapMin

(* A buffer is in one place of the driver only.                            *)
DriverDistinct ==
  /\ \A j, k \in DOMAIN hwHeld : hwHeld[j][1] = hwHeld[k][1] => j = k
  /\ \A j, k \in DOMAIN hwCapDone : hwCapDone[j][1] = hwCapDone[k][1] => j = k
  /\ \A j \in DOMAIN hwHeld : hwHeld[j][1] \notin hwCap
  /\ \A j \in DOMAIN hwCapDone : hwCapDone[j][1] \notin hwCap
  /\ \A j \in DOMAIN hwHeld, k \in DOMAIN hwCapDone : hwHeld[j][1] # hwCapDone[k][1]

(* Without a display thread nothing is ever given to it.                   *)
NoDisplayThread ==
  Display = "none" =>
    /\ displayPc = "exit"
    /\ mfcPc \notin {"waitAny", "waitSpare", "add", "post"}
    /\ \A b \in CapBufs : capFlag[b] # BUF_FIMC

IInv ==
  /\ TypeOK
  /\ FlagsMatchQueues
  /\ SemaphoresCountBuffers
  /\ ExclusiveOwnership
  /\ ThreadsHold
  /\ DriverDistinct
  /\ NoDisplayThread
  /\ NoFalseAlarm

-----------------------------------------------------------------------------
(* Counting the buffers with a flag                                        *)

(* The buffers with a flag can be counted.                                 *)
LEMMA FlaggedFinite ==
  ASSUME NEW f
  PROVE  IsFiniteSet(Flagged(f)) /\ Cardinality(Flagged(f)) \in Nat
<1>1. IsFiniteSet(CapBufs)
  BY FS_Interval, DecoderAssumption DEF CapBufs
<1>2. Flagged(f) \in SUBSET CapBufs
  BY DEF Flagged
<1>3. QED
  BY <1>1, <1>2, FS_Subset, FS_CardinalityType

(* There are CapCnt buffers, so fewer than that leave one out.             *)
LEMMA OneLeft ==
  ASSUME NEW S \in SUBSET CapBufs, Cardinality(S) < CapCnt
  PROVE  \E b \in CapBufs : b \notin S
<1>1. Cardinality(CapBufs) = CapCnt
  BY FS_Interval, DecoderAssumption DEF CapBufs
<1>2. S # CapBufs
  BY <1>1, DecoderAssumption
<1>3. QED
  BY <1>2

(* Where a flag is counted a buffer has it.                                *)
LEMMA SomeFlagged ==
  ASSUME NEW f, Cardinality(Flagged(f)) > 0
  PROVE  \E b \in CapBufs : capFlag[b] = f
<1>1. Flagged(f) # {}
  BY FS_EmptySet
<1>2. QED
  BY <1>1 DEF Flagged

(* The buffers that have a flag                                            *)
With(flags, f) == {b \in CapBufs : flags[b] = f}

(* Changing the flag of one buffer moves it from one count to another.     *)
LEMMA FlagMoved ==
  ASSUME NEW old \in [CapBufs -> Flags], NEW b \in CapBufs, NEW g \in Flags, old[b] # g
  PROVE  LET new == [old EXCEPT ![b] = g]
         IN  /\ Cardinality(With(new, old[b])) = Cardinality(With(old, old[b])) - 1
             /\ Cardinality(With(new, g)) = Cardinality(With(old, g)) + 1
             /\ \A h : h # old[b] /\ h # g => With(new, h) = With(old, h)
<1> DEFINE new == [old EXCEPT ![b] = g]
           f == old[b]
<1>1. With(new, f) = With(old, f) \ {b} /\ b \in With(old, f)
  BY DEF With
<1>2. With(new, g) = With(old, g) \cup {b} /\ b \notin With(old, g)
  BY DEF With
<1>3. \A h : h # f /\ h # g => With(new, h) = With(old, h)
  BY DEF With
<1>4. IsFiniteSet(With(old, f)) /\ IsFiniteSet(With(old, g))
  <2>1. IsFiniteSet(CapBufs)
    BY FS_Interval, DecoderAssumption DEF CapBufs
  <2>2. QED
    BY <2>1, FS_Subset DEF With
<1>5. Cardinality(With(old, f) \ {b}) = Cardinality(With(old, f)) - 1
  BY <1>1, <1>4, FS_RemoveElement
<1>6. Cardinality(With(old, g) \cup {b}) = Cardinality(With(old, g)) + 1
  BY <1>2, <1>4, FS_AddElement
<1> HIDE DEF new, f
<1>7. QED
  BY <1>1, <1>2, <1>3, <1>5, <1>6 DEF new, f

(* Distinct buffers in the queue, one of them missing: there is room.      *)
LEMMA QueueHasRoom ==
  ASSUME TypeOK, FlagsMatchQueues, NEW b \in CapBufs,
         \A k \in DOMAIN queue : queue[k] # b
  PROVE  Len(queue) < QueueSize
<1> DEFINE S == 1 .. Len(queue)
           T == CapBufs \ {b}
<1>1. IsFiniteSet(CapBufs) /\ Cardinality(CapBufs) = CapCnt
  BY FS_Interval, DecoderAssumption DEF CapBufs
<1>2. IsFiniteSet(T) /\ Cardinality(T) = CapCnt - 1
  BY <1>1, FS_RemoveElement
<1>3. Len(queue) \in Nat /\ DOMAIN queue = S
  BY DEF TypeOK
<1>4. IsFiniteSet(S) /\ Cardinality(S) = Len(queue)
  BY <1>3, FS_Interval, SMTT(30)
<1>5. queue \in [S -> T]
  BY <1>3 DEF TypeOK
<1>6. \A j, k \in S : queue[j] = queue[k] => j = k
  BY <1>3 DEF FlagsMatchQueues
<1>7. ~(Cardinality(T) < Cardinality(S))
  <2> SUFFICES ASSUME Cardinality(T) < Cardinality(S) PROVE FALSE
    OBVIOUS
  <2> HIDE DEF S, T
  <2>1. \E x, y \in S : x # y /\ queue[x] = queue[y]
    BY <1>2, <1>4, <1>5, FS_PigeonHole
  <2>2. QED
    BY <2>1, <1>6
<1>8. QED
  BY <1>2, <1>3, <1>4, <1>7, DecoderAssumption

(* The driver has buffers of the capture queue.                            *)
LEMMA DriverInRange == TypeOK => DriverBufs \subseteq CapBufs
<1> SUFFICES ASSUME TypeOK PROVE DriverBufs \subseteq CapBufs
  OBVIOUS
<1>1. hwHeld \in Seq(CapBufs \X Frames) /\ hwCapDone \in Seq(CapBufs \X Frames)
      /\ hwCap \subseteq CapBufs
  BY DEF TypeOK
<1>2. \A k \in DOMAIN hwHeld : hwHeld[k][1] \in CapBufs
  BY <1>1
<1>3. \A k \in DOMAIN hwCapDone : hwCapDone[k][1] \in CapBufs
  BY <1>1
<1>4. QED
  BY <1>1, <1>2, <1>3 DEF DriverBufs

(* A step that moves no buffer and no index keeps what is said of them.    *)
LEMMA Unmoved ==
  ASSUME IInv, UNCHANGED <<capFlag, queue, capQueued, hwCap, hwHeld, hwCapDone>>
  PROVE  /\ FlagsMatchQueues'
         /\ DriverDistinct'
         /\ DriverBufs' = DriverBufs
         /\ \A f : Flagged(f)' = Flagged(f)
<1>1. \A f : Flagged(f)' = Flagged(f)
  BY DEF Flagged
<1>2. DriverBufs' = DriverBufs
  BY DEF DriverBufs
<1>3. DriverDistinct'
  BY DEF IInv, DriverDistinct
<1>4. FlagsMatchQueues'
  BY <1>1 DEF IInv, FlagsMatchQueues
<1>5. QED
  BY <1>1, <1>2, <1>3, <1>4
-----------------------------------------------------------------------------
(* Every step keeps IInv: one lemma per thread, one step per action        *)

(* A step that moves neither a buffer nor a thread that holds one.         *)
LEMMA Still ==
  ASSUME IInv, TypeOK', NoFalseAlarm',
         UNCHANGED <<capFlag, syncVars, mfcVars, displayPc, displayN, hwCap, hwHeld, hwCapDone>>
  PROVE  IInv'
<1> USE DEF syncVars, mfcVars
<1>1. FlagsMatchQueues' /\ DriverDistinct' /\ DriverBufs' = DriverBufs
      /\ \A f : Flagged(f)' = Flagged(f)
  BY Unmoved
<1>2. SemaphoresCountBuffers'
  BY <1>1 DEF IInv, SemaphoresCountBuffers, One
<1>3. ExclusiveOwnership'
  BY <1>1 DEF IInv, ExclusiveOwnership
<1>4. ThreadsHold' /\ NoDisplayThread'
  BY DEF IInv, ThreadsHold, NoDisplayThread
<1>5. QED
  BY <1>1, <1>2, <1>3, <1>4 DEF IInv

(* The parser thread has no capture buffer and frees none.                 *)
LEMMA ParserKeeps == IInv /\ parser_thread_func => IInv'
<1> SUFFICES ASSUME IInv, parser_thread_func PROVE IInv'
  OBVIOUS
<1>1. TypeOK'
  BY ParserType DEF IInv
<1>2. UNCHANGED parserRest
  BY DEF parser_thread_func, ParserStart, ParserTest, ParserStop, ParserQueue, ParserDequeue,
         ParserDequeueFails, parserRest
<1>3. NoFalseAlarm'
  <2>1. faults \in Nat /\ (Fault => faults' = faults + 1)
    BY DecoderAssumption DEF IInv, TypeOK, Fault
  <2>2. UNCHANGED <<error, faults>> \/ Fault
    BY DEF parser_thread_func, ParserStart, ParserTest, ParserStop, ParserQueue,
           ParserDequeue, ParserDequeueFails, mfc_dec_stop, Fault
  <2>3. CASE UNCHANGED <<error, faults>>
    BY <2>3 DEF IInv, NoFalseAlarm
  <2>4. CASE Fault
    <3>1. faults' > 0
      BY <2>1, <2>4
    <3>2. QED
      BY <3>1 DEF NoFalseAlarm
  <2>5. QED
    BY <2>2, <2>3, <2>4
<1>4. QED
  BY <1>1, <1>2, <1>3, Still DEF parserRest, displayVars, hwCapVars

(* Nor has main, while the threads run.                                    *)
LEMMA MainKeeps == IInv /\ main => IInv'
<1> SUFFICES ASSUME IInv, main PROVE IInv'
  OBVIOUS
<1>1. TypeOK' /\ NoFalseAlarm'
  BY MainType DEF IInv, NoFalseAlarm, main, flagVars
<1>2. QED
  BY <1>1, Still DEF main, displayVars, hwCapVars

(* The display thread: taking a buffer off the queue, and giving it back,  *)
(* are the steps that move something.                                      *)
LEMMA DisplayKeeps == IInv /\ display_thread_func => IInv'
<1> SUFFICES ASSUME IInv, display_thread_func PROVE IInv'
  OBVIOUS
<1>1. TypeOK /\ TypeOK'
  BY DisplayType DEF IInv
<1>2. UNCHANGED displayRest
  BY DEF display_thread_func, DisplayTest, DisplayWait, DisplayRemove,
         ShowFrame, ProcessFails, DisplayFree, DisplayPost, displayRest
<1>3. Display # "none" /\ NoDisplayThread'
  BY DEF IInv, NoDisplayThread, display_thread_func, DisplayTest, DisplayWait, DisplayRemove,
         ShowFrame, ProcessFails, DisplayFree, DisplayPost
<1>4. faults \in Nat
  BY <1>1, DecoderAssumption DEF TypeOK
<1> USE DEF displayRest, mfcVars, hwCapVars, syncVars
(* Steps that leave the queue and the flags alone.                         *)
<1>5. ASSUME UNCHANGED <<capFlag, queue, todo, done>>, NoFalseAlarm',
             displayPc \notin {"remove", "post"}, displayPc' \notin {"remove", "post"},
             displayPc' \in {"process", "free"} =>
               displayPc \in {"process", "free"} /\ UNCHANGED displayN
      PROVE  IInv'
  <2>1. FlagsMatchQueues' /\ DriverDistinct' /\ DriverBufs' = DriverBufs
        /\ \A f : Flagged(f)' = Flagged(f)
    BY <1>2, <1>5, Unmoved
  <2>2. SemaphoresCountBuffers'
    BY <1>2, <1>5, <2>1 DEF IInv, SemaphoresCountBuffers, One
  <2>3. ExclusiveOwnership'
    BY <1>2, <1>5, <2>1 DEF IInv, ExclusiveOwnership
  <2>4. ThreadsHold'
    BY <1>2, <1>5 DEF IInv, ThreadsHold
  <2>5. QED
    BY <1>1, <1>3, <1>5, <2>1, <2>2, <2>3, <2>4 DEF IInv
<1>6. CASE DisplayTest
  BY <1>5, <1>6 DEF DisplayTest, IInv, NoFalseAlarm
<1>7. CASE ShowFrame
  BY <1>5, <1>7 DEF ShowFrame, IInv, NoFalseAlarm
<1>8. CASE ProcessFails
  <2>1. faults' > 0
    BY <1>4, <1>8 DEF ProcessFails, Fault
  <2>2. QED
    BY <1>5, <1>8, <2>1 DEF ProcessFails, NoFalseAlarm
(* The semaphore operations: the place in the code makes up for the count. *)
<1>9. ASSUME UNCHANGED <<capFlag, queue, displayN>>, SemaphoresCountBuffers', NoFalseAlarm',
             displayPc' \notin {"process", "free"}
      PROVE  IInv'
  <2>1. FlagsMatchQueues' /\ DriverDistinct' /\ DriverBufs' = DriverBufs
    BY <1>2, <1>9, Unmoved
  <2>2. ExclusiveOwnership' /\ ThreadsHold'
    BY <1>2, <1>9, <2>1 DEF IInv, ExclusiveOwnership, ThreadsHold
  <2>3. QED
    BY <1>1, <1>3, <1>9, <2>1, <2>2 DEF IInv
<1>10. CASE DisplayWait
  <2>1. \A f : Flagged(f)' = Flagged(f)
    BY <1>2, <1>10, Unmoved DEF DisplayWait
  <2>2. SemaphoresCountBuffers'
    BY <1>1, <1>2, <1>10, <2>1 DEF IInv, SemaphoresCountBuffers, DisplayWait, One, TypeOK
  <2>3. QED
    BY <1>9, <1>10, <2>2 DEF DisplayWait, IInv, NoFalseAlarm
<1>11. CASE DisplayPost
  <2>1. \A f : Flagged(f)' = Flagged(f)
    BY <1>2, <1>11, Unmoved DEF DisplayPost
  <2>2. SemaphoresCountBuffers'
    BY <1>1, <1>2, <1>11, <2>1 DEF IInv, SemaphoresCountBuffers, DisplayPost, One, TypeOK
  <2>3. QED
    BY <1>9, <1>11, <2>2 DEF DisplayPost, IInv, NoFalseAlarm
<1>12. CASE DisplayRemove
  <2>1. queue # <<>> /\ Len(queue) \in Nat /\ Len(queue) = todo + One(mfcPc = "post") + 1
    BY <1>1, <1>3, <1>12 DEF IInv, SemaphoresCountBuffers, DisplayRemove, One, TypeOK
  <2>2. capFlag[Head(queue)] = BUF_FIMC
    <3>1. Head(queue) = queue[1] /\ 1 \in DOMAIN queue
      BY <1>1, <2>1, TailIndex DEF TypeOK
    <3>2. QED
      BY <3>1 DEF IInv, FlagsMatchQueues
  <2>3. /\ displayPc' = "process" /\ UNCHANGED <<capFlag, todo, done, error, faults>>
        /\ displayN' = Head(queue) /\ queue' = Tail(queue)
    BY <1>12, <2>1, <2>2 DEF DisplayRemove
  <2>4. /\ Len(queue') = Len(queue) - 1
        /\ \A k \in DOMAIN queue' : k + 1 \in DOMAIN queue /\ queue'[k] = queue[k + 1]
        /\ 1 \in DOMAIN queue /\ displayN' = queue[1]
    <3>1. queue \in Seq(CapBufs)
      BY <1>1 DEF TypeOK
    <3>2. QED
      BY <2>1, <2>3, <3>1, TailIndex
  <2>5. DOMAIN queue' \subseteq Nat \ {0}
    <3>1. queue' \in Seq(CapBufs)
      BY <1>1 DEF TypeOK
    <3>2. QED
      BY <3>1, SeqRange
  <2>6. \A f : Flagged(f)' = Flagged(f)
    BY <2>3 DEF Flagged
  <2>7. FlagsMatchQueues'
    <3>1. \A j \in DOMAIN queue' : capFlag'[queue'[j]] = BUF_FIMC
      BY <2>3, <2>4 DEF IInv, FlagsMatchQueues
    <3>2. \A j, k \in DOMAIN queue' : queue'[j] = queue'[k] => j = k
      BY <2>4, <2>5 DEF IInv, FlagsMatchQueues
    <3>3. QED
      BY <1>2, <2>6, <3>1, <3>2 DEF IInv, FlagsMatchQueues
  <2>8. SemaphoresCountBuffers'
    BY <1>1, <1>2, <1>12, <2>1, <2>3, <2>4, <2>6
    DEF IInv, SemaphoresCountBuffers, One, TypeOK, DisplayRemove
  <2>9. ExclusiveOwnership'
    <3>1. \A k \in DOMAIN queue' : queue'[k] # displayN'
      BY <2>4, <2>5 DEF IInv, FlagsMatchQueues
    <3>2. DriverBufs' = DriverBufs
      BY <1>2 DEF DriverBufs
    <3>3. QED
      BY <2>2, <2>3, <3>1, <3>2 DEF IInv, ExclusiveOwnership
  <2>10. ThreadsHold' /\ DriverDistinct' /\ NoFalseAlarm'
    BY <1>2, <2>3, <2>4 DEF IInv, ThreadsHold, DriverDistinct, NoFalseAlarm
  <2>11. QED
    BY <1>1, <1>3, <2>7, <2>8, <2>9, <2>10 DEF IInv
<1>13. CASE DisplayFree
  <2>1. /\ capFlag' = [capFlag EXCEPT ![displayN] = BUF_FREE] /\ displayN \in CapBufs
        /\ displayPc = "free" /\ displayPc' = "post"
        /\ UNCHANGED <<queue, todo, done, error, displayN, faults>>
    BY <1>1, <1>13 DEF DisplayFree, TypeOK
  <2>2. /\ capFlag[displayN] = BUF_FIMC
        /\ \A k \in DOMAIN queue : queue[k] # displayN
    BY <2>1 DEF IInv, ExclusiveOwnership
  <2>3. /\ Cardinality(Flagged(BUF_FREE)') = Cardinality(Flagged(BUF_FREE)) + 1
        /\ Flagged(BUF_MFC)' = Flagged(BUF_MFC)
    <3>1. capFlag \in [CapBufs -> Flags]
      BY <1>1 DEF TypeOK, Flags
    <3>2. BUF_FREE \in Flags /\ BUF_FREE # BUF_FIMC /\ BUF_MFC # BUF_FIMC /\ BUF_MFC # BUF_FREE
      BY DEF Flags, BUF_FIMC, BUF_FREE, BUF_MFC
    <3>3. Cardinality(With(capFlag', BUF_FREE)) = Cardinality(With(capFlag, BUF_FREE)) + 1
      BY <2>1, <2>2, <3>1, <3>2, FlagMoved
    <3>4. With(capFlag', BUF_MFC) = With(capFlag, BUF_MFC)
      <4>1. capFlag[displayN] # BUF_FREE /\ displayN \in CapBufs
        BY <2>1, <2>2, <3>2
      <4>2. \A h : h # capFlag[displayN] /\ h # BUF_FREE =>
                    With([capFlag EXCEPT ![displayN] = BUF_FREE], h) = With(capFlag, h)
        BY <3>1, <3>2, <4>1, FlagMoved
      <4>3. QED
        BY <2>1, <2>2, <3>2, <4>2
    <3>5. QED
      BY <3>3, <3>4 DEF Flagged, With
  <2>4. \A b \in CapBufs : capFlag'[b] = IF b = displayN THEN BUF_FREE ELSE capFlag[b]
    BY <1>1, <2>1 DEF TypeOK
  <2>5. FlagsMatchQueues'
    <3>1. \A j \in DOMAIN queue : queue[j] \in CapBufs
      <4>1. queue \in Seq(CapBufs)
        BY <1>1 DEF TypeOK
      <4>2. QED
        BY <4>1, SeqRange
    <3>2. QED
      BY <1>2, <2>1, <2>2, <2>3, <2>4, <3>1 DEF IInv, FlagsMatchQueues
  <2>6. SemaphoresCountBuffers'
    <3>1. /\ One(displayPc = "remove") = 0 /\ One(displayPc' = "remove") = 0
          /\ One(displayPc = "post") = 0 /\ One(displayPc' = "post") = 1
          /\ One(mfcPc \in {"pick", "queue"}) \in Nat /\ done \in Nat /\ UNCHANGED mfcPc
      BY <1>1, <1>2, <2>1 DEF One, TypeOK
    <3>2. QED
      BY <2>1, <2>3, <3>1 DEF IInv, SemaphoresCountBuffers
  <2>7. ExclusiveOwnership'
    <3>1. DriverBufs' = DriverBufs /\ DriverBufs \subseteq CapBufs
      BY <1>1, <1>2, DriverInRange DEF DriverBufs
    <3>2. \A b \in DriverBufs : capFlag[b] = BUF_MFC /\ b # displayN
      BY <2>2 DEF IInv, ExclusiveOwnership, BUF_MFC, BUF_FIMC
    <3>3. QED
      BY <2>1, <2>4, <3>1, <3>2 DEF ExclusiveOwnership
  <2>8. ThreadsHold'
    <3>1. mfcN \in CapBufs
      BY <1>1 DEF TypeOK
    <3>2. QED
      BY <1>2, <2>1, <2>2, <2>4, <3>1 DEF IInv, ThreadsHold, BUF_FREE, BUF_FIMC
  <2>9. DriverDistinct' /\ NoFalseAlarm'
    BY <1>2, <2>1 DEF IInv, DriverDistinct, NoFalseAlarm
  <2>10. QED
    BY <1>1, <1>3, <2>5, <2>6, <2>7, <2>8, <2>9 DEF IInv
<1>14. QED
  BY <1>6, <1>7, <1>8, <1>10, <1>11, <1>12, <1>13 DEF display_thread_func

(* The MFC moves a buffer among its own queues.                            *)
LEMMA MfcKeeps == IInv /\ Mfc => IInv'
<1> SUFFICES ASSUME IInv, Mfc PROVE IInv'
  OBVIOUS
<1>1. TypeOK /\ TypeOK'
  BY MfcType DEF IInv
<1>2. UNCHANGED hwRest
  BY DEF Mfc, HwHeader, HwDecode, HwOutput, HwDrained, hwRest
<1> USE DEF hwRest, flagVars, mfcVars, syncVars, displayVars
<1>3. NoFalseAlarm'
  BY <1>2 DEF IInv, NoFalseAlarm
<1>4. ASSUME DriverBufs' \subseteq DriverBufs, DriverDistinct'
      PROVE  IInv'
  <2>1. \A f : Flagged(f)' = Flagged(f)
    BY <1>2 DEF Flagged
  <2>2. FlagsMatchQueues' /\ SemaphoresCountBuffers'
    BY <1>2, <2>1 DEF IInv, FlagsMatchQueues, SemaphoresCountBuffers, One
  <2>3. ExclusiveOwnership' /\ ThreadsHold' /\ NoDisplayThread'
    BY <1>2, <1>4 DEF IInv, ExclusiveOwnership, ThreadsHold, NoDisplayThread
  <2>4. QED
    BY <1>1, <1>3, <1>4, <2>2, <2>3 DEF IInv
<1>5. CASE HwHeader
  BY <1>1, <1>2, <1>3, <1>5, Still DEF HwHeader, hwCapVars
<1>6. CASE HwDecode
  <2>1. PICK b \in hwCap :
          hwCap' = hwCap \ {b} /\ hwHeld' = Append(hwHeld, <<b, Head(hwOut)[2]>>)
    BY <1>6 DEF HwDecode
  <2>2. hwCapDone' = hwCapDone /\ <<b, Head(hwOut)[2]>> \in CapBufs \X Frames
    <3>1. Head(hwOut) \in OutBufs \X Frames
      BY <1>1, <1>6, TailIndex DEF HwDecode, TypeOK
    <3>2. QED
      BY <1>1, <1>6, <2>1, <3>1 DEF HwDecode, TypeOK
  <2>3. /\ DOMAIN hwHeld' = DOMAIN hwHeld \cup {Len(hwHeld) + 1}
        /\ hwHeld'[Len(hwHeld) + 1] = <<b, Head(hwOut)[2]>>
        /\ \A k \in DOMAIN hwHeld : k # Len(hwHeld) + 1 /\ hwHeld'[k] = hwHeld[k]
    <3>1. hwHeld \in Seq(CapBufs \X Frames)
      BY <1>1 DEF TypeOK
    <3>2. QED
      BY <2>1, <2>2, <3>1, AppendIndex
  <2>4. DriverDistinct'
    BY <2>1, <2>2, <2>3 DEF IInv, DriverDistinct
  <2>5. DriverBufs' \subseteq DriverBufs
    BY <2>1, <2>2, <2>3 DEF DriverBufs
  <2>6. QED
    BY <1>4, <2>4, <2>5
<1>7. CASE HwOutput
  <2>1. /\ hwHeld # <<>> /\ hwCap' = hwCap
        /\ hwCapDone' = Append(hwCapDone, Head(hwHeld)) /\ hwHeld' = Tail(hwHeld)
    BY <1>7 DEF HwOutput
  <2>2. /\ 1 \in DOMAIN hwHeld /\ Head(hwHeld) = hwHeld[1] /\ hwHeld[1] \in CapBufs \X Frames
        /\ \A k \in DOMAIN hwHeld' :
             k \in Nat \ {0} /\ k + 1 \in DOMAIN hwHeld /\ hwHeld'[k] = hwHeld[k + 1]
    BY <1>1, <2>1, TailIndex DEF TypeOK
  <2>3. /\ DOMAIN hwCapDone' = DOMAIN hwCapDone \cup {Len(hwCapDone) + 1}
        /\ hwCapDone'[Len(hwCapDone) + 1] = hwHeld[1]
        /\ \A k \in DOMAIN hwCapDone :
             k # Len(hwCapDone) + 1 /\ hwCapDone'[k] = hwCapDone[k]
    <3>1. hwCapDone \in Seq(CapBufs \X Frames)
      BY <1>1 DEF TypeOK
    <3>2. QED
      BY <2>1, <2>2, <3>1, AppendIndex
  <2>4. DriverDistinct'
    <3>1. /\ \A j, k \in DOMAIN hwHeld' : hwHeld'[j][1] = hwHeld'[k][1] => j = k
          /\ \A k \in DOMAIN hwHeld' : hwHeld'[k][1] # hwHeld[1][1]
          /\ \A k \in DOMAIN hwHeld' : hwHeld'[k][1] \notin hwCap
      BY <2>2 DEF IInv, DriverDistinct
    <3>2. \A j, k \in DOMAIN hwCapDone' : hwCapDone'[j][1] = hwCapDone'[k][1] => j = k
      BY <2>2, <2>3 DEF IInv, DriverDistinct
    <3>3. \A j \in DOMAIN hwHeld', k \in DOMAIN hwCapDone' :
            hwHeld'[j][1] # hwCapDone'[k][1]
      BY <2>2, <2>3, <3>1 DEF IInv, DriverDistinct
    <3>4. \A k \in DOMAIN hwCapDone' : hwCapDone'[k][1] \notin hwCap
      BY <2>2, <2>3 DEF IInv, DriverDistinct
    <3>5. QED
      BY <2>1, <3>1, <3>2, <3>3, <3>4 DEF DriverDistinct
  <2>5. DriverBufs' \subseteq DriverBufs
    BY <2>1, <2>2, <2>3 DEF DriverBufs
  <2>6. QED
    BY <1>4, <2>4, <2>5
<1>8. CASE HwDrained
  <2>1. PICK b \in hwCap : hwCap' = hwCap \ {b} /\ hwCapDone' = Append(hwCapDone, <<b, 0>>)
    BY <1>8 DEF HwDrained
  <2>2. hwHeld' = hwHeld /\ <<b, 0>> \in CapBufs \X Frames
    BY <1>1, <1>8, <2>1, FrameZero DEF HwDrained, TypeOK
  <2>3. /\ DOMAIN hwCapDone' = DOMAIN hwCapDone \cup {Len(hwCapDone) + 1}
        /\ hwCapDone'[Len(hwCapDone) + 1] = <<b, 0>>
        /\ \A k \in DOMAIN hwCapDone :
             k # Len(hwCapDone) + 1 /\ hwCapDone'[k] = hwCapDone[k]
    <3>1. hwCapDone \in Seq(CapBufs \X Frames)
      BY <1>1 DEF TypeOK
    <3>2. QED
      BY <2>1, <2>2, <3>1, AppendIndex
  <2>4. DriverDistinct'
    BY <2>1, <2>2, <2>3 DEF IInv, DriverDistinct
  <2>5. DriverBufs' \subseteq DriverBufs
    BY <2>1, <2>2, <2>3 DEF DriverBufs
  <2>6. QED
    BY <1>4, <2>4, <2>5
<1>9. QED
  BY <1>5, <1>6, <1>7, <1>8 DEF Mfc

(* The scan of cap_buf_flag always finds a free buffer (main.c:240): the   *)
(* semaphore or, without a display thread, the minimum guarantees one.     *)
LEMMA PickFindsBuffer ==
  ASSUME IInv, mfcPc = "pick"
  PROVE  \E b \in CapBufs : IsFree(b)
<1>1. CASE Display # "none"
  <2>1. done \in Nat /\ Cardinality(Flagged(BUF_FREE)) = done + One(displayPc = "post") + 1
    BY <1>1 DEF IInv, SemaphoresCountBuffers, One, TypeOK
  <2>2. Cardinality(Flagged(BUF_FREE)) > 0
    BY <2>1 DEF One
  <2>3. QED
    BY <2>2, SomeFlagged DEF IsFree
<1>2. CASE Display = "none"
  <2>1. Cardinality(Flagged(BUF_MFC)) < CapCnt
    BY DecoderAssumption DEF IInv, FlagsMatchQueues, ThreadsHold, TypeOK
  <2>2. PICK b \in CapBufs : b \notin Flagged(BUF_MFC)
    BY <2>1, OneLeft DEF Flagged
  <2>3. capFlag[b] = BUF_FREE
    BY <1>2, <2>2 DEF IInv, NoDisplayThread, TypeOK, Flagged
  <2>4. QED
    BY <2>3 DEF IsFree
<1>3. QED
  BY <1>1, <1>2

(* The MFC thread up to the DQBUF: choosing a buffer and queueing it.      *)
LEMMA MfcThreadQueueKeeps ==
  ASSUME IInv,
         MfcTest \/ MfcNeedBuffer \/ MfcWaitAny \/ MfcPick \/ MfcPickSpare \/ MfcWaitSpare
           \/ MfcQueue \/ MfcNoSpare
  PROVE  IInv'
<1>1. TypeOK /\ TypeOK'
  BY MfcThreadType DEF IInv, mfc_thread_func
<1>2. UNCHANGED mfcRest
  BY DEF MfcTest, MfcNeedBuffer, MfcWaitAny, MfcPick, MfcPickSpare, MfcWaitSpare, MfcQueue,
         MfcNoSpare, mfcControl
<1> USE DEF mfcRest, syncVars
(* Steps that move no buffer.                                              *)
<1>3. ASSUME UNCHANGED mfcControl, UNCHANGED queue, NoFalseAlarm', SemaphoresCountBuffers',
             ThreadsHold', NoDisplayThread'
      PROVE  IInv'
  <2>1. FlagsMatchQueues' /\ DriverDistinct' /\ DriverBufs' = DriverBufs
    BY <1>2, <1>3, Unmoved DEF mfcControl
  <2>2. ExclusiveOwnership'
    BY <1>2, <1>3, <2>1 DEF IInv, ExclusiveOwnership, mfcControl
  <2>3. QED
    BY <1>1, <1>3, <2>1, <2>2 DEF IInv
<1>4. ASSUME UNCHANGED mfcControl PROVE \A f : Flagged(f)' = Flagged(f)
  BY <1>4 DEF Flagged, mfcControl
<1>5. CASE MfcTest
  <2>1. SemaphoresCountBuffers'
    BY <1>4, <1>5 DEF IInv, SemaphoresCountBuffers, One, MfcTest, mfcControl
  <2>2. ThreadsHold' /\ NoDisplayThread' /\ NoFalseAlarm'
    BY <1>5 DEF IInv, ThreadsHold, NoDisplayThread, NoFalseAlarm, MfcTest, mfcControl
  <2>3. QED
    BY <1>3, <1>5, <2>1, <2>2 DEF MfcTest
<1>6. CASE MfcNeedBuffer
  <2>1. SemaphoresCountBuffers'
    BY <1>4, <1>6 DEF IInv, SemaphoresCountBuffers, One, MfcNeedBuffer, mfcControl
  <2>2. ThreadsHold' /\ NoDisplayThread' /\ NoFalseAlarm'
    BY <1>6 DEF IInv, ThreadsHold, NoDisplayThread, NoFalseAlarm, MfcNeedBuffer, mfcControl,
                TooFewQueued
  <2>3. QED
    BY <1>3, <1>6, <2>1, <2>2 DEF MfcNeedBuffer
<1>7. CASE MfcWaitAny
  <2>1. SemaphoresCountBuffers'
    BY <1>1, <1>4, <1>7
    DEF IInv, SemaphoresCountBuffers, One, MfcWaitAny, WaitDone, mfcControl, TypeOK
  <2>2. ThreadsHold' /\ NoDisplayThread' /\ NoFalseAlarm'
    BY <1>7 DEF IInv, ThreadsHold, NoDisplayThread, NoFalseAlarm, MfcWaitAny, mfcControl
  <2>3. QED
    BY <1>3, <1>7, <2>1, <2>2 DEF MfcWaitAny
<1>8. CASE MfcPick
  <2>1. PICK b \in CapBufs : IsFree(b) /\ mfcN' = b /\ mfcPc' = "queue" /\ UNCHANGED error
    BY <1>8, PickFindsBuffer DEF MfcPick
  <2>2. SemaphoresCountBuffers'
    BY <1>4, <1>8, <2>1 DEF IInv, SemaphoresCountBuffers, One, MfcPick, mfcControl
  <2>3. ThreadsHold' /\ NoDisplayThread' /\ NoFalseAlarm'
    BY <1>8, <2>1
    DEF IInv, ThreadsHold, NoDisplayThread, NoFalseAlarm, MfcPick, mfcControl, IsFree
  <2>4. QED
    BY <1>3, <1>8, <2>2, <2>3 DEF MfcPick
<1>9. CASE MfcPickSpare
  <2>1. PICK b \in CapBufs : IsFree(b) /\ mfcN' = b
    BY <1>9 DEF MfcPickSpare
  <2>2. SemaphoresCountBuffers'
    BY <1>4, <1>9
    DEF IInv, SemaphoresCountBuffers, One, MfcPickSpare, AfterPickSpare, mfcControl
  <2>3. ThreadsHold' /\ NoDisplayThread' /\ NoFalseAlarm'
    BY <1>9, <2>1
    DEF IInv, ThreadsHold, NoDisplayThread, NoFalseAlarm, MfcPickSpare, AfterPickSpare,
        mfcControl, IsFree
  <2>4. QED
    BY <1>3, <1>9, <2>2, <2>3 DEF MfcPickSpare
<1>10. CASE MfcWaitSpare
  <2>1. SemaphoresCountBuffers'
    BY <1>1, <1>4, <1>10
    DEF IInv, SemaphoresCountBuffers, One, MfcWaitSpare, WaitDone, mfcControl, TypeOK
  <2>2. ThreadsHold' /\ NoDisplayThread' /\ NoFalseAlarm'
    BY <1>10 DEF IInv, ThreadsHold, NoDisplayThread, NoFalseAlarm, MfcWaitSpare, mfcControl
  <2>3. QED
    BY <1>3, <1>10, <2>1, <2>2 DEF MfcWaitSpare
<1>11. CASE MfcNoSpare
  <2>1. SemaphoresCountBuffers'
    BY <1>4, <1>11 DEF IInv, SemaphoresCountBuffers, One, MfcNoSpare, mfcControl
  <2>2. ThreadsHold' /\ NoDisplayThread' /\ NoFalseAlarm'
    BY <1>11 DEF IInv, ThreadsHold, NoDisplayThread, NoFalseAlarm, MfcNoSpare, mfcControl
  <2>3. QED
    BY <1>3, <1>11, <2>1, <2>2 DEF MfcNoSpare
<1>12. CASE MfcQueue
  <2>1. /\ mfcPc = "queue" /\ mfcPc' = "test" /\ capQueued' = capQueued + 1
        /\ capFlag' = [capFlag EXCEPT ![mfcN] = BUF_MFC]
        /\ hwCap' \subseteq hwCap \cup {mfcN} /\ hwHeld' = hwHeld /\ hwCapDone' = hwCapDone
        /\ UNCHANGED <<queue, todo, done, error, displayPc, displayN, mfcN>>
    BY <1>12 DEF MfcQueue
  <2>2. mfcN \in CapBufs /\ capFlag[mfcN] = BUF_FREE
    BY <1>1, <2>1 DEF IInv, ThreadsHold, TypeOK
  <2>3. \A b \in CapBufs : capFlag'[b] = IF b = mfcN THEN BUF_MFC ELSE capFlag[b]
    BY <1>1, <2>1 DEF TypeOK
  <2>4. /\ Cardinality(Flagged(BUF_FREE)') = Cardinality(Flagged(BUF_FREE)) - 1
        /\ Cardinality(Flagged(BUF_MFC)') = Cardinality(Flagged(BUF_MFC)) + 1
    <3>1. capFlag \in [CapBufs -> Flags]
      BY <1>1 DEF TypeOK, Flags
    <3>2. BUF_MFC \in Flags /\ BUF_MFC # BUF_FREE
      BY DEF Flags, BUF_FREE, BUF_MFC
    <3>3. /\ Cardinality(With(capFlag', BUF_FREE)) = Cardinality(With(capFlag, BUF_FREE)) - 1
          /\ Cardinality(With(capFlag', BUF_MFC)) = Cardinality(With(capFlag, BUF_MFC)) + 1
      BY <2>1, <2>2, <3>1, <3>2, FlagMoved
    <3>4. QED
      BY <3>3 DEF Flagged, With
  <2>5. \A b \in DriverBufs : b \in CapBufs /\ capFlag[b] = BUF_MFC /\ b # mfcN
    <3>1. DriverBufs \subseteq CapBufs
      BY <1>1, DriverInRange
    <3>2. QED
      BY <2>2, <3>1 DEF IInv, ExclusiveOwnership, BUF_MFC, BUF_FREE
  <2>6. FlagsMatchQueues'
    <3>1. \A j \in DOMAIN queue : queue[j] \in CapBufs /\ queue[j] # mfcN
      <4>1. \A j \in DOMAIN queue : queue[j] \in CapBufs
        <5>1. queue \in Seq(CapBufs)
          BY <1>1 DEF TypeOK
        <5>2. QED
          BY <5>1, SeqRange
      <4>2. QED
        BY <2>2, <4>1 DEF IInv, FlagsMatchQueues, BUF_FIMC, BUF_FREE
    <3>2. QED
      BY <2>1, <2>3, <2>4, <3>1 DEF IInv, FlagsMatchQueues
  <2>7. SemaphoresCountBuffers'
    <3>1. /\ One(mfcPc = "post") = 0 /\ One(mfcPc' = "post") = 0
          /\ One(mfcPc \in {"pick", "queue"}) = 1 /\ One(mfcPc' \in {"pick", "queue"}) = 0
          /\ One(displayPc = "post") \in Nat /\ done \in Nat
      BY <1>1, <2>1 DEF One, TypeOK
    <3>2. QED
      BY <2>1, <2>4, <3>1 DEF IInv, SemaphoresCountBuffers
  <2>8. ExclusiveOwnership'
    <3>1. DriverBufs' \subseteq DriverBufs \cup {mfcN}
      BY <2>1 DEF DriverBufs
    <3>2. \A b \in DriverBufs' : capFlag'[b] = BUF_MFC
      BY <2>2, <2>3, <2>5, <3>1
    <3>3. displayPc \in {"process", "free"} => displayN # mfcN
      BY <2>2 DEF IInv, ExclusiveOwnership, BUF_FIMC, BUF_FREE
    <3>4. displayN \in CapBufs
      BY <1>1 DEF TypeOK
    <3>5. QED
      BY <2>1, <2>3, <3>2, <3>3, <3>4 DEF IInv, ExclusiveOwnership
  <2>9. DriverDistinct'
    <3>1. \A k \in DOMAIN hwHeld : hwHeld[k][1] # mfcN
      BY <2>5 DEF DriverBufs
    <3>2. \A k \in DOMAIN hwCapDone : hwCapDone[k][1] # mfcN
      BY <2>5 DEF DriverBufs
    <3>3. QED
      BY <2>1, <3>1, <3>2 DEF IInv, DriverDistinct
  <2>10. ThreadsHold' /\ NoFalseAlarm'
    <3>1. UNCHANGED faults \/ Fault
      BY <1>12 DEF MfcQueue
    <3>2. error => faults' > 0
      BY <1>1, <3>1, DecoderAssumption DEF IInv, NoFalseAlarm, Fault, TypeOK
    <3>3. QED
      BY <2>1, <3>2 DEF ThreadsHold, NoFalseAlarm
  <2>11. NoDisplayThread'
    BY <2>1, <2>3 DEF IInv, NoDisplayThread, BUF_MFC, BUF_FIMC
  <2>12. QED
    BY <1>1, <2>6, <2>7, <2>8, <2>9, <2>10, <2>11 DEF IInv
<1>13. QED
  BY <1>5, <1>6, <1>7, <1>8, <1>9, <1>10, <1>11, <1>12

(* The MFC thread from the DQBUF on: handing a picture to the display.     *)
LEMMA MfcThreadHandOverKeeps ==
  ASSUME IInv, MfcDequeue \/ MfcFinish \/ MfcDequeueFails \/ MfcAdd \/ MfcPost
  PROVE  IInv'
<1>1. TypeOK /\ TypeOK'
  BY MfcThreadType DEF IInv, mfc_thread_func
<1>2. UNCHANGED mfcRest
  BY DEF MfcDequeue, MfcFinish, MfcDequeueFails, MfcAdd, MfcPost, mfcControl
<1> USE DEF mfcRest, syncVars
<1>3. \A j \in DOMAIN queue : queue[j] \in CapBufs
  <2>1. queue \in Seq(CapBufs)
    BY <1>1 DEF TypeOK
  <2>2. QED
    BY <2>1, SeqRange
<1>4. ASSUME hwCapDone # <<>>, hwCapDone' = Tail(hwCapDone), hwCap' = hwCap
      PROVE  /\ DriverDistinct' /\ DriverBufs' \subseteq DriverBufs
             /\ Head(hwCapDone) = hwCapDone[1] /\ hwCapDone[1] \in CapBufs \X Frames
             /\ hwCapDone[1][1] \in DriverBufs /\ hwCapDone[1][1] \notin DriverBufs'
  <2>1. /\ 1 \in DOMAIN hwCapDone /\ Head(hwCapDone) = hwCapDone[1]
        /\ hwCapDone[1] \in CapBufs \X Frames
        /\ \A k \in DOMAIN hwCapDone' :
             k \in Nat \ {0} /\ k + 1 \in DOMAIN hwCapDone /\ hwCapDone'[k] = hwCapDone[k + 1]
    <3>1. hwCapDone \in Seq(CapBufs \X Frames)
      BY <1>1 DEF TypeOK
    <3>2. QED
      BY <1>4, <3>1, TailIndex
  <2>2. hwHeld' = hwHeld
    BY <1>2
  <2>3. DriverDistinct'
    BY <1>4, <2>1, <2>2 DEF IInv, DriverDistinct
  <2>4. DriverBufs' \subseteq DriverBufs /\ hwCapDone[1][1] \in DriverBufs
    BY <1>4, <2>1, <2>2 DEF DriverBufs
  <2>5. hwCapDone[1][1] \notin DriverBufs'
    BY <1>4, <2>1, <2>2 DEF IInv, DriverDistinct, DriverBufs
  <2>6. QED
    BY <2>1, <2>3, <2>4, <2>5
<1>5. CASE MfcDequeue
  <2> DEFINE b == hwCapDone[1][1]
  <2>1. /\ DriverDistinct' /\ DriverBufs' \subseteq DriverBufs
        /\ Head(hwCapDone) = hwCapDone[1] /\ b \in CapBufs /\ b \in DriverBufs
        /\ b \notin DriverBufs'
    BY <1>4, <1>5 DEF MfcDequeue
  <2>2. /\ mfcPc = "dequeue" /\ mfcN' = b /\ capQueued' = capQueued - 1
        /\ capFlag' = [capFlag EXCEPT ![b] = HandedTo]
        /\ mfcPc' = IF Display = "none" THEN "test" ELSE "add"
        /\ UNCHANGED <<queue, todo, done, error, faults, displayPc, displayN>>
    BY <1>5, <2>1 DEF MfcDequeue
  <2> HIDE DEF b
  <2>3. capFlag[b] = BUF_MFC
    BY <2>1 DEF IInv, ExclusiveOwnership
  <2>4. \A a \in CapBufs : capFlag'[a] = IF a = b THEN HandedTo ELSE capFlag[a]
    BY <1>1, <2>1, <2>2 DEF TypeOK
  <2>5. HandedTo \in Flags /\ HandedTo # BUF_MFC
        /\ (Display # "none" => HandedTo = BUF_FIMC) /\ (Display = "none" => HandedTo = BUF_FREE)
    BY DEF HandedTo, Flags, BUF_FREE, BUF_MFC, BUF_FIMC
  <2>6. /\ Cardinality(Flagged(BUF_MFC)') = Cardinality(Flagged(BUF_MFC)) - 1
        /\ Display # "none" => Flagged(BUF_FREE)' = Flagged(BUF_FREE)
    <3>1. capFlag \in [CapBufs -> Flags]
      BY <1>1 DEF TypeOK, Flags
    <3>2. Cardinality(With(capFlag', BUF_MFC)) = Cardinality(With(capFlag, BUF_MFC)) - 1
      BY <2>1, <2>2, <2>3, <2>5, <3>1, FlagMoved
    <3>3. Display # "none" => With(capFlag', BUF_FREE) = With(capFlag, BUF_FREE)
      <4>1. Display # "none" => BUF_FREE # capFlag[b] /\ BUF_FREE # HandedTo
        BY <2>3, <2>5 DEF BUF_FREE, BUF_MFC, BUF_FIMC
      <4>2. \A h : h # capFlag[b] /\ h # HandedTo =>
                    With([capFlag EXCEPT ![b] = HandedTo], h) = With(capFlag, h)
        BY <2>1, <2>3, <2>5, <3>1, FlagMoved
      <4>3. QED
        BY <2>2, <4>1, <4>2
    <3>4. QED
      BY <3>2, <3>3 DEF Flagged, With
  <2>7. \A j \in DOMAIN queue : queue[j] # b
    BY <2>3 DEF IInv, FlagsMatchQueues, BUF_MFC, BUF_FIMC
  <2>8. displayPc \in {"process", "free"} => displayN # b
    BY <2>3 DEF IInv, ExclusiveOwnership, BUF_MFC, BUF_FIMC
  <2>9. FlagsMatchQueues'
    BY <1>3, <2>2, <2>4, <2>6, <2>7 DEF IInv, FlagsMatchQueues
  <2>10. SemaphoresCountBuffers'
    BY <2>2, <2>6 DEF IInv, SemaphoresCountBuffers, One
  <2>11. ExclusiveOwnership'
    <3>1. \A a \in DriverBufs' : a \in CapBufs /\ a # b /\ capFlag[a] = BUF_MFC
      <4>1. DriverBufs \subseteq CapBufs
        BY <1>1, DriverInRange
      <4>2. QED
        BY <2>1, <4>1 DEF IInv, ExclusiveOwnership
    <3>2. displayN \in CapBufs
      BY <1>1 DEF TypeOK
    <3>3. QED
      BY <2>2, <2>4, <2>8, <3>1, <3>2 DEF IInv, ExclusiveOwnership
  <2>12. ThreadsHold' /\ NoFalseAlarm'
    BY <2>1, <2>2, <2>4, <2>5, <2>7, <2>8 DEF IInv, ThreadsHold, NoFalseAlarm
  <2>13. NoDisplayThread'
    BY <2>2, <2>4, <2>5 DEF IInv, NoDisplayThread, BUF_FREE, BUF_FIMC
  <2>14. QED
    BY <1>1, <2>1, <2>9, <2>10, <2>11, <2>12, <2>13 DEF IInv
<1>6. CASE MfcFinish
  <2>1. DriverDistinct' /\ DriverBufs' \subseteq DriverBufs
    BY <1>4, <1>6 DEF MfcFinish
  <2>2. /\ mfcPc = "dequeue" /\ mfcPc' = "exit"
        /\ UNCHANGED <<capQueued, capFlag, queue, todo, done, error, faults, displayPc,
                       displayN>>
    BY <1>6 DEF MfcFinish
  <2>3. \A f : Flagged(f)' = Flagged(f)
    BY <2>2 DEF Flagged
  <2>4. FlagsMatchQueues' /\ SemaphoresCountBuffers'
    BY <2>2, <2>3 DEF IInv, FlagsMatchQueues, SemaphoresCountBuffers, One
  <2>5. ExclusiveOwnership' /\ ThreadsHold' /\ NoDisplayThread' /\ NoFalseAlarm'
    BY <2>1, <2>2 DEF IInv, ExclusiveOwnership, ThreadsHold, NoDisplayThread, NoFalseAlarm
  <2>6. QED
    BY <1>1, <2>1, <2>4, <2>5 DEF IInv
<1>7. CASE MfcDequeueFails
  <2>1. FlagsMatchQueues' /\ DriverDistinct' /\ DriverBufs' = DriverBufs
        /\ \A f : Flagged(f)' = Flagged(f)
    BY <1>2, <1>7, Unmoved DEF MfcDequeueFails, mfcControl
  <2>2. SemaphoresCountBuffers'
    BY <1>7, <2>1 DEF IInv, SemaphoresCountBuffers, One, MfcDequeueFails, mfcControl
  <2>3. ExclusiveOwnership' /\ ThreadsHold' /\ NoDisplayThread'
    BY <1>7, <2>1
    DEF IInv, ExclusiveOwnership, ThreadsHold, NoDisplayThread, MfcDequeueFails, mfcControl
  <2>4. faults' > 0
    BY <1>1, <1>7, DecoderAssumption DEF MfcDequeueFails, Fault, TypeOK
  <2>5. QED
    BY <1>1, <2>1, <2>2, <2>3, <2>4 DEF IInv, NoFalseAlarm
<1>8. CASE MfcAdd
  <2>1. /\ mfcPc = "add" /\ mfcPc' = "post" /\ queue' = queue_add(queue, mfcN)
        /\ UNCHANGED <<capQueued, capFlag, todo, done, error, faults, displayPc, displayN,
                       mfcN, hwCap, hwHeld, hwCapDone>>
    BY <1>8 DEF MfcAdd, mfcControl
  <2>2. /\ capFlag[mfcN] = BUF_FIMC /\ mfcN \in CapBufs
        /\ \A k \in DOMAIN queue : queue[k] # mfcN
        /\ displayPc \in {"process", "free"} => displayN # mfcN
    BY <1>1, <2>1 DEF IInv, ThreadsHold, TypeOK
  <2>3. queue' = Append(queue, mfcN)
    BY <1>1, <2>1, <2>2, QueueHasRoom DEF IInv, queue_add
  <2>4. /\ DOMAIN queue' = DOMAIN queue \cup {Len(queue) + 1} /\ queue'[Len(queue) + 1] = mfcN
        /\ Len(queue') = Len(queue) + 1 /\ Len(queue) \in Nat
        /\ \A k \in DOMAIN queue : k # Len(queue) + 1 /\ queue'[k] = queue[k]
    <3>1. queue \in Seq(CapBufs)
      BY <1>1 DEF TypeOK
    <3>2. QED
      BY <2>2, <2>3, <3>1, AppendIndex
  <2>5. \A f : Flagged(f)' = Flagged(f)
    BY <2>1 DEF Flagged
  <2>6. DriverDistinct' /\ DriverBufs' = DriverBufs
    BY <2>1 DEF IInv, DriverDistinct, DriverBufs
  <2>7. FlagsMatchQueues'
    BY <2>1, <2>2, <2>4, <2>5 DEF IInv, FlagsMatchQueues
  <2>8. SemaphoresCountBuffers'
    <3>1. todo \in Nat /\ One(mfcPc = "post") = 0 /\ One(mfcPc' = "post") = 1
          /\ One(mfcPc \in {"pick", "queue"}) = 0 /\ One(mfcPc' \in {"pick", "queue"}) = 0
          /\ One(displayPc = "remove") \in Nat
      BY <1>1, <2>1 DEF One, TypeOK
    <3>2. QED
      BY <2>1, <2>4, <2>5, <3>1 DEF IInv, SemaphoresCountBuffers
  <2>9. ExclusiveOwnership'
    BY <2>1, <2>2, <2>4, <2>6 DEF IInv, ExclusiveOwnership
  <2>10. ThreadsHold' /\ NoDisplayThread' /\ NoFalseAlarm'
    BY <2>1 DEF IInv, ThreadsHold, NoDisplayThread, NoFalseAlarm
  <2>11. QED
    BY <1>1, <2>6, <2>7, <2>8, <2>9, <2>10 DEF IInv
<1>9. CASE MfcPost
  <2>1. FlagsMatchQueues' /\ DriverDistinct' /\ DriverBufs' = DriverBufs
        /\ \A f : Flagged(f)' = Flagged(f)
    BY <1>2, <1>9, Unmoved DEF MfcPost, mfcControl
  <2>2. SemaphoresCountBuffers'
    BY <1>1, <1>9, <2>1 DEF IInv, SemaphoresCountBuffers, One, MfcPost, mfcControl, TypeOK
  <2>3. ExclusiveOwnership' /\ ThreadsHold' /\ NoDisplayThread' /\ NoFalseAlarm'
    BY <1>9, <2>1
    DEF IInv, ExclusiveOwnership, ThreadsHold, NoDisplayThread, NoFalseAlarm, MfcPost, mfcControl
  <2>4. QED
    BY <1>1, <2>1, <2>2, <2>3 DEF IInv
<1>10. QED
  BY <1>5, <1>6, <1>7, <1>8, <1>9

-----------------------------------------------------------------------------
(* At the start the MFC has every capture buffer.                          *)
LEMMA InitAccounting == Init => IInv
<1> SUFFICES ASSUME Init PROVE IInv
  OBVIOUS
<1>1. TypeOK
  BY DecoderAssumption, FrameZero DEF Init, TypeOK, ParserPcs, MfcPcs, DisplayPcs, MainPcs
<1>2. \A b \in CapBufs : capFlag[b] = BUF_MFC
  BY DEF Init
<1>3. Flagged(BUF_MFC) = CapBufs /\ Flagged(BUF_FREE) = {}
  BY <1>2 DEF Flagged, BUF_MFC, BUF_FREE
<1>4. Cardinality(Flagged(BUF_MFC)) = CapCnt /\ Cardinality(Flagged(BUF_FREE)) = 0
  BY <1>3, FS_Interval, FS_EmptySet, DecoderAssumption DEF CapBufs
<1>5. FlagsMatchQueues /\ SemaphoresCountBuffers
  BY <1>4 DEF Init, FlagsMatchQueues, SemaphoresCountBuffers, One
<1>6. ExclusiveOwnership
  <2>1. DriverBufs \subseteq CapBufs
    BY <1>1, DriverInRange
  <2>2. QED
    BY <1>2, <2>1 DEF Init, ExclusiveOwnership
<1>7. ThreadsHold /\ DriverDistinct /\ NoDisplayThread /\ NoFalseAlarm
  BY <1>2 DEF Init, ThreadsHold, DriverDistinct, NoDisplayThread, NoFalseAlarm, BUF_MFC, BUF_FIMC
<1>8. QED
  BY <1>1, <1>5, <1>6, <1>7 DEF IInv

(* The accounting of buffers and semaphores holds in every reachable state *)
(* of the three threads of main.c and the decoder.                         *)
THEOREM Accounting == Spec => []IInv
<1>1. Init => IInv
  BY InitAccounting
<1>2. IInv /\ [Next]_vars => IInv'
  <2>1. ASSUME IInv, UNCHANGED vars PROVE IInv'
    <3>1. TypeOK' /\ NoFalseAlarm'
      BY <2>1 DEF IInv, TypeOK, NoFalseAlarm, vars, flagVars, parserVars, mfcVars, syncVars,
                  displayVars, hwOutVars, hwCapVars
    <3>2. QED
      BY <2>1, <3>1, Still DEF vars, displayVars, hwCapVars
  <2>2. IInv /\ mfc_thread_func => IInv'
    BY MfcThreadQueueKeeps, MfcThreadHandOverKeeps DEF mfc_thread_func
  <2>3. QED
    BY <2>1, <2>2, ParserKeeps, DisplayKeeps, MainKeeps, MfcKeeps DEF Next
<1>3. QED
  BY <1>1, <1>2, PTL DEF Spec

(* No sem_post is missing and none is one too many (main.c:222, 258, 304,  *)
(* 341, 446), wherever the threads are.                                    *)
THEOREM SemaphoresAreExact == Spec => []SemaphoresCountBuffers
<1>1. IInv => SemaphoresCountBuffers
  BY DEF IInv
<1>2. QED
  BY <1>1, Accounting, PTL

(* cap_buf_queued, cap_buf_flag and the buffer queue never disagree        *)
(* (main.c:217, 237, 297, 446).                                            *)
THEOREM FlagsAreExact == Spec => []FlagsMatchQueues
<1>1. IInv => FlagsMatchQueues
  BY DEF IInv
<1>2. QED
  BY <1>1, Accounting, PTL

(* The MFC never has a buffer that is queued for, or read by, the display  *)
(* thread, whatever fails (main.c:237, 269, 446).                          *)
THEOREM BuffersAreOwnedOnce == Spec => []ExclusiveOwnership
<1>1. IInv => ExclusiveOwnership
  BY DEF IInv
<1>2. QED
  BY <1>1, Accounting, PTL

(* "Something went seriously wrong" and the other checks of the threads on *)
(* each other never fire without a failed system call (main.c:240, 348).   *)
THEOREM AlarmsAreTrue == Spec => []NoFalseAlarm
<1>1. IInv => NoFalseAlarm
  BY DEF IInv
<1>2. QED
  BY <1>1, Accounting, PTL

-----------------------------------------------------------------------------
(* The frames on their way: the OUTPUT queue of the MFC, its decoder, what *)
(* is ready to be dequeued, the hands of the MFC thread, the queue of the  *)
(* display thread, its hands, and the frames shown                         *)
Stages == 1 .. 7

(* Further on there are only earlier frames; number 0 is the header on its *)
(* way in or the empty picture on its way out, and goes no further.        *)
InOrder(f) ==
  /\ \A p \in Stages : \A i, j \in DOMAIN f[p] : i < j /\ f[p][j] # 0 => f[p][i] < f[p][j]
  /\ \A p, q \in Stages : p < q =>
       \A x \in Items(f[p]), y \in Items(f[q]) : x # 0 => y < x
  /\ \A p \in Stages \ {1, 3} : 0 \notin Items(f[p])

(* Nothing is there that was not parsed, and nothing is missing.           *)
UpTo(f, n)  == \A p \in Stages : Items(f[p]) \subseteq 0 .. n
Whole(f, n) == \A x \in 1 .. n : \E p \in Stages : x \in Items(f[p])

(* The first frame of a stage is dropped.                                  *)
LEMMA FirstDropped ==
  ASSUME NEW f \in [Stages -> Seq(Nat)], NEW g \in [Stages -> Seq(Nat)], NEW n \in Nat,
         InOrder(f), UpTo(f, n), NEW p \in Stages, f[p] # <<>>,
         \A r \in Stages : g[r] = IF r = p THEN Tail(f[p]) ELSE f[r]
  PROVE  InOrder(g) /\ UpTo(g, n) /\ (Head(f[p]) = 0 /\ Whole(f, n) => Whole(g, n))
<1> DEFINE s == f[p]
           t == Tail(f[p])
<1>1. /\ s \in Seq(Nat) /\ s # <<>>
      /\ \A k \in DOMAIN t : k \in Nat /\ k + 1 \in DOMAIN s /\ t[k] = s[k + 1]
      /\ Items(s) = {Head(s)} \cup Items(t) /\ g[p] = t
  BY Taken
<1>2. \A r \in Stages : Items(g[r]) \subseteq Items(f[r])
  BY <1>1
<1>3. ASSUME NEW r \in Stages, NEW i \in DOMAIN g[r], NEW j \in DOMAIN g[r], i < j, g[r][j] # 0
      PROVE  g[r][i] < g[r][j]
  <2>1. CASE r = p
    <3>1. i \in Nat /\ j \in Nat /\ i + 1 \in DOMAIN s /\ j + 1 \in DOMAIN s
          /\ t[i] = s[i + 1] /\ t[j] = s[j + 1]
      BY <1>1, <1>3, <2>1
    <3>2. i + 1 < j + 1
      BY <1>3, <3>1
    <3>3. QED
      BY <1>1, <1>3, <2>1, <3>1, <3>2 DEF InOrder
  <2>2. CASE r # p
    BY <1>3, <2>2 DEF InOrder
  <2>3. QED
    BY <2>1, <2>2
<1>4. InOrder(g)
  BY <1>2, <1>3 DEF InOrder
<1>5. UpTo(g, n)
  BY <1>2 DEF UpTo
<1>6. ASSUME Head(f[p]) = 0, Whole(f, n) PROVE Whole(g, n)
  <2>1. \A r \in Stages, x \in 1 .. n : x \in Items(f[r]) => x \in Items(g[r])
    <3>1. \A x \in 1 .. n : x # 0
      OBVIOUS
    <3>2. \A r \in Stages : \A x \in Items(f[r]) : x # 0 => x \in Items(g[r])
      BY <1>1, <1>6
    <3>3. QED
      BY <3>1, <3>2
  <2>2. QED
    BY <1>6, <2>1 DEF Whole
<1>7. QED
  BY <1>4, <1>5, <1>6

(* A frame goes on, from the front of a stage to the end of a later one    *)
(* with none in between.                                                   *)
GoesOn(f, g, p, q) ==
  /\ p < q /\ f[p] # <<>> /\ Head(f[p]) # 0
  /\ \A r \in Stages : p < r /\ r < q => f[r] = <<>>
  /\ \A r \in Stages : g[r] = IF r = p THEN Tail(f[p])
                             ELSE IF r = q THEN Append(f[q], Head(f[p])) ELSE f[r]

(* That keeps the order, and no frame is lost on the way.                  *)
LEMMA FirstMoved ==
  ASSUME NEW f \in [Stages -> Seq(Nat)], NEW g \in [Stages -> Seq(Nat)], NEW n \in Nat,
         InOrder(f), UpTo(f, n), NEW p \in Stages, NEW q \in Stages, GoesOn(f, g, p, q)
  PROVE  InOrder(g) /\ UpTo(g, n) /\ (Whole(f, n) => Whole(g, n))
<1>0. /\ p < q /\ f[p] # <<>> /\ Head(f[p]) # 0
      /\ \A r \in Stages : p < r /\ r < q => f[r] = <<>>
      /\ \A r \in Stages : g[r] = IF r = p THEN Tail(f[p])
                                 ELSE IF r = q THEN Append(f[q], Head(f[p])) ELSE f[r]
  BY DEF GoesOn
<1> DEFINE s == f[p]
           t == Tail(f[p])
           h == Head(f[p])
           u == f[q]
           v == Append(u, h)
<1>1. /\ s \in Seq(Nat) /\ h \in Nat /\ h # 0 /\ 1 \in DOMAIN s /\ h = s[1] /\ h \in Items(s)
      /\ \A k \in DOMAIN t : k \in Nat /\ k + 1 \in DOMAIN s /\ t[k] = s[k + 1]
      /\ Items(s) = {h} \cup Items(t) /\ g[p] = t
  BY <1>0, Taken
<1>2. /\ u \in Seq(Nat) /\ Len(u) \in Nat /\ Items(v) = Items(u) \cup {h} /\ g[q] = v
      /\ \A k \in DOMAIN v : k \in Nat /\ ((k \in DOMAIN u /\ v[k] = u[k]) \/ (k = Len(u) + 1 /\ v[k] = h))
  <2>1. p # q
    BY <1>0 DEF Stages
  <2>2. u \in Seq(Nat) /\ h \in Nat /\ g[q] = v
    BY <1>0, <1>1, <2>1
  <2> HIDE DEF u, h
  <2>3. QED
    BY <2>2, Put
<1>3. DOMAIN u = 1 .. Len(u) /\ \A k \in DOMAIN u : u[k] \in Items(u)
  BY <1>2, Held
<1>4. \A r \in Stages : r # p /\ r # q => g[r] = f[r]
  BY <1>0
<1> HIDE DEF s, t, h, u, v
(* What came before it in its stage came after it on the way.              *)
<1>5. \A x \in Items(t) : x # 0 => h < x
  <2> SUFFICES ASSUME NEW k \in DOMAIN t, t[k] # 0 PROVE h < t[k]
    BY DEF Items
  <2>1. k \in Nat /\ k + 1 \in DOMAIN s /\ t[k] = s[k + 1] /\ k # 0
    <3>1. DOMAIN t \subseteq Nat \ {0}
      BY <1>1, Taken DEF t, s
    <3>2. QED
      BY <1>1, <3>1
  <2>2. 1 < k + 1
    BY <2>1
  <2>3. QED
    BY <1>1, <2>1, <2>2 DEF InOrder, s
<1>6. \A x \in Items(u) : x < h
  BY <1>0, <1>1 DEF InOrder, s, u
<1>7. ASSUME NEW r \in Stages, NEW i \in DOMAIN g[r], NEW j \in DOMAIN g[r], i < j, g[r][j] # 0
      PROVE  g[r][i] < g[r][j]
  <2>1. CASE r = p
    <3>1. i \in Nat /\ j \in Nat /\ i + 1 \in DOMAIN s /\ j + 1 \in DOMAIN s
          /\ t[i] = s[i + 1] /\ t[j] = s[j + 1]
      BY <1>1, <1>7, <2>1
    <3>2. i + 1 < j + 1
      BY <1>7, <3>1
    <3>3. s[j + 1] # 0 /\ g[r][i] = s[i + 1] /\ g[r][j] = s[j + 1]
      BY <1>1, <1>7, <2>1, <3>1
    <3>4. s[i + 1] < s[j + 1]
      BY <3>1, <3>2, <3>3 DEF InOrder, s
    <3>5. QED
      BY <3>3, <3>4
  <2>2. CASE r = q
    <3>places. i \in DOMAIN v /\ j \in DOMAIN v
      BY <1>2, <1>7, <2>2
    <3>1. i \in DOMAIN u /\ v[i] = u[i]
      <4>1. j \in Nat /\ j <= Len(u) + 1 /\ i \in Nat
        <5>1. j \in Nat /\ i \in Nat /\ (j \in DOMAIN u \/ j = Len(u) + 1)
          BY <1>2, <3>places
        <5>2. \A k \in 1 .. Len(u) : k <= Len(u) + 1
          BY <1>2
        <5>3. QED
          BY <1>2, <1>3, <5>1, <5>2
      <4>2. i # Len(u) + 1
        BY <1>2, <1>7, <4>1
      <4>3. QED
        BY <1>2, <3>places, <4>2
    <3>2. CASE j \in DOMAIN u /\ v[j] = u[j]
      BY <1>2, <1>7, <2>2, <3>1, <3>2 DEF InOrder, u
    <3>3. CASE v[j] = h
      BY <1>2, <1>3, <1>6, <2>2, <3>1, <3>3
    <3>4. QED
      BY <1>2, <1>7, <2>2, <3>2, <3>3
  <2>3. CASE r # p /\ r # q
    BY <1>4, <1>7, <2>3 DEF InOrder
  <2>4. QED
    BY <2>1, <2>2, <2>3
<1>8. ASSUME NEW a \in Stages, NEW b \in Stages, a < b,
             NEW x \in Items(g[a]), NEW y \in Items(g[b]), x # 0
      PROVE  y < x
  <2>1. a # q => x \in Items(f[a])
    BY <1>1, <1>2, <1>4 DEF s
  <2>2. b # q => y \in Items(f[b])
    BY <1>1, <1>2, <1>4 DEF s
  <2>3. CASE x \in Items(f[a]) /\ y \in Items(f[b])
    BY <1>8, <2>3 DEF InOrder
  <2>4. CASE b = q /\ y = h
    <3>1. a # q /\ x \in Items(f[a])
      <4>1. a # q
        BY <1>8, <2>4 DEF Stages
      <4>2. QED
        BY <2>1, <4>1
    <3>2. CASE a = p
      BY <1>1, <1>5, <1>8, <2>4, <3>2
    <3>3. CASE a < p
      BY <1>0, <1>1, <1>8, <2>4, <3>1, <3>3 DEF InOrder, s
    <3>4. CASE p < a
      <4>1. f[a] = <<>>
        BY <1>0, <1>8, <2>4, <3>4
      <4>2. QED
        BY <3>1, <4>1 DEF Items
    <3>5. QED
      BY <3>2, <3>3, <3>4 DEF Stages
  <2>5. CASE a = q /\ x = h
    <3>1. b # q /\ y \in Items(f[b]) /\ p < b
      BY <1>0, <1>8, <2>2, <2>5 DEF Stages
    <3>2. QED
      BY <1>1, <2>5, <3>1 DEF InOrder, s
  <2>6. QED
    BY <1>2, <1>8, <2>1, <2>2, <2>3, <2>4, <2>5 DEF u
<1>9. \A r \in Stages \ {1, 3} : 0 \notin Items(g[r])
  BY <1>1, <1>2, <1>4 DEF InOrder, s, u
<1>10. InOrder(g)
  BY <1>7, <1>8, <1>9 DEF InOrder
<1>11. UpTo(g, n)
  BY <1>1, <1>2, <1>4 DEF UpTo, s, u
<1>12. ASSUME Whole(f, n) PROVE Whole(g, n)
  <2> SUFFICES ASSUME NEW x \in 1 .. n PROVE \E r \in Stages : x \in Items(g[r])
    BY DEF Whole
  <2>1. PICK r \in Stages : x \in Items(f[r])
    BY <1>12 DEF Whole
  <2>2. CASE x = h
    BY <1>2, <2>2
  <2>3. CASE x # h
    <3>1. x \in Items(g[r])
      BY <1>1, <1>2, <1>4, <2>1, <2>3 DEF s, u
    <3>2. QED
      BY <3>1
  <2>4. QED
    BY <2>2, <2>3
<1>13. QED
  BY <1>10, <1>11, <1>12

(* The empty picture comes out of the decoder.                             *)
LEMMA EmptyPictureOut ==
  ASSUME NEW f \in [Stages -> Seq(Nat)], NEW g \in [Stages -> Seq(Nat)], NEW n \in Nat,
         InOrder(f), UpTo(f, n),
         \A r \in Stages : g[r] = IF r = 3 THEN Append(f[3], 0) ELSE f[r]
  PROVE  InOrder(g) /\ UpTo(g, n) /\ (Whole(f, n) => Whole(g, n))
<1> DEFINE u == f[3]
           v == Append(f[3], 0)
<1>1. /\ u \in Seq(Nat) /\ Len(u) \in Nat /\ Items(v) = Items(u) \cup {0} /\ g[3] = v
      /\ \A k \in DOMAIN v : k \in Nat /\ ((k \in DOMAIN u /\ v[k] = u[k]) \/ (k = Len(u) + 1 /\ v[k] = 0))
  <2>1. 3 \in Stages
    BY DEF Stages
  <2>2. u \in Seq(Nat) /\ v = g[3]
    BY <2>1
  <2>3. QED
    BY <2>2, Put, SMTT(30)
<1>2. DOMAIN u = 1 .. Len(u)
  BY <1>1, Held
<1>3. \A r \in Stages : r # 3 => g[r] = f[r]
  OBVIOUS
<1> HIDE DEF u, v
<1>4. ASSUME NEW r \in Stages, NEW i \in DOMAIN g[r], NEW j \in DOMAIN g[r], i < j, g[r][j] # 0
      PROVE  g[r][i] < g[r][j]
  <2>1. CASE r = 3
    <3>places. i \in DOMAIN v /\ j \in DOMAIN v /\ v[j] # 0
      BY <1>1, <1>4, <2>1
    <3>old. j \in DOMAIN u /\ v[j] = u[j]
      BY <1>1, <3>places
    <3>1. j \in DOMAIN u /\ v[j] = u[j] /\ i \in DOMAIN u /\ v[i] = u[i]
      <4>1. j <= Len(u) /\ i \in Nat /\ j \in Nat
        BY <1>1, <1>2, <3>places, <3>old
      <4>2. i # Len(u) + 1
        BY <1>1, <1>4, <4>1
      <4>3. QED
        BY <1>1, <3>places, <3>old, <4>2
    <3>2. QED
      BY <1>1, <1>4, <2>1, <3>1 DEF InOrder, u
  <2>2. CASE r # 3
    BY <1>3, <1>4, <2>2 DEF InOrder
  <2>3. QED
    BY <2>1, <2>2
<1>5. ASSUME NEW a \in Stages, NEW b \in Stages, a < b,
             NEW x \in Items(g[a]), NEW y \in Items(g[b]), x # 0
      PROVE  y < x
  <2>1. x \in Items(f[a]) /\ x \in Nat
    <3>1. x \in Items(f[a])
      BY <1>1, <1>3, <1>5 DEF u
    <3>2. QED
      BY <3>1, Held
  <2>2. CASE y = 0
    BY <1>5, <2>1, <2>2
  <2>3. CASE y \in Items(f[b])
    BY <1>5, <2>1, <2>3 DEF InOrder
  <2>4. QED
    BY <1>1, <1>3, <1>5, <2>2, <2>3 DEF u
<1>6. \A r \in Stages \ {1, 3} : 0 \notin Items(g[r])
  BY <1>3 DEF InOrder
<1>7. InOrder(g)
  BY <1>4, <1>5, <1>6 DEF InOrder
<1>8. UpTo(g, n)
  <2>1. \A r \in Stages : Items(g[r]) \subseteq Items(f[r]) \cup {0}
    BY <1>1, <1>3 DEF u
  <2>2. \A r \in Stages : Items(f[r]) \subseteq 0 .. n
    BY DEF UpTo
  <2>3. 0 \in 0 .. n
    OBVIOUS
  <2>4. QED
    BY <2>1, <2>2, <2>3 DEF UpTo
<1>9. ASSUME Whole(f, n) PROVE Whole(g, n)
  <2>1. \A r \in Stages : Items(f[r]) \subseteq Items(g[r])
    BY <1>1, <1>3 DEF u
  <2>2. QED
    BY <1>9, <2>1 DEF Whole
<1>10. QED
  BY <1>7, <1>8, <1>9

(* The parser queues the next frame.                                       *)
LEMMA NextFrameIn ==
  ASSUME NEW f \in [Stages -> Seq(Nat)], NEW g \in [Stages -> Seq(Nat)], NEW n \in Nat,
         InOrder(f), UpTo(f, n),
         \A r \in Stages : g[r] = IF r = 1 THEN Append(f[1], n + 1) ELSE f[r]
  PROVE  InOrder(g) /\ UpTo(g, n + 1) /\ (Whole(f, n) => Whole(g, n + 1))
<1> DEFINE u == f[1]
           v == Append(f[1], n + 1)
<1>1. /\ u \in Seq(Nat) /\ Len(u) \in Nat /\ Items(v) = Items(u) \cup {n + 1} /\ g[1] = v
      /\ \A k \in DOMAIN v : k \in Nat /\ ((k \in DOMAIN u /\ v[k] = u[k]) \/ (k = Len(u) + 1 /\ v[k] = n + 1))
  <2>1. 1 \in Stages
    BY DEF Stages
  <2>2. u \in Seq(Nat) /\ v = g[1]
    BY <2>1
  <2>3. QED
    BY <2>2, Put, SMTT(30)
<1>2. DOMAIN u = 1 .. Len(u) /\ \A k \in DOMAIN u : u[k] \in Items(u)
  BY <1>1, Held
<1>3. \A r \in Stages : r # 1 => g[r] = f[r]
  OBVIOUS
<1>4. \A r \in Stages : \A x \in Items(f[r]) : x \in Nat /\ x < n + 1
  BY DEF UpTo
<1> HIDE DEF u, v
<1>5. ASSUME NEW r \in Stages, NEW i \in DOMAIN g[r], NEW j \in DOMAIN g[r], i < j, g[r][j] # 0
      PROVE  g[r][i] < g[r][j]
  <2>1. CASE r = 1
    <3>places. i \in DOMAIN v /\ j \in DOMAIN v
      BY <1>1, <1>5, <2>1
    <3>1. i \in DOMAIN u /\ v[i] = u[i]
      <4>1. j \in Nat /\ j <= Len(u) + 1 /\ i \in Nat
        <5>1. j \in Nat /\ i \in Nat /\ (j \in DOMAIN u \/ j = Len(u) + 1)
          BY <1>1, <3>places
        <5>2. \A k \in 1 .. Len(u) : k <= Len(u) + 1
          BY <1>1
        <5>3. QED
          BY <1>1, <1>2, <5>1, <5>2
      <4>2. i # Len(u) + 1
        BY <1>1, <1>5, <4>1
      <4>3. QED
        BY <1>1, <3>places, <4>2
    <3>2. CASE j \in DOMAIN u /\ v[j] = u[j]
      BY <1>1, <1>5, <2>1, <3>1, <3>2 DEF InOrder, u
    <3>3. CASE v[j] = n + 1
      BY <1>1, <1>2, <1>4, <2>1, <3>1, <3>3 DEF u
    <3>4. QED
      BY <1>1, <1>5, <2>1, <3>2, <3>3
  <2>2. CASE r # 1
    BY <1>3, <1>5, <2>2 DEF InOrder
  <2>3. QED
    BY <2>1, <2>2
<1>6. ASSUME NEW a \in Stages, NEW b \in Stages, a < b,
             NEW x \in Items(g[a]), NEW y \in Items(g[b]), x # 0
      PROVE  y < x
  <2>0. b # 1
    <3>1. a \in Int /\ b \in Int /\ 1 <= a
      BY <1>6 DEF Stages
    <3>2. 1 < b
      BY <1>6, <3>1
    <3>3. QED
      BY <3>1, <3>2
  <2>1. b # 1 /\ y \in Items(f[b])
    BY <1>3, <1>6, <2>0
  <2>2. CASE x = n + 1
    BY <1>4, <2>1, <2>2
  <2>3. CASE x \in Items(f[a])
    BY <1>6, <2>1, <2>3 DEF InOrder
  <2>4. QED
    BY <1>1, <1>3, <1>6, <2>2, <2>3, SMTT(30) DEF u
<1>7. \A r \in Stages \ {1, 3} : 0 \notin Items(g[r])
  BY <1>3 DEF InOrder
<1>8. InOrder(g)
  BY <1>5, <1>6, <1>7 DEF InOrder
<1>9. UpTo(g, n + 1)
  <2>1. \A r \in Stages : Items(g[r]) \subseteq Items(f[r]) \cup {n + 1}
    BY <1>1, <1>3 DEF u
  <2>2. \A r \in Stages : Items(f[r]) \subseteq 0 .. n + 1
    BY DEF UpTo
  <2>3. QED
    BY <2>1, <2>2 DEF UpTo
<1>10. ASSUME Whole(f, n) PROVE Whole(g, n + 1)
  <2>1. \A r \in Stages : Items(f[r]) \subseteq Items(g[r])
    BY <1>1, <1>3 DEF u
  <2>2. \A x \in 1 .. n + 1 : x \in 1 .. n \/ x = n + 1
    OBVIOUS
  <2>3. 1 \in Stages /\ n + 1 \in Items(g[1])
    BY <1>1 DEF Stages
  <2>4. QED
    BY <1>10, <2>1, <2>2, <2>3 DEF Whole
<1>11. QED
  BY <1>8, <1>9, <1>10

(* What the display shows next is the frame after those it has shown: none *)
(* is missing and none is in between.                                      *)
LEMMA NextShown ==
  ASSUME NEW f \in [Stages -> Seq(Nat)], NEW n \in Nat, InOrder(f), UpTo(f, n), Whole(f, n),
         NEW p \in Stages, 1 < p, p < 7, f[p] # <<>>, Head(f[p]) # 0,
         \A r \in Stages : p < r /\ r < 7 => f[r] = <<>>
  PROVE  /\ Head(f[p]) \in 1 .. n /\ Len(f[7]) = Head(f[p]) - 1
         /\ Cardinality({k \in DOMAIN f[1] : f[1][k] # 0}) <= n - Head(f[p])
<1> DEFINE s == f[p]
           h == Head(f[p])
           u == f[7]
           w == f[1]
<1>1. /\ s \in Seq(Nat) /\ h \in Nat /\ h # 0 /\ 1 \in DOMAIN s /\ h = s[1] /\ h \in Items(s)
  BY Taken
<1>2. 1 \in Stages /\ 7 \in Stages /\ 7 \in Stages \ {1, 3} /\ 1 < 7
  BY DEF Stages
<1>3. u \in Seq(Nat) /\ w \in Seq(Nat)
  BY <1>2
<1>4. DOMAIN s \subseteq Nat \ {0} /\ Items(s) \subseteq Nat
  BY <1>1, Held
<1>5. h \in 1 .. n
  <2>1. h \in 0 .. n
    BY <1>1 DEF UpTo
  <2>2. QED
    BY <1>1, <2>1
<1> HIDE DEF s, h, u, w
<1>6. \A y \in Items(u) : y < h
  BY <1>1, <1>2 DEF InOrder, s, u
<1>7. \A x \in Items(s) : x # 0 => h <= x
  <2> SUFFICES ASSUME NEW k \in DOMAIN s, s[k] # 0 PROVE h <= s[k]
    BY DEF Items
  <2>1. k \in Nat \ {0} /\ s[k] \in Nat
    BY <1>1, <1>4
  <2>2. CASE k = 1
    BY <1>1, <2>1, <2>2
  <2>3. CASE 1 < k
    <3>1. s[1] < s[k]
      BY <1>1, <2>3 DEF InOrder, s
    <3>2. QED
      BY <1>1, <2>1, <3>1
  <2>4. QED
    BY <2>1, <2>2, <2>3
<1>8. 0 \notin Items(u) /\ Items(u) \subseteq 0 .. n
  BY <1>2 DEF InOrder, UpTo, u
<1>9. Items(u) = 1 .. h - 1
  <2>1. Items(u) \subseteq 1 .. h - 1
    <3>1. \A y \in Items(u) : y \in Nat /\ y # 0 /\ y < h
      BY <1>6, <1>8
    <3>2. \A y \in Nat : y # 0 /\ y < h => y \in 1 .. h - 1
      BY <1>1
    <3>3. QED
      BY <3>1, <3>2
  <2>2. ASSUME NEW y \in 1 .. h - 1 PROVE y \in Items(u)
    <3>1. y \in 1 .. n /\ y # 0 /\ y < h /\ y \in Nat
      BY <1>1, <1>5, <2>2
    <3>2. PICK q \in Stages : y \in Items(f[q])
      BY <3>1 DEF Whole
    <3>3. ~(h <= y)
      BY <1>1, <3>1
    <3>4. CASE q < p
      <4>1. h < y
        BY <1>1, <3>1, <3>2, <3>4 DEF InOrder, s
      <4>2. QED
        BY <1>1, <3>1, <4>1
    <3>5. CASE q = p
      BY <1>7, <3>1, <3>2, <3>3, <3>5 DEF s
    <3>6. CASE p < q /\ q < 7
      <4>1. f[q] = <<>>
        BY <3>6
      <4>2. QED
        BY <3>2, <4>1 DEF Items
    <3>7. CASE q = 7
      BY <3>2, <3>7 DEF u
    <3>8. \A a, b \in Stages : a < b \/ a = b \/ (b < a /\ (a < 7 \/ a = 7))
      BY DEF Stages
    <3>9. QED
      BY <3>4, <3>5, <3>6, <3>7, <3>8
  <2>3. QED
    BY <2>1, <2>2
<1>10. Distinct(u)
  <2> SUFFICES ASSUME NEW i \in DOMAIN u, NEW j \in DOMAIN u, u[i] = u[j] PROVE i = j
    BY DEF Distinct
  <2>1. i \in Nat /\ j \in Nat /\ u[i] \in Nat /\ u[i] # 0
    <3>1. u[i] \in Items(u) /\ i \in Nat /\ j \in Nat
      BY <1>3, Held
    <3>2. QED
      BY <1>8, <3>1
  <2>2. ~(i < j) /\ ~(j < i)
    <3>1. i < j => u[i] < u[j]
      BY <1>2, <2>1 DEF InOrder, u
    <3>2. j < i => u[j] < u[i]
      BY <1>2, <2>1 DEF InOrder, u
    <3>3. QED
      BY <2>1, <3>1, <3>2
  <2>3. QED
    BY <2>1, <2>2
<1>11. Len(u) = h - 1
  <2>1. Cardinality(Items(u)) = Len(u)
    BY <1>3, <1>10, AsLongAsItsItems
  <2>2. Cardinality(1 .. h - 1) = h - 1
    <3>1. 1 \in Int /\ h - 1 \in Int
      BY <1>1
    <3>2. Cardinality(1 .. h - 1) = IF 1 > h - 1 THEN 0 ELSE (h - 1) - 1 + 1
      BY <3>1, FS_Interval
    <3>3. QED
      BY <1>1, <3>2
  <2>3. QED
    BY <1>9, <2>1, <2>2
<1>12. Cardinality({k \in DOMAIN w : w[k] # 0}) <= n - h
  <2> DEFINE K == {k \in DOMAIN w : w[k] # 0}
             T == h + 1 .. n
             g == [k \in K |-> w[k]]
  <2>1. \A k \in K : k \in Nat /\ w[k] \in Nat /\ w[k] \in Items(w) /\ h < w[k] /\ w[k] <= n
    <3>1. \A k \in DOMAIN w : k \in Nat /\ w[k] \in Items(w) /\ w[k] \in Nat
      BY <1>3, Held
    <3>2. \A x \in Items(w) : x # 0 => h < x
      BY <1>1, <1>2 DEF InOrder, s, w
    <3>3. \A x \in Items(w) : x \in 0 .. n
      BY <1>2 DEF UpTo, w
    <3>4. QED
      BY <3>1, <3>2, <3>3
  <2>2. g \in [K -> T]
    BY <1>1, <2>1
  <2>3. \A i, j \in K : g[i] = g[j] => i = j
    <3> SUFFICES ASSUME NEW i \in K, NEW j \in K, w[i] = w[j] PROVE i = j
      OBVIOUS
    <3>1. i < j => w[i] < w[j]
      BY <1>2 DEF InOrder, w
    <3>2. j < i => w[j] < w[i]
      BY <1>2 DEF InOrder, w
    <3>3. QED
      BY <2>1, <3>1, <3>2
  <2>4. IsFiniteSet(T) /\ Cardinality(T) = n - h
    <3>1. h + 1 \in Int /\ n \in Int
      BY <1>1
    <3>2. IsFiniteSet(T) /\ Cardinality(T) = IF h + 1 > n THEN 0 ELSE n - (h + 1) + 1
      BY <3>1, FS_Interval
    <3>3. QED
      BY <1>1, <1>5, <3>2
  <2> HIDE DEF K, T, g
  <2>5. g \in Injection(K, T)
    BY <2>2, <2>3 DEF Injection, IsInjective
  <2>6. Cardinality(K) <= Cardinality(T)
    BY <2>4, <2>5, FS_Injection
  <2>7. QED
    BY <2>4, <2>6 DEF K
<1>13. QED
  BY <1>5, <1>11, <1>12 DEF h, u, w

(* What the decoder takes next is the first of the frames that wait for    *)
(* it, all those of the stream so far that it has not taken yet.           *)
LEMMA NextDecoded ==
  ASSUME NEW f \in [Stages -> Seq(Nat)], NEW n \in Nat, InOrder(f), UpTo(f, n), Whole(f, n),
         f[1] # <<>>, \A k \in DOMAIN f[1] : f[1][k] # 0
  PROVE  /\ Head(f[1]) \in 1 .. n /\ Items(f[1]) = Head(f[1]) .. n
         /\ Len(f[1]) = n - Head(f[1]) + 1
         /\ Items(f[7]) \subseteq 1 .. Head(f[1]) - 1 /\ Cardinality(Items(f[7])) = Len(f[7])
<1> DEFINE h == Head(f[1])
           u == f[7]
           w == f[1]
<1>1. 1 \in Stages /\ 7 \in Stages /\ 7 \in Stages \ {1, 3} /\ 1 < 7 /\ \A q \in Stages : q = 1 \/ 1 < q
  BY DEF Stages
<1>2. u \in Seq(Nat) /\ w \in Seq(Nat)
  BY <1>1
<1>3. /\ h \in Nat /\ 1 \in DOMAIN w /\ h = w[1] /\ h \in Items(w)
  BY <1>2, Taken
<1>4. /\ DOMAIN w \subseteq Nat \ {0} /\ \A k \in DOMAIN w : w[k] \in Nat /\ w[k] # 0
  BY <1>2, Held
<1> HIDE DEF h, u, w
<1>5. Items(w) \subseteq 0 .. n
  BY <1>1 DEF UpTo, w
<1>6. h # 0 /\ h \in 1 .. n
  BY <1>3, <1>4, <1>5
<1>7. \A i, j \in DOMAIN w : i < j => w[i] < w[j]
  BY <1>1, <1>4 DEF InOrder, w
<1>8. \A x \in Items(w) : h <= x
  <2> SUFFICES ASSUME NEW k \in DOMAIN w PROVE h <= w[k]
    BY DEF Items
  <2>1. k = 1 \/ 1 < k
    BY <1>4
  <2>2. QED
    BY <1>3, <1>4, <1>7, <2>1
<1>9. \A q \in Stages, y \in 1 .. n : y \in Items(f[q]) => q = 1 \/ y < h
  BY <1>1, <1>3, <1>6 DEF InOrder, w
<1>10. Items(w) = h .. n
  <2>1. Items(w) \subseteq h .. n
    BY <1>3, <1>5, <1>8
  <2>2. ASSUME NEW y \in h .. n PROVE y \in Items(w)
    <3>1. y \in 1 .. n /\ ~(y < h)
      BY <1>6
    <3>2. PICK q \in Stages : y \in Items(f[q])
      BY <3>1 DEF Whole
    <3>3. q = 1
      BY <1>9, <3>1, <3>2
    <3>4. QED
      BY <3>2, <3>3 DEF w
  <2>3. QED
    BY <2>1, <2>2
<1>11. Distinct(w)
  <2> SUFFICES ASSUME NEW i \in DOMAIN w, NEW j \in DOMAIN w, w[i] = w[j] PROVE i = j
    BY DEF Distinct
  <2>1. (i < j => w[i] < w[j]) /\ (j < i => w[j] < w[i])
    BY <1>7
  <2>2. QED
    BY <1>4, <2>1
<1>12. Len(w) = n - h + 1
  <2>1. Cardinality(Items(w)) = Len(w)
    BY <1>2, <1>11, AsLongAsItsItems
  <2>2. Cardinality(h .. n) = IF h > n THEN 0 ELSE n - h + 1
    <3>1. h \in Int /\ n \in Int
      BY <1>3
    <3>2. QED
      BY <3>1, FS_Interval
  <2>3. QED
    BY <1>6, <1>10, <2>1, <2>2
<1>13. 0 \notin Items(u) /\ Items(u) \subseteq 0 .. n /\ \A y \in Items(u) : y < h
  BY <1>1, <1>3, <1>6 DEF InOrder, UpTo, u, w
<1>14. Items(u) \subseteq 1 .. h - 1
  <2>1. \A y \in Items(u) : y \in Nat /\ y # 0 /\ y < h
    BY <1>13
  <2>2. \A y \in Nat : y # 0 /\ y < h => y \in 1 .. h - 1
    BY <1>3
  <2>3. QED
    BY <2>1, <2>2
<1>15. Distinct(u)
  <2> SUFFICES ASSUME NEW i \in DOMAIN u, NEW j \in DOMAIN u, u[i] = u[j] PROVE i = j
    BY DEF Distinct
  <2>1. i \in Nat /\ j \in Nat /\ u[i] \in Nat /\ u[i] # 0
    <3>1. u[i] \in Items(u) /\ i \in Nat /\ j \in Nat
      BY <1>2, Held
    <3>2. QED
      BY <1>13, <3>1
  <2>2. (i < j => u[i] < u[j]) /\ (j < i => u[j] < u[i])
    BY <1>1, <2>1 DEF InOrder, u
  <2>3. QED
    BY <2>1, <2>2
<1>16. Cardinality(Items(u)) = Len(u)
  BY <1>2, <1>15, AsLongAsItsItems
<1>17. QED
  BY <1>6, <1>10, <1>12, <1>14, <1>16 DEF h, u, w

-----------------------------------------------------------------------------
(* The frames of the buffers in a queue, and of the pairs in a queue of    *)
(* the MFC                                                                 *)
Via(m, s) == [k \in DOMAIN s |-> m[s[k]]]

outFrame == [e \in OutBufs \X Frames |-> e[2]]
capFrame == [e \in CapBufs \X Frames |-> e[2]]

(* The frames in each stage                                                *)
line == [p \in Stages |->
  CASE p = 1 -> Via(outFrame, hwOut)
    [] p = 2 -> Via(capFrame, hwHeld)
    [] p = 3 -> Via(capFrame, hwCapDone)
    [] p = 4 -> IF mfcPc = "add" THEN <<content[mfcN]>> ELSE <<>>
    [] p = 5 -> Via(content, queue)
    [] p = 6 -> IF displayPc = "process" THEN <<content[displayN]>> ELSE <<>>
    [] p = 7 -> shown]

(* A buffer has the picture that the decoder says it has.                  *)
Filled ==
  /\ \A k \in DOMAIN hwHeld : content[hwHeld[k][1]] = hwHeld[k][2]
  /\ \A k \in DOMAIN hwCapDone :
       hwCapDone[k][2] # 0 => content[hwCapDone[k][1]] = hwCapDone[k][2]

(* The parser's buffers, the header's too before the parser starts: those  *)
(* with the MFC are flagged, and are in one place only.                    *)
Given(b) == outFlag[b] \/ (parserPc = "start" /\ b = 0)

OutBuffers ==
  /\ \A k \in DOMAIN hwOut : Given(hwOut[k][1])
  /\ \A k \in DOMAIN hwOutDone : Given(hwOutDone[k])
  /\ \A j, k \in DOMAIN hwOut : hwOut[j][1] = hwOut[k][1] => j = k
  /\ \A j, k \in DOMAIN hwOutDone : hwOutDone[j] = hwOutDone[k] => j = k
  /\ \A j \in DOMAIN hwOut, k \in DOMAIN hwOutDone : hwOut[j][1] # hwOutDone[k]
  /\ \A k \in DOMAIN hwOut : k # 1 => hwOut[k][2] # 0

(* The inductive invariant of the way through the program                  *)
Ordered == InOrder(line) /\ UpTo(line, offs) /\ (faults = 0 => Whole(line, offs))

OrderedNext ==
  InOrder(line') /\ UpTo(line', offs') /\ (faults' = 0 => Whole(line', offs'))

LineInv == Filled /\ OutBuffers /\ Ordered

-----------------------------------------------------------------------------
(* The frames of a queue that loses its first element, or gets one more    *)
LEMMA ViaQueue ==
  ASSUME NEW S, NEW s \in Seq(S), NEW m \in [S -> Nat]
  PROVE  /\ Via(m, s) \in Seq(Nat) /\ DOMAIN Via(m, s) = DOMAIN s /\ Len(Via(m, s)) = Len(s)
         /\ \A k \in DOMAIN s : Via(m, s)[k] = m[s[k]]
         /\ s # <<>> => /\ Via(m, s) # <<>> /\ Head(Via(m, s)) = m[Head(s)]
                        /\ Via(m, Tail(s)) = Tail(Via(m, s))
         /\ \A e \in S : Via(m, Append(s, e)) = Append(Via(m, s), m[e])
<1> DEFINE w == Via(m, s)
<1>1. Len(s) \in Nat /\ DOMAIN s = 1 .. Len(s) /\ \A k \in DOMAIN s : s[k] \in S
  OBVIOUS
<1>2. /\ w \in Seq(Nat) /\ DOMAIN w = 1 .. Len(s) /\ Len(w) = Len(s)
      /\ \A k \in 1 .. Len(s) : w[k] = m[s[k]]
  BY <1>1 DEF Via
<1>3. ASSUME s # <<>>
      PROVE  w # <<>> /\ Head(w) = m[Head(s)] /\ Via(m, Tail(s)) = Tail(w)
  <2>1. Len(s) > 0 /\ 1 \in DOMAIN s /\ Head(s) = s[1]
    BY <1>1, <1>3
  <2>2. w # <<>> /\ Head(w) = w[1]
    BY <1>2, <2>1
  <2> DEFINE t == Tail(s)
             v == Tail(w)
  <2>3. /\ t \in Seq(S) /\ DOMAIN t = 1 .. Len(s) - 1
        /\ \A k \in 1 .. Len(s) - 1 : t[k] = s[k + 1]
    BY <1>1, <1>3
  <2>4. /\ v \in Seq(Nat) /\ DOMAIN v = 1 .. Len(s) - 1
        /\ \A k \in 1 .. Len(s) - 1 : v[k] = w[k + 1]
    BY <1>2, <2>2
  <2>5. \A k \in 1 .. Len(s) - 1 : k + 1 \in 1 .. Len(s)
    BY <1>1
  <2> HIDE DEF t, v, w
  <2>6. \A k \in 1 .. Len(s) - 1 : v[k] = m[t[k]]
    <3> TAKE k \in 1 .. Len(s) - 1
    <3>1. w[k + 1] = m[s[k + 1]]
      BY <1>2, <2>5
    <3>2. v[k] = w[k + 1] /\ t[k] = s[k + 1]
      BY <2>3, <2>4
    <3>3. QED
      BY <3>1, <3>2
  <2>7. v = [k \in 1 .. Len(s) - 1 |-> v[k]]
    BY <2>4
  <2>8. Via(m, t) = v
    BY <2>3, <2>6, <2>7 DEF Via
  <2>9. QED
    BY <1>1, <1>2, <2>1, <2>2, <2>8 DEF t, v
<1>4. ASSUME NEW e \in S
      PROVE  Via(m, Append(s, e)) = Append(w, m[e])
  <2> DEFINE t == Append(s, e)
             v == Append(w, m[e])
  <2>1. /\ DOMAIN t = 1 .. Len(s) + 1 /\ t[Len(s) + 1] = e
        /\ \A k \in 1 .. Len(s) : t[k] = s[k]
    BY <1>1
  <2>2. m[e] \in Nat
    OBVIOUS
  <2> HIDE DEF w
  <2>3. /\ v \in Seq(Nat) /\ DOMAIN v = 1 .. Len(s) + 1 /\ v[Len(s) + 1] = m[e]
        /\ \A k \in 1 .. Len(s) : v[k] = w[k]
    <3>1. w \in Seq(Nat) /\ Len(w) = Len(s) /\ Len(w) \in Nat
      BY <1>1, <1>2
    <3>2. /\ v \in Seq(Nat) /\ DOMAIN v = 1 .. Len(w) + 1 /\ v[Len(w) + 1] = m[e]
          /\ \A k \in 1 .. Len(w) : v[k] = w[k]
      BY <2>2, <3>1
    <3>3. QED
      BY <3>1, <3>2
  <2>4. \A k \in 1 .. Len(s) + 1 : k \in 1 .. Len(s) \/ k = Len(s) + 1
    BY <1>1
  <2> HIDE DEF t, v
  <2>5. \A k \in 1 .. Len(s) + 1 : v[k] = m[t[k]]
    BY <1>2, <2>1, <2>3, <2>4
  <2>6. v = [k \in 1 .. Len(s) + 1 |-> v[k]]
    BY <2>3
  <2>7. Via(m, t) = v
    BY <2>1, <2>5, <2>6 DEF Via
  <2>8. QED
    BY <2>7 DEF t, v
<1>5. QED
  BY <1>1, <1>2, <1>3, <1>4

(* What is in each stage, before                                           *)
LEMMA StagesOf ==
  /\ line[1] = Via(outFrame, hwOut) /\ line[2] = Via(capFrame, hwHeld)
  /\ line[3] = Via(capFrame, hwCapDone)
  /\ line[4] = (IF mfcPc = "add" THEN <<content[mfcN]>> ELSE <<>>)
  /\ line[5] = Via(content, queue)
  /\ line[6] = (IF displayPc = "process" THEN <<content[displayN]>> ELSE <<>>)
  /\ line[7] = shown
  /\ \A p \in Stages : p \in {1, 2, 3, 4, 5, 6, 7}
BY DEF line, Stages

(* and after a step                                                        *)
LEMMA StagesNext ==
  /\ line'[1] = Via(outFrame, hwOut') /\ line'[2] = Via(capFrame, hwHeld')
  /\ line'[3] = Via(capFrame, hwCapDone')
  /\ line'[4] = (IF mfcPc' = "add" THEN <<content'[mfcN']>> ELSE <<>>)
  /\ line'[5] = Via(content', queue')
  /\ line'[6] = (IF displayPc' = "process" THEN <<content'[displayN']>> ELSE <<>>)
  /\ line'[7] = shown'
BY DEF line, Stages, Via, outFrame, capFrame

(* The frames of the pairs in the queues of the MFC are numbers.           *)
LEMMA FrameNumbers ==
  /\ outFrame \in [OutBufs \X Frames -> Nat] /\ capFrame \in [CapBufs \X Frames -> Nat]
  /\ \A e \in OutBufs \X Frames : outFrame[e] = e[2]
  /\ \A e \in CapBufs \X Frames : capFrame[e] = e[2]
  /\ Frames \subseteq Nat
BY DEF outFrame, capFrame, Frames

(* The frames in the OUTPUT queue                                         *)
LEMMA OutQueue ==
  ASSUME NEW s \in Seq(OutBufs \X Frames)
  PROVE  /\ Via(outFrame, s) \in Seq(Nat) /\ DOMAIN Via(outFrame, s) = DOMAIN s
         /\ Len(Via(outFrame, s)) = Len(s) /\ \A k \in DOMAIN s : Via(outFrame, s)[k] = s[k][2]
         /\ s # <<>> => /\ Via(outFrame, s) # <<>> /\ Head(Via(outFrame, s)) = Head(s)[2]
                        /\ Via(outFrame, Tail(s)) = Tail(Via(outFrame, s))
         /\ \A e \in OutBufs \X Frames : Via(outFrame, Append(s, e)) = Append(Via(outFrame, s), e[2])
<1> DEFINE S == OutBufs \X Frames
<1>1. s \in Seq(S) /\ outFrame \in [S -> Nat] /\ \A e \in S : outFrame[e] = e[2]
  BY FrameNumbers
<1> HIDE DEF S
<1>2. /\ Via(outFrame, s) \in Seq(Nat) /\ DOMAIN Via(outFrame, s) = DOMAIN s /\ Len(Via(outFrame, s)) = Len(s)
      /\ \A k \in DOMAIN s : Via(outFrame, s)[k] = outFrame[s[k]]
      /\ s # <<>> => /\ Via(outFrame, s) # <<>> /\ Head(Via(outFrame, s)) = outFrame[Head(s)]
                     /\ Via(outFrame, Tail(s)) = Tail(Via(outFrame, s))
      /\ \A e \in S : Via(outFrame, Append(s, e)) = Append(Via(outFrame, s), outFrame[e])
  BY <1>1, ViaQueue
<1>3. (\A k \in DOMAIN s : s[k] \in S) /\ (s # <<>> => Head(s) \in S)
  BY <1>1
<1>4. QED
  BY <1>1, <1>2, <1>3 DEF S

(* and in a queue of the MFC's pictures                                    *)
LEMMA CapQueue ==
  ASSUME NEW s \in Seq(CapBufs \X Frames)
  PROVE  /\ Via(capFrame, s) \in Seq(Nat) /\ DOMAIN Via(capFrame, s) = DOMAIN s
         /\ Len(Via(capFrame, s)) = Len(s) /\ \A k \in DOMAIN s : Via(capFrame, s)[k] = s[k][2]
         /\ s # <<>> => /\ Via(capFrame, s) # <<>> /\ Head(Via(capFrame, s)) = Head(s)[2]
                        /\ Via(capFrame, Tail(s)) = Tail(Via(capFrame, s))
         /\ \A e \in CapBufs \X Frames : Via(capFrame, Append(s, e)) = Append(Via(capFrame, s), e[2])
<1> DEFINE S == CapBufs \X Frames
<1>1. s \in Seq(S) /\ capFrame \in [S -> Nat] /\ \A e \in S : capFrame[e] = e[2]
  BY FrameNumbers
<1> HIDE DEF S
<1>2. /\ Via(capFrame, s) \in Seq(Nat) /\ DOMAIN Via(capFrame, s) = DOMAIN s /\ Len(Via(capFrame, s)) = Len(s)
      /\ \A k \in DOMAIN s : Via(capFrame, s)[k] = capFrame[s[k]]
      /\ s # <<>> => /\ Via(capFrame, s) # <<>> /\ Head(Via(capFrame, s)) = capFrame[Head(s)]
                     /\ Via(capFrame, Tail(s)) = Tail(Via(capFrame, s))
      /\ \A e \in S : Via(capFrame, Append(s, e)) = Append(Via(capFrame, s), capFrame[e])
  BY <1>1, ViaQueue
<1>3. (\A k \in DOMAIN s : s[k] \in S) /\ (s # <<>> => Head(s) \in S)
  BY <1>1
<1>4. QED
  BY <1>1, <1>2, <1>3 DEF S

(* Every stage is a sequence of frames,                                    *)
LEMMA LineTyped == TypeOK => line \in [Stages -> Seq(Nat)] /\ content \in [CapBufs -> Nat]
<1> SUFFICES ASSUME TypeOK PROVE line \in [Stages -> Seq(Nat)] /\ content \in [CapBufs -> Nat]
  OBVIOUS
<1>1. content \in [CapBufs -> Nat]
  BY FrameNumbers DEF TypeOK
<1>2. /\ hwOut \in Seq(OutBufs \X Frames) /\ hwHeld \in Seq(CapBufs \X Frames)
      /\ hwCapDone \in Seq(CapBufs \X Frames) /\ queue \in Seq(CapBufs) /\ shown \in Seq(Frames)
      /\ mfcN \in CapBufs /\ displayN \in CapBufs
  BY DEF TypeOK
<1>3. Via(outFrame, hwOut) \in Seq(Nat)
  BY <1>2, FrameNumbers, ViaQueue
<1>4. Via(capFrame, hwHeld) \in Seq(Nat) /\ Via(capFrame, hwCapDone) \in Seq(Nat)
  BY <1>2, FrameNumbers, ViaQueue
<1>5. Via(content, queue) \in Seq(Nat)
  BY <1>1, <1>2, ViaQueue
<1>6. shown \in Seq(Nat)
  <2>1. Len(shown) \in Nat /\ DOMAIN shown = 1 .. Len(shown) /\ shown \in [1 .. Len(shown) -> Frames]
    BY <1>2
  <2>2. shown \in [1 .. Len(shown) -> Nat]
    BY <2>1, FrameNumbers
  <2>3. QED
    BY <2>1, <2>2
<1>7. <<>> \in Seq(Nat) /\ <<content[mfcN]>> \in Seq(Nat) /\ <<content[displayN]>> \in Seq(Nat)
  BY <1>1, <1>2
<1>8. \A p \in Stages : line[p] \in Seq(Nat)
  BY <1>3, <1>4, <1>5, <1>6, <1>7, StagesOf
<1>9. QED
  BY <1>1, <1>8 DEF line

(* A step that leaves every frame where it is                              *)
LEMMA LineStays ==
  ASSUME Ordered, offs' = offs, faults' = 0 => faults = 0,
         UNCHANGED <<hwOut, hwHeld, hwCapDone, queue, content, shown>>,
         UNCHANGED <<mfcPc, mfcN>> \/ (mfcPc # "add" /\ mfcPc' # "add"),
         UNCHANGED <<displayPc, displayN>> \/ (displayPc # "process" /\ displayPc' # "process")
  PROVE  OrderedNext
<1>1. \A p \in {1, 2, 3, 4, 5, 6, 7} : line'[p] = line[p]
  <2>1. line'[4] = line[4]
    BY StagesOf, StagesNext
  <2>2. line'[6] = line[6]
    BY StagesOf, StagesNext
  <2>3. /\ line'[1] = line[1] /\ line'[2] = line[2] /\ line'[3] = line[3] /\ line'[5] = line[5]
        /\ line'[7] = line[7]
    BY StagesOf, StagesNext
  <2>4. QED
    BY <2>1, <2>2, <2>3
<1>2. \A p \in Stages : line'[p] = line[p]
  BY <1>1, StagesOf
<1>3. InOrder(line')
  BY <1>2 DEF Ordered, InOrder
<1>4. UpTo(line', offs')
  BY <1>2 DEF Ordered, UpTo
<1>5. faults' = 0 => Whole(line', offs')
  BY <1>2 DEF Ordered, Whole
<1>6. QED
  BY <1>3, <1>4, <1>5 DEF OrderedNext

(* after a step too.                                                       *)
LEMMA LineTypedNext == TypeOK' => line' \in [Stages -> Seq(Nat)] /\ content' \in [CapBufs -> Nat]
<1>1. (TypeOK => line \in [Stages -> Seq(Nat)] /\ content \in [CapBufs -> Nat])'
  BY LineTyped, PTL
<1>2. QED
  BY <1>1

(* A call that failed is not forgotten.                                    *)
LEMMA FaultsStay == TypeOK /\ TypeOK' /\ [Next]_vars /\ faults' = 0 => faults = 0
<1> SUFFICES ASSUME TypeOK, TypeOK', [Next]_vars, faults' = 0 PROVE faults = 0
  OBVIOUS
<1>1. faults \in Nat /\ (Fault => faults' = faults + 1)
  BY DecoderAssumption DEF TypeOK, Fault
<1>2. faults' = faults \/ Fault
  <2>1. CASE UNCHANGED vars
    BY <2>1 DEF vars
  <2>2. CASE parser_thread_func
    BY <2>2 DEF parser_thread_func, ParserStart, ParserTest, ParserStop, ParserQueue,
                ParserDequeue, ParserDequeueFails, mfc_dec_stop
  <2>3. CASE mfc_thread_func
    BY <2>3 DEF mfc_thread_func, MfcTest, MfcNeedBuffer, MfcWaitAny, MfcPick, MfcPickSpare,
                MfcWaitSpare, MfcQueue, MfcNoSpare, MfcDequeue, MfcFinish, MfcDequeueFails,
                MfcAdd, MfcPost
  <2>4. CASE display_thread_func
    BY <2>4 DEF display_thread_func, DisplayTest, DisplayWait, DisplayRemove, ShowFrame,
                ProcessFails, DisplayFree, DisplayPost
  <2>5. CASE main
    BY <2>5 DEF main
  <2>6. CASE Mfc
    BY <2>6 DEF Mfc, HwHeader, HwDecode, HwOutput, HwDrained, hwRest
  <2>7. QED
    BY <2>1, <2>2, <2>3, <2>4, <2>5, <2>6 DEF Next
<1>3. QED
  BY <1>1, <1>2

(* The parser puts the next frame behind all others, or loses it.          *)
LEMMA ParserOrder ==
  ASSUME TypeOK, TypeOK', Ordered, faults' = 0 => faults = 0, parser_thread_func
  PROVE  OrderedNext
<1>1. UNCHANGED <<hwHeld, hwCapDone, queue, content, shown, mfcPc, mfcN, displayPc, displayN>>
  BY DEF parser_thread_func, ParserStart, ParserTest, ParserStop, ParserQueue, ParserDequeue,
         ParserDequeueFails, parserRest, mfcVars, syncVars, displayVars, hwCapVars
<1>2. CASE UNCHANGED <<hwOut, offs>>
  BY <1>1, <1>2, LineStays
<1>3. CASE ParserQueue
  <2>1. PICK b \in OutBufs : \/ hwOut' = Append(hwOut, <<b, offs + 1>>) /\ UNCHANGED faults
                             \/ Fault /\ UNCHANGED hwOut
    BY <1>3 DEF ParserQueue
  <2>2. offs' = offs + 1 /\ offs \in Nat /\ offs + 1 \in Frames /\ <<b, offs + 1>> \in OutBufs \X Frames
        /\ hwOut \in Seq(OutBufs \X Frames) /\ faults \in Nat
    <3>1. hwOut \in Seq(OutBufs \X Frames) /\ faults \in Nat /\ offs \in 0 .. NFrames
      BY DecoderAssumption DEF TypeOK, Frames
    <3>2. offs' = offs + 1 /\ offs < NFrames
      BY <1>3 DEF ParserQueue
    <3>3. offs \in Nat /\ offs + 1 \in Frames
      BY <3>1, <3>2, DecoderAssumption DEF Frames
    <3>4. QED
      BY <3>1, <3>2, <3>3
  <2>3. CASE hwOut' = Append(hwOut, <<b, offs + 1>>)
    <3>1. line \in [Stages -> Seq(Nat)] /\ line' \in [Stages -> Seq(Nat)]
      BY LineTyped, LineTypedNext
    <3>2. Via(outFrame, hwOut') = Append(Via(outFrame, hwOut), offs + 1)
      BY <2>2, <2>3, OutQueue
    <3>4. \A r \in Stages : line'[r] = IF r = 1 THEN Append(line[1], offs + 1) ELSE line[r]
      BY <1>1, <3>2, StagesOf, StagesNext
    <3>5. /\ InOrder(line') /\ UpTo(line', offs + 1)
          /\ Whole(line, offs) => Whole(line', offs + 1)
      BY <2>2, <3>1, <3>4, NextFrameIn DEF Ordered
    <3>6. QED
      BY <2>2, <3>5 DEF OrderedNext, Ordered
  <2>4. CASE Fault /\ UNCHANGED hwOut
    <3>1. faults' # 0
      BY <2>2, <2>4 DEF Fault
    <3>2. \A p \in Stages : line'[p] = line[p]
      BY <1>1, <2>4, StagesOf, StagesNext
    <3>3. InOrder(line')
      BY <3>2 DEF Ordered, InOrder
    <3>4. 0 .. offs \subseteq 0 .. offs + 1
      BY <2>2
    <3>5. UpTo(line', offs')
      BY <2>2, <3>2, <3>4 DEF Ordered, UpTo
    <3>6. QED
      BY <3>1, <3>3, <3>5 DEF OrderedNext
  <2>5. QED
    BY <2>1, <2>3, <2>4
<1>4. QED
  BY <1>2, <1>3 DEF parser_thread_func, ParserStart, ParserTest, ParserStop, ParserDequeue,
                    ParserDequeueFails, parserRest, hwOutVars

(* A frame goes one stage further on, or past stages that are empty.       *)
LEMMA FrameMoves ==
  ASSUME TypeOK, TypeOK', Ordered, faults' = 0 => faults = 0, offs' = offs,
         NEW p \in Stages, NEW q \in Stages, GoesOn(line, line', p, q)
  PROVE  OrderedNext
<1>1. line \in [Stages -> Seq(Nat)] /\ line' \in [Stages -> Seq(Nat)] /\ offs \in Nat
  <2>1. offs \in Nat
    BY DEF TypeOK, Frames
  <2>2. QED
    BY <2>1, LineTyped, LineTypedNext
<1>2. InOrder(line) /\ UpTo(line, offs)
  BY DEF Ordered
<1>3. InOrder(line') /\ UpTo(line', offs) /\ (Whole(line, offs) => Whole(line', offs))
  BY <1>1, <1>2, FirstMoved
<1>4. QED
  BY <1>3 DEF OrderedNext, Ordered

(* A frame is dropped: the header, the empty picture or, when a call has   *)
(* failed, any.                                                            *)
LEMMA FrameDropped ==
  ASSUME TypeOK, TypeOK', Ordered, faults' = 0 => faults = 0, offs' = offs,
         NEW p \in Stages, line[p] # <<>>, Head(line[p]) = 0 \/ faults' # 0,
         \A r \in Stages : line'[r] = IF r = p THEN Tail(line[p]) ELSE line[r]
  PROVE  OrderedNext
<1>1. line \in [Stages -> Seq(Nat)] /\ line' \in [Stages -> Seq(Nat)] /\ offs \in Nat
  <2>1. offs \in Nat
    BY DEF TypeOK, Frames
  <2>2. QED
    BY <2>1, LineTyped, LineTypedNext
<1>2. InOrder(line) /\ UpTo(line, offs)
  BY DEF Ordered
<1>3. /\ InOrder(line') /\ UpTo(line', offs)
      /\ Head(line[p]) = 0 /\ Whole(line, offs) => Whole(line', offs)
  BY <1>1, <1>2, FirstDropped
<1>4. QED
  BY <1>3 DEF OrderedNext, Ordered

(* No frame that was not dropped is the header's or the empty picture's.   *)
LEMMA FirstIsFrame ==
  ASSUME TypeOK, Ordered, NEW p \in Stages \ {1, 3}, line[p] # <<>>
  PROVE  Head(line[p]) # 0
<1>1. line[p] \in Seq(Nat)
  BY LineTyped
<1>2. Head(line[p]) \in Items(line[p])
  BY <1>1, Taken
<1>3. QED
  BY <1>2 DEF Ordered, InOrder

(* Without a display thread nothing is on its way to it.                   *)
LEMMA NothingQueued ==
  ASSUME IInv, Display = "none"
  PROVE  queue = <<>> /\ displayPc = "exit" /\ line[5] = <<>> /\ line[6] = <<>>
<1>1. queue \in Seq(CapBufs) /\ displayPc = "exit" /\ \A b \in CapBufs : capFlag[b] # BUF_FIMC
  BY DEF IInv, TypeOK, NoDisplayThread
<1>2. queue = <<>>
  <2> SUFFICES ASSUME queue # <<>> PROVE FALSE
    OBVIOUS
  <2>1. 1 \in DOMAIN queue /\ queue[1] \in CapBufs
    BY <1>1
  <2>2. capFlag[queue[1]] = BUF_FIMC
    BY <2>1 DEF IInv, FlagsMatchQueues
  <2>3. QED
    BY <1>1, <2>1, <2>2
<1>3. line[5] = <<>>
  <2>1. content \in [CapBufs -> Nat]
    BY LineTyped DEF IInv
  <2>2. Via(content, queue) \in Seq(Nat) /\ Len(Via(content, queue)) = Len(queue)
    BY <1>1, <2>1, ViaQueue
  <2>3. Len(queue) = 0
    BY <1>2
  <2>4. QED
    BY <2>2, <2>3, StagesOf
<1>4. QED
  BY <1>1, <1>2, <1>3, StagesOf

(* The MFC thread takes a picture from the decoder and hands it on.        *)
LEMMA MfcThreadOrder ==
  ASSUME IInv, TypeOK', Filled, Ordered, faults' = 0 => faults = 0, mfc_thread_func
  PROVE  OrderedNext
<1>1. UNCHANGED <<hwOut, hwHeld, content, offs, displayPc, displayN>>
  BY DEF mfc_thread_func, MfcTest, MfcNeedBuffer, MfcWaitAny, MfcPick, MfcPickSpare,
         MfcWaitSpare, MfcQueue, MfcNoSpare, MfcDequeue, MfcFinish, MfcDequeueFails, MfcAdd,
         MfcPost, mfcControl, mfcRest, parserVars, hwOutVars
<1>2. TypeOK
  BY DEF IInv
<1>3. CASE MfcDequeue
  <2> DEFINE h == Head(hwCapDone)
  <2>1. /\ hwCapDone # <<>> /\ h[2] # 0 /\ mfcPc = "dequeue" /\ mfcN' = h[1]
        /\ shown' = (IF Display = "none" THEN Append(shown, content[h[1]]) ELSE shown)
        /\ mfcPc' = (IF Display = "none" THEN "test" ELSE "add")
        /\ hwCapDone' = Tail(hwCapDone) /\ queue' = queue
    BY <1>3 DEF MfcDequeue, syncVars
  <2>2. hwCapDone \in Seq(CapBufs \X Frames)
    BY <1>2 DEF TypeOK
  <2>3. content[h[1]] = h[2]
    <3>1. 1 \in DOMAIN hwCapDone /\ h = hwCapDone[1]
      BY <2>1, <2>2, TailIndex
    <3>2. QED
      BY <2>1, <3>1 DEF Filled
  <2> HIDE DEF h
  <2>4. line[3] # <<>> /\ Head(line[3]) = h[2] /\ line'[3] = Tail(line[3])
    BY <2>1, <2>2, CapQueue, StagesOf, StagesNext DEF h
  <2>5. /\ line'[1] = line[1] /\ line'[2] = line[2] /\ line'[5] = line[5] /\ line'[6] = line[6]
        /\ line[4] = <<>>
    BY <1>1, <2>1, StagesOf, StagesNext
  <2>6. CASE Display = "none"
    <3>1. line[5] = <<>> /\ line[6] = <<>>
      BY <2>6, NothingQueued
    <3>2. line'[7] = Append(line[7], h[2]) /\ line'[4] = <<>>
      BY <2>1, <2>3, <2>6, StagesOf, StagesNext
    <3>3. \A r \in Stages : line'[r] = IF r = 3 THEN Tail(line[3])
                                       ELSE IF r = 7 THEN Append(line[7], Head(line[3])) ELSE line[r]
      BY <2>4, <2>5, <3>2, StagesOf
    <3>4. \A r \in Stages : 3 < r /\ r < 7 => line[r] = <<>>
      BY <2>5, <3>1, StagesOf
    <3>5. 3 \in Stages /\ 7 \in Stages /\ GoesOn(line, line', 3, 7)
      BY <2>1, <2>4, <3>3, <3>4 DEF GoesOn, Stages
    <3>6. QED
      BY <1>1, <1>2, <3>5, FrameMoves
  <2>7. CASE Display # "none"
    <3>1. line'[4] = <<h[2]>> /\ line'[7] = line[7]
      BY <1>1, <2>1, <2>3, <2>7, StagesOf, StagesNext
    <3>2. line'[4] = Append(line[4], Head(line[3]))
      BY <2>4, <2>5, <3>1
    <3>3. \A r \in Stages : line'[r] = IF r = 3 THEN Tail(line[3])
                                       ELSE IF r = 4 THEN Append(line[4], Head(line[3])) ELSE line[r]
      BY <2>4, <2>5, <3>1, <3>2, StagesOf
    <3>4. \A r \in Stages : ~(3 < r /\ r < 4)
      BY DEF Stages
    <3>5. 3 \in Stages /\ 4 \in Stages /\ GoesOn(line, line', 3, 4)
      BY <2>1, <2>4, <3>3, <3>4 DEF GoesOn, Stages
    <3>6. QED
      BY <1>1, <1>2, <3>5, FrameMoves
  <2>8. QED
    BY <2>6, <2>7
<1>4. CASE MfcAdd
  <2>1. /\ mfcPc = "add" /\ mfcPc' = "post" /\ UNCHANGED <<hwCapDone, shown>>
        /\ queue' = queue_add(queue, mfcN)
    BY <1>4 DEF MfcAdd, mfcControl
  <2>2. queue \in Seq(CapBufs) /\ mfcN \in CapBufs /\ FlagsMatchQueues
        /\ \A k \in DOMAIN queue : queue[k] # mfcN
    BY <1>2, <2>1 DEF IInv, TypeOK, ThreadsHold
  <2>3. queue' = Append(queue, mfcN)
    <3>1. Len(queue) < QueueSize
      BY <1>2, <2>2, QueueHasRoom
    <3>2. QED
      BY <2>1, <3>1 DEF queue_add
  <2>4. content \in [CapBufs -> Nat] /\ content[mfcN] \in Nat
    BY <1>2, <2>2, LineTyped
  <2>5. Via(content, queue') = Append(Via(content, queue), content[mfcN])
    BY <2>2, <2>3, <2>4, ViaQueue
  <2>6. line'[5] = Append(line[5], content[mfcN]) /\ line[4] = <<content[mfcN]>> /\ line'[4] = <<>>
    BY <1>1, <2>1, <2>5, StagesOf, StagesNext
  <2>7. line[4] # <<>> /\ Head(line[4]) = content[mfcN] /\ line'[4] = Tail(line[4])
    BY <2>4, <2>6
  <2>8. /\ line'[1] = line[1] /\ line'[2] = line[2] /\ line'[3] = line[3] /\ line'[6] = line[6]
        /\ line'[7] = line[7]
    BY <1>1, <2>1, StagesOf, StagesNext
  <2>9. 4 \in Stages /\ 5 \in Stages /\ 4 \in Stages \ {1, 3} /\ \A r \in Stages : ~(4 < r /\ r < 5)
    BY DEF Stages
  <2>10. Head(line[4]) # 0
    BY <1>2, <2>7, <2>9, FirstIsFrame
  <2>11. \A r \in Stages : line'[r] = IF r = 4 THEN Tail(line[4])
                                      ELSE IF r = 5 THEN Append(line[5], Head(line[4])) ELSE line[r]
    BY <2>6, <2>7, <2>8, StagesOf
  <2>12. GoesOn(line, line', 4, 5)
    BY <2>7, <2>9, <2>10, <2>11 DEF GoesOn
  <2>13. QED
    BY <1>1, <1>2, <2>9, <2>12, FrameMoves
<1>5. CASE MfcFinish
  <2>1. /\ hwCapDone # <<>> /\ Head(hwCapDone)[2] = 0 /\ mfcPc = "dequeue" /\ mfcPc' = "exit"
        /\ hwCapDone' = Tail(hwCapDone) /\ UNCHANGED <<queue, shown>>
    BY <1>5 DEF MfcFinish, syncVars
  <2>2. hwCapDone \in Seq(CapBufs \X Frames)
    BY <1>2 DEF TypeOK
  <2>3. line[3] # <<>> /\ Head(line[3]) = 0 /\ line'[3] = Tail(line[3])
    BY <2>1, <2>2, CapQueue, StagesOf, StagesNext
  <2>4. /\ line'[1] = line[1] /\ line'[2] = line[2] /\ line'[4] = line[4] /\ line'[5] = line[5]
        /\ line'[6] = line[6] /\ line'[7] = line[7]
    BY <1>1, <2>1, StagesOf, StagesNext
  <2>5. 3 \in Stages /\ \A r \in Stages : line'[r] = IF r = 3 THEN Tail(line[3]) ELSE line[r]
    BY <2>3, <2>4, StagesOf DEF Stages
  <2>6. QED
    BY <1>1, <1>2, <2>3, <2>5, FrameDropped
<1>6. CASE UNCHANGED <<hwCapDone, queue, shown>> /\ mfcPc # "add" /\ mfcPc' # "add"
  BY <1>1, <1>6, LineStays
<1>7. QED
  BY <1>3, <1>4, <1>5, <1>6
  DEF mfc_thread_func, MfcTest, MfcNeedBuffer, MfcWaitAny, MfcPick, MfcPickSpare, MfcWaitSpare,
      MfcQueue, MfcNoSpare, MfcDequeueFails, MfcPost, mfcControl, syncVars, AfterPickSpare

(* The display thread takes one from its queue and shows it, or loses it   *)
(* when a call fails.                                                      *)
LEMMA DisplayOrder ==
  ASSUME IInv, TypeOK', Ordered, faults' = 0 => faults = 0, display_thread_func
  PROVE  OrderedNext
<1>1. UNCHANGED <<hwOut, hwHeld, hwCapDone, content, offs, mfcPc, mfcN>>
  BY DEF display_thread_func, DisplayTest, DisplayWait, DisplayRemove, ShowFrame, ProcessFails,
         DisplayFree, DisplayPost, displayRest, parserVars, mfcVars, hwOutVars, hwCapVars
<1>2. TypeOK
  BY DEF IInv
<1>3. content \in [CapBufs -> Nat] /\ displayN \in CapBufs /\ queue \in Seq(CapBufs)
  BY <1>2, LineTyped DEF TypeOK
<1>4. CASE DisplayRemove
  <2>1. queue # <<>> /\ displayPc = "remove"
    BY <1>2, <1>4 DEF IInv, NoDisplayThread, SemaphoresCountBuffers, DisplayRemove, One, TypeOK
  <2>2. capFlag[Head(queue)] = BUF_FIMC
    <3>1. Head(queue) = queue[1] /\ 1 \in DOMAIN queue
      BY <1>3, <2>1, TailIndex
    <3>2. QED
      BY <3>1 DEF IInv, FlagsMatchQueues
  <2>3. /\ displayPc' = "process" /\ displayN' = Head(queue) /\ queue' = Tail(queue)
        /\ shown' = shown
    BY <1>4, <2>1, <2>2 DEF DisplayRemove
  <2>4. /\ Via(content, queue) # <<>> /\ Head(Via(content, queue)) = content[Head(queue)]
        /\ Via(content, queue') = Tail(Via(content, queue))
    BY <1>3, <2>1, <2>3, ViaQueue
  <2>5. line[5] # <<>> /\ Head(line[5]) = content[Head(queue)] /\ line'[5] = Tail(line[5])
    BY <1>1, <2>4, StagesOf, StagesNext
  <2>6. line[6] = <<>> /\ line'[6] = <<content[Head(queue)]>>
    BY <1>1, <2>1, <2>3, StagesOf, StagesNext
  <2>7. line'[6] = Append(line[6], Head(line[5]))
    BY <2>5, <2>6
  <2>8. /\ line'[1] = line[1] /\ line'[2] = line[2] /\ line'[3] = line[3] /\ line'[4] = line[4]
        /\ line'[7] = line[7]
    BY <1>1, <2>3, StagesOf, StagesNext
  <2>9. 5 \in Stages /\ 6 \in Stages /\ 5 \in Stages \ {1, 3} /\ \A r \in Stages : ~(5 < r /\ r < 6)
    BY DEF Stages
  <2>10. Head(line[5]) # 0
    BY <1>2, <2>5, <2>9, FirstIsFrame
  <2>11. \A r \in Stages : line'[r] = IF r = 5 THEN Tail(line[5])
                                      ELSE IF r = 6 THEN Append(line[6], Head(line[5])) ELSE line[r]
    BY <2>5, <2>7, <2>8, StagesOf
  <2>12. GoesOn(line, line', 5, 6)
    BY <2>5, <2>9, <2>10, <2>11 DEF GoesOn
  <2>13. QED
    BY <1>1, <1>2, <2>9, <2>12, FrameMoves
<1>5. ASSUME displayPc = "process", displayPc' # "process", UNCHANGED queue
      PROVE  /\ line[6] = <<content[displayN]>> /\ line[6] # <<>> /\ Head(line[6]) = content[displayN]
             /\ line'[6] = Tail(line[6]) /\ line'[1] = line[1] /\ line'[2] = line[2]
             /\ line'[3] = line[3] /\ line'[4] = line[4] /\ line'[5] = line[5]
             /\ 6 \in Stages /\ 6 \in Stages \ {1, 3}
  <2>1. line[6] = <<content[displayN]>> /\ line'[6] = <<>> /\ content[displayN] \in Nat
    BY <1>3, <1>5, StagesOf, StagesNext
  <2>2. line[6] # <<>> /\ Head(line[6]) = content[displayN] /\ line'[6] = Tail(line[6])
    BY <2>1
  <2>3. /\ line'[1] = line[1] /\ line'[2] = line[2] /\ line'[3] = line[3] /\ line'[4] = line[4]
        /\ line'[5] = line[5]
    BY <1>1, <1>5, StagesOf, StagesNext
  <2>4. QED
    BY <2>1, <2>2, <2>3 DEF Stages
<1>6. CASE ShowFrame
  <2>1. /\ displayPc = "process" /\ displayPc' = "free" /\ UNCHANGED queue
        /\ shown' = Append(shown, content[displayN])
    BY <1>6 DEF ShowFrame, syncVars
  <2>2. /\ line[6] # <<>> /\ Head(line[6]) = content[displayN] /\ line'[6] = Tail(line[6])
        /\ line'[1] = line[1] /\ line'[2] = line[2] /\ line'[3] = line[3] /\ line'[4] = line[4]
        /\ line'[5] = line[5] /\ 6 \in Stages /\ 6 \in Stages \ {1, 3}
    BY <1>5, <2>1
  <2>3. line'[7] = Append(line[7], Head(line[6]))
    BY <2>1, <2>2, StagesOf, StagesNext
  <2>4. Head(line[6]) # 0
    BY <1>2, <2>2, FirstIsFrame
  <2>5. \A r \in Stages : line'[r] = IF r = 6 THEN Tail(line[6])
                                     ELSE IF r = 7 THEN Append(line[7], Head(line[6])) ELSE line[r]
    BY <2>2, <2>3, StagesOf
  <2>6. 7 \in Stages /\ \A r \in Stages : ~(6 < r /\ r < 7)
    BY DEF Stages
  <2>7. GoesOn(line, line', 6, 7)
    BY <2>2, <2>4, <2>5, <2>6 DEF GoesOn
  <2>8. QED
    BY <1>1, <1>2, <2>2, <2>6, <2>7, FrameMoves
<1>7. CASE ProcessFails
  <2>1. displayPc = "process" /\ displayPc' = "exit" /\ UNCHANGED <<queue, shown>> /\ faults' # 0
    <3>1. faults \in Nat /\ faults' = faults + 1
      BY <1>2, <1>7, DecoderAssumption DEF ProcessFails, Fault, TypeOK
    <3>2. QED
      BY <1>7, <3>1 DEF ProcessFails, syncVars
  <2>2. /\ line[6] # <<>> /\ line'[6] = Tail(line[6])
        /\ line'[1] = line[1] /\ line'[2] = line[2] /\ line'[3] = line[3] /\ line'[4] = line[4]
        /\ line'[5] = line[5] /\ 6 \in Stages
    BY <1>5, <2>1
  <2>3. line'[7] = line[7]
    BY <2>1, StagesOf, StagesNext
  <2>4. \A r \in Stages : line'[r] = IF r = 6 THEN Tail(line[6]) ELSE line[r]
    BY <2>2, <2>3, StagesOf
  <2>5. QED
    BY <1>1, <1>2, <2>1, <2>2, <2>4, FrameDropped
<1>8. CASE UNCHANGED <<queue, shown>> /\ displayPc # "process" /\ displayPc' # "process"
  BY <1>1, <1>8, LineStays
<1>9. QED
  BY <1>4, <1>6, <1>7, <1>8
  DEF display_thread_func, DisplayTest, DisplayWait, DisplayFree, DisplayPost, syncVars

(* A buffer that the decoder may write is in none of the other stages.     *)
LEMMA WrittenApart ==
  ASSUME IInv, NEW b \in hwCap
  PROVE  /\ b \in CapBufs /\ capFlag[b] = BUF_MFC
         /\ \A k \in DOMAIN hwHeld : hwHeld[k][1] # b
         /\ \A k \in DOMAIN hwCapDone : hwCapDone[k][1] # b
         /\ \A k \in DOMAIN queue : queue[k] # b
         /\ mfcPc = "add" => mfcN # b
         /\ displayPc = "process" => displayN # b
<1>1. b \in CapBufs /\ capFlag[b] = BUF_MFC
  BY DEF IInv, TypeOK, ExclusiveOwnership, DriverBufs
<1>2. BUF_MFC # BUF_FIMC
  BY DEF BUF_MFC, BUF_FIMC
<1>3. \A k \in DOMAIN queue : queue[k] # b
  BY <1>1, <1>2 DEF IInv, FlagsMatchQueues
<1>4. (mfcPc = "add" => mfcN # b) /\ (displayPc = "process" => displayN # b)
  BY <1>1, <1>2 DEF IInv, ThreadsHold, ExclusiveOwnership
<1>5. /\ \A k \in DOMAIN hwHeld : hwHeld[k][1] # b
      /\ \A k \in DOMAIN hwCapDone : hwCapDone[k][1] # b
  BY DEF IInv, DriverDistinct
<1>6. QED
  BY <1>1, <1>3, <1>4, <1>5

(* The decoder takes frames in the order they were queued, and gives back  *)
(* pictures in the order of their frames.                                  *)
LEMMA MfcOrder ==
  ASSUME IInv, TypeOK', Ordered, faults' = 0 => faults = 0, Mfc
  PROVE  OrderedNext
<1>1. UNCHANGED <<offs, queue, shown, mfcPc, mfcN, displayPc, displayN>>
  BY DEF Mfc, HwHeader, HwDecode, HwOutput, HwDrained, hwRest, parserVars, mfcVars, syncVars,
         displayVars
<1>2. /\ TypeOK /\ hwOut \in Seq(OutBufs \X Frames) /\ hwHeld \in Seq(CapBufs \X Frames)
      /\ hwCapDone \in Seq(CapBufs \X Frames)
  BY DEF IInv, TypeOK
<1>3. /\ 1 \in Stages /\ 2 \in Stages /\ 3 \in Stages /\ 2 \in Stages \ {1, 3}
      /\ \A r \in Stages : ~(1 < r /\ r < 2) /\ ~(2 < r /\ r < 3)
  BY DEF Stages
<1>4. UNCHANGED content => line'[4] = line[4] /\ line'[5] = line[5] /\ line'[6] = line[6] /\ line'[7] = line[7]
  BY <1>1, StagesOf, StagesNext
<1>5. CASE HwHeader
  <2>1. /\ hwOut # <<>> /\ Head(hwOut)[2] = 0 /\ hwOut' = Tail(hwOut)
        /\ UNCHANGED <<hwHeld, hwCapDone, content>>
    <3>1. hwOut # <<>> => Head(hwOut) = hwOut[1]
      BY <1>2, TailIndex
    <3>2. QED
      BY <1>5, <3>1 DEF HwHeader, HeaderNext, ConsumeOut, hwCapVars
  <2>2. line[1] # <<>> /\ Head(line[1]) = 0 /\ line'[1] = Tail(line[1])
    BY <1>2, <2>1, OutQueue, StagesOf, StagesNext
  <2>3. line'[2] = line[2] /\ line'[3] = line[3]
    BY <2>1, StagesOf, StagesNext
  <2>4. \A r \in Stages : line'[r] = IF r = 1 THEN Tail(line[1]) ELSE line[r]
    BY <1>4, <2>1, <2>2, <2>3, StagesOf
  <2>5. QED
    BY <1>1, <1>2, <1>3, <2>2, <2>4, FrameDropped
<1>6. CASE HwDecode
  <2> DEFINE n == Head(hwOut)[2]
  <2>1. PICK b \in hwCap : /\ content' = [content EXCEPT ![b] = n]
                           /\ hwHeld' = Append(hwHeld, <<b, n>>)
    BY <1>6 DEF HwDecode
  <2>2. hwOut # <<>> /\ n # 0 /\ hwOut' = Tail(hwOut) /\ hwCapDone' = hwCapDone /\ n \in Frames
    <3>1. hwOut # <<>> => Head(hwOut) = hwOut[1] /\ Head(hwOut) \in OutBufs \X Frames
      BY <1>2, TailIndex
    <3>2. QED
      BY <1>6, <3>1 DEF HwDecode, HeaderNext, ConsumeOut
  <2>3. <<b, n>> \in CapBufs \X Frames
    BY <2>2, WrittenApart
  <2> HIDE DEF n
  <2>4. line[1] # <<>> /\ Head(line[1]) = n /\ line'[1] = Tail(line[1])
    BY <1>2, <2>2, OutQueue, StagesOf, StagesNext DEF n
  <2>5. line'[2] = Append(line[2], n)
    <3>1. Via(capFrame, hwHeld') = Append(Via(capFrame, hwHeld), n)
      BY <1>2, <2>1, <2>3, CapQueue
    <3>2. QED
      BY <3>1, StagesOf, StagesNext
  <2>6. /\ \A k \in DOMAIN queue : content'[queue[k]] = content[queue[k]]
        /\ mfcPc = "add" => content'[mfcN] = content[mfcN]
        /\ displayPc = "process" => content'[displayN] = content[displayN]
    <3>1. content \in [CapBufs -> Frames] /\ \A c \in CapBufs : c # b => content'[c] = content[c]
      BY <1>2, <2>1 DEF TypeOK
    <3>2. mfcN \in CapBufs /\ displayN \in CapBufs /\ \A k \in DOMAIN queue : queue[k] \in CapBufs
      BY <1>2, SMTT(30) DEF TypeOK
    <3>3. QED
      BY <3>1, <3>2, WrittenApart
  <2>7. line'[5] = line[5]
    <3>1. Via(content', queue') = Via(content, queue)
      BY <1>1, <2>6 DEF Via
    <3>2. QED
      BY <3>1, StagesOf, StagesNext
  <2>8. line'[3] = line[3] /\ line'[4] = line[4] /\ line'[6] = line[6] /\ line'[7] = line[7]
    BY <1>1, <2>2, <2>6, StagesOf, StagesNext
  <2>9. \A r \in Stages : line'[r] = IF r = 1 THEN Tail(line[1])
                                     ELSE IF r = 2 THEN Append(line[2], Head(line[1])) ELSE line[r]
    BY <2>4, <2>5, <2>7, <2>8, StagesOf
  <2>10. GoesOn(line, line', 1, 2)
    BY <1>3, <2>2, <2>4, <2>9 DEF GoesOn
  <2>11. QED
    BY <1>1, <1>2, <1>3, <2>10, FrameMoves
<1>7. CASE HwOutput
  <2>1. /\ hwHeld # <<>> /\ hwHeld' = Tail(hwHeld) /\ hwCapDone' = Append(hwCapDone, Head(hwHeld))
        /\ UNCHANGED <<hwOut, content>> /\ Head(hwHeld) \in CapBufs \X Frames
    BY <1>2, <1>7, TailIndex DEF HwOutput, hwOutVars
  <2>2. line[2] # <<>> /\ Head(line[2]) = Head(hwHeld)[2] /\ line'[2] = Tail(line[2])
    BY <1>2, <2>1, CapQueue, StagesOf, StagesNext
  <2>3. line'[3] = Append(line[3], Head(line[2]))
    <3>1. Via(capFrame, hwCapDone') = Append(Via(capFrame, hwCapDone), Head(hwHeld)[2])
      BY <1>2, <2>1, CapQueue
    <3>2. QED
      BY <2>2, <3>1, StagesOf, StagesNext
  <2>4. line'[1] = line[1]
    BY <2>1, StagesOf, StagesNext
  <2>5. Head(line[2]) # 0
    BY <1>2, <1>3, <2>2, FirstIsFrame
  <2>6. \A r \in Stages : line'[r] = IF r = 2 THEN Tail(line[2])
                                     ELSE IF r = 3 THEN Append(line[3], Head(line[2])) ELSE line[r]
    BY <1>4, <2>1, <2>2, <2>3, <2>4, StagesOf
  <2>7. GoesOn(line, line', 2, 3)
    BY <1>3, <2>2, <2>5, <2>6 DEF GoesOn
  <2>8. QED
    BY <1>1, <1>2, <1>3, <2>7, FrameMoves
<1>8. CASE HwDrained
  <2>1. PICK b \in hwCap : hwCapDone' = Append(hwCapDone, <<b, 0>>)
    BY <1>8 DEF HwDrained
  <2>2. UNCHANGED <<hwOut, hwHeld, content>> /\ <<b, 0>> \in CapBufs \X Frames
    BY <1>8, FrameZero, WrittenApart DEF HwDrained, hwOutVars
  <2>3. Via(capFrame, hwCapDone') = Append(Via(capFrame, hwCapDone), 0)
    BY <1>2, <2>1, <2>2, CapQueue
  <2>4. line'[3] = Append(line[3], 0) /\ line'[1] = line[1] /\ line'[2] = line[2]
    BY <2>2, <2>3, StagesOf, StagesNext
  <2>5. \A r \in Stages : line'[r] = IF r = 3 THEN Append(line[3], 0) ELSE line[r]
    BY <1>4, <2>2, <2>4, StagesOf
  <2>6. /\ line \in [Stages -> Seq(Nat)] /\ line' \in [Stages -> Seq(Nat)] /\ InOrder(line)
        /\ UpTo(line, offs)
    BY <1>2, LineTyped, LineTypedNext DEF Ordered
  <2>7. offs \in Nat
    BY <1>2 DEF TypeOK, Frames
  <2>8. InOrder(line') /\ UpTo(line', offs) /\ (Whole(line, offs) => Whole(line', offs))
    BY <2>5, <2>6, <2>7, EmptyPictureOut
  <2>9. QED
    BY <1>1, <2>8 DEF OrderedNext, Ordered
<1>9. QED
  BY <1>5, <1>6, <1>7, <1>8 DEF Mfc

(* The frames stay in order, whoever takes a step.                         *)
LEMMA OrderKept == IInv /\ TypeOK' /\ Filled /\ Ordered /\ [Next]_vars => OrderedNext
<1> SUFFICES ASSUME IInv, TypeOK', Filled, Ordered, [Next]_vars PROVE OrderedNext
  OBVIOUS
<1>1. TypeOK /\ (faults' = 0 => faults = 0)
  BY FaultsStay DEF IInv
<1>2. CASE main \/ UNCHANGED vars
  <2>1. UNCHANGED <<offs, hwOut, hwHeld, hwCapDone, queue, content, shown, mfcPc, mfcN, displayPc,
                    displayN>>
    BY <1>2 DEF main, vars, parserVars, mfcVars, syncVars, displayVars, hwOutVars, hwCapVars
  <2>2. QED
    BY <1>1, <2>1, LineStays
<1>3. QED
  BY <1>1, <1>2, ParserOrder, MfcThreadOrder, DisplayOrder, MfcOrder DEF Next

(* The pictures of the decoder stay in their buffers.                      *)
LEMMA FilledKept == IInv /\ TypeOK' /\ Filled /\ [Next]_vars => Filled'
<1> SUFFICES ASSUME IInv, TypeOK', Filled, [Next]_vars PROVE Filled'
  OBVIOUS
<1>1. /\ TypeOK /\ hwHeld \in Seq(CapBufs \X Frames) /\ hwCapDone \in Seq(CapBufs \X Frames)
      /\ hwOut \in Seq(OutBufs \X Frames) /\ content \in [CapBufs -> Frames]
  BY DEF IInv, TypeOK
<1>2. CASE UNCHANGED <<hwHeld, hwCapDone, content>>
  BY <1>2 DEF Filled
<1>3. CASE MfcDequeue \/ MfcFinish
  <2>1. hwCapDone # <<>> /\ hwCapDone' = Tail(hwCapDone) /\ UNCHANGED <<hwHeld, content>>
    BY <1>3 DEF MfcDequeue, MfcFinish, mfcRest
  <2>2. \A k \in DOMAIN hwCapDone' : k + 1 \in DOMAIN hwCapDone /\ hwCapDone'[k] = hwCapDone[k + 1]
    BY <1>1, <2>1, TailIndex
  <2>3. QED
    BY <2>1, <2>2 DEF Filled
<1>4. CASE HwDecode
  <2>1. PICK b \in hwCap : /\ content' = [content EXCEPT ![b] = Head(hwOut)[2]]
                           /\ hwHeld' = Append(hwHeld, <<b, Head(hwOut)[2]>>)
    BY <1>4 DEF HwDecode
  <2>2. <<b, Head(hwOut)[2]>> \in CapBufs \X Frames /\ hwCapDone' = hwCapDone
    <3>1. Head(hwOut) \in OutBufs \X Frames
      BY <1>1, <1>4, TailIndex DEF HwDecode
    <3>2. QED
      BY <1>4, <3>1, WrittenApart DEF HwDecode
  <2>3. /\ DOMAIN hwHeld' = DOMAIN hwHeld \cup {Len(hwHeld) + 1}
        /\ hwHeld'[Len(hwHeld) + 1] = <<b, Head(hwOut)[2]>>
        /\ \A k \in DOMAIN hwHeld : hwHeld'[k] = hwHeld[k]
    BY <1>1, <2>1, <2>2, AppendIndex
  <2>4. /\ content'[b] = Head(hwOut)[2] /\ b \in CapBufs
        /\ \A c \in CapBufs : c # b => content'[c] = content[c]
    BY <1>1, <2>1, WrittenApart
  <2>5. /\ \A k \in DOMAIN hwHeld : hwHeld[k][1] \in CapBufs /\ hwHeld[k][1] # b
        /\ \A k \in DOMAIN hwCapDone : hwCapDone[k][1] \in CapBufs /\ hwCapDone[k][1] # b
    BY <1>1, WrittenApart
  <2>6. \A k \in DOMAIN hwHeld' : content'[hwHeld'[k][1]] = hwHeld'[k][2]
    BY <2>3, <2>4, <2>5 DEF Filled
  <2>7. \A k \in DOMAIN hwCapDone' :
          hwCapDone'[k][2] # 0 => content'[hwCapDone'[k][1]] = hwCapDone'[k][2]
    BY <2>2, <2>4, <2>5 DEF Filled
  <2>8. QED
    BY <2>6, <2>7 DEF Filled
<1>5. CASE HwOutput
  <2>1. /\ hwHeld # <<>> /\ hwHeld' = Tail(hwHeld) /\ hwCapDone' = Append(hwCapDone, Head(hwHeld))
        /\ UNCHANGED content
    BY <1>5 DEF HwOutput
  <2>2. /\ Head(hwHeld) \in CapBufs \X Frames /\ 1 \in DOMAIN hwHeld /\ Head(hwHeld) = hwHeld[1]
        /\ \A k \in DOMAIN hwHeld' : k + 1 \in DOMAIN hwHeld /\ hwHeld'[k] = hwHeld[k + 1]
    BY <1>1, <2>1, TailIndex
  <2>3. /\ DOMAIN hwCapDone' = DOMAIN hwCapDone \cup {Len(hwCapDone) + 1}
        /\ hwCapDone'[Len(hwCapDone) + 1] = hwHeld[1]
        /\ \A k \in DOMAIN hwCapDone : hwCapDone'[k] = hwCapDone[k]
    BY <1>1, <2>1, <2>2, AppendIndex
  <2>4. QED
    BY <2>1, <2>2, <2>3 DEF Filled
<1>6. CASE HwDrained
  <2>1. PICK b \in hwCap : hwCapDone' = Append(hwCapDone, <<b, 0>>)
    BY <1>6 DEF HwDrained
  <2>2. UNCHANGED <<hwHeld, content>> /\ <<b, 0>> \in CapBufs \X Frames
    BY <1>6, FrameZero, WrittenApart DEF HwDrained
  <2>3. /\ DOMAIN hwCapDone' = DOMAIN hwCapDone \cup {Len(hwCapDone) + 1}
        /\ hwCapDone'[Len(hwCapDone) + 1] = <<b, 0>>
        /\ \A k \in DOMAIN hwCapDone : hwCapDone'[k] = hwCapDone[k]
    BY <1>1, <2>1, <2>2, AppendIndex
  <2>4. QED
    BY <2>2, <2>3 DEF Filled
<1>7. CASE HwHeader
  BY <1>2, <1>7 DEF HwHeader, hwCapVars
<1>8. CASE main \/ UNCHANGED vars \/ parser_thread_func \/ display_thread_func
  BY <1>2, <1>8
  DEF main, vars, parser_thread_func, ParserStart, ParserTest, ParserStop, ParserQueue,
      ParserDequeue, ParserDequeueFails, parserRest, display_thread_func, DisplayTest, DisplayWait,
      DisplayRemove, ShowFrame, ProcessFails, DisplayFree, DisplayPost, displayRest, hwCapVars
<1>9. CASE mfc_thread_func
  BY <1>2, <1>3, <1>9
  DEF mfc_thread_func, MfcTest, MfcNeedBuffer, MfcWaitAny, MfcPick, MfcPickSpare, MfcWaitSpare,
      MfcQueue, MfcNoSpare, MfcDequeueFails, MfcAdd, MfcPost, mfcControl, mfcRest
<1>10. QED
  BY <1>4, <1>5, <1>6, <1>7, <1>8, <1>9 DEF Next, Mfc

(* The parser's buffers are with it or with the MFC, in one place.         *)
LEMMA OutBuffersKept == IInv /\ TypeOK' /\ OutBuffers /\ [Next]_vars => OutBuffers'
<1> SUFFICES ASSUME IInv, TypeOK', OutBuffers, [Next]_vars PROVE OutBuffers'
  OBVIOUS
<1>1. /\ TypeOK /\ hwOut \in Seq(OutBufs \X Frames) /\ hwOutDone \in Seq(OutBufs)
      /\ outFlag \in [OutBufs -> BOOLEAN] /\ offs \in 0 .. NFrames
  BY DEF IInv, TypeOK, Frames
<1>2. /\ \A k \in DOMAIN hwOut : hwOut[k][1] \in OutBufs /\ k \in Nat \ {0}
      /\ \A k \in DOMAIN hwOutDone : hwOutDone[k] \in OutBufs /\ k \in Nat \ {0}
  BY <1>1
<1>3. CASE UNCHANGED <<hwOut, hwOutDone, outFlag>> /\ (parserPc' = parserPc \/ parserPc # "start")
  BY <1>3 DEF OutBuffers, Given
<1>4. CASE ParserStart
  <2>1. UNCHANGED <<hwOut, hwOutDone>> /\ outFlag' = [outFlag EXCEPT ![0] = TRUE]
    BY <1>4 DEF ParserStart, hwOutVars
  <2>2. \A b \in OutBufs : Given(b) => outFlag'[b]
    BY <1>1, <2>1 DEF Given
  <2>3. QED
    BY <1>2, <2>1, <2>2 DEF OutBuffers, Given
<1>5. CASE ParserQueue
  <2>1. PICK b \in OutBufs : /\ FirstFree(b) /\ outFlag' = [outFlag EXCEPT ![b] = TRUE]
                             /\ hwOut' = Append(hwOut, <<b, offs + 1>>) \/ UNCHANGED hwOut
    BY <1>5 DEF ParserQueue
  <2>2. parserPc = "work" /\ hwOutDone' = hwOutDone /\ offs + 1 \in Frames /\ offs + 1 # 0
    BY <1>1, <1>5, DecoderAssumption DEF ParserQueue, Frames
  <2>3. \A c \in OutBufs : Given(c) => outFlag'[c] /\ c # b
    BY <1>1, <2>1, <2>2 DEF Given, FirstFree
  <2>4. \A k \in DOMAIN hwOutDone' : outFlag'[hwOutDone'[k]] /\ hwOutDone'[k] # b
    BY <1>2, <2>2, <2>3 DEF OutBuffers
  <2>5. \A k \in DOMAIN hwOut : outFlag'[hwOut[k][1]] /\ hwOut[k][1] # b
    BY <1>2, <2>3 DEF OutBuffers
  <2>6. CASE UNCHANGED hwOut
    BY <2>2, <2>4, <2>5, <2>6 DEF OutBuffers, Given
  <2>7. CASE hwOut' = Append(hwOut, <<b, offs + 1>>)
    <3>1. <<b, offs + 1>> \in OutBufs \X Frames
      BY <2>2
    <3>2. /\ DOMAIN hwOut' = DOMAIN hwOut \cup {Len(hwOut) + 1}
          /\ hwOut'[Len(hwOut) + 1] = <<b, offs + 1>>
          /\ \A k \in DOMAIN hwOut : k # Len(hwOut) + 1 /\ hwOut'[k] = hwOut[k]
      BY <1>1, <2>7, <3>1, AppendIndex
    <3>3. outFlag'[b]
      BY <1>1, <2>1
    <3>4. \A k \in DOMAIN hwOut' : outFlag'[hwOut'[k][1]]
      BY <2>5, <3>2, <3>3
    <3>5. \A j, k \in DOMAIN hwOut' : hwOut'[j][1] = hwOut'[k][1] => j = k
      BY <2>5, <3>2 DEF OutBuffers
    <3>6. \A j \in DOMAIN hwOut', k \in DOMAIN hwOutDone' : hwOut'[j][1] # hwOutDone'[k]
      BY <2>2, <2>4, <3>2 DEF OutBuffers
    <3>7. \A k \in DOMAIN hwOut' : k # 1 => hwOut'[k][2] # 0
      BY <2>2, <3>2 DEF OutBuffers
    <3>8. \A j, k \in DOMAIN hwOutDone' : hwOutDone'[j] = hwOutDone'[k] => j = k
      BY <2>2 DEF OutBuffers
    <3>9. QED
      BY <2>4, <3>4, <3>5, <3>6, <3>7, <3>8 DEF OutBuffers, Given
  <2>8. QED
    BY <2>1, <2>6, <2>7
<1>6. CASE ParserDequeue
  <2> DEFINE b == Head(hwOutDone)
  <2>1. /\ parserPc = "work" /\ parserPc' = "test" /\ hwOutDone # <<>> /\ hwOut' = hwOut
        /\ outFlag' = [outFlag EXCEPT ![b] = FALSE] /\ hwOutDone' = Tail(hwOutDone)
    BY <1>6 DEF ParserDequeue
  <2>2. /\ 1 \in DOMAIN hwOutDone /\ b = hwOutDone[1] /\ b \in OutBufs
        /\ \A k \in DOMAIN hwOutDone' : k \in Nat \ {0} /\ k + 1 \in DOMAIN hwOutDone
                                        /\ hwOutDone'[k] = hwOutDone[k + 1]
    BY <1>1, <2>1, TailIndex
  <2> HIDE DEF b
  <2>3. \A c \in OutBufs : Given(c) /\ c # b => outFlag'[c]
    BY <1>1, <2>1 DEF Given
  <2>4. \A k \in DOMAIN hwOutDone' : k + 1 # 1
    BY <2>2
  <2>5. \A k \in DOMAIN hwOutDone' : hwOutDone'[k] # b /\ Given(hwOutDone'[k]) /\ hwOutDone'[k] \in OutBufs
    BY <1>2, <2>2, <2>4 DEF OutBuffers
  <2>6. \A k \in DOMAIN hwOut' : hwOut'[k][1] # b /\ Given(hwOut'[k][1]) /\ hwOut'[k][1] \in OutBufs
    BY <1>2, <2>1, <2>2 DEF OutBuffers
  <2>7. \A j, k \in DOMAIN hwOutDone' : hwOutDone'[j] = hwOutDone'[k] => j = k
    <3>1. \A j, k \in DOMAIN hwOutDone' : hwOutDone'[j] = hwOutDone'[k] => j + 1 = k + 1
      BY <2>2 DEF OutBuffers
    <3>2. \A j, k \in Nat : j + 1 = k + 1 => j = k
      OBVIOUS
    <3>3. QED
      BY <2>2, <3>1, <3>2
  <2>8. \A j \in DOMAIN hwOut', k \in DOMAIN hwOutDone' : hwOut'[j][1] # hwOutDone'[k]
    BY <2>1, <2>2 DEF OutBuffers
  <2>9. /\ \A k \in DOMAIN hwOut' : outFlag'[hwOut'[k][1]]
        /\ \A k \in DOMAIN hwOutDone' : outFlag'[hwOutDone'[k]]
    BY <2>3, <2>5, <2>6
  <2>10. /\ \A j, k \in DOMAIN hwOut' : hwOut'[j][1] = hwOut'[k][1] => j = k
         /\ \A k \in DOMAIN hwOut' : k # 1 => hwOut'[k][2] # 0
    BY <2>1 DEF OutBuffers
  <2>11. QED
    BY <2>7, <2>8, <2>9, <2>10 DEF OutBuffers, Given
<1>7. CASE HwHeader \/ HwDecode
  <2>1. /\ hwOut # <<>> /\ hwOut' = Tail(hwOut) /\ hwOutDone' = Append(hwOutDone, Head(hwOut)[1])
        /\ UNCHANGED <<outFlag, parserPc>>
    BY <1>7 DEF HwHeader, HeaderNext, HwDecode, ConsumeOut, hwRest, parserVars
  <2>2. /\ 1 \in DOMAIN hwOut /\ Head(hwOut) = hwOut[1] /\ Head(hwOut)[1] \in OutBufs
        /\ \A k \in DOMAIN hwOut' : k \in Nat \ {0} /\ k + 1 \in DOMAIN hwOut
                                    /\ hwOut'[k] = hwOut[k + 1]
    BY <1>1, <2>1, TailIndex
  <2>3. /\ DOMAIN hwOutDone' = DOMAIN hwOutDone \cup {Len(hwOutDone) + 1}
        /\ hwOutDone'[Len(hwOutDone) + 1] = hwOut[1][1]
        /\ \A k \in DOMAIN hwOutDone : k # Len(hwOutDone) + 1 /\ hwOutDone'[k] = hwOutDone[k]
    BY <1>1, <2>1, <2>2, AppendIndex
  <2>4. \A k \in DOMAIN hwOut' : k + 1 # 1
    BY <2>2
  <2>5. \A b : Given(b)' = Given(b)
    BY <2>1 DEF Given
  <2>6. /\ \A k \in DOMAIN hwOut' : Given(hwOut'[k][1])
        /\ \A k \in DOMAIN hwOutDone' : Given(hwOutDone'[k])
    BY <2>2, <2>3 DEF OutBuffers
  <2>7. \A j, k \in DOMAIN hwOut' : hwOut'[j][1] = hwOut'[k][1] => j = k
    <3>1. \A j, k \in DOMAIN hwOut' : hwOut'[j][1] = hwOut'[k][1] => j + 1 = k + 1
      BY <2>2 DEF OutBuffers
    <3>2. \A j, k \in Nat : j + 1 = k + 1 => j = k
      OBVIOUS
    <3>3. QED
      BY <2>2, <3>1, <3>2
  <2>8. \A j, k \in DOMAIN hwOutDone' : hwOutDone'[j] = hwOutDone'[k] => j = k
    BY <2>2, <2>3 DEF OutBuffers
  <2>9. \A j \in DOMAIN hwOut', k \in DOMAIN hwOutDone' : hwOut'[j][1] # hwOutDone'[k]
    BY <2>2, <2>3, <2>4 DEF OutBuffers
  <2>10. \A k \in DOMAIN hwOut' : k # 1 => hwOut'[k][2] # 0
    BY <2>2, <2>4 DEF OutBuffers
  <2>11. QED
    BY <2>1, <2>6, <2>7, <2>8, <2>9, <2>10 DEF OutBuffers, Given
<1>8. CASE parser_thread_func
  BY <1>3, <1>4, <1>5, <1>6, <1>8
  DEF parser_thread_func, ParserTest, ParserStop, ParserDequeueFails, hwOutVars
<1>9. CASE Mfc
  BY <1>3, <1>7, <1>9 DEF Mfc, HwOutput, HwDrained, hwRest, hwOutVars, parserVars
<1>10. CASE main \/ UNCHANGED vars \/ display_thread_func \/ mfc_thread_func
  <2>1. UNCHANGED <<parserVars, hwOutVars>>
    BY <1>10
    DEF main, vars, display_thread_func, DisplayTest, DisplayWait, DisplayRemove, ShowFrame,
        ProcessFails, DisplayFree, DisplayPost, displayRest, mfc_thread_func, MfcTest,
        MfcNeedBuffer, MfcWaitAny, MfcPick, MfcPickSpare, MfcWaitSpare, MfcQueue, MfcNoSpare,
        MfcDequeue, MfcFinish, MfcDequeueFails, MfcAdd, MfcPost, mfcControl, mfcRest
  <2>2. QED
    BY <1>3, <2>1 DEF parserVars, hwOutVars
<1>11. QED
  BY <1>8, <1>9, <1>10 DEF Next

(* At the start there is only the header.                                  *)
LEMMA InitLine == Init => LineInv
<1> SUFFICES ASSUME Init PROVE LineInv
  OBVIOUS
<1>1. /\ hwOut = << <<0, 0>> >> /\ hwOutDone = <<>> /\ hwHeld = <<>> /\ hwCapDone = <<>>
      /\ queue = <<>> /\ shown = <<>> /\ parserPc = "start" /\ offs = 0 /\ mfcPc = "test"
      /\ displayPc # "process"
  BY DEF Init
<1>2. Filled /\ OutBuffers
  BY <1>1 DEF Filled, OutBuffers, Given
<1>3. TypeOK
  BY InitAccounting DEF IInv
<1>4. line \in [Stages -> Seq(Nat)]
  BY <1>3, LineTyped
<1>5. /\ line[2] = <<>> /\ line[3] = <<>> /\ line[4] = <<>> /\ line[5] = <<>> /\ line[6] = <<>>
      /\ line[7] = <<>> /\ DOMAIN line[1] = {1} /\ line[1][1] = 0
  <2>1. DOMAIN <<>> = {} /\ \A m : Via(m, <<>>) = <<>>
    BY DEF Via
  <2>2. <<0, 0>> \in OutBufs \X Frames /\ hwOut \in Seq(OutBufs \X Frames) /\ DOMAIN hwOut = {1}
    BY <1>1, FrameZero
  <2>3. DOMAIN Via(outFrame, hwOut) = {1} /\ Via(outFrame, hwOut)[1] = 0
    BY <1>1, <2>2, OutQueue
  <2>4. QED
    BY <1>1, <2>1, <2>3, StagesOf
<1>6. \A r \in Stages : r = 1 \/ line[r] = <<>>
  BY <1>5, StagesOf
<1>7. Items(line[1]) = {0} /\ \A r \in Stages : r # 1 => DOMAIN line[r] = {} /\ Items(line[r]) = {}
  BY <1>5, <1>6 DEF Items
<1>8. InOrder(line)
  <2>1. \A p \in Stages : \A i, j \in DOMAIN line[p] : ~(i < j /\ line[p][j] # 0)
    BY <1>5, <1>7
  <2>2. \A p, q \in Stages : p < q => q # 1
    BY DEF Stages
  <2>3. \A p, q \in Stages : p < q => \A x \in Items(line[p]), y \in Items(line[q]) : FALSE
    BY <1>7, <2>2
  <2>4. \A p \in Stages \ {1, 3} : 0 \notin Items(line[p])
    BY <1>7
  <2>5. QED
    BY <2>1, <2>3, <2>4 DEF InOrder
<1>9. UpTo(line, offs) /\ Whole(line, offs)
  BY <1>1, <1>7 DEF UpTo, Whole
<1>10. QED
  BY <1>2, <1>8, <1>9 DEF LineInv, Ordered

(* The frames are in order on their way through the decoder, in every      *)
(* reachable state and whatever fails.                                     *)
THEOREM LineInvariant == Spec => [](IInv /\ LineInv)
<1>1. Init => LineInv
  BY InitLine
<1>2. IInv /\ LineInv /\ IInv' /\ [Next]_vars => LineInv'
  <2> SUFFICES ASSUME IInv, LineInv, IInv', [Next]_vars PROVE LineInv'
    OBVIOUS
  <2>1. TypeOK' /\ Filled /\ OutBuffers /\ Ordered
    BY DEF IInv, LineInv
  <2>2. OrderedNext
    BY <2>1, OrderKept
  <2>3. Filled' /\ OutBuffers'
    BY <2>1, FilledKept, OutBuffersKept
  <2>4. Ordered'
    BY <2>2 DEF Ordered, OrderedNext
  <2>5. QED
    BY <2>3, <2>4 DEF LineInv
<1>3. QED
  BY <1>1, <1>2, Accounting, PTL DEF Spec

(* Frames are shown in stream order, none of them twice, even when calls   *)
(* fail and frames are lost on the way.                                    *)
THEOREM FramesShownInOrder == Spec => []ShownInOrder
<1>1. IInv /\ LineInv => ShownInOrder
  <2> SUFFICES ASSUME IInv, LineInv, NEW j \in DOMAIN shown, NEW k \in DOMAIN shown, j < k
               PROVE  shown[j] < shown[k]
    BY DEF ShownInOrder
  <2>1. InOrder(line) /\ line[7] = shown /\ 7 \in Stages \ {1, 3} /\ 7 \in Stages
    BY StagesOf DEF LineInv, Ordered, Stages
  <2>2. shown[k] # 0
    <3>1. 0 \notin Items(shown)
      BY <2>1 DEF InOrder
    <3>2. QED
      BY <3>1 DEF Items
  <2>3. QED
    BY <2>1, <2>2 DEF InOrder
<1>2. QED
  BY <1>1, LineInvariant, PTL

-----------------------------------------------------------------------------
(* How many frames wait for the decoder: all in its queue but the header.  *)
Waiting(s) == {k \in DOMAIN s : s[k][2] # 0}

(* Only the first in the queue can be the header.                          *)
LEMMA WaitingCount ==
  ASSUME NEW s \in Seq(OutBufs \X Frames), \A k \in DOMAIN s : k # 1 => s[k][2] # 0
  PROVE  /\ Len(s) \in Nat /\ IsFiniteSet(Waiting(s)) /\ Cardinality(Waiting(s)) \in Nat
         /\ Cardinality(Waiting(s)) <= Len(s)
         /\ s # <<>> /\ s[1][2] = 0 => Cardinality(Waiting(s)) = Len(s) - 1
         /\ s = <<>> \/ s[1][2] # 0 => Cardinality(Waiting(s)) = Len(s)
<1>1. Len(s) \in Nat /\ DOMAIN s = 1 .. Len(s) /\ (s # <<>> => Len(s) # 0) /\ (s = <<>> => Len(s) = 0)
  OBVIOUS
<1>2. IsFiniteSet(1 .. Len(s)) /\ Cardinality(1 .. Len(s)) = Len(s)
  <2>1. 1 \in Int /\ Len(s) \in Int
    BY <1>1
  <2>2. /\ IsFiniteSet(1 .. Len(s))
        /\ Cardinality(1 .. Len(s)) = IF 1 > Len(s) THEN 0 ELSE Len(s) - 1 + 1
    BY <2>1, FS_Interval
  <2>3. QED
    BY <1>1, <2>2
<1>3. Waiting(s) \in SUBSET (1 .. Len(s))
  BY <1>1 DEF Waiting
<1>4. /\ IsFiniteSet(Waiting(s)) /\ Cardinality(Waiting(s)) <= Len(s)
      /\ Cardinality(Waiting(s)) \in Nat
  BY <1>2, <1>3, FS_Subset, FS_CardinalityType
<1>5. ASSUME s # <<>>, s[1][2] = 0 PROVE Cardinality(Waiting(s)) = Len(s) - 1
  <2>1. Waiting(s) = (1 .. Len(s)) \ {1}
    BY <1>1, <1>5 DEF Waiting
  <2>2. 1 \in 1 .. Len(s)
    BY <1>1, <1>5
  <2>3. Cardinality((1 .. Len(s)) \ {1}) = Cardinality(1 .. Len(s)) - 1
    BY <1>2, <2>2, FS_RemoveElement
  <2>4. QED
    BY <1>2, <2>1, <2>3
<1>6. ASSUME s = <<>> \/ s[1][2] # 0 PROVE Cardinality(Waiting(s)) = Len(s)
  <2>1. Waiting(s) = 1 .. Len(s)
    BY <1>1, <1>6 DEF Waiting
  <2>2. QED
    BY <1>2, <2>1
<1>7. QED
  BY <1>1, <1>4, <1>5, <1>6

(* A buffer of the parser's that is not with the MFC leaves room for it.   *)
LEMMA RoomToParse ==
  ASSUME IInv, OutBuffers, parserPc # "start", NEW b \in OutBufs, ~outFlag[b]
  PROVE  Len(hwOut) < OutCnt
<1> DEFINE S == 1 .. Len(hwOut)
           T == OutBufs \ {b}
           g == [k \in S |-> hwOut[k][1]]
<1>1. hwOut \in Seq(OutBufs \X Frames) /\ Len(hwOut) \in Nat /\ DOMAIN hwOut = S
  BY DEF IInv, TypeOK
<1>2. IsFiniteSet(S) /\ Cardinality(S) = Len(hwOut)
  BY <1>1, FS_Interval
<1>3. IsFiniteSet(OutBufs) /\ Cardinality(OutBufs) = OutCnt
  BY FS_Interval, DecoderAssumption DEF OutBufs
<1>4. IsFiniteSet(T) /\ Cardinality(T) = OutCnt - 1
  BY <1>3, FS_RemoveElement
<1>5. \A k \in S : hwOut[k][1] \in T
  <2>1. \A k \in S : hwOut[k][1] \in OutBufs /\ outFlag[hwOut[k][1]]
    BY <1>1 DEF OutBuffers, Given
  <2>2. QED
    BY <2>1
<1>6. \A j, k \in S : hwOut[j][1] = hwOut[k][1] => j = k
  BY <1>1 DEF OutBuffers
<1>7. g \in [S -> T] /\ \A j, k \in S : g[j] = g[k] => j = k
  BY <1>5, <1>6
<1> HIDE DEF S, T, g
<1>8. g \in Injection(S, T)
  BY <1>7 DEF Injection, IsInjective
<1>9. Cardinality(S) <= Cardinality(T)
  BY <1>4, <1>8, FS_Injection
<1>10. QED
  BY <1>1, <1>2, <1>4, <1>9, DecoderAssumption

(* As does one of the decoder's: every picture between it and the display  *)
(* is in another.                                                          *)
LEMMA RoomToDecode ==
  ASSUME IInv, Filled, NEW b \in hwCap, NEW M,
         \A x \in M : x # 0 /\ \E p \in Stages \ {1, 7} : x \in Items(line[p])
  PROVE  IsFiniteSet(M) /\ Cardinality(M) < CapCnt
<1>1. /\ hwHeld \in Seq(CapBufs \X Frames) /\ hwCapDone \in Seq(CapBufs \X Frames)
      /\ queue \in Seq(CapBufs) /\ mfcN \in CapBufs /\ displayN \in CapBufs
      /\ content \in [CapBufs -> Nat] /\ b \in CapBufs
  BY LineTyped DEF IInv, TypeOK
<1> DEFINE T == CapBufs \ {b}
           R == {content[c] : c \in T}
           g == [c \in T |-> content[c]]
<1>2. ASSUME NEW x \in M PROVE x \in R
  <2>1. x # 0
    OBVIOUS
  <2>2. PICK p \in Stages \ {1, 7} : x \in Items(line[p])
    OBVIOUS
  <2>3. CASE p = 2
    <3>0. DOMAIN line[2] = DOMAIN hwHeld /\ \A k \in DOMAIN hwHeld : line[2][k] = hwHeld[k][2]
      BY <1>1, StagesOf, CapQueue
    <3>1. PICK k \in DOMAIN hwHeld : x = hwHeld[k][2]
      BY <2>2, <2>3, <3>0 DEF Items
    <3>2. hwHeld[k][1] \in CapBufs /\ hwHeld[k][1] # b /\ content[hwHeld[k][1]] = x
      BY <1>1, <3>1, WrittenApart DEF Filled
    <3>3. QED
      BY <3>2
  <2>4. CASE p = 3
    <3>0. DOMAIN line[3] = DOMAIN hwCapDone /\ \A k \in DOMAIN hwCapDone : line[3][k] = hwCapDone[k][2]
      BY <1>1, StagesOf, CapQueue
    <3>1. PICK k \in DOMAIN hwCapDone : x = hwCapDone[k][2]
      BY <2>2, <2>4, <3>0 DEF Items
    <3>2. hwCapDone[k][1] \in CapBufs /\ hwCapDone[k][1] # b /\ content[hwCapDone[k][1]] = x
      BY <1>1, <2>1, <3>1, WrittenApart DEF Filled
    <3>3. QED
      BY <3>2
  <2>5. CASE p = 4
    <3>1. mfcPc = "add" /\ x = content[mfcN]
      BY <2>2, <2>5, StagesOf DEF Items
    <3>2. mfcN # b
      BY <3>1, WrittenApart
    <3>3. QED
      BY <1>1, <3>1, <3>2
  <2>6. CASE p = 5
    <3>1. PICK k \in DOMAIN queue : x = content[queue[k]]
      BY <2>2, <2>6, StagesOf DEF Items, Via
    <3>2. queue[k] \in CapBufs /\ queue[k] # b
      BY <1>1, <3>1, WrittenApart
    <3>3. QED
      BY <3>1, <3>2
  <2>7. CASE p = 6
    <3>1. displayPc = "process" /\ x = content[displayN]
      BY <2>2, <2>7, StagesOf DEF Items
    <3>2. displayN # b
      BY <3>1, WrittenApart
    <3>3. QED
      BY <1>1, <3>1, <3>2
  <2>8. QED
    BY <2>3, <2>4, <2>5, <2>6, <2>7, StagesOf
<1>3. IsFiniteSet(CapBufs) /\ Cardinality(CapBufs) = CapCnt
  BY FS_Interval, DecoderAssumption DEF CapBufs
<1>4. IsFiniteSet(T) /\ Cardinality(T) = CapCnt - 1
  BY <1>1, <1>3, FS_RemoveElement
<1>5. g \in Surjection(T, R)
  BY DEF Surjection
<1> HIDE DEF T, R, g
<1>6. IsFiniteSet(R) /\ Cardinality(R) <= Cardinality(T)
  BY <1>4, <1>5, FS_Surjection
<1>7. M \in SUBSET R
  BY <1>2
<1>8. IsFiniteSet(M) /\ Cardinality(M) <= Cardinality(R)
  BY <1>6, <1>7, FS_Subset
<1>9. Cardinality(M) \in Nat /\ Cardinality(R) \in Nat
  BY <1>6, <1>8, FS_CardinalityType
<1>10. QED
  BY <1>4, <1>6, <1>8, <1>9, DecoderAssumption

-----------------------------------------------------------------------------
(* The steps of the program as steps of the pipeline, when no call fails   *)

Decoded == offs - Cardinality(Waiting(hwOut))

(* A step that is none of the pipeline                                     *)
LEMMA PipelineStutters ==
  ASSUME UNCHANGED <<offs, hwOut, shown>>
  PROVE  UNCHANGED <<offs, Decoded, shown>>
BY DEF Decoded, Waiting

(* The parser queues a frame.                                              *)
LEMMA ParseRefines ==
  ASSUME IInv, LineInv, TypeOK', faults' = 0, ParserQueue
  PROVE  /\ offs < NFrames /\ offs - Decoded < OutCnt /\ offs' = offs + 1
         /\ UNCHANGED <<Decoded, shown>>
<1>1. /\ hwOut \in Seq(OutBufs \X Frames) /\ OutBuffers /\ offs \in Nat /\ faults \in Nat
      /\ outFlag \in [OutBufs -> BOOLEAN]
  BY DecoderAssumption DEF IInv, TypeOK, LineInv, Frames
<1>2. PICK b \in OutBufs : ~outFlag[b] /\ hwOut' = Append(hwOut, <<b, offs + 1>>)
  BY <1>1 DEF ParserQueue, FirstFree, Fault
<1>3. offs < NFrames /\ offs' = offs + 1 /\ UNCHANGED shown /\ parserPc # "start"
  BY DEF ParserQueue, parserRest, displayVars
<1>4. Len(hwOut) < OutCnt
  BY <1>1, <1>2, <1>3, RoomToParse
<1>5. <<b, offs + 1>> \in OutBufs \X Frames /\ offs + 1 # 0
  BY <1>1, <1>3, DecoderAssumption DEF Frames
<1>6. /\ hwOut' \in Seq(OutBufs \X Frames) /\ Len(hwOut') = Len(hwOut) + 1
      /\ DOMAIN hwOut' = DOMAIN hwOut \cup {Len(hwOut) + 1}
      /\ hwOut'[Len(hwOut) + 1] = <<b, offs + 1>>
      /\ \A k \in DOMAIN hwOut : k # Len(hwOut) + 1 /\ hwOut'[k] = hwOut[k]
  BY <1>1, <1>2, <1>5, AppendIndex
<1>7. /\ Len(hwOut) \in Nat /\ Cardinality(Waiting(hwOut)) <= Len(hwOut)
      /\ IsFiniteSet(Waiting(hwOut)) /\ Cardinality(Waiting(hwOut)) \in Nat
  BY <1>1, WaitingCount DEF OutBuffers
<1>8. /\ Waiting(hwOut') = Waiting(hwOut) \cup {Len(hwOut) + 1}
      /\ Len(hwOut) + 1 \notin Waiting(hwOut)
  BY <1>5, <1>6 DEF Waiting
<1>9. Cardinality(Waiting(hwOut')) = Cardinality(Waiting(hwOut)) + 1
  BY <1>7, <1>8, FS_AddElement
<1>10. Decoded' = offs' - Cardinality(Waiting(hwOut'))
  BY DEF Decoded, Waiting
<1>11. Decoded' = Decoded /\ offs - Decoded = Cardinality(Waiting(hwOut))
  BY <1>1, <1>3, <1>7, <1>9, <1>10 DEF Decoded
<1>12. QED
  BY <1>3, <1>4, <1>7, <1>11, DecoderAssumption

(* The decoder drops the header, which does not count, or takes a frame.   *)
LEMMA ConsumeCounts ==
  ASSUME IInv, OutBuffers, TypeOK', hwOut # <<>>, ConsumeOut, offs' = offs
  PROVE  /\ Len(hwOut) \in Nat /\ Len(hwOut) # 0
         /\ HeaderNext => Decoded' = Decoded
         /\ ~HeaderNext => /\ Decoded = offs - Len(hwOut) /\ Decoded' = Decoded + 1
                           /\ \A k \in DOMAIN hwOut : hwOut[k][2] # 0
<1>1. /\ hwOut \in Seq(OutBufs \X Frames) /\ offs \in Nat /\ hwOut' = Tail(hwOut)
      /\ \A k \in DOMAIN hwOut : k # 1 => hwOut[k][2] # 0
  BY DEF IInv, TypeOK, Frames, ConsumeOut, OutBuffers
<1>2. /\ hwOut' \in Seq(OutBufs \X Frames) /\ Len(hwOut') = Len(hwOut) - 1 /\ Len(hwOut) \in Nat \ {0}
      /\ \A k \in DOMAIN hwOut' : k \in Nat \ {0} /\ k + 1 \in DOMAIN hwOut /\ hwOut'[k] = hwOut[k + 1]
  BY <1>1, TailIndex
<1>3. \A k \in DOMAIN hwOut' : hwOut'[k][2] # 0
  <2>1. \A k \in DOMAIN hwOut' : k + 1 # 1
    BY <1>2
  <2>2. QED
    BY <1>1, <1>2, <2>1
<1>4. Cardinality(Waiting(hwOut')) = Len(hwOut')
  <2>1. hwOut' = <<>> \/ hwOut'[1][2] # 0
    <3>1. hwOut' # <<>> => 1 \in DOMAIN hwOut'
      BY <1>2
    <3>2. QED
      BY <1>3, <3>1
  <2>2. QED
    BY <1>2, <1>3, <2>1, WaitingCount
<1>5. /\ hwOut[1][2] = 0 => Cardinality(Waiting(hwOut)) = Len(hwOut) - 1
      /\ hwOut[1][2] # 0 => Cardinality(Waiting(hwOut)) = Len(hwOut)
  BY <1>1, WaitingCount
<1>6. Decoded' = offs - (Len(hwOut) - 1)
  BY <1>2, <1>4 DEF Decoded, Waiting
<1>7. Decoded = offs - Cardinality(Waiting(hwOut))
  BY DEF Decoded
<1>8. QED
  BY <1>1, <1>2, <1>5, <1>6, <1>7 DEF HeaderNext

(* The decoder takes a frame.                                              *)
LEMMA DecodeRefines ==
  ASSUME IInv, LineInv, TypeOK', faults = 0, HwDecode
  PROVE  /\ Decoded < offs /\ Decoded - Len(shown) < CapCnt /\ Decoded' = Decoded + 1
         /\ UNCHANGED <<offs, shown>>
<1>1. UNCHANGED <<offs, shown>>
  BY DEF HwDecode, hwRest, parserVars, displayVars
<1>2. /\ Len(hwOut) \in Nat /\ Len(hwOut) # 0 /\ Decoded = offs - Len(hwOut) /\ Decoded' = Decoded + 1
      /\ \A k \in DOMAIN hwOut : hwOut[k][2] # 0
  BY <1>1, ConsumeCounts DEF HwDecode, LineInv
<1>3. /\ hwOut \in Seq(OutBufs \X Frames) /\ hwOut # <<>> /\ offs \in Nat /\ shown \in Seq(Frames)
  BY DEF IInv, TypeOK, Frames, HwDecode
<1>4. /\ line \in [Stages -> Seq(Nat)] /\ InOrder(line) /\ UpTo(line, offs) /\ Whole(line, offs)
      /\ Filled
  BY LineTyped DEF IInv, LineInv, Ordered
<1> DEFINE w == line[1]
           h == Head(line[1])
           s == Len(shown)
           T == Items(line[7])
           M == (1 .. h - 1) \ T
<1>5. w # <<>> /\ Len(w) = Len(hwOut) /\ \A k \in DOMAIN w : w[k] # 0
  <2> DEFINE v == Via(outFrame, hwOut)
  <2>1. /\ DOMAIN v = DOMAIN hwOut /\ Len(v) = Len(hwOut) /\ v # <<>>
        /\ \A k \in DOMAIN hwOut : v[k] = hwOut[k][2]
    BY <1>3, OutQueue
  <2>2. w = v
    BY StagesOf
  <2> HIDE DEF v, w
  <2>3. QED
    BY <1>2, <2>1, <2>2
<1>6. /\ h \in 1 .. offs /\ Items(w) = h .. offs /\ Len(w) = offs - h + 1
      /\ T \subseteq 1 .. h - 1 /\ Cardinality(T) = Len(line[7])
  BY <1>3, <1>4, <1>5, NextDecoded
<1>7. s \in Nat /\ Cardinality(T) = s
  BY <1>3, <1>6, StagesOf
<1> HIDE DEF w, h, s
<1>8. Decoded = h - 1 /\ h \in Nat
  BY <1>2, <1>3, <1>5, <1>6
<1>9. ASSUME NEW x \in M PROVE x # 0 /\ \E p \in Stages \ {1, 7} : x \in Items(line[p])
  <2>1. x \in 1 .. offs /\ x # 0 /\ ~(x \in h .. offs)
    <3>1. x \in 1 .. h - 1
      OBVIOUS
    <3>2. \A y \in 1 .. h - 1 : y \in 1 .. offs /\ y # 0 /\ ~(y \in h .. offs)
      BY <1>3, <1>6, <1>8
    <3>3. QED
      BY <3>1, <3>2
  <2>2. PICK p \in Stages : x \in Items(line[p])
    BY <1>4, <2>1 DEF Whole
  <2>3. p # 1 /\ p # 7
    BY <1>6, <2>1, <2>2 DEF w
  <2>4. QED
    BY <2>1, <2>2, <2>3
<1>10. PICK b \in hwCap : TRUE
  BY DEF HwDecode
<1>11. Cardinality(M) < CapCnt
  <2> HIDE DEF M, T
  <2>1. QED
    BY <1>4, <1>9, RoomToDecode
<1>12. Cardinality(M) = (h - 1) - s
  <2>1. IsFiniteSet(1 .. h - 1) /\ Cardinality(1 .. h - 1) = h - 1
    <3>1. 1 \in Int /\ h - 1 \in Int
      BY <1>8
    <3>2. IsFiniteSet(1 .. h - 1) /\ Cardinality(1 .. h - 1) = IF 1 > h - 1 THEN 0 ELSE (h - 1) - 1 + 1
      BY <3>1, FS_Interval
    <3>3. h - 1 \in Nat
      BY <1>6
    <3>4. QED
      BY <3>2, <3>3
  <2>2. Cardinality((1 .. h - 1) \ T) = Cardinality(1 .. h - 1) - Cardinality((1 .. h - 1) \cap T)
    BY <2>1, FS_Difference
  <2>3. (1 .. h - 1) \cap T = T
    BY <1>6
  <2>4. QED
    BY <1>7, <2>1, <2>2, <2>3
<1>13. Decoded < offs
  BY <1>3, <1>6, <1>8
<1>14. Decoded - Len(shown) < CapCnt
  BY <1>8, <1>11, <1>12 DEF s
<1>15. QED
  BY <1>1, <1>2, <1>13, <1>14

(* A frame is shown, from the display thread's hands or, without one, from *)
(* the MFC's.                                                              *)
LEMMA ShowRefines ==
  ASSUME IInv, LineInv, faults = 0, NEW p \in Stages, 1 < p, p < 7, line[p] # <<>>,
         Head(line[p]) # 0, \A r \in Stages : p < r /\ r < 7 => line[r] = <<>>,
         shown' = Append(shown, Head(line[p])), UNCHANGED <<offs, hwOut>>
  PROVE  Len(shown) < Decoded /\ shown' = Append(shown, Len(shown) + 1) /\ UNCHANGED <<offs, Decoded>>
<1>1. /\ line \in [Stages -> Seq(Nat)] /\ InOrder(line) /\ UpTo(line, offs) /\ Whole(line, offs)
  BY LineTyped DEF IInv, LineInv, Ordered
<1>2. offs \in Nat /\ hwOut \in Seq(OutBufs \X Frames) /\ OutBuffers
  BY DEF IInv, TypeOK, Frames, LineInv
<1> DEFINE h == Head(line[p])
           K == {k \in DOMAIN line[1] : line[1][k] # 0}
<1>3. h \in 1 .. offs /\ Len(line[7]) = h - 1 /\ Cardinality(K) <= offs - h
  BY <1>1, <1>2, NextShown
<1>4. K = Waiting(hwOut)
  <2>1. DOMAIN line[1] = DOMAIN hwOut /\ \A k \in DOMAIN hwOut : line[1][k] = hwOut[k][2]
    BY <1>2, StagesOf, OutQueue
  <2>2. QED
    BY <2>1 DEF Waiting
<1>5. Cardinality(Waiting(hwOut)) \in Nat
  BY <1>2, WaitingCount DEF OutBuffers
<1> HIDE DEF h, K
<1>6. Len(shown) = h - 1
  BY <1>3, StagesOf
<1>7. Len(shown) < offs - Cardinality(Waiting(hwOut))
  BY <1>2, <1>3, <1>4, <1>5, <1>6
<1>8. h = Len(shown) + 1
  BY <1>3, <1>6
<1>9. UNCHANGED Decoded
  BY DEF Decoded, Waiting
<1>10. QED
  BY <1>7, <1>8, <1>9 DEF Decoded, h

(* What the steps of the program that no lemma above is about leave alone  *)
LEMMA OthersStutter ==
  ASSUME [Next]_vars, ~ParserQueue, ~MfcDequeue, ~ShowFrame, ~HwHeader, ~HwDecode
  PROVE  UNCHANGED <<offs, hwOut, shown>>
<1>1. CASE UNCHANGED vars \/ main
  BY <1>1 DEF vars, main, parserVars, displayVars, hwOutVars
<1>2. CASE parser_thread_func
  BY <1>2
  DEF parser_thread_func, ParserStart, ParserTest, ParserStop, ParserDequeue, ParserDequeueFails,
      parserRest, displayVars, hwOutVars
<1>3. CASE mfc_thread_func
  BY <1>3
  DEF mfc_thread_func, MfcTest, MfcNeedBuffer, MfcWaitAny, MfcPick, MfcPickSpare, MfcWaitSpare,
      MfcQueue, MfcNoSpare, MfcFinish, MfcDequeueFails, MfcAdd, MfcPost, mfcControl, mfcRest,
      parserVars, hwOutVars
<1>4. CASE display_thread_func
  BY <1>4
  DEF display_thread_func, DisplayTest, DisplayWait, DisplayRemove, ProcessFails, DisplayFree,
      DisplayPost, displayRest, parserVars, hwOutVars
<1>5. CASE Mfc
  BY <1>5 DEF Mfc, HwOutput, HwDrained, hwRest, parserVars, displayVars, hwOutVars
<1>6. QED
  BY <1>1, <1>2, <1>3, <1>4, <1>5 DEF Next

(* The display thread shows a frame.                                       *)
LEMMA DisplayShows ==
  ASSUME IInv, LineInv, faults = 0, ShowFrame
  PROVE  /\ Len(shown) < Decoded /\ shown' = Append(shown, Len(shown) + 1)
         /\ UNCHANGED <<offs, Decoded>>
<1>1. /\ displayPc = "process" /\ shown' = Append(shown, content[displayN])
      /\ UNCHANGED <<offs, hwOut>>
  BY DEF ShowFrame, displayRest, parserVars, hwOutVars
<1>2. line[6] # <<>> /\ Head(line[6]) = content[displayN]
  BY <1>1, StagesOf
<1>3. 6 \in Stages /\ 6 \in Stages \ {1, 3} /\ \A r \in Stages : ~(6 < r /\ r < 7)
  BY DEF Stages
<1>4. Head(line[6]) # 0
  BY <1>2, <1>3, FirstIsFrame DEF IInv, LineInv
<1>5. QED
  BY <1>1, <1>2, <1>3, <1>4, ShowRefines

(* Without a display thread, a frame is shown when it leaves the MFC.      *)
LEMMA MfcShows ==
  ASSUME IInv, LineInv, faults = 0, MfcDequeue, Display = "none"
  PROVE  /\ Len(shown) < Decoded /\ shown' = Append(shown, Len(shown) + 1)
         /\ UNCHANGED <<offs, Decoded>>
<1> DEFINE e == Head(hwCapDone)
<1>1. /\ mfcPc = "dequeue" /\ hwCapDone # <<>> /\ e[2] # 0
      /\ shown' = Append(shown, content[e[1]]) /\ UNCHANGED <<offs, hwOut>>
  BY DEF MfcDequeue, mfcRest, parserVars, hwOutVars
<1>2. hwCapDone \in Seq(CapBufs \X Frames)
  BY DEF IInv, TypeOK
<1>3. 1 \in DOMAIN hwCapDone /\ e = hwCapDone[1]
  BY <1>1, <1>2
<1>4. content[e[1]] = e[2]
  BY <1>1, <1>3 DEF LineInv, Filled
<1>5. line[3] # <<>> /\ Head(line[3]) = e[2]
  BY <1>1, <1>2, StagesOf, CapQueue
<1>6. line[4] = <<>> /\ line[5] = <<>> /\ line[6] = <<>>
  BY <1>1, StagesOf, NothingQueued
<1>7. 3 \in Stages /\ \A r \in Stages : 3 < r /\ r < 7 => r \in {4, 5, 6}
  BY DEF Stages
<1> HIDE DEF e
<1>8. QED
  BY <1>1, <1>4, <1>5, <1>6, <1>7, ShowRefines

(* Each step of the program is one of the pipeline or leaves it alone.     *)
LEMMA StepRefines ==
  ASSUME IInv, LineInv, TypeOK', [Next]_vars, faults' = 0
  PROVE  [Pipeline!Next]_(Pipeline!vars)
<1>1. faults = 0 /\ LineInv
  BY FaultsStay DEF IInv
<1>2. /\ Pipeline!vars = <<offs, Decoded, shown>>
      /\ Pipeline!vars' = <<offs', Decoded', shown'>>
  BY DEF Pipeline!vars, Decoded, Waiting
<1>3. CASE ParserQueue
  <2>1. Pipeline!Parse
    BY <1>3, ParseRefines DEF Pipeline!Parse, Decoded, Waiting
  <2>2. QED
    BY <2>1 DEF Pipeline!Next
<1>4. CASE HwDecode
  <2>1. Pipeline!Decode
    BY <1>1, <1>4, DecodeRefines DEF Pipeline!Decode, Decoded, Waiting
  <2>2. QED
    BY <2>1 DEF Pipeline!Next
<1>5. CASE HwHeader
  <2>1. /\ HeaderNext /\ hwOut # <<>> /\ ConsumeOut /\ UNCHANGED <<offs, shown>> /\ OutBuffers
    BY <1>5 DEF HwHeader, HeaderNext, hwRest, parserVars, displayVars, LineInv
  <2>2. Decoded' = Decoded
    BY <2>1, ConsumeCounts
  <2>3. QED
    BY <1>2, <2>1, <2>2
<1>6. CASE ShowFrame
  <2>1. Pipeline!Show
    BY <1>1, <1>6, DisplayShows DEF Pipeline!Show, Decoded, Waiting
  <2>2. QED
    BY <2>1 DEF Pipeline!Next
<1>7. CASE MfcDequeue
  <2>1. CASE Display = "none"
    <3>1. Pipeline!Show
      BY <1>1, <1>7, <2>1, MfcShows DEF Pipeline!Show, Decoded, Waiting
    <3>2. QED
      BY <3>1 DEF Pipeline!Next
  <2>2. CASE Display # "none"
    <3>1. UNCHANGED <<offs, hwOut, shown>>
      BY <1>7, <2>2 DEF MfcDequeue, mfcRest, parserVars, hwOutVars
    <3>2. QED
      BY <1>2, <3>1, PipelineStutters
  <2>3. QED
    BY <2>1, <2>2
<1>8. CASE ~ParserQueue /\ ~MfcDequeue /\ ~ShowFrame /\ ~HwHeader /\ ~HwDecode
  <2>1. UNCHANGED <<offs, hwOut, shown>>
    BY <1>8, OthersStutter
  <2>2. QED
    BY <1>2, <2>1, PipelineStutters
<1>9. QED
  BY <1>3, <1>4, <1>5, <1>6, <1>7, <1>8

(* Until a system call fails, every step of the program takes one of       *)
(* FramePipeline or leaves it alone: no frame is lost, duplicated or       *)
(* overtaken between the parser, the decoder and the display, and there    *)
(* are never more in flight between two of them than there are buffers.    *)
THEOREM StepsOfPipeline ==
  Spec => Pipeline!Init /\ [][faults' = 0 => [Pipeline!Next]_(Pipeline!vars)]_vars
<1>1. Init => Pipeline!Init
  <2> SUFFICES ASSUME Init PROVE Pipeline!Init
    OBVIOUS
  <2>1. {k \in DOMAIN hwOut : hwOut[k][2] # 0} = {} /\ offs = 0 /\ shown = <<>>
    BY DEF Init
  <2>2. QED
    BY <2>1, FS_EmptySet DEF Pipeline!Init
<1>2. IInv /\ LineInv /\ IInv' /\ [Next]_vars
        => [faults' = 0 => [Pipeline!Next]_(Pipeline!vars)]_vars
  BY StepRefines DEF IInv
<1>3. QED
  BY <1>1, <1>2, LineInvariant, PTL DEF Spec

(* Where none fails, the program implements the safety part of the         *)
(* pipeline's specification.                                               *)
THEOREM ProgramIsPipeline ==
  ASSUME MaxFaults = 0
  PROVE  Spec => Pipeline!Init /\ [][Pipeline!Next]_(Pipeline!vars)
<1>1. IInv' => faults' = 0
  BY DEF IInv, TypeOK
<1>2. UNCHANGED vars => UNCHANGED Pipeline!vars
  BY DEF vars, Pipeline!vars, parserVars, displayVars, hwOutVars
<1>3. QED
  BY <1>1, <1>2, StepsOfPipeline, Accounting, PTL

-----------------------------------------------------------------------------
(* Nobody is stuck: where the buffers are as long as no call has failed    *)

(* The buffers of the pairs in a queue of the MFC                          *)
Carried(s) == {s[k][1] : k \in DOMAIN s}

(* A buffer the display owns is queued for it or in the hands of a thread. *)
AtHand ==
  faults = 0 => \A b \in CapBufs : capFlag[b] = BUF_FIMC =>
    \/ b \in Items(queue)
    \/ mfcPc = "add" /\ b = mfcN
    \/ displayPc \in {"process", "free"} /\ b = displayN

(* A buffer the MFC owns is in its driver; the one that came with the end  *)
(* of the stream is not given back.                                        *)
InDriver ==
  faults = 0 /\ ~finish => \A b \in CapBufs : capFlag[b] = BUF_MFC => b \in DriverBufs

(* A buffer of the parser that is not with it is in the driver.            *)
OutThere ==
  faults = 0 => \A b \in OutBufs : Given(b) => b \in Carried(hwOut) \cup Items(hwOutDone)

(* A thread leaves after an error or at the end of the stream only.        *)
LeftForAReason ==
  /\ mfcPc = "exit" => error \/ finish
  /\ displayPc = "exit" /\ Display # "none" => error \/ finish
  /\ parserPc = "exit" => error \/ finish \/ parserFinished
  /\ parserFinished /\ faults = 0 => hwStopped

(* The empty picture waits for the MFC thread until it is seen.            *)
EndIsComing == hwDrained => finish \/ \E k \in DOMAIN hwCapDone : hwCapDone[k][2] = 0

(* A picture is asked for when the MFC has the buffers it needs.           *)
EnoughQueued == mfcPc = "dequeue" => CapMin <= capQueued

Supplied == AtHand /\ InDriver /\ OutThere /\ LeftForAReason /\ EndIsComing /\ EnoughQueued

(* The buffers of a queue when the first pair leaves it                    *)
LEMMA CarriedTail ==
  ASSUME NEW A, NEW B, NEW s \in Seq(A \X B), s # <<>>
  PROVE  Carried(s) = {Head(s)[1]} \cup Carried(Tail(s)) /\ Head(s)[1] \in A
<1> DEFINE S == A \X B
<1>1. Head(s) \in S /\ Head(s)[1] \in A
  OBVIOUS
<1>2. Items(s) = {Head(s)} \cup Items(Tail(s))
  <2> HIDE DEF S
  <2>1. s \in Seq(S)
    BY DEF S
  <2>2. QED
    BY <2>1, Taken
<1>3. \A q : Carried(q) = {e[1] : e \in Items(q)}
  BY DEF Carried, Items
<1>4. QED
  BY <1>1, <1>2, <1>3

(* and when one is put behind the others                                   *)
LEMMA CarriedAppend ==
  ASSUME NEW A, NEW B, NEW s \in Seq(A \X B), NEW e \in A \X B
  PROVE  Carried(Append(s, e)) = Carried(s) \cup {e[1]}
<1> DEFINE S == A \X B
<1>1. Items(Append(s, e)) = Items(s) \cup {e}
  <2>1. s \in Seq(S) /\ e \in S
    OBVIOUS
  <2> HIDE DEF S
  <2>2. QED
    BY <2>1, Put
<1>2. \A q : Carried(q) = {x[1] : x \in Items(q)}
  BY DEF Carried, Items
<1>3. QED
  BY <1>1, <1>2

(* A queue is at least as long as it has different buffers.                *)
LEMMA CarriedCount ==
  ASSUME NEW S, NEW s \in Seq(S)
  PROVE  Cardinality(Carried(s)) <= Len(s) /\ Len(s) \in Nat
<1> DEFINE f == [k \in 1 .. Len(s) |-> s[k][1]]
<1>1. Len(s) \in Nat /\ DOMAIN s = 1 .. Len(s)
  BY LenProperties
<1>2. f \in Surjection(1 .. Len(s), Carried(s))
  BY <1>1 DEF Surjection, Carried
<1>3. ExistsSurjection(1 .. Len(s), Carried(s))
  BY <1>2 DEF ExistsSurjection
<1>4. QED
  BY <1>1, <1>3, FS_SurjCardinalityBound

(* The buffers in the driver                                               *)
LEMMA DriverHas == DriverBufs = hwCap \cup Carried(hwHeld) \cup Carried(hwCapDone)
BY DEF DriverBufs, Carried

(* after a step                                                            *)
LEMMA DriverHasNext == DriverBufs' = hwCap' \cup Carried(hwHeld') \cup Carried(hwCapDone')
BY DEF DriverBufs, Carried

(* Where a thread stands when it has left, and what ended it               *)
LEMMA LeftKept == IInv /\ IInv' /\ LeftForAReason /\ [Next]_vars => LeftForAReason'
<1> SUFFICES ASSUME IInv, IInv', LeftForAReason, [Next]_vars PROVE LeftForAReason'
  OBVIOUS
<1>1. faults' = 0 => faults = 0
  BY FaultsStay DEF IInv
<1> USE DEF LeftForAReason
<1>2. CASE UNCHANGED <<flagVars, mfcPc, displayPc, parserPc, hwStopped>>
  BY <1>1, <1>2 DEF flagVars
<1>3. CASE parser_thread_func
  <2>1. UNCHANGED <<finish, mfcPc, displayPc>> /\ (error => error')
        /\ (parserFinished => parserFinished') /\ (hwStopped => hwStopped')
    BY <1>3 DEF parser_thread_func, ParserStart, ParserTest, ParserStop, ParserQueue,
         ParserDequeue, ParserDequeueFails, parserRest, mfcVars, displayVars, hwOutVars, mfc_dec_stop
  <2>2. parserPc' = "exit" => error' \/ finish' \/ parserFinished'
    BY <1>3 DEF parser_thread_func, ParserStart, ParserTest, ParserStop, ParserQueue,
         ParserDequeue, ParserDequeueFails, parserRest
  <2>3. parserFinished' /\ faults' = 0 => parserFinished \/ hwStopped'
    <3>1. CASE ParserStop
      <4>1. faults \in Nat /\ (Fault => faults' = faults + 1)
        BY DecoderAssumption DEF IInv, TypeOK, Fault
      <4>2. QED
        BY <3>1, <4>1 DEF ParserStop, mfc_dec_stop
    <3>2. CASE ~ParserStop
      BY <1>3, <3>2 DEF parser_thread_func, ParserStart, ParserTest, ParserQueue,
           ParserDequeue, ParserDequeueFails
    <3>3. QED
      BY <3>1, <3>2
  <2>4. QED
    BY <1>1, <2>1, <2>2, <2>3
<1>4. CASE mfc_thread_func
  <2>1. UNCHANGED <<parserFinished, parserPc, displayPc, hwStopped>> /\ (error => error')
        /\ (finish => finish')
    BY <1>4 DEF mfc_thread_func, MfcTest, MfcNeedBuffer, MfcWaitAny, MfcPick, MfcPickSpare,
         MfcWaitSpare, MfcQueue, MfcNoSpare, MfcDequeue, MfcFinish, MfcDequeueFails, MfcAdd,
         MfcPost, mfcControl, mfcRest, parserVars, hwOutVars
  <2>2. mfcPc' = "exit" => error' \/ finish'
    BY <1>4 DEF mfc_thread_func, MfcTest, MfcNeedBuffer, MfcWaitAny, MfcPick, MfcPickSpare,
         MfcWaitSpare, MfcQueue, MfcNoSpare, MfcDequeue, MfcFinish, MfcDequeueFails, MfcAdd,
         MfcPost, mfcControl, mfcRest, AfterPickSpare
  <2>3. QED
    BY <1>1, <2>1, <2>2
<1>5. CASE display_thread_func
  <2>1. UNCHANGED <<parserFinished, parserPc, mfcPc, hwStopped, finish>> /\ (error => error')
    BY <1>5 DEF display_thread_func, DisplayTest, DisplayWait, DisplayRemove, ShowFrame,
         ProcessFails, DisplayFree, DisplayPost, displayRest, parserVars, mfcVars, hwOutVars
  <2>2. displayPc' = "exit" => error' \/ finish'
    BY <1>5 DEF display_thread_func, DisplayTest, DisplayWait, DisplayRemove, ShowFrame,
         ProcessFails, DisplayFree, DisplayPost, displayRest, KeepShowing
  <2>3. QED
    BY <1>1, <2>1, <2>2
<1>6. CASE main \/ Mfc \/ UNCHANGED vars
  BY <1>2, <1>6 DEF main, Mfc, HwHeader, HwDecode, HwOutput, HwDrained, hwRest, vars, flagVars,
       parserVars, mfcVars, displayVars, hwOutVars
<1>7. QED
  BY <1>3, <1>4, <1>5, <1>6 DEF Next

(* Only the MFC thread counts what is queued.                              *)
LEMMA EnoughKept == IInv /\ EnoughQueued /\ [Next]_vars => EnoughQueued'
<1> SUFFICES ASSUME IInv, EnoughQueued, [Next]_vars PROVE EnoughQueued'
  OBVIOUS
<1>1. CASE UNCHANGED mfcVars
  BY <1>1 DEF EnoughQueued, mfcVars
<1>2. CASE mfc_thread_func
  <2>1. CASE MfcNoSpare
    BY <2>1, DecoderAssumption
    DEF IInv, TypeOK, MfcNoSpare, TooFewQueued, mfcControl, EnoughQueued
  <2>2. CASE mfcPc' # "dequeue"
    BY <2>2 DEF EnoughQueued
  <2>3. QED
    BY <1>2, <2>1, <2>2
    DEF mfc_thread_func, MfcTest, MfcNeedBuffer, MfcWaitAny, MfcPick, MfcPickSpare,
        MfcWaitSpare, MfcQueue, MfcDequeue, MfcFinish, MfcDequeueFails, MfcAdd, MfcPost,
        AfterPickSpare
<1>3. CASE UNCHANGED vars \/ parser_thread_func \/ display_thread_func \/ main \/ Mfc
  BY <1>1, <1>3
  DEF vars, parser_thread_func, ParserStart, ParserTest, ParserStop, ParserQueue, ParserDequeue,
      ParserDequeueFails, parserRest, display_thread_func, DisplayTest, DisplayWait,
      DisplayRemove, ShowFrame, ProcessFails, DisplayFree, DisplayPost, displayRest, main, Mfc,
      HwHeader, HwDecode, HwOutput, HwDrained, hwRest
<1>4. QED
  BY <1>2, <1>3 DEF Next

(* The empty picture is behind the others until it is seen.                *)
LEMMA EndKept == IInv /\ EndIsComing /\ [Next]_vars => EndIsComing'
<1> SUFFICES ASSUME IInv, EndIsComing, [Next]_vars PROVE EndIsComing'
  OBVIOUS
<1>1. hwCapDone \in Seq(CapBufs \X Frames) /\ hwHeld \in Seq(CapBufs \X Frames) /\ hwCap \subseteq CapBufs
  BY DEF IInv, TypeOK
<1>2. CASE UNCHANGED <<hwDrained, hwCapDone, finish>>
  BY <1>2 DEF EndIsComing
<1>3. CASE finish'
  BY <1>3 DEF EndIsComing
<1>4. CASE MfcDequeue
  <2>1. /\ hwCapDone # <<>> /\ hwCapDone' = Tail(hwCapDone) /\ Head(hwCapDone)[2] # 0
        /\ UNCHANGED <<hwDrained, finish>>
    BY <1>4 DEF MfcDequeue, mfcRest
  <2>2. Items(hwCapDone) = {Head(hwCapDone)} \cup Items(hwCapDone')
    <3> DEFINE S == CapBufs \X Frames
    <3>1. hwCapDone \in Seq(S)
      BY <1>1
    <3> HIDE DEF S
    <3>2. QED
      BY <2>1, <3>1, Taken
  <2>3. \A q : (\E k \in DOMAIN q : q[k][2] = 0) <=> \E e \in Items(q) : e[2] = 0
    BY DEF Items
  <2>4. QED
    BY <2>1, <2>2, <2>3 DEF EndIsComing
<1>5. ASSUME NEW e \in CapBufs \X Frames, hwCapDone' = Append(hwCapDone, e), finish' = finish,
             hwDrained' => hwDrained \/ e[2] = 0
      PROVE  EndIsComing'
  <2>1. /\ DOMAIN hwCapDone' = DOMAIN hwCapDone \cup {Len(hwCapDone) + 1}
        /\ hwCapDone'[Len(hwCapDone) + 1] = e
        /\ \A k \in DOMAIN hwCapDone : hwCapDone'[k] = hwCapDone[k]
    BY <1>1, <1>5, AppendIndex
  <2>2. QED
    BY <1>5, <2>1 DEF EndIsComing
<1>6. CASE HwOutput
  <2>1. Head(hwHeld) \in CapBufs \X Frames
    BY <1>1, <1>6, TailIndex DEF HwOutput
  <2>2. QED
    BY <1>5, <1>6, <2>1 DEF HwOutput, hwRest, flagVars
<1>7. CASE HwDrained
  <2>1. PICK b \in hwCap : hwCapDone' = Append(hwCapDone, <<b, 0>>)
    BY <1>7 DEF HwDrained
  <2>2. <<b, 0>> \in CapBufs \X Frames
    BY <1>1, FrameZero
  <2>3. QED
    BY <1>5, <1>7, <2>1, <2>2 DEF HwDrained, hwRest, flagVars
<1>8. CASE mfc_thread_func
  BY <1>2, <1>3, <1>4, <1>8
  DEF mfc_thread_func, MfcTest, MfcNeedBuffer, MfcWaitAny, MfcPick, MfcPickSpare, MfcWaitSpare,
      MfcQueue, MfcNoSpare, MfcFinish, MfcDequeueFails, MfcAdd, MfcPost, mfcControl, mfcRest
<1>9. CASE Mfc
  BY <1>2, <1>6, <1>7, <1>9 DEF Mfc, HwHeader, HwDecode, hwRest, flagVars, hwCapVars
<1>10. CASE UNCHANGED vars \/ parser_thread_func \/ display_thread_func \/ main
  BY <1>2, <1>10
  DEF vars, parser_thread_func, ParserStart, ParserTest, ParserStop, ParserQueue, ParserDequeue,
      ParserDequeueFails, parserRest, display_thread_func, DisplayTest, DisplayWait,
      DisplayRemove, ShowFrame, ProcessFails, DisplayFree, DisplayPost, displayRest, main,
      flagVars, hwCapVars
<1>11. QED
  BY <1>8, <1>9, <1>10 DEF Next

(* What the parser has filled stays in the driver until it has it back.    *)
LEMMA OutThereKept == IInv /\ IInv' /\ OutThere /\ [Next]_vars => OutThere'
<1> SUFFICES ASSUME IInv, IInv', OutThere, [Next]_vars, faults' = 0
             PROVE  \A b \in OutBufs : Given(b)' => b \in Carried(hwOut') \cup Items(hwOutDone')
  BY DEF OutThere, Carried, Items
<1>1. faults = 0 /\ ~Fault
  <2>1. faults = 0
    BY FaultsStay DEF IInv
  <2>2. QED
    BY <2>1 DEF Fault
<1>2. \A b \in OutBufs : Given(b) => b \in Carried(hwOut) \cup Items(hwOutDone)
  BY <1>1 DEF OutThere
<1>3. /\ hwOut \in Seq(OutBufs \X Frames) /\ hwOutDone \in Seq(OutBufs)
      /\ outFlag \in [OutBufs -> BOOLEAN] /\ offs \in 0 .. NFrames
  BY DEF IInv, TypeOK, Frames
<1>4. CASE UNCHANGED <<hwOut, hwOutDone, outFlag>> /\ (parserPc' = parserPc \/ parserPc' # "start")
  BY <1>2, <1>4 DEF Given
<1>5. CASE ParserStart
  BY <1>2, <1>3, <1>5 DEF ParserStart, hwOutVars, Given
<1>6. CASE ParserQueue
  <2>1. PICK b \in OutBufs : /\ outFlag' = [outFlag EXCEPT ![b] = TRUE]
                             /\ hwOut' = Append(hwOut, <<b, offs + 1>>)
    BY <1>1, <1>6 DEF ParserQueue
  <2>2. hwOutDone' = hwOutDone /\ parserPc' = "test" /\ <<b, offs + 1>> \in OutBufs \X Frames
    BY <1>3, <1>6, DecoderAssumption DEF ParserQueue, Frames
  <2>3. Carried(hwOut') = Carried(hwOut) \cup {b}
    BY <1>3, <2>1, <2>2, CarriedAppend
  <2>4. \A c \in OutBufs : Given(c)' => Given(c) \/ c = b
    BY <1>3, <2>1, <2>2 DEF Given
  <2>5. QED
    BY <1>2, <2>2, <2>3, <2>4
<1>7. CASE ParserDequeue
  <2>1. /\ hwOutDone # <<>> /\ hwOutDone' = Tail(hwOutDone) /\ hwOut' = hwOut
        /\ outFlag' = [outFlag EXCEPT ![Head(hwOutDone)] = FALSE] /\ parserPc' = "test"
    BY <1>7 DEF ParserDequeue
  <2>2. /\ Head(hwOutDone) \in OutBufs
        /\ Items(hwOutDone) = {Head(hwOutDone)} \cup Items(hwOutDone')
    BY <1>3, <2>1, Taken
  <2>3. \A c \in OutBufs : Given(c)' => Given(c) /\ c # Head(hwOutDone)
    BY <1>3, <2>1, <2>2 DEF Given
  <2>4. QED
    BY <1>2, <2>1, <2>2, <2>3
<1>8. CASE HwHeader \/ HwDecode
  <2>1. /\ hwOut # <<>> /\ hwOut' = Tail(hwOut) /\ hwOutDone' = Append(hwOutDone, Head(hwOut)[1])
        /\ UNCHANGED <<outFlag, parserPc>>
    BY <1>8 DEF HwHeader, HeaderNext, HwDecode, ConsumeOut, hwRest, parserVars
  <2>2. Carried(hwOut) = {Head(hwOut)[1]} \cup Carried(hwOut') /\ Head(hwOut)[1] \in OutBufs
    <3>1. Carried(hwOut) = {Head(hwOut)[1]} \cup Carried(Tail(hwOut)) /\ Head(hwOut)[1] \in OutBufs
      BY <1>3, <2>1, CarriedTail
    <3>2. QED
      BY <2>1, <3>1
  <2>3. Items(hwOutDone') = Items(hwOutDone) \cup {Head(hwOut)[1]}
    BY <1>3, <2>1, <2>2, Put
  <2>4. \A b : Given(b)' = Given(b)
    BY <2>1 DEF Given
  <2>5. QED
    BY <1>2, <2>2, <2>3, <2>4
<1>9. CASE parser_thread_func
  BY <1>4, <1>5, <1>6, <1>7, <1>9
  DEF parser_thread_func, ParserTest, ParserStop, ParserDequeueFails, hwOutVars
<1>10. CASE Mfc
  BY <1>4, <1>8, <1>10 DEF Mfc, HwOutput, HwDrained, hwRest, hwOutVars, parserVars
<1>11. CASE main \/ UNCHANGED vars \/ display_thread_func \/ mfc_thread_func
  <2>1. UNCHANGED <<parserVars, hwOutVars>>
    BY <1>11
    DEF main, vars, display_thread_func, DisplayTest, DisplayWait, DisplayRemove, ShowFrame,
        ProcessFails, DisplayFree, DisplayPost, displayRest, mfc_thread_func, MfcTest,
        MfcNeedBuffer, MfcWaitAny, MfcPick, MfcPickSpare, MfcWaitSpare, MfcQueue, MfcNoSpare,
        MfcDequeue, MfcFinish, MfcDequeueFails, MfcAdd, MfcPost, mfcControl, mfcRest
  <2>2. QED
    BY <1>4, <2>1 DEF parserVars, hwOutVars
<1>12. QED
  BY <1>9, <1>10, <1>11 DEF Next

(* A buffer the MFC owns is in one of the places of the driver.            *)
LEMMA InDriverKept == IInv /\ IInv' /\ InDriver /\ [Next]_vars => InDriver'
<1> SUFFICES ASSUME IInv, IInv', InDriver, [Next]_vars, faults' = 0, ~finish'
             PROVE  \A b \in CapBufs : capFlag'[b] = BUF_MFC => b \in DriverBufs'
  BY DEF InDriver, DriverBufs
<1>1. faults = 0 /\ ~Fault
  <2>1. faults = 0
    BY FaultsStay DEF IInv
  <2>2. QED
    BY <2>1 DEF Fault
<1>2. ~finish => \A b \in CapBufs : capFlag[b] = BUF_MFC => b \in DriverBufs
  BY <1>1 DEF InDriver
<1>3. /\ hwOut \in Seq(OutBufs \X Frames) /\ hwHeld \in Seq(CapBufs \X Frames)
      /\ hwCapDone \in Seq(CapBufs \X Frames) /\ hwCap \subseteq CapBufs
      /\ capFlag \in [CapBufs -> Flags] /\ mfcN \in CapBufs /\ displayN \in CapBufs
  BY DEF IInv, TypeOK, Flags
<1>4. \A e \in CapBufs \X Frames : Carried(Append(hwCapDone, e)) = Carried(hwCapDone) \cup {e[1]}
  <2> SUFFICES ASSUME NEW e \in CapBufs \X Frames
               PROVE  Carried(Append(hwCapDone, e)) = Carried(hwCapDone) \cup {e[1]}
    OBVIOUS
  <2>1. hwCapDone \in Seq(CapBufs \X Frames)
    BY <1>3
  <2>2. QED
    BY <2>1, CarriedAppend
<1>5. ASSUME DriverBufs \subseteq DriverBufs', finish' = finish, capFlag' = capFlag
      PROVE  \A b \in CapBufs : capFlag'[b] = BUF_MFC => b \in DriverBufs'
  BY <1>2, <1>5
<1>6. CASE UNCHANGED <<hwCap, hwHeld, hwCapDone, finish, capFlag>>
  BY <1>2, <1>6 DEF DriverBufs
<1>7. CASE MfcQueue
  <2>1. /\ hwCap' = hwCap \cup {mfcN} /\ capFlag' = [capFlag EXCEPT ![mfcN] = BUF_MFC]
        /\ UNCHANGED <<hwHeld, hwCapDone, finish>>
    BY <1>1, <1>7 DEF MfcQueue, mfcRest
  <2>2. mfcN \in DriverBufs' /\ DriverBufs \subseteq DriverBufs'
    BY <2>1 DEF DriverBufs
  <2>3. \A b \in CapBufs : b # mfcN => capFlag'[b] = capFlag[b]
    BY <1>3, <2>1
  <2>4. QED
    BY <1>2, <2>1, <2>2, <2>3
<1>8. CASE MfcDequeue
  <2> DEFINE b == Head(hwCapDone)[1]
  <2>1. /\ hwCapDone # <<>> /\ hwCapDone' = Tail(hwCapDone) /\ capFlag' = [capFlag EXCEPT ![b] = HandedTo]
        /\ UNCHANGED <<hwCap, hwHeld, finish>>
    BY <1>8 DEF MfcDequeue, mfcRest
  <2>2. Carried(hwCapDone) = {b} \cup Carried(Tail(hwCapDone)) /\ b \in CapBufs
    BY <1>3, <2>1, CarriedTail
  <2>3. DriverBufs \subseteq DriverBufs' \cup {b}
    <3>1. DriverBufs' = hwCap \cup Carried(hwHeld) \cup Carried(Tail(hwCapDone))
      BY <2>1, DriverHasNext
    <3>2. QED
      BY <2>2, <3>1, DriverHas
  <2>4. capFlag'[b] # BUF_MFC
    BY <1>3, <2>1, <2>2 DEF HandedTo, BUF_FREE, BUF_MFC, BUF_FIMC
  <2>5. \A c \in CapBufs : c # b => capFlag'[c] = capFlag[c]
    BY <1>3, <2>1, <2>2
  <2> HIDE DEF b
  <2>6. QED
    BY <1>2, <2>1, <2>3, <2>4, <2>5
<1>9. CASE DisplayFree
  <2>1. capFlag' = [capFlag EXCEPT ![displayN] = BUF_FREE] /\ UNCHANGED <<hwCap, hwHeld, hwCapDone, finish>>
    BY <1>9 DEF DisplayFree, displayRest, hwCapVars
  <2>2. \A b \in CapBufs : capFlag'[b] = BUF_MFC => capFlag[b] = BUF_MFC
    BY <1>3, <2>1 DEF BUF_FREE, BUF_MFC
  <2>3. DriverBufs' = DriverBufs
    BY <2>1 DEF DriverBufs
  <2>4. QED
    BY <1>2, <2>1, <2>2, <2>3
<1>10. CASE HwDecode
  <2>1. PICK b \in hwCap : hwCap' = hwCap \ {b} /\ hwHeld' = Append(hwHeld, <<b, Head(hwOut)[2]>>)
    BY <1>10 DEF HwDecode
  <2>2. hwCapDone' = hwCapDone /\ finish' = finish /\ capFlag' = capFlag
        /\ <<b, Head(hwOut)[2]>> \in CapBufs \X Frames
    <3>1. Head(hwOut) \in OutBufs \X Frames
      BY <1>3, <1>10, TailIndex DEF HwDecode
    <3>2. QED
      BY <1>3, <1>10, <3>1 DEF HwDecode, hwRest, flagVars
  <2>3. Carried(Append(hwHeld, <<b, Head(hwOut)[2]>>)) = Carried(hwHeld) \cup {b}
    BY <1>3, <2>2, CarriedAppend
  <2>4. DriverBufs \subseteq DriverBufs'
    BY <2>1, <2>2, <2>3, DriverHas, DriverHasNext
  <2>5. QED
    BY <1>5, <2>2, <2>4
<1>11. CASE HwOutput
  <2>1. /\ hwHeld # <<>> /\ hwCapDone' = Append(hwCapDone, Head(hwHeld)) /\ hwHeld' = Tail(hwHeld)
        /\ UNCHANGED <<hwCap, finish, capFlag>>
    BY <1>11 DEF HwOutput, hwRest, flagVars
  <2>2. Carried(hwHeld) = {Head(hwHeld)[1]} \cup Carried(Tail(hwHeld))
    BY <1>3, <2>1, CarriedTail
  <2>3. Head(hwHeld) \in CapBufs \X Frames
    BY <1>3, <2>1, TailIndex
  <2>4. Carried(Append(hwCapDone, Head(hwHeld))) = Carried(hwCapDone) \cup {Head(hwHeld)[1]}
    BY <2>3, <1>4
  <2>5. DriverBufs \subseteq DriverBufs'
    BY <2>1, <2>2, <2>4, DriverHas, DriverHasNext
  <2>6. QED
    BY <1>5, <2>1, <2>5
<1>12. CASE HwDrained
  <2>1. PICK b \in hwCap : hwCap' = hwCap \ {b} /\ hwCapDone' = Append(hwCapDone, <<b, 0>>)
    BY <1>12 DEF HwDrained
  <2>2. <<b, 0>> \in CapBufs \X Frames /\ UNCHANGED <<hwHeld, finish, capFlag>>
    BY <1>3, <1>12, FrameZero DEF HwDrained, hwRest, flagVars
  <2>3. Carried(Append(hwCapDone, <<b, 0>>)) = Carried(hwCapDone) \cup {b}
    BY <2>2, <1>4
  <2>4. DriverBufs \subseteq DriverBufs'
    BY <2>1, <2>2, <2>3, DriverHas, DriverHasNext
  <2>5. QED
    BY <1>5, <2>2, <2>4
<1>13. CASE mfc_thread_func
  BY <1>6, <1>7, <1>8, <1>13
  DEF mfc_thread_func, MfcTest, MfcNeedBuffer, MfcWaitAny, MfcPick, MfcPickSpare, MfcWaitSpare,
      MfcNoSpare, MfcFinish, MfcDequeueFails, MfcAdd, MfcPost, mfcControl, mfcRest
<1>14. CASE display_thread_func
  BY <1>6, <1>9, <1>14
  DEF display_thread_func, DisplayTest, DisplayWait, DisplayRemove, ShowFrame, ProcessFails,
      DisplayPost, displayRest, hwCapVars
<1>15. CASE Mfc
  BY <1>6, <1>10, <1>11, <1>12, <1>15 DEF Mfc, HwHeader, hwRest, flagVars, hwCapVars
<1>16. CASE UNCHANGED vars \/ parser_thread_func \/ main
  BY <1>6, <1>16
  DEF vars, parser_thread_func, ParserStart, ParserTest, ParserStop, ParserQueue, ParserDequeue,
      ParserDequeueFails, parserRest, main, flagVars, hwCapVars
<1>17. QED
  BY <1>13, <1>14, <1>15, <1>16 DEF Next

(* A buffer the display owns is on its way there or being shown.           *)
LEMMA AtHandKept == IInv /\ IInv' /\ AtHand /\ [Next]_vars => AtHand'
<1> SUFFICES ASSUME IInv, IInv', AtHand, [Next]_vars, faults' = 0,
                    NEW b \in CapBufs, capFlag'[b] = BUF_FIMC
             PROVE  \/ b \in Items(queue')
                    \/ mfcPc' = "add" /\ b = mfcN'
                    \/ displayPc' \in {"process", "free"} /\ b = displayN'
  BY DEF AtHand, Items
<1>1. faults = 0 /\ ~Fault /\ ~error'
  <2>1. faults = 0
    BY FaultsStay DEF IInv
  <2>2. QED
    BY <2>1 DEF Fault, IInv, NoFalseAlarm
<1>2. \A c \in CapBufs : capFlag[c] = BUF_FIMC =>
        \/ c \in Items(queue)
        \/ mfcPc = "add" /\ c = mfcN
        \/ displayPc \in {"process", "free"} /\ c = displayN
  BY <1>1 DEF AtHand
<1>3. /\ hwCapDone \in Seq(CapBufs \X Frames) /\ queue \in Seq(CapBufs)
      /\ capFlag \in [CapBufs -> Flags] /\ mfcN \in CapBufs /\ displayN \in CapBufs
  BY DEF IInv, TypeOK, Flags
<1>4. CASE /\ UNCHANGED <<capFlag, queue>>
           /\ UNCHANGED <<mfcPc, mfcN>> \/ mfcPc # "add"
           /\ UNCHANGED <<displayPc, displayN>> \/ displayPc \notin {"process", "free"}
                \/ (displayPc' \in {"process", "free"} /\ displayN' = displayN)
  BY <1>2, <1>4
<1>5. CASE MfcQueue
  BY <1>2, <1>3, <1>5 DEF MfcQueue, mfcRest, syncVars, BUF_FIMC, BUF_MFC
<1>6. CASE MfcDequeue
  <2>1. /\ mfcPc = "dequeue" /\ capFlag' = [capFlag EXCEPT ![mfcN'] = HandedTo]
        /\ mfcPc' = IF Display = "none" THEN "test" ELSE "add"
        /\ UNCHANGED <<queue, displayPc, displayN>>
    BY <1>6 DEF MfcDequeue, mfcRest, syncVars
  <2>2. CASE b # mfcN'
    BY <1>2, <1>3, <2>1, <2>2
  <2>3. CASE b = mfcN'
    BY <1>3, <2>1, <2>3 DEF HandedTo, BUF_FREE, BUF_FIMC
  <2>4. QED
    BY <2>2, <2>3
<1>7. CASE MfcAdd
  <2>1. /\ mfcPc = "add" /\ queue' = queue_add(queue, mfcN)
        /\ UNCHANGED <<capFlag, displayPc, displayN>>
    BY <1>7 DEF MfcAdd, mfcControl, mfcRest
  <2>2. Len(queue) < QueueSize
    BY <1>3, <2>1, QueueHasRoom DEF IInv, ThreadsHold
  <2>3. Items(queue') = Items(queue) \cup {mfcN}
    <3>1. queue' = Append(queue, mfcN)
      BY <2>1, <2>2 DEF queue_add
    <3>2. Items(Append(queue, mfcN)) = Items(queue) \cup {mfcN}
      BY <1>3, Put
    <3>3. QED
      BY <3>1, <3>2
  <2>4. QED
    BY <1>2, <2>1, <2>3
<1>8. CASE DisplayRemove
  <2>1. /\ queue # <<>> /\ displayPc' = "process" /\ displayN' = Head(queue) /\ queue' = Tail(queue)
        /\ displayPc = "remove" /\ UNCHANGED <<capFlag, mfcPc, mfcN>>
    BY <1>1, <1>8 DEF DisplayRemove, displayRest, mfcVars
  <2>2. Items(queue) = {Head(queue)} \cup Items(Tail(queue))
    BY <1>3, <2>1, Taken
  <2>3. QED
    BY <1>2, <2>1, <2>2
<1>9. CASE DisplayFree
  BY <1>2, <1>3, <1>9 DEF DisplayFree, displayRest, mfcVars, syncVars, BUF_FREE, BUF_FIMC
<1>10. CASE mfc_thread_func
  BY <1>1, <1>4, <1>5, <1>6, <1>7, <1>10
  DEF mfc_thread_func, MfcTest, MfcNeedBuffer, MfcWaitAny, MfcPick, MfcPickSpare, MfcWaitSpare,
      MfcNoSpare, MfcFinish, MfcDequeueFails, MfcPost, mfcControl, mfcRest, syncVars
<1>11. CASE display_thread_func
  BY <1>1, <1>4, <1>8, <1>9, <1>11
  DEF display_thread_func, DisplayTest, DisplayWait, ShowFrame, ProcessFails, DisplayPost,
      displayRest, mfcVars, syncVars
<1>12. CASE UNCHANGED vars \/ parser_thread_func \/ main \/ Mfc
  BY <1>4, <1>12
  DEF vars, parser_thread_func, ParserStart, ParserTest, ParserStop, ParserQueue, ParserDequeue,
      ParserDequeueFails, parserRest, main, mfcVars, displayVars, syncVars, Mfc, HwHeader,
      HwDecode, HwOutput, HwDrained, hwRest
<1>13. QED
  BY <1>10, <1>11, <1>12 DEF Next

(* At the start every buffer is with the MFC and only the header is filled. *)
LEMMA InitSupplied == Init => Supplied
<1> SUFFICES ASSUME Init PROVE Supplied
  OBVIOUS
<1>1. /\ capFlag = [b \in CapBufs |-> BUF_MFC] /\ hwCap = CapBufs /\ hwOut = << <<0, 0>> >>
      /\ outFlag = [b \in OutBufs |-> FALSE] /\ parserPc = "start" /\ mfcPc = "test"
      /\ ~hwDrained /\ ~parserFinished
      /\ displayPc = (IF Display = "none" THEN "exit" ELSE "test")
  BY DEF Init
<1>2. AtHand
  BY <1>1 DEF AtHand, BUF_MFC, BUF_FIMC
<1>3. InDriver
  BY <1>1 DEF InDriver, DriverBufs
<1>4. OutThere
  <2>1. 1 \in DOMAIN hwOut /\ hwOut[1][1] = 0
    BY <1>1
  <2>2. 0 \in Carried(hwOut)
    BY <2>1 DEF Carried
  <2>3. QED
    BY <1>1, <2>2 DEF OutThere, Given
<1>5. LeftForAReason /\ EndIsComing /\ EnoughQueued
  BY <1>1 DEF LeftForAReason, EndIsComing, EnoughQueued
<1>6. QED
  BY <1>2, <1>3, <1>4, <1>5 DEF Supplied

(* Where the buffers are, in every reachable state                         *)
THEOREM BuffersAreSupplied == Spec => [](IInv /\ Supplied)
<1>1. IInv /\ IInv' /\ Supplied /\ [Next]_vars => Supplied'
  BY AtHandKept, InDriverKept, OutThereKept, LeftKept, EndKept, EnoughKept DEF Supplied
<1>2. QED
  BY <1>1, InitSupplied, Accounting, PTL DEF Spec

(* While the display thread waits, or there is none, no buffer is its own. *)
LEMMA NoneOnDisplay ==
  ASSUME IInv, AtHand, faults = 0, mfcPc \notin {"add", "post"},
         (displayPc = "wait" /\ todo = 0) \/ Display = "none"
  PROVE  \A b \in CapBufs : capFlag[b] # BUF_FIMC
<1>1. CASE Display = "none"
  BY <1>1 DEF IInv, NoDisplayThread
<1>2. CASE displayPc = "wait" /\ todo = 0 /\ Display # "none"
  <2>1. Len(queue) = 0 /\ queue \in Seq(CapBufs)
    BY <1>2 DEF IInv, SemaphoresCountBuffers, One, TypeOK
  <2>2. Items(queue) = {}
    BY <2>1 DEF Items
  <2>3. QED
    BY <1>2, <2>2 DEF AtHand
<1>3. QED
  BY <1>1, <1>2

(* Then the MFC thread does not wait for it either: there is no free       *)
(* buffer, so that it has either come by one or given the MFC enough.      *)
LEMMA MfcThreadHasNoReason ==
  ASSUME IInv, AtHand, faults = 0, (displayPc = "wait" /\ todo = 0) \/ Display = "none",
         mfcPc \in {"waitAny", "waitSpare"}
  PROVE  done > 0
<1> SUFFICES ASSUME ~(done > 0) PROVE FALSE
  OBVIOUS
<1>1. displayPc = "wait" /\ Display # "none" /\ done = 0
  BY DEF IInv, NoDisplayThread, TypeOK
<1>2. Cardinality(Flagged(BUF_FREE)) = 0
  BY <1>1 DEF IInv, SemaphoresCountBuffers, One
<1>3. \A b \in CapBufs : capFlag[b] # BUF_FREE
  <2>1. Flagged(BUF_FREE) = {}
    BY <1>2, FlaggedFinite, FS_EmptySet
  <2>2. QED
    BY <2>1 DEF Flagged
<1>4. CASE mfcPc = "waitSpare"
  BY <1>3, <1>4 DEF IInv, ThreadsHold, TypeOK
<1>5. CASE mfcPc = "waitAny"
  <2>1. capQueued < CapMin /\ capQueued = Cardinality(Flagged(BUF_MFC))
    BY <1>5 DEF IInv, ThreadsHold, FlagsMatchQueues
  <2>2. Flagged(BUF_MFC) \in SUBSET CapBufs /\ Cardinality(Flagged(BUF_MFC)) < CapCnt
    <3>1. Cardinality(Flagged(BUF_MFC)) \in Nat
      BY FlaggedFinite
    <3>2. Cardinality(Flagged(BUF_MFC)) < CapCnt
      BY <2>1, <3>1, DecoderAssumption
    <3>3. QED
      BY <3>2 DEF Flagged
  <2>3. PICK b \in CapBufs : b \notin Flagged(BUF_MFC)
    BY <2>2, OneLeft
  <2>4. capFlag[b] = BUF_FIMC
    BY <1>3, <2>3 DEF IInv, TypeOK, Flagged
  <2>5. QED
    BY <1>5, <2>4, NoneOnDisplay
<1>6. QED
  BY <1>4, <1>5

(* When the MFC has no buffer to decode into it holds as many pictures as  *)
(* there are buffers queued.                                               *)
LEMMA HeldWhenFull ==
  ASSUME IInv, InDriver, faults = 0, ~finish, hwCap = {}, hwCapDone = <<>>
  PROVE  capQueued <= Len(hwHeld)
<1>1. DriverBufs = Carried(hwHeld)
  BY DEF DriverBufs, Carried
<1>2. Flagged(BUF_MFC) = Carried(hwHeld)
  <2>1. Flagged(BUF_MFC) \subseteq DriverBufs
    BY DEF InDriver, Flagged
  <2>2. DriverBufs \subseteq Flagged(BUF_MFC)
    BY DriverInRange DEF IInv, ExclusiveOwnership, Flagged
  <2>3. QED
    BY <1>1, <2>1, <2>2
<1>3. Cardinality(Carried(hwHeld)) <= Len(hwHeld)
  <2>1. hwHeld \in Seq(CapBufs \X Frames)
    BY DEF IInv, TypeOK
  <2>2. QED
    BY <2>1, CarriedCount
<1>4. QED
  BY <1>2, <1>3 DEF IInv, FlagsMatchQueues

(* While there is a buffer to decode into the parser has work to do, or the *)
(* stream is stopped and the end of it comes out.                          *)
LEMMA ParserSupplies ==
  ASSUME IInv, OutThere, LeftForAReason, faults = 0, ~finish, ParserWaits, hwOut = <<>>
  PROVE  Draining
<1>1. ~error
  BY DEF IInv, NoFalseAlarm
<1>2. CASE parserPc = "exit"
  BY <1>1, <1>2 DEF LeftForAReason, Draining
<1>3. CASE (\A b \in OutBufs : outFlag[b]) /\ hwOutDone = <<>>
  <2>1. 0 \in Carried(hwOut) \cup Items(hwOutDone)
    BY <1>3, FrameZero DEF OutThere, Given
  <2>2. Carried(hwOut) = {} /\ Items(hwOutDone) = {}
    BY <1>3 DEF Carried, Items
  <2>3. QED
    BY <2>1, <2>2
<1>4. QED
  BY <1>2, <1>3 DEF ParserWaits

(* Before the end of the stream is seen the threads and the MFC never all  *)
(* wait for each other, unless a call has failed.                          *)
THEOREM NobodyIsEverStuck == Spec => []NobodyIsStuck
<1>1. IInv /\ Supplied => NobodyIsStuck
  <2> SUFFICES ASSUME IInv, Supplied, CapMin > 0, faults = 0, ~finish,
                      ParserWaits, MfcThreadWaits, DisplayWaits, MfcWaits
               PROVE  FALSE
    BY DEF NobodyIsStuck
  <2> USE DEF Supplied
  <2>1. ~error
    BY DEF IInv, NoFalseAlarm
  <2>2. (displayPc = "wait" /\ todo = 0) \/ Display = "none"
    BY <2>1 DEF DisplayWaits, LeftForAReason
  <2>3. mfcPc = "dequeue" /\ hwCapDone = <<>>
    BY <2>1, <2>2, MfcThreadHasNoReason DEF MfcThreadWaits, LeftForAReason
  <2>4. CapMin <= capQueued /\ ~hwDrained
    BY <2>3 DEF EnoughQueued, EndIsComing
  <2>5. CASE hwCap = {}
    <3>1. capQueued <= Len(hwHeld) /\ Len(hwHeld) \in Nat /\ capQueued \in Int
      BY <2>3, <2>5, HeldWhenFull DEF IInv, TypeOK
    <3>2. Len(hwHeld) >= CapMin /\ Len(hwHeld) # 0
      BY <2>4, <3>1, DecoderAssumption
    <3>3. hwHeld # <<>>
      BY <3>2
    <3>4. QED
      BY <3>1, <3>2, <3>3, DecoderAssumption DEF MfcWaits
  <2>6. CASE hwCap # {}
    <3>1. hwOut = <<>>
      BY <2>6 DEF MfcWaits
    <3>2. Draining
      BY <3>1, ParserSupplies
    <3>3. QED
      BY <2>4, <2>6, <3>2 DEF MfcWaits
  <2>7. QED
    BY <2>5, <2>6
<1>2. QED
  BY <1>1, BuffersAreSupplied, PTL
=============================================================================
