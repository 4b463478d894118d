------------------------- MODULE DirectProgramProofs -------------------------
(***************************************************************************)
(* v4l2-mfc-drm-direct, for any number of frames, of source buffers and of *)
(* pages, and whatever call fails.  First DrmDirect: the pages and the     *)
(* frames in them.  Then DirectSetup: the flags stand for what exists, and *)
(* everything is released, and released once.  Then the whole program: it  *)
(* keeps all this, takes no page away from the devices, and shows the      *)
(* frames in their order.  Last it is shown to implement FramePipeline, and*)
(* never to wait for itself.                                               *)
(***************************************************************************)
EXTENDS DirectProgram, QueueLemmas

(* The V4L2 indices that the MFC has are indices of pages, and none is in  *)
(* two of its queues; a page has one index.                                *)
Indices ==
  /\ Distinct(dest_buffers) /\ Distinct(dest) /\ Distinct(held) /\ Distinct(destReady)
  /\ Items(dest) \cup Items(held) \cup Items(destReady) \subseteq DOMAIN dest_buffers
  /\ Items(dest) \cap Items(held) = {} /\ Items(dest) \cap Items(destReady) = {}
  /\ Items(held) \cap Items(destReady) = {}
  /\ dest_num_queued = Len(dest) + Len(held) + Len(destReady)

(* The thread has a page only while it is about to show or to queue it, or *)
(* when it failed doing so.                                                *)
ThreadPage ==
  /\ ppc \in {"flip", "wait", "commit", "queue"} => page # None
  /\ ppc \in {"test", "dequeue", "get", "getWait"} => page = None

(* A page has one owner: the MFC, the thread, or the display, which is to  *)
(* show it, has reported its flip, or shows it; and every owner's page is  *)
(* marked as used.                                                         *)
OwnedOnce ==
  /\ Distinct(events)
  /\ page \notin AtMfc \cup Items(events) \cup {cur_page, flipping} \/ page = None
  /\ flipping \notin AtMfc \cup Items(events) \cup {cur_page}
  /\ cur_page \notin AtMfc \cup Items(events)
  /\ AtMfc \cap Items(events) = {}
  /\ \A p \in (AtMfc \cup Items(events) \cup {cur_page, flipping, page}) \ {None} : page_used[p]

(* The page shown is that of the last flip reported.                       *)
LastFlip == scanout = IF events = <<>> THEN cur_page ELSE events[Len(events)]

(* The frames follow each other from the screen back to the parser.        *)
Presenting == IF ppc \in {"flip", "wait", "commit"} THEN 1 ELSE 0
Before     == Len(shown) + (IF flipping = None THEN 0 ELSE 1) + Presenting

FlipInLine == flipping # None => content[flipping] = Len(shown) + 1

Parsing == mpc \in {"check", "fill", "dequeue"} \/ (mpc = "test" /\ ~error)

MfcInLine ==
  /\ Presenting = 1 => content[page] = Before
  /\ \A k \in DOMAIN destReady : content[dest_buffers[destReady[k]]] = Before + k
  /\ \A k \in DOMAIN held : content[dest_buffers[held[k]]] = Before + Len(destReady) + k
  /\ \A k \in DOMAIN source : source[k][2] = Before + Len(destReady) + Len(held) + k
  /\ Parsing => parsed = Before + Len(destReady) + Len(held) + Len(source)

FramesInLine == ShownInOrder /\ FlipInLine /\ (ppc \notin {"error", "stopped"} => MfcInLine)

DirectInv == TypeOK /\ Indices /\ ThreadPage /\ OwnedOnce /\ LastFlip /\ FramesInLine

-----------------------------------------------------------------------------
(* A queue of different pages is not longer than there are pages.          *)
LEMMA DistinctLength ==
  ASSUME NEW s \in Seq(Pages), Distinct(s)
  PROVE  Len(s) <= NPages
<1>1. Len(s) \in Nat /\ DOMAIN s = 1 .. Len(s) /\ s \in [1 .. Len(s) -> Pages]
  OBVIOUS
<1>2. NPages \in Nat
  BY DirectAssumption
<1>3. \A n \in Nat : IsFiniteSet(1 .. n) /\ Cardinality(1 .. n) = n
  <2> TAKE n \in Nat
  <2>1. IsFiniteSet(1 .. n) /\ Cardinality(1 .. n) = IF 1 > n THEN 0 ELSE n - 1 + 1
    BY FS_Interval
  <2>2. QED
    BY <2>1
<1>4. s \in Injection(1 .. Len(s), Pages)
  BY <1>1 DEF Injection, IsInjective, Distinct
<1>5. QED
  <2>1. IsFiniteSet(Pages) /\ Cardinality(Pages) = NPages /\ Cardinality(1 .. Len(s)) = Len(s)
    BY <1>1, <1>2, <1>3 DEF Pages
  <2>2. Cardinality(1 .. Len(s)) <= Cardinality(Pages)
    BY <1>4, <2>1, FS_Injection
  <2>3. QED
    BY <2>1, <2>2

-----------------------------------------------------------------------------
(* Types, for each part of the state                                       *)

ThreadTypes ==
  /\ mpc \in {"test", "check", "fill", "dequeue", "error", "join", "done"}
  /\ ppc \in {"test", "dequeue", "flip", "wait", "commit", "get", "getWait", "queue",
              "error", "stopped"}
  /\ error \in BOOLEAN /\ pageflip_pending \in BOOLEAN /\ streaming \in BOOLEAN
  /\ next \in 1 .. NSrc + 1 /\ parsed \in 0 .. NFrames /\ faults \in 0 .. MaxFaults
SourceTypes ==
  /\ busy \in [Srcs -> BOOLEAN]
  /\ source \in Seq(Srcs \X (1 .. NFrames)) /\ sourceDone \in Seq(Srcs)
PageTypes ==
  /\ dest_buffers \in Seq(Pages) /\ dest_num_queued \in Nat
  /\ page \in Pages \cup {None} /\ cur_page \in Pages /\ page_used \in [Pages -> BOOLEAN]
  /\ dest \in Seq(Pages) /\ held \in Seq(Pages) /\ destReady \in Seq(Pages)
ScreenTypes ==
  /\ scanout \in Pages /\ flipping \in Pages \cup {None} /\ events \in Seq(Pages)
  /\ content \in [Pages -> 0 .. NFrames] /\ shown \in Seq(0 .. NFrames)

(* They are the type invariant.                                            *)
LEMMA TypeParts == TypeOK <=> ThreadTypes /\ SourceTypes /\ PageTypes /\ ScreenTypes
BY DEF TypeOK, ThreadTypes, SourceTypes, PageTypes, ScreenTypes

(* The threads' own variables                                              *)
LEMMA ThreadStep == TypeOK /\ Next => ThreadTypes'
<1> SUFFICES ASSUME ThreadTypes, Next PROVE ThreadTypes'
  BY TypeParts
<1> USE DirectAssumption DEF ThreadTypes, Fault, mainVars, presVars, swVars
<1>1. CASE Main
  <2>1. CASE MainTest \/ RunDequeue \/ Join
    BY <2>1 DEF MainTest, RunDequeue, Join
  <2>7. CASE RunSkip \/ ParseFails
    BY <2>7 DEF RunSkip, ParseFails
  <2>8. CASE MainError
    BY <2>8 DEF MainError
  <2>5. CASE RunCheck
    <3>1. CASE dest_num_queued < MinQueued
      BY <2>5, <3>1 DEF RunCheck
    <3>2. CASE ~(dest_num_queued < MinQueued)
      <4>1. streaming' = TRUE /\ next' = 1 /\ mpc' = "fill"
        BY <2>5, <3>2 DEF RunCheck
      <4>2. next' \in 1 .. NSrc + 1
        BY <4>1
      <4>3. QED
        BY <2>5, <4>1, <4>2 DEF RunCheck
    <3>3. QED
      BY <3>1, <3>2
  <2>6. CASE RunFilled
    BY <2>6 DEF RunFilled
  <2>2. CASE RunQueue
    BY <2>2 DEF RunQueue, FrameFinished
  <2>3. CASE StreamOnFails \/ RunQueueFails \/ RunDequeueFails
    BY <2>3 DEF StreamOnFails, RunQueueFails, RunDequeueFails, FrameFinished
  <2>4. QED
    BY <1>1, <2>1, <2>2, <2>3, <2>5, <2>6, <2>7, <2>8 DEF Main
<1>2. CASE presentation_thread
  <2>1. CASE PresTest \/ dequeue_dest \/ issue_flip \/ CommitRefused \/ get_page \/ NoPage
               \/ queue_dest \/ PresError
    BY <2>1 DEF PresTest, dequeue_dest, issue_flip, CommitRefused, get_page, NoPage, queue_dest,
      PresError
  <2>2. CASE WaitForFlip \/ Commit
    BY <2>2 DEF WaitForFlip, HandleFlip, Commit
  <2>3. CASE DequeueFails \/ WaitInterrupted \/ CommitFails \/ QueueFails
    BY <2>3 DEF DequeueFails, WaitInterrupted, CommitFails, QueueFails
  <2>4. QED
    BY <1>2, <2>1, <2>2, <2>3 DEF presentation_thread
<1>3. CASE MfcDecode \/ MfcDeliver \/ Vblank
  BY <1>3 DEF MfcDecode, MfcDeliver, Vblank
<1>4. QED
  BY <1>1, <1>2, <1>3 DEF Next

(* The source buffers: the frames in them are those of the stream.         *)
LEMMA SourceStep == TypeOK /\ Next => SourceTypes'
<1> SUFFICES ASSUME ThreadTypes, SourceTypes, Next PROVE SourceTypes'
  BY TypeParts
<1> USE DirectAssumption DEF SourceTypes
<1>1. CASE RunQueue
  <2>1. next \in Srcs /\ parsed + 1 \in 1 .. NFrames
    BY <1>1 DEF RunQueue, FrameFinished, ThreadTypes, Srcs
  <2>2. source' \in Seq(Srcs \X (1 .. NFrames))
    BY <1>1, <2>1, Put DEF RunQueue
  <2>3. QED
    BY <1>1, <2>2 DEF RunQueue
<1>2. CASE RunDequeue
  <2>1. sourceDone' \in Seq(Srcs)
    BY <1>2, Taken DEF RunDequeue
  <2>2. QED
    BY <1>2, <2>1 DEF RunDequeue
<1>3. CASE MfcDecode
  <2>1. Head(source) \in Srcs \X (1 .. NFrames) /\ source' \in Seq(Srcs \X (1 .. NFrames))
    BY <1>3, Taken DEF MfcDecode
  <2>2. sourceDone' \in Seq(Srcs)
    BY <1>3, <2>1, Put DEF MfcDecode
  <2>3. QED
    BY <1>3, <2>1, <2>2 DEF MfcDecode, swVars, mainVars
<1>4. CASE UNCHANGED <<busy, source, sourceDone>>
  BY <1>4
<1>5. QED
  BY <1>1, <1>2, <1>3, <1>4 DEF Next, Main, MainTest, RunCheck, StreamOnFails, RunSkip, RunQueue, RunQueueFails, ParseFails,
    RunFilled, RunDequeue, RunDequeueFails, MainError, Join, presentation_thread, PresTest, dequeue_dest, DequeueFails, issue_flip, WaitForFlip,
    HandleFlip, WaitInterrupted, Commit, CommitRefused, CommitFails, get_page, NoPage, queue_dest,
    QueueFails, PresError,
    MfcDeliver, Vblank, vars, mainVars, mfcVars, swVars

-----------------------------------------------------------------------------
(* The pages and their indices                                             *)

MfcIndices == Items(dest) \cup Items(held) \cup Items(destReady)

(* The pages of the MFC are those of its indices.                          *)
LEMMA PagesAtMfc ==
  /\ \A p : p \in AtMfc <=> \E i \in MfcIndices : p = dest_buffers[i]
  /\ \A p : p \in AtMfc' <=> \E i \in MfcIndices' : p = dest_buffers'[i]
BY DEF AtMfc, PagesOf, MfcIndices, Items

(* The thread is given the page of the index dequeued.                     *)
LEMMA DequeueMoves ==
  TypeOK /\ Indices /\ dequeue_dest =>
    /\ Indices' /\ PageTypes' /\ UNCHANGED dest_buffers
    /\ Head(destReady) \in DOMAIN dest_buffers /\ page' = dest_buffers[Head(destReady)]
    /\ page' \in AtMfc /\ AtMfc' = AtMfc \ {page'}
<1> SUFFICES ASSUME TypeOK, Indices, dequeue_dest
             PROVE  /\ Indices' /\ PageTypes' /\ UNCHANGED dest_buffers
                    /\ Head(destReady) \in DOMAIN dest_buffers
                    /\ page' = dest_buffers[Head(destReady)]
                    /\ page' \in AtMfc /\ AtMfc' = AtMfc \ {page'}
  OBVIOUS
<1> DEFINE i == Head(destReady)
<1>1. /\ i \in Items(destReady) /\ Items(destReady) = {i} \cup Items(destReady')
      /\ i \notin Items(destReady') /\ Distinct(destReady') /\ destReady' \in Seq(Pages)
      /\ Len(destReady') = Len(destReady) - 1 /\ Len(destReady) \in Nat
      /\ Len(dest) \in Nat /\ Len(held) \in Nat
  BY Taken, Held DEF dequeue_dest, TypeOK, Indices
<1>2. UNCHANGED <<dest, held, dest_buffers, cur_page, page_used>> /\ page' = dest_buffers[i]
  BY DEF dequeue_dest
<1> HIDE DEF i
<1>3. i \in DOMAIN dest_buffers /\ page' \in Pages
  BY <1>1, <1>2, SMTT(30) DEF Indices, TypeOK
<1>4. dest_num_queued' = Len(dest') + Len(held') + Len(destReady') /\ dest_num_queued' \in Nat
  <2>1. Len(destReady') \in Nat
    BY <1>1, Held
  <2>2. dest_num_queued' = dest_num_queued - 1
    BY DEF dequeue_dest
  <2>3. QED
    BY <1>1, <1>2, <2>1, <2>2 DEF Indices
<1>5. Indices'
  BY <1>1, <1>2, <1>4 DEF Indices
<1>6. PageTypes'
  BY <1>1, <1>2, <1>3, <1>4 DEF PageTypes, TypeOK
<1>7. MfcIndices = {i} \cup MfcIndices' /\ i \notin MfcIndices' /\ MfcIndices \subseteq DOMAIN dest_buffers
  BY <1>1, <1>2 DEF MfcIndices, Indices
<1>8. page' \in AtMfc /\ AtMfc' = AtMfc \ {page'}
  BY <1>2, <1>7, PagesAtMfc DEF Indices, Distinct
<1>9. QED
  BY <1>2, <1>3, <1>5, <1>6, <1>8 DEF i

(* A page that is queued is one of the MFC's, whether it is the first time *)
(* or not; when it cannot be queued none is, but it has an index.          *)
LEMMA QueueMoves ==
  TypeOK /\ Indices /\ page \in Pages /\ page \notin AtMfc /\ (queue_dest \/ QueueFails) =>
    /\ Indices' /\ PageTypes'
    /\ DOMAIN dest_buffers \subseteq DOMAIN dest_buffers'
    /\ \A i \in DOMAIN dest_buffers : dest_buffers'[i] = dest_buffers[i]
    /\ AtMfc' = IF queue_dest THEN AtMfc \cup {page} ELSE AtMfc
<1> SUFFICES ASSUME TypeOK, Indices, page \in Pages, page \notin AtMfc, queue_dest \/ QueueFails
             PROVE  /\ Indices' /\ PageTypes'
                    /\ DOMAIN dest_buffers \subseteq DOMAIN dest_buffers'
                    /\ \A i \in DOMAIN dest_buffers : dest_buffers'[i] = dest_buffers[i]
                    /\ AtMfc' = IF queue_dest THEN AtMfc \cup {page} ELSE AtMfc
  OBVIOUS
<1> DEFINE new == IF Known = {} THEN Len(dest_buffers) + 1 ELSE CHOOSE i \in Known : TRUE
<1>1. dest_buffers \in Seq(Pages) /\ Distinct(dest_buffers) /\ dest \in Seq(Pages)
  BY DEF TypeOK, Indices
<1>2. /\ dest_buffers' \in Seq(Pages) /\ Distinct(dest_buffers')
      /\ DOMAIN dest_buffers \subseteq DOMAIN dest_buffers'
      /\ \A i \in DOMAIN dest_buffers : dest_buffers'[i] = dest_buffers[i]
      /\ new \in DOMAIN dest_buffers' /\ dest_buffers'[new] = page
  <2>1. CASE Known = {}
    <3>1. dest_buffers' = Append(dest_buffers, page) /\ new = Len(dest_buffers) + 1
      BY <2>1 DEF queue_dest, QueueFails
    <3>2. page \notin Items(dest_buffers)
      BY <2>1 DEF Known, Items
    <3>3. QED
      BY <1>1, <3>1, <3>2, Put
  <2>2. CASE Known # {}
    <3>1. dest_buffers' = dest_buffers /\ new \in Known
      BY <2>2 DEF queue_dest, QueueFails
    <3>2. QED
      BY <1>1, <3>1 DEF Known
  <2>3. QED
    BY <2>1, <2>2
<1> HIDE DEF new
<1>3. MfcIndices \subseteq DOMAIN dest_buffers /\ new \notin MfcIndices
  BY <1>2, PagesAtMfc DEF Indices, MfcIndices
<1>4. CASE queue_dest
  <2>1. new \in Pages
    <3>1. Len(dest_buffers') <= NPages /\ Len(dest_buffers') \in Nat
          /\ DOMAIN dest_buffers' = 1 .. Len(dest_buffers')
      BY <1>2, DistinctLength, Held
    <3>2. QED
      BY <1>2, <3>1, DirectAssumption DEF Pages
  <2>2. dest' = Append(dest, new) /\ UNCHANGED <<held, destReady>>
    BY <1>4 DEF queue_dest, new
  <2>3. /\ dest' \in Seq(Pages) /\ Items(dest') = Items(dest) \cup {new} /\ Len(dest') = Len(dest) + 1
        /\ Len(dest) \in Nat /\ Distinct(dest')
    BY <1>1, <1>3, <2>1, <2>2, Put DEF Indices, MfcIndices
  <2>4. Len(held) \in Nat /\ Len(destReady) \in Nat
    BY Held DEF TypeOK
  <2>5. dest_num_queued' = Len(dest') + Len(held') + Len(destReady') /\ dest_num_queued' \in Nat
    BY <1>4, <2>2, <2>3, <2>4 DEF queue_dest, Indices
  <2>6. Indices'
    BY <1>2, <1>3, <2>2, <2>3, <2>5 DEF Indices, MfcIndices
  <2>7. PageTypes'
    BY <1>2, <1>4, <2>2, <2>3, <2>5 DEF queue_dest, TypeOK, PageTypes
  <2>8. MfcIndices' = MfcIndices \cup {new}
    BY <2>2, <2>3 DEF MfcIndices
  <2>9. AtMfc' = AtMfc \cup {page}
    BY <1>2, <1>3, <2>8, PagesAtMfc
  <2>10. QED
    BY <1>2, <1>4, <2>6, <2>7, <2>9
<1>5. CASE ~queue_dest
  <2>1. UNCHANGED <<dest, held, destReady, dest_num_queued, page, cur_page, page_used>>
    BY <1>5 DEF QueueFails, mfcVars
  <2>2. Indices'
    BY <1>2, <1>3, <2>1 DEF Indices, MfcIndices
  <2>3. PageTypes'
    BY <1>2, <2>1 DEF TypeOK, PageTypes
  <2>4. MfcIndices' = MfcIndices
    BY <2>1 DEF MfcIndices
  <2>5. AtMfc' = AtMfc
    <3>1. ASSUME NEW p PROVE p \in AtMfc' <=> p \in AtMfc
      <4>1. \A i \in MfcIndices : dest_buffers'[i] = dest_buffers[i]
        BY <1>2, <1>3
      <4>2. QED
        BY <2>4, <4>1, PagesAtMfc
    <3>2. QED
      BY <3>1
  <2>6. QED
    BY <1>2, <1>5, <2>2, <2>3, <2>5
<1>6. QED
  BY <1>4, <1>5

(* The MFC decodes to its own pages, and passes them on to be dequeued.    *)
LEMMA MfcMoves ==
  TypeOK /\ Indices /\ (MfcDecode \/ MfcDeliver) =>
    /\ Indices' /\ PageTypes' /\ AtMfc' = AtMfc
<1> SUFFICES ASSUME TypeOK, Indices, MfcDecode \/ MfcDeliver
             PROVE  Indices' /\ PageTypes' /\ AtMfc' = AtMfc
  OBVIOUS
<1>1. UNCHANGED <<dest_buffers, dest_num_queued, page, cur_page, page_used>>
  BY DEF MfcDecode, MfcDeliver, swVars, presVars
<1>2. dest \in Seq(Pages) /\ held \in Seq(Pages) /\ destReady \in Seq(Pages)
  BY DEF TypeOK
<1>3. CASE MfcDecode
  <2>1. dest # <<>> /\ dest' = Tail(dest) /\ held' = Append(held, Head(dest)) /\ UNCHANGED destReady
    BY <1>3 DEF MfcDecode
  <2>2. /\ Head(dest) \in Pages /\ dest' \in Seq(Pages) /\ Items(dest) = {Head(dest)} \cup Items(dest')
        /\ Distinct(dest') /\ Head(dest) \notin Items(dest') /\ Len(dest') = Len(dest) - 1
        /\ Len(dest) \in Nat
    BY <1>2, <2>1, Taken DEF Indices
  <2>3. /\ held' \in Seq(Pages) /\ Items(held') = Items(held) \cup {Head(dest)}
        /\ Distinct(held') /\ Len(held') = Len(held) + 1 /\ Len(held) \in Nat
    BY <1>2, <2>1, <2>2, Put DEF Indices
  <2>4. Len(dest') + Len(held') = Len(dest) + Len(held)
    BY <2>2, <2>3
  <2>5. Indices'
    BY <1>1, <2>1, <2>2, <2>3, <2>4 DEF Indices
  <2>6. PageTypes'
    BY <1>1, <2>1, <2>2, <2>3 DEF TypeOK, PageTypes
  <2>7. MfcIndices' = MfcIndices
    BY <2>1, <2>2, <2>3 DEF MfcIndices
  <2>8. QED
    BY <1>1, <2>5, <2>6, <2>7, PagesAtMfc
<1>4. CASE MfcDeliver
  <2>1. held # <<>> /\ held' = Tail(held) /\ destReady' = Append(destReady, Head(held)) /\ UNCHANGED dest
    BY <1>4 DEF MfcDeliver
  <2>2. /\ Head(held) \in Pages /\ held' \in Seq(Pages) /\ Items(held) = {Head(held)} \cup Items(held')
        /\ Distinct(held') /\ Head(held) \notin Items(held') /\ Len(held') = Len(held) - 1
        /\ Len(held) \in Nat
    BY <1>2, <2>1, Taken DEF Indices
  <2>3. /\ destReady' \in Seq(Pages) /\ Items(destReady') = Items(destReady) \cup {Head(held)}
        /\ Distinct(destReady') /\ Len(destReady') = Len(destReady) + 1 /\ Len(destReady) \in Nat
    BY <1>2, <2>1, <2>2, Put DEF Indices
  <2>4. Len(dest') + Len(held') + Len(destReady') = Len(dest) + Len(held) + Len(destReady)
    BY <1>2, <2>1, <2>2, <2>3, Held
  <2>5. Indices'
    BY <1>1, <2>1, <2>2, <2>3, <2>4 DEF Indices
  <2>6. PageTypes'
    BY <1>1, <2>1, <2>2, <2>3 DEF TypeOK, PageTypes
  <2>7. MfcIndices' = MfcIndices
    BY <2>1, <2>2, <2>3 DEF MfcIndices
  <2>8. QED
    BY <1>1, <2>5, <2>6, <2>7, PagesAtMfc
<1>5. QED
  BY <1>3, <1>4

-----------------------------------------------------------------------------
(* The owners of the pages                                                 *)

Ownership == Indices /\ ThreadPage /\ OwnedOnce /\ LastFlip

(* A flip reported takes the page off the screen that was shown before it, *)
(* the only one that is freed.                                             *)
LEMMA FlipHandled == TypeOK /\ Ownership /\ WaitForFlip => PageTypes' /\ Ownership'
<1> SUFFICES ASSUME TypeOK, Ownership, WaitForFlip PROVE PageTypes' /\ Ownership'
  OBVIOUS
<1>1. /\ UNCHANGED <<dest_buffers, dest_num_queued, page, dest, held, destReady, scanout, flipping>>
      /\ events # <<>> /\ events' = Tail(events) /\ cur_page' = Head(events)
      /\ page_used' = [page_used EXCEPT ![cur_page] = FALSE]
      /\ ppc \in {"wait", "getWait"} /\ ppc' = IF ppc = "wait" THEN "commit" ELSE "get"
  BY DEF WaitForFlip, HandleFlip, Released, mfcVars
<1>2. events \in Seq(Pages) /\ Distinct(events)
  BY DEF TypeOK, Ownership, OwnedOnce
<1>3. /\ cur_page' \in Pages /\ Items(events) = {cur_page'} \cup Items(events')
      /\ cur_page' \notin Items(events') /\ Distinct(events')
      /\ events[Len(events)] = IF events' = <<>> THEN cur_page' ELSE events'[Len(events')]
  BY <1>1, <1>2, Taken
<1>4. PageTypes'
  BY <1>1, <1>3 DEF TypeOK, PageTypes
<1>5. Indices' /\ ThreadPage'
  BY <1>1 DEF Ownership, Indices, ThreadPage
<1>6. AtMfc' = AtMfc
  BY <1>1 DEF AtMfc, PagesOf
<1>7. OwnedOnce'
  <2>1. \A p \in Pages \ {cur_page} : page_used'[p] = page_used[p]
    BY <1>1 DEF TypeOK
  <2>2. AtMfc \cup Items(events) \cup {flipping, page} \subseteq Pages \cup {None}
    BY <1>2, Held, PagesAtMfc, SMTT(30) DEF TypeOK, Ownership, Indices, MfcIndices
  <2>3. cur_page \notin (AtMfc \cup Items(events) \cup {flipping, page}) \ {None}
    BY DEF Ownership, OwnedOnce
  <2>4. \A p \in (AtMfc' \cup Items(events') \cup {cur_page', flipping', page'}) \ {None} : page_used'[p]
    BY <1>1, <1>3, <1>6, <2>1, <2>2, <2>3 DEF Ownership, OwnedOnce
  <2>5. QED
    BY <1>1, <1>3, <1>6, <2>4 DEF Ownership, OwnedOnce
<1>8. LastFlip'
  BY <1>1, <1>3 DEF Ownership, LastFlip
<1>9. QED
  BY <1>4, <1>5, <1>7, <1>8 DEF Ownership

(* A page is the thread's when it is dequeued,                             *)
LEMMA PageDequeued == TypeOK /\ Ownership /\ dequeue_dest => PageTypes' /\ Ownership'
<1> SUFFICES ASSUME TypeOK, Ownership, dequeue_dest PROVE PageTypes' /\ Ownership'
  OBVIOUS
<1>1. /\ UNCHANGED <<dest_buffers, page_used, cur_page, scanout, flipping, events>>
      /\ page = None /\ ppc' = "flip"
  BY DEF dequeue_dest, crtcVars, Ownership, ThreadPage
<1>2. /\ Indices' /\ PageTypes' /\ page' \in AtMfc /\ AtMfc' = AtMfc \ {page'}
      /\ page' = dest_buffers[Head(destReady)] /\ Head(destReady) \in DOMAIN dest_buffers
  BY DequeueMoves DEF Ownership
<1>3. page' \in Pages /\ None \notin Pages
  <2>1. page' \in Pages
    BY <1>2, SMTT(30) DEF TypeOK
  <2>2. None \notin Pages
    BY DEF Pages, None
  <2>3. QED
    BY <2>1, <2>2
<1>4. ThreadPage'
  BY <1>1, <1>3 DEF ThreadPage
<1>5. OwnedOnce'
  BY <1>1, <1>2, <1>3 DEF Ownership, OwnedOnce
<1>6. LastFlip'
  BY <1>1 DEF Ownership, LastFlip
<1>7. QED
  BY <1>2, <1>4, <1>5, <1>6 DEF Ownership

(* the display's when the flip to it is committed,                         *)
LEMMA PageCommitted == TypeOK /\ Ownership /\ Commit => PageTypes' /\ Ownership'
<1> SUFFICES ASSUME TypeOK, Ownership, Commit PROVE PageTypes' /\ Ownership'
  OBVIOUS
<1>1. /\ UNCHANGED <<dest_buffers, dest_num_queued, page_used, cur_page, dest, held, destReady,
                     scanout, events>>
      /\ page # None /\ flipping = None /\ flipping' = page /\ page' = None /\ ppc' = "get"
  BY DEF Commit, mfcVars, Ownership, ThreadPage
<1>2. Indices' /\ PageTypes' /\ AtMfc' = AtMfc
  BY <1>1 DEF Ownership, Indices, TypeOK, PageTypes, AtMfc, PagesOf
<1>3. ThreadPage'
  BY <1>1 DEF ThreadPage
<1>4. OwnedOnce'
  BY <1>1, <1>2 DEF Ownership, OwnedOnce
<1>5. LastFlip'
  BY <1>1 DEF Ownership, LastFlip
<1>6. QED
  BY <1>2, <1>3, <1>4, <1>5 DEF Ownership

(* again the thread's when it is free and get_page finds it,               *)
LEMMA PageFound == TypeOK /\ Ownership /\ get_page => PageTypes' /\ Ownership'
<1> SUFFICES ASSUME TypeOK, Ownership, get_page PROVE PageTypes' /\ Ownership'
  OBVIOUS
<1>1. /\ UNCHANGED <<dest_buffers, dest_num_queued, cur_page, dest, held, destReady, scanout,
                     flipping, events>>
      /\ Free # {} /\ page' = (CHOOSE p \in Free : \A q \in Free : p <= q)
      /\ page_used' = [page_used EXCEPT ![page'] = TRUE] /\ ppc' = "queue" /\ page = None
  BY DEF get_page, mfcVars, crtcVars, Ownership, ThreadPage
<1>2. page' \in Free
  <2>1. Free \subseteq Nat
    BY DEF Free, Pages
  <2>2. PICK p \in Free : \A q \in Free : p <= q
    BY <1>1, <2>1, Least
  <2>3. QED
    BY <1>1, <2>2
<1>3. page' \in Pages /\ ~page_used[page'] /\ None \notin Pages
  BY <1>2 DEF Free, Pages, None
<1>4. page_used' \in [Pages -> BOOLEAN] /\ page_used'[page'] /\ \A p \in Pages : page_used[p] => page_used'[p]
  BY <1>1, <1>3 DEF TypeOK
<1>5. Indices' /\ PageTypes' /\ AtMfc' = AtMfc
  <2>1. Indices' /\ AtMfc' = AtMfc
    BY <1>1 DEF Ownership, Indices, AtMfc, PagesOf
  <2>2. PageTypes'
    BY <1>1, <1>3, <1>4 DEF TypeOK, PageTypes
  <2>3. QED
    BY <2>1, <2>2
<1>6. ThreadPage'
  BY <1>1, <1>3 DEF ThreadPage
<1>7. AtMfc \cup Items(events) \cup {cur_page, flipping} \subseteq Pages \cup {None}
  BY Held, PagesAtMfc, SMTT(30) DEF TypeOK, Ownership, Indices, MfcIndices
<1>8. page' \notin AtMfc \cup Items(events) \cup {cur_page, flipping}
  BY <1>3 DEF Ownership, OwnedOnce
<1>9. OwnedOnce'
  BY <1>1, <1>3, <1>4, <1>5, <1>7, <1>8 DEF Ownership, OwnedOnce
<1>10. LastFlip'
  BY <1>1 DEF Ownership, LastFlip
<1>11. QED
  BY <1>5, <1>6, <1>9, <1>10 DEF Ownership

(* and the MFC's when it is queued.                                        *)
LEMMA PageQueued == TypeOK /\ Ownership /\ (queue_dest \/ QueueFails) => PageTypes' /\ Ownership'
<1> SUFFICES ASSUME TypeOK, Ownership, queue_dest \/ QueueFails PROVE PageTypes' /\ Ownership'
  OBVIOUS
<1>1. /\ UNCHANGED <<page_used, cur_page, scanout, flipping, events>> /\ page # None
      /\ IF queue_dest THEN page' = None /\ ppc' = "test" ELSE page' = page /\ ppc' = "error"
  BY DEF queue_dest, QueueFails, crtcVars, Ownership, ThreadPage
<1>2. page \in Pages /\ page \notin AtMfc \cup Items(events) \cup {cur_page, flipping} /\ page_used[page]
  BY <1>1 DEF TypeOK, Ownership, OwnedOnce
<1>3. /\ Indices' /\ PageTypes'
      /\ AtMfc' = IF queue_dest THEN AtMfc \cup {page} ELSE AtMfc
  BY <1>2, QueueMoves DEF Ownership
<1>4. ThreadPage'
  BY <1>1 DEF ThreadPage
<1>5. OwnedOnce'
  BY <1>1, <1>2, <1>3 DEF Ownership, OwnedOnce
<1>6. LastFlip'
  BY <1>1 DEF Ownership, LastFlip
<1>7. QED
  BY <1>3, <1>4, <1>5, <1>6 DEF Ownership

(* The display passes from the page of a flip to the next.                 *)
LEMMA PageShown == TypeOK /\ Ownership /\ Vblank => PageTypes' /\ Ownership'
<1> SUFFICES ASSUME TypeOK, Ownership, Vblank PROVE PageTypes' /\ Ownership'
  OBVIOUS
<1>1. /\ UNCHANGED <<ppc, dest_buffers, dest_num_queued, page, page_used, cur_page, dest, held,
                     destReady>>
      /\ flipping # None /\ scanout' = flipping /\ flipping' = None /\ events' = Append(events, flipping)
  BY DEF Vblank, swVars, presVars, mfcVars
<1>2. events \in Seq(Pages) /\ Distinct(events) /\ flipping \in Pages /\ flipping \notin Items(events)
  BY <1>1 DEF TypeOK, Ownership, OwnedOnce
<1>3. /\ Items(events') = Items(events) \cup {flipping} /\ Distinct(events') /\ events' # <<>>
      /\ events'[Len(events')] = flipping
  BY <1>1, <1>2, Put
<1>4. Indices' /\ PageTypes' /\ AtMfc' = AtMfc
  BY <1>1 DEF Ownership, Indices, TypeOK, PageTypes, AtMfc, PagesOf
<1>5. ThreadPage'
  BY <1>1 DEF Ownership, ThreadPage
<1>6. None \notin AtMfc \cup Items(events) \cup {cur_page, flipping}
  <2>1. AtMfc \cup Items(events) \cup {cur_page, flipping} \subseteq Pages
    BY <1>2, Held, PagesAtMfc, SMTT(30) DEF TypeOK, Ownership, Indices, MfcIndices
  <2>2. None \notin Pages
    BY DEF Pages, None
  <2>3. QED
    BY <2>1, <2>2
<1>7. OwnedOnce'
  BY <1>1, <1>3, <1>4, <1>6 DEF Ownership, OwnedOnce
<1>8. LastFlip'
  BY <1>1, <1>3 DEF LastFlip
<1>9. QED
  BY <1>4, <1>5, <1>7, <1>8 DEF Ownership

(* No other step changes who has a page.                                   *)
LEMMA OwnershipStep == TypeOK /\ Ownership /\ Next => PageTypes' /\ Ownership'
<1> SUFFICES ASSUME TypeOK, Ownership, Next PROVE PageTypes' /\ Ownership'
  OBVIOUS
<1>1. CASE WaitForFlip \/ dequeue_dest \/ Commit \/ get_page \/ queue_dest \/ QueueFails \/ Vblank
  BY <1>1, FlipHandled, PageDequeued, PageCommitted, PageFound, PageQueued, PageShown
<1>2. CASE MfcDecode \/ MfcDeliver
  <2>1. Indices' /\ PageTypes' /\ AtMfc' = AtMfc
    BY <1>2, MfcMoves DEF Ownership
  <2>2. UNCHANGED <<ppc, page, page_used, cur_page, scanout, flipping, events>>
    BY <1>2 DEF MfcDecode, MfcDeliver, swVars, presVars, crtcVars
  <2>3. QED
    BY <2>1, <2>2 DEF Ownership, ThreadPage, OwnedOnce, LastFlip
<1>3. CASE Main \/ PresTest \/ DequeueFails \/ issue_flip \/ WaitInterrupted \/ CommitRefused
           \/ CommitFails \/ NoPage \/ PresError
  <2>1. UNCHANGED <<dest_buffers, dest_num_queued, page, page_used, cur_page, dest, held, destReady,
                    scanout, flipping, events>>
    BY <1>3 DEF Main, MainTest, RunCheck, StreamOnFails, RunSkip, RunQueue, RunQueueFails, ParseFails,
    RunFilled, RunDequeue, RunDequeueFails, MainError, Join, PresTest, DequeueFails, issue_flip, WaitInterrupted, CommitRefused,
    CommitFails, NoPage, PresError, presVars, mfcVars, crtcVars
  <2>2. ThreadPage'
    BY <1>3 DEF Main, MainTest, RunCheck, StreamOnFails, RunSkip, RunQueue, RunQueueFails, ParseFails,
    RunFilled, RunDequeue, RunDequeueFails, MainError, Join, PresTest, DequeueFails, issue_flip, WaitInterrupted, CommitRefused,
    CommitFails, NoPage, PresError, presVars, Ownership, ThreadPage
  <2>3. Indices' /\ PageTypes' /\ AtMfc' = AtMfc
    BY <2>1 DEF Ownership, Indices, TypeOK, PageTypes, AtMfc, PagesOf
  <2>4. QED
    BY <2>1, <2>2, <2>3 DEF Ownership, OwnedOnce, LastFlip
<1>4. QED
  BY <1>1, <1>2, <1>3 DEF Next, presentation_thread

-----------------------------------------------------------------------------
(* The display                                                             *)

(* The display shows pages, and the pages hold frames of the stream.       *)
LEMMA ScreenStep == TypeOK /\ Ownership /\ Next => ScreenTypes'
<1> SUFFICES ASSUME TypeOK, Ownership, Next PROVE ScreenTypes'
  OBVIOUS
<1>1. CASE WaitForFlip
  <2>1. events' \in Seq(Pages)
    BY <1>1, Taken DEF WaitForFlip, HandleFlip, TypeOK
  <2>2. QED
    BY <1>1, <2>1 DEF WaitForFlip, HandleFlip, mfcVars, TypeOK, ScreenTypes
<1>2. CASE Commit
  <2>1. flipping' \in Pages
    BY <1>2 DEF Commit, TypeOK, Ownership, ThreadPage
  <2>2. QED
    BY <1>2, <2>1 DEF Commit, mfcVars, TypeOK, ScreenTypes
<1>3. CASE MfcDecode
  <2>1. Head(source)[2] \in 0 .. NFrames
    <3>1. Head(source) \in Srcs \X (1 .. NFrames)
      BY <1>3, Taken DEF MfcDecode, TypeOK
    <3>2. Head(source)[2] \in 1 .. NFrames
      BY <3>1
    <3>3. QED
      BY <3>2, DirectAssumption
  <2>2. content' \in [Pages -> 0 .. NFrames]
    BY <1>3, <2>1 DEF MfcDecode, TypeOK
  <2>3. QED
    BY <1>3, <2>2 DEF MfcDecode, crtcVars, TypeOK, ScreenTypes
<1>4. CASE Vblank
  <2>1. flipping \in Pages
    BY <1>4 DEF Vblank, TypeOK
  <2>2. events' \in Seq(Pages)
    BY <1>4, <2>1, Put DEF Vblank, TypeOK
  <2>3. content[flipping] \in 0 .. NFrames
    BY <2>1 DEF TypeOK
  <2>4. shown' \in Seq(0 .. NFrames)
    BY <1>4, <2>3, Put DEF Vblank, TypeOK
  <2>5. QED
    BY <1>4, <2>1, <2>2, <2>4 DEF Vblank, mfcVars, TypeOK, ScreenTypes
<1>5. CASE UNCHANGED <<scanout, flipping, events, content, shown>>
  BY <1>5 DEF TypeOK, ScreenTypes
<1>6. QED
  BY <1>1, <1>2, <1>3, <1>4, <1>5 DEF Next, Main, MainTest, RunCheck, StreamOnFails, RunSkip, RunQueue, RunQueueFails, ParseFails,
    RunFilled, RunDequeue, RunDequeueFails, MainError, Join, presentation_thread, PresTest, dequeue_dest, DequeueFails, issue_flip,
    WaitInterrupted, CommitRefused, CommitFails, get_page, NoPage, queue_dest,
    QueueFails, PresError, MfcDeliver, mainVars, mfcVars, crtcVars, swVars

-----------------------------------------------------------------------------
(* The frames                                                              *)

(* The lengths that place a frame in line                                  *)
LEMMA Places ==
  TypeOK => /\ Len(destReady) \in Nat /\ Len(held) \in Nat /\ Len(source) \in Nat /\ Len(shown) \in Nat
            /\ Before \in Nat /\ Presenting \in {0, 1}
            /\ Before = Len(shown) + (IF flipping = None THEN 0 ELSE 1) + Presenting
<1> SUFFICES ASSUME TypeOK PROVE
      /\ Len(destReady) \in Nat /\ Len(held) \in Nat /\ Len(source) \in Nat /\ Len(shown) \in Nat
      /\ Before \in Nat /\ Presenting \in {0, 1}
      /\ Before = Len(shown) + (IF flipping = None THEN 0 ELSE 1) + Presenting
  OBVIOUS
<1>1. Len(destReady) \in Nat /\ Len(held) \in Nat /\ Len(source) \in Nat /\ Len(shown) \in Nat
  BY Held DEF TypeOK
<1>2. Presenting \in {0, 1} /\ (IF flipping = None THEN 0 ELSE 1) \in {0, 1}
  BY DEF Presenting
<1>3. Before = Len(shown) + (IF flipping = None THEN 0 ELSE 1) + Presenting
  BY DEF Before
<1>4. Before \in Nat
  BY <1>1, <1>2, <1>3
<1>5. QED
  BY <1>1, <1>2, <1>3, <1>4

(* A frame parsed is queued behind the others.                             *)
LEMMA FrameQueued == TypeOK /\ FramesInLine /\ RunQueue => FramesInLine'
<1> SUFFICES ASSUME TypeOK, FramesInLine, RunQueue PROVE FramesInLine'
  OBVIOUS
<1>1. /\ UNCHANGED <<ppc, page, flipping, shown, content, dest_buffers, destReady, held>>
      /\ parsed' = parsed + 1 /\ source' = Append(source, <<next, parsed + 1>>) /\ Parsing
      /\ next \in Srcs /\ parsed + 1 \in 1 .. NFrames
  BY DirectAssumption DEF RunQueue, FrameFinished, Parsing, Srcs, TypeOK, presVars, crtcVars
<1>2. ShownInOrder' /\ FlipInLine' /\ Before' = Before /\ Presenting' = Presenting
  BY <1>1 DEF FramesInLine, ShownInOrder, FlipInLine, Before, Presenting
<1>3. ASSUME MfcInLine PROVE MfcInLine'
  <2>1. /\ Len(source') = Len(source) + 1
        /\ \A k \in DOMAIN source' :
             \/ k \in DOMAIN source /\ source'[k] = source[k]
             \/ k = Len(source) + 1 /\ source'[k] = <<next, parsed + 1>>
    <3>1. source \in Seq(Srcs \X (1 .. NFrames)) /\ <<next, parsed + 1>> \in Srcs \X (1 .. NFrames)
      BY <1>1 DEF TypeOK
    <3>2. QED
      BY <1>1, <3>1, Put
  <2>2. parsed = Before + Len(destReady) + Len(held) + Len(source)
    BY <1>1, <1>3 DEF MfcInLine
  <2>3. \A k \in DOMAIN source' : source'[k][2] = Before + Len(destReady) + Len(held) + k
    <3> TAKE k \in DOMAIN source'
    <3>1. CASE k \in DOMAIN source /\ source'[k] = source[k]
      BY <1>3, <3>1 DEF MfcInLine
    <3>2. CASE k = Len(source) + 1 /\ source'[k] = <<next, parsed + 1>>
      <4>1. source'[k][2] = parsed + 1
        BY <3>2
      <4>2. QED
        BY <2>2, <3>2, <4>1, Places
    <3>3. QED
      BY <2>1, <3>1, <3>2
  <2>4. parsed' = Before + Len(destReady) + Len(held) + Len(source')
    BY <1>1, <2>1, <2>2, Places, SMTT(30)
  <2>5. QED
    BY <1>1, <1>2, <1>3, <2>3, <2>4 DEF MfcInLine
<1>4. QED
  BY <1>1, <1>2, <1>3 DEF FramesInLine

(* The page dequeued has the frame that is to be shown next,               *)
LEMMA FrameDequeued == TypeOK /\ Ownership /\ FramesInLine /\ dequeue_dest => FramesInLine'
<1> SUFFICES ASSUME TypeOK, Ownership, FramesInLine, dequeue_dest PROVE FramesInLine'
  OBVIOUS
<1>1. /\ UNCHANGED <<mpc, error, parsed, flipping, shown, content, dest_buffers, held, source>>
      /\ ppc = "dequeue" /\ ppc' = "flip" /\ page' = dest_buffers[Head(destReady)]
      /\ destReady # <<>> /\ destReady' = Tail(destReady) /\ destReady \in Seq(Pages)
  BY DEF dequeue_dest, mainVars, crtcVars, TypeOK
<1>2. /\ Head(destReady) = destReady[1] /\ 1 \in DOMAIN destReady
      /\ Len(destReady') = Len(destReady) - 1
      /\ \A k \in DOMAIN destReady' : k \in Nat /\ k + 1 \in DOMAIN destReady /\ destReady'[k] = destReady[k + 1]
  BY <1>1, Taken
<1>3. ShownInOrder' /\ FlipInLine'
  BY <1>1 DEF FramesInLine, ShownInOrder, FlipInLine
<1>4. /\ MfcInLine /\ Presenting = 0 /\ Presenting' = 1 /\ Before' = Before + 1 /\ Parsing' = Parsing
      /\ Before' + Len(destReady') = Before + Len(destReady)
  <2>1. Presenting = 0 /\ Presenting' = 1 /\ MfcInLine /\ Parsing' = Parsing
    BY <1>1 DEF Presenting, FramesInLine, Parsing
  <2>2. Before' = Before + 1
    BY <1>1, <2>1, Places DEF Before
  <2>3. QED
    BY <1>2, <2>1, <2>2, Places
<1>5. content'[page'] = Before'
  BY <1>1, <1>2, <1>4, Places DEF MfcInLine
<1>6. \A k \in DOMAIN destReady' : content'[dest_buffers'[destReady'[k]]] = Before' + k
  <2> TAKE k \in DOMAIN destReady'
  <2>1. content[dest_buffers[destReady[k + 1]]] = Before + (k + 1)
    BY <1>2, <1>4 DEF MfcInLine
  <2>2. QED
    BY <1>1, <1>2, <1>4, <2>1, Places
<1>7. MfcInLine'
  BY <1>1, <1>4, <1>5, <1>6 DEF MfcInLine
<1>8. QED
  BY <1>3, <1>7 DEF FramesInLine

(* has it when the flip to it is committed,                                *)
LEMMA FrameCommitted == TypeOK /\ Ownership /\ FramesInLine /\ Commit => FramesInLine'
<1> SUFFICES ASSUME TypeOK, Ownership, FramesInLine, Commit PROVE FramesInLine'
  OBVIOUS
<1>1. /\ UNCHANGED <<mpc, error, parsed, shown, content, dest_buffers, destReady, held, source>>
      /\ ppc = "commit" /\ ppc' = "get" /\ flipping = None /\ flipping' = page /\ page # None
  BY DEF Commit, mainVars, mfcVars, Ownership, ThreadPage
<1>2. MfcInLine /\ Presenting = 1 /\ Presenting' = 0 /\ Parsing' = Parsing
  BY <1>1 DEF Presenting, FramesInLine, Parsing
<1>3. Before = Len(shown) + 1 /\ Before' = Len(shown) + 1
  BY <1>1, <1>2, Places DEF Before
<1>4. ShownInOrder' /\ FlipInLine'
  BY <1>1, <1>2, <1>3 DEF FramesInLine, ShownInOrder, FlipInLine, MfcInLine
<1>5. MfcInLine'
  BY <1>1, <1>2, <1>3 DEF MfcInLine
<1>6. QED
  BY <1>4, <1>5 DEF FramesInLine

(* and when it comes to the screen.                                        *)
LEMMA FrameShown == TypeOK /\ FramesInLine /\ Vblank => FramesInLine'
<1> SUFFICES ASSUME TypeOK, FramesInLine, Vblank PROVE FramesInLine'
  OBVIOUS
<1>1. /\ UNCHANGED <<mpc, ppc, page, error, parsed, content, dest_buffers, destReady, held, source>>
      /\ flipping # None /\ flipping' = None /\ shown' = Append(shown, content[flipping])
  BY DEF Vblank, swVars, mainVars, presVars, mfcVars
<1>2. content[flipping] = Len(shown) + 1 /\ content[flipping] \in 0 .. NFrames
  BY <1>1 DEF FramesInLine, FlipInLine, TypeOK
<1>3. /\ Len(shown') = Len(shown) + 1 /\ Len(shown) \in Nat
      /\ \A k \in DOMAIN shown' :
           \/ k \in DOMAIN shown /\ shown'[k] = shown[k]
           \/ k = Len(shown) + 1 /\ shown'[k] = content[flipping]
  <2>1. shown \in Seq(0 .. NFrames)
    BY DEF TypeOK
  <2>2. QED
    BY <1>1, <1>2, <2>1, Put
<1>4. ShownInOrder' /\ FlipInLine'
  BY <1>1, <1>2, <1>3 DEF FramesInLine, ShownInOrder, FlipInLine
<1>5. Presenting' = Presenting /\ Before' = Before /\ Parsing' = Parsing
  <2>1. Presenting' = Presenting /\ Parsing' = Parsing
    BY <1>1 DEF Presenting, Parsing
  <2>2. Before' = Len(shown) + 1 + 0 + Presenting
    BY <1>1, <1>3, <2>1 DEF Before
  <2>3. Before = Len(shown) + 1 + Presenting
    BY <1>1, Places
  <2>4. QED
    BY <1>3, <2>1, <2>2, <2>3, Places
<1>6. MfcInLine => MfcInLine'
  BY <1>1, <1>5 DEF MfcInLine
<1>7. QED
  BY <1>1, <1>4, <1>6 DEF FramesInLine

(* A frame delivered follows those that were delivered before.             *)
LEMMA FrameDelivered == TypeOK /\ FramesInLine /\ MfcDeliver => FramesInLine'
<1> SUFFICES ASSUME TypeOK, FramesInLine, MfcDeliver PROVE FramesInLine'
  OBVIOUS
<1>1. /\ UNCHANGED <<mpc, ppc, page, error, parsed, flipping, shown, content, dest_buffers, source>>
      /\ held # <<>> /\ held' = Tail(held) /\ destReady' = Append(destReady, Head(held))
      /\ held \in Seq(Pages) /\ destReady \in Seq(Pages)
  BY DEF MfcDeliver, swVars, mainVars, presVars, crtcVars, TypeOK
<1>2. /\ Head(held) = held[1] /\ 1 \in DOMAIN held /\ Head(held) \in Pages
      /\ Len(held') = Len(held) - 1
      /\ \A k \in DOMAIN held' : k \in Nat /\ k + 1 \in DOMAIN held /\ held'[k] = held[k + 1]
  BY <1>1, Taken
<1>3. /\ Len(destReady') = Len(destReady) + 1
      /\ \A k \in DOMAIN destReady' :
           \/ k \in DOMAIN destReady /\ destReady'[k] = destReady[k]
           \/ k = Len(destReady) + 1 /\ destReady'[k] = held[1]
  BY <1>1, <1>2, Put
<1>4. ShownInOrder' /\ FlipInLine' /\ Presenting' = Presenting /\ Before' = Before /\ Parsing' = Parsing
  BY <1>1 DEF FramesInLine, ShownInOrder, FlipInLine, Presenting, Before, Parsing
<1>5. Len(destReady') + Len(held') = Len(destReady) + Len(held)
  BY <1>2, <1>3, Places
<1>6. ASSUME MfcInLine PROVE MfcInLine'
  <2>1. \A k \in DOMAIN destReady' : content'[dest_buffers'[destReady'[k]]] = Before' + k
    <3> TAKE k \in DOMAIN destReady'
    <3>1. CASE k \in DOMAIN destReady /\ destReady'[k] = destReady[k]
      BY <1>1, <1>4, <1>6, <3>1 DEF MfcInLine
    <3>2. CASE k = Len(destReady) + 1 /\ destReady'[k] = held[1]
      <4>1. content[dest_buffers[held[1]]] = Before + Len(destReady) + 1
        BY <1>2, <1>6 DEF MfcInLine
      <4>2. QED
        BY <1>1, <1>4, <3>2, <4>1, Places
    <3>3. QED
      BY <1>3, <3>1, <3>2
  <2>2. \A k \in DOMAIN held' : content'[dest_buffers'[held'[k]]] = Before' + Len(destReady') + k
    <3> TAKE k \in DOMAIN held'
    <3>1. content[dest_buffers[held[k + 1]]] = Before + Len(destReady) + (k + 1)
      BY <1>2, <1>6 DEF MfcInLine
    <3>2. QED
      BY <1>1, <1>2, <1>3, <1>4, <3>1, Places
  <2>3. \A k \in DOMAIN source' : source'[k][2] = Before' + Len(destReady') + Len(held') + k
    <3>1. Before' + Len(destReady') + Len(held') = Before + Len(destReady) + Len(held)
      BY <1>2, <1>3, <1>4, Places
    <3>2. QED
      BY <1>1, <1>6, <3>1 DEF MfcInLine
  <2>4. Parsing' => parsed' = Before' + Len(destReady') + Len(held') + Len(source')
    BY <1>1, <1>2, <1>3, <1>4, <1>6, Places DEF MfcInLine
  <2>5. QED
    BY <1>1, <1>4, <1>6, <2>1, <2>2, <2>3, <2>4 DEF MfcInLine
<1>7. QED
  BY <1>1, <1>4, <1>6 DEF FramesInLine

(* The frame decoded follows those decoded before, and the page it is      *)
(* written to has none that is still to be shown.                          *)
LEMMA FrameDecoded == TypeOK /\ Ownership /\ FramesInLine /\ MfcDecode => FramesInLine'
<1> SUFFICES ASSUME TypeOK, Ownership, FramesInLine, MfcDecode PROVE FramesInLine'
  OBVIOUS
<1> DEFINE i == Head(dest)
           p == dest_buffers[i]
<1>1. /\ UNCHANGED <<mpc, ppc, page, error, parsed, flipping, shown, dest_buffers, destReady>>
      /\ source # <<>> /\ source' = Tail(source) /\ dest # <<>>
      /\ held' = Append(held, i) /\ content' = [content EXCEPT ![p] = Head(source)[2]]
      /\ held \in Seq(Pages) /\ dest \in Seq(Pages) /\ destReady \in Seq(Pages)
  BY DEF MfcDecode, swVars, mainVars, presVars, crtcVars, TypeOK
<1>2. /\ i \in Items(dest) /\ i \in Pages
      /\ Len(held') = Len(held) + 1
      /\ \A k \in DOMAIN held' :
           \/ k \in DOMAIN held /\ held'[k] = held[k]
           \/ k = Len(held) + 1 /\ held'[k] = i
  BY <1>1, Taken, Put
<1>3. /\ Head(source) = source[1] /\ 1 \in DOMAIN source /\ Len(source') = Len(source) - 1
      /\ \A k \in DOMAIN source' : k \in Nat /\ k + 1 \in DOMAIN source /\ source'[k] = source[k + 1]
  BY <1>1, Taken DEF TypeOK
<1>4. p \in AtMfc /\ p \in Pages /\ i \in DOMAIN dest_buffers /\ content'[p] = Head(source)[2]
  <2>1. i \in MfcIndices /\ i \in DOMAIN dest_buffers
    BY <1>2 DEF MfcIndices, Ownership, Indices
  <2>2. p \in AtMfc /\ p \in Pages
    BY <2>1, PagesAtMfc, SMTT(30) DEF TypeOK
  <2>3. QED
    BY <1>1, <2>1, <2>2 DEF TypeOK
<1>5. \A q \in Pages : q # p => content'[q] = content[q]
  BY <1>1 DEF TypeOK
<1>6. \A n \in DOMAIN dest_buffers : n # i => dest_buffers[n] \in Pages /\ dest_buffers[n] # p
  <2>1. dest_buffers \in Seq(Pages) /\ Distinct(dest_buffers)
    BY DEF TypeOK, Ownership, Indices
  <2>2. QED
    BY <1>4, <2>1 DEF Distinct
<1>7. \A k \in DOMAIN held : content'[dest_buffers[held[k]]] = content[dest_buffers[held[k]]]
  <2> TAKE k \in DOMAIN held
  <2>1. held[k] \in Items(held) /\ held[k] \in DOMAIN dest_buffers /\ held[k] # i
    BY <1>1, <1>2, Held DEF Ownership, Indices
  <2>2. dest_buffers[held[k]] \in Pages /\ dest_buffers[held[k]] # p
    BY <1>6, <2>1
  <2>3. QED
    BY <1>5, <2>2
<1>8. \A k \in DOMAIN destReady : content'[dest_buffers[destReady[k]]] = content[dest_buffers[destReady[k]]]
  <2> TAKE k \in DOMAIN destReady
  <2>1. destReady[k] \in Items(destReady) /\ destReady[k] \in DOMAIN dest_buffers /\ destReady[k] # i
    BY <1>1, <1>2, Held DEF Ownership, Indices
  <2>2. dest_buffers[destReady[k]] \in Pages /\ dest_buffers[destReady[k]] # p
    BY <1>6, <2>1
  <2>3. QED
    BY <1>5, <2>2
<1>9. (flipping # None => content'[flipping] = content[flipping]) /\ (page # None => content'[page] = content[page])
  BY <1>4, <1>5 DEF TypeOK, Ownership, OwnedOnce
<1> HIDE DEF i, p
<1>10. ShownInOrder' /\ FlipInLine' /\ Presenting' = Presenting /\ Before' = Before /\ Parsing' = Parsing
  BY <1>1, <1>9 DEF FramesInLine, ShownInOrder, FlipInLine, Presenting, Before, Parsing
<1>11. ASSUME MfcInLine PROVE MfcInLine'
  <2>1. \A k \in DOMAIN destReady' : content'[dest_buffers'[destReady'[k]]] = Before' + k
    BY <1>1, <1>8, <1>10, <1>11 DEF MfcInLine
  <2>2. \A k \in DOMAIN held' : content'[dest_buffers'[held'[k]]] = Before' + Len(destReady') + k
    <3> TAKE k \in DOMAIN held'
    <3>1. CASE k \in DOMAIN held /\ held'[k] = held[k]
      BY <1>1, <1>7, <1>10, <1>11, <3>1 DEF MfcInLine
    <3>2. CASE k = Len(held) + 1 /\ held'[k] = i
      <4>1. source[1][2] = Before + Len(destReady) + Len(held) + 1
        BY <1>3, <1>11 DEF MfcInLine
      <4>2. content'[dest_buffers'[held'[k]]] = source[1][2]
        BY <1>1, <1>3, <1>4, <3>2 DEF p
      <4>3. QED
        BY <1>1, <1>10, <3>2, <4>1, <4>2, Places
    <3>3. QED
      BY <1>2, <3>1, <3>2
  <2>3. \A k \in DOMAIN source' : source'[k][2] = Before' + Len(destReady') + Len(held') + k
    <3> TAKE k \in DOMAIN source'
    <3>1. source[k + 1][2] = Before + Len(destReady) + Len(held) + (k + 1)
      BY <1>3, <1>11 DEF MfcInLine
    <3>2. QED
      BY <1>1, <1>2, <1>3, <1>10, <3>1, Places
  <2>4. Parsing' => parsed' = Before' + Len(destReady') + Len(held') + Len(source')
    BY <1>1, <1>2, <1>3, <1>10, <1>11, Places DEF MfcInLine
  <2>5. Presenting' = 1 => content'[page'] = Before'
    <3>1. Presenting = 1 => page # None
      BY DEF Presenting, Ownership, ThreadPage
    <3>2. QED
      BY <1>1, <1>9, <1>10, <1>11, <3>1 DEF MfcInLine
  <2>6. QED
    BY <2>1, <2>2, <2>3, <2>4, <2>5 DEF MfcInLine
<1>12. QED
  BY <1>1, <1>10, <1>11 DEF FramesInLine

(* A page queued has an index of its own, so that the others' frames stay. *)
LEMMA FramesStay == TypeOK /\ Ownership /\ FramesInLine /\ queue_dest => FramesInLine'
<1> SUFFICES ASSUME TypeOK, Ownership, FramesInLine, queue_dest PROVE FramesInLine'
  OBVIOUS
<1>1. /\ UNCHANGED <<mpc, error, parsed, flipping, shown, content, destReady, held, source>>
      /\ ppc = "queue" /\ ppc' = "test" /\ page # None
  BY DEF queue_dest, mainVars, crtcVars, Ownership, ThreadPage
<1>2. page \in Pages /\ page \notin AtMfc
  BY <1>1 DEF TypeOK, Ownership, OwnedOnce
<1>3. \A n \in DOMAIN dest_buffers : dest_buffers'[n] = dest_buffers[n]
  BY <1>2, QueueMoves DEF Ownership
<1>4. /\ \A k \in DOMAIN held : held[k] \in DOMAIN dest_buffers
      /\ \A k \in DOMAIN destReady : destReady[k] \in DOMAIN dest_buffers
  BY Held DEF Ownership, Indices, TypeOK
<1>5. ShownInOrder' /\ FlipInLine' /\ Presenting = 0 /\ Presenting' = 0 /\ Before' = Before /\ Parsing' = Parsing
  BY <1>1 DEF FramesInLine, ShownInOrder, FlipInLine, Presenting, Before, Parsing
<1>6. MfcInLine => MfcInLine'
  BY <1>1, <1>3, <1>4, <1>5 DEF MfcInLine
<1>7. QED
  BY <1>1, <1>5, <1>6 DEF FramesInLine

(* No other step moves a frame; a thread that fails moves none any more.   *)
LEMMA FramesStep == TypeOK /\ Ownership /\ FramesInLine /\ Next => FramesInLine'
<1> SUFFICES ASSUME TypeOK, Ownership, FramesInLine, Next PROVE FramesInLine'
  OBVIOUS
<1>1. CASE RunQueue \/ dequeue_dest \/ Commit \/ queue_dest \/ MfcDecode \/ MfcDeliver \/ Vblank
  BY <1>1, FrameQueued, FrameDequeued, FrameCommitted, FramesStay, FrameDecoded, FrameDelivered, FrameShown
<1>2. CASE Main /\ ~RunQueue
  <2>1. UNCHANGED <<ppc, page, flipping, shown, content, dest_buffers, destReady, held, source>>
    BY <1>2 DEF Main, MainTest, RunCheck, StreamOnFails, RunSkip, RunQueueFails, ParseFails,
      RunFilled, RunDequeue, RunDequeueFails, MainError, Join, presVars, mfcVars, crtcVars
  <2>2. Parsing' => Parsing /\ parsed' = parsed
    BY <1>2 DEF Parsing, Main, MainTest, RunCheck, StreamOnFails, RunSkip, RunQueueFails, ParseFails,
      RunFilled, RunDequeue, RunDequeueFails, MainError, Join
  <2>3. ShownInOrder' /\ FlipInLine' /\ Presenting' = Presenting /\ Before' = Before
    BY <2>1 DEF FramesInLine, ShownInOrder, FlipInLine, Presenting, Before
  <2>4. MfcInLine => MfcInLine'
    BY <2>1, <2>2, <2>3 DEF MfcInLine
  <2>5. QED
    BY <2>1, <2>3, <2>4 DEF FramesInLine
<1>3. CASE PresTest \/ DequeueFails \/ issue_flip \/ WaitForFlip \/ WaitInterrupted \/ CommitRefused
           \/ CommitFails \/ get_page \/ NoPage \/ QueueFails \/ PresError
  <2>1. UNCHANGED <<mpc, parsed, flipping, shown, content, destReady, held, source>>
    BY <1>3 DEF PresTest, DequeueFails, issue_flip, WaitForFlip, HandleFlip, WaitInterrupted, CommitRefused,
      CommitFails, get_page, NoPage, QueueFails, PresError, mainVars, mfcVars, crtcVars
  <2>2. ShownInOrder' /\ FlipInLine'
    BY <2>1 DEF FramesInLine, ShownInOrder, FlipInLine
  <2>3. CASE ppc' \in {"error", "stopped"}
    BY <2>2, <2>3 DEF FramesInLine
  <2>4. CASE ppc' \notin {"error", "stopped"}
    <3>1. /\ UNCHANGED <<error, dest_buffers>> /\ Presenting' = Presenting /\ ppc \notin {"error", "stopped"}
          /\ Presenting = 1 => page' = page
      BY <1>3, <2>4 DEF PresTest, DequeueFails, issue_flip, WaitForFlip, HandleFlip, WaitInterrupted, CommitRefused,
        CommitFails, get_page, NoPage, QueueFails, PresError, Presenting
    <3>2. Before' = Before /\ Parsing' = Parsing
      BY <2>1, <3>1 DEF Before, Parsing
    <3>3. MfcInLine'
      BY <2>1, <3>1, <3>2 DEF FramesInLine, MfcInLine
    <3>4. QED
      BY <2>2, <3>3 DEF FramesInLine
  <2>5. QED
    BY <2>3, <2>4
<1>4. QED
  BY <1>1, <1>2, <1>3 DEF Next, presentation_thread

-----------------------------------------------------------------------------
(* The invariant of the specification                                      *)

(* At the start each page queued has its own index and nothing is decoded. *)
LEMMA InitDirect == Init => DirectInv
<1> SUFFICES ASSUME Init PROVE DirectInv
  OBVIOUS
<1> USE DirectAssumption
<1>1. /\ InitiallyQueued = MinQueued + 1 /\ InitiallyQueued \in Nat /\ InitiallyQueued + 1 <= NPages
      /\ NPages \in Nat /\ 1 \in Pages /\ None \notin Pages /\ 1 \in Srcs
  BY DEF InitiallyQueued, Pages, None, Srcs
<1> HIDE DEF InitiallyQueued
<1>2. /\ dest_buffers = [n \in 1 .. InitiallyQueued |-> n + 1] /\ dest = [n \in 1 .. InitiallyQueued |-> n]
      /\ dest_num_queued = InitiallyQueued /\ held = <<>> /\ destReady = <<>> /\ source = <<>>
      /\ events = <<>> /\ shown = <<>> /\ sourceDone = <<1>> /\ page = None /\ flipping = None
      /\ cur_page = 1 /\ scanout = 1 /\ ppc = "test" /\ mpc = "test" /\ parsed = 0
      /\ page_used = [p \in Pages |-> p <= InitiallyQueued + 1]
      /\ content = [p \in Pages |-> 0]
  BY DEF Init
<1>3. dest_buffers \in Seq(Pages) /\ dest \in Seq(Pages) /\ Len(dest) = InitiallyQueued
  <2>1. \A n \in 1 .. InitiallyQueued : n \in Pages /\ n + 1 \in Pages
    BY <1>1 DEF Pages
  <2>2. QED
    BY <1>1, <1>2, <2>1
<1>4. TypeOK
  <2>1. ThreadTypes
    <3>1. next \in 1 .. NSrc + 1 /\ parsed \in 0 .. NFrames /\ faults \in 0 .. MaxFaults
      BY <1>2 DEF Init
    <3>2. error \in BOOLEAN /\ pageflip_pending \in BOOLEAN /\ streaming \in BOOLEAN
      BY DEF Init
    <3>3. QED
      BY <1>2, <3>1, <3>2 DEF ThreadTypes
  <2>2. SourceTypes
    BY <1>1, <1>2 DEF Init, SourceTypes
  <2>3. PageTypes
    BY <1>1, <1>2, <1>3 DEF PageTypes
  <2>4. ScreenTypes
    BY <1>1, <1>2 DEF ScreenTypes
  <2>5. QED
    BY <2>1, <2>2, <2>3, <2>4, TypeParts
<1>5. Items(held) = {} /\ Items(destReady) = {} /\ Items(events) = {} /\ Items(dest) = 1 .. InitiallyQueued
  BY <1>1, <1>2 DEF Items
<1>6. Indices
  <2>1. Distinct(dest_buffers) /\ Distinct(dest) /\ Distinct(held) /\ Distinct(destReady)
    BY <1>1, <1>2 DEF Distinct
  <2>2. DOMAIN dest_buffers = 1 .. InitiallyQueued
    BY <1>2
  <2>3. dest_num_queued = Len(dest) + Len(held) + Len(destReady)
    BY <1>1, <1>2, <1>3
  <2>4. QED
    BY <1>5, <2>1, <2>2, <2>3 DEF Indices
<1>7. \A p \in AtMfc : p \in 2 .. InitiallyQueued + 1
  <2>1. MfcIndices = 1 .. InitiallyQueued
    BY <1>5 DEF MfcIndices
  <2>2. \A n \in 1 .. InitiallyQueued : dest_buffers[n] \in 2 .. InitiallyQueued + 1
    BY <1>1, <1>2
  <2>3. QED
    BY <2>1, <2>2, PagesAtMfc
<1>8. OwnedOnce
  <2>1. 1 \notin AtMfc /\ None \notin AtMfc
    BY <1>1, <1>7 DEF None
  <2>2. \A p \in AtMfc \cup {1} : p \in Pages /\ page_used[p]
    <3> TAKE p \in AtMfc \cup {1}
    <3>1. p \in 1 .. InitiallyQueued + 1
      BY <1>1, <1>7
    <3>2. p \in Pages /\ p <= InitiallyQueued + 1
      BY <1>1, <3>1 DEF Pages
    <3>3. QED
      BY <1>2, <3>2
  <2>3. Distinct(events) /\ 1 # None
    BY <1>2 DEF Distinct, None
  <2>4. QED
    BY <1>2, <1>5, <2>1, <2>2, <2>3 DEF OwnedOnce
<1>9. ThreadPage /\ LastFlip
  BY <1>2 DEF ThreadPage, LastFlip
<1>10. FramesInLine
  <2>1. Presenting = 0 /\ Before = 0
    BY <1>2 DEF Presenting, Before
  <2>2. QED
    BY <1>2, <2>1 DEF FramesInLine, ShownInOrder, FlipInLine, MfcInLine
<1>11. QED
  BY <1>4, <1>6, <1>8, <1>9, <1>10 DEF DirectInv

(* Every step of the threads and of the devices keeps it.                  *)
LEMMA DirectStep == DirectInv /\ [Next]_vars => DirectInv'
<1> SUFFICES ASSUME DirectInv, [Next]_vars PROVE DirectInv'
  OBVIOUS
<1>1. CASE Next
  <2>1. TypeOK /\ Ownership /\ FramesInLine
    BY DEF DirectInv, Ownership
  <2>2. TypeOK'
    BY <1>1, <2>1, ThreadStep, SourceStep, OwnershipStep, ScreenStep, TypeParts
       DEF TypeOK, ThreadTypes, SourceTypes, PageTypes, ScreenTypes
  <2>3. Ownership' /\ FramesInLine'
    BY <1>1, <2>1, OwnershipStep, FramesStep
  <2>4. QED
    BY <2>2, <2>3 DEF DirectInv, Ownership
<1>2. CASE UNCHANGED vars
  <2>1. TypeOK'
    BY <1>2, SMTT(30) DEF DirectInv, TypeOK, vars, mainVars, presVars, mfcVars, crtcVars
  <2>2. AtMfc' = AtMfc /\ Before' = Before /\ Presenting' = Presenting /\ Parsing' = Parsing
    BY <1>2 DEF AtMfc, PagesOf, Before, Presenting, Parsing, vars, mainVars, presVars, mfcVars, crtcVars
  <2>3. Indices' /\ ThreadPage' /\ OwnedOnce' /\ LastFlip'
    BY <1>2, <2>2 DEF DirectInv, Indices, ThreadPage, OwnedOnce, LastFlip, vars, mainVars, presVars, mfcVars,
      crtcVars
  <2>4. FramesInLine'
    BY <1>2, <2>2 DEF DirectInv, FramesInLine, ShownInOrder, FlipInLine, MfcInLine, vars, mainVars, presVars,
      mfcVars, crtcVars
  <2>5. QED
    BY <2>1, <2>3, <2>4 DEF DirectInv
<1>3. QED
  BY <1>1, <1>2

(* The invariant holds of main, the presentation thread, the MFC and the   *)
(* display, whatever calls fail.                                           *)
THEOREM DirectInvariant == Spec => []DirectInv
BY InitDirect, DirectStep, PTL DEF Spec

(* The variables of the program keep their types: every index used is one  *)
(* of a page, and no more frames are parsed than there are (mfc.cpp,       *)
(* v4l2-mfc-drm-direct's main.cpp).                                        *)
THEOREM DirectTypes == Spec => []TypeOK
<1>1. DirectInv => TypeOK
  BY DEF DirectInv
<1>2. QED
  BY <1>1, DirectInvariant, PTL

(* The MFC never decodes to a page on the screen or about to be, get_page  *)
(* hands out a page only when nobody has it, and dest_num_queued counts    *)
(* the pages of the MFC (exynos_drm.cpp handle_flip and get_page, mfc.cpp  *)
(* queue_dest and dequeue_dest).                                           *)
THEOREM PagesOwnedOnce == Spec => []PagesAreOwnedOnce
<1>1. DirectInv => PagesAreOwnedOnce
  <2> SUFFICES ASSUME DirectInv PROVE PagesAreOwnedOnce
    OBVIOUS
  <2>1. events \in Seq(Pages) /\ None \notin Pages /\ page \in Pages \cup {None}
        /\ scanout \in Pages /\ cur_page \in Pages
    <3>1. events \in Seq(Pages) /\ page \in Pages \cup {None} /\ scanout \in Pages /\ cur_page \in Pages
      BY DEF DirectInv, TypeOK
    <3>2. None \notin Pages
      BY DEF Pages, None
    <3>3. QED
      BY <3>1, <3>2
  <2>2. scanout \in Items(events) \cup {cur_page}
    BY <2>1, Held DEF DirectInv, LastFlip
  <2>3. AtMfc \cap OnDisplay = {}
    BY <2>2 DEF DirectInv, OwnedOnce, OnDisplay
  <2>4. \A p \in (AtMfc \cup OnDisplay \cup {cur_page, page}) \ {None} : page_used[p]
    BY <2>2 DEF DirectInv, OwnedOnce, OnDisplay
  <2>5. Free \cap (AtMfc \cup OnDisplay \cup {cur_page, page}) = {}
    BY <2>1, <2>4 DEF Free
  <2>6. QED
    BY <2>3, <2>5 DEF DirectInv, Indices, PagesAreOwnedOnce
<1>2. QED
  BY <1>1, DirectInvariant, PTL

(* The frames of the stream come to the screen one after the other and     *)
(* none is left out, from the parser by way of the queues of the MFC, the  *)
(* presentation thread and the flips (mfc.cpp run, main.cpp                *)
(* presentation_thread).                                                   *)
THEOREM FramesShownInOrder == Spec => []ShownInOrder
<1>1. DirectInv => ShownInOrder
  BY DEF DirectInv, FramesInLine
<1>2. QED
  BY <1>1, DirectInvariant, PTL

-----------------------------------------------------------------------------
(* Set-up and teardown                                                     *)

Requests == {"restore_request", "modeset_request"}

(* A flag promises all the objects its teardown releases, and each of them *)
(* has that flag to remind of it.                                          *)
Promises ==
  /\ "opened" \in mfcFlags <=> {"qh", "mfcFd"} \cap live # {}
  /\ "opened" \in mfcFlags => {"qh", "mfcFd"} \subseteq live
  /\ "inputMap" \in live => "inputFd" \in live
  /\ "opened" \in flags <=> {"fd", "CommonDRM"} \cap live # {}
  /\ {"fh", "blob"} \cap live # {} => "initialized" \in flags
  /\ "initialized" \in flags /\ uninit = {} => {"fh", "blob"} \subseteq live
  /\ "pages_alloced" \in flags =>
       Requests \subseteq live /\ \A p \in DestPages : pageFlags[p] = FlagsOf(5)

(* Pages are allocated last: until then, and again once they have been     *)
(* freed, at most the overlay of one of them is there.                     *)
PagesComeLast ==
  /\ step \in SetupSteps \ {"queueFirst"} => "pages_alloced" \notin flags
  /\ "pages_alloced" \notin flags =>
       /\ \A p \in DestPages : {"video", "request"} \cap parts[p] = {}
       /\ \A p, q \in DestPages : "overlay" \in parts[p] \cap parts[q] => p = q

(* The teardown takes down from the last to the first.                     *)
TakenDown ==
  /\ step \in (TeardownSteps \cup {"exit"}) \ {"deleteMfc"} => "opened" \notin mfcFlags
  /\ step \in {"freeBuffers", "deinit", "closeDrm", "deleteInput", "leave", "exit"} =>
       "pages_alloced" \notin flags
  /\ step \in {"deinit", "closeDrm", "deleteInput", "leave", "exit"} =>
       "buffers_alloced" \notin flags
  /\ step \in {"closeDrm", "deleteInput", "leave", "exit"} => "initialized" \notin flags
  /\ step \in {"deleteInput", "leave", "exit"} => "opened" \notin flags
  /\ step \in {"leave", "exit"} => "inputMap" \notin live
  /\ step = "exit" => bufs = {}

SetupInv ==
  SetupTypeOK /\ Promises /\ FlagsMatchObjects /\ ReleasedOnce /\ PagesComeLast /\ TakenDown

-----------------------------------------------------------------------------
(* What there is of a page                                                 *)

(* There are pages.                                                        *)
LEMMA SomePage == 1 \in DestPages /\ DestPages \subseteq Nat
BY SetupAssumption DEF DestPages

(* The parts by number.                                                    *)
LEMMA PartsOf ==
  /\ Parts = {"overlay", "video", "fbOverlay", "fbVideo", "request"}
  /\ Built(0) = {} /\ Built(1) = {"overlay"} /\ Built(2) = {"overlay", "video"}
  /\ Built(3) = {"overlay", "video", "fbOverlay"}
  /\ Built(4) = {"overlay", "video", "fbOverlay", "fbVideo"}
  /\ Built(5) = Parts
<1>1. /\ PartOrder[1] = "overlay" /\ PartOrder[2] = "video" /\ PartOrder[3] = "fbOverlay"
      /\ PartOrder[4] = "fbVideo" /\ PartOrder[5] = "request" /\ DOMAIN PartOrder = 1 .. 5
  BY DEF PartOrder
<1>2. /\ 1 .. 0 = {} /\ 1 .. 1 = {1} /\ 1 .. 2 = {1, 2} /\ 1 .. 3 = {1, 2, 3}
      /\ 1 .. 4 = {1, 2, 3, 4} /\ 1 .. 5 = {1, 2, 3, 4, 5}
  OBVIOUS
<1>3. Parts = {"overlay", "video", "fbOverlay", "fbVideo", "request"}
  BY <1>1, <1>2 DEF Parts
<1>4. QED
  BY <1>1, <1>2, <1>3 DEF Built

(* ~ExynosPage leaves the framebuffers of a complete page, and of one that *)
(* is not complete its overlay at most, when its video is what failed.     *)
LEMMA DestroyedParts ==
  /\ Destroyed(Parts, FlagsOf(5)) = {"fbOverlay", "fbVideo"}
  /\ \A n \in 0 .. 5 :
       /\ Destroyed(Built(n), FlagsOf(n)) \subseteq {"overlay", "fbOverlay", "fbVideo"}
       /\ FlagsOf(n) \subseteq {"allocated", "added", "req_created"}
<1>1. Destroyed(Parts, FlagsOf(5)) = {"fbOverlay", "fbVideo"}
  BY PartsOf DEF Destroyed, FlagsOf
<1>2. ASSUME NEW n \in 0 .. 5
      PROVE  /\ Destroyed(Built(n), FlagsOf(n)) \subseteq {"overlay", "fbOverlay", "fbVideo"}
             /\ FlagsOf(n) \subseteq {"allocated", "added", "req_created"}
  <2>1. n = 0 \/ n = 1 \/ n = 2 \/ n = 3 \/ n = 4 \/ n = 5
    OBVIOUS
  <2>2. FlagsOf(n) \subseteq {"allocated", "added", "req_created"}
    BY DEF FlagsOf
  <2>3. Destroyed(Built(n), FlagsOf(n)) \subseteq {"overlay", "fbOverlay", "fbVideo"}
    BY <2>1, PartsOf DEF Destroyed, FlagsOf
  <2>4. QED
    BY <2>2, <2>3
<1>3. QED
  BY <1>1, <1>2

-----------------------------------------------------------------------------
(* At the start nothing is set up and nothing is promised.                 *)
LEMMA InitSetupInv == SetupInit => SetupInv
BY SomePage DEF SetupInit, SetupInv, SetupTypeOK, Promises, FlagsMatchObjects, ReleasedOnce,
  PagesComeLast, TakenDown, SetupSteps, TeardownSteps, Requests

(* The steps of the set-up                                                 *)
LEMMA SetupStep == SetupInv /\ Setup => SetupInv'
<1> SUFFICES ASSUME SetupInv, Setup PROVE SetupInv'
  OBVIOUS
<1> USE SomePage DEF SetupInv, SetupTypeOK, Promises, FlagsMatchObjects, ReleasedOnce,
      PagesComeLast, TakenDown, SetupSteps, TeardownSteps, Objects, Requests, Throw, Done,
      pageVars
<1>1. CASE OpenInput
  BY <1>1 DEF OpenInput
<1>2. CASE OpenInputFails
  BY <1>2 DEF OpenInputFails
<1>3. CASE OpenDrm
  BY <1>3 DEF OpenDrm
<1>4. CASE MethodFails
  BY <1>4 DEF MethodFails
<1>5. CASE InitDrm
  BY <1>5 DEF InitDrm
<1>6. CASE BlobFails
  BY <1>6 DEF BlobFails
<1>7. CASE AllocBuffers
  BY <1>7 DEF AllocBuffers
<1>8. CASE OpenMfc
  BY <1>8 DEF OpenMfc
<1>9. CASE SetSource
  BY <1>9, ZenonT(60) DEF SetSource
<1>10. CASE InitMfc
  BY <1>10 DEF InitMfc
<1>11. CASE AllocPages
  <2>1. /\ parts' \in [DestPages -> SUBSET Parts]
        /\ pageFlags' \in [DestPages -> SUBSET {"allocated", "added", "req_created"}]
        /\ \A p \in DestPages : "video" \in parts'[p] /\ pageFlags'[p] = FlagsOf(5)
    BY <1>11, PartsOf, DestroyedParts DEF AllocPages
  <2>2. QED
    BY <1>11, <2>1 DEF AllocPages
<1>12. CASE PlanesFail
  BY <1>12 DEF PlanesFail
<1>13. CASE RestoreRequestFails
  <2>1. SetupTypeOK'
    BY <1>13 DEF RestoreRequestFails, Release
  <2>2. Promises'
    BY <1>13 DEF RestoreRequestFails, Release
  <2>3. FlagsMatchObjects'
    BY <1>13 DEF RestoreRequestFails, Release
  <2>4. ReleasedOnce'
    BY <1>13 DEF RestoreRequestFails, Release
  <2>5. PagesComeLast'
    BY <1>13 DEF RestoreRequestFails, Release
  <2>6. TakenDown'
    BY <1>13 DEF RestoreRequestFails, Release
  <2>7. QED
    BY <2>1, <2>2, <2>3, <2>4, <2>5, <2>6
<1>14. CASE PageFails
  <2>1. PICK k \in DestPages, n \in 0 .. 5 :
          parts' = [p \in DestPages |-> IF p < k THEN Destroyed(Parts, FlagsOf(5))
                                    ELSE IF p = k THEN Destroyed(Built(n), FlagsOf(n)) ELSE {}]
    BY <1>14 DEF PageFails
  <2>2. \A p \in DestPages :
          /\ parts'[p] \subseteq {"overlay", "fbOverlay", "fbVideo"}
          /\ "overlay" \in parts'[p] => p = k
    BY <2>1, DestroyedParts
  <2>3. parts' \in [DestPages -> SUBSET Parts]
    BY <2>1, <2>2, PartsOf
  <2>4. QED
    BY <1>14, <2>2, <2>3 DEF PageFails
<1>15. CASE QueueFirst
  <2>1. step' \in {"run", "deleteMfc"} /\ failed' \in BOOLEAN
    BY <1>15 DEF QueueFirst
  <2>2. QED
    BY <1>15, <2>1 DEF QueueFirst
<1>16. QED
  BY <1>1, <1>2, <1>3, <1>4, <1>5, <1>6, <1>7, <1>8, <1>9, <1>10, <1>11, <1>12, <1>13, <1>14,
     <1>15 DEF Setup

(* The end of the threads and the steps of the teardown                    *)
LEMMA TeardownStep == SetupInv /\ (Joined \/ Teardown) => SetupInv'
<1> SUFFICES ASSUME SetupInv, Joined \/ Teardown PROVE SetupInv'
  OBVIOUS
<1> USE SomePage DEF SetupInv, SetupTypeOK, Promises, FlagsMatchObjects, ReleasedOnce,
      PagesComeLast, TakenDown, SetupSteps, TeardownSteps, Objects, Requests, Done, Release,
      pageVars
<1>1. CASE Joined
  <2>1. SetupTypeOK'
    BY <1>1 DEF Joined
  <2>2. Promises'
    BY <1>1 DEF Joined
  <2>3. FlagsMatchObjects'
    BY <1>1 DEF Joined
  <2>4. ReleasedOnce'
    BY <1>1 DEF Joined
  <2>5. PagesComeLast'
    BY <1>1 DEF Joined
  <2>6. TakenDown'
    BY <1>1 DEF Joined
  <2>7. QED
    BY <2>1, <2>2, <2>3, <2>4, <2>5, <2>6
<1>2. CASE DeleteMfc
  <2>1. misused' = misused
    <3>1. "opened" \in mfcFlags => {"qh", "mfcFd"} \ live = {}
      BY <1>2 DEF DeleteMfc
    <3>2. QED
      BY <1>2, <3>1, SMTT(30) DEF DeleteMfc
  <2>2. live' = live \ {"qh", "mfcFd"} /\ mfcFlags' = mfcFlags \ {"opened"}
    BY <1>2 DEF DeleteMfc
  <2>3. QED
    BY <1>2, <2>1, <2>2 DEF DeleteMfc
<1>3. CASE FreePages
  <2>1. \A p \in DestPages : parts'[p] \subseteq parts[p] \ {"overlay", "video", "request"}
    BY <1>3 DEF FreePages, Destroyed, FlagsOf
  <2>2. parts' \in [DestPages -> SUBSET Parts]
    BY <1>3, <2>1 DEF FreePages
  <2>3. QED
    BY <1>3, <2>1, <2>2 DEF FreePages
<1>4. CASE FreeBuffers
  <2>1. SetupTypeOK'
    BY <1>4 DEF FreeBuffers
  <2>2. Promises'
    BY <1>4 DEF FreeBuffers
  <2>3. FlagsMatchObjects'
    BY <1>4 DEF FreeBuffers
  <2>4. ReleasedOnce'
    <3>1. {"device"} \ live = {}
      BY <1>4 DEF FreeBuffers
    <3>2. misused' = misused
      BY <1>4, <3>1, SMTT(30) DEF FreeBuffers
    <3>3. QED
      BY <1>4, <3>2 DEF FreeBuffers
  <2>5. PagesComeLast'
    BY <1>4 DEF FreeBuffers
  <2>6. TakenDown'
    BY <1>4 DEF FreeBuffers
  <2>7. QED
    BY <2>1, <2>2, <2>3, <2>4, <2>5, <2>6
<1>5. CASE Deinit
  <2>1. SetupTypeOK'
    BY <1>5 DEF Deinit
  <2>2. Promises'
    BY <1>5 DEF Deinit
  <2>3. FlagsMatchObjects'
    BY <1>5 DEF Deinit
  <2>4. ReleasedOnce'
    <3>1. uninit = {} /\ "buffers_alloced" \notin flags => {"blob", "fh"} \ live = {}
      BY <1>5 DEF Deinit
    <3>2. QED
      BY <1>5, <3>1 DEF Deinit
  <2>5. PagesComeLast'
    BY <1>5 DEF Deinit
  <2>6. TakenDown'
    BY <1>5 DEF Deinit
  <2>7. QED
    BY <2>1, <2>2, <2>3, <2>4, <2>5, <2>6
<1>6. CASE CloseDrm
  <2>1. SetupTypeOK'
    BY <1>6 DEF CloseDrm
  <2>2. Promises'
    BY <1>6 DEF CloseDrm
  <2>3. FlagsMatchObjects'
    BY <1>6 DEF CloseDrm
  <2>4. ReleasedOnce'
    <3>1. "initialized" \notin flags => {"fd", "CommonDRM"} \ live = {}
      BY <1>6 DEF CloseDrm
    <3>2. QED
      BY <1>6, <3>1 DEF CloseDrm
  <2>5. PagesComeLast'
    BY <1>6 DEF CloseDrm
  <2>6. TakenDown'
    BY <1>6 DEF CloseDrm
  <2>7. QED
    BY <2>1, <2>2, <2>3, <2>4, <2>5, <2>6
<1>7. CASE SkipDrm
  BY <1>7, ZenonT(60) DEF SkipDrm, Skip
<1>8. CASE DeleteInput
  <2>1. SetupTypeOK'
    BY <1>8 DEF DeleteInput
  <2>2. Promises'
    BY <1>8 DEF DeleteInput
  <2>3. FlagsMatchObjects'
    BY <1>8 DEF DeleteInput
  <2>4. ReleasedOnce'
    <3>1. "inputMap" \in live => {"inputMap", "inputFd"} \ live = {}
      BY <1>8 DEF DeleteInput
    <3>2. QED
      BY <1>8, <3>1 DEF DeleteInput
  <2>5. PagesComeLast'
    BY <1>8 DEF DeleteInput
  <2>6. TakenDown'
    BY <1>8 DEF DeleteInput
  <2>7. QED
    BY <2>1, <2>2, <2>3, <2>4, <2>5, <2>6
<1>9. CASE Leave
  BY <1>9 DEF Leave
<1>10. CASE Crash
  BY <1>10 DEF Crash
<1>11. QED
  BY <1>1, <1>2, <1>3, <1>4, <1>5, <1>6, <1>7, <1>8, <1>9, <1>10 DEF Teardown

(* The invariant is about the variables of the set-up only.                *)
LEMMA StutterStep == SetupInv /\ UNCHANGED setupVars => SetupInv'
BY DEF SetupInv, SetupTypeOK, Promises, FlagsMatchObjects, ReleasedOnce, PagesComeLast, TakenDown,
  setupVars

(* What an inductive invariant says about the end                          *)
LEMMA NothingLeftAtExit == SetupInv => NothingLeft
BY DEF SetupInv, SetupTypeOK, Promises, FlagsMatchObjects, PagesComeLast, TakenDown, NothingLeft,
  Objects, Requests, TeardownSteps

-----------------------------------------------------------------------------
(* Every state satisfies the inductive invariant: the flags promise no more*)
(* and no less than exists, and the teardown goes from the last to the     *)
(* first.                                                                  *)
THEOREM SetupInvariant == SetupSpec => []SetupInv
<1>1. SetupInv /\ [SetupNext]_setupVars => SetupInv'
  BY SetupStep, TeardownStep, StutterStep DEF SetupNext
<1>2. QED
  BY InitSetupInv, <1>1, PTL DEF SetupSpec

(* ExynosDRM's flags, by which free_pages, free_buffers, deinit and close  *)
(* decide, match the objects at each step of main.                         *)
THEOREM FlagsMatch == SetupSpec => [](SetupTypeOK /\ FlagsMatchObjects)
<1>1. SetupInv => SetupTypeOK /\ FlagsMatchObjects
  BY DEF SetupInv
<1>2. QED
  BY <1>1, SetupInvariant, PTL

(* Wherever the set-up fails, what is torn down is torn down once, and     *)
(* main leaves nothing behind but what NothingLeft lists.                  *)
THEOREM TeardownComplete == SetupSpec => [](ReleasedOnce /\ NothingLeft)
<1>1. SetupInv => ReleasedOnce /\ NothingLeft
  BY NothingLeftAtExit DEF SetupInv
<1>2. QED
  BY <1>1, SetupInvariant, PTL

-----------------------------------------------------------------------------
(* The whole program                                                       *)

(* main's set-up and teardown in the program are those of DirectSetup.     *)
LEMMA ProgramStep == [ProgramNext]_programVars => [SetupNext]_setupVars
BY DEF ProgramNext, programVars, SetUp, RunMain, RunPresentation, JoinThreads, TakeDown, RunMfc,
  RunDisplay, SetupNext

(* A behaviour of the program is one of DirectSetup.                       *)
THEOREM ProgramIsSetup == ProgramSpec => SetupSpec
<1>1. ProgramInit => SetupInit
  BY DEF ProgramInit
<1>2. QED
  BY <1>1, ProgramStep, PTL DEF ProgramSpec, SetupSpec

(* Whatever the threads and the devices do between, the flags by which     *)
(* ExynosDRM takes down match the objects.                                 *)
THEOREM ProgramFlags == ProgramSpec => []FlagsMatchObjects
BY ProgramIsSetup, FlagsMatch, PTL

(* Whatever call fails, everything is released only once,                  *)
THEOREM ProgramReleases == ProgramSpec => []ReleasedOnce
BY ProgramIsSetup, TeardownComplete, PTL

(* and main leaves nothing behind but what NothingLeft lists.              *)
THEOREM ProgramLeavesNothing == ProgramSpec => []NothingLeft
BY ProgramIsSetup, TeardownComplete, PTL

(* A behaviour of the program is one of DrmDirect: neither the set-up nor  *)
(* the teardown takes part in the decoding.                                *)
THEOREM ProgramIsDecoding == ProgramSpec => Spec
<1>1. ProgramInit => Init
  BY DEF ProgramInit
<1>2. [ProgramNext]_programVars => [Next]_vars
  BY DEF ProgramNext, programVars, SetUp, RunMain, RunPresentation, JoinThreads, TakeDown, RunMfc,
    RunDisplay, Next
<1>3. QED
  BY <1>1, <1>2, PTL DEF ProgramSpec, Spec

(* The variables of both parts keep their types in the whole program.      *)
THEOREM ProgramTypes == ProgramSpec => []ProgramTypeOK
<1>1. ProgramSpec => []SetupTypeOK
  BY ProgramIsSetup, FlagsMatch, PTL
<1>2. ProgramSpec => []TypeOK
  BY ProgramIsDecoding, DirectTypes, PTL
<1>3. QED
  BY <1>1, <1>2, PTL DEF ProgramTypeOK

(* Whatever main sets up and takes down, a page has one owner,             *)
THEOREM ProgramPages == ProgramSpec => []PagesAreOwnedOnce
BY ProgramIsDecoding, PagesOwnedOnce, PTL

(* and the frames come to the screen in their order.                       *)
THEOREM ProgramShowsInOrder == ProgramSpec => []ShownInOrder
BY ProgramIsDecoding, FramesShownInOrder, PTL

-----------------------------------------------------------------------------
(* The pages are there from their allocation until the MFC is closed,      *)
(* unless a call failed, after which main only takes down.                 *)
PagesThere ==
  /\ step \in SetupSteps \cup {"run"} => ~failed
  /\ step \in {"queueFirst", "run", "deleteMfc", "freePages"} /\ ~failed =>
       "pages_alloced" \in flags

(* No flip is under way but between the start of the threads and the commit*)
(* that restores the display; when the set-up failed there is none at all. *)
FlipsEnd ==
  failed \/ step \notin {"run", "deleteMfc", "freePages", "crashed"} => flipping = None

PInv == SetupInv /\ PagesThere /\ FlipsEnd

(* At the start there are no pages yet and no flip.                        *)
LEMMA InitPInv == ProgramInit => PInv
BY InitSetupInv DEF ProgramInit, PInv, Init, SetupInit, PagesThere, FlipsEnd, SetupSteps

(* What the steps of the set-up and of the teardown do to the conjuncts.   *)
LEMMA SetupKeeps == SetupInv /\ PagesThere /\ Setup => PagesThere'
<1> SUFFICES ASSUME SetupInv, PagesThere, Setup PROVE PagesThere'
  OBVIOUS
<1> USE DEF SetupInv, SetupTypeOK, PagesThere, SetupSteps, Throw, Done
<1>1. CASE OpenInput \/ OpenInputFails \/ OpenDrm \/ MethodFails
  BY <1>1 DEF OpenInput, OpenInputFails, OpenDrm, MethodFails
<1>2. CASE InitDrm \/ BlobFails \/ AllocBuffers \/ OpenMfc
  BY <1>2 DEF InitDrm, BlobFails, AllocBuffers, OpenMfc
<1>3. CASE SetSource \/ InitMfc \/ AllocPages
  BY <1>3 DEF SetSource, InitMfc, AllocPages
<1>4. CASE PlanesFail \/ RestoreRequestFails \/ PageFails
  BY <1>4 DEF PlanesFail, RestoreRequestFails, PageFails
<1>5. CASE QueueFirst
  BY <1>5 DEF QueueFirst
<1>6. QED
  BY <1>1, <1>2, <1>3, <1>4, <1>5 DEF Setup

(* A step of the set-up starts with a step of the set-up.                  *)
LEMMA SetupStarts == Setup => step \in SetupSteps
BY DEF SetupSteps, Setup, OpenInput, OpenInputFails, OpenDrm, MethodFails, InitDrm, BlobFails,
  AllocBuffers, OpenMfc, SetSource, InitMfc, AllocPages, PlanesFail, RestoreRequestFails,
  PageFails, QueueFirst

(* A step of the teardown goes on with it.                                 *)
LEMMA TeardownKeeps ==
  Teardown =>
    /\ step' \notin SetupSteps \cup {"run", "deleteMfc"} /\ failed' = failed
    /\ step' = "freePages" => step = "deleteMfc" /\ flags' = flags
    /\ step' # "crashed" => step \in TeardownSteps
    /\ step = "deleteMfc" => step' \in {"freePages", "crashed"}
<1> SUFFICES ASSUME Teardown
             PROVE  /\ step' \notin SetupSteps \cup {"run", "deleteMfc"} /\ failed' = failed
                    /\ step' = "freePages" => step = "deleteMfc" /\ flags' = flags
                    /\ step' # "crashed" => step \in TeardownSteps
                    /\ step = "deleteMfc" => step' \in {"freePages", "crashed"}
  OBVIOUS
<1> USE DEF SetupSteps, TeardownSteps, Done
<1>1. CASE DeleteMfc \/ FreePages \/ FreeBuffers \/ Deinit
  BY <1>1 DEF DeleteMfc, FreePages, FreeBuffers, Deinit
<1>2. CASE CloseDrm \/ SkipDrm \/ DeleteInput
  BY <1>2 DEF CloseDrm, SkipDrm, Skip, DeleteInput
<1>3. CASE Leave \/ Crash
  BY <1>3 DEF Leave, Crash
<1>4. QED
  BY <1>1, <1>2, <1>3 DEF Teardown

(* Neither the program nor the devices break it.                           *)
LEMMA StepPInv == PInv /\ [ProgramNext]_programVars => PInv'
<1> SUFFICES ASSUME PInv, [ProgramNext]_programVars PROVE PInv'
  OBVIOUS
<1>0. SetupInv'
  BY ProgramStep, SetupStep, TeardownStep, StutterStep DEF PInv, SetupNext
<1> USE <1>0 DEF PInv, PagesThere, FlipsEnd, vars, setupVars, crtcVars
<1>1. CASE SetUp
  <2>1. flipping = None /\ flipping' = flipping
    BY <1>1, SetupStarts DEF SetUp, SetupSteps
  <2>2. QED
    BY <1>1, <2>1, SetupKeeps DEF SetUp
<1>2. CASE RunMain
  BY <1>2 DEF RunMain
<1>3. CASE RunPresentation
  BY <1>3 DEF RunPresentation
<1>4. CASE JoinThreads
  BY <1>4 DEF JoinThreads, Joined, Done
<1>5. CASE TakeDown
  <2>1. Teardown /\ (step = "freePages" => flipping = None) /\ flipping' = flipping
    BY <1>5 DEF TakeDown
  <2>2. PagesThere'
    BY <2>1, TeardownKeeps DEF SetupSteps
  <2>3. FlipsEnd'
    BY <2>1, TeardownKeeps DEF TeardownSteps
  <2>4. QED
    BY <2>2, <2>3
<1>6. CASE RunMfc
  BY <1>6 DEF RunMfc, MfcDecode, MfcDeliver
<1>7. CASE RunDisplay
  BY <1>7 DEF RunDisplay, Vblank
<1>8. CASE UNCHANGED programVars
  BY <1>8 DEF programVars
<1>9. QED
  BY <1>1, <1>2, <1>3, <1>4, <1>5, <1>6, <1>7, <1>8 DEF ProgramNext

(* The memory of a page outlives the MFC's file, and the last flip to it:  *)
(* the decoder is deleted before free_pages, and the commit there waits.   *)
THEOREM PagesOutlive == ProgramSpec => []PagesOutliveDevices
<1>1. PInv => PagesOutliveDevices
  <2> SUFFICES ASSUME PInv, step \in {"run"} \cup TeardownSteps, ~failed, NEW p \in DestPages,
                      ("mfcFd" \in live /\ p \in AtMfc) \/ p = flipping
               PROVE  "video" \in parts[p]
    BY DEF PagesOutliveDevices
  <2>1. p # None
    BY SomePage DEF DestPages, None
  <2>2. step \in {"run", "deleteMfc", "freePages"}
    <3>1. CASE "mfcFd" \in live
      BY <3>1 DEF PInv, SetupInv, Promises, TakenDown, TeardownSteps
    <3>2. CASE p = flipping
      BY <3>2, <2>1 DEF PInv, FlipsEnd, TeardownSteps
    <3>3. QED
      BY <3>1, <3>2
  <2>3. QED
    BY <2>2 DEF PInv, SetupInv, PagesThere, FlagsMatchObjects
<1>2. QED
  BY <1>1, InitPInv, StepPInv, PTL DEF ProgramSpec
-----------------------------------------------------------------------------
(* The pipeline                                                            *)

(* How many frames are where: at the MFC, decoded and to be dequeued, about*)
(* to be shown                                                             *)
ToDecode == Len(source)
Decoded  == Len(held) + Len(destReady)
Flips    == IF flipping = None THEN 0 ELSE 1
Shown    == Len(shown)

(* A source buffer that the MFC has is in one of its queues, once, and is  *)
(* marked as busy.                                                         *)
SourcesApart ==
  /\ \A i, j \in DOMAIN source : source[i][1] = source[j][1] => i = j
  /\ Distinct(sourceDone)
  /\ \A i \in DOMAIN source : source[i][1] \notin Items(sourceDone) /\ busy[source[i][1]]
  /\ \A b \in Items(sourceDone) : busy[b]

Highest(n) == n \in 0 .. NFrames /\ (\E p \in Pages : content[p] = n) /\ \A p \in Pages : content[p] <= n

(* The frames counted from the last one decoded: those to be decoded come  *)
(* after it, and those between it and the screen are in the MFC's queues,  *)
(* under way to the screen, and, one of them, in the thread's hand, where  *)
(* it remains when the thread fails to show it.                            *)
FramesCounted ==
  /\ Highest(Newest)
  /\ \A k \in DOMAIN source : source[k][2] = Newest + k
  /\ Parsing => parsed = Newest + ToDecode
  /\ \E h \in {0, 1} :
       /\ Newest = Shown + Flips + h + Decoded
       /\ IF ppc \in {"error", "stopped"} THEN h = 1 => page # None ELSE h = Presenting

(* The types of what is counted                                            *)
LEMMA FrameCounts ==
  ASSUME DirectInv
  PROVE  /\ ToDecode \in Nat /\ Decoded \in Nat /\ Flips \in {0, 1} /\ Shown \in Nat /\ Presenting \in {0, 1}
         /\ NSrc \in Nat /\ NPages \in Nat /\ NFrames \in Nat
<1>1. Len(destReady) \in Nat /\ Len(held) \in Nat /\ Len(source) \in Nat /\ Len(shown) \in Nat /\ Presenting \in {0, 1}
  BY Places DEF DirectInv
<1>2. QED
  BY <1>1, DirectAssumption DEF ToDecode, Decoded, Flips, Shown

(* There is one highest number.                                            *)
LEMMA HighestIsNewest ==
  ASSUME NEW c \in [Pages -> 0 .. NFrames], NEW n \in 0 .. NFrames,
         \E p \in Pages : c[p] = n, \A p \in Pages : c[p] <= n
  PROVE  (CHOOSE m \in 0 .. NFrames : (\E p \in Pages : c[p] = m) /\ \A p \in Pages : c[p] <= m) = n
<1> DEFINE P(m) == m \in 0 .. NFrames /\ (\E p \in Pages : c[p] = m) /\ \A p \in Pages : c[p] <= m
<1>1. \A m : P(m) => m = n
  <2> SUFFICES ASSUME NEW m, P(m) PROVE m = n
    OBVIOUS
  <2>1. m <= n /\ n <= m /\ m \in Int /\ n \in Int
    BY DirectAssumption
  <2>2. QED
    BY <2>1
<1>2. P(n)
  OBVIOUS
<1>3. QED
  BY <1>1, <1>2

(* A source buffer that is not busy is not with the MFC, so that the MFC   *)
(* has fewer than there are.                                               *)
LEMMA RoomAtSource ==
  ASSUME DirectInv, SourcesApart, NEW b \in Srcs, ~busy[b]
  PROVE  ToDecode < NSrc
<1> DEFINE s == [k \in DOMAIN source |-> source[k][1]]
<1>1. source \in Seq(Srcs \X (1 .. NFrames)) /\ Len(source) \in Nat /\ DOMAIN source = 1 .. Len(source)
  BY Held DEF DirectInv, TypeOK
<1>2. \A k \in DOMAIN source : source[k][1] \in Srcs
  BY <1>1
<1>3. s \in Seq(Srcs) /\ Len(s) = Len(source) /\ DOMAIN s = DOMAIN source
  BY <1>1, <1>2
<1>4. Distinct(s) /\ Items(s) \subseteq Srcs \ {b}
  BY <1>2, <1>3 DEF SourcesApart, Distinct, Items
<1> HIDE DEF s
<1>5. Cardinality(Items(s)) = Len(s)
  BY <1>3, <1>4, AsLongAsItsItems
<1>6. IsFiniteSet(Srcs) /\ Cardinality(Srcs) = NSrc
  <2>1. NSrc \in Nat
    BY DirectAssumption
  <2>2. IsFiniteSet(1 .. NSrc) /\ Cardinality(1 .. NSrc) = IF 1 > NSrc THEN 0 ELSE NSrc - 1 + 1
    BY <2>1, FS_Interval
  <2>3. QED
    BY <2>1, <2>2 DEF Srcs
<1>7. IsFiniteSet(Srcs \ {b}) /\ Cardinality(Srcs \ {b}) = NSrc - 1
  BY <1>6, FS_RemoveElement
<1>8. Cardinality(Items(s)) <= Cardinality(Srcs \ {b})
  BY <1>4, <1>7, FS_Subset
<1>9. QED
  BY <1>1, <1>3, <1>5, <1>7, <1>8, DirectAssumption DEF ToDecode

(* The MFC has as many pages as indices: those of its queues, one behind   *)
(* the other, are different ones.                                          *)
LEMMA PagesInLine ==
  ASSUME DirectInv
  PROVE  \E q \in Seq(Pages) :
           Len(q) = Len(dest) + Len(held) + Len(destReady) /\ Distinct(q) /\ Items(q) = AtMfc
<1> DEFINE t == dest \o held
           s == t \o destReady
           q == [k \in DOMAIN s |-> dest_buffers[s[k]]]
<1>1. /\ dest \in Seq(Pages) /\ held \in Seq(Pages) /\ destReady \in Seq(Pages) /\ dest_buffers \in Seq(Pages)
      /\ Len(dest) \in Nat /\ Len(held) \in Nat /\ Len(destReady) \in Nat
  BY DEF DirectInv, TypeOK
<1>2. /\ t \in Seq(Pages) /\ Len(t) = Len(dest) + Len(held) /\ Items(t) = Items(dest) \cup Items(held) /\ Distinct(t)
  BY <1>1, BehindOneAnother DEF DirectInv, Indices
<1>3. /\ s \in Seq(Pages) /\ Len(s) = Len(t) + Len(destReady) /\ Items(s) = Items(t) \cup Items(destReady)
      /\ Distinct(s)
  <2>1. /\ t \in Seq(Pages) /\ Distinct(t) /\ destReady \in Seq(Pages) /\ Distinct(destReady)
        /\ Items(t) \cap Items(destReady) = {}
    BY <1>1, <1>2 DEF DirectInv, Indices
  <2> HIDE DEF t
  <2>2. /\ t \o destReady \in Seq(Pages) /\ Len(t \o destReady) = Len(t) + Len(destReady)
        /\ Items(t \o destReady) = Items(t) \cup Items(destReady) /\ Distinct(t \o destReady)
    BY <2>1, BehindOneAnother
  <2>3. QED
    BY <2>2
<1>4. Items(s) = MfcIndices /\ Items(s) \subseteq DOMAIN dest_buffers
  BY <1>2, <1>3 DEF MfcIndices, DirectInv, Indices
<1>5. Len(s) = Len(dest) + Len(held) + Len(destReady)
  BY <1>1, <1>2, <1>3
<1> HIDE DEF t, s
<1>6. /\ DOMAIN s = 1 .. Len(s) /\ Len(s) \in Nat
      /\ \A k \in DOMAIN s : s[k] \in DOMAIN dest_buffers /\ dest_buffers[s[k]] \in Pages
  <2>1. DOMAIN s = 1 .. Len(s) /\ Len(s) \in Nat /\ \A k \in DOMAIN s : s[k] \in Items(s)
    BY <1>3, Held
  <2>2. \A i \in DOMAIN dest_buffers : dest_buffers[i] \in Pages
    BY <1>1
  <2>3. QED
    BY <1>4, <2>1, <2>2
<1>7. q \in Seq(Pages) /\ Len(q) = Len(s) /\ DOMAIN q = DOMAIN s
  BY <1>6
<1>8. Distinct(q)
  <2>1. Distinct(dest_buffers)
    BY DEF DirectInv, Indices
  <2>2. QED
    BY <1>3, <1>6, <1>7, <2>1 DEF Distinct
<1>9. Items(q) = AtMfc
  <2>1. \A p : p \in Items(q) <=> \E i \in Items(s) : p = dest_buffers[i]
    BY <1>7 DEF Items
  <2>2. QED
    BY <1>4, <2>1, PagesAtMfc
<1>10. QED
  BY <1>5, <1>7, <1>8, <1>9

(* The pages with frames between the MFC and the screen are different ones,*)
(* and others than the page the MFC decodes to next.                       *)
LEMMA RoomForPictures ==
  ASSUME DirectInv, dest # <<>>, NEW h \in {0, 1}, h = 1 => page # None
  PROVE  Flips + h + Decoded < NPages
<1>1. PICK q \in Seq(Pages) :
        Len(q) = Len(dest) + Len(held) + Len(destReady) /\ Distinct(q) /\ Items(q) = AtMfc
  BY PagesInLine
<1> DEFINE f == IF flipping = None THEN q ELSE Append(q, flipping)
           g == IF h = 0 THEN f ELSE Append(f, page)
<1>2. Len(dest) \in Nat /\ Len(held) \in Nat /\ Len(destReady) \in Nat /\ Len(dest) > 0
  <2>1. dest \in Seq(Pages) /\ held \in Seq(Pages) /\ destReady \in Seq(Pages)
    BY DEF DirectInv, TypeOK
  <2>2. QED
    BY <2>1, EmptySeq
<1>3. f \in Seq(Pages) /\ Len(f) = Len(q) + Flips /\ Distinct(f) /\ Items(f) \subseteq AtMfc \cup {flipping}
  <2>1. CASE flipping = None
    BY <1>1, <2>1, Held DEF Flips
  <2>2. CASE flipping # None
    <3>1. flipping \in Pages /\ flipping \notin Items(q)
      BY <1>1, <2>2 DEF DirectInv, TypeOK, OwnedOnce
    <3>2. QED
      BY <1>1, <2>2, <3>1, Put DEF Flips
  <2>3. QED
    BY <2>1, <2>2
<1> HIDE DEF f
<1>4. g \in Seq(Pages) /\ Len(g) = Len(f) + h /\ Distinct(g)
  <2>1. CASE h = 0
    <3>1. Len(f) \in Nat
      BY <1>3, Held
    <3>2. QED
      BY <1>3, <2>1, <3>1
  <2>2. CASE h = 1
    <3>1. page \in Pages /\ page \notin Items(f)
      BY <1>3, <2>2 DEF DirectInv, TypeOK, OwnedOnce
    <3>2. QED
      BY <1>3, <2>2, <3>1, Put
  <2>3. QED
    BY <2>1, <2>2
<1> HIDE DEF g
<1>5. Len(g) <= NPages
  BY <1>4, DistinctLength
<1>6. Flips \in {0, 1} /\ NPages \in Nat
  BY FrameCounts
<1>7. QED
  BY <1>1, <1>2, <1>3, <1>4, <1>5, <1>6 DEF Decoded

(* A frame is queued at the MFC.                                           *)
LEMMA PipelineParses ==
  DirectInv /\ SourcesApart /\ FramesCounted /\ RunQueue
    => SourcesApart' /\ FramesCounted' /\ Pipeline!Parse
<1> SUFFICES ASSUME DirectInv, SourcesApart, FramesCounted, RunQueue
             PROVE  SourcesApart' /\ FramesCounted' /\ Pipeline!Parse
  OBVIOUS
<1>1. /\ UNCHANGED <<mpc, ppc, error, page, flipping, shown, content, destReady, held, sourceDone>>
      /\ parsed' = parsed + 1 /\ source' = Append(source, <<next, parsed + 1>>) /\ Parsing
      /\ busy' = [busy EXCEPT ![next] = TRUE] /\ ~busy[next] /\ parsed + 1 < NFrames
      /\ next \in Srcs /\ parsed + 1 \in 1 .. NFrames /\ busy \in [Srcs -> BOOLEAN]
      /\ source \in Seq(Srcs \X (1 .. NFrames)) /\ parsed \in Nat
  BY DirectAssumption DEF RunQueue, FrameFinished, Parsing, Srcs, DirectInv, TypeOK, presVars, crtcVars
<1>2. /\ Len(source') = Len(source) + 1 /\ Len(source) \in Nat
      /\ \A k \in DOMAIN source' :
           \/ k \in DOMAIN source /\ source'[k] = source[k]
           \/ k = Len(source) + 1 /\ source'[k] = <<next, parsed + 1>>
  <2>1. <<next, parsed + 1>> \in Srcs \X (1 .. NFrames)
    BY <1>1
  <2>2. QED
    BY <1>1, <2>1, Put
<1>3. SourcesApart'
  <2>1. \A k \in DOMAIN source : source[k][1] # next
    BY <1>1 DEF SourcesApart
  <2>2. next \notin Items(sourceDone)
    BY <1>1 DEF SourcesApart
  <2>3. \A i, j \in DOMAIN source' : source'[i][1] = source'[j][1] => i = j
    <3> SUFFICES ASSUME NEW i \in DOMAIN source', NEW j \in DOMAIN source', source'[i][1] = source'[j][1]
                 PROVE  i = j
      OBVIOUS
    <3>1. CASE i \in DOMAIN source /\ source'[i] = source[i]
      BY <1>2, <2>1, <3>1 DEF SourcesApart
    <3>2. CASE i = Len(source) + 1 /\ source'[i] = <<next, parsed + 1>>
      BY <1>2, <2>1, <3>2 DEF SourcesApart
    <3>3. QED
      BY <1>2, <3>1, <3>2
  <2>4. \A i \in DOMAIN source' : source'[i][1] \notin Items(sourceDone') /\ busy'[source'[i][1]]
    <3> TAKE i \in DOMAIN source'
    <3>1. CASE i \in DOMAIN source /\ source'[i] = source[i]
      <4>1. source[i][1] \in Srcs /\ busy[source[i][1]] /\ source[i][1] \notin Items(sourceDone)
        BY <1>1, <3>1 DEF SourcesApart
      <4>2. QED
        BY <1>1, <3>1, <4>1
    <3>2. CASE i = Len(source) + 1 /\ source'[i] = <<next, parsed + 1>>
      BY <1>1, <2>2, <3>2
    <3>3. QED
      BY <1>2, <3>1, <3>2
  <2>5. \A b \in Items(sourceDone') : busy'[b]
    <3>1. Items(sourceDone) \subseteq Srcs
      BY Held DEF DirectInv, TypeOK
    <3>2. QED
      BY <1>1, <3>1 DEF SourcesApart
  <2>6. QED
    BY <1>1, <2>3, <2>4, <2>5 DEF SourcesApart
<1>4. Newest' = Newest /\ Decoded' = Decoded /\ Flips' = Flips /\ Shown' = Shown /\ Presenting' = Presenting
      /\ ToDecode' = ToDecode + 1 /\ Parsing' = Parsing /\ (Highest(Newest) => Highest(Newest)')
  BY <1>1, <1>2 DEF Newest, Decoded, Flips, Shown, Presenting, ToDecode, Parsing, Highest
<1>5. Newest \in Nat /\ parsed = Newest + ToDecode
  BY <1>1, DirectAssumption DEF FramesCounted, Highest
<1>6. \A k \in DOMAIN source' : source'[k][2] = Newest + k
  <2> TAKE k \in DOMAIN source'
  <2>1. CASE k \in DOMAIN source /\ source'[k] = source[k]
    BY <2>1 DEF FramesCounted
  <2>2. CASE k = Len(source) + 1 /\ source'[k] = <<next, parsed + 1>>
    <3>1. source'[k][2] = parsed + 1 /\ k = ToDecode + 1
      BY <2>2 DEF ToDecode
    <3>2. QED
      BY <1>5, <3>1, FrameCounts
  <2>3. QED
    BY <1>2, <2>1, <2>2
<1>7. parsed' = Newest + ToDecode'
  <2>1. parsed' = parsed + 1 /\ ToDecode \in Nat
    BY <1>1, FrameCounts
  <2>2. QED
    BY <1>4, <1>5, <2>1
<1>8. FramesCounted'
  BY <1>1, <1>4, <1>6, <1>7 DEF FramesCounted
<1>9. ToDecode < NSrc
  BY <1>1, RoomAtSource
<1>10. /\ Newest + Len(source) < NFrames /\ (Newest + Len(source)) - Newest < NSrc
       /\ Newest' + Len(source') = (Newest + Len(source)) + 1
  BY <1>1, <1>4, <1>5, <1>9, FrameCounts DEF ToDecode
<1>11. Pipeline!Parse
  BY <1>1, <1>4, <1>10 DEF Pipeline!Parse
<1>12. QED
  BY <1>3, <1>8, <1>11

(* A frame is decoded.                                                     *)
LEMMA PipelineDecodes ==
  DirectInv /\ SourcesApart /\ FramesCounted /\ MfcDecode
    => SourcesApart' /\ FramesCounted' /\ Pipeline!Decode
<1> SUFFICES ASSUME DirectInv, SourcesApart, FramesCounted, MfcDecode
             PROVE  SourcesApart' /\ FramesCounted' /\ Pipeline!Decode
  OBVIOUS
<1> DEFINE b == Head(source)[1]
           n == Head(source)[2]
           p == dest_buffers[Head(dest)]
<1>1. /\ UNCHANGED <<mpc, ppc, error, busy, parsed, page, flipping, shown, destReady>>
      /\ source # <<>> /\ source' = Tail(source) /\ dest # <<>>
      /\ held' = Append(held, Head(dest)) /\ content' = [content EXCEPT ![p] = n]
      /\ sourceDone' = Append(sourceDone, b)
  BY DEF MfcDecode, swVars, mainVars, presVars, crtcVars
<1>2. /\ held \in Seq(Pages) /\ dest \in Seq(Pages) /\ sourceDone \in Seq(Srcs)
      /\ source \in Seq(Srcs \X (1 .. NFrames)) /\ content \in [Pages -> 0 .. NFrames]
  BY DEF DirectInv, TypeOK
<1>3. /\ Head(source) = source[1] /\ 1 \in DOMAIN source /\ Len(source') = Len(source) - 1
      /\ \A k \in DOMAIN source' : k \in Nat /\ k + 1 \in DOMAIN source /\ source'[k] = source[k + 1]
      /\ Head(source) \in Srcs \X (1 .. NFrames)
  BY <1>1, <1>2, Taken
<1>4. b \in Srcs /\ n \in 1 .. NFrames /\ n \in 0 .. NFrames
  BY <1>3, DirectAssumption
<1>5. p \in Pages /\ Head(dest) \in Pages /\ Len(held') = Len(held) + 1
  <2>1. Head(dest) \in Items(dest) /\ Head(dest) \in Pages
    BY <1>1, <1>2, Taken
  <2>2. Head(dest) \in DOMAIN dest_buffers /\ dest_buffers \in Seq(Pages)
    BY <2>1 DEF DirectInv, Indices, TypeOK
  <2>3. p \in Pages
    BY <2>2
  <2>4. Len(held') = Len(held) + 1
    BY <1>1, <1>2, <2>1, Put
  <2>5. QED
    BY <2>1, <2>3, <2>4
<1>6. SourcesApart'
  <2>1. b \notin Items(sourceDone) /\ busy[b]
    BY <1>3 DEF SourcesApart
  <2>2. Items(sourceDone') = Items(sourceDone) \cup {b} /\ Distinct(sourceDone')
    <3>1. Distinct(sourceDone)
      BY DEF SourcesApart
    <3> HIDE DEF b
    <3>2. Items(Append(sourceDone, b)) = Items(sourceDone) \cup {b} /\ Distinct(Append(sourceDone, b))
      BY <1>2, <1>4, <2>1, <3>1, Put
    <3>3. QED
      BY <1>1, <3>2
  <2>3. \A i \in DOMAIN source' : i + 1 \in DOMAIN source /\ i + 1 # 1 /\ source'[i] = source[i + 1]
    BY <1>3
  <2>4. \A i \in DOMAIN source' : source'[i][1] # b /\ source'[i][1] \notin Items(sourceDone) /\ busy[source'[i][1]]
    BY <1>3, <2>3 DEF SourcesApart
  <2>5. \A i, j \in DOMAIN source' : source'[i][1] = source'[j][1] => i = j
    <3> SUFFICES ASSUME NEW i \in DOMAIN source', NEW j \in DOMAIN source', source'[i][1] = source'[j][1]
                 PROVE  i = j
      OBVIOUS
    <3>1. i + 1 = j + 1
      BY <2>3 DEF SourcesApart
    <3>2. QED
      BY <1>3, <3>1
  <2>6. QED
    BY <1>1, <2>1, <2>2, <2>4, <2>5 DEF SourcesApart
<1>7. n = Newest + 1 /\ Newest \in 0 .. NFrames /\ Newest \in Nat
  <2>1. source[1][2] = Newest + 1
    BY <1>3 DEF FramesCounted
  <2>2. QED
    BY <1>3, <2>1, DirectAssumption DEF FramesCounted, Highest
<1> HIDE DEF b, n, p
<1>8. /\ content' \in [Pages -> 0 .. NFrames] /\ content'[p] = n
      /\ \A q \in Pages : content'[q] <= n
  <2>1. content' \in [Pages -> 0 .. NFrames] /\ content'[p] = n
    BY <1>1, <1>2, <1>4, <1>5
  <2>2. \A q \in Pages : content[q] \in Nat /\ content[q] <= Newest
    BY <1>2, DirectAssumption DEF FramesCounted, Highest
  <2>3. \A q \in Pages : content'[q] = n \/ content'[q] = content[q]
    BY <1>1, <1>2
  <2>4. n <= n /\ \A m \in Nat : m <= Newest => m <= n
    BY <1>7
  <2>5. QED
    BY <2>1, <2>2, <2>3, <2>4
<1>9. Newest' = n
  BY <1>4, <1>5, <1>8, HighestIsNewest DEF Newest
<1>10. Highest(Newest)'
  BY <1>4, <1>5, <1>8, <1>9 DEF Highest
<1>11. /\ Newest' = Newest + 1 /\ Decoded' = Decoded + 1 /\ Flips' = Flips /\ Shown' = Shown
       /\ Presenting' = Presenting /\ ToDecode' = ToDecode - 1 /\ Parsing' = Parsing
  <2>1. Len(held) \in Nat /\ Len(destReady) \in Nat
    BY Held DEF DirectInv, TypeOK
  <2>2. Decoded' = Decoded + 1
    BY <1>1, <1>5, <2>1 DEF Decoded
  <2>3. QED
    BY <1>1, <1>3, <1>7, <1>9, <2>2 DEF Flips, Shown, Presenting, ToDecode, Parsing
<1>12. \A k \in DOMAIN source' : source'[k][2] = Newest' + k
  <2> TAKE k \in DOMAIN source'
  <2>1. source[k + 1][2] = Newest + (k + 1)
    BY <1>3 DEF FramesCounted
  <2>2. QED
    BY <1>3, <1>7, <1>11, <2>1
<1>13. Parsing' => parsed' = Newest' + ToDecode'
  <2>1. Newest' + ToDecode' = Newest + ToDecode
    BY <1>7, <1>11, FrameCounts
  <2>2. QED
    BY <1>1, <1>11, <2>1 DEF FramesCounted
<1>14. PICK h \in {0, 1} :
         /\ Newest = Shown + Flips + h + Decoded
         /\ IF ppc \in {"error", "stopped"} THEN h = 1 => page # None ELSE h = Presenting
  BY DEF FramesCounted
<1>15. Newest' = Shown' + Flips' + h + Decoded'
  BY <1>11, <1>14, FrameCounts
<1>16. FramesCounted'
  BY <1>1, <1>10, <1>11, <1>12, <1>13, <1>14, <1>15 DEF FramesCounted
<1>17. h = 1 => page # None
  BY <1>14 DEF Presenting, DirectInv, ThreadPage
<1>18. Flips + h + Decoded < NPages
  BY <1>1, <1>17, RoomForPictures
<1>19. /\ Newest < Newest + Len(source) /\ Newest - Len(shown) < NPages
       /\ Newest' + Len(source') = Newest + Len(source)
  <2>1. Newest - Shown < NPages
    BY <1>7, <1>14, <1>18, FrameCounts
  <2>2. Len(source) \in Nat /\ Len(source) > 0
    BY <1>1, <1>2, EmptySeq
  <2>3. QED
    BY <1>3, <1>7, <1>11, <2>1, <2>2 DEF Shown
<1>20. Pipeline!Decode
  BY <1>1, <1>11, <1>19 DEF Pipeline!Decode
<1>21. QED
  BY <1>6, <1>16, <1>20

(* A step in which the MFC takes no frame and none is decoded              *)
LEMMA FramesMoveOn ==
  ASSUME DirectInv, FramesCounted, UNCHANGED <<source, content>>,
         Parsing' => Parsing /\ parsed' = parsed,
         \A h \in {0, 1} :
           /\ Newest = Shown + Flips + h + Decoded
           /\ IF ppc \in {"error", "stopped"} THEN h = 1 => page # None ELSE h = Presenting
           => \E i \in {0, 1} :
                /\ Newest = Shown' + Flips' + i + Decoded'
                /\ IF ppc' \in {"error", "stopped"} THEN i = 1 => page' # None ELSE i = Presenting'
  PROVE  FramesCounted' /\ Newest' = Newest
<1>1. Newest' = Newest /\ ToDecode' = ToDecode /\ (Highest(Newest) => Highest(Newest)')
  BY DEF Newest, ToDecode, Highest
<1>2. \E i \in {0, 1} :
        /\ Newest = Shown' + Flips' + i + Decoded'
        /\ IF ppc' \in {"error", "stopped"} THEN i = 1 => page' # None ELSE i = Presenting'
  BY DEF FramesCounted
<1>3. FramesCounted'
  BY <1>1, <1>2 DEF FramesCounted
<1>4. QED
  BY <1>1, <1>3

(* A frame comes to the screen.                                            *)
LEMMA PipelineShows ==
  DirectInv /\ SourcesApart /\ FramesCounted /\ Vblank
    => SourcesApart' /\ FramesCounted' /\ Pipeline!Show
<1> SUFFICES ASSUME DirectInv, SourcesApart, FramesCounted, Vblank
             PROVE  SourcesApart' /\ FramesCounted' /\ Pipeline!Show
  OBVIOUS
<1>1. /\ UNCHANGED <<mpc, ppc, page, error, busy, parsed, content, destReady, held, source, sourceDone>>
      /\ flipping # None /\ flipping' = None /\ shown' = Append(shown, content[flipping])
  BY DEF Vblank, swVars, mainVars, presVars, mfcVars
<1>2. content[flipping] = Len(shown) + 1 /\ content[flipping] \in 0 .. NFrames /\ shown \in Seq(0 .. NFrames)
  BY <1>1 DEF DirectInv, FramesInLine, FlipInLine, TypeOK
<1>3. /\ Shown' = Shown + 1 /\ Flips = 1 /\ Flips' = 0 /\ Decoded' = Decoded /\ Presenting' = Presenting
      /\ Parsing' = Parsing
  BY <1>1, <1>2, Put DEF Shown, Flips, Decoded, Presenting, Parsing
<1>4. Shown' + Flips' = Shown + Flips
  BY <1>3, FrameCounts
<1>5. \A h \in {0, 1} : Shown' + Flips' + h + Decoded' = Shown + Flips + h + Decoded
  BY <1>3, FrameCounts
<1>6. FramesCounted' /\ Newest' = Newest
  BY <1>1, <1>3, <1>5, FramesMoveOn
<1>7. SourcesApart'
  BY <1>1 DEF SourcesApart
<1>8. Len(shown) < Newest
  <2>1. PICK h \in {0, 1} : Newest = Shown + Flips + h + Decoded
    BY DEF FramesCounted
  <2>2. QED
    BY <1>3, <2>1, FrameCounts DEF Shown
<1>9. Pipeline!Show
  BY <1>1, <1>2, <1>6, <1>8 DEF Pipeline!Show
<1>10. QED
  BY <1>6, <1>7, <1>9

(* A picture goes on from the MFC towards the screen, or not.              *)
LEMMA PictureGoesOn ==
  DirectInv /\ SourcesApart /\ FramesCounted /\ (presentation_thread \/ MfcDeliver)
    => SourcesApart' /\ FramesCounted' /\ UNCHANGED Pipeline!vars
<1> SUFFICES ASSUME DirectInv, SourcesApart, FramesCounted, presentation_thread \/ MfcDeliver
             PROVE  SourcesApart' /\ FramesCounted' /\ UNCHANGED Pipeline!vars
  OBVIOUS
<1>1. UNCHANGED <<mpc, parsed, busy, source, sourceDone, content, shown>> /\ (error => error')
  BY DEF presentation_thread, PresTest, dequeue_dest, DequeueFails, issue_flip, WaitForFlip, HandleFlip, WaitInterrupted,
    Commit, CommitRefused, CommitFails, get_page, NoPage, queue_dest, QueueFails, PresError, MfcDeliver,
    swVars, mainVars, presVars, mfcVars, crtcVars
<1>2. SourcesApart' /\ (Parsing' => Parsing /\ parsed' = parsed)
  BY <1>1 DEF SourcesApart, Parsing
<1>3. /\ Len(destReady) \in Nat /\ Len(held) \in Nat /\ destReady \in Seq(Pages) /\ held \in Seq(Pages)
  BY Held DEF DirectInv, TypeOK
<1>4. CASE dequeue_dest
  <2>1. /\ UNCHANGED <<held, flipping>> /\ ppc = "dequeue" /\ ppc' = "flip"
        /\ destReady # <<>> /\ destReady' = Tail(destReady)
    BY <1>4 DEF dequeue_dest, crtcVars
  <2>2. Len(destReady') = Len(destReady) - 1
    BY <1>3, <2>1, Taken
  <2>3. Decoded' + 1 = Decoded /\ Presenting = 0 /\ Presenting' = 1 /\ Shown' = Shown /\ Flips' = Flips
    BY <1>1, <1>3, <2>1, <2>2 DEF Decoded, Presenting, Shown, Flips
  <2>4. Shown' + Flips' + 1 + Decoded' = Shown + Flips + 0 + Decoded /\ Decoded' \in Int
    <3>1. Len(held') \in Nat /\ Len(destReady') \in Int
      BY <1>3, <2>1, <2>2
    <3>2. Decoded' \in Int
      BY <3>1 DEF Decoded
    <3>3. QED
      BY <2>3, <3>2, FrameCounts
  <2>5. FramesCounted' /\ Newest' = Newest
    BY <1>1, <1>2, <2>1, <2>3, <2>4, FramesMoveOn
  <2>6. QED
    BY <1>1, <1>2, <2>5 DEF Pipeline!vars
<1>5. CASE MfcDeliver
  <2>1. /\ UNCHANGED <<ppc, page, flipping>> /\ held # <<>>
        /\ held' = Tail(held) /\ destReady' = Append(destReady, Head(held))
    BY <1>5 DEF MfcDeliver, swVars, presVars, crtcVars
  <2>2. Len(destReady') = Len(destReady) + 1 /\ Len(held') = Len(held) - 1
    <3>1. Head(held) \in Pages /\ Len(held') = Len(held) - 1
      BY <1>3, <2>1, Taken
    <3>2. QED
      BY <1>3, <2>1, <3>1, Put
  <2>3. Decoded' = Decoded /\ Presenting' = Presenting /\ Shown' = Shown /\ Flips' = Flips
    BY <1>1, <1>3, <2>1, <2>2 DEF Decoded, Presenting, Shown, Flips
  <2>4. FramesCounted' /\ Newest' = Newest
    BY <1>1, <1>2, <2>1, <2>3, FramesMoveOn
  <2>5. QED
    BY <1>1, <1>2, <2>4 DEF Pipeline!vars
<1>6. CASE Commit
  <2>1. /\ UNCHANGED <<held, destReady>> /\ ppc = "commit" /\ ppc' = "get"
        /\ flipping = None /\ flipping' = page /\ page # None
    BY <1>6 DEF Commit, mfcVars, DirectInv, ThreadPage
  <2>2. Decoded' = Decoded /\ Presenting = 1 /\ Presenting' = 0 /\ Shown' = Shown /\ Flips = 0 /\ Flips' = 1
    BY <1>1, <2>1 DEF Decoded, Presenting, Shown, Flips
  <2>3. Shown' + Flips' + 0 + Decoded' = Shown + Flips + 1 + Decoded
    BY <2>2, FrameCounts
  <2>4. FramesCounted' /\ Newest' = Newest
    BY <1>1, <1>2, <2>1, <2>2, <2>3, FramesMoveOn
  <2>5. QED
    BY <1>1, <1>2, <2>4 DEF Pipeline!vars
<1>7. CASE PresTest \/ DequeueFails \/ issue_flip \/ WaitForFlip \/ WaitInterrupted \/ CommitRefused
           \/ CommitFails \/ get_page \/ NoPage \/ queue_dest \/ QueueFails \/ PresError
  <2>1. /\ UNCHANGED <<held, destReady, flipping>>
        /\ ppc \in {"error", "stopped"} => ppc' \in {"error", "stopped"} /\ page' = page
        /\ ppc \notin {"error", "stopped"} /\ ppc' \notin {"error", "stopped"} => Presenting' = Presenting
        /\ ppc \notin {"error", "stopped"} /\ ppc' \in {"error", "stopped"} => Presenting = 0 \/ page' = page
    BY <1>7 DEF PresTest, DequeueFails, issue_flip, WaitForFlip, HandleFlip, WaitInterrupted, CommitRefused,
      CommitFails, get_page, NoPage, queue_dest, QueueFails, PresError, Presenting, mfcVars, crtcVars
  <2>2. Decoded' = Decoded /\ Shown' = Shown /\ Flips' = Flips
    BY <1>1, <2>1 DEF Decoded, Shown, Flips
  <2>3. Presenting = 1 => page # None
    BY DEF Presenting, DirectInv, ThreadPage
  <2>4. \A h \in {0, 1} :
          /\ Newest = Shown + Flips + h + Decoded
          /\ IF ppc \in {"error", "stopped"} THEN h = 1 => page # None ELSE h = Presenting
          => /\ Newest = Shown' + Flips' + h + Decoded'
             /\ IF ppc' \in {"error", "stopped"} THEN h = 1 => page' # None ELSE h = Presenting'
    BY <2>1, <2>2, <2>3
  <2>5. FramesCounted' /\ Newest' = Newest
    BY <1>1, <1>2, <2>4, FramesMoveOn
  <2>6. QED
    BY <1>1, <1>2, <2>5 DEF Pipeline!vars
<1>8. QED
  BY <1>4, <1>5, <1>6, <1>7 DEF presentation_thread

(* main takes back a source buffer, or does something else.                *)
LEMMA MainGoesOn ==
  DirectInv /\ SourcesApart /\ FramesCounted /\ Main /\ ~RunQueue
    => SourcesApart' /\ FramesCounted' /\ UNCHANGED Pipeline!vars
<1> SUFFICES ASSUME DirectInv, SourcesApart, FramesCounted, Main, ~RunQueue
             PROVE  SourcesApart' /\ FramesCounted' /\ UNCHANGED Pipeline!vars
  OBVIOUS
<1>1. UNCHANGED <<ppc, page, flipping, shown, content, destReady, held, source>>
  BY DEF Main, MainTest, RunCheck, StreamOnFails, RunSkip, RunQueueFails, ParseFails,
    RunFilled, RunDequeue, RunDequeueFails, MainError, Join, presVars, mfcVars, crtcVars
<1>2. Parsing' => Parsing /\ parsed' = parsed
  BY DEF Parsing, Main, MainTest, RunCheck, StreamOnFails, RunSkip, RunQueueFails, ParseFails,
    RunFilled, RunDequeue, RunDequeueFails, MainError, Join
<1>3. Presenting' = Presenting /\ Decoded' = Decoded /\ Shown' = Shown /\ Flips' = Flips
  BY <1>1 DEF Presenting, Decoded, Shown, Flips
<1>4. FramesCounted' /\ Newest' = Newest
  BY <1>1, <1>2, <1>3, FramesMoveOn
<1>5. SourcesApart'
  <2>1. CASE RunDequeue
    <3>1. /\ sourceDone # <<>> /\ sourceDone' = Tail(sourceDone)
          /\ busy' = [busy EXCEPT ![Head(sourceDone)] = FALSE]
          /\ sourceDone \in Seq(Srcs) /\ busy \in [Srcs -> BOOLEAN]
      BY <2>1 DEF RunDequeue, DirectInv, TypeOK
    <3>2. /\ Items(sourceDone) = {Head(sourceDone)} \cup Items(sourceDone') /\ Distinct(sourceDone')
          /\ Head(sourceDone) \notin Items(sourceDone') /\ Items(sourceDone) \subseteq Srcs
      BY <3>1, Taken, Held DEF SourcesApart
    <3>3. \A i \in DOMAIN source : source[i][1] # Head(sourceDone) /\ source[i][1] \notin Items(sourceDone')
                                   /\ busy[source[i][1]] /\ source[i][1] \in Srcs
      <4>1. source \in Seq(Srcs \X (1 .. NFrames))
        BY DEF DirectInv, TypeOK
      <4>2. \A i \in DOMAIN source : source[i][1] \in Srcs
        BY <4>1
      <4>3. QED
        BY <3>2, <4>2 DEF SourcesApart
    <3>4. \A i \in DOMAIN source : busy'[source[i][1]]
      BY <3>1, <3>3
    <3>5. \A b \in Items(sourceDone') : busy'[b]
      BY <3>1, <3>2 DEF SourcesApart
    <3>6. QED
      BY <1>1, <3>2, <3>3, <3>4, <3>5 DEF SourcesApart
  <2>2. CASE ~RunDequeue
    <3>1. UNCHANGED <<busy, sourceDone>>
      BY <2>2 DEF Main, MainTest, RunCheck, StreamOnFails, RunSkip, RunQueueFails, ParseFails,
        RunFilled, RunDequeueFails, MainError, Join, mfcVars
    <3>2. QED
      BY <1>1, <3>1 DEF SourcesApart
  <2>3. QED
    BY <2>1, <2>2
<1>6. QED
  BY <1>1, <1>4, <1>5 DEF Pipeline!vars

(* At the start the header is decoded, and no frame.                       *)
LEMMA InitPipeline == Init => SourcesApart /\ FramesCounted /\ Pipeline!Init
<1> SUFFICES ASSUME Init PROVE SourcesApart /\ FramesCounted /\ Pipeline!Init
  OBVIOUS
<1>1. /\ source = <<>> /\ sourceDone = <<1>> /\ held = <<>> /\ destReady = <<>> /\ shown = <<>>
      /\ flipping = None /\ ppc = "test" /\ parsed = 0 /\ busy = [b \in Srcs |-> b = 1]
      /\ content = [p \in Pages |-> 0]
  BY DEF Init
<1>2. 1 \in Pages /\ 1 \in Srcs /\ NFrames \in Nat
  BY DirectAssumption DEF Pages, Srcs
<1>3. Newest = 0 /\ 0 \in 0 .. NFrames
  <2>1. content \in [Pages -> 0 .. NFrames] /\ content[1] = 0 /\ \A p \in Pages : content[p] <= 0
    BY <1>1, <1>2
  <2>2. QED
    BY <1>2, <2>1, HighestIsNewest DEF Newest
<1>4. Highest(Newest)
  BY <1>1, <1>2, <1>3 DEF Highest
<1>5. ToDecode = 0 /\ Decoded = 0 /\ Shown = 0 /\ Flips = 0 /\ Presenting = 0
  BY <1>1 DEF ToDecode, Decoded, Shown, Flips, Presenting
<1>6. DOMAIN source = {} /\ Items(sourceDone) = {1} /\ Distinct(sourceDone)
  BY <1>1 DEF Items, Distinct
<1>7. SourcesApart
  BY <1>1, <1>2, <1>6 DEF SourcesApart
<1>8. FramesCounted
  BY <1>1, <1>3, <1>4, <1>5, <1>6 DEF FramesCounted
<1>9. Pipeline!Init
  BY <1>1, <1>3, <1>5 DEF Pipeline!Init, ToDecode
<1>10. QED
  BY <1>7, <1>8, <1>9

(* Decoding and presentation implement the pipeline, whatever call fails:  *)
(* a step of a thread or a device queues the next frame at the MFC, decodes*)
(* the next one or shows the next one, or moves none; no more frames are   *)
(* queued than there are source buffers, and no more decoded and not yet   *)
(* shown than there are pages.                                             *)
THEOREM DirectIsPipeline == Spec => ImplementsPipeline
<1>1. Init => SourcesApart /\ FramesCounted /\ Pipeline!Init
  BY InitPipeline
<1>2. DirectInv /\ SourcesApart /\ FramesCounted /\ [Next]_vars
        => SourcesApart' /\ FramesCounted' /\ [Pipeline!Next]_(Pipeline!vars)
  <2> SUFFICES ASSUME DirectInv, SourcesApart, FramesCounted, [Next]_vars
               PROVE  SourcesApart' /\ FramesCounted' /\ [Pipeline!Next]_(Pipeline!vars)
    OBVIOUS
  <2>1. CASE RunQueue
    BY <2>1, PipelineParses DEF Pipeline!Next
  <2>2. CASE MfcDecode
    BY <2>2, PipelineDecodes DEF Pipeline!Next
  <2>3. CASE Vblank
    BY <2>3, PipelineShows DEF Pipeline!Next
  <2>4. CASE presentation_thread \/ MfcDeliver
    BY <2>4, PictureGoesOn
  <2>5. CASE Main /\ ~RunQueue
    BY <2>5, MainGoesOn
  <2>6. CASE UNCHANGED vars
    <3>1. UNCHANGED <<source, sourceDone, busy, content, parsed, mpc, error, ppc, page, flipping, shown, held, destReady>>
      BY <2>6 DEF vars, mainVars, presVars, mfcVars, crtcVars
    <3>2. SourcesApart'
      BY <3>1 DEF SourcesApart
    <3>3. Newest' = Newest
      BY <3>1 DEF Newest
    <3>4. FramesCounted'
      BY <3>1, <3>3 DEF FramesCounted, Highest, Parsing, ToDecode, Shown, Flips, Decoded, Presenting
    <3>5. QED
      BY <3>1, <3>2, <3>3, <3>4 DEF Pipeline!vars
  <2>7. QED
    BY <2>1, <2>2, <2>3, <2>4, <2>5, <2>6 DEF Next
<1>3. QED
  BY <1>1, <1>2, DirectInvariant, PTL DEF Spec, ImplementsPipeline

(* So does the whole program, wherever its set-up failed.                  *)
THEOREM ProgramIsPipeline == ProgramSpec => ImplementsPipeline
BY ProgramIsDecoding, DirectIsPipeline, PTL

-----------------------------------------------------------------------------
(* Unless a call has failed there is a page with the thread from when it   *)
(* is dequeued until one is queued, and the others of those queued at the  *)
(* start are with the MFC.                                                 *)
WithThread == IF ppc \in {"flip", "wait", "commit", "get", "getWait", "queue"} THEN 1 ELSE 0

PagesCounted == ppc \notin {"error", "stopped"} => dest_num_queued + WithThread = InitiallyQueued

(* A page that is used has an owner,                                       *)
UsedByOwner ==
  \A p \in Pages : page_used[p] => p \in AtMfc \cup Items(events) \cup {cur_page, page, flipping}

(* and a source buffer that is busy is with the MFC.                       *)
BusyAtMfc ==
  \A b \in Srcs : busy[b] => b \in Items(sourceDone) \/ \E k \in DOMAIN source : source[k][1] = b

(* A thread that waits for a flip has one to wait for.                     *)
FlipComes ==
  /\ pageflip_pending => flipping # None \/ events # <<>>
  /\ ppc = "wait" => pageflip_pending
  /\ ppc = "getWait" => Free = {}

(* Main waits for a source buffer only when the MFC has been started and   *)
(* one is busy, and for the thread only after an error.                    *)
MainComesFor ==
  /\ mpc \in {"fill", "dequeue"} => streaming
  /\ mpc = "dequeue" => \E b \in Srcs : busy[b]
  /\ mpc \in {"join", "done"} \/ ppc = "stopped" => error

Circulates ==
  /\ FlipComes /\ MainComesFor
  /\ faults = 0 => PagesCounted /\ UsedByOwner /\ BusyAtMfc

(* A step in which a call fails is counted.                                *)
LEMMA FaultCounted == TypeOK /\ Fault => faults' # 0
BY DirectAssumption DEF TypeOK, Fault

(* The pages that the MFC has and the one with the thread                  *)
LEMMA PagesCountedStep ==
  TypeOK /\ PagesCounted /\ Next /\ faults' = 0 => faults = 0 /\ PagesCounted'
<1> SUFFICES ASSUME TypeOK, PagesCounted, Next, faults' = 0 PROVE faults = 0 /\ PagesCounted'
  OBVIOUS
<1>1. ~Fault
  BY FaultCounted
<1>2. dest_num_queued \in Nat /\ InitiallyQueued \in Nat
  BY DirectAssumption DEF TypeOK, InitiallyQueued
<1>3. CASE Main \/ MfcDecode \/ MfcDeliver \/ Vblank
  <2>1. UNCHANGED <<ppc, dest_num_queued, faults>>
    BY <1>1, <1>3 DEF Main, MainTest, RunCheck, StreamOnFails, RunSkip, RunQueue, RunQueueFails, ParseFails,
      RunFilled, RunDequeue, RunDequeueFails, MainError, Join, MfcDecode, MfcDeliver, Vblank, swVars, presVars
  <2>2. QED
    BY <2>1 DEF PagesCounted, WithThread
<1>4. CASE presentation_thread
  <2>1. UNCHANGED faults
    BY <1>1, <1>4 DEF presentation_thread, PresTest, dequeue_dest, DequeueFails, issue_flip, WaitForFlip,
      WaitInterrupted, Commit, CommitRefused, CommitFails, get_page, NoPage, queue_dest, QueueFails, PresError
  <2>2. CASE dequeue_dest
    BY <1>2, <2>1, <2>2 DEF dequeue_dest, PagesCounted, WithThread
  <2>3. CASE queue_dest
    BY <1>2, <2>1, <2>3 DEF queue_dest, PagesCounted, WithThread
  <2>4. CASE PresTest \/ CommitRefused \/ PresError
    BY <2>1, <2>4 DEF PresTest, CommitRefused, PresError, PagesCounted, WithThread
  <2>5. CASE issue_flip \/ WaitForFlip \/ Commit \/ get_page \/ NoPage
    BY <2>1, <2>5 DEF issue_flip, WaitForFlip, Commit, get_page, NoPage, PagesCounted, WithThread
  <2>6. QED
    BY <1>1, <1>4, <2>2, <2>3, <2>4, <2>5 DEF presentation_thread, DequeueFails, WaitInterrupted, CommitFails,
      QueueFails
<1>5. QED
  BY <1>3, <1>4 DEF Next

(* The flips, reported and not                                             *)
LEMMA FlipComesStep == DirectInv /\ FlipComes /\ Next => FlipComes'
<1> SUFFICES ASSUME DirectInv, TypeOK, FlipComes, Next PROVE FlipComes'
  BY DEF DirectInv
<1>1. CASE Main \/ MfcDecode \/ MfcDeliver
  <2>1. UNCHANGED <<ppc, pageflip_pending, page_used, flipping, events>>
    BY <1>1 DEF Main, MainTest, RunCheck, StreamOnFails, RunSkip, RunQueue, RunQueueFails, ParseFails,
      RunFilled, RunDequeue, RunDequeueFails, MainError, Join, MfcDecode, MfcDeliver, swVars, presVars, crtcVars
  <2>2. QED
    BY <2>1 DEF FlipComes, Free
<1>2. CASE Vblank
  <2>1. events' # <<>>
    <3>1. events \in Seq(Pages) /\ flipping \in Pages /\ events' = Append(events, flipping)
      BY <1>2 DEF Vblank, TypeOK
    <3>2. QED
      BY <3>1, Put
  <2>2. UNCHANGED <<ppc, pageflip_pending, page_used>>
    BY <1>2 DEF Vblank, swVars, presVars
  <2>3. QED
    BY <2>1, <2>2 DEF FlipComes, Free
<1>3. CASE WaitForFlip
  BY <1>3 DEF WaitForFlip, HandleFlip, FlipComes
<1>4. CASE Commit
  <2>1. page # None
    BY <1>4 DEF Commit, DirectInv, ThreadPage
  <2>2. QED
    BY <1>4, <2>1 DEF Commit, FlipComes
<1>5. CASE issue_flip \/ NoPage
  BY <1>5 DEF issue_flip, MustWait, NoPage, FlipComes, Free, crtcVars
<1>6. CASE PresTest \/ dequeue_dest \/ DequeueFails \/ WaitInterrupted \/ CommitRefused \/ CommitFails
           \/ get_page \/ queue_dest \/ QueueFails \/ PresError
  <2>1. UNCHANGED <<pageflip_pending, flipping, events>> /\ ppc' \notin {"wait", "getWait"}
    BY <1>6 DEF PresTest, dequeue_dest, DequeueFails, WaitInterrupted, CommitRefused, CommitFails, get_page,
      queue_dest, QueueFails, PresError, crtcVars
  <2>2. QED
    BY <2>1 DEF FlipComes
<1>7. QED
  BY <1>1, <1>2, <1>3, <1>4, <1>5, <1>6 DEF Next, presentation_thread

(* The owners of the pages that are used: one hands a page to the next.    *)
LEMMA UsedByOwnerStep ==
  DirectInv /\ UsedByOwner /\ Next /\ faults' = 0 => UsedByOwner'
<1> SUFFICES ASSUME DirectInv, TypeOK, Indices, UsedByOwner, Next, faults' = 0 PROVE UsedByOwner'
  BY DEF DirectInv
<1>1. ~Fault
  BY FaultCounted
<1>2. CASE Main \/ MfcDecode \/ MfcDeliver
  <2>1. UNCHANGED <<page_used, events, cur_page, page, flipping>>
    BY <1>2 DEF Main, MainTest, RunCheck, StreamOnFails, RunSkip, RunQueue, RunQueueFails, ParseFails,
      RunFilled, RunDequeue, RunDequeueFails, MainError, Join, MfcDecode, MfcDeliver, swVars, presVars, crtcVars
  <2>2. AtMfc' = AtMfc
    <3>1. CASE Main
      <4>1. UNCHANGED <<dest, held, destReady, dest_buffers>>
        BY <3>1 DEF Main, MainTest, RunCheck, StreamOnFails, RunSkip, RunQueue, RunQueueFails, ParseFails,
          RunFilled, RunDequeue, RunDequeueFails, MainError, Join, presVars, mfcVars
      <4>2. QED
        BY <4>1 DEF AtMfc, PagesOf
    <3>2. QED
      BY <1>2, <3>1, MfcMoves
  <2>3. QED
    BY <2>1, <2>2 DEF UsedByOwner
<1>3. CASE dequeue_dest
  <2>1. page' \in AtMfc /\ AtMfc' = AtMfc \ {page'}
    BY <1>3, DequeueMoves
  <2>2. page = None /\ None \notin Pages
    BY <1>3 DEF dequeue_dest, DirectInv, ThreadPage, Pages, None
  <2>3. UNCHANGED <<page_used, events, cur_page, flipping>>
    BY <1>3 DEF dequeue_dest, crtcVars
  <2>4. QED
    BY <2>1, <2>2, <2>3 DEF UsedByOwner
<1>4. CASE queue_dest
  <2>1. page \in Pages /\ page \notin AtMfc
    BY <1>4 DEF queue_dest, TypeOK, DirectInv, ThreadPage, OwnedOnce
  <2>2. AtMfc' = AtMfc \cup {page}
    BY <1>4, <2>1, QueueMoves
  <2>3. UNCHANGED <<page_used, events, cur_page, flipping>>
    BY <1>4 DEF queue_dest, crtcVars
  <2>4. QED
    BY <2>2, <2>3 DEF UsedByOwner
<1>5. CASE presentation_thread /\ ~dequeue_dest /\ ~queue_dest
  <2>1. UNCHANGED <<dest, held, destReady, dest_buffers>>
    BY <1>1, <1>5 DEF presentation_thread, PresTest, DequeueFails, issue_flip, WaitForFlip, WaitInterrupted, Commit,
      CommitRefused, CommitFails, get_page, NoPage, QueueFails, PresError, mfcVars
  <2>2. AtMfc' = AtMfc
    BY <2>1 DEF AtMfc, PagesOf
  <2>3. CASE WaitForFlip
    <3>1. /\ UNCHANGED <<page, flipping>> /\ events # <<>> /\ events \in Seq(Pages)
          /\ events' = Tail(events) /\ cur_page' = Head(events)
          /\ page_used' = [page_used EXCEPT ![cur_page] = FALSE]
      BY <2>3 DEF WaitForFlip, HandleFlip, Released, TypeOK
    <3>2. Items(events) = {Head(events)} \cup Items(Tail(events))
      BY <3>1, Taken
    <3>3. Items(events) = {cur_page'} \cup Items(events')
      BY <3>1, <3>2
    <3>4. \A p \in Pages : page_used'[p] => page_used[p] /\ p # cur_page
      BY <3>1 DEF TypeOK
    <3>5. QED
      BY <2>2, <3>1, <3>3, <3>4 DEF UsedByOwner
  <2>4. CASE Commit
    <3>1. UNCHANGED <<page_used, events, cur_page>> /\ flipping' = page /\ flipping = None /\ None \notin Pages
      BY <2>4 DEF Commit, Pages, None
    <3>2. QED
      BY <2>2, <3>1 DEF UsedByOwner
  <2>5. CASE get_page
    <3>1. UNCHANGED <<events, cur_page, flipping>> /\ page_used' = [page_used EXCEPT ![page'] = TRUE]
      BY <2>5 DEF get_page, crtcVars
    <3>2. page = None /\ None \notin Pages
      BY <2>5 DEF get_page, DirectInv, ThreadPage, Pages, None
    <3>3. \A p \in Pages : page_used'[p] => page_used[p] \/ p = page'
      BY <3>1 DEF TypeOK
    <3>4. QED
      BY <2>2, <3>1, <3>2, <3>3 DEF UsedByOwner
  <2>6. CASE PresTest \/ issue_flip \/ CommitRefused \/ NoPage \/ PresError
    <3>1. UNCHANGED <<page_used, events, cur_page, page, flipping>>
      BY <2>6 DEF PresTest, issue_flip, CommitRefused, NoPage, PresError, crtcVars
    <3>2. QED
      BY <2>2, <3>1 DEF UsedByOwner
  <2>7. QED
    BY <1>1, <1>5, <2>3, <2>4, <2>5, <2>6 DEF presentation_thread, DequeueFails, WaitInterrupted, CommitFails,
      QueueFails
<1>6. CASE Vblank
  <2>1. /\ events' = Append(events, flipping) /\ events \in Seq(Pages) /\ flipping \in Pages
        /\ UNCHANGED <<page_used, cur_page, page, dest, held, destReady, dest_buffers>>
    BY <1>6 DEF Vblank, TypeOK, swVars, presVars, mfcVars
  <2>2. Items(Append(events, flipping)) = Items(events) \cup {flipping}
    BY <2>1, Put
  <2>3. AtMfc' = AtMfc /\ Items(events') = Items(events) \cup {flipping}
    BY <2>1, <2>2 DEF AtMfc, PagesOf
  <2>4. QED
    BY <2>1, <2>3 DEF UsedByOwner
<1>7. QED
  BY <1>2, <1>3, <1>4, <1>5, <1>6 DEF Next

(* The source buffers that are busy: main queues one at the MFC, which     *)
(* gives it back when it has decoded the frame in it.                      *)
LEMMA BusyAtMfcStep ==
  DirectInv /\ BusyAtMfc /\ Next /\ faults' = 0 => BusyAtMfc'
<1> SUFFICES ASSUME TypeOK, BusyAtMfc, Next, faults' = 0 PROVE BusyAtMfc'
  BY DEF DirectInv
<1>1. ~Fault
  BY FaultCounted
<1>2. source \in Seq(Srcs \X (1 .. NFrames)) /\ sourceDone \in Seq(Srcs)
  BY DEF TypeOK
<1>3. CASE RunQueue
  <2>1. next \in Srcs /\ parsed + 1 \in 1 .. NFrames
    BY <1>3, DirectAssumption DEF RunQueue, FrameFinished, TypeOK, Srcs
  <2> DEFINE e == <<next, parsed + 1>>
  <2>2. e \in Srcs \X (1 .. NFrames) /\ e[1] = next
    BY <2>1
  <2>4. source' = Append(source, e) /\ UNCHANGED sourceDone /\ busy' = [busy EXCEPT ![next] = TRUE]
    BY <1>3 DEF RunQueue
  <2> HIDE DEF e
  <2>3. /\ \A k \in DOMAIN source : k \in DOMAIN Append(source, e) /\ Append(source, e)[k] = source[k]
        /\ Len(source) + 1 \in DOMAIN Append(source, e) /\ Append(source, e)[Len(source) + 1] = e
    BY <1>2, <2>2, Put
  <2>5. \E k \in DOMAIN source' : source'[k][1] = next
    BY <2>2, <2>3, <2>4
  <2>6. \A k \in DOMAIN source : k \in DOMAIN source' /\ source'[k] = source[k]
    BY <2>3, <2>4
  <2>7. \A b \in Srcs : busy'[b] => busy[b] \/ b = next
    BY <2>4 DEF TypeOK
  <2>8. QED
    BY <2>4, <2>5, <2>6, <2>7 DEF BusyAtMfc
<1>4. CASE RunDequeue
  <2>1. /\ sourceDone # <<>> /\ sourceDone' = Tail(sourceDone) /\ UNCHANGED source
        /\ busy' = [busy EXCEPT ![Head(sourceDone)] = FALSE]
    BY <1>4 DEF RunDequeue
  <2>2. Items(sourceDone) = {Head(sourceDone)} \cup Items(Tail(sourceDone)) /\ Head(sourceDone) \in Srcs
    BY <1>2, <2>1, Taken
  <2>3. Items(sourceDone) = {Head(sourceDone)} \cup Items(sourceDone')
    BY <2>1, <2>2
  <2>4. \A b \in Srcs : busy'[b] => busy[b] /\ b # Head(sourceDone)
    BY <2>1 DEF TypeOK
  <2>5. QED
    BY <2>1, <2>3, <2>4 DEF BusyAtMfc
<1>5. CASE MfcDecode
  <2>1. /\ source # <<>> /\ source' = Tail(source) /\ sourceDone' = Append(sourceDone, Head(source)[1])
        /\ UNCHANGED busy
    BY <1>5 DEF MfcDecode, swVars, mainVars
  <2>2. /\ Head(source) \in Srcs \X (1 .. NFrames)
        /\ Items(source) = {Head(source)} \cup Items(Tail(source))
    BY <1>2, <2>1, Taken
  <2>3. Head(source)[1] \in Srcs
    BY <2>2
  <2>4. Items(Append(sourceDone, Head(source)[1])) = Items(sourceDone) \cup {Head(source)[1]}
    BY <1>2, <2>3, Put
  <2>5. Items(source) = {Head(source)} \cup Items(source')
        /\ Items(sourceDone') = Items(sourceDone) \cup {Head(source)[1]}
    BY <2>1, <2>2, <2>4
  <2>6. ASSUME NEW b \in Srcs, busy'[b]
        PROVE  b \in Items(sourceDone') \/ \E k \in DOMAIN source' : source'[k][1] = b
    <3>1. CASE b \in Items(sourceDone)
      BY <2>5, <3>1
    <3>2. CASE b \notin Items(sourceDone)
      <4>1. PICK k \in DOMAIN source : source[k][1] = b
        BY <2>1, <2>6, <3>2 DEF BusyAtMfc
      <4>2. source[k] \in Items(source)
        BY DEF Items
      <4>3. CASE source[k] = Head(source)
        BY <2>5, <4>1, <4>3
      <4>4. CASE source[k] \in Items(source')
        BY <4>1, <4>4 DEF Items
      <4>5. QED
        BY <2>5, <4>2, <4>3, <4>4
    <3>3. QED
      BY <3>1, <3>2
  <2>7. QED
    BY <2>6 DEF BusyAtMfc
<1>6. CASE Main /\ ~RunQueue /\ ~RunDequeue
  <2>1. UNCHANGED <<busy, source, sourceDone>>
    BY <1>6 DEF Main, MainTest, RunCheck, StreamOnFails, RunSkip, RunQueueFails, ParseFails, RunFilled,
      RunDequeueFails, MainError, Join, mfcVars
  <2>2. QED
    BY <2>1 DEF BusyAtMfc
<1>7. CASE presentation_thread \/ MfcDeliver \/ Vblank
  <2>1. UNCHANGED <<busy, source, sourceDone>>
    BY <1>7 DEF presentation_thread, PresTest, dequeue_dest, DequeueFails, issue_flip, WaitForFlip, WaitInterrupted,
      Commit, CommitRefused, CommitFails, get_page, NoPage, queue_dest, QueueFails, PresError, MfcDeliver, Vblank,
      swVars, mainVars, mfcVars
  <2>2. QED
    BY <2>1 DEF BusyAtMfc
<1>8. QED
  BY <1>3, <1>4, <1>5, <1>6, <1>7 DEF Next

(* Where main waits                                                        *)
LEMMA MainComesForStep == TypeOK /\ MainComesFor /\ Next => MainComesFor'
<1> SUFFICES ASSUME TypeOK, MainComesFor, Next PROVE MainComesFor'
  OBVIOUS
<1>1. CASE MainTest \/ StreamOnFails \/ RunQueueFails \/ ParseFails \/ RunDequeue \/ RunDequeueFails
           \/ MainError \/ Join
  <2>1. UNCHANGED ppc /\ mpc' \notin {"fill", "dequeue"} /\ (error => error')
        /\ (mpc' \in {"join", "done"} => error' \/ mpc = "join")
    BY <1>1 DEF MainTest, StreamOnFails, RunQueueFails, ParseFails, RunDequeue, RunDequeueFails, MainError, Join, presVars
  <2>2. QED
    BY <2>1 DEF MainComesFor
<1>2. CASE RunCheck
  BY <1>2 DEF RunCheck, presVars, MainComesFor
<1>3. CASE RunSkip \/ RunQueue \/ RunFilled
  BY <1>3 DEF RunSkip, RunQueue, RunFilled, presVars, MainComesFor
<1>4. CASE presentation_thread \/ MfcDecode \/ MfcDeliver \/ Vblank
  <2>1. UNCHANGED mainVars /\ (error => error') /\ (ppc' = "stopped" => error' \/ ppc = "stopped")
    BY <1>4 DEF presentation_thread, PresTest, dequeue_dest, DequeueFails, issue_flip, WaitForFlip, WaitInterrupted,
      Commit, CommitRefused, CommitFails, get_page, NoPage, queue_dest, QueueFails, PresError, MfcDecode, MfcDeliver,
      Vblank, swVars, presVars
  <2>2. QED
    BY <2>1 DEF MainComesFor, mainVars
<1>5. QED
  BY <1>1, <1>2, <1>3, <1>4 DEF Next, Main

LEMMA InitCirculates == Init => Circulates
<1> SUFFICES ASSUME Init PROVE Circulates
  OBVIOUS
<1>1. /\ mpc = "test" /\ ppc = "test" /\ busy = [b \in Srcs |-> b = 1] /\ sourceDone = <<1>>
      /\ cur_page = 1 /\ dest_buffers = [i \in 1 .. InitiallyQueued |-> i + 1]
      /\ dest = [i \in 1 .. InitiallyQueued |-> i] /\ dest_num_queued = InitiallyQueued
      /\ page_used = [p \in Pages |-> p <= InitiallyQueued + 1] /\ pageflip_pending = FALSE
  BY DEF Init
<1>2. InitiallyQueued \in Nat
  BY DirectAssumption DEF InitiallyQueued
<1>3. FlipComes /\ MainComesFor
  BY <1>1 DEF FlipComes, MainComesFor
<1>4. PagesCounted
  BY <1>1, <1>2 DEF PagesCounted, WithThread
<1>5. UsedByOwner
  <2> SUFFICES ASSUME NEW p \in Pages, page_used[p] PROVE p \in AtMfc \cup {cur_page}
    BY DEF UsedByOwner
  <2>1. p \in Nat /\ p > 0 /\ p <= InitiallyQueued + 1
    <3>1. page_used[p] <=> p <= InitiallyQueued + 1
      BY <1>1
    <3>2. p \in Nat /\ p > 0
      BY DirectAssumption DEF Pages
    <3>3. QED
      BY <3>1, <3>2
  <2>2. CASE p # 1
    <3>1. p - 1 \in 1 .. InitiallyQueued
      BY <1>2, <2>1, <2>2
    <3>2. p - 1 \in DOMAIN dest /\ dest[p - 1] = p - 1 /\ dest_buffers[p - 1] = p
      BY <1>1, <2>1, <3>1
    <3>3. QED
      BY <3>2 DEF AtMfc, PagesOf
  <2>3. QED
    BY <1>1, <2>2
<1>6. BusyAtMfc
  <2>1. Items(sourceDone) = {1}
    BY <1>1 DEF Items
  <2>2. \A b \in Srcs : busy[b] <=> b = 1
    BY <1>1
  <2>3. QED
    BY <2>1, <2>2 DEF BusyAtMfc
<1>7. QED
  BY <1>3, <1>4, <1>5, <1>6 DEF Circulates

LEMMA CirculatesStep == DirectInv /\ Circulates /\ [Next]_vars => Circulates'
<1> SUFFICES ASSUME DirectInv, TypeOK, Circulates, [Next]_vars PROVE Circulates'
  BY DEF DirectInv
<1>1. CASE Next
  <2>1. FlipComes' /\ MainComesFor'
    BY <1>1, FlipComesStep, MainComesForStep DEF Circulates
  <2>2. ASSUME faults' = 0 PROVE PagesCounted' /\ UsedByOwner' /\ BusyAtMfc'
    <3>1. faults = 0
      <4>1. faults' = faults \/ Fault
        BY <1>1 DEF Next, Main, MainTest, RunCheck, StreamOnFails, RunSkip, RunQueue, RunQueueFails, ParseFails,
          RunFilled, RunDequeue, RunDequeueFails, MainError, Join, presentation_thread, PresTest, dequeue_dest,
          DequeueFails, issue_flip, WaitForFlip, WaitInterrupted, Commit, CommitRefused, CommitFails, get_page,
          NoPage, queue_dest, QueueFails, PresError, MfcDecode, MfcDeliver, Vblank, swVars
      <4>2. QED
        BY <2>2, <4>1, FaultCounted
    <3>2. PagesCounted /\ UsedByOwner /\ BusyAtMfc
      BY <3>1 DEF Circulates
    <3>3. QED
      BY <1>1, <2>2, <3>2, PagesCountedStep, UsedByOwnerStep, BusyAtMfcStep
  <2>3. QED
    BY <2>1, <2>2 DEF Circulates
<1>2. CASE UNCHANGED vars
  <2>1. AtMfc' = AtMfc /\ Free' = Free /\ WithThread' = WithThread
    BY <1>2 DEF AtMfc, PagesOf, Free, WithThread, vars, presVars, mfcVars
  <2>2. FlipComes' /\ MainComesFor' /\ UNCHANGED faults
    BY <1>2, <2>1 DEF Circulates, FlipComes, MainComesFor, vars, mainVars, presVars, crtcVars
  <2>3. (PagesCounted => PagesCounted') /\ (UsedByOwner => UsedByOwner')
    BY <1>2, <2>1 DEF PagesCounted, UsedByOwner, vars, presVars, mfcVars, crtcVars
  <2>4. BusyAtMfc => BusyAtMfc'
    BY <1>2 DEF BusyAtMfc, vars, mainVars, mfcVars
  <2>5. QED
    BY <2>2, <2>3, <2>4 DEF Circulates
<1>3. QED
  BY <1>1, <1>2

(* While the thread waits for a free page and no call has failed, one is   *)
(* on its way from the display: the others are the MFC's and the one shown.*)
LEMMA NotAllWithMfc ==
  ASSUME DirectInv, Circulates, faults = 0, ppc = "getWait", events = <<>>, flipping = None
  PROVE  FALSE
<1>1. PICK q \in Seq(Pages) :
        Len(q) = Len(dest) + Len(held) + Len(destReady) /\ Distinct(q) /\ Items(q) = AtMfc
  BY PagesInLine
<1>2. Cardinality(AtMfc) = dest_num_queued
  BY <1>1, AsLongAsItsItems DEF DirectInv, Indices
<1>3. dest_num_queued = MinQueued /\ MinQueued \in Nat /\ NPages \in Nat /\ NPages >= MinQueued + 2
  <2>1. dest_num_queued + 1 = MinQueued + 1 /\ dest_num_queued \in Nat
    BY DEF Circulates, PagesCounted, WithThread, InitiallyQueued, DirectInv, TypeOK
  <2>2. QED
    BY <2>1, DirectAssumption
<1>4. Pages \subseteq AtMfc \cup {cur_page}
  <2>1. page = None /\ None \notin Pages /\ Items(events) = {}
    BY DEF DirectInv, ThreadPage, Pages, None, Items
  <2>2. \A p \in Pages : page_used[p]
    BY DEF Circulates, FlipComes, Free
  <2>3. QED
    BY <2>1, <2>2 DEF Circulates, UsedByOwner
<1>5. IsFiniteSet(Pages) /\ Cardinality(Pages) = NPages
  <2>1. IsFiniteSet(1 .. NPages) /\ Cardinality(1 .. NPages) = IF 1 > NPages THEN 0 ELSE NPages - 1 + 1
    BY <1>3, FS_Interval
  <2>2. QED
    BY <1>3, <2>1 DEF Pages
<1>6. IsFiniteSet(AtMfc) /\ cur_page \notin AtMfc
  <2>1. AtMfc \subseteq Pages
    BY <1>1, Held
  <2>2. QED
    BY <1>5, <2>1, FS_Subset DEF DirectInv, OwnedOnce
<1>7. IsFiniteSet(AtMfc \cup {cur_page}) /\ Cardinality(AtMfc \cup {cur_page}) = MinQueued + 1
  BY <1>2, <1>3, <1>6, FS_AddElement
<1>8. Cardinality(Pages) <= MinQueued + 1
  BY <1>4, <1>7, FS_Subset
<1>9. QED
  BY <1>3, <1>5, <1>8

(* Until the program gives up, and unless a call has failed, main, the     *)
(* presentation thread, the MFC and the display do not all wait for each   *)
(* other, for any number of source buffers and pages: a thread that waits  *)
(* for a flip has one under way, and the MFC has the pages it needs when   *)
(* the thread waits for a picture (mfc.cpp run, main.cpp                   *)
(* presentation_thread).                                                   *)
THEOREM DirectNeverStuck == Spec => []NeverStuck
<1>1. Spec => []Circulates
  BY InitCirculates, CirculatesStep, DirectInvariant, PTL DEF Spec
<1>2. DirectInv /\ Circulates => NeverStuck
  <2> SUFFICES ASSUME DirectInv, Circulates, ~error, faults = 0,
                      MainWaits, PresentationWaits, MfcWaits, flipping = None
               PROVE  FALSE
    BY DEF NeverStuck
  <2>1. mpc = "dequeue" /\ sourceDone = <<>> /\ streaming /\ \E b \in Srcs : busy[b]
    BY DEF MainWaits, Circulates, MainComesFor
  <2>2. source # <<>>
    <3>1. Items(sourceDone) = {}
      BY <2>1 DEF Items
    <3>2. PICK k \in DOMAIN source : TRUE
      BY <2>1, <3>1 DEF Circulates, BusyAtMfc
    <3>3. QED
      BY <3>2
  <2>3. CASE ppc = "dequeue" /\ destReady = <<>>
    <3>1. held = <<>> /\ Len(held) = 0 /\ Len(destReady) = 0
      BY <2>3 DEF MfcWaits
    <3>2. Len(dest) \in Nat /\ (dest = <<>> => Len(dest) = 0)
      BY Held DEF DirectInv, TypeOK
    <3>3. Len(dest) = MinQueued + 1
      <4>1. dest_num_queued = Len(dest)
        BY <3>1, <3>2 DEF DirectInv, Indices
      <4>2. dest_num_queued + 0 = MinQueued + 1
        BY <2>3 DEF Circulates, PagesCounted, WithThread, InitiallyQueued
      <4>3. QED
        BY <3>2, <4>1, <4>2
    <3>4. MinQueued \in Nat
      BY DirectAssumption
    <3>5. dest # <<>> /\ Len(dest) + Len(destReady) >= MinQueued
      BY <3>1, <3>2, <3>3, <3>4
    <3>6. QED
      BY <2>1, <2>2, <3>1, <3>3, <3>4, <3>5 DEF MfcWaits
  <2>4. CASE ppc = "wait" /\ events = <<>>
    BY <2>4 DEF Circulates, FlipComes
  <2>5. CASE ppc = "getWait" /\ events = <<>>
    BY <2>5, NotAllWithMfc
  <2>6. CASE ppc = "stopped"
    BY <2>6 DEF Circulates, MainComesFor
  <2>7. QED
    BY <2>3, <2>4, <2>5, <2>6 DEF PresentationWaits
<1>3. QED
  BY <1>1, <1>2, DirectInvariant, PTL

(* Nor do they in the whole program.                                       *)
THEOREM ProgramNeverStuck == ProgramSpec => []NeverStuck
BY ProgramIsDecoding, DirectNeverStuck, PTL
=============================================================================
