------------------------ MODULE DmabufSharingProofs ------------------------
(***************************************************************************)
(* The buffers that dmabuf-sharing.c passes between the camera and the     *)
(* display, for any number of them and of frames, on a CRTC or on a plane, *)
(* whatever call fails.                                                    *)
(***************************************************************************)
EXTENDS DmabufSharing, TLAPS

(* No buffer is twice in a queue,                                          *)
Once(s) == \A i, j \in DOMAIN s : s[i] = s[j] => i = j

(* nor in two of those that a buffer goes through: with the camera, kept on*)
(* the screen, handed to the plane, and with the flips asked for, done and *)
(* reported.                                                               *)
Apart(Q, D, K, W, A, E, R) ==
  /\ Q \cap (D \cup K \cup W \cup A \cup E \cup R) = {}
  /\ D \cap (K \cup W \cup A \cup E \cup R) = {}
  /\ K \cap (W \cup A \cup E \cup R) = {}
  /\ W \cap (A \cup E \cup R) = {}
  /\ A \cap (E \cup R) = {}
  /\ E \cap R = {}

Kept == IF current_buffer < 0 THEN {} ELSE {current_buffer}
Away == IF pc = "vblank" THEN {flipped} ELSE {}

LoopState ==
  /\ pc \notin {"handle", "exit"} => read = <<>>
  /\ pc = "video" => done # <<>>
  /\ pc = "vblank" => plane /\ flipped \in Buffers

NothingTwice == Once(queued) /\ Once(done) /\ Once(asked) /\ Once(events) /\ Once(read)

OneOwner ==
  /\ Apart(Range(queued), Range(done), Kept, Away, Range(asked), Range(events), Range(read))
  /\ pc # "exit" =>
       Range(queued) \cup Range(done) \cup Kept \cup Away
         \cup Range(asked) \cup Range(events) \cup Range(read) = Buffers

(* The buffer of the last event sent, and the one that was flipped to last *)
LastSent ==
  IF events # <<>> THEN events[Len(events)] ELSE IF read # <<>> THEN read[Len(read)] ELSE current_buffer
Newest ==
  IF pc = "vblank" THEN flipped ELSE IF asked # <<>> THEN asked[Len(asked)] ELSE LastSent

(* What was flipped to last is on the screen or will be at the next        *)
(* vertical blank; until then the screen shows a buffer no older than the  *)
(* last one of which an event was sent.                                    *)
Shown ==
  pc # "exit" =>
    /\ next = None => scanout = Newest
    /\ next # None => /\ next = Newest /\ (pc = "vblank" \/ asked # <<>>)
                      /\ scanout = LastSent \/ scanout \in Range(asked)
    /\ ~plane /\ asked # <<>> => next # None

NotCaptured == {scanout, next} \cap (Range(queued) \cup Range(done)) = {}

IInv == TypeOK /\ LoopState /\ NothingTwice /\ OneOwner /\ Shown /\ NotCaptured

-----------------------------------------------------------------------------
(* Queues without repetition                                               *)

(* The elements and the places of a queue                                  *)
LEMMA Places ==
  ASSUME NEW S, NEW s \in Seq(S)
  PROVE  /\ Len(s) \in Nat /\ DOMAIN s = 1 .. Len(s) /\ (s # <<>> <=> Len(s) > 0)
         /\ Range(s) \subseteq S /\ (s = <<>> <=> Range(s) = {})
         /\ s # <<>> => s[Len(s)] \in Range(s)
<1>1. Len(s) \in Nat /\ DOMAIN s = 1 .. Len(s) /\ (s # <<>> <=> Len(s) > 0)
  OBVIOUS
<1>2. \A i \in DOMAIN s : s[i] \in S
  OBVIOUS
<1>3. Range(s) \subseteq S
  BY <1>2 DEF Range
<1>4. ASSUME s # <<>> PROVE s[Len(s)] \in Range(s)
  BY <1>1, <1>4 DEF Range
<1>5. s = <<>> => Range(s) = {}
  BY DEF Range
<1>6. QED
  BY <1>1, <1>3, <1>4, <1>5

(* What remains when the first is taken                                    *)
LEMMA TakeFirst ==
  ASSUME NEW S, NEW s \in Seq(S), s # <<>>, Once(s)
  PROVE  /\ Tail(s) \in Seq(S) /\ Once(Tail(s))
         /\ Head(s) \in S /\ Head(s) \in Range(s) /\ Head(s) \notin Range(Tail(s))
         /\ Range(s) = {Head(s)} \cup Range(Tail(s))
         /\ s[Len(s)] = IF Tail(s) = <<>> THEN Head(s) ELSE Tail(s)[Len(Tail(s))]
<1> DEFINE t == Tail(s)
<1>1. Len(s) \in Nat /\ Len(s) > 0 /\ DOMAIN s = 1 .. Len(s) /\ Head(s) = s[1]
  OBVIOUS
<1>2. /\ t \in Seq(S) /\ Len(t) = Len(s) - 1 /\ DOMAIN t = 1 .. Len(s) - 1
      /\ \A i \in DOMAIN t : t[i] = s[i + 1]
  OBVIOUS
<1>3. \A i \in DOMAIN s : s[i] \in S /\ (i = 1 \/ (i - 1 \in DOMAIN t /\ t[i - 1] = s[i]))
  BY <1>1, <1>2
<1>4. Once(t) /\ Head(s) \notin Range(t)
  BY <1>1, <1>2 DEF Once, Range
<1>5. Range(s) = {Head(s)} \cup Range(t)
  <2>1. Range(t) \subseteq Range(s)
    BY <1>1, <1>2 DEF Range
  <2>2. Head(s) \in Range(s)
    BY <1>1 DEF Range
  <2>3. Range(s) \subseteq {Head(s)} \cup Range(t)
    BY <1>1, <1>3 DEF Range
  <2>4. QED
    BY <2>1, <2>2, <2>3
<1>6. s[Len(s)] = IF t = <<>> THEN Head(s) ELSE t[Len(t)]
  <2>1. CASE t = <<>>
    BY <1>1, <1>2, <2>1
  <2>2. CASE t # <<>>
    <3>1. Len(t) > 0
      BY <1>2, <2>2
    <3>2. Len(t) \in DOMAIN t /\ Len(t) + 1 = Len(s)
      BY <1>1, <1>2, <3>1
    <3>3. QED
      BY <1>2, <2>2, <3>2
  <2>3. QED
    BY <2>1, <2>2
<1>7. QED
  BY <1>1, <1>2, <1>3, <1>4, <1>5, <1>6

(* A queue followed by another                                             *)
LEMMA PutBehind ==
  ASSUME NEW S, NEW s \in Seq(S), NEW t \in Seq(S), Once(s), Once(t),
         Range(s) \cap Range(t) = {}
  PROVE  /\ s \o t \in Seq(S) /\ Once(s \o t) /\ Range(s \o t) = Range(s) \cup Range(t)
         /\ t = <<>> => s \o t = s
         /\ t # <<>> => s \o t # <<>> /\ (s \o t)[Len(s \o t)] = t[Len(t)]
<1> DEFINE u == s \o t
<1>1. /\ Len(s) \in Nat /\ Len(t) \in Nat /\ DOMAIN s = 1 .. Len(s) /\ DOMAIN t = 1 .. Len(t)
      /\ u \in Seq(S) /\ Len(u) = Len(s) + Len(t) /\ DOMAIN u = 1 .. Len(s) + Len(t)
  OBVIOUS
<1>2. \A i \in DOMAIN u : IF i <= Len(s) THEN i \in DOMAIN s /\ u[i] = s[i]
                          ELSE i - Len(s) \in DOMAIN t /\ u[i] = t[i - Len(s)]
  OBVIOUS
<1>3. /\ \A i \in DOMAIN s : i \in DOMAIN u /\ u[i] = s[i]
      /\ \A i \in DOMAIN t : i + Len(s) \in DOMAIN u /\ u[i + Len(s)] = t[i]
  OBVIOUS
<1>4. \A i \in DOMAIN s, j \in DOMAIN t : s[i] # t[j]
  BY DEF Range
<1>5. Once(u)
  <2> SUFFICES ASSUME NEW i \in DOMAIN u, NEW j \in DOMAIN u, u[i] = u[j] PROVE i = j
    BY DEF Once
  <2>1. i \in Nat /\ j \in Nat
    BY <1>1
  <2>2. CASE i <= Len(s) /\ j <= Len(s)
    BY <1>2, <2>2 DEF Once
  <2>3. CASE ~(i <= Len(s)) /\ ~(j <= Len(s))
    <3>1. i - Len(s) = j - Len(s)
      BY <1>2, <2>3 DEF Once
    <3>2. QED
      BY <1>1, <2>1, <3>1
  <2>4. CASE (i <= Len(s)) # (j <= Len(s))
    BY <1>2, <1>4, <2>4
  <2>5. QED
    BY <2>2, <2>3, <2>4
<1>6. Range(u) = Range(s) \cup Range(t)
  <2>1. Range(u) \subseteq Range(s) \cup Range(t)
    BY <1>2 DEF Range
  <2>2. Range(s) \subseteq Range(u) /\ Range(t) \subseteq Range(u)
    BY <1>3 DEF Range
  <2>3. QED
    BY <2>1, <2>2
<1>7. t = <<>> => u = s
  OBVIOUS
<1>8. t # <<>> => u # <<>> /\ u[Len(u)] = t[Len(t)]
  BY <1>1
<1>9. QED
  BY <1>1, <1>5, <1>6, <1>7, <1>8

(* One element at the end                                                  *)
LEMMA PutLast ==
  ASSUME NEW S, NEW s \in Seq(S), NEW e \in S, Once(s), e \notin Range(s)
  PROVE  /\ Append(s, e) \in Seq(S) /\ Once(Append(s, e)) /\ Append(s, e) # <<>>
         /\ Range(Append(s, e)) = Range(s) \cup {e}
         /\ Append(s, e)[Len(Append(s, e))] = e
<1> DEFINE u == Append(s, e)
<1>1. /\ Len(s) \in Nat /\ DOMAIN s = 1 .. Len(s) /\ u \in Seq(S) /\ u # <<>>
      /\ Len(u) = Len(s) + 1 /\ DOMAIN u = 1 .. Len(s) + 1 /\ u[Len(s) + 1] = e
      /\ \A i \in DOMAIN s : u[i] = s[i]
  OBVIOUS
<1>2. \A i \in DOMAIN u : i = Len(s) + 1 \/ i \in DOMAIN s
  BY <1>1
<1>3. Once(u)
  BY <1>1, <1>2 DEF Once, Range
<1>4. Range(u) = Range(s) \cup {e}
  <2>1. Range(u) \subseteq Range(s) \cup {e}
    BY <1>1, <1>2 DEF Range
  <2>2. Range(s) \cup {e} \subseteq Range(u)
    BY <1>1 DEF Range
  <2>3. QED
    BY <2>1, <2>2
<1>5. QED
  BY <1>1, <1>3, <1>4

(* One element                                                             *)
LEMMA Single ==
  ASSUME NEW S, NEW e \in S
  PROVE  /\ <<e>> \in Seq(S) /\ Once(<<e>>) /\ Range(<<e>>) = {e} /\ <<e>> # <<>>
         /\ <<e>>[Len(<<e>>)] = e
BY DEF Once, Range

(* None                                                                    *)
LEMMA Nothing == Once(<<>>) /\ Range(<<>>) = {} /\ \A S : <<>> \in Seq(S)
BY DEF Once, Range

-----------------------------------------------------------------------------
(* The first state                                                         *)

(* All buffers are with the camera but the first, which a CRTC shows.      *)
LEMMA InitQueued ==
  Init => queued \in Seq(Buffers) /\ Once(queued) /\ Range(queued) = FirstQueued .. NBuffers - 1
<1> SUFFICES ASSUME Init
             PROVE  queued \in Seq(Buffers) /\ Once(queued) /\ Range(queued) = FirstQueued .. NBuffers - 1
  OBVIOUS
<1>1. FirstQueued \in {0, 1} /\ NBuffers \in Nat /\ NBuffers - FirstQueued \in Nat
  BY SharingAssumption DEF FirstQueued
<1>2. queued = [i \in 1 .. NBuffers - FirstQueued |-> FirstQueued + i - 1]
  BY DEF Init
<1>3. \A i \in 1 .. NBuffers - FirstQueued : FirstQueued + i - 1 \in FirstQueued .. NBuffers - 1
  BY <1>1
<1>4. \A b \in FirstQueued .. NBuffers - 1 :
        b - FirstQueued + 1 \in 1 .. NBuffers - FirstQueued /\ queued[b - FirstQueued + 1] = b
  BY <1>1, <1>2
<1>5. queued \in Seq(Buffers)
  BY <1>1, <1>2, <1>3 DEF Buffers
<1>6. Once(queued)
  BY <1>1, <1>2 DEF Once
<1>7. Range(queued) = FirstQueued .. NBuffers - 1
  BY <1>2, <1>3, <1>4 DEF Range
<1>8. QED
  BY <1>5, <1>6, <1>7

(* At the start the camera has buffers that the display has not.           *)
LEMMA InitIInv == Init => IInv
<1> SUFFICES ASSUME Init PROVE IInv
  OBVIOUS
<1> USE InitQueued, Nothing, SharingAssumption DEF Init
<1>1. TypeOK
  <2>1. {plane, failed} \subseteq BOOLEAN /\ revents \subseteq {"video", "drm"}
    OBVIOUS
  <2>2. current_buffer \in Buffers \cup {-1} /\ scanout \in Buffers \cup {None}
    BY DEF Buffers
  <2>3. QED
    BY <2>1, <2>2 DEF TypeOK
<1>2. Range(queued) \cup Kept = Buffers /\ Range(queued) \cap Kept = {}
  BY DEF Kept, Buffers, FirstQueued
<1>3. OneOwner
  BY <1>2 DEF OneOwner, Apart, Away
<1>4. LoopState /\ NothingTwice
  BY DEF LoopState, NothingTwice
<1>5. Shown
  BY DEF Shown, Newest, LastSent, None
<1>6. NotCaptured
  BY DEF NotCaptured, None, FirstQueued
<1>7. QED
  BY <1>1, <1>3, <1>4, <1>5, <1>6 DEF IInv

-----------------------------------------------------------------------------
(* Types                                                                   *)

(* Each step of main and of the devices keeps the types and the queues     *)
(* free of repetition, given that no buffer has two owners.                *)
LEMMA QueueStep == IInv /\ Next => TypeOK' /\ LoopState' /\ NothingTwice'
<1> SUFFICES ASSUME IInv, Next PROVE TypeOK' /\ LoopState' /\ NothingTwice'
  OBVIOUS
<1> USE DEF IInv, TypeOK, LoopState, NothingTwice, progVars, videoVars, crtcVars
<1>1. CASE Poll \/ PollTimeout
  BY <1>1 DEF Poll, PollTimeout, Ready
<1>2. CASE Flip
  <2>1. done \in Seq(Buffers) /\ done # <<>> /\ Once(done)
    BY <1>2 DEF Flip
  <2>2. /\ Dequeued \in Buffers
        /\ done' \in Seq(Buffers) /\ Once(done')
    BY <1>2, <2>1, TakeFirst DEF Flip, Dequeued
  <2>3. asked' \in Seq(Buffers) /\ Once(asked') /\ flipped' \in Buffers /\ next' \in Buffers
    <3>1. CASE plane
      BY <1>2, <2>2, <3>1 DEF Flip
    <3>2. CASE ~plane
      <4>1. <<Dequeued>> \in Seq(Buffers) /\ Once(<<Dequeued>>)
        BY <2>2, Single
      <4>2. QED
        BY <1>2, <2>2, <3>2, <4>1 DEF Flip
    <3>3. QED
      BY <3>1, <3>2
  <2>4. (plane = TRUE /\ pc' = "vblank") \/ pc' = AfterVideo
    BY <1>2 DEF Flip
  <2>5. pc' \in {"vblank", "drm", "poll"} /\ (pc' = "vblank" => plane)
    BY <2>4 DEF AfterVideo
  <2>6. UNCHANGED <<plane, revents, current_buffer, read, queued, captured, scanout, events, failed>>
    BY <1>2 DEF Flip
  <2>7. read = <<>>
    BY <1>2 DEF Flip
  <2>8. QED
    BY <2>2, <2>3, <2>5, <2>6, <2>7
<1>3. CASE AskForVblank
  <2>1. flipped \in Buffers /\ flipped \notin Range(asked)
    BY <1>3 DEF AskForVblank, OneOwner, Apart, Away
  <2>2. asked' \in Seq(Buffers) /\ Once(asked')
    BY <1>3, <2>1, PutLast DEF AskForVblank
  <2>3. pc' \in {"drm", "poll"}
    BY <1>3 DEF AskForVblank, AfterVideo
  <2>4. QED
    BY <1>3, <2>2, <2>3 DEF AskForVblank
<1>4. CASE FlipRefused
  <2>1. done \in Seq(Buffers) /\ done # <<>> /\ Once(done)
    BY <1>4 DEF FlipRefused
  <2>2. Head(done) \in Buffers /\ done' \in Seq(Buffers) /\ Once(done')
    BY <1>4, <2>1, TakeFirst DEF FlipRefused
  <2>3. QED
    BY <1>4, <2>2 DEF FlipRefused
<1>5. CASE drmHandleEvent
  BY <1>5, Nothing DEF drmHandleEvent
<1>6. CASE page_flip_handler
  <2>1. read \in Seq(Buffers) /\ read # <<>> /\ Once(read)
    BY <1>6 DEF page_flip_handler
  <2>2. read' \in Seq(Buffers) /\ Once(read') /\ current_buffer' \in Buffers
    BY <1>6, <2>1, TakeFirst DEF page_flip_handler
  <2>3. queued' \in Seq(Buffers) /\ Once(queued')
    <3>1. CASE current_buffer < 0
      BY <1>6, <3>1 DEF page_flip_handler, NothingToRelease
    <3>2. CASE ~(current_buffer < 0)
      <4>1. current_buffer \in Buffers /\ current_buffer \notin Range(queued)
        BY <3>2 DEF OneOwner, Apart, Kept
      <4>2. QED
        BY <1>6, <3>2, <4>1, PutLast DEF page_flip_handler, NothingToRelease, Released
    <3>3. QED
      BY <3>1, <3>2
  <2>4. QED
    BY <1>6, <2>2, <2>3 DEF page_flip_handler
<1>7. CASE Handled \/ Bye
  BY <1>7 DEF Handled, Bye
<1>8. CASE Exited
  BY <1>8 DEF Exited, vars
<1>9. CASE Capture
  <2>1. queued \in Seq(Buffers) /\ queued # <<>> /\ Once(queued)
    BY <1>9 DEF Capture
  <2>2. /\ queued' \in Seq(Buffers) /\ Once(queued')
        /\ Head(queued) \in Buffers /\ Head(queued) \in Range(queued)
    BY <1>9, <2>1, TakeFirst DEF Capture
  <2>3. Head(queued) \notin Range(done)
    BY <2>2 DEF OneOwner, Apart
  <2>4. done' \in Seq(Buffers) /\ Once(done') /\ done' # <<>>
    BY <1>9, <2>2, <2>3, PutLast, SMTT(30) DEF Capture
  <2>5. captured' \in 0 .. NFrames
    BY <1>9, SharingAssumption DEF Capture
  <2>6. QED
    BY <1>9, <2>2, <2>4, <2>5 DEF Capture
<1>10. CASE Vblank
  <2>1. Range(events) \cap Range(asked) = {}
    BY DEF OneOwner, Apart
  <2>2. events' \in Seq(Buffers) /\ Once(events') /\ asked' = <<>>
    BY <1>10, <2>1, PutBehind DEF Vblank
  <2>3. scanout' \in Buffers \cup {None} /\ next' \in Buffers \cup {None}
    BY <1>10 DEF Vblank
  <2>4. UNCHANGED <<progVars, videoVars, failed>>
    BY <1>10 DEF Vblank
  <2>5. QED
    BY <2>2, <2>3, <2>4, Nothing
<1>11. QED
  BY <1>1, <1>2, <1>3, <1>4, <1>5, <1>6, <1>7, <1>8, <1>9, <1>10 DEF Next, Main

-----------------------------------------------------------------------------
(* Owners                                                                  *)

(* A frame dequeued leaves done for the display.                           *)
LEMMA FlipMoves ==
  IInv /\ Flip =>
    /\ Dequeued \in Range(done) /\ Dequeued \notin Range(done')
    /\ Range(done) = {Dequeued} \cup Range(done')
    /\ Away = {} /\ read = <<>>
    /\ IF plane THEN pc' = "vblank" /\ Away' = {Dequeued} /\ asked' = asked
       ELSE pc' # "vblank" /\ Away' = {} /\ asked = <<>> /\ asked' = <<Dequeued>>
    /\ IF plane THEN Range(asked') = Range(asked)
       ELSE Range(asked) = {} /\ Range(asked') = {Dequeued}
<1> SUFFICES ASSUME IInv, Flip
             PROVE  /\ Dequeued \in Range(done) /\ Dequeued \notin Range(done')
                    /\ Range(done) = {Dequeued} \cup Range(done')
                    /\ Away = {} /\ read = <<>>
                    /\ IF plane THEN pc' = "vblank" /\ Away' = {Dequeued} /\ asked' = asked
                       ELSE pc' # "vblank" /\ Away' = {} /\ asked = <<>> /\ asked' = <<Dequeued>>
                    /\ IF plane THEN Range(asked') = Range(asked)
                       ELSE Range(asked) = {} /\ Range(asked') = {Dequeued}
  OBVIOUS
<1>1. done \in Seq(Buffers) /\ done # <<>> /\ Once(done) /\ read = <<>> /\ Away = {}
  BY DEF IInv, TypeOK, LoopState, NothingTwice, Flip, Away
<1>2. /\ Dequeued \in Range(done) /\ Dequeued \notin Range(done')
      /\ Range(done) = {Dequeued} \cup Range(done') /\ Dequeued \in Buffers
  BY <1>1, TakeFirst DEF Flip, Dequeued
<1>3. CASE plane
  BY <1>1, <1>2, <1>3 DEF Flip, Away
<1>4. CASE ~plane
  <2>1. asked = <<>>
    BY <1>4 DEF Flip, CanFlip, IInv, Shown
  <2>2. pc' # "vblank" /\ asked' = <<Dequeued>>
    BY <1>4 DEF Flip, AfterVideo
  <2>3. QED
    BY <1>1, <1>2, <1>4, <2>1, <2>2, Single, Nothing DEF Away
<1>5. QED
  BY <1>3, <1>4

(* Each step passes a buffer from one owner to another.                    *)
LEMMA OwnerStep == IInv /\ Next => OneOwner'
<1> SUFFICES ASSUME IInv, Next PROVE OneOwner'
  OBVIOUS
<1> USE DEF OneOwner, Apart, progVars, videoVars, crtcVars
<1>0. OneOwner
  BY DEF IInv
<1>1. CASE Poll \/ PollTimeout \/ Handled \/ Exited
  BY <1>0, <1>1 DEF Poll, PollTimeout, Handled, Exited, vars, Kept, Away
<1>2. CASE Flip
  <2>1. UNCHANGED <<queued, events, read>> /\ Kept' = Kept
    BY <1>2 DEF Flip, Kept
  <2>2. pc # "exit"
    BY <1>2 DEF Flip
  <2>3. CASE plane
    BY <1>0, <1>2, <2>1, <2>2, <2>3, FlipMoves
  <2>4. CASE ~plane
    BY <1>0, <1>2, <2>1, <2>2, <2>4, FlipMoves
  <2>5. QED
    BY <2>3, <2>4
<1>3. CASE AskForVblank
  <2>1. asked \in Seq(Buffers) /\ Once(asked) /\ flipped \in Buffers /\ Away = {flipped}
    BY <1>3 DEF AskForVblank, Away, IInv, TypeOK, NothingTwice, LoopState
  <2>2. Range(asked') = Range(asked) \cup {flipped}
    BY <1>0, <1>3, <2>1, PutLast DEF AskForVblank
  <2>3. Away' = {} /\ Kept' = Kept /\ UNCHANGED <<queued, done, events, read>> /\ pc # "exit"
    BY <1>3 DEF AskForVblank, Away, Kept, AfterVideo
  <2>4. QED
    BY <1>0, <2>1, <2>2, <2>3
<1>4. CASE FlipRefused
  <2>1. done \in Seq(Buffers) /\ done # <<>> /\ Once(done)
    BY <1>4 DEF FlipRefused, IInv, TypeOK, LoopState, NothingTwice
  <2>2. Range(done') \subseteq Range(done)
    BY <1>4, <2>1, TakeFirst DEF FlipRefused
  <2>3. Away' = {} /\ Kept' = Kept /\ UNCHANGED <<queued, asked, events, read>> /\ pc' = "exit"
    BY <1>4 DEF FlipRefused, Away, Kept
  <2>4. QED
    BY <1>0, <2>2, <2>3
<1>5. CASE drmHandleEvent
  <2>1. read = <<>> /\ read' = events /\ events' = <<>>
    BY <1>5 DEF drmHandleEvent, IInv, LoopState
  <2>2. Away' = {} /\ Away = {} /\ Kept' = Kept /\ UNCHANGED <<queued, done, asked>> /\ pc # "exit"
    BY <1>5 DEF drmHandleEvent, Away, Kept
  <2>3. Range(read') = Range(events) /\ Range(events') = {} /\ Range(read) = {}
    BY <2>1, Nothing
  <2>4. QED
    BY <1>0, <2>2, <2>3
<1>6. CASE page_flip_handler
  <2>1. read \in Seq(Buffers) /\ read # <<>> /\ Once(read) /\ queued \in Seq(Buffers) /\ Once(queued)
    BY <1>6 DEF page_flip_handler, IInv, TypeOK, NothingTwice
  <2>2. /\ Range(read) = {current_buffer'} \cup Range(read') /\ current_buffer' \notin Range(read')
        /\ current_buffer' \in Buffers
    BY <1>6, <2>1, TakeFirst DEF page_flip_handler
  <2>3. Kept' = {current_buffer'}
    BY <2>2, SharingAssumption DEF Kept, Buffers
  <2>4. Range(queued') = Range(queued) \cup Kept
    <3>1. CASE current_buffer < 0
      BY <1>6, <3>1 DEF page_flip_handler, NothingToRelease, Kept
    <3>2. CASE ~(current_buffer < 0)
      <4>1. current_buffer \in Buffers /\ Kept = {current_buffer}
        BY <3>2 DEF Kept, IInv, TypeOK
      <4>2. QED
        BY <1>0, <1>6, <2>1, <3>2, <4>1, PutLast DEF page_flip_handler, NothingToRelease, Released
    <3>3. QED
      BY <3>1, <3>2
  <2>5. Away' = {} /\ Away = {} /\ UNCHANGED <<pc, done, asked, events>> /\ pc # "exit"
    BY <1>6 DEF page_flip_handler, Away
  <2>6. QED
    BY <1>0, <2>2, <2>3, <2>4, <2>5
<1>7. CASE Bye
  BY <1>0, <1>7 DEF Bye, Kept, Away
<1>8. CASE Capture
  <2>1. queued \in Seq(Buffers) /\ queued # <<>> /\ Once(queued) /\ done \in Seq(Buffers) /\ Once(done)
    BY <1>8 DEF Capture, IInv, TypeOK, NothingTwice
  <2>2. /\ Range(queued) = {Head(queued)} \cup Range(queued') /\ Head(queued) \in Buffers
        /\ Head(queued) \notin Range(queued')
    BY <1>8, <2>1, TakeFirst DEF Capture
  <2>3. Head(queued) \notin Range(done)
    BY <1>0, <2>2
  <2>4. Range(done') = Range(done) \cup {Head(queued)}
    BY <1>8, <2>1, <2>2, <2>3, PutLast DEF Capture
  <2>5. Away' = Away /\ Kept' = Kept /\ UNCHANGED <<pc, asked, events, read>>
    BY <1>8 DEF Capture, Away, Kept
  <2>6. QED
    BY <1>0, <2>2, <2>3, <2>4, <2>5
<1>9. CASE Vblank
  <2>1. events \in Seq(Buffers) /\ asked \in Seq(Buffers) /\ Once(events) /\ Once(asked)
    BY DEF IInv, TypeOK, NothingTwice
  <2>2. Range(events') = Range(events) \cup Range(asked) /\ Range(asked') = {}
    BY <1>0, <1>9, <2>1, PutBehind, Nothing DEF Vblank
  <2>3. Away' = Away /\ Kept' = Kept /\ UNCHANGED <<pc, queued, done, read>>
    BY <1>9 DEF Vblank, Away, Kept
  <2>4. QED
    BY <1>0, <2>2, <2>3
<1>10. QED
  BY <1>1, <1>2, <1>3, <1>4, <1>5, <1>6, <1>7, <1>8, <1>9 DEF Next, Main

-----------------------------------------------------------------------------
(* The screen                                                              *)

(* What the last event told of, and what was flipped to last, are not with *)
(* the camera.                                                             *)
LEMMA SentIsKept ==
  IInv => /\ LastSent \in {None} \cup Kept \cup Range(events) \cup Range(read)
          /\ Newest \in {LastSent} \cup Away \cup Range(asked)
<1> SUFFICES ASSUME IInv
             PROVE  /\ LastSent \in {None} \cup Kept \cup Range(events) \cup Range(read)
                    /\ Newest \in {LastSent} \cup Away \cup Range(asked)
  OBVIOUS
<1>1. /\ events # <<>> => events[Len(events)] \in Range(events)
      /\ read # <<>> => read[Len(read)] \in Range(read)
      /\ asked # <<>> => asked[Len(asked)] \in Range(asked)
  BY Places DEF IInv, TypeOK
<1>2. current_buffer \in {None} \cup Kept
  BY SharingAssumption DEF IInv, TypeOK, Kept, None, Buffers
<1>3. QED
  BY <1>1, <1>2 DEF LastSent, Newest, Away

(* The chain of flips goes on with each step.                              *)
LEMMA ShownStep == IInv /\ Next => Shown'
<1> SUFFICES ASSUME IInv, Next, pc' # "exit" PROVE Shown'
  BY DEF Shown
<1> USE DEF progVars, videoVars, crtcVars
<1>0. Shown /\ pc # "exit"
  BY DEF IInv, Next, Main, Poll, Flip, AskForVblank, FlipRefused, drmHandleEvent,
    page_flip_handler, Handled, PollTimeout, Bye, Exited, Capture, Vblank, vars
<1>1. CASE Poll \/ Handled \/ Exited \/ Capture
  <2>1. UNCHANGED <<plane, current_buffer, flipped, read, scanout, next, asked, events>>
    BY <1>1 DEF Poll, Handled, Exited, Capture, vars
  <2>2. (pc = "vblank") <=> (pc' = "vblank")
    BY <1>1 DEF Poll, Handled, Exited, Capture, vars
  <2>3. QED
    BY <1>0, <2>1, <2>2 DEF Shown, Newest, LastSent
<1>2. CASE Flip
  <2>1. UNCHANGED <<plane, read, events, current_buffer, scanout>> /\ LastSent' = LastSent
    BY <1>2 DEF Flip, LastSent
  <2>2. next' = Dequeued /\ flipped' = Dequeued /\ Dequeued \in Buffers
    BY <1>2, FlipMoves, Places DEF Flip, IInv, TypeOK
  <2>3. scanout = LastSent \/ scanout \in Range(asked)
    <3>1. asked # <<>> => asked[Len(asked)] \in Range(asked)
      BY Places DEF IInv, TypeOK
    <3>2. QED
      BY <1>0, <1>2, <3>1 DEF Flip, Shown, Newest
  <2>4. CASE plane
    BY <1>2, <2>1, <2>2, <2>3, <2>4, FlipMoves DEF Shown, Newest, None, Buffers
  <2>5. CASE ~plane
    <3>1. asked' = <<Dequeued>> /\ pc' # "vblank" /\ asked = <<>> /\ Range(asked) = {}
      BY <1>2, <2>5, FlipMoves
    <3>2. Newest' = Dequeued /\ asked' # <<>>
      BY <2>2, <3>1, Single DEF Newest
    <3>3. scanout' = LastSent'
      BY <2>1, <2>3, <3>1
    <3>4. next' # None
      BY <2>2 DEF None, Buffers
    <3>5. QED
      BY <2>2, <3>2, <3>3, <3>4 DEF Shown
  <2>6. QED
    BY <2>4, <2>5
<1>3. CASE AskForVblank
  <2>1. asked \in Seq(Buffers) /\ Once(asked) /\ flipped \in Buffers /\ flipped \notin Range(asked)
    BY <1>3 DEF AskForVblank, Away, IInv, TypeOK, NothingTwice, LoopState, OneOwner, Apart
  <2>2. /\ asked' # <<>> /\ asked'[Len(asked')] = flipped
        /\ Range(asked') = Range(asked) \cup {flipped}
    BY <1>3, <2>1, PutLast DEF AskForVblank
  <2>3. pc = "vblank" /\ pc' # "vblank" /\ UNCHANGED <<plane, scanout, next>> /\ LastSent' = LastSent /\ plane
    BY <1>3 DEF AskForVblank, AfterVideo, LastSent, IInv, LoopState
  <2>4. Newest' = flipped /\ Newest = flipped
    BY <2>2, <2>3 DEF Newest
  <2>5. QED
    BY <1>0, <2>2, <2>3, <2>4 DEF Shown
<1>4. CASE FlipRefused \/ PollTimeout \/ Bye
  BY <1>4 DEF FlipRefused, PollTimeout, Bye
<1>5. CASE drmHandleEvent
  <2>1. UNCHANGED <<plane, scanout, next, asked>> /\ pc # "vblank" /\ pc' # "vblank"
    BY <1>5 DEF drmHandleEvent
  <2>2. LastSent' = LastSent
    BY <1>5 DEF drmHandleEvent, LastSent, IInv, LoopState
  <2>3. QED
    BY <1>0, <2>1, <2>2 DEF Shown, Newest
<1>6. CASE page_flip_handler
  <2>1. read \in Seq(Buffers) /\ read # <<>> /\ Once(read)
    BY <1>6 DEF page_flip_handler, IInv, TypeOK, NothingTwice
  <2>2. read[Len(read)] = IF read' = <<>> THEN current_buffer' ELSE read'[Len(read')]
    BY <1>6, <2>1, TakeFirst DEF page_flip_handler
  <2>3. UNCHANGED <<plane, pc, scanout, next, asked, events>>
    BY <1>6 DEF page_flip_handler
  <2>4. LastSent' = LastSent
    BY <2>1, <2>2, <2>3 DEF LastSent
  <2>5. QED
    BY <1>0, <1>6, <2>3, <2>4 DEF Shown, Newest, page_flip_handler
<1>7. CASE Vblank
  <2>1. /\ events \in Seq(Buffers) /\ asked \in Seq(Buffers) /\ Once(events) /\ Once(asked)
        /\ Range(events) \cap Range(asked) = {}
    BY DEF IInv, TypeOK, NothingTwice, OneOwner, Apart
  <2>2. /\ asked = <<>> => events' = events
        /\ asked # <<>> => events' # <<>> /\ events'[Len(events')] = asked[Len(asked)]
    BY <1>7, <2>1, PutBehind DEF Vblank
  <2>3. asked' = <<>> /\ next' = None /\ UNCHANGED <<plane, pc, flipped, read, current_buffer>>
    BY <1>7 DEF Vblank
  <2>4. Newest' = Newest
    BY <2>2, <2>3 DEF Newest, LastSent
  <2>5. scanout' = Newest
    BY <1>0, <1>7 DEF Vblank, Shown
  <2>6. QED
    BY <2>3, <2>4, <2>5 DEF Shown
<1>8. QED
  BY <1>1, <1>2, <1>3, <1>4, <1>5, <1>6, <1>7 DEF Next, Main

(* What is shown, or is to be, is not with the camera, where a buffer comes*)
(* only while the program runs.                                            *)
LEMMA NotCapturedStep ==
  IInv /\ Next /\ TypeOK' /\ LoopState' /\ OneOwner' /\ Shown' => NotCaptured'
<1> SUFFICES ASSUME IInv, Next, TypeOK', LoopState', OneOwner', Shown' PROVE NotCaptured'
  OBVIOUS
<1>1. CASE pc' # "exit"
  <2>1. /\ (events # <<>> => events[Len(events)] \in Range(events))'
        /\ (read # <<>> => read[Len(read)] \in Range(read))'
        /\ (asked # <<>> => asked[Len(asked)] \in Range(asked))'
    BY Places DEF TypeOK
  <2>2. (current_buffer \in {None} \cup Kept)'
    BY SharingAssumption DEF TypeOK, Kept, None, Buffers
  <2>3. LastSent' \in ({None} \cup Kept \cup Range(events) \cup Range(read))'
    BY <2>1, <2>2 DEF LastSent
  <2>4. Newest' \in ({LastSent} \cup Away \cup Range(asked))'
    BY <2>1 DEF Newest, Away
  <2>5. {scanout', next'} \subseteq ({None} \cup Kept \cup Range(events) \cup Range(read)
                                      \cup Away \cup Range(asked))'
    BY <1>1, <2>3, <2>4 DEF Shown
  <2>6. None \notin Range(queued') \cup Range(done')
    <3>1. Range(queued') \cup Range(done') \subseteq Buffers
      BY Places DEF TypeOK
    <3>2. QED
      BY <3>1 DEF None, Buffers
  <2>7. QED
    BY <2>5, <2>6 DEF NotCaptured, OneOwner, Apart
<1>2. CASE pc' = "exit"
  <2>1. None \notin Range(queued) \cup Range(done)
    <3>1. Range(queued) \cup Range(done) \subseteq Buffers
      BY Places DEF IInv, TypeOK
    <3>2. QED
      BY <3>1 DEF None, Buffers
  <2>2. NotCaptured
    BY DEF IInv
  <2>3. CASE PollTimeout \/ Bye \/ Exited
    BY <2>2, <2>3 DEF PollTimeout, Bye, Exited, NotCaptured, vars, videoVars, crtcVars
  <2>4. CASE FlipRefused
    <3>1. done \in Seq(Buffers) /\ done # <<>> /\ Once(done)
      BY <2>4 DEF FlipRefused, IInv, TypeOK, LoopState, NothingTwice
    <3>2. Range(done') \subseteq Range(done)
      BY <2>4, <3>1, TakeFirst DEF FlipRefused
    <3>3. QED
      BY <2>2, <2>4, <3>2 DEF FlipRefused, NotCaptured, crtcVars
  <2>5. CASE Vblank
    BY <2>1, <2>2, <2>5 DEF Vblank, NotCaptured, videoVars
  <2>6. CASE Poll \/ Flip \/ AskForVblank \/ drmHandleEvent \/ page_flip_handler \/ Handled \/ Capture
    BY <1>2, <2>6 DEF Poll, Flip, AfterVideo, AskForVblank, drmHandleEvent, page_flip_handler,
      Handled, Capture, progVars
  <2>7. QED
    BY <2>3, <2>4, <2>5, <2>6 DEF Next, Main
<1>3. QED
  BY <1>1, <1>2

-----------------------------------------------------------------------------
(* The theorems                                                            *)

(* The strengthened invariant holds in every reachable state.              *)
THEOREM SharingInvariant == Spec => []IInv
<1>1. IInv /\ UNCHANGED vars => IInv'
  <2> SUFFICES ASSUME IInv, UNCHANGED vars PROVE IInv'
    OBVIOUS
  <2> USE DEF vars, progVars, videoVars, crtcVars
  <2>1. TypeOK' /\ LoopState' /\ NothingTwice'
    BY DEF IInv, TypeOK, LoopState, NothingTwice
  <2>2. OneOwner' /\ Shown' /\ NotCaptured'
    BY DEF IInv, OneOwner, Kept, Away, Shown, Newest, LastSent, NotCaptured
  <2>3. QED
    BY <2>1, <2>2 DEF IInv
<1>2. IInv /\ Next => IInv'
  BY QueueStep, OwnerStep, ShownStep, NotCapturedStep DEF IInv
<1>3. QED
  BY InitIInv, <1>1, <1>2, PTL DEF Spec

(* Whatever fails, the program's variables keep their types.               *)
THEOREM SharingTypes == Spec => []TypeOK
<1>1. IInv => TypeOK
  BY DEF IInv
<1>2. QED
  BY <1>1, SharingInvariant, PTL

(* Queues of buffers of which no two share one and none has one twice      *)
Separate(q, d, k, w, a, e, r) ==
  /\ q \in Seq(Buffers) /\ d \in Seq(Buffers) /\ k \in Seq(Buffers) /\ w \in Seq(Buffers)
  /\ a \in Seq(Buffers) /\ e \in Seq(Buffers) /\ r \in Seq(Buffers)
  /\ Once(q) /\ Once(d) /\ Once(k) /\ Once(w) /\ Once(a) /\ Once(e) /\ Once(r)
  /\ Apart(Range(q), Range(d), Range(k), Range(w), Range(a), Range(e), Range(r))

(* One after the other they have every buffer of theirs once.              *)
LEMMA AllQueues ==
  ASSUME NEW q, NEW d, NEW k, NEW w, NEW a, NEW e, NEW r, Separate(q, d, k, w, a, e, r)
  PROVE  /\ Once(q \o d \o k \o w \o a \o e \o r)
         /\ Range(q \o d \o k \o w \o a \o e \o r)
              = Range(q) \cup Range(d) \cup Range(k) \cup Range(w)
                \cup Range(a) \cup Range(e) \cup Range(r)
         /\ Range(q \o d) = Range(q) \cup Range(d)
<1> USE DEF Separate, Apart
<1> DEFINE qd == q \o d
           qk == qd \o k
           qw == qk \o w
           qa == qw \o a
           qe == qa \o e
           qr == qe \o r
<1>1. qd \in Seq(Buffers) /\ Once(qd) /\ Range(qd) = Range(q) \cup Range(d)
  BY PutBehind
<1> HIDE DEF qd
<1>2. qk \in Seq(Buffers) /\ Once(qk) /\ Range(qk) = Range(qd) \cup Range(k)
  BY <1>1, PutBehind
<1> HIDE DEF qk
<1>3. qw \in Seq(Buffers) /\ Once(qw) /\ Range(qw) = Range(qk) \cup Range(w)
  BY <1>1, <1>2, PutBehind
<1> HIDE DEF qw
<1>4. qa \in Seq(Buffers) /\ Once(qa) /\ Range(qa) = Range(qw) \cup Range(a)
  BY <1>1, <1>2, <1>3, PutBehind
<1> HIDE DEF qa
<1>5. qe \in Seq(Buffers) /\ Once(qe) /\ Range(qe) = Range(qa) \cup Range(e)
  BY <1>1, <1>2, <1>3, <1>4, PutBehind
<1> HIDE DEF qe
<1>6. qr \in Seq(Buffers) /\ Once(qr) /\ Range(qr) = Range(qe) \cup Range(r)
  BY <1>1, <1>2, <1>3, <1>4, <1>5, PutBehind
<1>7. qr = q \o d \o k \o w \o a \o e \o r
  BY DEF qd, qk, qw, qa, qe
<1>8. QED
  BY <1>1, <1>2, <1>3, <1>4, <1>5, <1>6, <1>7 DEF qd

(* A buffer has one owner: none is captured into while it is shown or is   *)
(* going to be, none is with the camera twice, and none is lost while the  *)
(* program runs.                                                           *)
THEOREM SharedBuffersOwnedOnce == Spec => []BuffersOwnedOnce
<1>1. IInv => BuffersOwnedOnce
  <2> SUFFICES ASSUME IInv PROVE BuffersOwnedOnce
    OBVIOUS
  <2> DEFINE away == IF pc = "vblank" THEN <<flipped>> ELSE <<>>
             kept == IF current_buffer < 0 THEN <<>> ELSE <<current_buffer>>
             all  == queued \o done \o kept \o away \o asked \o events \o read
  <2>1. away \in Seq(Buffers) /\ Once(away) /\ Range(away) = Away
    BY Single, Nothing DEF IInv, LoopState, Away
  <2>2. kept \in Seq(Buffers) /\ Once(kept) /\ Range(kept) = Kept
    <3>1. CASE current_buffer < 0
      BY <3>1, Nothing DEF Kept
    <3>2. CASE ~(current_buffer < 0)
      <4>1. current_buffer \in Buffers
        BY <3>2 DEF IInv, TypeOK
      <4>2. QED
        BY <3>2, <4>1, Single DEF Kept
    <3>3. QED
      BY <3>1, <3>2
  <2> HIDE DEF away, kept
  <2>3. /\ queued \in Seq(Buffers) /\ done \in Seq(Buffers)
        /\ asked \in Seq(Buffers) /\ events \in Seq(Buffers) /\ read \in Seq(Buffers)
        /\ Once(queued) /\ Once(done) /\ Once(asked) /\ Once(events) /\ Once(read)
    BY DEF IInv, TypeOK, NothingTwice
  <2>4. Apart(Range(queued), Range(done), Range(kept), Range(away), Range(asked), Range(events),
              Range(read))
    BY <2>1, <2>2 DEF IInv, OneOwner
  <2>8. Separate(queued, done, kept, away, asked, events, read)
    BY <2>1, <2>2, <2>3, <2>4 DEF Separate
  <2>5. /\ Once(all) /\ Range(queued \o done) = Range(queued) \cup Range(done)
        /\ Range(all) = Range(queued) \cup Range(done) \cup Range(kept) \cup Range(away)
                         \cup Range(asked) \cup Range(events) \cup Range(read)
    BY <2>8, AllQueues
  <2> HIDE DEF all
  <2>6. /\ {scanout, next} \cap Range(queued \o done) = {}
        /\ \A i, j \in DOMAIN all : all[i] = all[j] => i = j
        /\ pc # "exit" => Range(all) = Buffers
    BY <2>1, <2>2, <2>5 DEF IInv, NotCaptured, OneOwner, Once
  <2>7. QED
    BY <2>6 DEF BuffersOwnedOnce, all, away, kept
<1>2. QED
  BY <1>1, SharingInvariant, PTL
=============================================================================
