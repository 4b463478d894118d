----------------------------- MODULE EncoderChain -----------------------------
(***************************************************************************)
(* v4l2-mfc-encoder: one thread that polls a chain of three devices, a     *)
(* source (the demo generator or a camera), the MFC and a file.  Each pair *)
(* of neighbours shares a set of buffers: a buffer dequeued from the out   *)
(* port of one device is enqueued in the in port of the next, and the      *)
(* other way round once it was used.                                       *)
(*                                                                         *)
(* The camera, the MFC and poll are external.  System calls may fail;      *)
(* MaxFaults bounds how many do.                                           *)
(***************************************************************************)
EXTENDS Integers, Sequences, FiniteSets

CONSTANTS
  NFrames,   \* opts.duration
  NIn,       \* MFC_ENC_IN_NBUF: buffers between the source and the MFC
  NOut,      \* MFC_ENC_OUT_NBUF: buffers between the MFC and the file
  Sources,   \* the sources the program is started with: "demo", "camera"
  MaxFaults  \* bound: system calls that fail

ASSUME ChainAssumption ==
  /\ NFrames \in Nat \ {0} /\ NIn \in Nat \ {0} /\ NOut \in Nat \ {0}
  /\ Sources \subseteq {"demo", "camera"}
  /\ MaxFaults \in Nat

(* The ports that are used; the types of the others are IO_NONE.  Pair i   *)
(* is Up[i] and Down[i].                                                   *)
Ports == {"source", "mfcIn", "mfcOut", "file"}
Pairs == {1, 2}
Up    == <<"source", "mfcOut">>
Down  == <<"mfcIn", "file">>

(* Buffers of pair 1 and pair 2.                                           *)
InBufs  == {<<1, n>> : n \in 1 .. NIn}
OutBufs == {<<2, n>> : n \in 1 .. NOut}
Bufs    == InBufs \cup OutBufs

VARIABLES
  source,   \* the source the program was started with
  pc,       \* where process_chain is
  pair,     \* i, the pair it works on
  port,     \* struct io_port of each port
  event,    \* mfc->event
  queued,   \* buffers of a port that its device has still to work on
  ready,    \* buffers a driver has finished with: DQBUF returns them
  held,     \* pictures the MFC encoded and still keeps for reference
  content,  \* the number of the frame in a buffer
  captured, \* pictures the camera has made
  stopped,  \* V4L2_ENC_CMD_STOP was accepted
  eos,      \* the V4L2_EVENT_EOS of the MFC: "none", "pending" or "taken"
  written,  \* the frames written to the file
  faults    \* system calls that have failed so far

hwVars == <<source, held, content, captured, stopped, eos>>
vars   == <<pc, pair, port, event, queued, ready, hwVars, written, faults>>

(* Devices of read and write functions keep a ring of buffers (func_dev.c),*)
(* the others a queue in their driver (v4l_dev.c).  The demo has no file   *)
(* descriptor.                                                             *)
IsFunc(p) == p = "file" \/ (p = "source" /\ source = "demo")
HasFd(p)  == ~(p = "source" /\ source = "demo")

States == {"off", "busy", "ready", "end"}

TypeOK ==
  /\ source \in Sources
  /\ pc \in {"wait", "take", "giveBack", "event", "done", "failed"}
  /\ pair \in Pairs
  /\ port \in [Ports -> [state : States, counter : Nat, nbufs : Nat, limit : Nat]]
  /\ event \in BOOLEAN
  /\ queued \in [Ports -> Seq(Bufs)] /\ ready \in [Ports -> Seq(Bufs)]
  /\ held \in Seq(InBufs)
  /\ content \in [Bufs -> Nat] /\ captured \in Nat
  /\ stopped \in BOOLEAN /\ eos \in {"none", "pending", "taken"}
  /\ written \in Seq(Nat)
  /\ faults \in 0 .. MaxFaults

-----------------------------------------------------------------------------
(* main up to process_chain: dev_bufs_create has enqueued the buffers of   *)
(* each pair in the out port.  That makes the demo ready and starts the    *)
(* camera; the MFC starts with its first input.                            *)
NewPort(nbufs, limit, state) ==
  [state |-> state, counter |-> 0, nbufs |-> nbufs, limit |-> limit]

Init ==
  /\ source \in Sources
  /\ pc = "wait" /\ pair = 1 /\ event = FALSE
  /\ port = [p \in Ports |->
       CASE p = "source" ->
              NewPort(NIn, NFrames, IF source = "demo" THEN "ready" ELSE "busy")
         [] p = "mfcOut" -> NewPort(NOut, 0, "off")
         [] OTHER -> NewPort(0, 0, "off")]
  /\ queued = [p \in Ports |->
       CASE p = "source" -> [n \in 1 .. NIn |-> <<1, n>>]
         [] p = "mfcOut" -> [n \in 1 .. NOut |-> <<2, n>>]
         [] OTHER -> <<>>]
  /\ ready = [p \in Ports |-> <<>>]
  /\ held = <<>> /\ content = [b \in Bufs |-> 0] /\ captured = 0
  /\ stopped = FALSE /\ eos = "none" /\ written = <<>> /\ faults = 0

(* A system call fails.                                                    *)
Fault == faults < MaxFaults /\ faults' = faults + 1

Fails == Fault /\ pc' = "failed" /\ UNCHANGED <<pair, port, event, queued, ready, hwVars, written>>

-----------------------------------------------------------------------------
(* wait_for_ready_devs                                                     *)

AnyReady == \E p \in Ports : port[p].state = "ready"

Polled == {p \in Ports : HasFd(p) /\ port[p].state = "busy"}

(* What poll reports of a port: a regular file can always be written.      *)
Readable(p) == p = "file" \/ ready[p] # <<>>

(* POLLPRI is asked for together with POLLIN.                              *)
EventPending == "mfcOut" \in Polled /\ eos = "pending"

(* Some port is ready already: poll is not called.                         *)
NoNeedToWait ==
  /\ pc = "wait" /\ AnyReady
  /\ pc' = "take" /\ pair' = 1
  /\ UNCHANGED <<port, event, queued, ready, hwVars, written, faults>>

Poll ==
  /\ pc = "wait" /\ ~AnyReady
  /\ EventPending \/ \E p \in Polled : Readable(p)
  /\ port' = [p \in Ports |->
       IF p \in Polled /\ Readable(p) THEN [port[p] EXCEPT !.state = "ready"] ELSE port[p]]
  /\ event' = (event \/ EventPending)
  /\ pc' = "take" /\ pair' = 1
  /\ UNCHANGED <<queued, ready, hwVars, written, faults>>

(* Nothing to wait for: the chain has ended.                               *)
ChainEnds ==
  /\ pc = "wait" /\ ~AnyReady /\ Polled = {}
  /\ pc' = "done"
  /\ UNCHANGED <<pair, port, event, queued, ready, hwVars, written, faults>>

(* process_chain takes a failing poll for the end of the chain.            *)
PollFails ==
  /\ pc = "wait" /\ ~AnyReady /\ Polled # {}
  /\ Fault
  /\ pc' = "done"
  /\ UNCHANGED <<pair, port, event, queued, ready, hwVars, written>>

-----------------------------------------------------------------------------
(* deq_buf and enq_buf of a port                                           *)

Counted_NotRemoved(r) == [r EXCEPT !.counter = @ + 1]

Counted(r) == [r EXCEPT !.nbufs = @ - 1, !.counter = @ + 1]

LimitReached_OffByOne(r) == r.limit # 0 /\ r.limit < r.counter

(* The limit is compared after the buffer was counted.                     *)
LimitReached(r) == r.limit # 0 /\ r.limit <= r.counter

V4lStateAfter_Ready == "ready"

(* v4l_deq_buf: poll has to tell whether there is more.                    *)
V4lStateAfter == "busy"

(* func_deq_buf: the demo stays ready as long as its ring is not empty.    *)
FuncStateAfter(p) ==
  IF Len(queued[p]) = 1 THEN "off" ELSE IF HasFd(p) THEN "busy" ELSE "ready"

(* The port after its first buffer was dequeued; ioFailed: the read or     *)
(* write function returned an error.                                       *)
AfterDeq(p, ioFailed) ==
  LET r == Counted(port[p]) IN
    [r EXCEPT !.state = IF ioFailed \/ LimitReached(r) THEN "end"
                        ELSE IF IsFunc(p) THEN FuncStateAfter(p) ELSE V4lStateAfter]

First_Newest(p) ==
  IF IsFunc(p) THEN queued[p][Len(queued[p])] ELSE Head(ready[p])

First(p) == IF IsFunc(p) THEN Head(queued[p]) ELSE Head(ready[p])

(* v4l_stream_set off, when the last port of a device has ended: its       *)
(* buffers leave the driver.                                               *)
StreamsOff(p, q) ==
  \/ p = "source" /\ ~IsFunc(p) /\ q[p].state = "end"
  \/ p \in {"mfcIn", "mfcOut"} /\ q["mfcIn"].state = "end" /\ q["mfcOut"].state = "end"

DevicePorts(p) == IF p \in {"mfcIn", "mfcOut"} THEN {"mfcIn", "mfcOut"} ELSE {p}

(* v4l_stream_set off takes the buffers of a device from its driver.       *)
LeftIn(buffers, p, q) ==
  IF StreamsOff(p, q) THEN [d \in Ports |-> IF d \in DevicePorts(p) THEN <<>> ELSE buffers[d]]
  ELSE buffers

(* The queues after First(p) was dequeued; q are the ports.                *)
QueuedWithout(p, q) ==
  IF IsFunc(p) THEN [queued EXCEPT ![p] = Tail(@)] ELSE LeftIn(queued, p, q)

ReadyWithout(p, q) ==
  IF IsFunc(p) THEN ready ELSE LeftIn([ready EXCEPT ![p] = Tail(@)], p, q)

Enqueued(q, p) == [q EXCEPT ![p].nbufs = @ + 1]

(* func_enq_buf and v4l_enq_buf.  The first input starts both ports of the *)
(* MFC.                                                                    *)
AfterEnq(q, p) ==
  LET put == Enqueued(q, p)
  IN  IF q[p].state # "off" \/ p = "mfcOut" THEN put
      ELSE IF p = "mfcIn" THEN [put EXCEPT !["mfcIn"].state = "busy", !["mfcOut"].state = "busy"]
      ELSE [put EXCEPT ![p].state = IF HasFd(p) THEN "busy" ELSE "ready"]

LastIsIn_NotQueued(r) == r.limit # 0 /\ r.limit <= r.counter

(* The port holds its last buffer: V4L2_ENC_CMD_STOP is sent.              *)
LastIsIn(r) == r.limit # 0 /\ r.limit <= r.counter + r.nbufs

(* The ports are q before First was passed on to d.  The results of        *)
(* STREAMON and of V4L2_ENC_CMD_STOP are not looked at.                    *)
PassOn(q, d) ==
  LET stop == d = "mfcIn" /\ LastIsIn(Enqueued(q, d)[d])
      starts == d = "mfcIn" /\ q[d].state = "off"
  IN  \/ /\ port' = AfterEnq(q, d)
         /\ stopped' = (stopped \/ stop)
         /\ UNCHANGED faults
      \/ /\ stop /\ Fault
         /\ port' = AfterEnq(q, d)
         /\ UNCHANGED stopped
      \/ /\ starts /\ Fault
         /\ port' \in {Enqueued(q, d), [Enqueued(q, d) EXCEPT !["mfcIn"].state = "busy"]}
         /\ stopped' = (stopped \/ stop)

-----------------------------------------------------------------------------
(* process_pair                                                            *)

LastInput_NotInHand(r) == r.counter + r.nbufs

(* What the next device will have dequeued at its end: its buffers and the *)
(* one in hand.                                                            *)
LastInput(r) == r.counter + r.nbufs + 1

(* The ports after a buffer was dequeued from u: the end is passed on to d.*)
EndPassedOn(u, d) ==
  LET q == [port EXCEPT ![u] = AfterDeq(u, FALSE)]
  IN  IF q[u].state = "end" /\ port[d].limit = 0
      THEN [q EXCEPT ![d].limit = LastInput(port[d])] ELSE q

NothingToTake ==
  /\ pc = "take" /\ port[Up[pair]].state # "ready"
  /\ pc' = "giveBack"
  /\ UNCHANGED <<pair, port, event, queued, ready, hwVars, written, faults>>

(* From the out port of a device to the in port of the next one.           *)
TakeFrame ==
  /\ pc = "take" /\ port[Up[pair]].state = "ready" /\ port[Down[pair]].state # "end"
  /\ LET u == Up[pair]
         d == Down[pair]
         b == First(u)
         q == EndPassedOn(u, d)
     IN  /\ PassOn(q, d)
         /\ content' = IF u = "source" /\ IsFunc(u) THEN [content EXCEPT ![b] = q[u].counter]
                       ELSE content
         /\ queued' = [QueuedWithout(u, q) EXCEPT ![d] = Append(@, b)]
         /\ ready' = ReadyWithout(u, q)
  /\ pc' = "giveBack"
  /\ UNCHANGED <<source, pair, event, held, captured, eos, written>>

(* The next device has ended: the buffer goes nowhere.                     *)
DropFrame ==
  /\ pc = "take" /\ port[Up[pair]].state = "ready" /\ port[Down[pair]].state = "end"
  /\ LET u == Up[pair]
         q == [port EXCEPT ![u] = AfterDeq(u, FALSE)]
     IN  port' = q /\ queued' = QueuedWithout(u, q) /\ ready' = ReadyWithout(u, q)
  /\ pc' = "giveBack"
  /\ UNCHANGED <<pair, event, hwVars, written, faults>>

(* VIDIOC_DQBUF or VIDIOC_QBUF fails.                                      *)
TakeFails ==
  /\ pc = "take" /\ port[Up[pair]].state = "ready"
  /\ ~IsFunc(Up[pair]) \/ ~IsFunc(Down[pair])
  /\ Fails

NextPair ==
  IF pair = 1 THEN pair' = 2 /\ pc' = "take" ELSE pc' = "event" /\ UNCHANGED pair

NothingToGiveBack ==
  /\ pc = "giveBack" /\ port[Down[pair]].state # "ready"
  /\ NextPair
  /\ UNCHANGED <<port, event, queued, ready, hwVars, written, faults>>

(* A used buffer goes back to the device it came from, unless that has     *)
(* ended.  The file is written now; ioFailed: write returned an error.     *)
(* mfc_deq_buf takes back the limit v4l_deq_buf sets on the MFC's out port.*)
GiveBack ==
  /\ pc = "giveBack" /\ port[Down[pair]].state = "ready"
  /\ \E ioFailed \in BOOLEAN :
       LET u == Up[pair]
           d == Down[pair]
           b == First(d)
           q == [port EXCEPT ![d] = AfterDeq(d, ioFailed)]
       IN  /\ IF ioFailed THEN d = "file" /\ Fault ELSE UNCHANGED faults
           /\ written' = IF d = "file" /\ ~ioFailed THEN Append(written, content[b]) ELSE written
           /\ port' = IF port[u].state = "end" THEN q ELSE AfterEnq(q, u)
           /\ queued' = IF port[u].state = "end" THEN QueuedWithout(d, q)
                        ELSE [QueuedWithout(d, q) EXCEPT ![u] = Append(@, b)]
           /\ ready' = ReadyWithout(d, q)
           /\ held' = IF StreamsOff(d, q) THEN <<>> ELSE held
  /\ NextPair
  /\ UNCHANGED <<source, event, content, captured, stopped, eos>>

GiveBackFails ==
  /\ pc = "giveBack" /\ port[Down[pair]].state = "ready"
  /\ ~IsFunc(Down[pair]) \/ ~IsFunc(Up[pair])
  /\ Fails

NoEvent ==
  /\ pc = "event" /\ ~event
  /\ pc' = "wait"
  /\ UNCHANGED <<pair, port, event, queued, ready, hwVars, written, faults>>

(* v4l_deq_event: whatever the MFC still has to deliver, its out port ends.*)
DeqEvent ==
  /\ pc = "event" /\ event
  /\ port' = [port EXCEPT !["mfcOut"].state = "end"]
  /\ event' = FALSE /\ eos' = "taken"
  /\ pc' = "wait"
  /\ UNCHANGED <<source, pair, queued, ready, held, content, captured, stopped, written, faults>>

DeqEventFails == pc = "event" /\ event /\ Fails

Finished == pc \in {"done", "failed"} /\ UNCHANGED vars

Program ==
  \/ NoNeedToWait \/ Poll \/ ChainEnds \/ PollFails
  \/ NothingToTake \/ TakeFrame \/ DropFrame \/ TakeFails
  \/ NothingToGiveBack \/ GiveBack \/ GiveBackFails
  \/ NoEvent \/ DeqEvent \/ DeqEventFails

-----------------------------------------------------------------------------
(* The devices                                                             *)

swVars == <<source, pc, pair, port, event, stopped, written, faults>>

CameraCapture ==
  /\ source = "camera" /\ queued["source"] # <<>>
  /\ LET b == Head(queued["source"]) IN
       /\ queued' = [queued EXCEPT !["source"] = Tail(@)]
       /\ ready' = [ready EXCEPT !["source"] = Append(@, b)]
       /\ content' = [content EXCEPT ![b] = captured + 1]
       /\ captured' = captured + 1
  /\ UNCHANGED <<swVars, held, eos>>

MfcStreams == port["mfcIn"].state # "off" /\ port["mfcOut"].state # "off"

(* A picture is encoded into a free output buffer; it may be needed as a   *)
(* reference for the following ones.                                       *)
MfcEncode ==
  /\ MfcStreams /\ queued["mfcIn"] # <<>> /\ queued["mfcOut"] # <<>>
  /\ LET i == Head(queued["mfcIn"])
         o == Head(queued["mfcOut"])
     IN  /\ queued' = [queued EXCEPT !["mfcIn"] = Tail(@), !["mfcOut"] = Tail(@)]
         /\ held' = Append(held, i)
         /\ ready' = [ready EXCEPT !["mfcOut"] = Append(@, o)]
         /\ content' = [content EXCEPT ![o] = content[i]]
  /\ UNCHANGED <<swVars, captured, eos>>

MfcRelease ==
  /\ held # <<>>
  /\ ready' = [ready EXCEPT !["mfcIn"] = Append(@, Head(held))]
  /\ held' = Tail(held)
  /\ UNCHANGED <<swVars, queued, content, captured, eos>>

(* V4L2_EVENT_EOS: after V4L2_ENC_CMD_STOP, when all is encoded.           *)
MfcEos ==
  /\ MfcStreams /\ stopped /\ eos = "none" /\ queued["mfcIn"] = <<>>
  /\ eos' = "pending"
  /\ UNCHANGED <<swVars, queued, ready, held, content, captured>>

Next == Program \/ Finished \/ CameraCapture \/ MfcEncode \/ MfcRelease \/ MfcEos

Spec == Init /\ [][Next]_vars

(* The program runs as long as it can, but no call has to fail: one that   *)
(* blocks is not saved by an error.  The devices make progress on the      *)
(* buffers they are given.                                                 *)
Fairness ==
  /\ WF_vars(Program /\ faults' = faults)
  /\ WF_vars(CameraCapture) /\ WF_vars(MfcEncode) /\ WF_vars(MfcRelease) /\ WF_vars(MfcEos)

FairSpec == Spec /\ Fairness

-----------------------------------------------------------------------------
Where(p) == queued[p] \o ready[p] \o (IF p = "mfcIn" THEN held ELSE <<>>)

(* README.txt:99-104: as long as neither side of a pair has ended, each of *)
(* its buffers is in exactly one of the two queues, and nbufs counts those *)
(* of each side.  No ring of a function device can overflow, then.         *)
BuffersConserved ==
  pc # "failed" => \A i \in Pairs :
    LET u == Where(Up[i])
        d == Where(Down[i])
        all == IF i = 1 THEN InBufs ELSE OutBufs
    IN  port[Up[i]].state # "end" /\ port[Down[i]].state # "end" =>
          /\ Len(u) = port[Up[i]].nbufs /\ Len(d) = port[Down[i]].nbufs
          /\ Len(u \o d) = Cardinality(all)
          /\ {(u \o d)[k] : k \in DOMAIN (u \o d)} = all

Frames(buffers) == [k \in DOMAIN buffers |-> content[buffers[k]]]

(* What is in the file is always the beginning of the video, whatever call *)
(* failed and however early the MFC's end was seen.  As long as the MFC and*)
(* the file have not ended no frame is lost or overtaken: those written, to*)
(* be written, encoded and to be encoded are those taken from the source.  *)
FramesKeepOrder ==
  /\ \A k \in DOMAIN written : written[k] = k
  /\ pc # "failed" /\ port["mfcOut"].state # "end" /\ port["file"].state # "end" =>
       written \o Frames(queued["file"]) \o Frames(ready["mfcOut"]) \o Frames(queued["mfcIn"])
         = [k \in 1 .. port["source"].counter |-> k]

(* The abstract pipeline: a frame is in it from when the source has handed *)
(* it to the MFC until it is written.  A write that fails leaves its frame *)
(* behind although the buffer goes on.                                     *)
Pipeline == INSTANCE FramePipeline WITH
  OutCnt  <- NIn,
  CapCnt  <- NOut + MaxFaults,
  parsed  <- port["source"].counter,
  decoded <- port["source"].counter - Len(queued["mfcIn"]),
  shown   <- written

(* Every step moves one frame on by one stage, or none, in the order of the*)
(* video, and between two stages are never more than there are buffers:    *)
(* whatever call fails, and however early the MFC's end was seen, no frame *)
(* is written that was not encoded, none twice, and none out of its turn.  *)
ImplementsPipeline == Pipeline!Init /\ [][Pipeline!Next]_(Pipeline!vars)

(* What the devices can do: capture, encode, give a picture back, or report*)
(* the end of the stream                                                   *)
DevicesGoOn ==
  \/ source = "camera" /\ queued["source"] # <<>>
  \/ MfcStreams /\ queued["mfcIn"] # <<>> /\ queued["mfcOut"] # <<>>
  \/ held # <<>>
  \/ MfcStreams /\ stopped /\ eos = "none" /\ queued["mfcIn"] = <<>>

(* The one thread never blocks for ever.  A buffer is dequeued from a ready*)
(* port only, so VIDIOC_DQBUF returns and func_deq_buf finds its ring not  *)
(* empty (README.txt:106-107, func_dev.c:59); and poll, which has no       *)
(* timeout (io_dev.c:72), is called while something it waits for is there  *)
(* or a device has work, unless a call has failed.                         *)
NeverBlocks ==
  /\ \A p \in Ports : port[p].state = "ready" =>
       IF IsFunc(p) THEN queued[p] # <<>> ELSE ready[p] # <<>>
  /\ pc = "wait" /\ ~AnyReady /\ Polled # {} /\ faults = 0 =>
       EventPending \/ (\E p \in Polled : Readable(p)) \/ DevicesGoOn

(* The end of the source reaches the MFC with the last frame, not before:  *)
(* V4L2_ENC_CMD_STOP is sent once the MFC has got NFrames frames, and it is*)
(* sent when the source has ended (unless the ioctl fails).                *)
StopWithLastFrame ==
  /\ stopped => port["mfcIn"].counter + port["mfcIn"].nbufs = NFrames
  /\ port["source"].state = "end" /\ faults = 0 => stopped

(* The program ends only after the MFC has returned every picture and its  *)
(* end of stream was seen, and whatever was dequeued is in the file.       *)
EndsCleanly ==
  pc = "done" /\ faults = 0 =>
    /\ stopped /\ eos = "taken" /\ port["mfcIn"].state = "end"
    /\ port["mfcIn"].counter = NFrames
    /\ Len(written) = port["mfcOut"].counter

(* README.txt:106: with devices that make progress and calls that succeed  *)
(* the chain always comes to its end.                                      *)
Terminates == <>(pc = "done" \/ faults > 0)

(* README.txt:134: opts.duration is the number of frames to encode.        *)
EncodesEveryFrame == pc = "done" /\ faults = 0 => Len(written) = NFrames
=============================================================================
