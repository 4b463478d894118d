-------------------------- MODULE EncoderChainProofs --------------------------
(***************************************************************************)
(* The buffers and the frames of v4l2-mfc-encoder, and that it implements  *)
(* FramePipeline, for any number of frames and of buffers, and whatever    *)
(* call fails.                                                             *)
(***************************************************************************)
EXTENDS EncoderChain, QueueLemmas

(* Every place where a buffer can be                                       *)
Places == {"source", "sourceDone", "input", "held", "inputDone", "output", "outputDone", "file"}

at == [x \in Places |->
  CASE x = "source"     -> queued["source"]
    [] x = "sourceDone" -> ready["source"]
    [] x = "input"      -> queued["mfcIn"]
    [] x = "held"       -> held
    [] x = "inputDone"  -> ready["mfcIn"]
    [] x = "output"     -> queued["mfcOut"]
    [] x = "outputDone" -> ready["mfcOut"]
    [] x = "file"       -> queued["file"]]

InPlaces  == {"source", "sourceDone", "input", "held", "inputDone"}
OutPlaces == {"output", "outputDone", "file"}

(* No buffer is in two places, or twice in one.                            *)
Apart(f) ==
  /\ \A x \in DOMAIN f : Distinct(f[x])
  /\ \A x, y \in DOMAIN f : x # y => Items(f[x]) \cap Items(f[y]) = {}

OfTheirPair(f) ==
  /\ \A x \in InPlaces : Items(f[x]) \subseteq InBufs
  /\ \A x \in OutPlaces : Items(f[x]) \subseteq OutBufs

AllIn(f)  == \A b \in InBufs : \E x \in InPlaces : b \in Items(f[x])
AllOut(f) == \A b \in OutBufs : \E x \in OutPlaces : b \in Items(f[x])

Ended(p) == port[p].state = "end"

(* A pair has the buffers it was given, all of them while neither of its   *)
(* sides has ended.                                                        *)
PairsApart ==
  /\ Apart(at) /\ OfTheirPair(at)
  /\ ~Ended("source") /\ ~Ended("mfcIn") => AllIn(at)
  /\ ~Ended("mfcOut") /\ ~Ended("file") => AllOut(at)

(* What a port's state says of its queues                                  *)
PortStates ==
  /\ \A p \in Ports : IsFunc(p) =>
       /\ ready[p] = <<>>
       /\ port[p].state \in {"busy", "ready"} <=> queued[p] # <<>> /\ ~Ended(p)
  /\ \A p \in Ports : ~IsFunc(p) /\ port[p].state = "ready" => ready[p] # <<>>
  /\ port["source"].state # IF source = "demo" THEN "busy" ELSE "off"

(* nbufs counts the buffers of a port.                                     *)
Counts ==
  /\ ~Ended("source") => port["source"].nbufs = Len(queued["source"]) + Len(ready["source"])
  /\ ~Ended("mfcIn") => port["mfcIn"].nbufs = Len(queued["mfcIn"]) + Len(ready["mfcIn"]) + Len(held)
  /\ ~Ended("mfcOut") => port["mfcOut"].nbufs = Len(queued["mfcOut"]) + Len(ready["mfcOut"])
  /\ ~Ended("file") => port["file"].nbufs = Len(queued["file"])

(* The frames are counted as they go along; the source ends after NFrames, *)
(* and the MFC's input after the same ones.                                *)
Limits ==
  /\ port["source"].limit = NFrames /\ port["mfcOut"].limit = 0 /\ port["file"].limit = 0
  /\ port["mfcIn"].limit = IF Ended("source") THEN NFrames ELSE 0
  /\ port["mfcIn"].counter + port["mfcIn"].nbufs = port["source"].counter
  /\ IF Ended("source") THEN port["source"].counter = NFrames ELSE port["source"].counter < NFrames
  /\ Ended("mfcIn") => Ended("source") /\ port["mfcIn"].counter = NFrames
  /\ Ended("file") => faults > 0

(* The MFC streams once it has input, and is told to stop when the source  *)
(* has ended.                                                              *)
Streams ==
  /\ stopped => Ended("source")
  /\ Ended("source") /\ faults = 0 => stopped
  /\ port["mfcOut"].state # "off" => port["mfcIn"].state # "off"
  /\ faults = 0 /\ port["mfcIn"].state # "off" => port["mfcOut"].state # "off"
  /\ faults = 0 /\ port["mfcIn"].state = "off" => port["source"].counter = 0
  /\ eos # "none" => port["mfcOut"].state # "off"
  /\ event => eos = "pending"
  /\ Ended("mfcOut") <=> eos = "taken"

(* The frames follow each other from the file back to the source.          *)
Line ==
  /\ \A k \in DOMAIN written : written[k] = k
  /\ ~Ended("file") =>
       /\ Len(written) + Len(queued["file"]) = port["mfcOut"].counter
       /\ \A k \in DOMAIN queued["file"] : content[queued["file"][k]] = Len(written) + k
  /\ ~Ended("mfcOut") =>
       /\ \A k \in DOMAIN ready["mfcOut"] :
            content[ready["mfcOut"][k]] = port["mfcOut"].counter + k
       /\ \A k \in DOMAIN queued["mfcIn"] :
            content[queued["mfcIn"][k]] = port["mfcOut"].counter + Len(ready["mfcOut"]) + k
       /\ port["source"].counter =
            port["mfcOut"].counter + Len(ready["mfcOut"]) + Len(queued["mfcIn"])
  /\ source = "camera" /\ ~Ended("source") =>
       /\ captured = port["source"].counter + Len(ready["source"])
       /\ \A k \in DOMAIN ready["source"] : content[ready["source"][k]] = port["source"].counter + k

(* How the chain ends                                                      *)
Endings ==
  pc = "done" /\ faults = 0 =>
    Ended("mfcIn") /\ eos = "taken" /\ Len(written) = port["mfcOut"].counter

ChainInv ==
  TypeOK /\ PairsApart /\ PortStates /\ Counts /\ Limits /\ Streams /\ Line /\ Endings

-----------------------------------------------------------------------------
(* Buffers on their way                                                    *)

(* When a buffer goes from one place to another of its pair, or leaves the *)
(* chain, and others are taken from their places, each is still in one     *)
(* place at most; none is lost where none was taken.                       *)
Way(f, g, x, y, z) ==
  g[z] = IF z = x THEN Tail(f[x]) ELSE IF z = y THEN Append(f[y], Head(f[x])) ELSE f[z]

(* Each buffer stays in one place, of its own pair.                        *)
LEMMA Moving ==
  ASSUME NEW f \in [Places -> Seq(Bufs)], NEW g, DOMAIN g = Places, Apart(f), OfTheirPair(f),
         NEW P \in {InPlaces, OutPlaces}, NEW x \in P, NEW y \in P, x # y, f[x] # <<>>,
         \A z \in Places : Way(f, g, x, y, z) \/ (g[z] = f[z] /\ z # x) \/ g[z] = <<>>
  PROVE  /\ Apart(g) /\ OfTheirPair(g)
         /\ (\A z \in InPlaces : Way(f, g, x, y, z)) /\ AllIn(f) => AllIn(g)
         /\ (\A z \in OutPlaces : Way(f, g, x, y, z)) /\ AllOut(f) => AllOut(g)
<1> DEFINE h == Head(f[x])
<1>1. x \in Places /\ y \in Places /\ f[x] \in Seq(Bufs) /\ f[y] \in Seq(Bufs)
      /\ InPlaces \cap OutPlaces = {} /\ InPlaces \cup OutPlaces = Places
  BY DEF InPlaces, OutPlaces, Places
<1>2. /\ Items(f[x]) = {h} \cup Items(Tail(f[x])) /\ h \notin Items(Tail(f[x])) /\ h \in Bufs
      /\ Distinct(Tail(f[x]))
  BY <1>1, Taken DEF Apart
<1>3. h \notin Items(f[y])
  BY <1>1, <1>2 DEF Apart
<1>4. Items(Append(f[y], h)) = Items(f[y]) \cup {h} /\ Distinct(Append(f[y], h))
  BY <1>1, <1>2, <1>3, Put DEF Apart
<1>5. Items(<<>>) = {} /\ Distinct(<<>>)
  BY DEF Items, Distinct
<1>6. \A z \in Places :
        /\ Distinct(g[z])
        /\ z = x => Items(g[z]) \subseteq Items(f[x]) /\ h \notin Items(g[z])
        /\ z = y => Items(g[z]) \subseteq Items(f[y]) \cup {h}
        /\ z # y => Items(g[z]) \subseteq Items(f[z])
  <2> TAKE z \in Places
  <2>1. CASE g[z] = <<>>
    BY <1>5, <2>1
  <2>2. CASE g[z] = f[z] /\ z # x
    BY <2>2 DEF Apart
  <2>3. CASE Way(f, g, x, y, z)
    BY <1>2, <1>4, <2>3 DEF Way, Apart
  <2>4. QED
    BY <2>1, <2>2, <2>3
<1>7. \A z \in Places : z # x => h \notin Items(f[z])
  BY <1>1, <1>2 DEF Apart
<1> HIDE DEF h
<1>8. Apart(g)
  BY <1>1, <1>6, <1>7 DEF Apart
<1>9. OfTheirPair(g)
  BY <1>1, <1>2, <1>6 DEF OfTheirPair
<1>10. \A z \in Places : Way(f, g, x, y, z) => Items(f[z]) \subseteq Items(g[z]) \cup {h}
  BY <1>2, <1>4 DEF Way, h
<1>11. Way(f, g, x, y, y) => h \in Items(g[y])
  BY <1>1, <1>4 DEF Way, h
<1>12. (\A z \in InPlaces : Way(f, g, x, y, z)) /\ AllIn(f) => AllIn(g)
  <2>1. CASE P = InPlaces
    BY <1>1, <1>10, <1>11, <2>1 DEF AllIn
  <2>2. CASE P # InPlaces
    BY <1>1, <2>2 DEF AllIn, Way
  <2>3. QED
    BY <2>1, <2>2
<1>13. (\A z \in OutPlaces : Way(f, g, x, y, z)) /\ AllOut(f) => AllOut(g)
  <2>1. CASE P = OutPlaces
    BY <1>1, <1>10, <1>11, <2>1 DEF AllOut
  <2>2. CASE P # OutPlaces
    BY <1>1, <2>2 DEF AllOut, Way
  <2>3. QED
    BY <2>1, <2>2
<1>14. QED
  BY <1>8, <1>9, <1>12, <1>13

(* The places by their queues                                              *)
LEMMA AtPlaces ==
  /\ at["source"] = queued["source"] /\ at["sourceDone"] = ready["source"]
  /\ at["input"] = queued["mfcIn"] /\ at["held"] = held /\ at["inputDone"] = ready["mfcIn"]
  /\ at["output"] = queued["mfcOut"] /\ at["outputDone"] = ready["mfcOut"]
  /\ at["file"] = queued["file"] /\ DOMAIN at = Places
  /\ at'["source"] = queued'["source"] /\ at'["sourceDone"] = ready'["source"]
  /\ at'["input"] = queued'["mfcIn"] /\ at'["held"] = held' /\ at'["inputDone"] = ready'["mfcIn"]
  /\ at'["output"] = queued'["mfcOut"] /\ at'["outputDone"] = ready'["mfcOut"]
  /\ at'["file"] = queued'["file"] /\ DOMAIN at' = Places
BY DEF at, Places

-----------------------------------------------------------------------------
(* Types, for each part of the state                                       *)

PortRecord == [state : States, counter : Nat, nbufs : Nat, limit : Nat]

ControlTypes ==
  /\ source \in Sources /\ pc \in {"wait", "take", "giveBack", "event", "done", "failed"}
  /\ pair \in Pairs /\ event \in BOOLEAN /\ captured \in Nat /\ stopped \in BOOLEAN
  /\ eos \in {"none", "pending", "taken"} /\ faults \in 0 .. MaxFaults
PortTypes  == port \in [Ports -> PortRecord]
QueueTypes == queued \in [Ports -> Seq(Bufs)] /\ ready \in [Ports -> Seq(Bufs)] /\ held \in Seq(InBufs)
FrameTypes == content \in [Bufs -> Nat] /\ written \in Seq(Nat)

(* The fields of a port                                                    *)
LEMMA PortFields ==
  ASSUME NEW r \in PortRecord
  PROVE  r.state \in States /\ r.counter \in Nat /\ r.nbufs \in Nat /\ r.limit \in Nat
BY DEF PortRecord

(* They are the type invariant.                                            *)
LEMMA TypeParts == TypeOK <=> ControlTypes /\ PortTypes /\ QueueTypes /\ FrameTypes
BY DEF TypeOK, ControlTypes, PortTypes, PortRecord, QueueTypes, FrameTypes

(* A queue of input buffers is one of buffers.                             *)
LEMMA PlaceTypes == TypeOK => at \in [Places -> Seq(Bufs)]
<1> SUFFICES ASSUME TypeOK PROVE at \in [Places -> Seq(Bufs)]
  OBVIOUS
<1>1. held \in Seq(Bufs)
  BY DEF TypeOK, Bufs
<1>2. \A x \in Places : at[x] \in Seq(Bufs)
  BY <1>1, AtPlaces DEF Places, TypeOK, Ports
<1>3. QED
  BY <1>2 DEF at

(* A port a buffer is dequeued from                                        *)
LEMMA AfterDequeuing ==
  ASSUME NEW p \in Ports, port[p] \in PortRecord, port[p].nbufs > 0, NEW io \in BOOLEAN
  PROVE  /\ AfterDeq(p, io) \in PortRecord
         /\ AfterDeq(p, io).counter = port[p].counter + 1
         /\ AfterDeq(p, io).nbufs = port[p].nbufs - 1
         /\ AfterDeq(p, io).limit = port[p].limit
         /\ AfterDeq(p, io).state =
              IF io \/ (port[p].limit # 0 /\ port[p].limit <= port[p].counter + 1) THEN "end"
              ELSE IF IsFunc(p) THEN FuncStateAfter(p) ELSE "busy"
<1> DEFINE r == Counted(port[p])
<1>1. /\ r \in PortRecord /\ r.counter = port[p].counter + 1 /\ r.nbufs = port[p].nbufs - 1
      /\ r.limit = port[p].limit
  <2>1. port[p].counter + 1 \in Nat /\ port[p].nbufs - 1 \in Nat
    BY DEF PortRecord
  <2>2. r = [port[p] EXCEPT !.nbufs = port[p].nbufs - 1, !.counter = port[p].counter + 1]
    BY DEF Counted
  <2>3. QED
    BY <2>1, <2>2 DEF PortRecord
<1>2. LimitReached(r) <=> port[p].limit # 0 /\ port[p].limit <= port[p].counter + 1
  BY <1>1 DEF LimitReached
<1>3. AfterDeq(p, io) = [r EXCEPT !.state = IF io \/ LimitReached(r) THEN "end"
                          ELSE IF IsFunc(p) THEN FuncStateAfter(p) ELSE "busy"]
  BY DEF AfterDeq, V4lStateAfter
<1> HIDE DEF r
<1>4. FuncStateAfter(p) \in States
  BY DEF FuncStateAfter, States
<1>5. QED
  BY <1>1, <1>2, <1>3, <1>4 DEF PortRecord, States

(* The ports when a buffer is enqueued in one of them                      *)
LEMMA AfterEnqueuing ==
  ASSUME NEW q \in [Ports -> PortRecord], NEW p \in Ports
  PROVE  /\ Enqueued(q, p) \in [Ports -> PortRecord] /\ AfterEnq(q, p) \in [Ports -> PortRecord]
         /\ \A r \in Ports :
              /\ Enqueued(q, p)[r].counter = q[r].counter /\ Enqueued(q, p)[r].limit = q[r].limit
              /\ Enqueued(q, p)[r].nbufs = q[r].nbufs + (IF r = p THEN 1 ELSE 0)
              /\ Enqueued(q, p)[r].state = q[r].state
              /\ AfterEnq(q, p)[r].counter = q[r].counter /\ AfterEnq(q, p)[r].limit = q[r].limit
              /\ AfterEnq(q, p)[r].nbufs = q[r].nbufs + (IF r = p THEN 1 ELSE 0)
              /\ AfterEnq(q, p)[r].state =
                   IF q[p].state # "off" \/ p = "mfcOut" THEN q[r].state
                   ELSE IF p = "mfcIn" THEN (IF r \in {"mfcIn", "mfcOut"} THEN "busy" ELSE q[r].state)
                   ELSE IF r = p THEN (IF HasFd(p) THEN "busy" ELSE "ready") ELSE q[r].state
<1> DEFINE e == Enqueued(q, p)
<1>1. /\ e \in [Ports -> PortRecord]
      /\ \A r \in Ports : /\ e[r].counter = q[r].counter /\ e[r].limit = q[r].limit
                          /\ e[r].nbufs = q[r].nbufs + (IF r = p THEN 1 ELSE 0)
                          /\ e[r].state = q[r].state
  BY DEF Enqueued, PortRecord
<1>2. AfterEnq(q, p) =
        IF q[p].state # "off" \/ p = "mfcOut" THEN e
        ELSE IF p = "mfcIn" THEN [e EXCEPT !["mfcIn"].state = "busy", !["mfcOut"].state = "busy"]
        ELSE [e EXCEPT ![p].state = IF HasFd(p) THEN "busy" ELSE "ready"]
  BY DEF AfterEnq
<1> HIDE DEF e
<1>3. CASE q[p].state # "off" \/ p = "mfcOut"
  BY <1>1, <1>2, <1>3 DEF e
<1>4. CASE ~(q[p].state # "off" \/ p = "mfcOut") /\ p = "mfcIn"
  BY <1>1, <1>2, <1>4 DEF e, PortRecord, States, Ports
<1>5. CASE ~(q[p].state # "off" \/ p = "mfcOut") /\ p # "mfcIn"
  BY <1>1, <1>2, <1>5 DEF e, PortRecord, States
<1>6. QED
  BY <1>3, <1>4, <1>5

(* What the program may count on when a port is ready: there is a buffer   *)
(* to dequeue, and it is counted.                                          *)
LEMMA ReadyPort ==
  ASSUME ChainInv, NEW p \in Ports, port[p].state = "ready"
  PROVE  /\ port \in [Ports -> PortRecord] /\ port[p] \in PortRecord /\ port[p].nbufs > 0
         /\ IF IsFunc(p) THEN queued[p] # <<>> /\ ready[p] = <<>> ELSE ready[p] # <<>>
<1>1. IF IsFunc(p) THEN queued[p] # <<>> /\ ready[p] = <<>> ELSE ready[p] # <<>>
  BY DEF ChainInv, PortStates, Ended
<1>2. /\ queued[p] \in Seq(Bufs) /\ ready[p] \in Seq(Bufs) /\ held \in Seq(InBufs)
      /\ p \in {"source", "mfcIn", "mfcOut", "file"} /\ IsFunc("file")
  BY DEF ChainInv, TypeOK, Ports, IsFunc
<1>3. /\ Len(queued[p]) \in Nat /\ Len(ready[p]) \in Nat /\ Len(held) \in Nat
      /\ Len(queued[p]) > 0 \/ Len(ready[p]) > 0
  BY <1>1, <1>2
<1>4. /\ port[p].state # "end"
      /\ \/ port[p].nbufs = Len(queued[p]) + Len(ready[p])
         \/ port[p].nbufs = Len(queued[p]) + Len(ready[p]) + Len(held)
         \/ p = "file" /\ port[p].nbufs = Len(queued[p])
  <2>1. CASE p = "source"
    BY <2>1 DEF ChainInv, Counts, Ended
  <2>2. CASE p = "mfcIn"
    BY <2>2 DEF ChainInv, Counts, Ended
  <2>3. CASE p = "mfcOut"
    BY <2>3 DEF ChainInv, Counts, Ended
  <2>4. CASE p = "file"
    BY <2>4 DEF ChainInv, Counts, Ended
  <2>5. QED
    BY <1>2, <2>1, <2>2, <2>3, <2>4
<1>5. port \in [Ports -> PortRecord] /\ port[p] \in PortRecord
  BY DEF ChainInv, TypeOK, PortRecord
<1>6. port[p].nbufs > 0
  <2>1. CASE p = "file" /\ port[p].nbufs = Len(queued[p])
    <3>1. queued[p] # <<>>
      BY <1>1, <1>2, <2>1
    <3>2. QED
      BY <1>2, <2>1, <3>1
  <2> \A a, b, c \in Nat : a > 0 \/ b > 0 => a + b > 0 /\ a + b + c > 0
    OBVIOUS
  <2>2. CASE port[p].nbufs = Len(queued[p]) + Len(ready[p])
    BY <1>3, <2>2
  <2>3. CASE port[p].nbufs = Len(queued[p]) + Len(ready[p]) + Len(held)
    BY <1>3, <2>3
  <2>4. QED
    BY <1>4, <2>1, <2>2, <2>3
<1>7. QED
  BY <1>1, <1>5, <1>6

(* What is left when the first buffer of a ready port is dequeued: the     *)
(* ring or the queue of the driver without it, or nothing when its device  *)
(* streams off.                                                            *)
LEMMA WithoutFirst ==
  ASSUME ChainInv, NEW p \in Ports, port[p].state = "ready", NEW q
  PROVE  /\ QueuedWithout(p, q) \in [Ports -> Seq(Bufs)] /\ ReadyWithout(p, q) \in [Ports -> Seq(Bufs)]
         /\ First(p) \in Bufs
         /\ IsFunc(p) =>
              /\ First(p) = Head(queued[p]) /\ queued[p] # <<>> /\ ReadyWithout(p, q) = ready
              /\ \A r \in Ports : QueuedWithout(p, q)[r] = IF r = p THEN Tail(queued[p]) ELSE queued[r]
         /\ ~IsFunc(p) => First(p) = Head(ready[p]) /\ ready[p] # <<>>
         /\ ~IsFunc(p) /\ ~StreamsOff(p, q) =>
              /\ QueuedWithout(p, q) = queued
              /\ \A r \in Ports : ReadyWithout(p, q)[r] = IF r = p THEN Tail(ready[p]) ELSE ready[r]
         /\ ~IsFunc(p) /\ StreamsOff(p, q) =>
              \A r \in Ports :
                /\ QueuedWithout(p, q)[r] = IF r \in DevicePorts(p) THEN <<>> ELSE queued[r]
                /\ ReadyWithout(p, q)[r] = IF r \in DevicePorts(p) THEN <<>> ELSE ready[r]
<1>1. queued \in [Ports -> Seq(Bufs)] /\ ready \in [Ports -> Seq(Bufs)]
  BY DEF ChainInv, TypeOK
<1>2. IF IsFunc(p) THEN queued[p] # <<>> ELSE ready[p] # <<>>
  BY ReadyPort
<1>3. <<>> \in Seq(Bufs) /\ p \in DevicePorts(p)
  BY DEF DevicePorts
<1>4. CASE IsFunc(p)
  <2>1. Tail(queued[p]) \in Seq(Bufs) /\ Head(queued[p]) \in Bufs
    BY <1>1, <1>2, <1>4, Taken
  <2>2. /\ QueuedWithout(p, q) = [queued EXCEPT ![p] = Tail(queued[p])] /\ ReadyWithout(p, q) = ready
        /\ First(p) = Head(queued[p])
    BY <1>4 DEF QueuedWithout, ReadyWithout, First
  <2>3. QED
    BY <1>1, <1>2, <1>4, <2>1, <2>2
<1>5. CASE ~IsFunc(p)
  <2> DEFINE R == [ready EXCEPT ![p] = Tail(ready[p])]
  <2>1. Tail(ready[p]) \in Seq(Bufs) /\ Head(ready[p]) \in Bufs
    BY <1>1, <1>2, <1>5, Taken
  <2>2. R \in [Ports -> Seq(Bufs)] /\ \A r \in Ports : R[r] = IF r = p THEN Tail(ready[p]) ELSE ready[r]
    BY <1>1, <2>1
  <2>3. /\ QueuedWithout(p, q) = LeftIn(queued, p, q) /\ ReadyWithout(p, q) = LeftIn(R, p, q)
        /\ First(p) = Head(ready[p])
    BY <1>5 DEF QueuedWithout, ReadyWithout, First
  <2> HIDE DEF R
  <2>4. CASE StreamsOff(p, q)
    <3>1. /\ QueuedWithout(p, q) = [r \in Ports |-> IF r \in DevicePorts(p) THEN <<>> ELSE queued[r]]
          /\ ReadyWithout(p, q) = [r \in Ports |-> IF r \in DevicePorts(p) THEN <<>> ELSE R[r]]
      BY <2>3, <2>4 DEF LeftIn
    <3>2. \A r \in Ports : r \notin DevicePorts(p) => R[r] = ready[r]
      BY <1>3, <2>2
    <3>3. QED
      BY <1>1, <1>2, <1>3, <1>5, <2>1, <2>2, <2>3, <2>4, <3>1, <3>2
  <2>5. CASE ~StreamsOff(p, q)
    <3>1. QueuedWithout(p, q) = queued /\ ReadyWithout(p, q) = R
      BY <2>3, <2>5 DEF LeftIn
    <3>2. QED
      BY <1>1, <1>2, <1>5, <2>1, <2>2, <2>3, <2>5, <3>1
  <2>6. QED
    BY <2>4, <2>5
<1>6. QED
  BY <1>4, <1>5

-----------------------------------------------------------------------------
(* From the source to the MFC                                              *)

InputPlace == IF source = "demo" THEN "source" ELSE "sourceDone"

LastOne == port["source"].counter + 1 = NFrames

(* What it does to the ports and the queues when a frame is passed on      *)
InputPassedOn ==
  /\ at[InputPlace] # <<>> /\ ~Ended("source") /\ ~Ended("mfcIn")
  /\ port' \in [Ports -> PortRecord]
  /\ port'["source"].counter = port["source"].counter + 1
  /\ port'["source"].nbufs = port["source"].nbufs - 1 /\ port["source"].nbufs > 0
  /\ port'["source"].limit = port["source"].limit
  /\ port'["source"].state = IF LastOne THEN "end" ELSE IF source = "demo" THEN FuncStateAfter("source") ELSE "busy"
  /\ port'["mfcIn"].counter = port["mfcIn"].counter
  /\ port'["mfcIn"].nbufs = port["mfcIn"].nbufs + 1
  /\ port'["mfcIn"].limit = IF LastOne THEN NFrames ELSE 0
  /\ port'["mfcOut"].counter = port["mfcOut"].counter /\ port'["mfcOut"].nbufs = port["mfcOut"].nbufs
  /\ port'["mfcOut"].limit = port["mfcOut"].limit
  /\ \/ port["mfcIn"].state # "off" /\ port'["mfcIn"].state = port["mfcIn"].state
                                     /\ port'["mfcOut"].state = port["mfcOut"].state
     \/ port["mfcIn"].state = "off" /\ port'["mfcIn"].state = "busy" /\ port'["mfcOut"].state = "busy"
     \/ port["mfcIn"].state = "off" /\ port'["mfcIn"].state \in {"off", "busy"}
                                     /\ port'["mfcOut"].state = port["mfcOut"].state /\ faults' > 0
  /\ port'["file"] = port["file"]
  /\ faults' \in 0 .. MaxFaults /\ faults' >= faults
  /\ stopped' \in {stopped, stopped \/ LastOne} /\ (faults' = 0 => stopped' = (stopped \/ LastOne))
  /\ \A z \in Places :
       \/ Way(at, at', InputPlace, "input", z)
       \/ LastOne /\ z \in {"source", "sourceDone"} /\ at'[z] = <<>>
  /\ queued' \in [Ports -> Seq(Bufs)] /\ ready' \in [Ports -> Seq(Bufs)]
  /\ ready'["file"] = ready["file"]
  /\ content' = IF source = "demo"
                THEN [content EXCEPT ![Head(at["source"])] = port["source"].counter + 1] ELSE content
  /\ pc' = "giveBack" /\ UNCHANGED <<source, pair, event, held, captured, eos, written>>

(* That becomes of the chain when the first pair takes a frame.            *)
LEMMA InputTaken == ChainInv /\ pair = 1 /\ TakeFrame => InputPassedOn
<1> SUFFICES ASSUME ChainInv, pair = 1, TakeFrame PROVE InputPassedOn
  OBVIOUS
<1> DEFINE a == AfterDeq("source", FALSE)
           q == EndPassedOn("source", "mfcIn")
           b == First("source")
           put == Enqueued(q, "mfcIn")
<1>1. /\ Up[pair] = "source" /\ Down[pair] = "mfcIn" /\ "source" \in Ports /\ "mfcIn" \in Ports
      /\ "mfcOut" \in Ports /\ "file" \in Ports
      /\ (IsFunc("source") <=> source = "demo") /\ ~IsFunc("mfcIn") /\ IsFunc("file")
  BY DEF Up, Down, Ports, IsFunc
<1>2. /\ port["source"].state = "ready" /\ ~Ended("mfcIn") /\ ~Ended("source")
      /\ PassOn(q, "mfcIn") /\ pc' = "giveBack"
      /\ UNCHANGED <<source, pair, event, held, captured, eos, written>>
      /\ content' = IF IsFunc("source") THEN [content EXCEPT ![b] = q["source"].counter] ELSE content
      /\ queued' = [QueuedWithout("source", q) EXCEPT !["mfcIn"] = Append(@, b)]
      /\ ready' = ReadyWithout("source", q)
  BY <1>1 DEF TakeFrame, Ended
<1>3. /\ port \in [Ports -> PortRecord] /\ port["source"] \in PortRecord /\ port["source"].nbufs > 0
      /\ IF source = "demo" THEN queued["source"] # <<>> /\ ready["source"] = <<>> ELSE ready["source"] # <<>>
  BY <1>1, <1>2, ReadyPort
<1>4. /\ port["source"].limit = NFrames /\ port["source"].counter < NFrames /\ NFrames \in Nat \ {0}
      /\ port["mfcIn"].limit = 0
      /\ port["mfcIn"].counter + port["mfcIn"].nbufs = port["source"].counter
  BY <1>2, ChainAssumption DEF ChainInv, Limits
<1>5. /\ a \in PortRecord /\ a.counter = port["source"].counter + 1 /\ a.nbufs = port["source"].nbufs - 1
      /\ a.limit = port["source"].limit
      /\ a.state = IF LastOne THEN "end" ELSE IF source = "demo" THEN FuncStateAfter("source") ELSE "busy"
  <2>1. (port["source"].limit # 0 /\ port["source"].limit <= port["source"].counter + 1) <=> LastOne
    BY <1>3, <1>4 DEF LastOne, PortRecord
  <2>2. QED
    BY <1>1, <1>3, <2>1, AfterDequeuing
<1>6. a.state = "end" <=> LastOne
  BY <1>5 DEF FuncStateAfter
<1> HIDE DEF a
<1>7. /\ q \in [Ports -> PortRecord] /\ q["source"] = a
      /\ q["mfcIn"].counter = port["mfcIn"].counter /\ q["mfcIn"].nbufs = port["mfcIn"].nbufs
      /\ q["mfcIn"].state = port["mfcIn"].state
      /\ q["mfcIn"].limit = IF LastOne THEN NFrames ELSE 0
      /\ q["mfcOut"] = port["mfcOut"] /\ q["file"] = port["file"]
  <2> DEFINE w == [port EXCEPT !["source"] = a]
  <2>1. /\ w \in [Ports -> PortRecord] /\ w["source"] = a /\ \A r \in Ports \ {"source"} : w[r] = port[r]
    BY <1>1, <1>3, <1>5
  <2>2. LastInput(port["mfcIn"]) = port["source"].counter + 1 /\ LastInput(port["mfcIn"]) \in Nat
    BY <1>1, <1>3, <1>4 DEF LastInput, PortRecord
  <2>3. q = IF w["source"].state = "end" /\ port["mfcIn"].limit = 0
            THEN [w EXCEPT !["mfcIn"].limit = LastInput(port["mfcIn"])] ELSE w
    BY DEF EndPassedOn, a
  <2> HIDE DEF w, q
  <2>4. CASE LastOne
    <3>1. q = [w EXCEPT !["mfcIn"].limit = NFrames] /\ NFrames \in Nat
      BY <1>4, <1>6, <2>1, <2>2, <2>3, <2>4 DEF LastOne
    <3>2. QED
      BY <1>1, <2>1, <2>4, <3>1 DEF PortRecord, Ports
  <2>5. CASE ~LastOne
    BY <1>1, <1>4, <1>6, <2>1, <2>3, <2>5 DEF Ports
  <2>6. QED
    BY <2>4, <2>5
<1> HIDE DEF q
<1>8. /\ put \in [Ports -> PortRecord] /\ AfterEnq(q, "mfcIn") \in [Ports -> PortRecord]
      /\ \A r \in Ports :
           /\ put[r].counter = q[r].counter /\ put[r].limit = q[r].limit /\ put[r].state = q[r].state
           /\ put[r].nbufs = q[r].nbufs + (IF r = "mfcIn" THEN 1 ELSE 0)
           /\ AfterEnq(q, "mfcIn")[r].counter = q[r].counter /\ AfterEnq(q, "mfcIn")[r].limit = q[r].limit
           /\ AfterEnq(q, "mfcIn")[r].nbufs = q[r].nbufs + (IF r = "mfcIn" THEN 1 ELSE 0)
           /\ AfterEnq(q, "mfcIn")[r].state =
                IF q["mfcIn"].state = "off" /\ r \in {"mfcIn", "mfcOut"} THEN "busy" ELSE q[r].state
  BY <1>1, <1>7, AfterEnqueuing
<1>9. LastIsIn(put["mfcIn"]) <=> LastOne
  <2>1. /\ put["mfcIn"].counter + put["mfcIn"].nbufs = port["source"].counter + 1
        /\ put["mfcIn"].limit = IF LastOne THEN NFrames ELSE 0
    <3>1. port["mfcIn"].counter \in Nat /\ port["mfcIn"].nbufs \in Nat
      BY <1>1, <1>3, PortFields
    <3>2. /\ put["mfcIn"].counter = port["mfcIn"].counter /\ put["mfcIn"].nbufs = port["mfcIn"].nbufs + 1
          /\ put["mfcIn"].limit = IF LastOne THEN NFrames ELSE 0
      BY <1>1, <1>7, <1>8
    <3>3. QED
      BY <1>4, <3>1, <3>2
  <2>2. QED
    BY <1>4, <2>1 DEF LastIsIn, LastOne
<1> HIDE DEF put
<1>10. /\ port' = AfterEnq(q, "mfcIn")
          \/ /\ q["mfcIn"].state = "off" /\ faults' > 0
             /\ port' \in {put, [put EXCEPT !["mfcIn"].state = "busy"]}
       /\ faults' \in 0 .. MaxFaults /\ faults' >= faults
       /\ stopped' \in {stopped, stopped \/ LastOne} /\ (faults' = 0 => stopped' = (stopped \/ LastOne))
  <2>1. /\ port' = AfterEnq(q, "mfcIn")
           \/ /\ q["mfcIn"].state = "off" /\ Fault
              /\ port' \in {put, [put EXCEPT !["mfcIn"].state = "busy"]}
        /\ \/ UNCHANGED faults /\ stopped' = (stopped \/ LastOne)
           \/ Fault /\ stopped' \in {stopped, stopped \/ LastOne}
    BY <1>2, <1>9 DEF PassOn, put
  <2>2. faults \in 0 .. MaxFaults /\ MaxFaults \in Nat
    BY ChainAssumption DEF ChainInv, TypeOK
  <2>3. Fault => faults' > 0 /\ faults' \in 0 .. MaxFaults /\ faults' >= faults
    BY <2>2 DEF Fault
  <2>4. QED
    BY <2>1, <2>2, <2>3
<1>11. /\ port' \in [Ports -> PortRecord]
       /\ \A r \in Ports :
            /\ port'[r].counter = q[r].counter /\ port'[r].limit = q[r].limit
            /\ port'[r].nbufs = q[r].nbufs + (IF r = "mfcIn" THEN 1 ELSE 0)
            /\ r \notin {"mfcIn", "mfcOut"} => port'[r].state = q[r].state
       /\ \/ q["mfcIn"].state # "off" /\ port'["mfcIn"].state = q["mfcIn"].state
                                      /\ port'["mfcOut"].state = q["mfcOut"].state
          \/ q["mfcIn"].state = "off" /\ port'["mfcIn"].state = "busy" /\ port'["mfcOut"].state = "busy"
          \/ q["mfcIn"].state = "off" /\ port'["mfcIn"].state \in {"off", "busy"}
                                      /\ port'["mfcOut"].state = q["mfcOut"].state /\ faults' > 0
  <2>1. CASE port' = AfterEnq(q, "mfcIn")
    BY <1>1, <1>8, <2>1
  <2>2. CASE q["mfcIn"].state = "off" /\ faults' > 0 /\ port' = put
    BY <1>1, <1>8, <2>2
  <2>3. CASE q["mfcIn"].state = "off" /\ faults' > 0 /\ port' = [put EXCEPT !["mfcIn"].state = "busy"]
    BY <1>1, <1>8, <2>3 DEF PortRecord, States
  <2>4. QED
    BY <1>10, <2>1, <2>2, <2>3
<1>12. port'["file"] = port["file"]
  <2>1. port'["file"] \in PortRecord /\ port["file"] \in PortRecord
    BY <1>1, <1>3, <1>11
  <2>2. /\ port'["file"].counter = port["file"].counter /\ port'["file"].limit = port["file"].limit
        /\ port'["file"].nbufs = port["file"].nbufs /\ port'["file"].state = port["file"].state
    BY <1>1, <1>7, <1>11, <2>1 DEF PortRecord
  <2>3. QED
    BY <2>1, <2>2 DEF PortRecord
<1>13. StreamsOff("source", q) <=> source # "demo" /\ LastOne
  BY <1>1, <1>6, <1>7 DEF StreamsOff
<1>14. b = Head(at[InputPlace]) /\ at[InputPlace] # <<>> /\ b \in Bufs
  BY <1>1, <1>2, WithoutFirst, AtPlaces DEF InputPlace
<1>15. queued' \in [Ports -> Seq(Bufs)] /\ ready' \in [Ports -> Seq(Bufs)] /\ ready'["file"] = ready["file"]
       /\ \A z \in Places :
            \/ Way(at, at', InputPlace, "input", z)
            \/ LastOne /\ z \in {"source", "sourceDone"} /\ at'[z] = <<>>
  <2> DEFINE Q == QueuedWithout("source", q)
  <2>1. Q \in [Ports -> Seq(Bufs)] /\ ready' \in [Ports -> Seq(Bufs)]
    BY <1>1, <1>2, WithoutFirst
  <2>2. queued' = [Q EXCEPT !["mfcIn"] = Append(Q["mfcIn"], b)] /\ held' = held
    BY <1>2
  <2>3. /\ source = "demo" =>
             /\ Q["source"] = Tail(queued["source"]) /\ Q["mfcIn"] = queued["mfcIn"]
             /\ Q["mfcOut"] = queued["mfcOut"] /\ Q["file"] = queued["file"] /\ ready' = ready
        /\ source # "demo" /\ ~LastOne =>
             /\ Q = queued /\ ready'["source"] = Tail(ready["source"]) /\ ready'["mfcIn"] = ready["mfcIn"]
             /\ ready'["mfcOut"] = ready["mfcOut"] /\ ready'["file"] = ready["file"]
        /\ source # "demo" /\ LastOne =>
             /\ Q["source"] = <<>> /\ Q["mfcIn"] = queued["mfcIn"]
             /\ Q["mfcOut"] = queued["mfcOut"] /\ Q["file"] = queued["file"]
             /\ ready'["source"] = <<>> /\ ready'["mfcIn"] = ready["mfcIn"]
             /\ ready'["mfcOut"] = ready["mfcOut"] /\ ready'["file"] = ready["file"]
    BY <1>1, <1>2, <1>13, WithoutFirst DEF DevicePorts
  <2> HIDE DEF Q
  <2>4. Append(Q["mfcIn"], b) \in Seq(Bufs)
    BY <1>1, <1>14, <2>1, Put
  <2>5. /\ queued' \in [Ports -> Seq(Bufs)] /\ queued'["mfcIn"] = Append(Q["mfcIn"], b)
        /\ queued'["source"] = Q["source"] /\ queued'["mfcOut"] = Q["mfcOut"] /\ queued'["file"] = Q["file"]
    BY <1>1, <2>1, <2>2, <2>4
  <2>6. \A z \in Places :
          \/ Way(at, at', InputPlace, "input", z)
          \/ LastOne /\ z \in {"source", "sourceDone"} /\ at'[z] = <<>>
    <3>1. CASE source = "demo"
      BY <1>14, <2>2, <2>3, <2>5, <3>1, AtPlaces, ZenonT(60) DEF InputPlace, Way, Places
    <3>2. CASE source # "demo" /\ ~LastOne
      BY <1>14, <2>2, <2>3, <2>5, <3>2, AtPlaces DEF InputPlace, Way, Places
    <3>3. CASE source # "demo" /\ LastOne
      BY <1>14, <2>2, <2>3, <2>5, <3>3, AtPlaces, ZenonT(60) DEF InputPlace, Way, Places
    <3>4. QED
      BY <3>1, <3>2, <3>3
  <2>7. QED
    BY <2>1, <2>3, <2>5, <2>6
<1>16. content' = IF source = "demo"
                  THEN [content EXCEPT ![Head(at["source"])] = port["source"].counter + 1] ELSE content
  BY <1>1, <1>2, <1>5, <1>7, <1>14 DEF InputPlace
<1>17. /\ port'["source"].counter = port["source"].counter + 1
       /\ port'["source"].nbufs = port["source"].nbufs - 1
       /\ port'["source"].limit = port["source"].limit
       /\ port'["source"].state = IF LastOne THEN "end" ELSE IF source = "demo" THEN FuncStateAfter("source") ELSE "busy"
       /\ port'["mfcIn"].counter = port["mfcIn"].counter
       /\ port'["mfcIn"].nbufs = port["mfcIn"].nbufs + 1
       /\ port'["mfcIn"].limit = IF LastOne THEN NFrames ELSE 0
       /\ port'["mfcOut"].counter = port["mfcOut"].counter
       /\ port'["mfcOut"].nbufs = port["mfcOut"].nbufs
       /\ port'["mfcOut"].limit = port["mfcOut"].limit
  <2>1. \A r \in Ports : port[r].nbufs \in Nat /\ q[r].nbufs \in Nat
    BY <1>3, <1>7, PortFields
  <2>2. port["source"].nbufs - 1 \in Nat
    BY <1>1, <1>3, <2>1
  <2>3. \A r \in Ports \ {"mfcIn"} : port'[r].nbufs = q[r].nbufs
    BY <1>11, <2>1
  <2>4. port'["mfcIn"].nbufs = q["mfcIn"].nbufs + 1
    BY <1>1, <1>11
  <2>5. QED
    BY <1>1, <1>5, <1>7, <1>11, <2>1, <2>2, <2>3, <2>4
<1>18. QED
  BY <1>2, <1>3, <1>7, <1>10, <1>11, <1>12, <1>14, <1>15, <1>16, <1>17 DEF InputPassedOn

(* A frame passed on to the MFC keeps the invariant.                       *)
LEMMA InputKeeps == ChainInv /\ pair = 1 /\ TakeFrame => ChainInv'
<1> SUFFICES ASSUME ChainInv, InputPassedOn PROVE ChainInv'
  BY InputTaken
<1> DEFINE x == InputPlace
           c == port["source"].counter
<1>1. /\ "source" \in Ports /\ "mfcIn" \in Ports /\ "mfcOut" \in Ports /\ "file" \in Ports
      /\ \A p \in Ports : p \in {"source", "mfcIn", "mfcOut", "file"}
      /\ (IsFunc("source") <=> source = "demo") /\ ~IsFunc("mfcIn") /\ ~IsFunc("mfcOut") /\ IsFunc("file")
      /\ \A p : IsFunc(p)' <=> IsFunc(p)
  BY DEF Ports, IsFunc, InputPassedOn
<1>2. /\ at \in [Places -> Seq(Bufs)] /\ port \in [Ports -> PortRecord]
      /\ x \in InPlaces /\ "input" \in InPlaces /\ x # "input" /\ x \in Places /\ at[x] # <<>>
      /\ \A z \in InPlaces \cup OutPlaces : z \in Places
  BY PlaceTypes DEF ChainInv, InputPassedOn, InputPlace, Places, InPlaces, OutPlaces, TypeOK, PortRecord
<1>3. /\ port["source"].state # "end" /\ port["mfcIn"].state # "end"
      /\ port["source"].limit = NFrames /\ c < NFrames /\ c \in Nat /\ NFrames \in Nat \ {0}
      /\ port["mfcIn"].limit = 0 /\ port["mfcIn"].counter + port["mfcIn"].nbufs = c
      /\ port["mfcIn"].counter \in Nat /\ port["mfcIn"].nbufs \in Nat
  BY <1>1, <1>2, ChainAssumption, PortFields DEF InputPassedOn, Ended, ChainInv, Limits
<1>4. \A z \in Places : Way(at, at', x, "input", z) \/ (LastOne /\ z \in {"source", "sourceDone"} /\ at'[z] = <<>>)
  BY DEF InputPassedOn
<1>5. /\ at'["input"] = Append(at["input"], Head(at[x])) /\ at'["held"] = at["held"]
      /\ at'["inputDone"] = at["inputDone"] /\ at'["output"] = at["output"]
      /\ at'["outputDone"] = at["outputDone"] /\ at'["file"] = at["file"]
      /\ ~LastOne => /\ at'[x] = Tail(at[x])
                     /\ \A z \in {"source", "sourceDone"} : z # x => at'[z] = at[z]
  BY <1>4 DEF Way, Places, InputPlace
<1>6. /\ Head(at[x]) \in Bufs /\ Head(at[x]) = at[x][1] /\ 1 \in DOMAIN at[x] /\ Head(at[x]) \in Items(at[x])
      /\ Len(Tail(at[x])) = Len(at[x]) - 1 /\ Len(at[x]) \in Nat
      /\ \A k \in DOMAIN Tail(at[x]) : k \in Nat /\ k + 1 \in DOMAIN at[x] /\ Tail(at[x])[k] = at[x][k + 1]
  BY <1>2, Taken
<1>7. /\ Len(at'["input"]) = Len(at["input"]) + 1 /\ Len(at["input"]) \in Nat
      /\ \A k \in DOMAIN at'["input"] :
           \/ k \in DOMAIN at["input"] /\ at'["input"][k] = at["input"][k]
           \/ k = Len(at["input"]) + 1 /\ at'["input"][k] = Head(at[x])
  BY <1>2, <1>5, <1>6, Put, SMTT(30)
<1>8. /\ port'["source"].counter = c + 1 /\ port'["source"].nbufs = port["source"].nbufs - 1
      /\ port'["source"].limit = NFrames
      /\ port'["source"].state = IF LastOne THEN "end" ELSE IF source = "demo" THEN FuncStateAfter("source") ELSE "busy"
      /\ port'["mfcIn"].counter = port["mfcIn"].counter /\ port'["mfcIn"].nbufs = port["mfcIn"].nbufs + 1
      /\ port'["mfcIn"].limit = IF LastOne THEN NFrames ELSE 0
      /\ port'["mfcOut"].counter = port["mfcOut"].counter /\ port'["mfcOut"].nbufs = port["mfcOut"].nbufs
      /\ port'["mfcOut"].limit = port["mfcOut"].limit
      /\ port'["file"] = port["file"] /\ port' \in [Ports -> PortRecord]
  BY <1>3 DEF InputPassedOn
<1>9. UNCHANGED <<source, pair, event, held, captured, eos, written>> /\ pc' = "giveBack"
  BY DEF InputPassedOn
<1>10. /\ \/ port["mfcIn"].state # "off" /\ port'["mfcIn"].state = port["mfcIn"].state
                                        /\ port'["mfcOut"].state = port["mfcOut"].state
          \/ port["mfcIn"].state = "off" /\ port'["mfcIn"].state = "busy" /\ port'["mfcOut"].state = "busy"
          \/ port["mfcIn"].state = "off" /\ port'["mfcIn"].state \in {"off", "busy"}
                                        /\ port'["mfcOut"].state = port["mfcOut"].state /\ faults' > 0
       /\ port["mfcIn"].state = "off" => port["mfcOut"].state = "off"
  BY DEF InputPassedOn, ChainInv, Streams
<1>11. Ended("source")' <=> LastOne
  BY <1>8 DEF Ended, FuncStateAfter
<1>12. ~Ended("mfcIn")' /\ (Ended("mfcOut")' <=> Ended("mfcOut")) /\ (Ended("file")' <=> Ended("file"))
  BY <1>3, <1>8, <1>10 DEF Ended
<1>13. content' = IF source = "demo" THEN [content EXCEPT ![Head(at[x])] = c + 1] ELSE content
  BY DEF InputPassedOn, InputPlace
<1> HIDE DEF x, c
<1>14. TypeOK'
  <2>1. ControlTypes'
    BY <1>9 DEF InputPassedOn, ControlTypes, ChainInv, TypeOK
  <2>2. PortTypes'
    BY <1>8 DEF PortTypes
  <2>3. QueueTypes'
    BY <1>9 DEF InputPassedOn, QueueTypes, ChainInv, TypeOK
  <2>4. FrameTypes'
    <3>1. content \in [Bufs -> Nat] /\ c + 1 \in Nat
      BY <1>3 DEF ChainInv, TypeOK
    <3>2. content' \in [Bufs -> Nat]
      BY <1>6, <1>13, <3>1
    <3>3. QED
      BY <1>9, <3>2 DEF FrameTypes, ChainInv, TypeOK
  <2>5. QED
    BY <2>1, <2>2, <2>3, <2>4, TypeParts DEF TypeOK, ControlTypes, PortTypes, PortRecord, QueueTypes, FrameTypes
<1>15. PairsApart'
  <2>1. Apart(at) /\ OfTheirPair(at) /\ DOMAIN at' = Places
    BY AtPlaces DEF ChainInv, PairsApart
  <2>2. /\ Apart(at') /\ OfTheirPair(at')
        /\ (\A z \in InPlaces : Way(at, at', x, "input", z)) /\ AllIn(at) => AllIn(at')
        /\ (\A z \in OutPlaces : Way(at, at', x, "input", z)) /\ AllOut(at) => AllOut(at')
    <3> DEFINE P == InPlaces
    <3>1. P \in {InPlaces, OutPlaces} /\ x \in P /\ "input" \in P
      BY <1>2
    <3>2. \A z \in Places : Way(at, at', x, "input", z) \/ (at'[z] = at[z] /\ z # x) \/ at'[z] = <<>>
      BY <1>4
    <3> HIDE DEF P
    <3>3. QED
      BY <1>2, <2>1, <3>1, <3>2, Moving
  <2>3. ~LastOne => AllIn(at')
    BY <1>2, <1>3, <1>4, <2>2 DEF ChainInv, PairsApart, Ended
  <2>4. ~Ended("mfcOut")' /\ ~Ended("file")' => AllOut(at')
    BY <1>2, <1>4, <1>12, <2>2 DEF ChainInv, PairsApart, OutPlaces
  <2>5. QED
    BY <1>11, <2>2, <2>3, <2>4 DEF PairsApart, Apart, OfTheirPair, AllIn, AllOut
<1>16. PortStates'
  <2>1. source = "demo" =>
          /\ ready'["source"] = <<>> /\ port'["source"].state # "busy"
          /\ port'["source"].state \in {"busy", "ready"} <=> queued'["source"] # <<>> /\ ~Ended("source")'
    <3> SUFFICES ASSUME source = "demo"
                 PROVE  /\ ready'["source"] = <<>> /\ port'["source"].state # "busy"
                        /\ port'["source"].state \in {"busy", "ready"}
                             <=> queued'["source"] # <<>> /\ ~Ended("source")'
      OBVIOUS
    <3>1. x = "source" /\ ready["source"] = <<>> /\ ~HasFd("source")
      BY <1>1 DEF x, InputPlace, ChainInv, PortStates, HasFd
    <3>2. ready'["source"] = <<>>
      BY <1>4, <3>1, AtPlaces DEF Way, Places
    <3>3. CASE LastOne
      BY <1>8, <1>11, <3>2, <3>3
    <3>4. CASE ~LastOne
      <4>1. queued'["source"] = Tail(queued["source"]) /\ Len(Tail(queued["source"])) = Len(queued["source"]) - 1
            /\ Tail(queued["source"]) \in Seq(Bufs) /\ Len(queued["source"]) \in Nat
        BY <1>2, <1>5, <1>6, <3>1, <3>4, AtPlaces, Taken
      <4>2. queued'["source"] # <<>> <=> Len(queued["source"]) # 1
        BY <1>1, <3>1, <4>1, <1>2, AtPlaces, OnlyOne
      <4>3. port'["source"].state = IF Len(queued["source"]) = 1 THEN "off" ELSE "ready"
        BY <1>8, <3>1, <3>4 DEF FuncStateAfter
      <4>4. QED
        BY <1>11, <3>2, <3>4, <4>2, <4>3
    <3>5. QED
      BY <3>3, <3>4
  <2>2. source # "demo" => port'["source"].state \in {"busy", "end"}
    BY <1>8
  <2>3. /\ ready'["file"] = <<>>
        /\ port'["file"].state \in {"busy", "ready"} <=> queued'["file"] # <<>> /\ ~Ended("file")'
    BY <1>1, <1>5, <1>8, <1>12, AtPlaces DEF InputPassedOn, ChainInv, PortStates
  <2>4. /\ port'["mfcIn"].state = "ready" => ready'["mfcIn"] # <<>>
        /\ port'["mfcOut"].state = "ready" => ready'["mfcOut"] # <<>>
    BY <1>1, <1>5, <1>10, AtPlaces DEF ChainInv, PortStates
  <2>5. QED
    BY <1>1, <1>9, <2>1, <2>2, <2>3, <2>4 DEF PortStates
<1>17. Counts'
  <2>1. /\ Len(at["source"]) \in Nat /\ Len(at["sourceDone"]) \in Nat /\ Len(at["inputDone"]) \in Nat
        /\ Len(at["held"]) \in Nat
    BY <1>2, Held DEF Places
  <2>2. ~Ended("source")' => port'["source"].nbufs = Len(at'["source"]) + Len(at'["sourceDone"])
    <3> SUFFICES ASSUME ~LastOne PROVE port'["source"].nbufs = Len(at'["source"]) + Len(at'["sourceDone"])
      BY <1>11
    <3>1. port["source"].nbufs = Len(at["source"]) + Len(at["sourceDone"])
      BY <1>3, AtPlaces DEF ChainInv, Counts, Ended
    <3>2. CASE source = "demo"
      <4>1. Len(at'["source"]) = Len(at["source"]) - 1 /\ at'["sourceDone"] = at["sourceDone"]
        BY <1>5, <1>6, <3>2 DEF x, InputPlace
      <4>2. QED
        BY <1>8, <2>1, <3>1, <4>1
    <3>3. CASE source # "demo"
      <4>1. Len(at'["sourceDone"]) = Len(at["sourceDone"]) - 1 /\ at'["source"] = at["source"]
        BY <1>5, <1>6, <3>3 DEF x, InputPlace
      <4>2. QED
        BY <1>8, <2>1, <3>1, <4>1
    <3>4. QED
      BY <3>2, <3>3
  <2>3. port'["mfcIn"].nbufs = Len(at'["input"]) + Len(at'["inputDone"]) + Len(at'["held"])
    <3>1. port["mfcIn"].nbufs = Len(at["input"]) + Len(at["inputDone"]) + Len(at["held"])
      BY <1>3, AtPlaces DEF ChainInv, Counts, Ended
    <3>2. Len(at'["input"]) = Len(at["input"]) + 1 /\ at'["inputDone"] = at["inputDone"]
          /\ at'["held"] = at["held"]
      BY <1>5, <1>7
    <3>3. port'["mfcIn"].nbufs = (Len(at["input"]) + Len(at["inputDone"]) + Len(at["held"])) + 1
      BY <1>8, <3>1
    <3>4. \A a, b, d \in Nat : (a + b + d) + 1 = (a + 1) + b + d
      OBVIOUS
    <3>5. (Len(at["input"]) + Len(at["inputDone"]) + Len(at["held"])) + 1
            = (Len(at["input"]) + 1) + Len(at["inputDone"]) + Len(at["held"])
      BY <1>7, <2>1, <3>4
    <3>6. QED
      BY <3>2, <3>3, <3>5
  <2>4. /\ ~Ended("mfcOut")' => port'["mfcOut"].nbufs = Len(queued'["mfcOut"]) + Len(ready'["mfcOut"])
        /\ ~Ended("file")' => port'["file"].nbufs = Len(queued'["file"])
    BY <1>5, <1>8, <1>12, AtPlaces DEF ChainInv, Counts
  <2>5. QED
    BY <2>2, <2>3, <2>4, AtPlaces DEF Counts
<1>18. Limits'
  <2>1. /\ port'["source"].limit = NFrames /\ port'["mfcOut"].limit = 0 /\ port'["file"].limit = 0
        /\ port'["mfcIn"].limit = IF Ended("source")' THEN NFrames ELSE 0
    BY <1>8, <1>11 DEF ChainInv, Limits
  <2>2. port'["mfcIn"].counter + port'["mfcIn"].nbufs = port'["source"].counter
    BY <1>3, <1>8
  <2>3. IF Ended("source")' THEN port'["source"].counter = NFrames ELSE port'["source"].counter < NFrames
    BY <1>3, <1>8, <1>11 DEF LastOne, c
  <2>4. Ended("file")' => faults' > 0
    <3>1. faults \in Nat /\ faults' \in Nat /\ faults' >= faults
      BY ChainAssumption DEF InputPassedOn, ChainInv, TypeOK
    <3>2. QED
      BY <1>12, <3>1 DEF ChainInv, Limits
  <2>5. QED
    BY <1>12, <2>1, <2>2, <2>3, <2>4 DEF Limits
<1>19. Streams'
  <2>1. /\ faults \in Nat /\ faults' \in Nat /\ faults' >= faults
        /\ stopped' \in {stopped, stopped \/ LastOne} /\ (faults' = 0 => stopped' = (stopped \/ LastOne))
    BY ChainAssumption DEF InputPassedOn, ChainInv, TypeOK
  <2>2. ~stopped
    BY <1>3 DEF ChainInv, Streams, Ended
  <2>3. (stopped' => Ended("source")') /\ (Ended("source")' /\ faults' = 0 => stopped')
    BY <1>11, <2>1, <2>2
  <2>4. /\ port'["mfcOut"].state # "off" => port'["mfcIn"].state # "off"
        /\ faults' = 0 => port'["mfcIn"].state # "off" /\ port'["mfcOut"].state # "off"
        /\ port["mfcOut"].state # "off" => port'["mfcOut"].state # "off"
    BY <1>10, <2>1 DEF ChainInv, Streams
  <2>5. QED
    BY <1>9, <1>12, <2>3, <2>4 DEF ChainInv, Streams
<1>20. Line'
  <2>1. /\ content \in [Bufs -> Nat]
        /\ \A z \in Places : \A k \in DOMAIN at[z] : at[z][k] \in Items(at[z]) /\ at[z][k] \in Bufs /\ k \in Nat
    <3>1. content \in [Bufs -> Nat]
      BY DEF ChainInv, TypeOK
    <3>2. QED
      BY <1>2, <3>1, Held
  <2>2. \A z \in Places : z # x => \A k \in DOMAIN at[z] : content'[at[z][k]] = content[at[z][k]]
    <3> SUFFICES ASSUME NEW z \in Places, z # x, NEW k \in DOMAIN at[z]
                 PROVE  content'[at[z][k]] = content[at[z][k]]
      OBVIOUS
    <3>1. at[z][k] # Head(at[x])
      BY <1>2, <1>6, <2>1, AtPlaces DEF ChainInv, PairsApart, Apart
    <3>2. QED
      BY <1>13, <2>1, <3>1
  <2>3. \A k \in DOMAIN written' : written'[k] = k
    BY <1>9 DEF ChainInv, Line
  <2>4. ~Ended("file")' =>
          /\ Len(written') + Len(queued'["file"]) = port'["mfcOut"].counter
          /\ \A k \in DOMAIN queued'["file"] : content'[queued'["file"][k]] = Len(written') + k
    <3>1. "file" \in Places /\ "file" # x
      BY DEF Places, x, InputPlace
    <3>2. \A k \in DOMAIN at["file"] : content'[at["file"][k]] = content[at["file"][k]]
      BY <2>2, <3>1
    <3>3. at'["file"] = at["file"] /\ written' = written /\ port'["mfcOut"].counter = port["mfcOut"].counter
      BY <1>5, <1>8, <1>9
    <3>4. QED
      BY <1>12, <3>2, <3>3, AtPlaces DEF ChainInv, Line
  <2>5. content'[Head(at[x])] = c + 1 \/ (source = "camera" /\ content'[Head(at[x])] = content[Head(at[x])])
    <3>1. source \in {"demo", "camera"}
      BY ChainAssumption DEF ChainInv, TypeOK
    <3>2. CASE source = "demo"
      BY <1>6, <1>13, <2>1, <3>2
    <3>3. CASE source = "camera"
      BY <1>13, <3>3
    <3>4. QED
      BY <3>1, <3>2, <3>3
  <2>6. content'[Head(at[x])] = c + 1
    <3>1. CASE source = "camera"
      <4>1. x = "sourceDone"
        BY <3>1 DEF x, InputPlace
      <4>2. content[at[x][1]] = c + 1
        BY <1>3, <1>6, <3>1, <4>1, AtPlaces DEF ChainInv, Line, Ended, c
      <4>3. QED
        BY <1>6, <2>5, <4>2
    <3>2. QED
      BY <2>5, <3>1
  <2>7. ASSUME ~Ended("mfcOut")'
        PROVE  /\ \A k \in DOMAIN ready'["mfcOut"] :
                    content'[ready'["mfcOut"][k]] = port'["mfcOut"].counter + k
               /\ \A k \in DOMAIN queued'["mfcIn"] :
                    content'[queued'["mfcIn"][k]] = port'["mfcOut"].counter + Len(ready'["mfcOut"]) + k
               /\ port'["source"].counter =
                    port'["mfcOut"].counter + Len(ready'["mfcOut"]) + Len(queued'["mfcIn"])
    <3>1. /\ "outputDone" \in Places /\ "outputDone" # x /\ "input" \in Places /\ "input" # x
          /\ Len(at["outputDone"]) \in Nat /\ port["mfcOut"].counter \in Nat /\ ~Ended("mfcOut")
      BY <1>1, <1>2, <1>12, <2>7, Held, PortFields DEF Places, x, InputPlace
    <3>2. \A k \in DOMAIN ready'["mfcOut"] : content'[ready'["mfcOut"][k]] = port'["mfcOut"].counter + k
      <4>1. \A k \in DOMAIN at["outputDone"] : content'[at["outputDone"][k]] = content[at["outputDone"][k]]
        BY <2>2, <3>1
      <4>2. at'["outputDone"] = at["outputDone"] /\ port'["mfcOut"].counter = port["mfcOut"].counter
        BY <1>5, <1>8
      <4>3. QED
        BY <3>1, <4>1, <4>2, AtPlaces DEF ChainInv, Line
    <3>3. /\ c = port["mfcOut"].counter + Len(at["outputDone"]) + Len(at["input"])
          /\ \A k \in DOMAIN at["input"] :
               content[at["input"][k]] = port["mfcOut"].counter + Len(at["outputDone"]) + k
      BY <3>1, AtPlaces DEF ChainInv, Line, c
    <3>4. \A k \in DOMAIN at'["input"] :
            content'[at'["input"][k]] = port["mfcOut"].counter + Len(at["outputDone"]) + k
      <4> TAKE k \in DOMAIN at'["input"]
      <4>1. CASE k \in DOMAIN at["input"] /\ at'["input"][k] = at["input"][k]
        BY <2>2, <3>1, <3>3, <4>1
      <4>2. CASE k = Len(at["input"]) + 1 /\ at'["input"][k] = Head(at[x])
        <5>1. content'[at'["input"][k]] = c + 1
          BY <2>6, <4>2
        <5>2. Len(at["input"]) \in Nat /\ Len(at["outputDone"]) \in Nat /\ port["mfcOut"].counter \in Nat
          BY <1>2, <3>1
        <5>3. c = port["mfcOut"].counter + Len(at["outputDone"]) + Len(at["input"])
          BY <3>3
        <5>4. QED
          BY <4>2, <5>1, <5>2, <5>3, SMTT(30)
      <4>3. QED
        BY <1>7, <4>1, <4>2
    <3>5. port'["source"].counter = port["mfcOut"].counter + Len(at["outputDone"]) + Len(at'["input"])
      BY <1>7, <1>8, <3>1, <3>3, SMTT(30)
    <3>6. QED
      BY <1>5, <1>8, <3>2, <3>4, <3>5, AtPlaces
  <2>8. ASSUME source' = "camera", ~Ended("source")'
        PROVE  /\ captured' = port'["source"].counter + Len(ready'["source"])
               /\ \A k \in DOMAIN ready'["source"] :
                    content'[ready'["source"][k]] = port'["source"].counter + k
    <3>1. x = "sourceDone" /\ source = "camera" /\ ~LastOne /\ content' = content /\ captured' = captured
      BY <1>9, <1>11, <1>13, <2>8 DEF x, InputPlace
    <3>2. at'[x] = Tail(at[x])
      BY <1>5, <3>1
    <3>3. captured = c + Len(at[x]) /\ \A k \in DOMAIN at[x] : content[at[x][k]] = c + k
      BY <1>3, <3>1, AtPlaces DEF ChainInv, Line, Ended, c
    <3>4. captured = (c + 1) + Len(at'[x])
      <4>1. Len(at'[x]) = Len(at[x]) - 1 /\ Len(at[x]) \in Nat /\ c \in Nat
        BY <1>3, <1>6, <3>2 DEF c
      <4> \A a, b \in Nat : a + b = (a + 1) + (b - 1)
        OBVIOUS
      <4>2. QED
        BY <3>3, <4>1
    <3>5. \A k \in DOMAIN at'[x] : content[at'[x][k]] = (c + 1) + k
      <4> TAKE k \in DOMAIN at'[x]
      <4>1. k \in Nat /\ content[at[x][k + 1]] = c + (k + 1) /\ at'[x][k] = at[x][k + 1]
        BY <1>6, <3>2, <3>3
      <4>2. QED
        BY <1>3, <4>1
    <3>6. QED
      BY <1>8, <3>1, <3>4, <3>5, AtPlaces
  <2>9. QED
    BY <2>3, <2>4, <2>7, <2>8 DEF Line
<1>21. Endings'
  BY <1>9 DEF Endings
<1>22. QED
  BY <1>14, <1>15, <1>16, <1>17, <1>18, <1>19, <1>20, <1>21 DEF ChainInv

-----------------------------------------------------------------------------
(* From the MFC to the file                                                *)

(* What it does to the ports and the queues when an encoded frame is       *)
(* passed on, or is dropped because the file has ended                     *)
OutputPassedOn ==
  /\ at["outputDone"] # <<>> /\ port["mfcOut"].state = "ready" /\ ~Ended("mfcOut")
  /\ port' \in [Ports -> PortRecord]
  /\ port'["source"] = port["source"] /\ port'["mfcIn"] = port["mfcIn"]
  /\ port'["mfcOut"].counter = port["mfcOut"].counter + 1
  /\ port'["mfcOut"].nbufs = port["mfcOut"].nbufs - 1 /\ port["mfcOut"].nbufs > 0
  /\ port'["mfcOut"].limit = 0 /\ port'["mfcOut"].state = "busy"
  /\ port'["file"].limit = 0
  /\ Ended("file") => port'["file"] = port["file"]
  /\ ~Ended("file") =>
       /\ port'["file"].nbufs = port["file"].nbufs + 1
       /\ port'["file"].state = IF port["file"].state = "off" THEN "busy" ELSE port["file"].state
  /\ \A z \in Places :
       \/ Way(at, at', "outputDone", "file", z)
       \/ Ended("file") /\ z = "file" /\ at'[z] = at[z]
  /\ ~Ended("file") => Way(at, at', "outputDone", "file", "file")
  /\ queued' \in [Ports -> Seq(Bufs)] /\ ready' \in [Ports -> Seq(Bufs)]
  /\ ready'["file"] = ready["file"]
  /\ pc' = "giveBack" /\ UNCHANGED <<pair, event, hwVars, written, faults>>

(* That becomes of the chain when the second pair takes or drops one.      *)
LEMMA OutputTaken == ChainInv /\ pair = 2 /\ (TakeFrame \/ DropFrame) => OutputPassedOn
<1> SUFFICES ASSUME ChainInv, pair = 2, TakeFrame \/ DropFrame PROVE OutputPassedOn
  OBVIOUS
<1> DEFINE a == AfterDeq("mfcOut", FALSE)
           q == [port EXCEPT !["mfcOut"] = a]
           b == First("mfcOut")
<1>1. /\ Up[pair] = "mfcOut" /\ Down[pair] = "file" /\ "source" \in Ports /\ "mfcIn" \in Ports
      /\ "mfcOut" \in Ports /\ "file" \in Ports /\ ~IsFunc("mfcOut") /\ IsFunc("file") /\ HasFd("file")
  BY DEF Up, Down, Ports, IsFunc, HasFd
<1>2. port["mfcOut"].state = "ready" /\ ~Ended("mfcOut") /\ pc' = "giveBack"
  BY <1>1 DEF TakeFrame, DropFrame, Ended
<1>3. /\ port \in [Ports -> PortRecord] /\ port["mfcOut"] \in PortRecord /\ port["mfcOut"].nbufs > 0
      /\ ready["mfcOut"] # <<>>
  BY <1>1, <1>2, ReadyPort
<1>4. port["mfcOut"].limit = 0 /\ port["file"].limit = 0
  BY DEF ChainInv, Limits
<1>5. /\ a \in PortRecord /\ a.counter = port["mfcOut"].counter + 1 /\ a.nbufs = port["mfcOut"].nbufs - 1
      /\ a.limit = 0 /\ a.state = "busy"
  BY <1>1, <1>3, <1>4, AfterDequeuing
<1> HIDE DEF a
<1>6. /\ q \in [Ports -> PortRecord] /\ q["mfcOut"] = a /\ q["source"] = port["source"]
      /\ q["mfcIn"] = port["mfcIn"] /\ q["file"] = port["file"]
  BY <1>1, <1>3, <1>5
<1>7. EndPassedOn("mfcOut", "file") = q
  BY <1>5, <1>6 DEF EndPassedOn, a
<1>8. /\ TakeFrame => /\ ~Ended("file") /\ PassOn(q, "file")
                      /\ queued' = [QueuedWithout("mfcOut", q) EXCEPT !["file"] = Append(@, b)]
                      /\ UNCHANGED <<source, pair, event, held, content, captured, eos, written>>
      /\ DropFrame => /\ Ended("file") /\ port' = q /\ queued' = QueuedWithout("mfcOut", q)
                      /\ UNCHANGED <<pair, event, hwVars, written, faults>>
      /\ ready' = ReadyWithout("mfcOut", q)
  BY <1>1, <1>7 DEF TakeFrame, DropFrame, Ended, a
<1> HIDE DEF q
<1>9. ~StreamsOff("mfcOut", q)
  BY <1>5, <1>6 DEF StreamsOff
<1>10. /\ QueuedWithout("mfcOut", q) = queued /\ b = Head(ready["mfcOut"]) /\ b \in Bufs
       /\ ready' \in [Ports -> Seq(Bufs)] /\ queued \in [Ports -> Seq(Bufs)]
       /\ ready'["mfcOut"] = Tail(ready["mfcOut"]) /\ ready'["source"] = ready["source"]
       /\ ready'["mfcIn"] = ready["mfcIn"] /\ ready'["file"] = ready["file"]
  BY <1>1, <1>2, <1>8, <1>9, WithoutFirst
<1>11. CASE TakeFrame
  <2>1. port' = AfterEnq(q, "file") /\ UNCHANGED <<stopped, faults>>
    <3>1. stopped \in BOOLEAN
      BY DEF ChainInv, TypeOK
    <3>2. QED
      BY <1>8, <1>11, <3>1 DEF PassOn
  <2>2. /\ port' \in [Ports -> PortRecord]
        /\ \A r \in Ports :
             /\ port'[r].counter = q[r].counter /\ port'[r].limit = q[r].limit
             /\ port'[r].nbufs = q[r].nbufs + (IF r = "file" THEN 1 ELSE 0)
             /\ port'[r].state = IF q["file"].state # "off" THEN q[r].state
                                 ELSE IF r = "file" THEN "busy" ELSE q[r].state
    <3> DEFINE p == "file"
    <3>1. p \in Ports /\ port' = AfterEnq(q, p) /\ p # "mfcOut" /\ p # "mfcIn" /\ HasFd(p)
      BY <1>1, <2>1
    <3> HIDE DEF p
    <3>2. /\ AfterEnq(q, p) \in [Ports -> PortRecord]
          /\ \A r \in Ports :
               /\ port'[r].counter = q[r].counter /\ port'[r].limit = q[r].limit
               /\ port'[r].nbufs = q[r].nbufs + (IF r = p THEN 1 ELSE 0)
               /\ port'[r].state = IF q[p].state # "off" THEN q[r].state
                                   ELSE IF r = p THEN "busy" ELSE q[r].state
      BY <1>6, <3>1, AfterEnqueuing
    <3>3. QED
      BY <3>1, <3>2 DEF p
  <2>3. port'["source"] = q["source"] /\ port'["mfcIn"] = q["mfcIn"] /\ port'["mfcOut"] = q["mfcOut"]
    <3> SUFFICES ASSUME NEW r \in {"source", "mfcIn", "mfcOut"} PROVE port'[r] = q[r]
      OBVIOUS
    <3>1. r \in Ports /\ r # "file" /\ port'[r] \in PortRecord /\ q[r] \in PortRecord
      BY <1>1, <1>6, <2>2
    <3>2. /\ port'[r].counter = q[r].counter /\ port'[r].limit = q[r].limit
          /\ port'[r].nbufs = q[r].nbufs /\ port'[r].state = q[r].state
      BY <2>2, <3>1 DEF PortRecord
    <3>3. QED
      BY <3>1, <3>2 DEF PortRecord
  <2>4. /\ port'["file"].limit = 0 /\ port'["file"].nbufs = port["file"].nbufs + 1
        /\ port'["file"].state = IF port["file"].state = "off" THEN "busy" ELSE port["file"].state
    BY <1>1, <1>4, <1>6, <2>2
  <2>5. /\ queued' = [queued EXCEPT !["file"] = Append(queued["file"], b)]
        /\ UNCHANGED <<source, pair, event, held, content, captured, eos, written>>
        /\ ~Ended("file")
    BY <1>8, <1>10, <1>11
  <2>6. Append(queued["file"], b) \in Seq(Bufs)
    BY <1>1, <1>10, Put
  <2>7. /\ queued' \in [Ports -> Seq(Bufs)] /\ queued'["file"] = Append(queued["file"], b)
        /\ queued'["source"] = queued["source"] /\ queued'["mfcIn"] = queued["mfcIn"]
        /\ queued'["mfcOut"] = queued["mfcOut"]
    BY <1>1, <1>10, <2>5, <2>6
  <2>8. \A z \in Places : Way(at, at', "outputDone", "file", z)
    BY <1>10, <2>5, <2>7, AtPlaces DEF Way, Places
  <2>9. QED
    BY <1>1, <1>2, <1>3, <1>5, <1>6, <1>10, <2>1, <2>2, <2>3, <2>4, <2>5, <2>7, <2>8, AtPlaces, SMTT(30)
       DEF OutputPassedOn, hwVars, Places
<1>12. CASE DropFrame
  <2>1. /\ port' = q /\ queued' = queued /\ Ended("file")
        /\ UNCHANGED <<pair, event, hwVars, written, faults>>
    BY <1>8, <1>10, <1>12
  <2>2. \A z \in Places :
          \/ Way(at, at', "outputDone", "file", z)
          \/ Ended("file") /\ z = "file" /\ at'[z] = at[z]
    BY <1>10, <2>1, AtPlaces DEF Way, Places, hwVars
  <2>3. QED
    BY <1>1, <1>2, <1>3, <1>4, <1>5, <1>6, <1>10, <2>1, <2>2, AtPlaces DEF OutputPassedOn
<1>13. QED
  BY <1>11, <1>12

(* A frame passed on to the file, or dropped, keeps the invariant.         *)
LEMMA OutputKeeps == ChainInv /\ pair = 2 /\ (TakeFrame \/ DropFrame) => ChainInv'
<1> SUFFICES ASSUME ChainInv, OutputPassedOn PROVE ChainInv'
  BY OutputTaken
<1> DEFINE d == port["mfcOut"].counter
<1>1. /\ "source" \in Ports /\ "mfcIn" \in Ports /\ "mfcOut" \in Ports /\ "file" \in Ports
      /\ \A p \in Ports : p \in {"source", "mfcIn", "mfcOut", "file"}
      /\ (IsFunc("source") <=> source = "demo") /\ ~IsFunc("mfcIn") /\ ~IsFunc("mfcOut") /\ IsFunc("file")
      /\ \A p : IsFunc(p)' <=> IsFunc(p)
  BY DEF Ports, IsFunc, OutputPassedOn, hwVars
<1>2. /\ at \in [Places -> Seq(Bufs)] /\ port \in [Ports -> PortRecord]
      /\ "outputDone" \in OutPlaces /\ "file" \in OutPlaces /\ at["outputDone"] # <<>>
      /\ \A z \in InPlaces \cup OutPlaces : z \in Places
  BY PlaceTypes DEF ChainInv, OutputPassedOn, Places, InPlaces, OutPlaces, TypeOK, PortRecord
<1>3. /\ port["mfcOut"].state # "end" /\ d \in Nat /\ port["mfcOut"].nbufs \in Nat
      /\ port["file"].nbufs \in Nat
  BY <1>1, <1>2, PortFields DEF OutputPassedOn, Ended
<1>4. /\ \A z \in Places : Way(at, at', "outputDone", "file", z) \/ (Ended("file") /\ z = "file" /\ at'[z] = at[z])
      /\ ~Ended("file") => Way(at, at', "outputDone", "file", "file")
  BY DEF OutputPassedOn
<1>5. /\ at'["source"] = at["source"] /\ at'["sourceDone"] = at["sourceDone"]
      /\ at'["input"] = at["input"] /\ at'["held"] = at["held"] /\ at'["inputDone"] = at["inputDone"]
      /\ at'["output"] = at["output"] /\ at'["outputDone"] = Tail(at["outputDone"])
      /\ ~Ended("file") => at'["file"] = Append(at["file"], Head(at["outputDone"]))
  BY <1>4 DEF Way, Places
<1>6. /\ Head(at["outputDone"]) \in Bufs /\ Head(at["outputDone"]) = at["outputDone"][1]
      /\ 1 \in DOMAIN at["outputDone"]
      /\ Len(at'["outputDone"]) = Len(at["outputDone"]) - 1 /\ Len(at["outputDone"]) \in Nat
      /\ \A k \in DOMAIN at'["outputDone"] :
           k \in Nat /\ k + 1 \in DOMAIN at["outputDone"] /\ at'["outputDone"][k] = at["outputDone"][k + 1]
  <2>1. "outputDone" \in Places
    BY <1>2
  <2>2. QED
    BY <1>2, <1>5, <2>1, Taken
<1>7. ~Ended("file") =>
        /\ Len(at'["file"]) = Len(at["file"]) + 1 /\ Len(at["file"]) \in Nat
        /\ \A k \in DOMAIN at'["file"] :
             \/ k \in DOMAIN at["file"] /\ at'["file"][k] = at["file"][k]
             \/ k = Len(at["file"]) + 1 /\ at'["file"][k] = Head(at["outputDone"])
  <2> DEFINE s == at["file"]
             e == Head(at["outputDone"])
  <2>1. "file" \in Places
    BY <1>2
  <2>2. s \in Seq(Bufs) /\ e \in Bufs
    BY <1>2, <1>6, <2>1
  <2>3. ~Ended("file") => at'["file"] = Append(s, e)
    BY <1>5
  <2> HIDE DEF s, e
  <2>4. /\ Len(Append(s, e)) = Len(s) + 1 /\ Len(s) \in Nat
        /\ \A k \in DOMAIN Append(s, e) :
             (k \in DOMAIN s /\ Append(s, e)[k] = s[k]) \/ (k = Len(s) + 1 /\ Append(s, e)[k] = e)
    BY <2>2, Put
  <2>5. QED
    BY <2>3, <2>4 DEF s, e
<1>8. /\ port'["source"] = port["source"] /\ port'["mfcIn"] = port["mfcIn"]
      /\ port'["mfcOut"].counter = d + 1 /\ port'["mfcOut"].nbufs = port["mfcOut"].nbufs - 1
      /\ port'["mfcOut"].limit = 0 /\ port'["mfcOut"].state = "busy" /\ port'["file"].limit = 0
      /\ ~Ended("file") =>
           /\ port'["file"].nbufs = port["file"].nbufs + 1
           /\ port'["file"].state = IF port["file"].state = "off" THEN "busy" ELSE port["file"].state
      /\ port' \in [Ports -> PortRecord]
      /\ UNCHANGED <<pair, event, source, held, content, captured, stopped, eos, written, faults>>
      /\ pc' = "giveBack"
  BY DEF OutputPassedOn, hwVars
<1>9. /\ Ended("source")' <=> Ended("source")
      /\ Ended("mfcIn")' <=> Ended("mfcIn")
      /\ Ended("file")' <=> Ended("file")
      /\ ~Ended("mfcOut")' /\ ~Ended("mfcOut")
  BY <1>3, <1>8 DEF Ended, OutputPassedOn
<1> HIDE DEF d
<1>10. TypeOK'
  <2>1. ControlTypes'
    BY <1>8 DEF ControlTypes, ChainInv, TypeOK
  <2>2. PortTypes'
    BY <1>8 DEF PortTypes
  <2>3. QueueTypes'
    BY <1>8 DEF OutputPassedOn, QueueTypes, ChainInv, TypeOK
  <2>4. FrameTypes'
    BY <1>8 DEF FrameTypes, ChainInv, TypeOK
  <2>5. QED
    BY <2>1, <2>2, <2>3, <2>4 DEF TypeOK, ControlTypes, PortTypes, PortRecord, QueueTypes, FrameTypes
<1>11. PairsApart'
  <2>1. Apart(at) /\ OfTheirPair(at) /\ DOMAIN at' = Places
    BY AtPlaces DEF ChainInv, PairsApart
  <2>2. /\ Apart(at') /\ OfTheirPair(at')
        /\ (\A z \in InPlaces : Way(at, at', "outputDone", "file", z)) /\ AllIn(at) => AllIn(at')
        /\ (\A z \in OutPlaces : Way(at, at', "outputDone", "file", z)) /\ AllOut(at) => AllOut(at')
    <3> DEFINE P == OutPlaces
    <3>1. P \in {InPlaces, OutPlaces} /\ "outputDone" \in P /\ "file" \in P
      BY <1>2
    <3>2. \A z \in Places :
            Way(at, at', "outputDone", "file", z) \/ (at'[z] = at[z] /\ z # "outputDone") \/ at'[z] = <<>>
      BY <1>4
    <3> HIDE DEF P
    <3>3. QED
      BY <1>2, <2>1, <3>1, <3>2, Moving
  <2>3. \A z \in InPlaces : z # "file"
    BY DEF InPlaces
  <2>4. ~Ended("source")' /\ ~Ended("mfcIn")' => AllIn(at')
    BY <1>2, <1>4, <1>9, <2>2, <2>3 DEF ChainInv, PairsApart
  <2>5. ~Ended("mfcOut")' /\ ~Ended("file")' => AllOut(at')
    BY <1>2, <1>4, <1>9, <2>2 DEF ChainInv, PairsApart
  <2>6. QED
    BY <2>2, <2>4, <2>5 DEF PairsApart, Apart, OfTheirPair, AllIn, AllOut
<1>12. PortStates'
  <2>1. /\ source = "demo" =>
             /\ ready'["source"] = <<>>
             /\ port'["source"].state \in {"busy", "ready"} <=> queued'["source"] # <<>> /\ ~Ended("source")'
        /\ source # "demo" /\ port'["source"].state = "ready" => ready'["source"] # <<>>
        /\ port'["mfcIn"].state = "ready" => ready'["mfcIn"] # <<>>
        /\ port'["source"].state # IF source = "demo" THEN "busy" ELSE "off"
    BY <1>1, <1>5, <1>8, <1>9, AtPlaces DEF ChainInv, PortStates
  <2>2. /\ ready'["file"] = <<>>
        /\ port'["file"].state \in {"busy", "ready"} <=> queued'["file"] # <<>> /\ ~Ended("file")'
    <3>1. ready'["file"] = <<>>
      BY <1>1 DEF OutputPassedOn, ChainInv, PortStates
    <3>2. CASE Ended("file")
      BY <1>1, <1>9, <3>1, <3>2 DEF OutputPassedOn, ChainInv, PortStates, Ended
    <3>3. CASE ~Ended("file")
      <4>1. queued'["file"] # <<>>
        BY <1>2, <1>5, <1>6, <3>3, AtPlaces, Put
      <4>2. port["file"].state \in States
        BY <1>1, <1>2, PortFields
      <4>3. port'["file"].state \in {"busy", "ready"}
        BY <1>8, <3>3, <4>2 DEF Ended, States
      <4>4. QED
        BY <1>9, <3>1, <3>3, <4>1, <4>3
    <3>4. QED
      BY <3>2, <3>3
  <2>3. QED
    BY <1>1, <1>8, <2>1, <2>2 DEF PortStates
<1>13. Counts'
  <2>1. /\ ~Ended("source")' => port'["source"].nbufs = Len(queued'["source"]) + Len(ready'["source"])
        /\ ~Ended("mfcIn")' => port'["mfcIn"].nbufs = Len(queued'["mfcIn"]) + Len(ready'["mfcIn"]) + Len(held')
    BY <1>5, <1>8, <1>9, AtPlaces DEF ChainInv, Counts
  <2>2. port'["mfcOut"].nbufs = Len(queued'["mfcOut"]) + Len(ready'["mfcOut"])
    <3>1. port["mfcOut"].nbufs = Len(at["output"]) + Len(at["outputDone"])
      BY <1>3, AtPlaces DEF ChainInv, Counts, Ended
    <3>2. Len(at["output"]) \in Nat
      <4>1. "output" \in Places
        BY DEF Places
      <4>2. QED
        BY <1>2, <4>1, Held
    <3>3. port'["mfcOut"].nbufs = Len(at["output"]) + Len(at'["outputDone"])
      BY <1>6, <1>8, <3>1, <3>2
    <3>4. QED
      BY <1>5, <3>3, AtPlaces
  <2>3. ~Ended("file")' => port'["file"].nbufs = Len(queued'["file"])
    BY <1>7, <1>8, <1>9, AtPlaces DEF ChainInv, Counts
  <2>4. QED
    BY <2>1, <2>2, <2>3 DEF Counts
<1>14. Limits'
  BY <1>8, <1>9 DEF ChainInv, Limits
<1>15. Streams'
  <2>1. port'["mfcOut"].state # "off" /\ port["mfcOut"].state # "off"
    BY <1>8 DEF OutputPassedOn
  <2>2. QED
    BY <1>8, <1>9, <2>1 DEF ChainInv, Streams
<1>16. Line'
  <2>1. \A k \in DOMAIN written' : written'[k] = k
    BY <1>8 DEF ChainInv, Line
  <2>2. /\ \A k \in DOMAIN at["outputDone"] : content[at["outputDone"][k]] = d + k
        /\ \A k \in DOMAIN at["input"] : content[at["input"][k]] = d + Len(at["outputDone"]) + k
        /\ port["source"].counter = d + Len(at["outputDone"]) + Len(at["input"])
    BY <1>9, AtPlaces DEF ChainInv, Line, d
  <2>3. ASSUME ~Ended("file")'
        PROVE  /\ Len(written') + Len(queued'["file"]) = port'["mfcOut"].counter
               /\ \A k \in DOMAIN queued'["file"] : content'[queued'["file"][k]] = Len(written') + k
    <3>1. ~Ended("file") /\ Len(written) \in Nat
      BY <1>9, <2>3 DEF ChainInv, TypeOK
    <3>2. /\ Len(written) + Len(at["file"]) = d
          /\ \A k \in DOMAIN at["file"] : content[at["file"][k]] = Len(written) + k
      BY <3>1, AtPlaces DEF ChainInv, Line, d
    <3>3. Len(written) + Len(at'["file"]) = d + 1
      BY <1>7, <3>1, <3>2
    <3>4. \A k \in DOMAIN at'["file"] : content[at'["file"][k]] = Len(written) + k
      <4> TAKE k \in DOMAIN at'["file"]
      <4>1. CASE k \in DOMAIN at["file"] /\ at'["file"][k] = at["file"][k]
        BY <3>2, <4>1
      <4>2. CASE k = Len(at["file"]) + 1 /\ at'["file"][k] = Head(at["outputDone"])
        <5>1. content[at'["file"][k]] = d + 1
          BY <1>6, <2>2, <4>2
        <5>2. QED
          BY <1>7, <3>1, <3>2, <4>2, <5>1
      <4>3. QED
        BY <1>7, <3>1, <4>1, <4>2
    <3>5. QED
      BY <1>8, <3>3, <3>4, AtPlaces
  <2>4. \A k \in DOMAIN ready'["mfcOut"] : content'[ready'["mfcOut"][k]] = port'["mfcOut"].counter + k
    <3>1. \A k \in DOMAIN at'["outputDone"] : content[at'["outputDone"][k]] = (d + 1) + k
      <4> TAKE k \in DOMAIN at'["outputDone"]
      <4>1. k \in Nat /\ content[at'["outputDone"][k]] = d + (k + 1)
        BY <1>6, <2>2
      <4>2. QED
        BY <1>3, <4>1
    <3>2. QED
      BY <1>8, <3>1, AtPlaces
  <2>5. d + 1 + Len(at'["outputDone"]) = d + Len(at["outputDone"])
    <3>1. \A n, l \in Nat : n + 1 + (l - 1) = n + l
      OBVIOUS
    <3>2. d + 1 + (Len(at["outputDone"]) - 1) = d + Len(at["outputDone"])
      BY <1>3, <1>6, <3>1
    <3>3. Len(at'["outputDone"]) = Len(at["outputDone"]) - 1
      BY <1>6
    <3>4. QED
      BY <3>2, <3>3
  <2>6. /\ \A k \in DOMAIN queued'["mfcIn"] :
             content'[queued'["mfcIn"][k]] = port'["mfcOut"].counter + Len(ready'["mfcOut"]) + k
        /\ port'["source"].counter =
             port'["mfcOut"].counter + Len(ready'["mfcOut"]) + Len(queued'["mfcIn"])
    <3>1. port'["mfcOut"].counter + Len(ready'["mfcOut"]) = d + Len(at["outputDone"])
      BY <1>8, <2>5, AtPlaces
    <3>2. queued'["mfcIn"] = at["input"] /\ content' = content /\ port'["source"] = port["source"]
      BY <1>5, <1>8, AtPlaces
    <3>3. QED
      BY <2>2, <3>1, <3>2
  <2>7. source' = "camera" /\ ~Ended("source")' =>
          /\ captured' = port'["source"].counter + Len(ready'["source"])
          /\ \A k \in DOMAIN ready'["source"] : content'[ready'["source"][k]] = port'["source"].counter + k
    BY <1>5, <1>8, <1>9, AtPlaces DEF ChainInv, Line
  <2>8. QED
    BY <2>1, <2>3, <2>4, <2>6, <2>7 DEF Line
<1>17. Endings'
  BY <1>8 DEF Endings
<1>18. QED
  BY <1>10, <1>11, <1>12, <1>13, <1>14, <1>15, <1>16, <1>17 DEF ChainInv

-----------------------------------------------------------------------------
(* From the MFC back to the source                                         *)

(* The MFC's input has given back the last frame of the source.            *)
LastBack == Ended("source") /\ port["mfcIn"].counter + 1 = NFrames

MfcPlaces == {"input", "held", "inputDone", "output", "outputDone"}

(* What it does to the ports and the queues when a used input goes back to *)
(* the source, or is dropped because that has ended                        *)
InputReturned ==
  /\ port["mfcIn"].state = "ready" /\ at["inputDone"] # <<>>
  /\ port' \in [Ports -> PortRecord]
  /\ port'["mfcOut"] = port["mfcOut"] /\ port'["file"] = port["file"]
  /\ port'["mfcIn"].counter = port["mfcIn"].counter + 1
  /\ port'["mfcIn"].nbufs = port["mfcIn"].nbufs - 1 /\ port["mfcIn"].nbufs > 0
  /\ port'["mfcIn"].limit = port["mfcIn"].limit
  /\ port'["mfcIn"].state = IF LastBack THEN "end" ELSE "busy"
  /\ port'["source"].counter = port["source"].counter /\ port'["source"].limit = port["source"].limit
  /\ Ended("source") => port'["source"] = port["source"]
  /\ ~Ended("source") =>
       /\ port'["source"].nbufs = port["source"].nbufs + 1
       /\ port'["source"].state = IF port["source"].state = "off" THEN "ready" ELSE port["source"].state
  /\ \A z \in Places :
       \/ Way(at, at', "inputDone", "source", z)
       \/ Ended("source") /\ z = "source" /\ at'[z] = at[z]
       \/ LastBack /\ Ended("mfcOut") /\ z \in MfcPlaces /\ at'[z] = <<>>
  /\ ~Ended("source") => Way(at, at', "inputDone", "source", "source")
  /\ queued' \in [Ports -> Seq(Bufs)] /\ ready' \in [Ports -> Seq(Bufs)] /\ held' \in Seq(InBufs)
  /\ ready'["file"] = ready["file"]
  /\ pc' = "take" /\ pair' = 2
  /\ UNCHANGED <<source, event, content, captured, stopped, eos, written, faults>>

(* That becomes of the chain when the first pair returns a buffer.         *)
LEMMA InputGivenBack == ChainInv /\ pair = 1 /\ GiveBack => InputReturned
<1> SUFFICES ASSUME ChainInv, pair = 1, GiveBack PROVE InputReturned
  OBVIOUS
<1> DEFINE a == AfterDeq("mfcIn", FALSE)
           q == [port EXCEPT !["mfcIn"] = a]
           b == First("mfcIn")
           Q == QueuedWithout("mfcIn", q)
<1>1. /\ Up[pair] = "source" /\ Down[pair] = "mfcIn" /\ "source" \in Ports /\ "mfcIn" \in Ports
      /\ "mfcOut" \in Ports /\ "file" \in Ports /\ ~IsFunc("mfcIn")
      /\ (HasFd("source") <=> source # "demo")
  BY DEF Up, Down, Ports, IsFunc, HasFd
<1>2. /\ port["mfcIn"].state = "ready" /\ ~Ended("mfcIn") /\ pc' = "take" /\ pair' = 2
      /\ UNCHANGED <<source, event, content, captured, stopped, eos, written, faults>>
      /\ port' = IF Ended("source") THEN q ELSE AfterEnq(q, "source")
      /\ queued' = IF Ended("source") THEN Q ELSE [Q EXCEPT !["source"] = Append(@, b)]
      /\ ready' = ReadyWithout("mfcIn", q)
      /\ held' = IF StreamsOff("mfcIn", q) THEN <<>> ELSE held
  BY <1>1 DEF GiveBack, NextPair, Ended
<1>3. /\ port \in [Ports -> PortRecord] /\ port["mfcIn"] \in PortRecord /\ port["mfcIn"].nbufs > 0
      /\ ready["mfcIn"] # <<>> /\ port["source"] \in PortRecord
  BY <1>1, <1>2, ReadyPort
<1>4. /\ port["mfcIn"].limit = IF Ended("source") THEN NFrames ELSE 0
      /\ port["mfcIn"].counter + port["mfcIn"].nbufs = port["source"].counter
      /\ Ended("source") => port["source"].counter = NFrames
      /\ port["mfcIn"].counter \in Nat /\ port["mfcIn"].nbufs \in Nat /\ NFrames \in Nat \ {0}
  BY <1>3, ChainAssumption, PortFields DEF ChainInv, Limits
<1>5. port["mfcIn"].limit # 0 /\ port["mfcIn"].limit <= port["mfcIn"].counter + 1 <=> LastBack
  <2>1. CASE Ended("source")
    <3>1. port["mfcIn"].limit = NFrames /\ port["mfcIn"].counter + port["mfcIn"].nbufs = NFrames
      BY <1>4, <2>1
    <3>2. QED
      BY <1>3, <1>4, <2>1, <3>1 DEF LastBack
  <2>2. CASE ~Ended("source")
    BY <1>4, <2>2 DEF LastBack
  <2>3. QED
    BY <2>1, <2>2
<1>6. /\ a \in PortRecord /\ a.counter = port["mfcIn"].counter + 1 /\ a.nbufs = port["mfcIn"].nbufs - 1
      /\ a.limit = port["mfcIn"].limit /\ a.state = IF LastBack THEN "end" ELSE "busy"
  BY <1>1, <1>3, <1>5, AfterDequeuing
<1> HIDE DEF a
<1>7. /\ q \in [Ports -> PortRecord] /\ q["mfcIn"] = a /\ q["source"] = port["source"]
      /\ q["mfcOut"] = port["mfcOut"] /\ q["file"] = port["file"]
  BY <1>1, <1>3, <1>6
<1> HIDE DEF q
<1>8. StreamsOff("mfcIn", q) <=> LastBack /\ Ended("mfcOut")
  BY <1>6, <1>7 DEF StreamsOff, Ended
<1>9. /\ port' \in [Ports -> PortRecord]
      /\ \A r \in {"mfcIn", "mfcOut", "file"} : port'[r] = q[r]
      /\ port'["source"].counter = port["source"].counter /\ port'["source"].limit = port["source"].limit
      /\ Ended("source") => port'["source"] = port["source"]
      /\ ~Ended("source") =>
           /\ port'["source"].nbufs = port["source"].nbufs + 1
           /\ port'["source"].state = IF port["source"].state = "off" THEN "ready" ELSE port["source"].state
  <2>1. CASE Ended("source")
    BY <1>1, <1>2, <1>7, <2>1
  <2>2. CASE ~Ended("source")
    <3> DEFINE p == "source"
    <3>1. p \in Ports /\ port' = AfterEnq(q, p) /\ p # "mfcOut" /\ p # "mfcIn"
      BY <1>1, <1>2, <2>2
    <3> HIDE DEF p
    <3>2. /\ port' \in [Ports -> PortRecord]
          /\ \A r \in Ports :
               /\ port'[r].counter = q[r].counter /\ port'[r].limit = q[r].limit
               /\ port'[r].nbufs = q[r].nbufs + (IF r = p THEN 1 ELSE 0)
               /\ port'[r].state = IF q[p].state # "off" THEN q[r].state
                                   ELSE IF r = p THEN (IF HasFd(p) THEN "busy" ELSE "ready") ELSE q[r].state
      <4> DEFINE E == AfterEnq(q, p)
      <4>1. q \in [Ports -> PortRecord] /\ p \in Ports
        BY <1>7, <3>1
      <4>2. /\ E \in [Ports -> PortRecord]
            /\ \A r \in Ports :
                 /\ E[r].counter = q[r].counter /\ E[r].limit = q[r].limit
                 /\ E[r].nbufs = q[r].nbufs + (IF r = p THEN 1 ELSE 0)
                 /\ E[r].state = IF q[p].state # "off" \/ p = "mfcOut" THEN q[r].state
                                 ELSE IF p = "mfcIn"
                                      THEN (IF r \in {"mfcIn", "mfcOut"} THEN "busy" ELSE q[r].state)
                                      ELSE IF r = p THEN (IF HasFd(p) THEN "busy" ELSE "ready")
                                      ELSE q[r].state
        BY <4>1, AfterEnqueuing
      <4>3. port' = E
        BY <3>1
      <4> HIDE DEF E
      <4>4. QED
        BY <3>1, <4>2, <4>3
    <3>3. \A r \in {"mfcIn", "mfcOut", "file"} : port'[r] = q[r]
      <4> SUFFICES ASSUME NEW r \in {"mfcIn", "mfcOut", "file"} PROVE port'[r] = q[r]
        OBVIOUS
      <4>1. r \in Ports /\ r # p /\ port'[r] \in PortRecord /\ q[r] \in PortRecord
        BY <1>1, <1>7, <3>2 DEF p
      <4>2. /\ port'[r].counter = q[r].counter /\ port'[r].limit = q[r].limit
            /\ port'[r].nbufs = q[r].nbufs /\ port'[r].state = q[r].state
        BY <3>2, <4>1 DEF PortRecord
      <4>3. QED
        BY <4>1, <4>2 DEF PortRecord
    <3>4. port["source"].state = "off" => ~HasFd("source")
      BY <1>1 DEF ChainInv, PortStates
    <3>5. QED
      BY <1>1, <1>7, <2>2, <3>2, <3>3, <3>4 DEF p
  <2>3. QED
    BY <2>1, <2>2
<1>10. /\ Q \in [Ports -> Seq(Bufs)] /\ ready' \in [Ports -> Seq(Bufs)]
       /\ b = Head(ready["mfcIn"]) /\ b \in Bufs
       /\ Q["source"] = queued["source"] /\ Q["file"] = queued["file"]
       /\ ready'["source"] = ready["source"] /\ ready'["file"] = ready["file"]
       /\ LastBack /\ Ended("mfcOut") =>
            /\ Q["mfcIn"] = <<>> /\ Q["mfcOut"] = <<>>
            /\ ready'["mfcIn"] = <<>> /\ ready'["mfcOut"] = <<>>
       /\ ~(LastBack /\ Ended("mfcOut")) =>
            /\ Q["mfcIn"] = queued["mfcIn"] /\ Q["mfcOut"] = queued["mfcOut"]
            /\ ready'["mfcIn"] = Tail(ready["mfcIn"]) /\ ready'["mfcOut"] = ready["mfcOut"]
  <2> DEFINE R == ReadyWithout("mfcIn", q)
  <2>0. /\ Q \in [Ports -> Seq(Bufs)] /\ R \in [Ports -> Seq(Bufs)] /\ b \in Bufs /\ b = Head(ready["mfcIn"])
        /\ ~StreamsOff("mfcIn", q) =>
             /\ Q = queued
             /\ \A r \in Ports : R[r] = IF r = "mfcIn" THEN Tail(ready["mfcIn"]) ELSE ready[r]
        /\ StreamsOff("mfcIn", q) =>
             \A r \in Ports :
               /\ Q[r] = IF r \in DevicePorts("mfcIn") THEN <<>> ELSE queued[r]
               /\ R[r] = IF r \in DevicePorts("mfcIn") THEN <<>> ELSE ready[r]
    <3>1. "mfcIn" \in Ports /\ port["mfcIn"].state = "ready" /\ ~IsFunc("mfcIn") /\ ChainInv
      BY <1>1, <1>2
    <3>2. QED
      BY <3>1, WithoutFirst
  <2>r. ready' = R
    BY <1>2
  <2> HIDE DEF Q, b, R
  <2>1. CASE LastBack /\ Ended("mfcOut")
    <3>1. DevicePorts("mfcIn") = {"mfcIn", "mfcOut"}
      BY DEF DevicePorts
    <3>2. QED
      BY <1>1, <1>8, <2>0, <2>r, <2>1, <3>1
  <2>2. CASE ~(LastBack /\ Ended("mfcOut"))
    BY <1>1, <1>8, <2>0, <2>r, <2>2
  <2>3. QED
    BY <2>1, <2>2
<1> HIDE DEF Q, b
<1>11. Append(Q["source"], b) \in Seq(Bufs)
  BY <1>1, <1>10, Put
<1>12. /\ queued' \in [Ports -> Seq(Bufs)]
       /\ queued'["mfcIn"] = Q["mfcIn"] /\ queued'["mfcOut"] = Q["mfcOut"] /\ queued'["file"] = Q["file"]
       /\ Ended("source") => queued'["source"] = Q["source"]
       /\ ~Ended("source") => queued'["source"] = Append(Q["source"], b)
  BY <1>1, <1>2, <1>10, <1>11
<1>13. /\ \A z \in Places :
            \/ Way(at, at', "inputDone", "source", z)
            \/ Ended("source") /\ z = "source" /\ at'[z] = at[z]
            \/ LastBack /\ Ended("mfcOut") /\ z \in MfcPlaces /\ at'[z] = <<>>
       /\ ~Ended("source") => Way(at, at', "inputDone", "source", "source")
  <2>1. CASE LastBack /\ Ended("mfcOut")
    <3>1. held' = <<>> /\ Ended("source")
      BY <1>2, <1>8, <2>1 DEF LastBack
    <3>2. QED
      BY <1>10, <1>12, <2>1, <3>1, AtPlaces DEF Way, Places, MfcPlaces
  <2>2. CASE ~(LastBack /\ Ended("mfcOut"))
    <3>1. held' = held
      BY <1>2, <1>8, <2>2
    <3>2. QED
      BY <1>10, <1>12, <2>2, <3>1, AtPlaces DEF Way, Places
  <2>3. QED
    BY <2>1, <2>2
<1>14. held' \in Seq(InBufs) /\ at["inputDone"] # <<>>
  <2>1. held \in Seq(InBufs) /\ <<>> \in Seq(InBufs)
    BY DEF ChainInv, TypeOK
  <2>2. QED
    BY <1>2, <1>3, <2>1, AtPlaces
<1>15. QED
  BY <1>2, <1>3, <1>6, <1>7, <1>9, <1>10, <1>12, <1>13, <1>14 DEF InputReturned

(* A used input given back to the source, or dropped, keeps the invariant. *)
LEMMA InputReturnKeeps == ChainInv /\ pair = 1 /\ GiveBack => ChainInv'
<1> SUFFICES ASSUME ChainInv, InputReturned PROVE ChainInv'
  BY InputGivenBack
<1> DEFINE Off == LastBack /\ Ended("mfcOut")
<1>1. /\ "source" \in Ports /\ "mfcIn" \in Ports /\ "mfcOut" \in Ports /\ "file" \in Ports
      /\ \A p \in Ports : p \in {"source", "mfcIn", "mfcOut", "file"}
      /\ (IsFunc("source") <=> source = "demo") /\ ~IsFunc("mfcIn") /\ ~IsFunc("mfcOut") /\ IsFunc("file")
      /\ \A p : IsFunc(p)' <=> IsFunc(p)
  BY DEF Ports, IsFunc, InputReturned
<1>2. /\ at \in [Places -> Seq(Bufs)] /\ port \in [Ports -> PortRecord]
      /\ "inputDone" \in InPlaces /\ "source" \in InPlaces /\ at["inputDone"] # <<>>
      /\ \A z \in InPlaces \cup OutPlaces : z \in Places
  BY PlaceTypes DEF ChainInv, InputReturned, Places, InPlaces, OutPlaces, TypeOK, PortRecord
<1>3. /\ port["mfcIn"].state # "end" /\ port["mfcIn"].counter \in Nat /\ port["mfcIn"].nbufs \in Nat
      /\ port["source"].nbufs \in Nat /\ port["source"].state \in States
  BY <1>1, <1>2, PortFields DEF InputReturned
<1>4. /\ \A z \in Places :
           \/ Way(at, at', "inputDone", "source", z)
           \/ Ended("source") /\ z = "source" /\ at'[z] = at[z]
           \/ Off /\ z \in MfcPlaces /\ at'[z] = <<>>
      /\ ~Ended("source") => Way(at, at', "inputDone", "source", "source")
  BY DEF InputReturned
<1>5. /\ at'["sourceDone"] = at["sourceDone"] /\ at'["file"] = at["file"]
      /\ ~Off => /\ at'["input"] = at["input"] /\ at'["held"] = at["held"]
                 /\ at'["inputDone"] = Tail(at["inputDone"])
                 /\ at'["output"] = at["output"] /\ at'["outputDone"] = at["outputDone"]
      /\ Ended("source") /\ ~Way(at, at', "inputDone", "source", "source") => at'["source"] = at["source"]
      /\ ~Ended("source") => at'["source"] = Append(at["source"], Head(at["inputDone"]))
  BY <1>4 DEF Way, Places, MfcPlaces
<1>6. /\ Head(at["inputDone"]) \in Bufs
      /\ Len(Tail(at["inputDone"])) = Len(at["inputDone"]) - 1 /\ Len(at["inputDone"]) \in Nat
  <2>1. "inputDone" \in Places
    BY <1>2
  <2>2. QED
    BY <1>2, <2>1, Taken
<1>7. ~Ended("source") => at'["source"] # <<>> /\ Len(at'["source"]) = Len(at["source"]) + 1
  <2> DEFINE s == at["source"]
             e == Head(at["inputDone"])
  <2>1. "source" \in Places
    BY <1>2
  <2>2. s \in Seq(Bufs) /\ e \in Bufs
    BY <1>2, <1>6, <2>1
  <2>3. ~Ended("source") => at'["source"] = Append(s, e)
    BY <1>5
  <2> HIDE DEF s, e
  <2>4. Append(s, e) # <<>> /\ Len(Append(s, e)) = Len(s) + 1
    BY <2>2, Put
  <2>5. QED
    BY <2>3, <2>4 DEF s
<1>8. /\ port'["mfcOut"] = port["mfcOut"] /\ port'["file"] = port["file"]
      /\ port'["mfcIn"].counter = port["mfcIn"].counter + 1
      /\ port'["mfcIn"].nbufs = port["mfcIn"].nbufs - 1 /\ port["mfcIn"].nbufs > 0
      /\ port'["mfcIn"].limit = port["mfcIn"].limit
      /\ port'["mfcIn"].state = IF LastBack THEN "end" ELSE "busy"
      /\ port'["source"].counter = port["source"].counter /\ port'["source"].limit = port["source"].limit
      /\ Ended("source") => port'["source"] = port["source"]
      /\ ~Ended("source") =>
           /\ port'["source"].nbufs = port["source"].nbufs + 1
           /\ port'["source"].state = IF port["source"].state = "off" THEN "ready" ELSE port["source"].state
      /\ port' \in [Ports -> PortRecord]
      /\ pc' = "take" /\ pair' = 2
      /\ UNCHANGED <<source, event, content, captured, stopped, eos, written, faults>>
  BY DEF InputReturned
<1>9. /\ Ended("source")' <=> Ended("source")
      /\ Ended("mfcIn")' <=> LastBack
      /\ Ended("file")' <=> Ended("file")
      /\ Ended("mfcOut")' <=> Ended("mfcOut")
      /\ ~Ended("mfcIn")
  BY <1>3, <1>8 DEF Ended
<1>10. (~Ended("mfcIn")' => ~Off) /\ (~Ended("mfcOut") => ~Off)
  BY <1>9
<1> HIDE DEF Off
<1>11. TypeOK'
  <2>1. ControlTypes'
    BY <1>8 DEF ControlTypes, ChainInv, TypeOK, Pairs
  <2>2. PortTypes'
    BY <1>8 DEF PortTypes
  <2>3. QueueTypes'
    BY DEF InputReturned, QueueTypes
  <2>4. FrameTypes'
    BY <1>8 DEF FrameTypes, ChainInv, TypeOK
  <2>5. QED
    BY <2>1, <2>2, <2>3, <2>4 DEF TypeOK, ControlTypes, PortTypes, PortRecord, QueueTypes, FrameTypes
<1>12. PairsApart'
  <2>1. Apart(at) /\ OfTheirPair(at) /\ DOMAIN at' = Places
    BY AtPlaces DEF ChainInv, PairsApart
  <2>2. /\ Apart(at') /\ OfTheirPair(at')
        /\ (\A z \in InPlaces : Way(at, at', "inputDone", "source", z)) /\ AllIn(at) => AllIn(at')
        /\ (\A z \in OutPlaces : Way(at, at', "inputDone", "source", z)) /\ AllOut(at) => AllOut(at')
    <3> DEFINE P == InPlaces
    <3>1. P \in {InPlaces, OutPlaces} /\ "inputDone" \in P /\ "source" \in P
      BY <1>2
    <3>2. \A z \in Places :
            Way(at, at', "inputDone", "source", z) \/ (at'[z] = at[z] /\ z # "inputDone") \/ at'[z] = <<>>
      BY <1>4
    <3> HIDE DEF P
    <3>3. QED
      BY <1>2, <2>1, <3>1, <3>2, Moving
  <2>3. \A z \in OutPlaces : z # "source"
    BY DEF OutPlaces
  <2>4. ~Ended("source")' /\ ~Ended("mfcIn")' => AllIn(at')
    BY <1>2, <1>4, <1>9, <1>10, <2>2 DEF ChainInv, PairsApart
  <2>5. ~Ended("mfcOut")' /\ ~Ended("file")' => AllOut(at')
    BY <1>2, <1>4, <1>9, <1>10, <2>2, <2>3 DEF ChainInv, PairsApart
  <2>6. QED
    BY <2>2, <2>4, <2>5 DEF PairsApart, Apart, OfTheirPair, AllIn, AllOut
<1>13. PortStates'
  <2>1. ~Ended("source") /\ source = "demo" =>
             /\ ready'["source"] = <<>> /\ port'["source"].state = "ready"
             /\ queued'["source"] # <<>>
    <3> SUFFICES ASSUME ~Ended("source"), source = "demo"
                 PROVE  /\ ready'["source"] = <<>> /\ port'["source"].state = "ready"
                        /\ queued'["source"] # <<>>
      OBVIOUS
    <3>1. ready["source"] = <<>> /\ port["source"].state # "busy" /\ port["source"].state # "end"
      BY <1>1 DEF ChainInv, PortStates, Ended
    <3>2. QED
      BY <1>3, <1>5, <1>7, <1>8, <3>1, AtPlaces DEF States
  <2>2. Ended("source") /\ source = "demo" =>
             /\ ready'["source"] = <<>> /\ port'["source"].state = "end"
    BY <1>1, <1>5, <1>8, AtPlaces DEF ChainInv, PortStates, Ended
  <2>3. source # "demo" => /\ port'["source"].state = "ready" => ready'["source"] # <<>>
                           /\ port'["source"].state # "off"
    BY <1>1, <1>5, <1>8, AtPlaces DEF ChainInv, PortStates
  <2>4. /\ ready'["file"] = <<>>
        /\ port'["file"].state \in {"busy", "ready"} <=> queued'["file"] # <<>> /\ ~Ended("file")'
    <3>1. /\ ready["file"] = <<>>
          /\ port["file"].state \in {"busy", "ready"} <=> queued["file"] # <<>> /\ ~Ended("file")
      BY <1>1 DEF ChainInv, PortStates
    <3>2. ready'["file"] = ready["file"] /\ queued'["file"] = queued["file"]
      BY <1>5, AtPlaces DEF InputReturned
    <3>3. QED
      BY <1>8, <1>9, <3>1, <3>2
  <2>5. /\ port'["mfcIn"].state # "ready"
        /\ port'["mfcOut"].state = "ready" => ready'["mfcOut"] # <<>>
    <3>1. port'["mfcOut"].state = "ready" => ~Ended("mfcOut") /\ ready["mfcOut"] # <<>>
      BY <1>1, <1>8 DEF ChainInv, PortStates, Ended
    <3>2. QED
      BY <1>5, <1>8, <1>10, <3>1, AtPlaces
  <2>6. QED
    BY <1>1, <1>8, <1>9, <2>1, <2>2, <2>3, <2>4, <2>5 DEF PortStates
<1>14. Counts'
  <2>1. /\ "source" \in Places /\ "sourceDone" \in Places /\ "input" \in Places /\ "held" \in Places
    BY DEF Places
  <2>2. /\ Len(at["source"]) \in Nat /\ Len(at["sourceDone"]) \in Nat /\ Len(at["input"]) \in Nat
        /\ Len(at["held"]) \in Nat
    BY <1>2, <2>1, Held
  <2>3. ~Ended("source")' => port'["source"].nbufs = Len(queued'["source"]) + Len(ready'["source"])
    <3> SUFFICES ASSUME ~Ended("source")
                 PROVE  port'["source"].nbufs = Len(at'["source"]) + Len(at'["sourceDone"])
      BY <1>9, AtPlaces
    <3>1. port["source"].nbufs = Len(at["source"]) + Len(at["sourceDone"])
      BY AtPlaces DEF ChainInv, Counts
    <3>2. \A l, m \in Nat : (l + m) + 1 = (l + 1) + m
      OBVIOUS
    <3>3. (Len(at["source"]) + Len(at["sourceDone"])) + 1 = (Len(at["source"]) + 1) + Len(at["sourceDone"])
      BY <2>2, <3>2
    <3>4. Len(at'["source"]) = Len(at["source"]) + 1 /\ at'["sourceDone"] = at["sourceDone"]
      BY <1>5, <1>7
    <3>5. QED
      BY <1>8, <3>1, <3>3, <3>4
  <2>4. ~Ended("mfcIn")' =>
          port'["mfcIn"].nbufs = Len(queued'["mfcIn"]) + Len(ready'["mfcIn"]) + Len(held')
    <3> SUFFICES ASSUME ~Off
                 PROVE  port'["mfcIn"].nbufs = Len(at'["input"]) + Len(at'["inputDone"]) + Len(at'["held"])
      BY <1>10, AtPlaces
    <3>1. port["mfcIn"].nbufs = Len(at["input"]) + Len(at["inputDone"]) + Len(at["held"])
      BY <1>9, AtPlaces DEF ChainInv, Counts
    <3>2. \A l, m, n \in Nat : (l + m + n) - 1 = l + (m - 1) + n
      OBVIOUS
    <3>3. (Len(at["input"]) + Len(at["inputDone"]) + Len(at["held"])) - 1
            = Len(at["input"]) + (Len(at["inputDone"]) - 1) + Len(at["held"])
      BY <1>6, <2>2, <3>2
    <3>4. /\ Len(at'["input"]) = Len(at["input"]) /\ Len(at'["held"]) = Len(at["held"])
          /\ Len(at'["inputDone"]) = Len(at["inputDone"]) - 1
      BY <1>5, <1>6
    <3>5. QED
      BY <1>8, <3>1, <3>3, <3>4
  <2>5. /\ ~Ended("mfcOut")' => port'["mfcOut"].nbufs = Len(queued'["mfcOut"]) + Len(ready'["mfcOut"])
        /\ ~Ended("file")' => port'["file"].nbufs = Len(queued'["file"])
    BY <1>5, <1>8, <1>9, <1>10, AtPlaces DEF ChainInv, Counts
  <2>6. QED
    BY <2>3, <2>4, <2>5 DEF Counts
<1>15. Limits'
  <2>1. port'["mfcIn"].counter + port'["mfcIn"].nbufs = port["mfcIn"].counter + port["mfcIn"].nbufs
    BY <1>3, <1>8
  <2>2. Ended("mfcIn")' => Ended("source")' /\ port'["mfcIn"].counter = NFrames
    BY <1>8, <1>9 DEF LastBack
  <2>3. QED
    BY <1>8, <1>9, <2>1, <2>2 DEF ChainInv, Limits
<1>16. Streams'
  <2>1. port["mfcIn"].state # "off" /\ port'["mfcIn"].state # "off"
    BY <1>8 DEF InputReturned
  <2>2. QED
    BY <1>8, <1>9, <2>1 DEF ChainInv, Streams
<1>17. Line'
  <2>1. queued'["file"] = queued["file"] /\ ready'["source"] = ready["source"]
    BY <1>5, AtPlaces
  <2>2. ~Ended("mfcOut") => ready'["mfcOut"] = ready["mfcOut"] /\ queued'["mfcIn"] = queued["mfcIn"]
    BY <1>5, <1>10, AtPlaces
  <2>3. Line
    BY DEF ChainInv
  <2>4. /\ content' = content /\ written' = written /\ captured' = captured /\ source' = source
        /\ port'["mfcOut"] = port["mfcOut"] /\ port'["source"].counter = port["source"].counter
    BY <1>8
  <2>5. ~Ended("mfcOut")' =>
          /\ \A k \in DOMAIN ready'["mfcOut"] :
               content'[ready'["mfcOut"][k]] = port'["mfcOut"].counter + k
          /\ \A k \in DOMAIN queued'["mfcIn"] :
               content'[queued'["mfcIn"][k]] = port'["mfcOut"].counter + Len(ready'["mfcOut"]) + k
          /\ port'["source"].counter =
               port'["mfcOut"].counter + Len(ready'["mfcOut"]) + Len(queued'["mfcIn"])
    BY <1>9, <2>2, <2>3, <2>4 DEF Line
  <2>6. ~Ended("file")' =>
          /\ Len(written') + Len(queued'["file"]) = port'["mfcOut"].counter
          /\ \A k \in DOMAIN queued'["file"] : content'[queued'["file"][k]] = Len(written') + k
    BY <1>9, <2>1, <2>3, <2>4 DEF Line
  <2>7. source' = "camera" /\ ~Ended("source")' =>
          /\ captured' = port'["source"].counter + Len(ready'["source"])
          /\ \A k \in DOMAIN ready'["source"] : content'[ready'["source"][k]] = port'["source"].counter + k
    BY <1>9, <2>1, <2>3, <2>4 DEF Line
  <2>8. \A k \in DOMAIN written' : written'[k] = k
    BY <2>3, <2>4 DEF Line
  <2>9. QED
    BY <2>5, <2>6, <2>7, <2>8 DEF Line
<1>18. Endings'
  BY <1>8 DEF Endings
<1>19. QED
  BY <1>11, <1>12, <1>13, <1>14, <1>15, <1>16, <1>17, <1>18 DEF ChainInv

-----------------------------------------------------------------------------
(* From the file back to the MFC                                           *)

(* What it does to the ports and the queues when a frame is written, or    *)
(* the write fails, and its buffer goes back to the MFC or is dropped      *)
OutputReturned ==
  /\ port["file"].state = "ready" /\ queued["file"] # <<>>
  /\ port' \in [Ports -> PortRecord]
  /\ port'["source"] = port["source"] /\ port'["mfcIn"] = port["mfcIn"]
  /\ port'["file"].nbufs = port["file"].nbufs - 1 /\ port["file"].nbufs > 0
  /\ port'["file"].limit = 0
  /\ \/ port'["file"].state = "end" /\ faults' > 0 /\ UNCHANGED written
     \/ /\ port'["file"].state = IF Len(queued["file"]) = 1 THEN "off" ELSE "busy"
        /\ written' = Append(written, content[Head(queued["file"])]) /\ UNCHANGED faults
  /\ faults' \in 0 .. MaxFaults /\ faults' >= faults
  /\ port'["mfcOut"].counter = port["mfcOut"].counter /\ port'["mfcOut"].limit = 0
  /\ port'["mfcOut"].state = port["mfcOut"].state
  /\ ~Ended("mfcOut") => port'["mfcOut"].nbufs = port["mfcOut"].nbufs + 1
  /\ \A z \in Places :
       \/ Way(at, at', "file", "output", z)
       \/ Ended("mfcOut") /\ z = "output" /\ at'[z] = at[z]
  /\ ~Ended("mfcOut") => Way(at, at', "file", "output", "output")
  /\ queued' \in [Ports -> Seq(Bufs)]
  /\ pc' = "event"
  /\ UNCHANGED <<pair, source, event, ready, held, content, captured, stopped, eos>>

(* That becomes of the chain when the second pair returns a buffer.        *)
LEMMA OutputGivenBack == ChainInv /\ pair = 2 /\ GiveBack => OutputReturned
<1> SUFFICES ASSUME ChainInv, pair = 2, GiveBack PROVE OutputReturned
  OBVIOUS
<1>1. /\ Up[pair] = "mfcOut" /\ Down[pair] = "file" /\ "source" \in Ports /\ "mfcIn" \in Ports
      /\ "mfcOut" \in Ports /\ "file" \in Ports /\ IsFunc("file") /\ HasFd("file")
  BY DEF Up, Down, Ports, IsFunc, HasFd
<1>2. port["file"].state = "ready" /\ ~Ended("file")
  BY <1>1 DEF GiveBack, Ended
<1>3. PICK io \in BOOLEAN :
        LET q == [port EXCEPT !["file"] = AfterDeq("file", io)]
            Q == QueuedWithout("file", q)
        IN  /\ IF io THEN Fault ELSE UNCHANGED faults
            /\ written' = IF ~io THEN Append(written, content[First("file")]) ELSE written
            /\ port' = IF Ended("mfcOut") THEN q ELSE AfterEnq(q, "mfcOut")
            /\ queued' = IF Ended("mfcOut") THEN Q ELSE [Q EXCEPT !["mfcOut"] = Append(@, First("file"))]
            /\ ready' = ReadyWithout("file", q)
            /\ held' = IF StreamsOff("file", q) THEN <<>> ELSE held
  <2>1. PICK io \in BOOLEAN :
          LET u == Up[pair]
              d == Down[pair]
              q == [port EXCEPT ![d] = AfterDeq(d, io)]
              Q == QueuedWithout(d, q)
          IN  /\ IF io THEN d = "file" /\ Fault ELSE UNCHANGED faults
              /\ written' = IF d = "file" /\ ~io THEN Append(written, content[First(d)]) ELSE written
              /\ port' = IF port[u].state = "end" THEN q ELSE AfterEnq(q, u)
              /\ queued' = IF port[u].state = "end" THEN Q ELSE [Q EXCEPT ![u] = Append(@, First(d))]
              /\ ready' = ReadyWithout(d, q)
              /\ held' = IF StreamsOff(d, q) THEN <<>> ELSE held
    BY DEF GiveBack
  <2>2. Up[pair] = "mfcOut" /\ Down[pair] = "file"
    BY <1>1
  <2>3. QED
    BY <2>1, <2>2 DEF Ended
<1> DEFINE a == AfterDeq("file", io)
           q == [port EXCEPT !["file"] = a]
           b == First("file")
           Q == QueuedWithout("file", q)
<1>4. /\ pc' = "event" /\ UNCHANGED <<pair, source, event, content, captured, stopped, eos>>
      /\ IF io THEN Fault ELSE UNCHANGED faults
      /\ written' = IF ~io THEN Append(written, content[b]) ELSE written
      /\ port' = IF Ended("mfcOut") THEN q ELSE AfterEnq(q, "mfcOut")
      /\ queued' = IF Ended("mfcOut") THEN Q ELSE [Q EXCEPT !["mfcOut"] = Append(@, b)]
      /\ ready' = ReadyWithout("file", q) /\ held' = held
  <2>1. pc' = "event" /\ UNCHANGED <<pair, source, event, content, captured, stopped, eos>>
    BY DEF GiveBack, NextPair
  <2>2. \A r : ~StreamsOff("file", r)
    BY DEF StreamsOff
  <2>3. QED
    BY <1>3, <2>1, <2>2
<1>5. /\ port \in [Ports -> PortRecord] /\ port["file"] \in PortRecord /\ port["file"].nbufs > 0
      /\ queued["file"] # <<>> /\ port["mfcOut"] \in PortRecord
  BY <1>1, <1>2, ReadyPort
<1>6. port["file"].limit = 0 /\ port["mfcOut"].limit = 0
  BY DEF ChainInv, Limits
<1>7. /\ a \in PortRecord /\ a.counter = port["file"].counter + 1 /\ a.nbufs = port["file"].nbufs - 1
      /\ a.limit = 0
      /\ a.state = IF io THEN "end" ELSE IF Len(queued["file"]) = 1 THEN "off" ELSE "busy"
  <2>1. FuncStateAfter("file") = IF Len(queued["file"]) = 1 THEN "off" ELSE "busy"
    BY <1>1 DEF FuncStateAfter
  <2>2. QED
    BY <1>1, <1>5, <1>6, <2>1, AfterDequeuing
<1> HIDE DEF a
<1>8. /\ q \in [Ports -> PortRecord] /\ q["file"] = a /\ q["source"] = port["source"]
      /\ q["mfcIn"] = port["mfcIn"] /\ q["mfcOut"] = port["mfcOut"]
  BY <1>1, <1>5, <1>7
<1> HIDE DEF q
<1>9. /\ Q \in [Ports -> Seq(Bufs)] /\ ready' = ready /\ b = Head(queued["file"]) /\ b \in Bufs
      /\ Q["file"] = Tail(queued["file"]) /\ Q["source"] = queued["source"]
      /\ Q["mfcIn"] = queued["mfcIn"] /\ Q["mfcOut"] = queued["mfcOut"]
  BY <1>1, <1>2, <1>4, WithoutFirst
<1> HIDE DEF Q, b
<1>10. /\ port' \in [Ports -> PortRecord]
       /\ \A r \in {"source", "mfcIn", "file"} : port'[r] = q[r]
       /\ port'["mfcOut"].counter = port["mfcOut"].counter /\ port'["mfcOut"].limit = 0
       /\ port'["mfcOut"].state = port["mfcOut"].state
       /\ ~Ended("mfcOut") => port'["mfcOut"].nbufs = port["mfcOut"].nbufs + 1
  <2>1. CASE Ended("mfcOut")
    BY <1>1, <1>4, <1>6, <1>8, <2>1
  <2>2. CASE ~Ended("mfcOut")
    <3> DEFINE p == "mfcOut"
    <3>1. p \in Ports /\ port' = AfterEnq(q, p) /\ p = "mfcOut"
      BY <1>1, <1>4, <2>2
    <3> HIDE DEF p
    <3>2. /\ port' \in [Ports -> PortRecord]
          /\ \A r \in Ports :
               /\ port'[r].counter = q[r].counter /\ port'[r].limit = q[r].limit
               /\ port'[r].nbufs = q[r].nbufs + (IF r = p THEN 1 ELSE 0)
               /\ port'[r].state = q[r].state
      <4> DEFINE E == AfterEnq(q, p)
      <4>1. q \in [Ports -> PortRecord] /\ p \in Ports
        BY <1>8, <3>1
      <4>2. /\ E \in [Ports -> PortRecord]
            /\ \A r \in Ports :
                 /\ E[r].counter = q[r].counter /\ E[r].limit = q[r].limit
                 /\ E[r].nbufs = q[r].nbufs + (IF r = p THEN 1 ELSE 0)
                 /\ p = "mfcOut" => E[r].state = q[r].state
        BY <4>1, AfterEnqueuing
      <4>3. port' = E
        BY <3>1
      <4> HIDE DEF E
      <4>4. QED
        BY <3>1, <4>2, <4>3
    <3>3. \A r \in {"source", "mfcIn", "file"} : port'[r] = q[r]
      <4> SUFFICES ASSUME NEW r \in {"source", "mfcIn", "file"} PROVE port'[r] = q[r]
        OBVIOUS
      <4>1. r \in Ports /\ r # p /\ port'[r] \in PortRecord /\ q[r] \in PortRecord
        BY <1>1, <1>8, <3>1, <3>2
      <4>2. /\ port'[r].counter = q[r].counter /\ port'[r].limit = q[r].limit
            /\ port'[r].nbufs = q[r].nbufs /\ port'[r].state = q[r].state
        BY <3>2, <4>1 DEF PortRecord
      <4>3. QED
        BY <4>1, <4>2 DEF PortRecord
    <3>4. QED
      BY <1>1, <1>6, <1>8, <3>1, <3>2, <3>3
  <2>3. QED
    BY <2>1, <2>2
<1>11. Append(Q["mfcOut"], b) \in Seq(Bufs)
  BY <1>1, <1>9, Put
<1>12. /\ queued' \in [Ports -> Seq(Bufs)]
       /\ queued'["source"] = Q["source"] /\ queued'["mfcIn"] = Q["mfcIn"] /\ queued'["file"] = Q["file"]
       /\ Ended("mfcOut") => queued'["mfcOut"] = Q["mfcOut"]
       /\ ~Ended("mfcOut") => queued'["mfcOut"] = Append(Q["mfcOut"], b)
  BY <1>1, <1>4, <1>9, <1>11
<1>13. /\ \A z \in Places :
            \/ Way(at, at', "file", "output", z)
            \/ Ended("mfcOut") /\ z = "output" /\ at'[z] = at[z]
       /\ ~Ended("mfcOut") => Way(at, at', "file", "output", "output")
  BY <1>4, <1>9, <1>12, AtPlaces, ZenonT(60) DEF Way, Places
<1>14. /\ faults' \in 0 .. MaxFaults /\ faults' >= faults
       /\ IF io THEN faults' > 0 ELSE faults' = faults
  <2>1. faults \in 0 .. MaxFaults /\ MaxFaults \in Nat
    BY ChainAssumption DEF ChainInv, TypeOK
  <2>2. Fault => faults' > 0 /\ faults' \in 0 .. MaxFaults /\ faults' >= faults
    BY <2>1 DEF Fault
  <2>3. QED
    BY <1>4, <2>1, <2>2
<1>15. QED
  BY <1>2, <1>4, <1>5, <1>7, <1>8, <1>9, <1>10, <1>12, <1>13, <1>14 DEF OutputReturned

(* A frame written, and its buffer given back to the MFC or dropped, keeps *)
(* the invariant.                                                          *)
LEMMA OutputReturnKeeps == ChainInv /\ pair = 2 /\ GiveBack => ChainInv'
<1> SUFFICES ASSUME ChainInv, OutputReturned PROVE ChainInv'
  BY OutputGivenBack
<1>1. /\ "source" \in Ports /\ "mfcIn" \in Ports /\ "mfcOut" \in Ports /\ "file" \in Ports
      /\ \A p \in Ports : p \in {"source", "mfcIn", "mfcOut", "file"}
      /\ (IsFunc("source") <=> source = "demo") /\ ~IsFunc("mfcIn") /\ ~IsFunc("mfcOut") /\ IsFunc("file")
      /\ \A p : IsFunc(p)' <=> IsFunc(p)
  BY DEF Ports, IsFunc, OutputReturned
<1>2. /\ at \in [Places -> Seq(Bufs)] /\ port \in [Ports -> PortRecord]
      /\ "file" \in OutPlaces /\ "output" \in OutPlaces /\ at["file"] # <<>>
      /\ "file" \in Places /\ "output" \in Places /\ "outputDone" \in Places
      /\ \A z \in InPlaces \cup OutPlaces : z \in Places
  BY PlaceTypes, AtPlaces DEF ChainInv, OutputReturned, Places, InPlaces, OutPlaces, TypeOK, PortRecord
<1>3. /\ port["file"].state # "end" /\ port["file"].nbufs \in Nat /\ port["mfcOut"].nbufs \in Nat
      /\ port["mfcOut"].counter \in Nat
  BY <1>1, <1>2, PortFields DEF OutputReturned
<1>4. /\ \A z \in Places : Way(at, at', "file", "output", z) \/ (Ended("mfcOut") /\ z = "output" /\ at'[z] = at[z])
      /\ ~Ended("mfcOut") => Way(at, at', "file", "output", "output")
  BY DEF OutputReturned
<1>5. /\ at'["source"] = at["source"] /\ at'["sourceDone"] = at["sourceDone"]
      /\ at'["input"] = at["input"] /\ at'["held"] = at["held"] /\ at'["inputDone"] = at["inputDone"]
      /\ at'["outputDone"] = at["outputDone"] /\ at'["file"] = Tail(at["file"])
      /\ ~Ended("mfcOut") => at'["output"] = Append(at["output"], Head(at["file"]))
  BY <1>4 DEF Way, Places
<1>6. /\ Head(at["file"]) \in Bufs /\ Head(at["file"]) = at["file"][1] /\ 1 \in DOMAIN at["file"]
      /\ Len(at'["file"]) = Len(at["file"]) - 1 /\ Len(at["file"]) \in Nat
      /\ \A k \in DOMAIN at'["file"] :
           k \in Nat /\ k + 1 \in DOMAIN at["file"] /\ at'["file"][k] = at["file"][k + 1]
      /\ at'["file"] = <<>> <=> Len(at["file"]) = 1
  <2> DEFINE s == at["file"]
  <2>1. s \in Seq(Bufs) /\ s # <<>>
    BY <1>2
  <2>2. at'["file"] = Tail(s)
    BY <1>5
  <2> HIDE DEF s
  <2>3. Tail(s) = <<>> <=> Len(s) = 1
    BY <2>1, OnlyOne
  <2>4. /\ Head(s) \in Bufs /\ Head(s) = s[1] /\ 1 \in DOMAIN s
        /\ Len(Tail(s)) = Len(s) - 1 /\ Len(s) \in Nat
        /\ \A k \in DOMAIN Tail(s) : k \in Nat /\ k + 1 \in DOMAIN s /\ Tail(s)[k] = s[k + 1]
    BY <2>1, Taken
  <2>5. QED
    BY <2>2, <2>3, <2>4 DEF s
<1>7. ~Ended("mfcOut") => Len(at'["output"]) = Len(at["output"]) + 1 /\ Len(at["output"]) \in Nat
  <2> DEFINE s == at["output"]
             e == Head(at["file"])
  <2>1. s \in Seq(Bufs) /\ e \in Bufs
    BY <1>2, <1>6
  <2>2. ~Ended("mfcOut") => at'["output"] = Append(s, e)
    BY <1>5
  <2> HIDE DEF s, e
  <2>3. Len(Append(s, e)) = Len(s) + 1 /\ Len(s) \in Nat
    BY <2>1, Put
  <2>4. QED
    BY <2>2, <2>3 DEF s
<1>8. /\ port'["source"] = port["source"] /\ port'["mfcIn"] = port["mfcIn"]
      /\ port'["file"].nbufs = port["file"].nbufs - 1 /\ port["file"].nbufs > 0 /\ port'["file"].limit = 0
      /\ \/ port'["file"].state = "end" /\ faults' > 0 /\ UNCHANGED written
         \/ /\ port'["file"].state = IF Len(at["file"]) = 1 THEN "off" ELSE "busy"
            /\ written' = Append(written, content[Head(at["file"])]) /\ UNCHANGED faults
      /\ faults' \in 0 .. MaxFaults /\ faults' >= faults
      /\ port'["mfcOut"].counter = port["mfcOut"].counter /\ port'["mfcOut"].limit = 0
      /\ port'["mfcOut"].state = port["mfcOut"].state
      /\ ~Ended("mfcOut") => port'["mfcOut"].nbufs = port["mfcOut"].nbufs + 1
      /\ port' \in [Ports -> PortRecord] /\ queued' \in [Ports -> Seq(Bufs)]
      /\ pc' = "event"
      /\ UNCHANGED <<pair, source, event, ready, held, content, captured, stopped, eos>>
  BY AtPlaces DEF OutputReturned
<1>9. /\ Ended("source")' <=> Ended("source")
      /\ Ended("mfcIn")' <=> Ended("mfcIn")
      /\ Ended("mfcOut")' <=> Ended("mfcOut")
      /\ ~Ended("file") /\ (Ended("file")' <=> port'["file"].state = "end")
  BY <1>3, <1>8 DEF Ended
<1>10. faults \in Nat /\ faults' \in Nat /\ (faults' = 0 => faults = 0) /\ (faults > 0 => faults' > 0)
  <2>1. faults' \in 0 .. MaxFaults /\ faults' >= faults
    BY <1>8
  <2>2. faults \in 0 .. MaxFaults /\ MaxFaults \in Nat
    BY ChainAssumption DEF ChainInv, TypeOK
  <2>3. QED
    BY <2>1, <2>2
<1>11. /\ written \in Seq(Nat) /\ content[Head(at["file"])] \in Nat
       /\ Len(written) \in Nat /\ \A k \in DOMAIN written : written[k] = k
       /\ content[Head(at["file"])] = Len(written) + 1
       /\ \A k \in DOMAIN at["file"] : content[at["file"][k]] = Len(written) + k
       /\ Len(written) + Len(at["file"]) = port["mfcOut"].counter
  <2>1. written \in Seq(Nat) /\ content \in [Bufs -> Nat]
    BY DEF ChainInv, TypeOK
  <2>2. /\ \A k \in DOMAIN at["file"] : content[at["file"][k]] = Len(written) + k
        /\ Len(written) + Len(at["file"]) = port["mfcOut"].counter
        /\ \A k \in DOMAIN written : written[k] = k
    BY <1>9, AtPlaces DEF ChainInv, Line
  <2>3. QED
    BY <1>6, <2>1, <2>2
<1>12. written' = written \/ written' = Append(written, Len(written) + 1)
  BY <1>8, <1>11
<1>13. written' \in Seq(Nat) /\ \A k \in DOMAIN written' : written'[k] = k
  <2>1. CASE written' = written
    BY <1>11, <2>1
  <2>2. CASE written' = Append(written, Len(written) + 1)
    BY <1>11, <2>2, Put
  <2>3. QED
    BY <1>12, <2>1, <2>2
<1>14. TypeOK'
  <2>1. ControlTypes'
    BY <1>8 DEF ControlTypes, ChainInv, TypeOK
  <2>2. PortTypes'
    BY <1>8 DEF PortTypes
  <2>3. QueueTypes'
    BY <1>8 DEF QueueTypes, ChainInv, TypeOK
  <2>4. FrameTypes'
    BY <1>8, <1>13 DEF FrameTypes, ChainInv, TypeOK
  <2>5. QED
    BY <2>1, <2>2, <2>3, <2>4 DEF TypeOK, ControlTypes, PortTypes, PortRecord, QueueTypes, FrameTypes
<1>15. PairsApart'
  <2>1. Apart(at) /\ OfTheirPair(at) /\ DOMAIN at' = Places
    BY AtPlaces DEF ChainInv, PairsApart
  <2>2. /\ Apart(at') /\ OfTheirPair(at')
        /\ (\A z \in InPlaces : Way(at, at', "file", "output", z)) /\ AllIn(at) => AllIn(at')
        /\ (\A z \in OutPlaces : Way(at, at', "file", "output", z)) /\ AllOut(at) => AllOut(at')
    <3> DEFINE P == OutPlaces
    <3>1. P \in {InPlaces, OutPlaces} /\ "file" \in P /\ "output" \in P
      BY <1>2
    <3>2. \A z \in Places :
            Way(at, at', "file", "output", z) \/ (at'[z] = at[z] /\ z # "file") \/ at'[z] = <<>>
      BY <1>4
    <3> HIDE DEF P
    <3>3. QED
      BY <1>2, <2>1, <3>1, <3>2, Moving
  <2>3. \A z \in InPlaces : z # "output"
    BY DEF InPlaces
  <2>4. ~Ended("source")' /\ ~Ended("mfcIn")' => AllIn(at')
    BY <1>2, <1>4, <1>9, <2>2, <2>3 DEF ChainInv, PairsApart
  <2>5. ~Ended("mfcOut")' /\ ~Ended("file")' => AllOut(at')
    BY <1>2, <1>4, <1>9, <2>2 DEF ChainInv, PairsApart
  <2>6. QED
    BY <2>2, <2>4, <2>5 DEF PairsApart, Apart, OfTheirPair, AllIn, AllOut
<1>16. PortStates'
  <2>1. /\ source = "demo" =>
             /\ ready'["source"] = <<>>
             /\ port'["source"].state \in {"busy", "ready"} <=> queued'["source"] # <<>> /\ ~Ended("source")'
        /\ source # "demo" /\ port'["source"].state = "ready" => ready'["source"] # <<>>
        /\ port'["mfcIn"].state = "ready" => ready'["mfcIn"] # <<>>
        /\ port'["mfcOut"].state = "ready" => ready'["mfcOut"] # <<>>
        /\ port'["source"].state # IF source = "demo" THEN "busy" ELSE "off"
    BY <1>1, <1>5, <1>8, <1>9, AtPlaces DEF ChainInv, PortStates
  <2>2. ready'["file"] = <<>>
    BY <1>1, <1>8 DEF ChainInv, PortStates
  <2>3. port'["file"].state \in {"busy", "ready"} <=> queued'["file"] # <<>> /\ ~Ended("file")'
    BY <1>6, <1>8, <1>9, AtPlaces
  <2>4. QED
    BY <1>1, <1>8, <2>1, <2>2, <2>3, ZenonT(60) DEF PortStates
<1>17. Counts'
  <2>1. /\ ~Ended("source")' => port'["source"].nbufs = Len(queued'["source"]) + Len(ready'["source"])
        /\ ~Ended("mfcIn")' => port'["mfcIn"].nbufs = Len(queued'["mfcIn"]) + Len(ready'["mfcIn"]) + Len(held')
    BY <1>5, <1>8, <1>9, AtPlaces DEF ChainInv, Counts
  <2>2. ~Ended("file")' => port'["file"].nbufs = Len(queued'["file"])
    BY <1>6, <1>8, <1>9, AtPlaces DEF ChainInv, Counts
  <2>3. ~Ended("mfcOut")' => port'["mfcOut"].nbufs = Len(queued'["mfcOut"]) + Len(ready'["mfcOut"])
    <3> SUFFICES ASSUME ~Ended("mfcOut")
                 PROVE  port'["mfcOut"].nbufs = Len(at'["output"]) + Len(at'["outputDone"])
      BY <1>9, AtPlaces
    <3>1. port["mfcOut"].nbufs = Len(at["output"]) + Len(at["outputDone"])
      BY AtPlaces DEF ChainInv, Counts
    <3>2. \A l, m \in Nat : (l + m) + 1 = (l + 1) + m
      OBVIOUS
    <3>3. Len(at["outputDone"]) \in Nat
      BY <1>2, Held
    <3>4. (Len(at["output"]) + Len(at["outputDone"])) + 1 = (Len(at["output"]) + 1) + Len(at["outputDone"])
      BY <1>7, <3>2, <3>3
    <3>5. QED
      BY <1>5, <1>7, <1>8, <3>1, <3>4
  <2>4. QED
    BY <2>1, <2>2, <2>3 DEF Counts
<1>18. Limits'
  BY <1>8, <1>9, <1>10 DEF ChainInv, Limits
<1>19. Streams'
  BY <1>8, <1>9, <1>10 DEF ChainInv, Streams
<1>20. Line'
  <2>1. ~Ended("file")' =>
          /\ Len(written') + Len(queued'["file"]) = port'["mfcOut"].counter
          /\ \A k \in DOMAIN queued'["file"] : content'[queued'["file"][k]] = Len(written') + k
    <3> SUFFICES ASSUME ~Ended("file")'
                 PROVE  /\ Len(written') + Len(at'["file"]) = port["mfcOut"].counter
                        /\ \A k \in DOMAIN at'["file"] : content[at'["file"][k]] = Len(written') + k
      BY <1>8, AtPlaces
    <3>1. written' = Append(written, Len(written) + 1)
      BY <1>8, <1>9, <1>11
    <3>2. Len(written') = Len(written) + 1
      BY <1>11, <3>1
    <3>3. \A n, l \in Nat : (n + 1) + (l - 1) = n + l
      OBVIOUS
    <3>4. (Len(written) + 1) + (Len(at["file"]) - 1) = Len(written) + Len(at["file"])
      BY <1>6, <1>11, <3>3
    <3>5. Len(written') + Len(at'["file"]) = port["mfcOut"].counter
      BY <1>6, <1>11, <3>2, <3>4
    <3>6. \A k \in DOMAIN at'["file"] : content[at'["file"][k]] = Len(written') + k
      <4> TAKE k \in DOMAIN at'["file"]
      <4>1. k \in Nat /\ content[at'["file"][k]] = Len(written) + (k + 1)
        BY <1>6, <1>11
      <4>2. QED
        BY <1>11, <3>2, <4>1
    <3>7. QED
      BY <3>5, <3>6
  <2>2. Line /\ ready'["mfcOut"] = ready["mfcOut"] /\ queued'["mfcIn"] = queued["mfcIn"]
        /\ ready'["source"] = ready["source"]
    BY <1>5, AtPlaces DEF ChainInv
  <2>3. ~Ended("mfcOut")' =>
          /\ \A k \in DOMAIN ready'["mfcOut"] :
               content'[ready'["mfcOut"][k]] = port'["mfcOut"].counter + k
          /\ \A k \in DOMAIN queued'["mfcIn"] :
               content'[queued'["mfcIn"][k]] = port'["mfcOut"].counter + Len(ready'["mfcOut"]) + k
          /\ port'["source"].counter =
               port'["mfcOut"].counter + Len(ready'["mfcOut"]) + Len(queued'["mfcIn"])
    BY <1>8, <1>9, <2>2 DEF Line
  <2>4. source' = "camera" /\ ~Ended("source")' =>
          /\ captured' = port'["source"].counter + Len(ready'["source"])
          /\ \A k \in DOMAIN ready'["source"] : content'[ready'["source"][k]] = port'["source"].counter + k
    BY <1>8, <1>9, <2>2 DEF Line
  <2>5. QED
    BY <1>13, <2>1, <2>3, <2>4 DEF Line
<1>21. Endings'
  BY <1>8 DEF Endings
<1>22. QED
  BY <1>14, <1>15, <1>16, <1>17, <1>18, <1>19, <1>20, <1>21 DEF ChainInv

-----------------------------------------------------------------------------
(* Steps that move no buffer                                               *)

(* The ports as they were counted; only the MFC's output may have ended.   *)
SamePorts ==
  /\ port' \in [Ports -> PortRecord]
  /\ \A p \in Ports : /\ port'[p].counter = port[p].counter /\ port'[p].nbufs = port[p].nbufs
                      /\ port'[p].limit = port[p].limit
                      /\ port'[p].state = "end" <=> port[p].state = "end" \/ (p = "mfcOut" /\ eos' = "taken")

(* What is true of the buffers and their frames stays true.                *)
LEMMA BuffersKept ==
  ASSUME ChainInv, SamePorts, UNCHANGED <<queued, ready, held, content, captured, source, written>>,
         faults' \in 0 .. MaxFaults, faults' >= faults
  PROVE  PairsApart' /\ Counts' /\ Limits' /\ Line' /\ PortTypes' /\ QueueTypes' /\ FrameTypes'
<1>1. "source" \in Ports /\ "mfcIn" \in Ports /\ "mfcOut" \in Ports /\ "file" \in Ports
  BY DEF Ports
<1>2. /\ Ended("source")' <=> Ended("source")
      /\ Ended("mfcIn")' <=> Ended("mfcIn")
      /\ Ended("file")' <=> Ended("file")
      /\ ~Ended("mfcOut")' => ~Ended("mfcOut")
  BY <1>1 DEF SamePorts, Ended
<1>3. at' = at
  BY DEF at
<1>4. \A p \in Ports : /\ port'[p].counter = port[p].counter /\ port'[p].nbufs = port[p].nbufs
                       /\ port'[p].limit = port[p].limit
  BY DEF SamePorts
<1>5. faults \in Nat /\ (faults > 0 => faults' > 0)
  BY ChainAssumption DEF ChainInv, TypeOK
<1>6. PairsApart'
  <2>1. PairsApart
    BY DEF ChainInv
  <2>2. Apart(at') /\ OfTheirPair(at') /\ (~Ended("source")' /\ ~Ended("mfcIn")' => AllIn(at'))
        /\ (~Ended("mfcOut")' /\ ~Ended("file")' => AllOut(at'))
    BY <1>2, <1>3, <2>1 DEF PairsApart
  <2>3. QED
    BY <2>2 DEF PairsApart, Apart, OfTheirPair, AllIn, AllOut
<1>7. Counts'
  BY <1>1, <1>2, <1>4 DEF ChainInv, Counts
<1>8. Limits'
  BY <1>1, <1>2, <1>4, <1>5 DEF ChainInv, Limits
<1>9. Line'
  BY <1>1, <1>2, <1>4 DEF ChainInv, Line
<1>10. PortTypes' /\ QueueTypes' /\ FrameTypes'
  BY DEF SamePorts, PortTypes, QueueTypes, FrameTypes, ChainInv, TypeOK
<1>11. QED
  BY <1>6, <1>7, <1>8, <1>9, <1>10

(* A step that changes nothing but where the program is                    *)
LEMMA QuietKeeps ==
  ASSUME ChainInv, UNCHANGED <<port, event, queued, ready, hwVars, written>>,
         pc' \in {"wait", "take", "giveBack", "event", "done", "failed"}, pair' \in Pairs,
         faults' \in 0 .. MaxFaults, faults' >= faults,
         pc' = "done" /\ faults' = 0 => Ended("mfcIn") /\ eos = "taken" /\ Len(written) = port["mfcOut"].counter
  PROVE  ChainInv'
<1>1. /\ port' = port /\ event' = event /\ queued' = queued /\ ready' = ready /\ held' = held
      /\ content' = content /\ captured' = captured /\ source' = source /\ written' = written
      /\ stopped' = stopped /\ eos' = eos
  BY DEF hwVars
<1>2. faults \in Nat /\ (faults' = 0 => faults = 0)
  BY ChainAssumption DEF ChainInv, TypeOK
<1>3. SamePorts
  BY <1>1 DEF SamePorts, ChainInv, TypeOK, PortRecord, Streams, Ended
<1>4. PairsApart' /\ Counts' /\ Limits' /\ Line' /\ PortTypes' /\ QueueTypes' /\ FrameTypes'
  BY <1>1, <1>3, BuffersKept
<1>5. ControlTypes'
  BY <1>1 DEF ControlTypes, ChainInv, TypeOK
<1>6. TypeOK'
  BY <1>4, <1>5 DEF TypeOK, ControlTypes, PortTypes, PortRecord, QueueTypes, FrameTypes
<1>7. PortStates'
  BY <1>1 DEF ChainInv, PortStates, IsFunc, Ended
<1>8. Streams'
  BY <1>1, <1>2 DEF ChainInv, Streams, Ended
<1>9. Endings'
  BY <1>1 DEF Endings, Ended
<1>10. QED
  BY <1>4, <1>6, <1>7, <1>8, <1>9 DEF ChainInv

(* A fault is counted.                                                     *)
LEMMA FaultCounted ==
  ASSUME ChainInv
  PROVE  /\ faults \in 0 .. MaxFaults /\ faults >= faults
         /\ Fault => faults' \in 0 .. MaxFaults /\ faults' >= faults /\ faults' > 0
<1>1. faults \in 0 .. MaxFaults /\ MaxFaults \in Nat
  BY ChainAssumption DEF ChainInv, TypeOK
<1>2. QED
  BY <1>1 DEF Fault

(* The chain ends when nothing can be waited for: the MFC has given back   *)
(* its last input and its end was seen, and the file has nothing to write. *)
LEMMA EndReached ==
  ASSUME ChainInv, faults = 0, ~AnyReady, Polled = {}
  PROVE  Ended("mfcIn") /\ eos = "taken" /\ Len(written) = port["mfcOut"].counter
<1>1. /\ "source" \in Ports /\ "mfcIn" \in Ports /\ "mfcOut" \in Ports /\ "file" \in Ports
      /\ (IsFunc("source") <=> source = "demo") /\ (HasFd("source") <=> source # "demo")
      /\ IsFunc("file") /\ HasFd("file") /\ HasFd("mfcIn") /\ HasFd("mfcOut")
  BY DEF Ports, IsFunc, HasFd
<1>2. port \in [Ports -> PortRecord]
  BY DEF ChainInv, TypeOK, PortRecord
<1>3. \A p \in Ports : port[p].state # "ready" /\ (HasFd(p) => port[p].state # "busy") /\ port[p].state \in States
  BY <1>2, PortFields DEF AnyReady, Polled
<1>4. ~Ended("file") /\ queued["file"] = <<>>
  BY <1>1, <1>3 DEF ChainInv, Limits, PortStates, TypeOK
<1>5. Len(written) = port["mfcOut"].counter
  <2>1. Len(queued["file"]) = 0 /\ Len(written) \in Nat
    BY <1>4 DEF ChainInv, TypeOK
  <2>2. QED
    BY <1>4, <2>1 DEF ChainInv, Line
<1>6. Ended("mfcIn")
  <2> SUFFICES ASSUME ~Ended("mfcIn") PROVE FALSE
    OBVIOUS
  <2>1. port["mfcIn"].state = "off" /\ port["source"].counter = 0
    BY <1>1, <1>3 DEF Ended, States, ChainInv, Streams
  <2>2. ~Ended("source")
    BY <2>1, ChainAssumption DEF ChainInv, Limits
  <2>3. source = "demo" /\ queued["source"] = <<>> /\ ready["source"] = <<>>
    BY <1>1, <1>3, <2>2 DEF ChainInv, PortStates, Ended, States
  <2>4. at \in [Places -> Seq(Bufs)] /\ \A z \in InPlaces : z \in Places
    BY PlaceTypes DEF ChainInv, InPlaces, Places
  <2>5. Len(at["input"]) \in Nat /\ Len(at["held"]) \in Nat /\ Len(at["inputDone"]) \in Nat
    <3>1. "input" \in Places /\ "held" \in Places /\ "inputDone" \in Places
      BY DEF Places
    <3>2. QED
      BY <2>4, <3>1, Held
  <2>6. Len(at["input"]) + Len(at["inputDone"]) + Len(at["held"]) = 0
    <3>1. port["mfcIn"].counter \in Nat /\ port["mfcIn"].nbufs \in Nat
      BY <1>1, <1>2, PortFields
    <3>2. port["mfcIn"].counter + port["mfcIn"].nbufs = 0
      BY <2>1 DEF ChainInv, Limits
    <3>3. port["mfcIn"].nbufs = 0
      BY <3>1, <3>2
    <3>4. port["mfcIn"].nbufs = Len(at["input"]) + Len(at["inputDone"]) + Len(at["held"])
      BY AtPlaces DEF ChainInv, Counts
    <3>5. QED
      BY <3>3, <3>4
  <2>7. Len(at["input"]) = 0 /\ Len(at["inputDone"]) = 0 /\ Len(at["held"]) = 0
    <3>1. \A l, m, n \in Nat : l + m + n = 0 => l = 0 /\ m = 0 /\ n = 0
      OBVIOUS
    <3>2. QED
      BY <2>5, <2>6, <3>1
  <2>8. \A z \in InPlaces : at[z] = <<>>
    <3>1. at["input"] \in Seq(Bufs) /\ at["inputDone"] \in Seq(Bufs) /\ at["held"] \in Seq(Bufs)
      BY <2>4 DEF Places
    <3>2. at["input"] = <<>> /\ at["inputDone"] = <<>> /\ at["held"] = <<>>
      BY <2>7, <3>1
    <3>3. QED
      BY <2>3, <3>2, AtPlaces DEF InPlaces
  <2>9. <<1, 1>> \in InBufs
    BY ChainAssumption DEF InBufs
  <2>10. PICK z \in InPlaces : <<1, 1>> \in Items(at[z])
    BY <2>2, <2>9 DEF ChainInv, PairsApart, AllIn
  <2>11. QED
    BY <2>8, <2>10 DEF Items
<1>7. eos = "taken"
  BY <1>1, <1>3, <1>6 DEF ChainInv, Streams, Ended, States
<1>8. QED
  BY <1>5, <1>6, <1>7

(* poll makes ports ready whose queues are not empty, and remembers an     *)
(* event that is there.                                                    *)
LEMMA PollKeeps == ChainInv /\ Poll => ChainInv'
<1> SUFFICES ASSUME ChainInv, Poll PROVE ChainInv'
  OBVIOUS
<1>1. /\ port \in [Ports -> PortRecord] /\ \A p \in Ports : p \in {"source", "mfcIn", "mfcOut", "file"}
      /\ "source" \in Ports /\ "mfcIn" \in Ports /\ "mfcOut" \in Ports /\ "file" \in Ports
  BY DEF ChainInv, TypeOK, PortRecord, Ports
<1>2. /\ UNCHANGED <<queued, ready, hwVars, written, faults>> /\ event' = (event \/ EventPending)
      /\ pc' = "take" /\ pair' = 1
      /\ port' = [p \in Ports |->
           IF p \in Polled /\ Readable(p) THEN [port[p] EXCEPT !.state = "ready"] ELSE port[p]]
  BY DEF Poll
<1>3. \A p \in Ports :
        /\ port'[p] \in PortRecord
        /\ port'[p].counter = port[p].counter /\ port'[p].nbufs = port[p].nbufs
        /\ port'[p].limit = port[p].limit
        /\ \/ port'[p].state = port[p].state
           \/ /\ port[p].state = "busy" /\ port'[p].state = "ready" /\ HasFd(p)
              /\ p = "file" \/ ready[p] # <<>>
  <2> TAKE p \in Ports
  <2>1. CASE p \in Polled /\ Readable(p)
    <3>1. port'[p] = [port[p] EXCEPT !.state = "ready"] /\ port[p] \in PortRecord
      BY <1>1, <1>2, <2>1
    <3>2. QED
      BY <2>1, <3>1 DEF PortRecord, States, Polled, Readable
  <2>2. CASE ~(p \in Polled /\ Readable(p))
    BY <1>1, <1>2, <2>2
  <2>3. QED
    BY <2>1, <2>2
<1>4. \A p \in Ports : port'[p].state = "end" <=> port[p].state = "end"
  BY <1>3
<1>5. port' \in [Ports -> PortRecord]
  BY <1>2, <1>3
<1>6. /\ queued' = queued /\ ready' = ready /\ held' = held /\ content' = content /\ captured' = captured
      /\ source' = source /\ written' = written /\ stopped' = stopped /\ eos' = eos /\ faults' = faults
  BY <1>2 DEF hwVars
<1>7. port["mfcOut"].state = "end" <=> eos = "taken"
  BY DEF ChainInv, Streams, Ended
<1>8. SamePorts
  BY <1>3, <1>4, <1>5, <1>6, <1>7 DEF SamePorts
<1>9. PairsApart' /\ Counts' /\ Limits' /\ Line' /\ PortTypes' /\ QueueTypes' /\ FrameTypes'
  BY <1>6, <1>8, BuffersKept, FaultCounted
<1>10. event' \in BOOLEAN /\ (event' => eos = "pending")
  BY <1>2 DEF EventPending, ChainInv, Streams, TypeOK
<1>11. ControlTypes'
  BY <1>2, <1>6, <1>10 DEF ControlTypes, ChainInv, TypeOK, Pairs
<1>12. TypeOK'
  BY <1>9, <1>11 DEF TypeOK, ControlTypes, PortTypes, PortRecord, QueueTypes, FrameTypes
<1>13. PortStates'
  <2>1. /\ source' = "demo" => port'["source"].state = port["source"].state
        /\ \A p : IsFunc(p)' <=> IsFunc(p)
    BY <1>1, <1>3, <1>6 DEF HasFd, IsFunc
  <2>2. \A p \in Ports : IsFunc(p) =>
          /\ ready'[p] = <<>>
          /\ port'[p].state \in {"busy", "ready"} <=> queued'[p] # <<>> /\ ~Ended(p)'
    <3> SUFFICES ASSUME NEW p \in Ports, IsFunc(p)
                 PROVE  /\ ready'[p] = <<>>
                        /\ port'[p].state \in {"busy", "ready"} <=> queued'[p] # <<>> /\ ~Ended(p)'
      OBVIOUS
    <3>1. ready[p] = <<>> /\ (port[p].state \in {"busy", "ready"} <=> queued[p] # <<>> /\ ~Ended(p))
      BY DEF ChainInv, PortStates
    <3>2. port'[p].state \in {"busy", "ready"} <=> port[p].state \in {"busy", "ready"}
      BY <1>3
    <3>3. Ended(p)' <=> Ended(p)
      BY <1>4 DEF Ended
    <3>4. QED
      BY <1>6, <3>1, <3>2, <3>3
  <2>3. \A p \in Ports : ~IsFunc(p) /\ port'[p].state = "ready" => ready'[p] # <<>>
    <3> SUFFICES ASSUME NEW p \in Ports, ~IsFunc(p), port'[p].state = "ready" PROVE ready[p] # <<>>
      BY <1>6
    <3>1. port[p].state = "ready" => ready[p] # <<>>
      BY DEF ChainInv, PortStates
    <3>2. p # "file"
      BY DEF IsFunc
    <3>3. QED
      BY <1>3, <3>1, <3>2
  <2>4. port'["source"].state # IF source' = "demo" THEN "busy" ELSE "off"
    <3>1. port["source"].state # IF source = "demo" THEN "busy" ELSE "off"
      BY DEF ChainInv, PortStates
    <3>2. \/ port["source"].state = "busy" /\ port'["source"].state = "ready"
          \/ port'["source"].state = port["source"].state
      BY <1>1, <1>3
    <3>3. QED
      BY <1>6, <3>1, <3>2
  <2>5. QED
    BY <2>1, <2>2, <2>3, <2>4 DEF PortStates
<1>14. Streams'
  <2>1. /\ port'["mfcIn"].state = "off" <=> port["mfcIn"].state = "off"
        /\ port'["mfcOut"].state = "off" <=> port["mfcOut"].state = "off"
        /\ port'["source"].counter = port["source"].counter
        /\ Ended("source")' <=> Ended("source")
        /\ Ended("mfcOut")' <=> Ended("mfcOut")
    BY <1>1, <1>3, <1>4 DEF Ended
  <2>2. QED
    BY <1>6, <1>10, <2>1 DEF ChainInv, Streams
<1>15. Endings'
  BY <1>2 DEF Endings
<1>16. QED
  BY <1>9, <1>12, <1>13, <1>14, <1>15 DEF ChainInv

(* The end of stream was seen: the MFC's output has ended.                 *)
LEMMA EventKeeps == ChainInv /\ DeqEvent => ChainInv'
<1> SUFFICES ASSUME ChainInv, DeqEvent PROVE ChainInv'
  OBVIOUS
<1>1. /\ port \in [Ports -> PortRecord] /\ "source" \in Ports /\ "mfcIn" \in Ports /\ "mfcOut" \in Ports
      /\ "file" \in Ports /\ \A p \in Ports : p \in {"source", "mfcIn", "mfcOut", "file"}
  BY DEF ChainInv, TypeOK, PortRecord, Ports
<1>2. /\ port' = [port EXCEPT !["mfcOut"].state = "end"] /\ event' = FALSE /\ eos' = "taken" /\ pc' = "wait"
      /\ UNCHANGED <<source, pair, queued, ready, held, content, captured, stopped, written, faults>>
      /\ event
  BY DEF DeqEvent
<1>3. /\ port' \in [Ports -> PortRecord] /\ \A p \in Ports \ {"mfcOut"} : port'[p] = port[p]
      /\ port'["mfcOut"].counter = port["mfcOut"].counter /\ port'["mfcOut"].nbufs = port["mfcOut"].nbufs
      /\ port'["mfcOut"].limit = port["mfcOut"].limit /\ port'["mfcOut"].state = "end"
  BY <1>1, <1>2 DEF PortRecord, States
<1>4. SamePorts
  BY <1>1, <1>2, <1>3 DEF SamePorts
<1>5. PairsApart' /\ Counts' /\ Limits' /\ Line' /\ PortTypes' /\ QueueTypes' /\ FrameTypes'
  BY <1>2, <1>4, BuffersKept, FaultCounted
<1>6. ControlTypes'
  BY <1>2 DEF ControlTypes, ChainInv, TypeOK
<1>7. TypeOK'
  BY <1>5, <1>6 DEF TypeOK, ControlTypes, PortTypes, PortRecord, QueueTypes, FrameTypes
<1>8. PortStates'
  <2>1. \A p : IsFunc(p)' <=> IsFunc(p)
    BY <1>2 DEF IsFunc
  <2>2. ~IsFunc("mfcOut")
    BY DEF IsFunc
  <2>3. QED
    BY <1>1, <1>2, <1>3, <2>1, <2>2 DEF ChainInv, PortStates, Ended
<1>9. Streams'
  <2>1. port["mfcOut"].state # "off" /\ port["mfcIn"].state # "off"
    BY <1>2 DEF ChainInv, Streams
  <2>2. QED
    BY <1>1, <1>2, <1>3, <2>1 DEF ChainInv, Streams, Ended
<1>10. Endings'
  BY <1>2 DEF Endings
<1>11. QED
  BY <1>5, <1>7, <1>8, <1>9, <1>10 DEF ChainInv

(* The MFC reports the end of its stream.                                  *)
LEMMA EosKeeps == ChainInv /\ MfcEos => ChainInv'
<1> SUFFICES ASSUME ChainInv, MfcEos PROVE ChainInv'
  OBVIOUS
<1>1. /\ eos = "none" /\ eos' = "pending" /\ port["mfcOut"].state # "off"
      /\ UNCHANGED <<source, pc, pair, port, event, stopped, written, faults>>
      /\ UNCHANGED <<queued, ready, held, content, captured>>
  BY DEF MfcEos, MfcStreams, swVars
<1>2. port["mfcOut"].state # "end"
  BY <1>1 DEF ChainInv, Streams, Ended
<1>3. SamePorts
  BY <1>1, <1>2 DEF SamePorts, ChainInv, TypeOK, PortRecord
<1>4. PairsApart' /\ Counts' /\ Limits' /\ Line' /\ PortTypes' /\ QueueTypes' /\ FrameTypes'
  BY <1>1, <1>3, BuffersKept, FaultCounted
<1>5. ControlTypes'
  BY <1>1 DEF ControlTypes, ChainInv, TypeOK
<1>6. TypeOK'
  BY <1>4, <1>5 DEF TypeOK, ControlTypes, PortTypes, PortRecord, QueueTypes, FrameTypes
<1>7. PortStates'
  BY <1>1 DEF ChainInv, PortStates, IsFunc, Ended
<1>8. Streams'
  BY <1>1, <1>2 DEF ChainInv, Streams, Ended
<1>9. Endings'
  BY <1>1 DEF ChainInv, Endings, Ended
<1>10. QED
  BY <1>4, <1>6, <1>7, <1>8, <1>9 DEF ChainInv

-----------------------------------------------------------------------------
(* Steps of the devices                                                    *)

(* What the program counts and knows stays true.                           *)
LEMMA ProgramKept ==
  ASSUME ChainInv, UNCHANGED swVars, UNCHANGED eos, captured' \in Nat
  PROVE  /\ ControlTypes' /\ PortTypes' /\ Limits' /\ Streams' /\ Endings'
         /\ port' = port /\ source' = source /\ written' = written
         /\ \A p : IsFunc(p)' <=> IsFunc(p)
         /\ \A p : Ended(p)' <=> Ended(p)
<1>1. /\ source' = source /\ pc' = pc /\ pair' = pair /\ port' = port /\ event' = event
      /\ stopped' = stopped /\ written' = written /\ faults' = faults /\ eos' = eos
  BY DEF swVars
<1>2. ControlTypes' /\ PortTypes'
  BY <1>1 DEF ControlTypes, PortTypes, ChainInv, TypeOK, PortRecord
<1>3. (\A p : IsFunc(p)' <=> IsFunc(p)) /\ (\A p : Ended(p)' <=> Ended(p))
  BY <1>1 DEF IsFunc, Ended
<1>4. Limits' /\ Streams' /\ Endings'
  BY <1>1, <1>3 DEF ChainInv, Limits, Streams, Endings
<1>5. QED
  BY <1>1, <1>2, <1>3, <1>4

(* The camera makes a picture.                                             *)
LEMMA CaptureKeeps == ChainInv /\ CameraCapture => ChainInv'
<1> SUFFICES ASSUME ChainInv, CameraCapture PROVE ChainInv'
  OBVIOUS
<1> DEFINE s == queued["source"]
           t == ready["source"]
           b == Head(s)
<1>1. /\ "source" \in Ports /\ "mfcIn" \in Ports /\ "mfcOut" \in Ports /\ "file" \in Ports
      /\ \A p \in Ports : p \in {"source", "mfcIn", "mfcOut", "file"}
      /\ at \in [Places -> Seq(Bufs)]
      /\ queued \in [Ports -> Seq(Bufs)] /\ ready \in [Ports -> Seq(Bufs)] /\ content \in [Bufs -> Nat]
      /\ captured \in Nat /\ held \in Seq(InBufs)
  BY PlaceTypes DEF Ports, ChainInv, TypeOK
<1>2. s \in Seq(Bufs) /\ t \in Seq(Bufs) /\ s # <<>> /\ source = "camera"
  BY <1>1 DEF CameraCapture
<1>3. b \in Bufs /\ Tail(s) \in Seq(Bufs) /\ Append(t, b) \in Seq(Bufs) /\ Append(t, b) # <<>>
      /\ Len(Tail(s)) = Len(s) - 1 /\ Len(s) \in Nat /\ Len(t) \in Nat /\ Len(Append(t, b)) = Len(t) + 1
      /\ b \in Items(s)
      /\ \A k \in DOMAIN Append(t, b) :
           \/ k \in DOMAIN t /\ Append(t, b)[k] = t[k]
           \/ k = Len(t) + 1 /\ Append(t, b)[k] = b
  <2>1. /\ b \in Bufs /\ Tail(s) \in Seq(Bufs) /\ Len(Tail(s)) = Len(s) - 1 /\ Len(s) \in Nat
        /\ b \in Items(s)
    BY <1>2, Taken
  <2> HIDE DEF s, t, b
  <2>2. QED
    BY <1>2, <2>1, Put
<1>4. /\ queued' = [queued EXCEPT !["source"] = Tail(s)] /\ ready' = [ready EXCEPT !["source"] = Append(t, b)]
      /\ content' = [content EXCEPT ![b] = captured + 1] /\ captured' = captured + 1
      /\ held' = held /\ UNCHANGED swVars /\ UNCHANGED eos
  BY DEF CameraCapture
<1>5. at["source"] = s /\ at["sourceDone"] = t
  BY AtPlaces
<1> HIDE DEF s, t, b
<1>6. /\ queued' \in [Ports -> Seq(Bufs)] /\ ready' \in [Ports -> Seq(Bufs)]
      /\ queued'["source"] = Tail(s) /\ ready'["source"] = Append(t, b)
      /\ queued'["mfcIn"] = queued["mfcIn"] /\ queued'["mfcOut"] = queued["mfcOut"]
      /\ queued'["file"] = queued["file"] /\ ready'["mfcIn"] = ready["mfcIn"]
      /\ ready'["mfcOut"] = ready["mfcOut"] /\ ready'["file"] = ready["file"]
  <2>1. /\ queued' \in [Ports -> Seq(Bufs)] /\ queued'["source"] = Tail(s)
        /\ \A p \in Ports \ {"source"} : queued'[p] = queued[p]
    <3>1. Tail(s) \in Seq(Bufs)
      BY <1>3
    <3>2. queued' = [queued EXCEPT !["source"] = Tail(s)]
      BY <1>4
    <3>3. queued \in [Ports -> Seq(Bufs)] /\ "source" \in Ports
      BY <1>1
    <3>4. QED
      BY <3>1, <3>2, <3>3
  <2>2. /\ ready' \in [Ports -> Seq(Bufs)] /\ ready'["source"] = Append(t, b)
        /\ \A p \in Ports \ {"source"} : ready'[p] = ready[p]
    <3>1. Append(t, b) \in Seq(Bufs)
      BY <1>3
    <3>2. ready' = [ready EXCEPT !["source"] = Append(t, b)]
      BY <1>4
    <3>3. ready \in [Ports -> Seq(Bufs)] /\ "source" \in Ports
      BY <1>1
    <3>4. QED
      BY <3>1, <3>2, <3>3
  <2>3. QED
    BY <1>1, <2>1, <2>2
<1>7. \A z \in Places : Way(at, at', "source", "sourceDone", z)
  BY <1>4, <1>5, <1>6, AtPlaces DEF Way, Places, b
<1>8. /\ ControlTypes' /\ PortTypes' /\ Limits' /\ Streams' /\ Endings'
      /\ port' = port /\ source' = source /\ written' = written
      /\ \A p : IsFunc(p)' <=> IsFunc(p)
      /\ \A p : Ended(p)' <=> Ended(p)
  BY <1>1, <1>4, ProgramKept
<1>9. content' \in [Bufs -> Nat] /\ content'[b] = captured + 1
      /\ \A e \in Bufs : e # b => content'[e] = content[e]
  <2> DEFINE n == captured + 1
  <2>1. n \in Nat /\ content' = [content EXCEPT ![b] = n] /\ content \in [Bufs -> Nat] /\ b \in Bufs
    <3>1. n \in Nat /\ content \in [Bufs -> Nat]
      BY <1>1
    <3>2. b \in Bufs
      BY <1>3
    <3>3. content' = [content EXCEPT ![b] = n]
      BY <1>4
    <3>4. QED
      BY <3>1, <3>2, <3>3
  <2> HIDE DEF n
  <2>2. content' \in [Bufs -> Nat] /\ content'[b] = n /\ \A e \in Bufs : e # b => content'[e] = content[e]
    BY <2>1
  <2>3. QED
    BY <2>2 DEF n
<1>10. TypeOK'
  <2>1. QueueTypes' /\ FrameTypes'
    BY <1>1, <1>4, <1>6, <1>8, <1>9 DEF QueueTypes, FrameTypes, ChainInv, TypeOK
  <2>2. QED
    BY <1>8, <2>1 DEF TypeOK, ControlTypes, PortTypes, PortRecord, QueueTypes, FrameTypes
<1>11. PairsApart'
  <2>1. Apart(at) /\ OfTheirPair(at) /\ DOMAIN at' = Places /\ at["source"] # <<>>
    BY <1>2, <1>5, AtPlaces DEF ChainInv, PairsApart
  <2>2. /\ Apart(at') /\ OfTheirPair(at')
        /\ (\A z \in InPlaces : Way(at, at', "source", "sourceDone", z)) /\ AllIn(at) => AllIn(at')
        /\ (\A z \in OutPlaces : Way(at, at', "source", "sourceDone", z)) /\ AllOut(at) => AllOut(at')
    <3> DEFINE P == InPlaces
    <3>1. P \in {InPlaces, OutPlaces} /\ "source" \in P /\ "sourceDone" \in P
      BY DEF InPlaces
    <3>2. \A z \in Places :
            Way(at, at', "source", "sourceDone", z) \/ (at'[z] = at[z] /\ z # "source") \/ at'[z] = <<>>
      BY <1>7
    <3> HIDE DEF P
    <3>3. QED
      BY <1>1, <2>1, <3>1, <3>2, Moving
  <2>3. (\A z \in InPlaces : z \in Places) /\ (\A z \in OutPlaces : z \in Places)
    BY DEF InPlaces, OutPlaces, Places
  <2>4. /\ ~Ended("source")' /\ ~Ended("mfcIn")' => AllIn(at')
        /\ ~Ended("mfcOut")' /\ ~Ended("file")' => AllOut(at')
    BY <1>7, <1>8, <2>2, <2>3 DEF ChainInv, PairsApart
  <2>5. QED
    BY <2>2, <2>4 DEF PairsApart, Apart, OfTheirPair, AllIn, AllOut
<1>12. PortStates'
  <2>1. ~IsFunc("source")
    BY <1>2 DEF IsFunc
  <2>2. \A p \in Ports \ {"source"} : ready'[p] = ready[p] /\ queued'[p] = queued[p]
    BY <1>1, <1>6
  <2>3. \A p \in Ports : IsFunc(p) =>
          /\ ready'[p] = <<>>
          /\ port'[p].state \in {"busy", "ready"} <=> queued'[p] # <<>> /\ ~Ended(p)'
    BY <1>8, <2>1, <2>2 DEF ChainInv, PortStates
  <2>4. \A p \in Ports : ~IsFunc(p) /\ port'[p].state = "ready" => ready'[p] # <<>>
    BY <1>3, <1>6, <1>8, <2>2 DEF ChainInv, PortStates
  <2>5. port'["source"].state # IF source' = "demo" THEN "busy" ELSE "off"
    BY <1>8 DEF ChainInv, PortStates
  <2>6. QED
    BY <1>8, <2>3, <2>4, <2>5 DEF PortStates
<1>13. Counts'
  <2>1. ~Ended("source") => port["source"].nbufs = Len(s) + Len(t)
    BY DEF ChainInv, Counts, s, t
  <2>2. ~Ended("source") => port["source"].nbufs = Len(Tail(s)) + Len(Append(t, b))
    BY <1>3, <2>1
  <2>3. QED
    BY <1>4, <1>6, <1>8, <2>2 DEF ChainInv, Counts
<1>14. Line'
  <2>1. \A z \in Places \ {"source"} : \A k \in DOMAIN at[z] : content'[at[z][k]] = content[at[z][k]]
    <3> SUFFICES ASSUME NEW z \in Places \ {"source"}, NEW k \in DOMAIN at[z]
                 PROVE  content'[at[z][k]] = content[at[z][k]]
      OBVIOUS
    <3>1. at[z][k] \in Items(at[z]) /\ at[z][k] \in Bufs
      BY <1>1, Held
    <3>2. "source" \in Places /\ "source" \in DOMAIN at /\ z \in DOMAIN at
      BY AtPlaces DEF Places
    <3>3. Items(at["source"]) \cap Items(at[z]) = {}
      BY <3>2 DEF ChainInv, PairsApart, Apart
    <3>4. at[z][k] # b
      BY <1>3, <1>5, <3>1, <3>3
    <3>5. QED
      BY <1>9, <3>1, <3>4
  <2>2. /\ \A k \in DOMAIN queued["file"] : content'[queued["file"][k]] = content[queued["file"][k]]
        /\ \A k \in DOMAIN ready["mfcOut"] : content'[ready["mfcOut"][k]] = content[ready["mfcOut"][k]]
        /\ \A k \in DOMAIN queued["mfcIn"] : content'[queued["mfcIn"][k]] = content[queued["mfcIn"][k]]
        /\ \A k \in DOMAIN t : content'[t[k]] = content[t[k]]
    <3>1. {"file", "outputDone", "input", "sourceDone"} \subseteq Places \ {"source"}
      BY DEF Places
    <3>2. /\ \A k \in DOMAIN at["file"] : content'[at["file"][k]] = content[at["file"][k]]
          /\ \A k \in DOMAIN at["outputDone"] : content'[at["outputDone"][k]] = content[at["outputDone"][k]]
          /\ \A k \in DOMAIN at["input"] : content'[at["input"][k]] = content[at["input"][k]]
          /\ \A k \in DOMAIN at["sourceDone"] : content'[at["sourceDone"][k]] = content[at["sourceDone"][k]]
      BY <2>1, <3>1
    <3>3. QED
      BY <1>5, <3>2, AtPlaces
  <2>3. ~Ended("source")' =>
          /\ captured' = port'["source"].counter + Len(ready'["source"])
          /\ \A k \in DOMAIN ready'["source"] : content'[ready'["source"][k]] = port'["source"].counter + k
    <3> DEFINE c == port["source"].counter
    <3> SUFFICES ASSUME ~Ended("source")
                 PROVE  /\ captured + 1 = c + Len(Append(t, b))
                        /\ \A k \in DOMAIN Append(t, b) : content'[Append(t, b)[k]] = c + k
      BY <1>4, <1>6, <1>8
    <3>1. captured = c + Len(t) /\ \A k \in DOMAIN t : content[t[k]] = c + k
      BY <1>2 DEF ChainInv, Line, t
    <3>2. c \in Nat
      BY <1>1, PortFields DEF ChainInv, TypeOK, PortRecord
    <3> HIDE DEF c
    <3>3. captured + 1 = c + Len(Append(t, b)) /\ captured + 1 = c + (Len(t) + 1)
      BY <1>3, <3>1, <3>2
    <3>4. \A k \in DOMAIN Append(t, b) : content'[Append(t, b)[k]] = c + k
      <4> TAKE k \in DOMAIN Append(t, b)
      <4>1. CASE k \in DOMAIN t /\ Append(t, b)[k] = t[k]
        BY <2>2, <3>1, <4>1
      <4>2. CASE k = Len(t) + 1 /\ Append(t, b)[k] = b
        BY <1>9, <3>3, <4>2
      <4>3. QED
        BY <1>3, <4>1, <4>2
    <3>5. QED
      BY <3>3, <3>4
  <2>4. /\ \A k \in DOMAIN written' : written'[k] = k
        /\ ~Ended("file")' =>
             /\ Len(written') + Len(queued'["file"]) = port'["mfcOut"].counter
             /\ \A k \in DOMAIN queued'["file"] : content'[queued'["file"][k]] = Len(written') + k
        /\ ~Ended("mfcOut")' =>
             /\ \A k \in DOMAIN ready'["mfcOut"] :
                  content'[ready'["mfcOut"][k]] = port'["mfcOut"].counter + k
             /\ \A k \in DOMAIN queued'["mfcIn"] :
                  content'[queued'["mfcIn"][k]] = port'["mfcOut"].counter + Len(ready'["mfcOut"]) + k
             /\ port'["source"].counter =
                  port'["mfcOut"].counter + Len(ready'["mfcOut"]) + Len(queued'["mfcIn"])
    BY <1>6, <1>8, <2>2 DEF ChainInv, Line
  <2>5. QED
    BY <2>3, <2>4 DEF Line
<1>15. QED
  BY <1>8, <1>10, <1>11, <1>12, <1>13, <1>14 DEF ChainInv

(* The MFC gives back a picture it needs no longer.                        *)
LEMMA ReleaseKeeps == ChainInv /\ MfcRelease => ChainInv'
<1> SUFFICES ASSUME ChainInv, MfcRelease PROVE ChainInv'
  OBVIOUS
<1> DEFINE t == ready["mfcIn"]
           b == Head(held)
<1>1. /\ "source" \in Ports /\ "mfcIn" \in Ports /\ "mfcOut" \in Ports /\ "file" \in Ports
      /\ at \in [Places -> Seq(Bufs)]
      /\ queued \in [Ports -> Seq(Bufs)] /\ ready \in [Ports -> Seq(Bufs)] /\ held \in Seq(InBufs)
      /\ captured \in Nat /\ held # <<>> /\ t \in Seq(Bufs)
  BY PlaceTypes DEF Ports, ChainInv, TypeOK, MfcRelease
<1>2. /\ Tail(held) \in Seq(InBufs) /\ b \in Bufs
      /\ Len(Tail(held)) = Len(held) - 1 /\ Len(held) \in Nat
  BY <1>1, Taken DEF Bufs
<1>3. /\ ready' = [ready EXCEPT !["mfcIn"] = Append(t, b)] /\ held' = Tail(held)
      /\ UNCHANGED swVars /\ UNCHANGED <<queued, content, captured, eos>>
  BY DEF MfcRelease
<1> HIDE DEF t, b
<1>4. Append(t, b) \in Seq(Bufs) /\ Append(t, b) # <<>> /\ Len(t) \in Nat /\ Len(Append(t, b)) = Len(t) + 1
  <2>1. t \in Seq(Bufs) /\ b \in Bufs
    BY <1>1, <1>2
  <2>2. QED
    BY <2>1, Put
<1>5. /\ ready' \in [Ports -> Seq(Bufs)] /\ ready'["mfcIn"] = Append(t, b)
      /\ \A p \in Ports \ {"mfcIn"} : ready'[p] = ready[p]
  BY <1>1, <1>3, <1>4
<1>6. \A z \in Places : Way(at, at', "held", "inputDone", z)
  BY <1>1, <1>3, <1>5, AtPlaces, ZenonT(60) DEF Way, Places, b, t
<1>7. /\ ControlTypes' /\ PortTypes' /\ Limits' /\ Streams' /\ Endings'
      /\ port' = port /\ source' = source /\ written' = written
      /\ \A p : IsFunc(p)' <=> IsFunc(p)
      /\ \A p : Ended(p)' <=> Ended(p)
  BY <1>1, <1>3, ProgramKept
<1>8. TypeOK'
  <2>1. QueueTypes' /\ FrameTypes'
    BY <1>1, <1>2, <1>3, <1>5, <1>7 DEF QueueTypes, FrameTypes, ChainInv, TypeOK
  <2>2. QED
    BY <1>7, <2>1 DEF TypeOK, ControlTypes, PortTypes, PortRecord, QueueTypes, FrameTypes
<1>9. PairsApart'
  <2>1. Apart(at) /\ OfTheirPair(at) /\ DOMAIN at' = Places /\ at["held"] # <<>>
    BY <1>1, AtPlaces DEF ChainInv, PairsApart
  <2>2. /\ Apart(at') /\ OfTheirPair(at')
        /\ (\A z \in InPlaces : Way(at, at', "held", "inputDone", z)) /\ AllIn(at) => AllIn(at')
        /\ (\A z \in OutPlaces : Way(at, at', "held", "inputDone", z)) /\ AllOut(at) => AllOut(at')
    <3> DEFINE P == InPlaces
    <3>1. P \in {InPlaces, OutPlaces} /\ "held" \in P /\ "inputDone" \in P
      BY DEF InPlaces
    <3>2. \A z \in Places :
            Way(at, at', "held", "inputDone", z) \/ (at'[z] = at[z] /\ z # "held") \/ at'[z] = <<>>
      BY <1>6
    <3> HIDE DEF P
    <3>3. QED
      BY <1>1, <2>1, <3>1, <3>2, Moving
  <2>3. (\A z \in InPlaces : z \in Places) /\ (\A z \in OutPlaces : z \in Places)
    BY DEF InPlaces, OutPlaces, Places
  <2>4. /\ ~Ended("source")' /\ ~Ended("mfcIn")' => AllIn(at')
        /\ ~Ended("mfcOut")' /\ ~Ended("file")' => AllOut(at')
    BY <1>6, <1>7, <2>2, <2>3 DEF ChainInv, PairsApart
  <2>5. QED
    BY <2>2, <2>4 DEF PairsApart, Apart, OfTheirPair, AllIn, AllOut
<1>10. PortStates'
  <2>1. ~IsFunc("mfcIn")
    BY DEF IsFunc
  <2>2. \A p \in Ports : IsFunc(p) =>
          /\ ready'[p] = <<>>
          /\ port'[p].state \in {"busy", "ready"} <=> queued'[p] # <<>> /\ ~Ended(p)'
    BY <1>3, <1>5, <1>7, <2>1 DEF ChainInv, PortStates
  <2>3. \A p \in Ports : ~IsFunc(p) /\ port'[p].state = "ready" => ready'[p] # <<>>
    BY <1>4, <1>5, <1>7 DEF ChainInv, PortStates
  <2>4. port'["source"].state # IF source' = "demo" THEN "busy" ELSE "off"
    BY <1>7 DEF ChainInv, PortStates
  <2>5. QED
    BY <1>7, <2>2, <2>3, <2>4 DEF PortStates
<1>11. Counts'
  <2>1. ~Ended("mfcIn") => port["mfcIn"].nbufs = Len(queued["mfcIn"]) + Len(t) + Len(held)
    BY DEF ChainInv, Counts, t
  <2>2. \A l, m, n \in Nat : l + m + n = l + (m + 1) + (n - 1)
    OBVIOUS
  <2>3. Len(queued["mfcIn"]) \in Nat
    BY <1>1
  <2>4. Len(queued["mfcIn"]) + Len(t) + Len(held) = Len(queued["mfcIn"]) + (Len(t) + 1) + (Len(held) - 1)
    BY <1>2, <1>4, <2>2, <2>3
  <2>5. ~Ended("mfcIn") => port["mfcIn"].nbufs = Len(queued["mfcIn"]) + Len(Append(t, b)) + Len(Tail(held))
    BY <1>2, <1>4, <2>1, <2>4
  <2>6. QED
    BY <1>1, <1>3, <1>5, <1>7, <2>5 DEF ChainInv, Counts
<1>12. Line'
  <2>1. ready'["mfcOut"] = ready["mfcOut"] /\ ready'["source"] = ready["source"]
        /\ queued' = queued /\ content' = content /\ captured' = captured
    BY <1>1, <1>3, <1>5
  <2>2. QED
    BY <1>7, <2>1 DEF ChainInv, Line
<1>13. QED
  BY <1>7, <1>8, <1>9, <1>10, <1>11, <1>12 DEF ChainInv

(* The MFC encodes a picture.                                              *)
LEMMA EncodeKeeps == ChainInv /\ MfcEncode => ChainInv'
<1> SUFFICES ASSUME ChainInv, MfcEncode PROVE ChainInv'
  OBVIOUS
<1> DEFINE s == queued["mfcIn"]
           t == queued["mfcOut"]
           r == ready["mfcOut"]
           i == Head(s)
           o == Head(t)
<1>1. /\ "source" \in Ports /\ "mfcIn" \in Ports /\ "mfcOut" \in Ports /\ "file" \in Ports
      /\ \A p \in Ports : p \in {"source", "mfcIn", "mfcOut", "file"}
      /\ at \in [Places -> Seq(Bufs)]
      /\ queued \in [Ports -> Seq(Bufs)] /\ ready \in [Ports -> Seq(Bufs)] /\ held \in Seq(InBufs)
      /\ content \in [Bufs -> Nat] /\ captured \in Nat
  BY PlaceTypes DEF Ports, ChainInv, TypeOK
<1>2. s \in Seq(Bufs) /\ s # <<>> /\ t \in Seq(Bufs) /\ t # <<>> /\ r \in Seq(Bufs)
      /\ port["mfcIn"].state # "off" /\ port["mfcOut"].state # "off"
  BY <1>1 DEF MfcEncode, MfcStreams
<1>3. /\ queued' = [queued EXCEPT !["mfcIn"] = Tail(s), !["mfcOut"] = Tail(t)]
      /\ held' = Append(held, i) /\ ready' = [ready EXCEPT !["mfcOut"] = Append(r, o)]
      /\ content' = [content EXCEPT ![o] = content[i]]
      /\ UNCHANGED swVars /\ UNCHANGED <<captured, eos>>
  BY DEF MfcEncode
<1>4. /\ at["input"] = s /\ at["output"] = t /\ at["outputDone"] = r /\ at["held"] = held
      /\ Apart(at) /\ OfTheirPair(at) /\ DOMAIN at = Places /\ DOMAIN at' = Places
  BY AtPlaces DEF ChainInv, PairsApart
<1>5. /\ i \in Bufs /\ i \in Items(s) /\ i = s[1] /\ 1 \in DOMAIN s
      /\ Tail(s) \in Seq(Bufs) /\ Len(Tail(s)) = Len(s) - 1 /\ Len(s) \in Nat
      /\ \A k \in DOMAIN Tail(s) : k \in Nat /\ k + 1 \in DOMAIN s /\ Tail(s)[k] = s[k + 1]
  BY <1>2, Taken
<1>6. /\ o \in Bufs /\ o \in Items(t)
      /\ Tail(t) \in Seq(Bufs) /\ Len(Tail(t)) = Len(t) - 1 /\ Len(t) \in Nat
  BY <1>2, Taken
<1>7. i \in InBufs /\ o \in OutBufs
  BY <1>4, <1>5, <1>6 DEF OfTheirPair, InPlaces, OutPlaces
<1> HIDE DEF s, t, r, i, o
<1>8. /\ Append(r, o) \in Seq(Bufs) /\ Append(r, o) # <<>>
      /\ Len(r) \in Nat /\ Len(Append(r, o)) = Len(r) + 1
      /\ \A k \in DOMAIN Append(r, o) :
           \/ k \in DOMAIN r /\ Append(r, o)[k] = r[k]
           \/ k = Len(r) + 1 /\ Append(r, o)[k] = o
  BY <1>2, <1>6, Put
<1>9. Append(held, i) \in Seq(InBufs) /\ Len(held) \in Nat /\ Len(Append(held, i)) = Len(held) + 1
  BY <1>1, <1>7, Put
<1>10. /\ queued' \in [Ports -> Seq(Bufs)] /\ queued'["mfcIn"] = Tail(s) /\ queued'["mfcOut"] = Tail(t)
       /\ queued'["source"] = queued["source"] /\ queued'["file"] = queued["file"]
  BY <1>1, <1>3, <1>5, <1>6
<1>11. /\ ready' \in [Ports -> Seq(Bufs)] /\ ready'["mfcOut"] = Append(r, o)
       /\ \A p \in Ports \ {"mfcOut"} : ready'[p] = ready[p]
  BY <1>1, <1>3, <1>8
<1>12. /\ ControlTypes' /\ PortTypes' /\ Limits' /\ Streams' /\ Endings'
       /\ port' = port /\ source' = source /\ written' = written
       /\ \A p : IsFunc(p)' <=> IsFunc(p)
       /\ \A p : Ended(p)' <=> Ended(p)
  BY <1>1, <1>3, ProgramKept
<1>13. content' \in [Bufs -> Nat] /\ content'[o] = content[i]
       /\ \A e \in Bufs : e # o => content'[e] = content[e]
  BY <1>1, <1>3, <1>5, <1>6
<1>14. TypeOK'
  <2>1. QueueTypes' /\ FrameTypes'
    BY <1>3, <1>9, <1>10, <1>11, <1>12, <1>13 DEF QueueTypes, FrameTypes, ChainInv, TypeOK
  <2>2. QED
    BY <1>12, <2>1 DEF TypeOK, ControlTypes, PortTypes, PortRecord, QueueTypes, FrameTypes
<1>15. PairsApart'
  <2> DEFINE g == [z \in Places |-> IF z = "input" THEN Tail(s) ELSE IF z = "held" THEN Append(held, i) ELSE at[z]]
  <2>1. Append(held, i) \in Seq(Bufs)
    BY <1>9 DEF Bufs
  <2>2. /\ g \in [Places -> Seq(Bufs)] /\ DOMAIN g = Places
        /\ g["outputDone"] = r /\ g["output"] = t
    BY <1>1, <1>4, <1>5, <2>1 DEF Places
  <2>3. \A z \in Places : Way(at, g, "input", "held", z)
    BY <1>4 DEF Way, Places, i
  <2>4. \A z \in Places : Way(g, at', "output", "outputDone", z)
    BY <1>1, <1>3, <1>4, <1>10, <1>11, <2>2, AtPlaces, ZenonT(60) DEF Way, Places, o
  <2>5. /\ "input" \in InPlaces /\ "held" \in InPlaces
        /\ "output" \in OutPlaces /\ "outputDone" \in OutPlaces
        /\ (\A z \in InPlaces : z \in Places) /\ (\A z \in OutPlaces : z \in Places)
    BY DEF InPlaces, OutPlaces, Places
  <2> HIDE DEF g
  <2>6. /\ Apart(g) /\ OfTheirPair(g)
        /\ (\A z \in InPlaces : Way(at, g, "input", "held", z)) /\ AllIn(at) => AllIn(g)
        /\ (\A z \in OutPlaces : Way(at, g, "input", "held", z)) /\ AllOut(at) => AllOut(g)
    <3> DEFINE P == InPlaces
    <3>1. P \in {InPlaces, OutPlaces} /\ "input" \in P /\ "held" \in P /\ at["input"] # <<>>
      BY <1>2, <1>4, <2>5
    <3>2. \A z \in Places :
            Way(at, g, "input", "held", z) \/ (g[z] = at[z] /\ z # "input") \/ g[z] = <<>>
      BY <2>3
    <3> HIDE DEF P
    <3>3. QED
      BY <1>1, <1>4, <2>2, <3>1, <3>2, Moving
  <2>7. /\ Apart(at') /\ OfTheirPair(at')
        /\ (\A z \in InPlaces : Way(g, at', "output", "outputDone", z)) /\ AllIn(g) => AllIn(at')
        /\ (\A z \in OutPlaces : Way(g, at', "output", "outputDone", z)) /\ AllOut(g) => AllOut(at')
    <3> DEFINE P == OutPlaces
               h == at'
    <3>1. P \in {InPlaces, OutPlaces} /\ "output" \in P /\ "outputDone" \in P /\ g["output"] # <<>>
          /\ DOMAIN h = Places
      BY <1>2, <1>4, <2>2, <2>5
    <3>2. \A z \in Places :
            Way(g, h, "output", "outputDone", z) \/ (h[z] = g[z] /\ z # "output") \/ h[z] = <<>>
      BY <2>4
    <3> HIDE DEF P, h
    <3>3. /\ Apart(h) /\ OfTheirPair(h)
          /\ (\A z \in InPlaces : Way(g, h, "output", "outputDone", z)) /\ AllIn(g) => AllIn(h)
          /\ (\A z \in OutPlaces : Way(g, h, "output", "outputDone", z)) /\ AllOut(g) => AllOut(h)
      BY <2>2, <2>6, <3>1, <3>2, Moving
    <3>4. QED
      BY <3>3 DEF h
  <2>8. /\ ~Ended("source")' /\ ~Ended("mfcIn")' => AllIn(at')
        /\ ~Ended("mfcOut")' /\ ~Ended("file")' => AllOut(at')
    BY <1>12, <2>3, <2>4, <2>5, <2>6, <2>7 DEF ChainInv, PairsApart
  <2>9. QED
    BY <2>7, <2>8 DEF PairsApart, Apart, OfTheirPair, AllIn, AllOut
<1>16. PortStates'
  <2>1. ~IsFunc("mfcOut") /\ ~IsFunc("mfcIn")
    BY DEF IsFunc
  <2>2. \A p \in Ports \ {"mfcIn", "mfcOut"} : queued'[p] = queued[p]
    BY <1>1, <1>10
  <2>3. \A p \in Ports : IsFunc(p) =>
          /\ ready'[p] = <<>>
          /\ port'[p].state \in {"busy", "ready"} <=> queued'[p] # <<>> /\ ~Ended(p)'
    BY <1>11, <1>12, <2>1, <2>2 DEF ChainInv, PortStates
  <2>4. \A p \in Ports : ~IsFunc(p) /\ port'[p].state = "ready" => ready'[p] # <<>>
    BY <1>8, <1>11, <1>12 DEF ChainInv, PortStates
  <2>5. port'["source"].state # IF source' = "demo" THEN "busy" ELSE "off"
    BY <1>12 DEF ChainInv, PortStates
  <2>6. QED
    BY <1>12, <2>3, <2>4, <2>5 DEF PortStates
<1>17. Counts'
  <2>1. /\ ~Ended("mfcIn") => port["mfcIn"].nbufs = Len(s) + Len(ready["mfcIn"]) + Len(held)
        /\ ~Ended("mfcOut") => port["mfcOut"].nbufs = Len(t) + Len(r)
    BY DEF ChainInv, Counts, s, t, r
  <2>2. Len(ready["mfcIn"]) \in Nat
    BY <1>1
  <2>3. /\ \A l, m, n \in Nat : l + m + n = (l - 1) + m + (n + 1)
        /\ \A l, m \in Nat : l + m = (l - 1) + (m + 1)
    OBVIOUS
  <2>4. /\ Len(s) + Len(ready["mfcIn"]) + Len(held) = (Len(s) - 1) + Len(ready["mfcIn"]) + (Len(held) + 1)
        /\ Len(t) + Len(r) = (Len(t) - 1) + (Len(r) + 1)
    BY <1>5, <1>6, <1>8, <1>9, <2>2, <2>3, ZenonT(60)
  <2>5. /\ ~Ended("mfcIn")' =>
             port'["mfcIn"].nbufs = Len(queued'["mfcIn"]) + Len(ready'["mfcIn"]) + Len(held')
        /\ ~Ended("mfcOut")' => port'["mfcOut"].nbufs = Len(queued'["mfcOut"]) + Len(ready'["mfcOut"])
    BY <1>1, <1>3, <1>5, <1>6, <1>8, <1>9, <1>10, <1>11, <1>12, <2>1, <2>4
  <2>6. /\ ~Ended("source")' => port'["source"].nbufs = Len(queued'["source"]) + Len(ready'["source"])
        /\ ~Ended("file")' => port'["file"].nbufs = Len(queued'["file"])
    BY <1>1, <1>10, <1>11, <1>12 DEF ChainInv, Counts
  <2>7. QED
    BY <2>5, <2>6 DEF Counts
<1>18. Line'
  <2> DEFINE d == port["mfcOut"].counter
  <2>1. \A z \in Places \ {"output"} : \A k \in DOMAIN at[z] : content'[at[z][k]] = content[at[z][k]]
    <3> SUFFICES ASSUME NEW z \in Places \ {"output"}, NEW k \in DOMAIN at[z]
                 PROVE  content'[at[z][k]] = content[at[z][k]]
      OBVIOUS
    <3>1. at[z][k] \in Items(at[z]) /\ at[z][k] \in Bufs
      BY <1>1, Held
    <3>2. "output" \in DOMAIN at /\ z \in DOMAIN at
      BY <1>4 DEF Places
    <3>3. Items(at["output"]) \cap Items(at[z]) = {}
      BY <1>4, <3>2 DEF Apart
    <3>4. at[z][k] # o
      BY <1>4, <1>6, <3>1, <3>3
    <3>5. QED
      BY <1>13, <3>1, <3>4
  <2>2. /\ \A k \in DOMAIN queued["file"] : content'[queued["file"][k]] = content[queued["file"][k]]
        /\ \A k \in DOMAIN ready["source"] : content'[ready["source"][k]] = content[ready["source"][k]]
        /\ \A k \in DOMAIN r : content'[r[k]] = content[r[k]]
        /\ \A k \in DOMAIN s : content'[s[k]] = content[s[k]]
    <3>1. {"file", "outputDone", "input", "sourceDone"} \subseteq Places \ {"output"}
      BY DEF Places
    <3>2. /\ \A k \in DOMAIN at["file"] : content'[at["file"][k]] = content[at["file"][k]]
          /\ \A k \in DOMAIN at["outputDone"] : content'[at["outputDone"][k]] = content[at["outputDone"][k]]
          /\ \A k \in DOMAIN at["input"] : content'[at["input"][k]] = content[at["input"][k]]
          /\ \A k \in DOMAIN at["sourceDone"] : content'[at["sourceDone"][k]] = content[at["sourceDone"][k]]
      BY <2>1, <3>1
    <3>3. QED
      BY <1>4, <3>2, AtPlaces
  <2>3. ~Ended("mfcOut")' =>
          /\ \A k \in DOMAIN ready'["mfcOut"] :
               content'[ready'["mfcOut"][k]] = port'["mfcOut"].counter + k
          /\ \A k \in DOMAIN queued'["mfcIn"] :
               content'[queued'["mfcIn"][k]] = port'["mfcOut"].counter + Len(ready'["mfcOut"]) + k
          /\ port'["source"].counter =
               port'["mfcOut"].counter + Len(ready'["mfcOut"]) + Len(queued'["mfcIn"])
    <3> SUFFICES ASSUME ~Ended("mfcOut")
                 PROVE  /\ \A k \in DOMAIN Append(r, o) : content'[Append(r, o)[k]] = d + k
                        /\ \A k \in DOMAIN Tail(s) : content'[Tail(s)[k]] = d + Len(Append(r, o)) + k
                        /\ port["source"].counter = d + Len(Append(r, o)) + Len(Tail(s))
      BY <1>10, <1>11, <1>12
    <3>1. /\ \A k \in DOMAIN r : content[r[k]] = d + k
          /\ \A k \in DOMAIN s : content[s[k]] = d + Len(r) + k
          /\ port["source"].counter = d + Len(r) + Len(s)
      BY DEF ChainInv, Line, r, s
    <3>2. d \in Nat
      BY <1>1, PortFields DEF ChainInv, TypeOK, PortRecord
    <3> HIDE DEF d
    <3>3. content'[o] = d + (Len(r) + 1)
      <4>1. content[i] = d + Len(r) + 1
        BY <1>5, <3>1
      <4>2. QED
        BY <1>8, <1>13, <3>2, <4>1
    <3>4. \A k \in DOMAIN Append(r, o) : content'[Append(r, o)[k]] = d + k
      <4> TAKE k \in DOMAIN Append(r, o)
      <4>1. CASE k \in DOMAIN r /\ Append(r, o)[k] = r[k]
        BY <2>2, <3>1, <4>1
      <4>2. CASE k = Len(r) + 1 /\ Append(r, o)[k] = o
        BY <3>3, <4>2
      <4>3. QED
        BY <1>8, <4>1, <4>2
    <3>5. /\ \A l, m, n \in Nat : l + m + (n + 1) = l + (m + 1) + n
          /\ \A l, m, n \in Nat : l + m + n = l + (m + 1) + (n - 1)
      OBVIOUS
    <3>6. \A k \in DOMAIN Tail(s) : content'[Tail(s)[k]] = d + Len(Append(r, o)) + k
      <4> TAKE k \in DOMAIN Tail(s)
      <4>1. k \in Nat /\ content'[Tail(s)[k]] = d + Len(r) + (k + 1)
        BY <1>5, <2>2, <3>1
      <4>2. d + Len(r) + (k + 1) = d + (Len(r) + 1) + k
        BY <1>8, <3>2, <3>5, <4>1
      <4>3. QED
        BY <1>8, <4>1, <4>2
    <3>7. port["source"].counter = d + Len(Append(r, o)) + Len(Tail(s))
      <4>1. d + Len(r) + Len(s) = d + (Len(r) + 1) + (Len(s) - 1)
        BY <1>5, <1>8, <3>2, <3>5
      <4>2. QED
        BY <1>5, <1>8, <3>1, <4>1
    <3>8. QED
      BY <3>4, <3>6, <3>7
  <2>4. /\ \A k \in DOMAIN written' : written'[k] = k
        /\ ~Ended("file")' =>
             /\ Len(written') + Len(queued'["file"]) = port'["mfcOut"].counter
             /\ \A k \in DOMAIN queued'["file"] : content'[queued'["file"][k]] = Len(written') + k
        /\ source' = "camera" /\ ~Ended("source")' =>
             /\ captured' = port'["source"].counter + Len(ready'["source"])
             /\ \A k \in DOMAIN ready'["source"] : content'[ready'["source"][k]] = port'["source"].counter + k
    <3>1. ready'["source"] = ready["source"] /\ captured' = captured
      BY <1>1, <1>3, <1>11
    <3>2. QED
      BY <1>10, <1>12, <2>2, <3>1 DEF ChainInv, Line
  <2>5. QED
    BY <2>3, <2>4 DEF Line
<1>19. QED
  BY <1>12, <1>14, <1>15, <1>16, <1>17, <1>18 DEF ChainInv

-----------------------------------------------------------------------------
(* The invariant                                                           *)

(* All buffers of a pair, queued one behind the other                      *)
LEMMA AllQueued ==
  ASSUME NEW i \in {1, 2}, NEW n \in Nat
  PROVE  LET s == [k \in 1 .. n |-> <<i, k>>]
         IN  /\ s \in Seq({<<i, k>> : k \in 1 .. n}) /\ Len(s) = n /\ Distinct(s)
             /\ Items(s) = {<<i, k>> : k \in 1 .. n}
<1> DEFINE s == [k \in 1 .. n |-> <<i, k>>]
           S == {<<i, k>> : k \in 1 .. n}
<1>1. \A k \in 1 .. n : s[k] \in S
  OBVIOUS
<1>2. s \in [1 .. n -> S]
  BY <1>1
<1>3. DOMAIN s = 1 .. n /\ Items(s) = S /\ Distinct(s)
  BY DEF Items, Distinct
<1> HIDE DEF s, S
<1>4. s \in Seq(S) /\ Len(s) = n
  BY <1>2, <1>3, LenProperties, SeqDef
<1>5. QED
  BY <1>3, <1>4 DEF s, S

(* It holds when process_chain begins.                                     *)
LEMMA InitChain == Init => ChainInv
<1> SUFFICES ASSUME Init PROVE ChainInv
  OBVIOUS
<1> DEFINE in  == [n \in 1 .. NIn |-> <<1, n>>]
           out == [n \in 1 .. NOut |-> <<2, n>>]
<1>1. /\ NIn \in Nat \ {0} /\ NOut \in Nat \ {0} /\ NFrames \in Nat \ {0}
      /\ Sources \subseteq {"demo", "camera"} /\ MaxFaults \in Nat
  BY ChainAssumption
<1>2. in \in Seq(InBufs) /\ Len(in) = NIn /\ Distinct(in) /\ Items(in) = InBufs
  BY <1>1, AllQueued DEF InBufs
<1>3. out \in Seq(OutBufs) /\ Len(out) = NOut /\ Distinct(out) /\ Items(out) = OutBufs
  BY <1>1, AllQueued DEF OutBufs
<1>4. /\ source \in Sources /\ pc = "wait" /\ pair = 1 /\ event = FALSE
      /\ queued["source"] = in /\ queued["mfcOut"] = out /\ queued["mfcIn"] = <<>> /\ queued["file"] = <<>>
      /\ \A p \in Ports : ready[p] = <<>>
      /\ held = <<>> /\ content = [b \in Bufs |-> 0] /\ captured = 0
      /\ stopped = FALSE /\ eos = "none" /\ written = <<>> /\ faults = 0
      /\ DOMAIN queued = Ports /\ ready = [p \in Ports |-> <<>>]
      /\ queued = [p \in Ports |-> queued[p]]
  BY DEF Init, Ports
<1>5. /\ port["source"] = NewPort(NIn, NFrames, IF source = "demo" THEN "ready" ELSE "busy")
      /\ port["mfcOut"] = NewPort(NOut, 0, "off")
      /\ port["mfcIn"] = NewPort(0, 0, "off") /\ port["file"] = NewPort(0, 0, "off")
      /\ port = [p \in Ports |-> port[p]]
      /\ \A p \in Ports : p \in {"source", "mfcIn", "mfcOut", "file"}
      /\ "source" \in Ports /\ "mfcIn" \in Ports /\ "mfcOut" \in Ports /\ "file" \in Ports
  BY DEF Init, Ports
<1> HIDE DEF in, out
<1>6. \A n, l \in Nat, s \in States :
        /\ NewPort(n, l, s) \in PortRecord
        /\ NewPort(n, l, s).state = s /\ NewPort(n, l, s).counter = 0
        /\ NewPort(n, l, s).nbufs = n /\ NewPort(n, l, s).limit = l
  BY DEF NewPort, PortRecord
<1>7. /\ port["source"].state = IF source = "demo" THEN "ready" ELSE "busy"
      /\ port["mfcOut"].state = "off" /\ port["mfcIn"].state = "off" /\ port["file"].state = "off"
      /\ port["source"].counter = 0 /\ port["mfcOut"].counter = 0 /\ port["mfcIn"].counter = 0
      /\ port["source"].nbufs = NIn /\ port["mfcOut"].nbufs = NOut
      /\ port["mfcIn"].nbufs = 0 /\ port["file"].nbufs = 0
      /\ port["source"].limit = NFrames /\ port["mfcOut"].limit = 0
      /\ port["mfcIn"].limit = 0 /\ port["file"].limit = 0
      /\ \A p \in Ports : port[p] \in PortRecord
  BY <1>1, <1>5, <1>6 DEF States
<1>8. TypeOK
  <2>1. ControlTypes
    <3>1. faults \in 0 .. MaxFaults /\ captured \in Nat
      BY <1>1, <1>4
    <3>2. pair \in Pairs
      BY <1>4 DEF Pairs
    <3>3. QED
      BY <1>4, <3>1, <3>2 DEF ControlTypes
  <2>2. PortTypes
    BY <1>5, <1>7 DEF PortTypes
  <2>3. QueueTypes
    <3>1. in \in Seq(Bufs) /\ out \in Seq(Bufs) /\ <<>> \in Seq(Bufs) /\ <<>> \in Seq(InBufs)
      BY <1>2, <1>3 DEF Bufs
    <3>2. \A p \in Ports : queued[p] \in Seq(Bufs)
      BY <1>4, <1>5, <3>1
    <3>3. queued \in [Ports -> Seq(Bufs)]
      BY <1>4, <3>2
    <3>4. QED
      BY <1>4, <3>1, <3>3 DEF QueueTypes
  <2>4. FrameTypes
    BY <1>4 DEF FrameTypes
  <2>5. QED
    BY <2>1, <2>2, <2>3, <2>4, TypeParts
<1>9. /\ ~Ended("source") /\ ~Ended("mfcIn") /\ ~Ended("mfcOut") /\ ~Ended("file")
  BY <1>7 DEF Ended
<1>10. PairsApart
  <2>1. /\ at["source"] = in /\ at["output"] = out
        /\ \A z \in Places \ {"source", "output"} : at[z] = <<>>
        /\ DOMAIN at = Places /\ "source" \in InPlaces /\ "output" \in OutPlaces
        /\ "output" \notin InPlaces /\ "source" \notin OutPlaces
        /\ InPlaces \subseteq Places /\ OutPlaces \subseteq Places
    BY <1>4, <1>5, AtPlaces DEF Places, InPlaces, OutPlaces
  <2>2. Items(<<>>) = {} /\ Distinct(<<>>) /\ InBufs \cap OutBufs = {}
    BY DEF Items, Distinct, InBufs, OutBufs
  <2>3. Apart(at)
    BY <1>2, <1>3, <2>1, <2>2 DEF Apart
  <2>4. OfTheirPair(at)
    BY <1>2, <1>3, <2>1, <2>2 DEF OfTheirPair
  <2>5. AllIn(at) /\ AllOut(at)
    BY <1>2, <1>3, <2>1 DEF AllIn, AllOut
  <2>6. QED
    BY <2>3, <2>4, <2>5 DEF PairsApart
<1>11. PortStates
  <2>1. queued["source"] # <<>>
    <3>1. Len(in) # 0 /\ Len(<<>>) = 0
      BY <1>1, <1>2
    <3>2. QED
      BY <1>4, <3>1
  <2>2. IsFunc("file") /\ ~IsFunc("mfcIn") /\ ~IsFunc("mfcOut") /\ (IsFunc("source") <=> source = "demo")
    BY DEF IsFunc
  <2>3. \A p \in Ports : IsFunc(p) =>
          /\ ready[p] = <<>>
          /\ port[p].state \in {"busy", "ready"} <=> queued[p] # <<>> /\ ~Ended(p)
    BY <1>4, <1>5, <1>7, <1>9, <2>1, <2>2
  <2>4. \A p \in Ports : ~IsFunc(p) => port[p].state # "ready"
    BY <1>5, <1>7, <2>2
  <2>5. QED
    BY <1>7, <2>3, <2>4 DEF PortStates
<1>12. Counts
  <2>1. Len(<<>>) = 0
    OBVIOUS
  <2>2. QED
    BY <1>1, <1>2, <1>3, <1>4, <1>5, <1>7, <2>1 DEF Counts
<1>13. Limits
  BY <1>1, <1>7, <1>9 DEF Limits
<1>14. Streams
  BY <1>4, <1>7, <1>9 DEF Streams
<1>15. Line
  BY <1>4, <1>5, <1>7 DEF Line
<1>16. Endings
  BY <1>4 DEF Endings
<1>17. QED
  BY <1>8, <1>10, <1>11, <1>12, <1>13, <1>14, <1>15, <1>16 DEF ChainInv

(* Every step keeps it.                                                    *)
LEMMA StepKeeps == ChainInv /\ [Next]_vars => ChainInv'
<1> SUFFICES ASSUME ChainInv, [Next]_vars PROVE ChainInv'
  OBVIOUS
<1>1. /\ pair \in {1, 2} /\ pair \in Pairs
      /\ pc \in {"wait", "take", "giveBack", "event", "done", "failed"}
      /\ pc = "done" /\ faults = 0 => Ended("mfcIn") /\ eos = "taken" /\ Len(written) = port["mfcOut"].counter
      /\ faults \in 0 .. MaxFaults /\ faults >= faults
      /\ Fault => faults' \in 0 .. MaxFaults /\ faults' >= faults /\ faults' > 0
  BY FaultCounted DEF ChainInv, TypeOK, Pairs, Endings
<1>2. ASSUME UNCHANGED <<port, event, queued, ready, hwVars, written>>, UNCHANGED faults,
             pc' \in {"wait", "take", "giveBack", "event"}, pair' \in {1, 2}
      PROVE  ChainInv'
  BY <1>1, <1>2, QuietKeeps DEF Pairs
<1>3. CASE NoNeedToWait
  BY <1>2, <1>3 DEF NoNeedToWait
<1>4. CASE Poll
  BY <1>4, PollKeeps
<1>5. CASE ChainEnds
  <2>1. /\ ~AnyReady /\ Polled = {} /\ pc' = "done" /\ pair' = pair /\ faults' = faults
        /\ UNCHANGED <<port, event, queued, ready, hwVars, written>>
    BY <1>5 DEF ChainEnds
  <2>2. faults = 0 => Ended("mfcIn") /\ eos = "taken" /\ Len(written) = port["mfcOut"].counter
    BY <2>1, EndReached
  <2>3. QED
    BY <1>1, <2>1, <2>2, QuietKeeps
<1>6. CASE PollFails
  BY <1>1, <1>6, QuietKeeps DEF PollFails
<1>7. ASSUME Fails PROVE ChainInv'
  BY <1>1, <1>7, QuietKeeps DEF Fails
<1>8. CASE NothingToTake
  BY <1>1, <1>2, <1>8 DEF NothingToTake
<1>9. CASE TakeFrame
  BY <1>1, <1>9, InputKeeps, OutputKeeps
<1>10. CASE DropFrame
  <2>1. pair = 2
    <3> SUFFICES ASSUME pair = 1 PROVE FALSE
      BY <1>1
    <3>1. port["source"].state = "ready" /\ port["mfcIn"].state = "end"
      BY <1>10 DEF DropFrame, Up, Down
    <3>2. QED
      BY <3>1 DEF ChainInv, Limits, Ended
  <2>2. QED
    BY <1>10, <2>1, OutputKeeps
<1>11. CASE TakeFails \/ GiveBackFails \/ DeqEventFails
  BY <1>7, <1>11 DEF TakeFails, GiveBackFails, DeqEventFails
<1>12. CASE NothingToGiveBack
  BY <1>1, <1>2, <1>12 DEF NothingToGiveBack, NextPair
<1>13. CASE GiveBack
  BY <1>1, <1>13, InputReturnKeeps, OutputReturnKeeps
<1>14. CASE NoEvent
  BY <1>1, <1>2, <1>14 DEF NoEvent
<1>15. CASE DeqEvent
  BY <1>15, EventKeeps
<1>16. CASE Finished \/ UNCHANGED vars
  <2>1. UNCHANGED vars
    BY <1>16 DEF Finished
  <2>2. /\ UNCHANGED <<port, event, queued, ready, hwVars, written>>
        /\ pc' = pc /\ pair' = pair /\ faults' = faults
    BY <2>1 DEF vars
  <2>3. QED
    BY <1>1, <2>2, QuietKeeps
<1>17. CASE CameraCapture
  BY <1>17, CaptureKeeps
<1>18. CASE MfcEncode
  BY <1>18, EncodeKeeps
<1>19. CASE MfcRelease
  BY <1>19, ReleaseKeeps
<1>20. CASE MfcEos
  BY <1>20, EosKeeps
<1>21. QED
  BY <1>3, <1>4, <1>5, <1>6, <1>8, <1>9, <1>10, <1>11, <1>12, <1>13, <1>14, <1>15, <1>16, <1>17, <1>18,
     <1>19, <1>20 DEF Next, Program

(* The chain keeps the invariant, whatever the devices do and whatever     *)
(* call fails.                                                             *)
THEOREM ChainInvariant == Spec => []ChainInv
<1>1. Init => ChainInv
  BY InitChain
<1>2. ChainInv /\ [Next]_vars => ChainInv'
  BY StepKeeps
<1>3. QED
  BY <1>1, <1>2, PTL DEF Spec

(* Every variable of the chain has its type: no counter of a port becomes  *)
(* negative, and what the MFC holds for reference are buffers of its input.*)
THEOREM ChainTypes == Spec => []TypeOK
<1>1. ChainInv => TypeOK
  BY DEF ChainInv
<1>2. QED
  BY <1>1, ChainInvariant, PTL

(* The MFC is told to stop with the last frame it gets, not before, and    *)
(* when the source has ended it has been told.                             *)
THEOREM StopsWithLastFrame == Spec => []StopWithLastFrame
<1>1. ChainInv => StopWithLastFrame
  BY DEF ChainInv, Streams, Limits, StopWithLastFrame, Ended
<1>2. QED
  BY <1>1, ChainInvariant, PTL

(* The program ends, if no call fails, only when the MFC's last picture is *)
(* back, its end of stream was seen and all it delivered is in the file.   *)
THEOREM EndsWithEverything == Spec => []EndsCleanly
<1>1. ChainInv => EndsCleanly
  BY DEF ChainInv, Endings, Streams, Limits, EndsCleanly, Ended
<1>2. QED
  BY <1>1, ChainInvariant, PTL

(* The buffers of two sides that have them all, and share none             *)
LEMMA Shared ==
  ASSUME NEW u \in Seq(Bufs), NEW d \in Seq(Bufs), NEW S, Distinct(u), Distinct(d),
         Items(u) \cap Items(d) = {}, Items(u) \cup Items(d) = S
  PROVE  Len(u \o d) = Cardinality(S) /\ {(u \o d)[k] : k \in DOMAIN (u \o d)} = S
<1> DEFINE w == u \o d
<1>1. /\ u \o d \in Seq(Bufs) /\ Items(u \o d) = Items(u) \cup Items(d)
      /\ Distinct(u) /\ Distinct(d) /\ Items(u) \cap Items(d) = {} => Distinct(u \o d)
  BY BehindOneAnother
<1>2. w \in Seq(Bufs) /\ Items(w) = S /\ Distinct(w)
  BY <1>1
<1> HIDE DEF w
<1>3. Cardinality(Items(w)) = Len(w)
  BY <1>2, AsLongAsItsItems
<1>4. {w[k] : k \in DOMAIN w} = S
  BY <1>2 DEF Items
<1>5. Len(w) = Cardinality(S) /\ {w[k] : k \in DOMAIN w} = S
  BY <1>2, <1>3, <1>4
<1>6. QED
  BY <1>5 DEF w

(* As long as neither side of a pair has ended each of its buffers is in   *)
(* exactly one of the two queues, and nbufs counts those of each side.     *)
THEOREM BuffersStay == Spec => []BuffersConserved
<1>1. ASSUME ChainInv PROVE BuffersConserved
  <2>1. /\ queued \in [Ports -> Seq(Bufs)] /\ ready \in [Ports -> Seq(Bufs)] /\ held \in Seq(Bufs)
        /\ "source" \in Ports /\ "mfcIn" \in Ports /\ "mfcOut" \in Ports /\ "file" \in Ports
        /\ IsFunc("file")
    BY <1>1 DEF ChainInv, TypeOK, Bufs, Ports, IsFunc
  <2>2. /\ at["source"] = queued["source"] /\ at["sourceDone"] = ready["source"]
        /\ at["input"] = queued["mfcIn"] /\ at["held"] = held /\ at["inputDone"] = ready["mfcIn"]
        /\ at["output"] = queued["mfcOut"] /\ at["outputDone"] = ready["mfcOut"]
        /\ at["file"] = queued["file"] /\ DOMAIN at = Places /\ ready["file"] = <<>>
        /\ Apart(at) /\ OfTheirPair(at) /\ <<>> \in Seq(Bufs) /\ Len(<<>>) = 0
    BY <1>1, <2>1, AtPlaces DEF ChainInv, PairsApart, PortStates
  <2>3. Items(<<>>) = {} /\ Distinct(<<>>)
    BY DEF Items, Distinct
  <2>4. \A p \in Ports \ {"mfcIn"} : Where(p) = (queued[p] \o ready[p]) \o <<>>
    BY DEF Where
  <2>5. Where("mfcIn") = (queued["mfcIn"] \o ready["mfcIn"]) \o held
    BY DEF Where
  <2>6. /\ Distinct(at["source"]) /\ Distinct(at["sourceDone"]) /\ Distinct(at["input"])
        /\ Distinct(at["held"]) /\ Distinct(at["inputDone"]) /\ Distinct(at["output"])
        /\ Distinct(at["outputDone"]) /\ Distinct(at["file"])
    BY <2>2 DEF Apart, Places
  <2>7. \A x, y \in Places : x # y => Items(at[x]) \cap Items(at[y]) = {}
    BY <2>2 DEF Apart
  <2>8. ASSUME ~Ended("source"), ~Ended("mfcIn")
        PROVE  /\ Len(Where("source")) = port["source"].nbufs /\ Len(Where("mfcIn")) = port["mfcIn"].nbufs
               /\ Len(Where("source") \o Where("mfcIn")) = Cardinality(InBufs)
               /\ {(Where("source") \o Where("mfcIn"))[k] : k \in DOMAIN (Where("source") \o Where("mfcIn"))}
                    = InBufs
    <3> DEFINE s == queued["source"]
               t == ready["source"]
               a == queued["mfcIn"]
               r == ready["mfcIn"]
               h == held
               u == Where("source")
               d == Where("mfcIn")
    <3>1. s \in Seq(Bufs) /\ t \in Seq(Bufs) /\ a \in Seq(Bufs) /\ r \in Seq(Bufs) /\ h \in Seq(Bufs)
      BY <2>1
    <3>2. u = (s \o t) \o <<>> /\ d = (a \o r) \o h
      BY <2>1, <2>4, <2>5
    <3>3. /\ Distinct(s) /\ Distinct(t) /\ Distinct(a) /\ Distinct(r) /\ Distinct(h)
          /\ Items(s) \cap Items(t) = {} /\ Items(a) \cap Items(r) = {} /\ Items(a) \cap Items(h) = {}
          /\ Items(r) \cap Items(h) = {}
          /\ Items(s) \cap (Items(a) \cup Items(r) \cup Items(h)) = {}
          /\ Items(t) \cap (Items(a) \cup Items(r) \cup Items(h)) = {}
      BY <2>2, <2>6, <2>7 DEF Places
    <3>4. Items(s) \cup Items(t) \cup Items(a) \cup Items(r) \cup Items(h) = InBufs
      <4>1. AllIn(at)
        BY <1>1, <2>8 DEF ChainInv, PairsApart
      <4>2. InPlaces = {"source", "sourceDone", "input", "held", "inputDone"}
        BY DEF InPlaces
      <4>3. Items(s) \cup Items(t) \cup Items(a) \cup Items(r) \cup Items(h) \subseteq InBufs
        BY <2>2, <4>2 DEF OfTheirPair
      <4>4. \A b \in InBufs : b \in Items(s) \cup Items(t) \cup Items(a) \cup Items(r) \cup Items(h)
        BY <2>2, <4>1, <4>2 DEF AllIn
      <4>5. QED
        BY <4>3, <4>4
    <3>5. port["source"].nbufs = Len(s) + Len(t) /\ port["mfcIn"].nbufs = Len(a) + Len(r) + Len(h)
      BY <1>1, <2>8 DEF ChainInv, Counts
    <3> HIDE DEF s, t, a, r, h, u, d
    <3>6. /\ s \o t \in Seq(Bufs) /\ Len(s \o t) = Len(s) + Len(t) /\ Distinct(s \o t)
          /\ Items(s \o t) = Items(s) \cup Items(t)
      BY <3>1, <3>3, BehindOneAnother
    <3>7. u = s \o t
      BY <3>2, <3>6, ConcatEmptySeq
    <3>8. /\ a \o r \in Seq(Bufs) /\ Len(a \o r) = Len(a) + Len(r) /\ Distinct(a \o r)
          /\ Items(a \o r) = Items(a) \cup Items(r)
      BY <3>1, <3>3, BehindOneAnother
    <3>9. Items(a \o r) \cap Items(h) = {}
      BY <3>3, <3>8
    <3> DEFINE e == a \o r
    <3>front. e \in Seq(Bufs) /\ Distinct(e) /\ Items(e) \cap Items(h) = {} /\ d = e \o h
      BY <3>2, <3>8, <3>9
    <3> HIDE DEF e
    <3>behind.
          /\ e \o h \in Seq(Bufs) /\ Len(e \o h) = Len(e) + Len(h)
          /\ Items(e \o h) = Items(e) \cup Items(h)
          /\ Distinct(e) /\ Distinct(h) /\ Items(e) \cap Items(h) = {} => Distinct(e \o h)
      BY <3>1, <3>front, BehindOneAnother
    <3>10. /\ d \in Seq(Bufs) /\ Len(d) = Len(a \o r) + Len(h) /\ Distinct(d)
           /\ Items(d) = Items(a \o r) \cup Items(h)
      <4>1. Len(d) = Len(e) + Len(h) /\ Items(d) = Items(e) \cup Items(h) /\ d \in Seq(Bufs)
        BY <3>front, <3>behind
      <4>2. Distinct(d)
        BY <3>3, <3>front, <3>behind
      <4>3. QED
        BY <4>1, <4>2 DEF e
    <3>11. Items(u) \cap Items(d) = {} /\ Items(u) \cup Items(d) = InBufs
      BY <3>3, <3>4, <3>6, <3>7, <3>8, <3>10
    <3>12. Len(u) = port["source"].nbufs /\ Len(d) = port["mfcIn"].nbufs
      BY <3>5, <3>6, <3>7, <3>8, <3>10
    <3>sides. u \in Seq(Bufs) /\ d \in Seq(Bufs) /\ Distinct(u) /\ Distinct(d)
      BY <3>6, <3>7, <3>10
    <3>13. Len(u \o d) = Cardinality(InBufs) /\ {(u \o d)[k] : k \in DOMAIN (u \o d)} = InBufs
      BY <3>11, <3>sides, Shared
    <3>14. QED
      BY <3>12, <3>13 DEF u, d
  <2>9. ASSUME ~Ended("mfcOut"), ~Ended("file")
        PROVE  /\ Len(Where("mfcOut")) = port["mfcOut"].nbufs /\ Len(Where("file")) = port["file"].nbufs
               /\ Len(Where("mfcOut") \o Where("file")) = Cardinality(OutBufs)
               /\ {(Where("mfcOut") \o Where("file"))[k] : k \in DOMAIN (Where("mfcOut") \o Where("file"))}
                    = OutBufs
    <3> DEFINE s == queued["mfcOut"]
               t == ready["mfcOut"]
               a == queued["file"]
               u == Where("mfcOut")
               d == Where("file")
    <3>1. s \in Seq(Bufs) /\ t \in Seq(Bufs) /\ a \in Seq(Bufs)
      BY <2>1
    <3>2. u = (s \o t) \o <<>> /\ d = (a \o <<>>) \o <<>>
      BY <2>1, <2>2, <2>4
    <3>3. /\ Distinct(s) /\ Distinct(t) /\ Distinct(a)
          /\ Items(s) \cap Items(t) = {} /\ Items(s) \cap Items(a) = {} /\ Items(t) \cap Items(a) = {}
      BY <2>2, <2>6, <2>7 DEF Places
    <3>4. Items(s) \cup Items(t) \cup Items(a) = OutBufs
      <4>1. AllOut(at)
        BY <1>1, <2>9 DEF ChainInv, PairsApart
      <4>2. OutPlaces = {"output", "outputDone", "file"}
        BY DEF OutPlaces
      <4>3. Items(s) \cup Items(t) \cup Items(a) \subseteq OutBufs
        BY <2>2, <4>2 DEF OfTheirPair
      <4>4. \A b \in OutBufs : b \in Items(s) \cup Items(t) \cup Items(a)
        BY <2>2, <4>1, <4>2 DEF AllOut
      <4>5. QED
        BY <4>3, <4>4
    <3>5. port["mfcOut"].nbufs = Len(s) + Len(t) /\ port["file"].nbufs = Len(a)
      BY <1>1, <2>9 DEF ChainInv, Counts
    <3> HIDE DEF s, t, a, u, d
    <3>6. /\ s \o t \in Seq(Bufs) /\ Len(s \o t) = Len(s) + Len(t) /\ Distinct(s \o t)
          /\ Items(s \o t) = Items(s) \cup Items(t)
      BY <3>1, <3>3, BehindOneAnother
    <3>7. u = s \o t /\ d = a
      BY <3>1, <3>2, <3>6, ConcatEmptySeq
    <3>8. Items(u) \cap Items(d) = {} /\ Items(u) \cup Items(d) = OutBufs
      BY <3>3, <3>4, <3>6, <3>7
    <3>sides. u \in Seq(Bufs) /\ d \in Seq(Bufs) /\ Distinct(u) /\ Distinct(d)
      BY <3>1, <3>3, <3>6, <3>7
    <3>9. Len(u \o d) = Cardinality(OutBufs) /\ {(u \o d)[k] : k \in DOMAIN (u \o d)} = OutBufs
      BY <3>8, <3>sides, Shared
    <3>10. QED
      BY <3>5, <3>6, <3>7, <3>9 DEF u, d
  <2>10. QED
    BY <2>8, <2>9, SMTT(30) DEF BuffersConserved, Pairs, Up, Down, Ended
<1>2. QED
  BY <1>1, ChainInvariant, PTL

(* The numbers that follow a                                               *)
Follows(s, a) == s \in Seq(Nat) /\ \A k \in DOMAIN s : s[k] = a + k

(* Two such runs, the second where the first ends, are one.                *)
LEMMA FollowsOn ==
  ASSUME NEW a \in Nat, NEW s, NEW t, Follows(s, a), Follows(t, a + Len(s))
  PROVE  Follows(s \o t, a) /\ Len(s \o t) = Len(s) + Len(t)
<1>1. s \in Seq(Nat) /\ t \in Seq(Nat) /\ Len(s) \in Nat
  BY DEF Follows
<1> DEFINE w == s \o t
<1>2. /\ s \o t \in Seq(Nat) /\ Len(s \o t) = Len(s) + Len(t) /\ DOMAIN (s \o t) = 1 .. Len(s) + Len(t)
      /\ \A k \in DOMAIN (s \o t) :
           \/ k \in DOMAIN s /\ (s \o t)[k] = s[k]
           \/ k - Len(s) \in DOMAIN t /\ k > Len(s) /\ (s \o t)[k] = t[k - Len(s)]
  BY <1>1, BehindOneAnother
<1>3. /\ w \in Seq(Nat) /\ Len(w) = Len(s) + Len(t) /\ DOMAIN w = 1 .. Len(s) + Len(t)
      /\ \A k \in DOMAIN w : \/ k \in DOMAIN s /\ w[k] = s[k]
                             \/ k - Len(s) \in DOMAIN t /\ k > Len(s) /\ w[k] = t[k - Len(s)]
  BY <1>2
<1> HIDE DEF w
<1>4. Len(t) \in Nat
  BY <1>1
<1>5. \A k \in DOMAIN w : k \in Nat
  BY <1>1, <1>3, <1>4
<1>6. ASSUME NEW k \in DOMAIN w PROVE w[k] = a + k
  <2>1. CASE k \in DOMAIN s /\ w[k] = s[k]
    BY <2>1 DEF Follows
  <2>2. CASE k - Len(s) \in DOMAIN t /\ w[k] = t[k - Len(s)]
    <3>1. w[k] = (a + Len(s)) + (k - Len(s))
      BY <2>2 DEF Follows
    <3>2. \A x, y, z \in Nat : (x + y) + (z - y) = x + z
      OBVIOUS
    <3>3. QED
      BY <1>1, <1>5, <3>1, <3>2
  <2>3. QED
    BY <1>3, <2>1, <2>2
<1>7. Follows(w, a)
  BY <1>3, <1>6 DEF Follows
<1>8. QED
  BY <1>3, <1>7 DEF w

(* The frames in a queue of buffers that follow each other                 *)
LEMMA FramesFollow ==
  ASSUME content \in [Bufs -> Nat], NEW b \in Seq(Bufs), NEW a \in Nat,
         \A k \in DOMAIN b : content[b[k]] = a + k
  PROVE  Follows(Frames(b), a) /\ Len(Frames(b)) = Len(b)
<1>1. Len(b) \in Nat /\ DOMAIN b = 1 .. Len(b) /\ \A k \in DOMAIN b : b[k] \in Bufs
  OBVIOUS
<1>2. Frames(b) = [k \in 1 .. Len(b) |-> content[b[k]]]
  BY <1>1 DEF Frames
<1>3. \A k \in 1 .. Len(b) : content[b[k]] \in Nat
  BY <1>1
<1> DEFINE c(k) == content[b[k]]
           w == [k \in 1 .. Len(b) |-> c(k)]
<1>4. \A k \in 1 .. Len(b) : c(k) \in Nat /\ c(k) = a + k
  BY <1>1, <1>3
<1> HIDE DEF c
<1>5. w \in Seq(Nat) /\ Len(w) = Len(b) /\ DOMAIN w = 1 .. Len(b) /\ \A k \in DOMAIN w : w[k] = c(k)
  BY <1>1, <1>4
<1>6. Frames(b) = w
  BY <1>2 DEF c
<1> HIDE DEF w
<1>7. QED
  BY <1>4, <1>5, <1>6 DEF Follows

(* The file is the beginning of the video, and while none of the devices   *)
(* in between has ended, the file, the pictures on their way to it and     *)
(* those on their way to the MFC are the video so far.                     *)
THEOREM FramesStayInOrder == Spec => []FramesKeepOrder
<1>1. ASSUME ChainInv PROVE FramesKeepOrder
  <2>1. /\ queued \in [Ports -> Seq(Bufs)] /\ ready \in [Ports -> Seq(Bufs)]
        /\ content \in [Bufs -> Nat] /\ written \in Seq(Nat) /\ Line
    BY <1>1 DEF ChainInv, TypeOK
  <2>2. port["source"].counter \in Nat /\ port["mfcOut"].counter \in Nat
    <3>1. port \in [Ports -> PortRecord]
      BY <1>1, TypeParts DEF ChainInv, PortTypes
    <3>2. port["source"] \in PortRecord /\ port["mfcOut"] \in PortRecord
      BY <3>1 DEF Ports
    <3>3. QED
      BY <3>2, PortFields
  <2>3. \A k \in DOMAIN written : written[k] = k
    BY <2>1 DEF Line
  <2>4. ASSUME ~Ended("mfcOut"), ~Ended("file")
        PROVE  written \o Frames(queued["file"]) \o Frames(ready["mfcOut"]) \o Frames(queued["mfcIn"])
                 = [k \in 1 .. port["source"].counter |-> k]
    <3> DEFINE q == queued["file"]
               r == ready["mfcOut"]
               s == queued["mfcIn"]
               n == port["source"].counter
               m == port["mfcOut"].counter
               f == Frames(q)
               g == Frames(r)
               h == Frames(s)
    <3>1. /\ q \in Seq(Bufs) /\ r \in Seq(Bufs) /\ s \in Seq(Bufs) /\ n \in Nat /\ m \in Nat
          /\ Len(q) \in Nat /\ Len(r) \in Nat /\ Len(s) \in Nat /\ Len(written) \in Nat
      BY <2>1, <2>2 DEF Ports
    <3>2. /\ Len(written) + Len(q) = m /\ n = m + Len(r) + Len(s)
          /\ \A k \in DOMAIN q : content[q[k]] = Len(written) + k
          /\ \A k \in DOMAIN r : content[r[k]] = m + k
          /\ \A k \in DOMAIN s : content[s[k]] = m + Len(r) + k
      BY <2>1, <2>4 DEF Line
    <3> HIDE DEF q, r, s, n, m
    <3>3. Follows(f, Len(written)) /\ Len(f) = Len(q)
      BY <2>1, <3>1, <3>2, FramesFollow
    <3>4. Follows(g, m) /\ Len(g) = Len(r)
      BY <2>1, <3>1, <3>2, FramesFollow
    <3>5. Follows(h, m + Len(r)) /\ Len(h) = Len(s)
      <4>1. m + Len(r) \in Nat
        BY <3>1
      <4>2. QED
        BY <2>1, <3>1, <3>2, <4>1, FramesFollow
    <3> HIDE DEF f, g, h
    <3>6. \A k \in DOMAIN written : k \in Nat
      BY <2>1
    <3>7. Follows(written, 0) /\ 0 + Len(written) = Len(written)
      BY <2>1, <2>3, <3>1, <3>6 DEF Follows
    <3>8. Follows(written \o f, 0) /\ Len(written \o f) = m
      <4>1. Follows(f, 0 + Len(written))
        BY <3>3, <3>7
      <4>2. Follows(written \o f, 0) /\ Len(written \o f) = Len(written) + Len(f)
        BY <3>7, <4>1, FollowsOn
      <4>3. QED
        BY <3>2, <3>3, <4>2
    <3> DEFINE v == written \o f
    <3>9. Follows(v, 0) /\ Len(v) = m /\ 0 + Len(v) = m
      BY <3>1, <3>8
    <3> HIDE DEF v
    <3>10. Follows(v \o g, 0) /\ Len(v \o g) = m + Len(r)
      BY <3>4, <3>9, FollowsOn
    <3> DEFINE w == v \o g
    <3>11. Follows(w, 0) /\ Len(w) = m + Len(r) /\ 0 + Len(w) = m + Len(r)
      BY <3>1, <3>10
    <3> HIDE DEF w
    <3>12. Follows(w \o h, 0) /\ Len(w \o h) = n
      <4>1. Follows(w \o h, 0) /\ Len(w \o h) = Len(w) + Len(h)
        BY <3>5, <3>11, FollowsOn
      <4>2. QED
        BY <3>2, <3>5, <3>11, <4>1
    <3> DEFINE z == w \o h
    <3>13. z \in Seq(Nat) /\ Len(z) = n /\ \A k \in DOMAIN z : z[k] = 0 + k
      BY <3>12 DEF Follows
    <3> HIDE DEF z
    <3>14. DOMAIN z = 1 .. n /\ z = [k \in DOMAIN z |-> z[k]] /\ \A k \in 1 .. n : z[k] = k
      BY <3>1, <3>13
    <3>15. z = [k \in 1 .. n |-> k]
      BY <3>14
    <3>16. QED
      BY <3>15 DEF z, w, v, f, g, h, q, r, s, n
  <2>5. QED
    BY <2>3, <2>4 DEF FramesKeepOrder, Ended
<1>2. QED
  BY <1>1, ChainInvariant, PTL

-----------------------------------------------------------------------------
(* The pipeline                                                            *)

(* What is counted at each stage                                           *)
FramesTaken   == port["source"].counter
FramesPassed  == port["mfcOut"].counter
FramesWritten == Len(written)
ToEncode      == Len(queued["mfcIn"])
ToPass        == Len(ready["mfcOut"])
FreeOutputs   == Len(queued["mfcOut"])
ToWrite       == Len(queued["file"])

(* The end of the stream comes when nothing is left to encode.  A frame    *)
(* whose write failed is never written, and its buffer goes on.            *)
InFlight ==
  /\ eos # "none" => stopped /\ queued["mfcIn"] = <<>>
  /\ FramesPassed <= FramesTaken
  /\ Ended("file") /\ ~Ended("mfcOut") =>
       FramesPassed + ToPass + FreeOutputs <= FramesWritten + NOut + 1

Encoded == FramesTaken - ToEncode

(* The variables of the pipeline, by their names here                      *)
LEMMA PipelineVars ==
  /\ Pipeline!vars = <<FramesTaken, Encoded, written>>
  /\ Pipeline!vars' = <<FramesTaken', Encoded', written'>>
BY DEF Pipeline!vars, Encoded, FramesTaken, ToEncode

(* The types of what is counted                                            *)
LEMMA Lengths ==
  ASSUME ChainInv
  PROVE  /\ "source" \in Ports /\ "mfcIn" \in Ports /\ "mfcOut" \in Ports /\ "file" \in Ports
         /\ port \in [Ports -> PortRecord] /\ queued \in [Ports -> Seq(Bufs)] /\ ready \in [Ports -> Seq(Bufs)]
         /\ FramesTaken \in Nat /\ FramesPassed \in Nat
         /\ ToEncode \in Nat /\ FreeOutputs \in Nat
         /\ ToWrite \in Nat /\ ToPass \in Nat
         /\ written \in Seq(Nat) /\ FramesWritten \in Nat
<1>1. /\ "source" \in Ports /\ "mfcIn" \in Ports /\ "mfcOut" \in Ports /\ "file" \in Ports
      /\ port \in [Ports -> PortRecord] /\ queued \in [Ports -> Seq(Bufs)] /\ ready \in [Ports -> Seq(Bufs)]
      /\ written \in Seq(Nat)
  BY DEF ChainInv, TypeOK, Ports, PortRecord
<1>2. \A p \in Ports : queued[p] \in Seq(Bufs) /\ ready[p] \in Seq(Bufs) /\ port[p] \in PortRecord
  BY <1>1
<1>3. \A S : \A s \in Seq(S) : Len(s) \in Nat
  OBVIOUS
<1>4. QED
  BY <1>1, <1>2, <1>3 DEF PortRecord, FramesTaken, FramesPassed, FramesWritten, ToEncode, ToPass, FreeOutputs, ToWrite

(* The same, numbers only                                                  *)
LEMMA CountTypes ==
  ASSUME ChainInv
  PROVE  /\ FramesTaken \in Nat /\ FramesPassed \in Nat
         /\ ToEncode \in Nat /\ FreeOutputs \in Nat
         /\ ToWrite \in Nat /\ ToPass \in Nat /\ FramesWritten \in Nat
         /\ NIn \in Nat /\ NOut \in Nat /\ MaxFaults \in Nat
BY Lengths, ChainAssumption

(* n numbered buffers are n buffers.                                       *)
LEMMA NumberedBuffers ==
  ASSUME NEW n \in Nat, NEW i
  PROVE  IsFiniteSet({<<i, k>> : k \in 1 .. n}) /\ Cardinality({<<i, k>> : k \in 1 .. n}) = n
<1> DEFINE T == {<<i, k>> : k \in 1 .. n}
           f == [k \in 1 .. n |-> <<i, k>>]
<1>1. IsFiniteSet(1 .. n) /\ Cardinality(1 .. n) = n
  BY FS_Interval
<1>2. ExistsBijection(1 .. n, T)
  <2>1. f \in [1 .. n -> T]
    OBVIOUS
  <2>2. \A a, b \in 1 .. n : f[a] = f[b] => a = b
    OBVIOUS
  <2>3. \A t \in T : \E a \in 1 .. n : f[a] = t
    OBVIOUS
  <2> HIDE DEF f, T
  <2>4. f \in Bijection(1 .. n, T)
    BY <2>1, <2>2, <2>3 DEF Bijection, Injection, Surjection, IsInjective
  <2>5. QED
    BY <2>4 DEF ExistsBijection
<1> HIDE DEF T
<1>3. Cardinality(1 .. n) = Cardinality(T) /\ IsFiniteSet(T)
  BY <1>1, <1>2, FS_Bijection
<1>4. QED
  BY <1>1, <1>3 DEF T

(* Three queues of different buffers of a pair hold no more than there are.*)
LEMMA ThreeQueuesFit ==
  ASSUME NEW u \in Seq(Bufs), NEW v \in Seq(Bufs), NEW w \in Seq(Bufs),
         NEW T, IsFiniteSet(T),
         Distinct(u), Distinct(v), Distinct(w),
         Items(u) \cap Items(v) = {}, Items(u) \cap Items(w) = {}, Items(v) \cap Items(w) = {},
         Items(u) \cup Items(v) \cup Items(w) \subseteq T
  PROVE  Len(u) + Len(v) + Len(w) <= Cardinality(T)
<1> DEFINE s == (u \o v) \o w
<1>1. u \o v \in Seq(Bufs) /\ Len(u \o v) = Len(u) + Len(v)
      /\ Items(u \o v) = Items(u) \cup Items(v) /\ Distinct(u \o v)
  BY BehindOneAnother
<1>2. Items(u \o v) \cap Items(w) = {}
  BY <1>1
<1>3. s \in Seq(Bufs) /\ Len(s) = Len(u \o v) + Len(w)
      /\ Items(s) = Items(u \o v) \cup Items(w) /\ Distinct(s)
  <2> DEFINE x == u \o v
  <2>1. x \in Seq(Bufs) /\ Distinct(x) /\ Items(x) \cap Items(w) = {}
    BY <1>1, <1>2
  <2> HIDE DEF x
  <2>2. /\ x \o w \in Seq(Bufs) /\ Len(x \o w) = Len(x) + Len(w)
        /\ Items(x \o w) = Items(x) \cup Items(w) /\ Distinct(x \o w)
    BY <2>1, BehindOneAnother
  <2>3. QED
    BY <2>2 DEF x
<1> HIDE DEF s
<1>4. Items(s) \subseteq T
  BY <1>1, <1>3
<1>5. Cardinality(Items(s)) = Len(s)
  BY <1>3, AsLongAsItsItems
<1>6. Cardinality(Items(s)) <= Cardinality(T)
  BY <1>4, FS_Subset
<1>7. QED
  BY <1>1, <1>3, <1>5, <1>6

(* The buffers of the pairs, counted                                       *)
LEMMA BufferCounts ==
  /\ IsFiniteSet(InBufs) /\ Cardinality(InBufs) = NIn
  /\ IsFiniteSet(OutBufs) /\ Cardinality(OutBufs) = NOut
<1>1. NIn \in Nat /\ NOut \in Nat
  BY ChainAssumption
<1>2. IsFiniteSet({<<1, k>> : k \in 1 .. NIn}) /\ Cardinality({<<1, k>> : k \in 1 .. NIn}) = NIn
  BY <1>1, NumberedBuffers
<1>3. IsFiniteSet({<<2, k>> : k \in 1 .. NOut}) /\ Cardinality({<<2, k>> : k \in 1 .. NOut}) = NOut
  BY <1>1, NumberedBuffers
<1>4. QED
  BY <1>2, <1>3 DEF InBufs, OutBufs

(* The pairs have no more buffers than they were given.                    *)
LEMMA BuffersFit ==
  ASSUME ChainInv
  PROVE  /\ Len(queued["source"]) + Len(ready["source"]) + ToEncode <= NIn
         /\ ToWrite + ToPass + FreeOutputs <= NOut
<1>1. Apart(at) /\ OfTheirPair(at) /\ at \in [Places -> Seq(Bufs)]
  BY PlaceTypes DEF ChainInv, PairsApart
<1>2. /\ \A x \in Places : at[x] \in Seq(Bufs) /\ Distinct(at[x])
      /\ \A x, y \in Places : x # y => Items(at[x]) \cap Items(at[y]) = {}
  BY <1>1 DEF Apart
<1>3. Len(at["source"]) + Len(at["sourceDone"]) + Len(at["input"]) <= NIn
  <2>1. {"source", "sourceDone", "input"} \subseteq InPlaces /\ InPlaces \subseteq Places
    BY DEF InPlaces, Places
  <2>2. Items(at["source"]) \cup Items(at["sourceDone"]) \cup Items(at["input"]) \subseteq InBufs
    BY <1>1, <2>1 DEF OfTheirPair
  <2>3. /\ Distinct(at["source"]) /\ Distinct(at["sourceDone"]) /\ Distinct(at["input"])
        /\ at["source"] \in Seq(Bufs) /\ at["sourceDone"] \in Seq(Bufs) /\ at["input"] \in Seq(Bufs)
        /\ Items(at["source"]) \cap Items(at["sourceDone"]) = {}
        /\ Items(at["source"]) \cap Items(at["input"]) = {} /\ Items(at["sourceDone"]) \cap Items(at["input"]) = {}
    BY <1>2, <2>1
  <2>4. QED
    BY <2>2, <2>3, BufferCounts, ThreeQueuesFit
<1>4. Len(at["file"]) + Len(at["outputDone"]) + Len(at["output"]) <= NOut
  <2>1. {"file", "outputDone", "output"} \subseteq OutPlaces /\ OutPlaces \subseteq Places
    BY DEF OutPlaces, Places
  <2>2. Items(at["file"]) \cup Items(at["outputDone"]) \cup Items(at["output"]) \subseteq OutBufs
    BY <1>1, <2>1 DEF OfTheirPair
  <2>3. /\ Distinct(at["file"]) /\ Distinct(at["outputDone"]) /\ Distinct(at["output"])
        /\ at["file"] \in Seq(Bufs) /\ at["outputDone"] \in Seq(Bufs) /\ at["output"] \in Seq(Bufs)
        /\ Items(at["file"]) \cap Items(at["outputDone"]) = {}
        /\ Items(at["file"]) \cap Items(at["output"]) = {} /\ Items(at["outputDone"]) \cap Items(at["output"]) = {}
    BY <1>2, <2>1
  <2>4. QED
    BY <2>2, <2>3, BufferCounts, ThreeQueuesFit
<1>5. QED
  BY <1>3, <1>4, AtPlaces DEF ToEncode, ToWrite, ToPass, FreeOutputs

(* How far the pipeline is                                                 *)
LEMMA EncodedSoFar ==
  ASSUME ChainInv, InFlight
  PROVE  /\ Encoded \in Nat /\ Encoded <= FramesTaken
         /\ ~Ended("mfcOut") => Encoded = FramesPassed + ToPass
         /\ FramesPassed <= Encoded
<1>1. CASE ~Ended("mfcOut")
  <2>1. FramesTaken = FramesPassed + ToPass + ToEncode
    BY <1>1 DEF ChainInv, Line, FramesTaken, FramesPassed, ToPass, ToEncode
  <2>2. Encoded = FramesPassed + ToPass
    BY <2>1, CountTypes DEF Encoded
  <2>3. QED
    BY <1>1, <2>1, <2>2, CountTypes
<1>2. CASE Ended("mfcOut")
  <2>1. queued["mfcIn"] = <<>>
    BY <1>2 DEF ChainInv, Streams, InFlight
  <2>2. ToEncode = 0
    BY <2>1, EmptySeq DEF ToEncode
  <2>3. Encoded = FramesTaken
    BY <2>2, CountTypes DEF Encoded
  <2>4. QED
    BY <1>2, <2>3, CountTypes DEF InFlight
<1>3. QED
  BY <1>1, <1>2

(* A frame is handed to the MFC.                                           *)
LEMMA HandedOver == ChainInv /\ InFlight /\ pair = 1 /\ TakeFrame => InFlight' /\ Pipeline!Parse
<1> SUFFICES ASSUME ChainInv, InFlight, pair = 1, TakeFrame PROVE InFlight' /\ Pipeline!Parse
  OBVIOUS
<1>1. InputPassedOn
  BY InputTaken
<1>2. /\ at[InputPlace] # <<>> /\ ~Ended("source")
      /\ FramesTaken' = FramesTaken + 1
      /\ FramesPassed' = FramesPassed
      /\ port'["file"] = port["file"] /\ written' = written /\ eos' = eos
      /\ FramesTaken < NFrames /\ eos = "none"
  BY <1>1 DEF InputPassedOn, ChainInv, Limits, Streams, InFlight, FramesTaken, FramesPassed
<1>3. port["mfcOut"].state # "end"
  BY <1>2 DEF ChainInv, Streams, Ended
<1>4. /\ queued'["mfcIn"] = Append(queued["mfcIn"], Head(at[InputPlace]))
      /\ queued'["mfcOut"] = queued["mfcOut"] /\ ready'["mfcOut"] = ready["mfcOut"]
  <2>1. \A z \in {"input", "output", "outputDone"} : Way(at, at', InputPlace, "input", z)
    BY <1>1 DEF InputPassedOn, Places
  <2>2. InputPlace \notin {"input", "output", "outputDone"}
    BY DEF InputPlace
  <2>3. QED
    BY <2>1, <2>2, AtPlaces DEF Way
<1>5. /\ Len(at[InputPlace]) > 0 /\ Head(at[InputPlace]) \in Bufs
      /\ Len(at["source"]) \in Nat /\ Len(at["sourceDone"]) \in Nat
  <2>1. at[InputPlace] \in Seq(Bufs) /\ at["source"] \in Seq(Bufs) /\ at["sourceDone"] \in Seq(Bufs)
    BY PlaceTypes DEF ChainInv, InputPlace, Places
  <2>2. \A s \in Seq(Bufs) : Len(s) \in Nat /\ (s # <<>> => Len(s) > 0 /\ Head(s) \in Bufs)
    OBVIOUS
  <2>3. QED
    BY <1>2, <2>1, <2>2
<1>6. ToEncode' = ToEncode + 1
  BY <1>4, <1>5, Lengths, Put DEF ToEncode
<1>7. Encoded' = Encoded
  BY <1>2, <1>6, CountTypes DEF Encoded
<1>8. ToEncode < NIn
  <2>1. Len(at["source"]) + Len(at["sourceDone"]) + ToEncode <= NIn
    BY BuffersFit, AtPlaces
  <2>2. Len(at["source"]) > 0 \/ Len(at["sourceDone"]) > 0
    BY <1>5 DEF InputPlace
  <2> DEFINE a == Len(at["source"])
             b == Len(at["sourceDone"])
  <2>3. a \in Nat /\ b \in Nat /\ a + b + ToEncode <= NIn /\ (a > 0 \/ b > 0)
    BY <1>5, <2>1, <2>2
  <2> HIDE DEF a, b
  <2>4. QED
    BY <2>3, CountTypes
<1>9. InFlight'
  <2>1. FramesPassed <= FramesTaken + 1
    BY CountTypes DEF InFlight
  <2>2. ToPass' = ToPass /\ FreeOutputs' = FreeOutputs /\ FramesWritten' = FramesWritten
    BY <1>2, <1>4 DEF ToPass, FreeOutputs, FramesWritten
  <2>3. port["file"].state = "end" /\ port'["mfcOut"].state # "end" =>
          FramesPassed' + ToPass' + FreeOutputs' <= FramesWritten' + NOut + 1
    <3>1. port["file"].state = "end" => FramesPassed' + ToPass + FreeOutputs <= FramesWritten + NOut + 1
      BY <1>2, <1>3 DEF InFlight, Ended
    <3>2. QED
      BY <2>2, <3>1
  <2>4. QED
    BY <1>2, <2>1, <2>3 DEF InFlight, Ended
<1>10. Pipeline!Parse
  <2>1. FramesTaken - Encoded < NIn
    BY <1>8, CountTypes DEF Encoded
  <2>2. QED
    BY <1>2, <1>7, <2>1 DEF Pipeline!Parse, Encoded, FramesTaken, ToEncode
<1>11. QED
  BY <1>9, <1>10

(* A frame is encoded.                                                     *)
LEMMA FrameEncoded == ChainInv /\ InFlight /\ MfcEncode => InFlight' /\ Pipeline!Decode
<1> SUFFICES ASSUME ChainInv, InFlight, MfcEncode PROVE InFlight' /\ Pipeline!Decode
  OBVIOUS
<1> DEFINE s == queued["mfcIn"]
           t == queued["mfcOut"]
           r == ready["mfcOut"]
<1>1. /\ s # <<>> /\ t # <<>>
      /\ queued' = [queued EXCEPT !["mfcIn"] = Tail(s), !["mfcOut"] = Tail(t)]
      /\ ready' = [ready EXCEPT !["mfcOut"] = Append(r, Head(t))]
      /\ port' = port /\ written' = written /\ eos' = eos /\ stopped' = stopped
  BY DEF MfcEncode, swVars
<1>2. /\ s \in Seq(Bufs) /\ t \in Seq(Bufs) /\ r \in Seq(Bufs) /\ Head(t) \in Bufs
      /\ Len(s) \in Nat \ {0} /\ Len(t) \in Nat \ {0} /\ Len(r) \in Nat
      /\ Len(Tail(s)) = Len(s) - 1 /\ Len(Tail(t)) = Len(t) - 1 /\ Len(Append(r, Head(t))) = Len(r) + 1
  <2>1. s \in Seq(Bufs) /\ t \in Seq(Bufs) /\ r \in Seq(Bufs)
    BY Lengths
  <2>2. Head(t) \in Bufs /\ Len(Tail(s)) = Len(s) - 1 /\ Len(Tail(t)) = Len(t) - 1
        /\ Len(s) \in Nat /\ Len(t) \in Nat
    BY <1>1, <2>1, Taken
  <2>3. Len(Append(r, Head(t))) = Len(r) + 1 /\ Len(r) \in Nat
    BY <2>1, <2>2, Put
  <2>4. Len(s) # 0 /\ Len(t) # 0
    BY <1>1, <2>1, EmptySeq
  <2>5. QED
    BY <2>1, <2>2, <2>3, <2>4
<1>3. /\ ToEncode' = ToEncode - 1 /\ FreeOutputs' = FreeOutputs - 1
      /\ ToPass' = ToPass + 1
      /\ ToEncode > 0 /\ FreeOutputs > 0
  <2>1. /\ queued'["mfcIn"] = Tail(s) /\ queued'["mfcOut"] = Tail(t)
        /\ ready'["mfcOut"] = Append(r, Head(t))
    BY <1>1, Lengths
  <2>2. /\ ToEncode = Len(s) /\ FreeOutputs = Len(t) /\ ToPass = Len(r)
        /\ ToEncode' = Len(Tail(s)) /\ FreeOutputs' = Len(Tail(t))
        /\ ToPass' = Len(Append(r, Head(t)))
    BY <2>1 DEF ToEncode, FreeOutputs, ToPass
  <2> HIDE DEF s, t, r
  <2>3. QED
    BY <1>2, <2>2
<1>4. eos = "none" /\ ~Ended("mfcOut")
  BY <1>1 DEF InFlight, ChainInv, Streams
<1>5. InFlight'
  <2>1. FramesPassed + ToPass' + FreeOutputs'
          = FramesPassed + ToPass + FreeOutputs
    BY <1>3, CountTypes
  <2>2. QED
    BY <1>1, <1>4, <2>1 DEF InFlight, Ended, FramesPassed, FramesTaken, FramesWritten
<1>6. Encoded' = Encoded + 1 /\ Encoded < FramesTaken
  <2>1. FramesTaken' = FramesTaken
    BY <1>1 DEF FramesTaken
  <2>2. QED
    BY <1>3, <2>1, CountTypes DEF Encoded
<1>7. Encoded - FramesWritten < NOut + MaxFaults
  <2>1. Encoded = FramesPassed + ToPass
    BY <1>4, EncodedSoFar
  <2>2. CASE ~Ended("file")
    <3>1. FramesWritten + ToWrite = FramesPassed
      BY <2>2 DEF ChainInv, Line, FramesWritten, ToWrite, FramesPassed
    <3>2. ToWrite + ToPass + FreeOutputs <= NOut
      BY BuffersFit
    <3>3. QED
      BY <1>3, <2>1, <3>1, <3>2, CountTypes
  <2>3. CASE Ended("file")
    <3>1. faults > 0 /\ faults \in 0 .. MaxFaults
      BY <2>3 DEF ChainInv, Limits, TypeOK
    <3>2. FramesPassed + ToPass + FreeOutputs <= FramesWritten + NOut + 1
      BY <1>4, <2>3 DEF InFlight
    <3>3. QED
      BY <1>3, <2>1, <3>1, <3>2, CountTypes
  <2>4. QED
    BY <2>2, <2>3
<1>8. Pipeline!Decode
  BY <1>1, <1>6, <1>7 DEF Pipeline!Decode, Encoded, FramesTaken, ToEncode, FramesWritten
<1>9. QED
  BY <1>5, <1>8

(* A frame is passed on to the file, or dropped.                           *)
LEMMA FramePassedOn ==
  ChainInv /\ InFlight /\ pair = 2 /\ (TakeFrame \/ DropFrame) => InFlight' /\ UNCHANGED Pipeline!vars
<1> SUFFICES ASSUME ChainInv, InFlight, pair = 2, TakeFrame \/ DropFrame
             PROVE  InFlight' /\ UNCHANGED Pipeline!vars
  OBVIOUS
<1>1. OutputPassedOn
  BY OutputTaken
<1>2. /\ port'["source"] = port["source"] /\ written' = written /\ eos' = eos /\ stopped' = stopped
      /\ FramesPassed' = FramesPassed + 1
      /\ at["outputDone"] # <<>> /\ ~Ended("mfcOut")
      /\ (port'["file"].state = "end" => Ended("file"))
  <2>1. ~Ended("file") => port'["file"].state # "end"
    BY <1>1 DEF OutputPassedOn, Ended
  <2>2. QED
    BY <1>1, <2>1 DEF OutputPassedOn, hwVars, FramesPassed
<1>3. /\ queued'["mfcIn"] = queued["mfcIn"] /\ queued'["mfcOut"] = queued["mfcOut"]
      /\ ready'["mfcOut"] = Tail(ready["mfcOut"])
  <2>1. \A z \in {"input", "output", "outputDone"} : Way(at, at', "outputDone", "file", z)
    BY <1>1 DEF OutputPassedOn, Places
  <2>2. QED
    BY <2>1, AtPlaces DEF Way
<1>4. ToPass' = ToPass - 1 /\ ToPass > 0
  <2>1. ready["mfcOut"] # <<>> /\ ready["mfcOut"] \in Seq(Bufs)
    BY <1>2, AtPlaces, Lengths
  <2>2. ToPass # 0
    BY <2>1, EmptySeq DEF ToPass
  <2>3. ToPass \in Nat /\ ToPass' = ToPass - 1
    BY <1>3, <2>1, CountTypes, Taken DEF ToPass
  <2>4. QED
    BY <2>2, <2>3
<1>5. FramesPassed + 1 <= FramesTaken
  <2>1. Encoded = FramesPassed + ToPass /\ Encoded <= FramesTaken
    BY <1>2, EncodedSoFar
  <2>2. QED
    BY <1>4, <2>1, CountTypes
<1>6. InFlight'
  <2>1. FramesPassed + 1 + ToPass' = FramesPassed + ToPass
    BY <1>4, CountTypes
  <2>2. QED
    BY <1>2, <1>3, <1>5, <2>1 DEF InFlight, Ended, FramesTaken, FreeOutputs, FramesWritten
<1>7. QED
  BY <1>2, <1>3, <1>6, PipelineVars DEF Encoded, FramesTaken, ToEncode

(* A used input goes back to the source.                                   *)
LEMMA InputComesBack ==
  ChainInv /\ InFlight /\ pair = 1 /\ GiveBack => InFlight' /\ UNCHANGED Pipeline!vars
<1> SUFFICES ASSUME ChainInv, InFlight, pair = 1, GiveBack
             PROVE  InFlight' /\ UNCHANGED Pipeline!vars
  OBVIOUS
<1>1. InputReturned
  BY InputGivenBack
<1>2. /\ FramesTaken' = FramesTaken /\ port'["mfcOut"] = port["mfcOut"]
      /\ port'["file"] = port["file"] /\ written' = written /\ eos' = eos /\ stopped' = stopped
  BY <1>1 DEF InputReturned, FramesTaken
<1>3. \A z \in {"input", "output", "outputDone"} : at'[z] = at[z] \/ (Ended("mfcOut") /\ at'[z] = <<>>)
  BY <1>1 DEF InputReturned, Places, Way
<1>4. queued'["mfcIn"] = queued["mfcIn"]
  <2>1. Ended("mfcOut") => queued["mfcIn"] = <<>>
    BY DEF ChainInv, Streams, InFlight
  <2>2. QED
    BY <1>3, <2>1, AtPlaces
<1>5. InFlight'
  BY <1>2, <1>3, <1>4, AtPlaces DEF InFlight, Ended, FramesPassed, FramesWritten, ToPass, FreeOutputs
<1>6. QED
  BY <1>2, <1>4, <1>5, PipelineVars DEF Encoded, ToEncode

(* A frame is written, or its write fails.                                 *)
LEMMA FrameWritten ==
  ChainInv /\ InFlight /\ pair = 2 /\ GiveBack
    => InFlight' /\ (Pipeline!Show \/ UNCHANGED Pipeline!vars)
<1> SUFFICES ASSUME ChainInv, InFlight, pair = 2, GiveBack
             PROVE  InFlight' /\ (Pipeline!Show \/ UNCHANGED Pipeline!vars)
  OBVIOUS
<1>1. OutputReturned
  BY OutputGivenBack
<1>2. /\ port'["source"] = port["source"] /\ FramesPassed' = FramesPassed
      /\ port'["mfcOut"].state = port["mfcOut"].state /\ eos' = eos /\ stopped' = stopped
      /\ ready' = ready /\ queued["file"] # <<>> /\ ~Ended("file")
  BY <1>1 DEF OutputReturned, Ended, FramesPassed
<1>3. queued'["mfcIn"] = queued["mfcIn"]
  <2>1. Way(at, at', "file", "output", "input")
    BY <1>1 DEF OutputReturned, Places
  <2>2. QED
    BY <2>1, AtPlaces DEF Way
<1>4. /\ queued["file"] \in Seq(Bufs) /\ ToWrite \in Nat /\ ToWrite > 0
      /\ Head(queued["file"]) \in Bufs /\ Head(queued["file"]) = queued["file"][1] /\ 1 \in DOMAIN queued["file"]
  <2>1. queued["file"] \in Seq(Bufs) /\ ToWrite \in Nat
    BY Lengths
  <2>2. ToWrite # 0
    BY <1>2, <2>1, EmptySeq DEF ToWrite
  <2>3. /\ Head(queued["file"]) \in Bufs /\ Head(queued["file"]) = queued["file"][1]
        /\ 1 \in DOMAIN queued["file"]
    BY <1>2, <2>1, Taken
  <2>4. QED
    BY <2>1, <2>2, <2>3
<1>5. ~Ended("mfcOut") => FreeOutputs' = FreeOutputs + 1
  <2> SUFFICES ASSUME ~Ended("mfcOut") PROVE FreeOutputs' = FreeOutputs + 1
    OBVIOUS
  <2>1. Way(at, at', "file", "output", "output")
    BY <1>1 DEF OutputReturned
  <2>2. queued'["mfcOut"] = Append(queued["mfcOut"], Head(queued["file"]))
    BY <2>1, AtPlaces DEF Way
  <2>3. QED
    BY <1>4, <2>2, Lengths, Put DEF FreeOutputs
<1>6. /\ FramesWritten + ToWrite = FramesPassed
      /\ content[queued["file"][1]] = FramesWritten + 1
  BY <1>2, <1>4 DEF ChainInv, Line, FramesWritten, ToWrite, FramesPassed
<1>7. Encoded' = Encoded /\ FramesPassed <= Encoded
  BY <1>2, <1>3, EncodedSoFar DEF Encoded, FramesTaken, ToEncode
<1>8. CASE port'["file"].state # "end"
  <2>1. written' = Append(written, FramesWritten + 1)
    BY <1>1, <1>4, <1>6, <1>8 DEF OutputReturned
  <2>2. InFlight'
    BY <1>2, <1>3, <1>8 DEF InFlight, Ended, FramesTaken
  <2>3. FramesWritten < Encoded
    BY <1>4, <1>6, <1>7, CountTypes, EncodedSoFar
  <2>4. Pipeline!Show
    BY <1>2, <1>7, <2>1, <2>3 DEF Pipeline!Show, Encoded, FramesTaken, ToEncode, FramesWritten
  <2>5. QED
    BY <2>2, <2>4
<1>9. CASE port'["file"].state = "end"
  <2>1. written' = written
    BY <1>1, <1>9 DEF OutputReturned
  <2>2. ~Ended("mfcOut") =>
          FramesPassed + ToPass + FreeOutputs' <= FramesWritten + NOut + 1
    <3>1. ToWrite + ToPass + FreeOutputs <= NOut
      BY BuffersFit
    <3>2. FramesPassed = FramesWritten + ToWrite
      BY <1>6
    <3>3. QED
      BY <1>5, <3>1, <3>2, CountTypes
  <2>3. InFlight'
    BY <1>2, <1>3, <2>1, <2>2 DEF InFlight, Ended, FramesTaken, ToPass, FramesWritten
  <2>4. QED
    BY <1>2, <1>7, <2>1, <2>3, PipelineVars DEF FramesTaken
<1>10. QED
  BY <1>8, <1>9

(* A step that leaves alone what the pipeline sees                         *)
LEMMA PipelineWaits ==
  ASSUME ChainInv, InFlight, UNCHANGED <<queued, ready, written, stopped>>,
         \A p \in Ports : port'[p].counter = port[p].counter,
         port'["file"].state = "end" => Ended("file"), port["mfcOut"].state = "end" => Ended("mfcOut")',
         eos' # "none" => stopped /\ queued["mfcIn"] = <<>>
  PROVE  InFlight' /\ UNCHANGED Pipeline!vars
<1>1. /\ FramesTaken' = FramesTaken /\ FramesPassed' = FramesPassed
      /\ queued' = queued /\ ready' = ready /\ written' = written /\ stopped' = stopped
  BY Lengths DEF FramesTaken, FramesPassed
<1>2. InFlight'
  BY <1>1 DEF InFlight, Ended, FramesWritten, ToPass, FreeOutputs
<1>3. QED
  BY <1>1, <1>2, PipelineVars DEF Encoded, ToEncode

(* A step of the chain is one of the pipeline, or none.                    *)
LEMMA StepOfPipeline ==
  ChainInv /\ InFlight /\ [Next]_vars => InFlight' /\ [Pipeline!Next]_(Pipeline!vars)
<1> SUFFICES ASSUME ChainInv, InFlight, [Next]_vars
             PROVE  InFlight' /\ [Pipeline!Next]_(Pipeline!vars)
  OBVIOUS
<1>1. pair \in {1, 2} /\ (eos # "none" => stopped /\ queued["mfcIn"] = <<>>)
  BY DEF ChainInv, TypeOK, Pairs, InFlight
<1>2. ASSUME UNCHANGED <<port, queued, ready, stopped, eos, written>>
      PROVE  InFlight' /\ UNCHANGED Pipeline!vars
  BY <1>1, <1>2, PipelineWaits DEF Ended
<1>3. CASE TakeFrame
  BY <1>1, <1>3, HandedOver, FramePassedOn DEF Pipeline!Next
<1>4. CASE DropFrame
  <2>1. pair = 2
    <3> SUFFICES ASSUME pair = 1 PROVE FALSE
      BY <1>1
    <3>1. port["source"].state = "ready" /\ port["mfcIn"].state = "end"
      BY <1>4 DEF DropFrame, Up, Down
    <3>2. QED
      BY <3>1 DEF ChainInv, Limits, Ended
  <2>2. QED
    BY <1>4, <2>1, FramePassedOn
<1>5. CASE GiveBack
  BY <1>1, <1>5, InputComesBack, FrameWritten DEF Pipeline!Next
<1>6. CASE MfcEncode
  BY <1>6, FrameEncoded DEF Pipeline!Next
<1>7. CASE Poll
  <2>1. UNCHANGED <<queued, ready, written, stopped, eos>>
    BY <1>7 DEF Poll, hwVars
  <2>2. port' = [p \in Ports |->
           IF p \in Polled /\ Readable(p) THEN [port[p] EXCEPT !.state = "ready"] ELSE port[p]]
    BY <1>7 DEF Poll
  <2>3. \A p \in Ports : port'[p].counter = port[p].counter
                         /\ (port'[p].state = port[p].state \/ (port[p].state = "busy" /\ port'[p].state = "ready"))
    <3> TAKE p \in Ports
    <3>1. port[p] \in PortRecord
      BY Lengths
    <3>2. QED
      BY <2>2, <3>1 DEF Polled, PortRecord
  <2>4. QED
    BY <1>1, <2>1, <2>3, PipelineWaits, Lengths DEF Ended
<1>8. CASE DeqEvent
  <2>1. UNCHANGED <<queued, ready, written, stopped>> /\ event
        /\ port' = [port EXCEPT !["mfcOut"].state = "end"]
    BY <1>8 DEF DeqEvent
  <2>2. /\ \A p \in Ports : port'[p].counter = port[p].counter
        /\ port'["file"] = port["file"] /\ port'["mfcOut"].state = "end"
    BY <2>1, Lengths DEF PortRecord
  <2>3. eos = "pending"
    BY <2>1 DEF ChainInv, Streams
  <2>4. QED
    BY <1>1, <2>1, <2>2, <2>3, PipelineWaits DEF Ended
<1>9. CASE MfcEos
  <2>1. UNCHANGED <<port, queued, ready, written, stopped>> /\ stopped /\ queued["mfcIn"] = <<>>
    BY <1>9 DEF MfcEos, swVars
  <2>2. QED
    BY <2>1, PipelineWaits DEF Ended
<1>10. CASE CameraCapture
  <2>1. /\ UNCHANGED <<port, written, stopped, eos>>
        /\ queued' = [queued EXCEPT !["source"] = Tail(@)]
        /\ ready' = [ready EXCEPT !["source"] = Append(@, Head(queued["source"]))]
    BY <1>10 DEF CameraCapture, swVars
  <2>2. queued'["mfcIn"] = queued["mfcIn"] /\ queued'["mfcOut"] = queued["mfcOut"]
        /\ ready'["mfcOut"] = ready["mfcOut"]
    BY <2>1, Lengths
  <2>3. QED
    BY <2>1, <2>2, PipelineVars DEF Encoded, InFlight, Ended, FramesTaken, FramesPassed, FramesWritten,
      ToEncode, ToPass, FreeOutputs
<1>11. CASE MfcRelease
  <2>1. /\ UNCHANGED <<port, queued, written, stopped, eos>>
        /\ ready' = [ready EXCEPT !["mfcIn"] = Append(@, Head(held))]
    BY <1>11 DEF MfcRelease, swVars
  <2>2. ready'["mfcOut"] = ready["mfcOut"]
    BY <2>1, Lengths
  <2>3. QED
    BY <2>1, <2>2, PipelineVars DEF Encoded, InFlight, Ended, FramesTaken, FramesPassed, FramesWritten,
      ToEncode, ToPass, FreeOutputs
<1>12. CASE NoNeedToWait \/ ChainEnds \/ PollFails \/ NothingToTake \/ TakeFails \/ NothingToGiveBack
            \/ GiveBackFails \/ NoEvent \/ DeqEventFails
  BY <1>2, <1>12 DEF NoNeedToWait, ChainEnds, PollFails, NothingToTake, TakeFails, NothingToGiveBack,
    GiveBackFails, NoEvent, DeqEventFails, Fails, NextPair, hwVars
<1>13. CASE Finished \/ UNCHANGED vars
  BY <1>2, <1>13 DEF Finished, vars, hwVars
<1>14. QED
  BY <1>3, <1>4, <1>5, <1>6, <1>7, <1>8, <1>9, <1>10, <1>11, <1>12, <1>13 DEF Next, Program

(* The pipeline starts empty.                                              *)
LEMMA PipelineStarts == Init => InFlight /\ Pipeline!Init
<1> SUFFICES ASSUME Init PROVE InFlight /\ Pipeline!Init
  OBVIOUS
<1>1. "source" \in Ports /\ "mfcIn" \in Ports /\ "mfcOut" \in Ports /\ "file" \in Ports
  BY DEF Ports
<1>2. /\ FramesTaken = 0 /\ FramesPassed = 0 /\ port["file"].state # "end"
      /\ queued["mfcIn"] = <<>> /\ eos = "none" /\ written = <<>>
  BY <1>1 DEF Init, NewPort, FramesTaken, FramesPassed
<1>3. InFlight
  BY <1>2 DEF InFlight, Ended
<1>4. ToEncode = 0
  BY <1>2, EmptySeq DEF ToEncode
<1>5. FramesTaken - ToEncode = 0
  BY <1>2, <1>4
<1>6. QED
  BY <1>2, <1>3, <1>5 DEF Pipeline!Init, FramesTaken, ToEncode

(* What is counted is right at every step.                                 *)
LEMMA FramesCounted == Spec => []InFlight
<1>1. ChainInv /\ InFlight /\ [Next]_vars => InFlight'
  BY StepOfPipeline
<1>2. QED
  BY <1>1, PipelineStarts, ChainInvariant, PTL DEF Spec

(* The encoder implements the pipeline, whatever call fails and however    *)
(* early the MFC's end was seen: each step moves one frame on by one       *)
(* stage, from the source to the MFC, from the MFC to where it is encoded, *)
(* or from there to the file, or it moves none; the frames come in their   *)
(* order, and no more of them are between two stages than there are        *)
(* buffers and writes that failed.                                         *)
THEOREM EncoderIsPipeline == Spec => ImplementsPipeline
<1>1. ChainInv /\ InFlight /\ [Next]_vars => [Pipeline!Next]_(Pipeline!vars)
  BY StepOfPipeline
<1>2. QED
  BY <1>1, PipelineStarts, FramesCounted, ChainInvariant, PTL DEF Spec, ImplementsPipeline

-----------------------------------------------------------------------------
(* The thread never blocks for ever                                        *)

FramesBack == port["mfcIn"].counter

(* The MFC's input ends with the last frame that it gives back.            *)
InputLeft == Ended("source") /\ ~Ended("mfcIn") => FramesBack < NFrames

(* A step keeps it.                                                        *)
LEMMA InputLeftKept == ChainInv /\ InputLeft /\ [Next]_vars => InputLeft'
<1> SUFFICES ASSUME ChainInv, InputLeft, [Next]_vars PROVE InputLeft'
  OBVIOUS
<1>1. pair \in {1, 2} /\ NFrames \in Nat /\ FramesBack \in Nat
  BY Lengths, ChainAssumption DEF ChainInv, TypeOK, Pairs, FramesBack, PortRecord
<1>2. ASSUME port'["source"] = port["source"], port'["mfcIn"] = port["mfcIn"] PROVE InputLeft'
  BY <1>2 DEF InputLeft, Ended, FramesBack
<1>3. CASE TakeFrame \/ DropFrame
  <2>1. CASE pair = 1
    <3>1. ~DropFrame
      <4> SUFFICES ASSUME DropFrame PROVE FALSE
        OBVIOUS
      <4>1. port["source"].state = "ready" /\ port["mfcIn"].state = "end"
        BY <2>1 DEF DropFrame, Up, Down
      <4>2. QED
        BY <4>1 DEF ChainInv, Limits, Ended
    <3>2. InputPassedOn
      BY <1>3, <2>1, <3>1, InputTaken
    <3>3. FramesBack' = FramesBack /\ FramesTaken < NFrames
      BY <3>2 DEF InputPassedOn, FramesBack, FramesTaken, ChainInv, Limits
    <3>4. FramesBack + port["mfcIn"].nbufs = FramesTaken /\ port["mfcIn"].nbufs \in Nat
      BY Lengths DEF ChainInv, Limits, FramesBack, FramesTaken, PortRecord
    <3>5. QED
      BY <1>1, <3>3, <3>4, CountTypes DEF InputLeft
  <2>2. CASE pair = 2
    BY <1>2, <1>3, <2>2, OutputTaken DEF OutputPassedOn
  <2>3. QED
    BY <1>1, <2>1, <2>2
<1>4. CASE GiveBack
  <2>1. CASE pair = 1
    <3>1. InputReturned
      BY <1>4, <2>1, InputGivenBack
    <3>2. FramesBack' = FramesBack + 1 /\ ~Ended("mfcIn")
      BY <3>1 DEF InputReturned, FramesBack, Ended
    <3>3. CASE Ended("source")
      <4>1. FramesBack < NFrames
        BY <3>2, <3>3 DEF InputLeft
      <4>2. ~Ended("mfcIn")' => FramesBack + 1 # NFrames
        BY <3>1, <3>3 DEF InputReturned, LastBack, Ended, FramesBack
      <4>3. QED
        BY <1>1, <3>2, <4>1, <4>2 DEF InputLeft
    <3>4. CASE ~Ended("source")
      BY <3>1, <3>4 DEF InputReturned, InputLeft, Ended
    <3>5. QED
      BY <3>3, <3>4
  <2>2. CASE pair = 2
    BY <1>2, <1>4, <2>2, OutputGivenBack DEF OutputReturned
  <2>3. QED
    BY <1>1, <2>1, <2>2
<1>5. CASE Poll
  <2>1. port' = [p \in Ports |->
           IF p \in Polled /\ Readable(p) THEN [port[p] EXCEPT !.state = "ready"] ELSE port[p]]
    BY <1>5 DEF Poll
  <2>2. \A p \in {"source", "mfcIn"} :
          port'[p].counter = port[p].counter /\ (port'[p].state = "end" <=> port[p].state = "end")
    <3> TAKE p \in {"source", "mfcIn"}
    <3>1. port[p] \in PortRecord /\ p \in Ports
      BY Lengths
    <3>2. QED
      BY <2>1, <3>1 DEF Polled, PortRecord
  <2>3. QED
    BY <2>2 DEF InputLeft, Ended, FramesBack
<1>6. CASE DeqEvent
  BY <1>2, <1>6, Lengths DEF DeqEvent
<1>7. CASE CameraCapture \/ MfcEncode \/ MfcRelease \/ MfcEos
  BY <1>2, <1>7 DEF CameraCapture, MfcEncode, MfcRelease, MfcEos, swVars
<1>8. CASE NoNeedToWait \/ ChainEnds \/ PollFails \/ NothingToTake \/ TakeFails \/ NothingToGiveBack
            \/ GiveBackFails \/ NoEvent \/ DeqEventFails
  BY <1>2, <1>8 DEF NoNeedToWait, ChainEnds, PollFails, NothingToTake, TakeFails, NothingToGiveBack,
    GiveBackFails, NoEvent, DeqEventFails, Fails
<1>9. CASE Finished \/ UNCHANGED vars
  BY <1>2, <1>9 DEF Finished, vars
<1>10. QED
  BY <1>3, <1>4, <1>5, <1>6, <1>7, <1>8, <1>9 DEF Next, Program

(* A pair that has all its buffers has one.                                *)
LEMMA BuffersAreThere ==
  ASSUME ChainInv
  PROVE  /\ ~Ended("source") /\ ~Ended("mfcIn") => \E x \in InPlaces : at[x] # <<>>
         /\ ~Ended("mfcOut") /\ ~Ended("file") => \E x \in OutPlaces : at[x] # <<>>
<1>1. <<1, 1>> \in InBufs /\ <<2, 1>> \in OutBufs
  BY ChainAssumption DEF InBufs, OutBufs
<1>2. \A b, s : b \in Items(s) => s # <<>>
  BY DEF Items
<1>3. QED
  BY <1>1, <1>2 DEF ChainInv, PairsApart, AllIn, AllOut

(* While poll waits something is there, or a device has work: if the MFC   *)
(* has input it has a buffer to encode it into, for the file holds none;   *)
(* if it has none it has to give back pictures or to report the end.       *)
LEMMA PollReturns ==
  ASSUME ChainInv, InFlight, InputLeft, ~AnyReady, Polled # {}, faults = 0
  PROVE  EventPending \/ (\E p \in Polled : Readable(p)) \/ DevicesGoOn
<1> SUFFICES ASSUME ~EventPending, \A p \in Polled : ~Readable(p), ~DevicesGoOn PROVE FALSE
  OBVIOUS
<1>1. /\ \A p \in Ports : port[p].state \in {"off", "busy", "end"}
      /\ \A p \in Ports : HasFd(p) /\ port[p].state = "busy" => p # "file" /\ ready[p] = <<>>
      /\ "source" \in Ports /\ "mfcIn" \in Ports /\ "mfcOut" \in Ports /\ "file" \in Ports
  BY Lengths DEF AnyReady, PortRecord, States, Polled, Readable
<1>2. port["file"].state = "off" /\ queued["file"] = <<>>
  <2>1. port["file"].state # "end"
    BY DEF ChainInv, Limits, Ended
  <2>2. port["file"].state = "off"
    BY <1>1, <2>1 DEF HasFd
  <2>3. QED
    BY <1>1, <2>2 DEF ChainInv, PortStates, IsFunc, Ended
<1>3. held = <<>> /\ (source = "camera" => queued["source"] = <<>>)
  BY DEF DevicesGoOn
<1>4. ~Ended("source") => queued["source"] = <<>> /\ ready["source"] = <<>>
  <2>1. source \in {"demo", "camera"}
    BY ChainAssumption DEF ChainInv, TypeOK
  <2>2. CASE source = "demo"
    BY <1>1, <2>2 DEF ChainInv, PortStates, IsFunc, Ended
  <2>3. CASE source = "camera"
    BY <1>1, <1>3, <2>3 DEF ChainInv, PortStates, HasFd, Ended
  <2>4. QED
    BY <2>1, <2>2, <2>3
<1>5. port["mfcIn"].state # "off"
  <2> SUFFICES ASSUME port["mfcIn"].state = "off" PROVE FALSE
    OBVIOUS
  <2>1. ~Ended("mfcIn") /\ FramesTaken = 0
    BY DEF ChainInv, Streams, Ended, FramesTaken
  <2>2. ~Ended("source")
    BY <2>1, ChainAssumption DEF ChainInv, Limits, FramesTaken
  <2> DEFINE n == port["mfcIn"].nbufs
  <2>3. n = 0
    <3>1. FramesBack + n = 0 /\ FramesBack \in Nat /\ n \in Nat
      BY <2>1, Lengths DEF ChainInv, Limits, FramesBack, FramesTaken, PortRecord
    <3> HIDE DEF n
    <3>2. QED
      BY <3>1
  <2>4. ToEncode + Len(ready["mfcIn"]) + Len(held) = 0
    BY <2>1, <2>3 DEF ChainInv, Counts, ToEncode
  <2>5. queued["mfcIn"] = <<>> /\ ready["mfcIn"] = <<>>
    <3> DEFINE a == queued["mfcIn"]
               b == ready["mfcIn"]
               c == held
    <3>1. a \in Seq(Bufs) /\ b \in Seq(Bufs) /\ c \in Seq(InBufs) /\ Len(a) + Len(b) + Len(c) = 0
      BY <2>4, Lengths DEF ChainInv, TypeOK, ToEncode
    <3> HIDE DEF a, b, c
    <3>2. Len(a) = 0 /\ Len(b) = 0
      BY <3>1
    <3>3. a = <<>> /\ b = <<>>
      BY <3>1, <3>2
    <3>4. QED
      BY <3>3 DEF a, b
  <2>6. QED
    BY <1>3, <1>4, <2>1, <2>2, <2>5, BuffersAreThere, AtPlaces DEF InPlaces
<1>6. port["mfcOut"].state # "off" /\ MfcStreams
  BY <1>5 DEF ChainInv, Streams, MfcStreams
<1>7. queued["mfcIn"] = <<>>
  <2> SUFFICES ASSUME queued["mfcIn"] # <<>> PROVE FALSE
    OBVIOUS
  <2>1. ~Ended("mfcOut") /\ ready["mfcOut"] = <<>>
    BY <1>1, <1>6 DEF InFlight, ChainInv, Streams, Ended, HasFd
  <2>2. queued["mfcOut"] = <<>>
    BY <1>6 DEF DevicesGoOn
  <2>3. QED
    BY <1>2, <2>1, <2>2, BuffersAreThere, AtPlaces DEF OutPlaces, Ended
<1>8. ~Ended("mfcIn")
  <2> SUFFICES ASSUME Ended("mfcIn") PROVE FALSE
    OBVIOUS
  <2>1. Ended("source") /\ stopped
    BY DEF ChainInv, Limits, Streams
  <2>2. eos \in {"pending", "taken"}
    BY <1>6, <1>7, <2>1 DEF DevicesGoOn, ChainInv, TypeOK
  <2>3. CASE eos = "taken"
    BY <1>2, <2>1, <2>3 DEF ChainInv, Streams, Ended, Polled, Ports
  <2>4. CASE eos = "pending"
    BY <1>1, <1>6, <2>4 DEF ChainInv, Streams, Ended, Polled, EventPending, HasFd
  <2>5. QED
    BY <2>2, <2>3, <2>4
<1>9. ready["mfcIn"] = <<>>
  BY <1>1, <1>5, <1>8 DEF Ended, HasFd
<1>10. Ended("source")
  BY <1>3, <1>4, <1>7, <1>8, <1>9, BuffersAreThere, AtPlaces DEF InPlaces
<1>11. FramesBack < NFrames /\ FramesBack + port["mfcIn"].nbufs = NFrames
  BY <1>8, <1>10 DEF InputLeft, ChainInv, Limits, FramesBack
<1>12. port["mfcIn"].nbufs = 0
  <2>1. port["mfcIn"].nbufs = Len(<<>>) + Len(<<>>) + Len(<<>>)
    BY <1>3, <1>7, <1>8, <1>9 DEF ChainInv, Counts
  <2>2. QED
    BY <2>1
<1>13. FramesBack \in Nat /\ NFrames \in Nat
  BY Lengths, ChainAssumption DEF FramesBack, PortRecord
<1>14. FramesBack + 0 = NFrames
  BY <1>11, <1>12
<1>15. QED
  BY <1>11, <1>13, <1>14

(* The one thread never blocks for ever: VIDIOC_DQBUF is called when the   *)
(* driver has a buffer, func_deq_buf when the ring is not empty, and poll, *)
(* as long as no call has failed, when there is something to come.         *)
THEOREM DequeuesWhatIsThere == Spec => []NeverBlocks
<1>1. ChainInv /\ InFlight /\ InputLeft => NeverBlocks
  BY ReadyPort, PollReturns DEF NeverBlocks
<1>2. Init => InputLeft
  <2>1. Init => "source" \in Ports /\ port["source"].state # "end"
    BY DEF Init, NewPort, Ports
  <2>2. QED
    BY <2>1 DEF InputLeft, Ended
<1>3. QED
  BY <1>1, <1>2, InputLeftKept, ChainInvariant, FramesCounted, PTL DEF Spec
=============================================================================
