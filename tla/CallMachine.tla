----------------------------- MODULE CallMachine -----------------------------
(***************************************************************************)
(* What the calls of V4l2Calls do: the programs of one thread that set up  *)
(* video devices and pass buffers between them.  Each call takes effect,   *)
(* or fails, in one step; between the calls the devices work.              *)
(***************************************************************************)
EXTENDS V4l2Calls, FiniteSets

CONSTANTS
  Setups,   \* the programs, each with its options
  Code,     \* Code[s]: the calls of s
  Formats   \* the formats a queue may be given instead of the one asked for

ASSUME MachineAssumption ==
  /\ DOMAIN Code = Setups
  /\ "YUYV" \in Formats

Cameras    == {"vivi", "camera"}
Converters == {"fimc0", "fimc1", "m2m", "jpeg"}
Displays   == {"tv"}
Compressed == {"JPEG", "H264", "stream"}

(* What the screen takes the frame buffer's memory for                     *)
FbFormat == "RGB32"

VARIABLES
  setup,     \* the program that runs
  code,      \* its calls
  at,        \* the call it is about to make
  verdict,   \* what it will report: "success", "failure", or "crash"
  faulty,    \* a call has failed
  pix,       \* the format read last
  last,      \* the buffer dequeued last, LastBuffer if none
  known,     \* the values that have been set
  results,   \* the pictures that can be seen: in files and on a screen
  opened,    \* the open devices
  queues,    \* the buffer queues of the devices
  control,   \* the controls of the devices
  job,       \* the buffer a device is writing, and what it will hold
  contents,  \* what the memory holds
  screen     \* the buffer on the screen, LastBuffer if none

program     == <<setup, code, at, verdict, faulty, pix, last, known>>
devices     == <<opened, queues, control, job, contents, screen>>
machineVars == <<program, results, devices>>

DevicesOf(calls) == {calls[k].device : k \in DOMAIN calls} \ {""}
QueuesOf(calls)  == {calls[k].queue : k \in DOMAIN calls} \ {<<"", "">>}
MemoryOf(calls)  == {calls[k].memory : k \in DOMAIN calls} \ {<<"", "", 0>>, LastBuffer}

Devices == DOMAIN control
Queues  == DOMAIN queues
Memories == DOMAIN contents

Upright == [ROTATE |-> 0, HFLIP |-> 0, VFLIP |-> 0]
Picture(frame, format, turned) == [frame |-> frame, format |-> format, turned |-> turned]
Blank   == Picture(0, "", Upright)
Idle    == [memory |-> LastBuffer, picture |-> Blank]

MachineTypeOK ==
  /\ setup \in Setups /\ at \in 1 .. Len(code) + 1
  /\ verdict \in {"success", "failure", "crash"} /\ faulty \in BOOLEAN
  /\ last \in Memories \cup {LastBuffer} /\ screen \in Memories \cup {LastBuffer}
  /\ opened \subseteq Devices
  /\ \A q \in Queues :
       /\ queues[q].count \in Nat /\ queues[q].on \in BOOLEAN /\ queues[q].changed \in BOOLEAN
       /\ Len(queues[q].todo \o queues[q].done) <= queues[q].count
       /\ ToSet(queues[q].todo \o queues[q].done) \subseteq Memories
  /\ \A d \in Devices : job[d].memory \in Memories \cup {LastBuffer}

MachineInit ==
  /\ setup \in Setups /\ code = Code[setup]
  /\ at = 1 /\ verdict = "success" /\ faulty = FALSE
  /\ pix = "" /\ last = LastBuffer /\ known = {} /\ results = <<>>
  /\ opened = {} /\ screen = LastBuffer
  /\ queues = [q \in QueuesOf(code) |->
       [format |-> "YUYV", changed |-> FALSE, count |-> 0, on |-> FALSE,
        todo |-> <<>>, done |-> <<>>]]
  /\ control = [d \in DevicesOf(code) |-> Upright]
  /\ job = [d \in DevicesOf(code) |-> Idle]
  /\ contents = [m \in MemoryOf(code) |-> Blank]

-----------------------------------------------------------------------------
(* The program                                                             *)

End   == Len(code) + 1
Ended == at = End
Call  == code[at]
Is(op) == ~Ended /\ Call.op = op
Queue  == queues[Call.queue]
Memory == IF Call.memory = LastBuffer THEN last ELSE Call.memory
Asked  == IF Call.format = TheFormatRead THEN pix ELSE Call.format

CleanupAt ==
  LET marks == {k \in DOMAIN code : code[k].op = "Cleanup"}
  IN  IF marks = {} THEN End ELSE CHOOSE k \in marks : TRUE

GoOn == at' = at + 1 /\ UNCHANGED verdict

Outcome(how) ==
  CASE how = "exit"    -> at' = End /\ verdict' = "failure"
    [] how = "crash"   -> at' = End /\ verdict' = "crash"
    [] how = "end"     -> at' = End /\ UNCHANGED verdict
    [] how \in {"ignore", "close"} -> GoOn
    [] how = "skip"    -> at' = at + 2 /\ UNCHANGED verdict
    [] how = "cleanup" -> at' = CleanupAt /\ verdict' = "failure"
    [] how = "done"    -> at' = CleanupAt /\ UNCHANGED verdict

Left(how) == opened' = IF how = "close" THEN opened \ {Call.device} ELSE opened

(* The buffers that are with a device                                      *)
Held ==
  UNION {ToSet(queues[q].todo \o queues[q].done) : q \in Queues}
    \cup {job[d].memory : d \in Devices} \cup {screen}

(* What the kernel accepts                                                 *)
Accepted ==
  /\ Call.op \notin {"Open", "Close"} /\ Call.device # "" => Call.device \in opened
  /\ Call.needs \subseteq known
  /\ CASE Call.op = "S_FMT"    -> Queue.count = 0
       [] Call.op = "REQBUFS"  -> ~Queue.on
       [] Call.op = "QBUF"     -> /\ Memory \notin ToSet(Queue.todo \o Queue.done)
                                  /\ Len(Queue.todo \o Queue.done) < Queue.count
       [] Call.op = "STREAMON" -> Queue.on \/ Queue.todo # <<>>
       [] Call.op = "DQBUF"    -> Queue.on /\ (Call.value = 1 => Queue.done # <<>>)
       [] OTHER -> TRUE

(* One step of the program, in which a call succeeds                       *)
Do(op) ==
  /\ Is(op) /\ Accepted
  /\ known' = known \cup Call.sets
  /\ UNCHANGED <<setup, code, faulty>>

DoOpen ==
  /\ Do("Open") /\ GoOn
  /\ opened' = opened \cup {Call.device}
  /\ UNCHANGED <<pix, last, results, queues, control, job, contents, screen>>

DoClose ==
  /\ Do("Close") /\ GoOn
  /\ opened' = opened \ {Call.device}
  /\ UNCHANGED <<pix, last, results, queues, control, job, contents, screen>>

DoNothing ==
  /\ \E op \in {"Ask", "Cleanup", "Threads"} : Do(op)
  /\ GoOn
  /\ UNCHANGED <<pix, last, results, devices>>

(* A device may choose another format for pictures, on either side; a      *)
(* compressed one is taken or refused.                                     *)
Adjusted == IF Asked \in Compressed THEN {Asked} ELSE Formats \cup {Asked}

DoS_FMT ==
  /\ Do("S_FMT")
  /\ \E f \in Adjusted :
       /\ IF Call.value = 1 /\ f # Asked THEN \E how \in Call.fails : Outcome(how) ELSE GoOn
       /\ pix' = f
       /\ queues' = [queues EXCEPT ![Call.queue].format = f, ![Call.queue].changed = (f # Asked)]
  /\ UNCHANGED <<last, results, opened, control, job, contents, screen>>

DoG_FMT ==
  /\ Do("G_FMT") /\ GoOn
  /\ pix' = Queue.format
  /\ UNCHANGED <<last, results, devices>>

DoREQBUFS ==
  /\ Do("REQBUFS") /\ GoOn
  /\ queues' = [queues EXCEPT ![Call.queue].count = Call.value]
  /\ UNCHANGED <<pix, last, results, opened, control, job, contents, screen>>

DoQBUF ==
  /\ Do("QBUF") /\ GoOn
  /\ queues' = [queues EXCEPT ![Call.queue].todo = Append(@, Memory)]
  /\ UNCHANGED <<pix, last, results, opened, control, job, contents, screen>>

(* DQBUF waits for a buffer.                                               *)
DoDQBUF ==
  /\ Do("DQBUF") /\ GoOn
  /\ Queue.done # <<>>
  /\ last' = Head(Queue.done)
  /\ queues' = [queues EXCEPT ![Call.queue].done = Tail(@)]
  /\ UNCHANGED <<pix, results, opened, control, job, contents, screen>>

DoSelect ==
  /\ Do("Select") /\ GoOn
  /\ Queue.done # <<>>
  /\ UNCHANGED <<pix, last, results, devices>>

DoSTREAMON ==
  /\ Do("STREAMON") /\ GoOn
  /\ queues' = [queues EXCEPT ![Call.queue].on = TRUE]
  /\ UNCHANGED <<pix, last, results, opened, control, job, contents, screen>>

(* The device stops and gives its buffers back.                            *)
DoSTREAMOFF ==
  /\ Do("STREAMOFF") /\ GoOn
  /\ queues' = [queues EXCEPT ![Call.queue].on = FALSE, ![Call.queue].todo = <<>>,
                              ![Call.queue].done = <<>>]
  /\ job' = [job EXCEPT ![Call.device] = Idle]
  /\ UNCHANGED <<pix, last, results, opened, control, contents, screen>>

DoS_CTRL ==
  /\ Do("S_CTRL") /\ GoOn
  /\ control' = [control EXCEPT ![Call.device][Call.name] = Call.value]
  /\ UNCHANGED <<pix, last, results, opened, queues, job, contents, screen>>

(* Memory is written from an input file, which was mapped without a look   *)
(* at the result if its descriptor is among the devices, or drawn.         *)
NotMapped == "input" \in Devices /\ "input" \notin opened

DoFill ==
  /\ Do("Fill")
  /\ IF NotMapped THEN Outcome("crash") ELSE GoOn
  /\ contents' = [contents EXCEPT ![Memory] = Picture(Call.value, Asked, Upright)]
  /\ UNCHANGED <<pix, last, results, opened, queues, control, job, screen>>

Seen(number, picture, format) == [number |-> number, picture |-> picture, as |-> format]

(* dump_yuyv takes w * h steps of two pixels each, and so reads twice the  *)
(* memory of the picture: what lies behind it may not be mapped.           *)
DoDump ==
  /\ Do("Dump")
  /\ \/ GoOn /\ results' = Append(results, Seen(Call.value, contents[Memory], pix))
     \/ pix = "YUYV" /\ Outcome("crash") /\ UNCHANGED results
  /\ UNCHANGED <<pix, last, devices>>

(* As many bytes as the dequeued buffer holds are written: none without it.*)
(* The format that was set has been printed.                               *)
DoWrite ==
  /\ Do("Write") /\ GoOn
  /\ LET p == IF last = Memory THEN contents[Memory] ELSE Blank
     IN  results' = Append(results, Seen(Call.value, p, pix))
  /\ UNCHANGED <<pix, last, devices>>

(* The kernel refuses a call.                                              *)
Refused ==
  /\ ~Ended /\ ~Accepted
  /\ \E how \in Call.fails : Outcome(how) /\ Left(how)
  /\ UNCHANGED <<setup, code, faulty, pix, last, known, results, queues, control, job, contents, screen>>

(* A call fails for a reason of its own.                                   *)
Fails ==
  /\ ~Ended
  /\ \E how \in Call.fails : Outcome(how) /\ Left(how)
  /\ faulty' = TRUE
  /\ UNCHANGED <<setup, code, pix, last, known, results, queues, control, job, contents, screen>>

(* What cannot succeed                                                     *)
DoStop == Is("Stop") /\ Fails

Step ==
  \/ DoOpen \/ DoClose \/ DoNothing \/ DoS_FMT \/ DoG_FMT \/ DoREQBUFS \/ DoQBUF
  \/ DoDQBUF \/ DoSelect \/ DoSTREAMON \/ DoSTREAMOFF \/ DoS_CTRL \/ DoFill
  \/ DoDump \/ DoWrite \/ DoStop \/ Refused

-----------------------------------------------------------------------------
(* The devices                                                             *)

Working(q) == queues[q].on /\ queues[q].todo # <<>>

Shoot(d) ==
  /\ Working(CAP(d))
  /\ LET q == CAP(d) m == Head(queues[q].todo)
     IN  /\ contents' = [contents EXCEPT ![m] = Picture(1, queues[q].format, Upright)]
         /\ queues' = [queues EXCEPT ![q].todo = Tail(@), ![q].done = Append(@, m)]
  /\ UNCHANGED <<program, results, opened, control, job, screen>>

(* A converter turns a picture as its controls say; none is turned twice.  *)
TurnedBy(d, picture) == IF control[d] = Upright THEN picture.turned ELSE control[d]

(* A converter reads its source with the controls of that moment, gives it *)
(* back, and later gives the result back.  A source in another format than *)
(* the queue's yields no picture.                                          *)
Convert(d) ==
  /\ Working(OUT(d)) /\ Working(CAP(d)) /\ job[d] = Idle
  /\ LET src == Head(queues[OUT(d)].todo)
         dst == Head(queues[CAP(d)].todo)
         picture == IF contents[src].format = queues[OUT(d)].format
                    THEN Picture(contents[src].frame, queues[CAP(d)].format, TurnedBy(d, contents[src]))
                    ELSE Blank
     IN  /\ job' = [job EXCEPT ![d] = [memory |-> dst, picture |-> picture]]
         /\ queues' = [queues EXCEPT ![OUT(d)].todo = Tail(@), ![OUT(d)].done = Append(@, src)]
  /\ UNCHANGED <<program, results, opened, control, contents, screen>>

(* The frame buffer's memory is seen as it is written, in its own format.  *)
Converted(d) ==
  /\ job[d] # Idle
  /\ LET m == job[d].memory picture == job[d].picture
     IN  /\ contents' = [contents EXCEPT ![m] = picture]
         /\ results' = IF m[1] = "fb" THEN Append(results, Seen(Len(results) + 1, picture, FbFormat))
                       ELSE results
         /\ queues' = [queues EXCEPT ![CAP(d)].todo = Tail(@), ![CAP(d)].done = Append(@, m)]
  /\ job' = [job EXCEPT ![d] = Idle]
  /\ UNCHANGED <<program, opened, control, screen>>

(* The display shows the next buffer, in the format of its queue, and gives*)
(* the one before back.                                                    *)
Show(d) ==
  /\ Working(OUT(d))
  /\ LET m == Head(queues[OUT(d)].todo)
     IN  /\ screen' = m
         /\ results' = Append(results, Seen(Len(results) + 1, contents[m], queues[OUT(d)].format))
  /\ queues' = [queues EXCEPT ![OUT(d)].todo = Tail(@),
                              ![OUT(d)].done = IF screen = LastBuffer THEN @ ELSE Append(@, screen)]
  /\ UNCHANGED <<program, opened, control, job, contents>>

Device ==
  \/ \E d \in Cameras \cap Devices : Shoot(d)
  \/ \E d \in Converters \cap Devices : Convert(d) \/ Converted(d)
  \/ \E d \in Displays \cap Devices : Show(d)

(* The devices stop with the program, and wait where another module goes on.*)
Machine == Step \/ Fails \/ (~Ended /\ Device)

MachineFairness == WF_machineVars(Step) /\ WF_machineVars(~Ended /\ Device)
=============================================================================
