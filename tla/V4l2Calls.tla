------------------------------ MODULE V4l2Calls ------------------------------
(***************************************************************************)
(* The calls the sample programs are made of.  A program of this kind is a *)
(* sequence of them; what a call does is said by CallMachine, and the field*)
(* fails says what the program does when it fails:                         *)
(*   "exit"    main ends with a failure, at once                           *)
(*   "end"     main ends with success                                      *)
(*   "ignore"  the result is not looked at, or only printed                *)
(*   "skip"    the next call is left out                                   *)
(*   "close"   the device is closed, and the program goes on               *)
(*   "cleanup" on to the cleanup at the end of the code, and a failure     *)
(*   "done"    on to the cleanup, and success                              *)
(*   "crash"   what follows reads or writes what it must not               *)
(* It is a set: of several values the error the device reports chooses.    *)
(***************************************************************************)
EXTENDS Integers, Sequences, SequencesExt

OUT(d) == <<d, "output">>
CAP(d) == <<d, "capture">>
Buffer(q, i) == <<q[1], q[2], i>>

(* The buffer dequeued last                                                *)
LastBuffer == <<"", "dequeued", 0>>

(* The format read last, by S_FMT or G_FMT                                 *)
TheFormatRead == "read"

NoCall ==
  [op |-> "Ask", device |-> "", queue |-> <<"", "">>, memory |-> <<"", "", 0>>,
   format |-> "", name |-> "", value |-> 0, needs |-> {}, sets |-> {}, fails |-> {"exit"}]

OnDevice(op, d) == [NoCall EXCEPT !.op = op, !.device = d]
OnQueue(op, q)  == [OnDevice(op, q[1]) EXCEPT !.queue = q]
OnMemory(op, m) == [NoCall EXCEPT !.op = op, !.memory = m, !.fails = {}]

(* Arguments, and allocations: no device                                   *)
Parse    == NoCall
(* A step that always fails                                                *)
Stop     == [NoCall EXCEPT !.op = "Stop"]
Open(d)  == OnDevice("Open", d)
Close(d) == [OnDevice("Close", d) EXCEPT !.fails = {}]

(* A call that changes nothing the programs depend on: QUERYCAP, QUERYBUF, *)
(* mmap, EXPBUF, the crop and selection calls.                             *)
Ask(d) == OnDevice("Ask", d)

S_FMT(q, format) == [OnQueue("S_FMT", q) EXCEPT !.format = format]
(* S_FMT whose result has to be the format asked for                       *)
S_FMT_Exactly(q, format) == [S_FMT(q, format) EXCEPT !.value = 1]
G_FMT(q)      == OnQueue("G_FMT", q)
REQBUFS(q, n) == [OnQueue("REQBUFS", q) EXCEPT !.value = n]
QBUF(q, m)    == [OnQueue("QBUF", q) EXCEPT !.memory = m]
DQBUF(q)      == OnQueue("DQBUF", q)
(* DQBUF of a device that is open for calls that do not wait               *)
DQBUF_Now(q)  == [DQBUF(q) EXCEPT !.value = 1]
STREAMON(q)   == OnQueue("STREAMON", q)
STREAMOFF(q)  == OnQueue("STREAMOFF", q)
S_CTRL(d, name, value) == [OnDevice("S_CTRL", d) EXCEPT !.name = name, !.value = value]
Select(q)     == OnQueue("Select", q)

(* The program writes a picture into memory, reads it into a file with a   *)
(* given number in the format it believes it has, or as it is.             *)
Fill(m, format, frame) == [OnMemory("Fill", m) EXCEPT !.format = format, !.value = frame]
Dump(m, number) == [OnMemory("Dump", m) EXCEPT !.value = number, !.fails = {"ignore"}]
Write(m)        == [OnMemory("Write", m) EXCEPT !.value = 1, !.fails = {"ignore"}]

(* Where the calls of a program's cleanup begin, and where another module  *)
(* goes on: the threads or the chain of the program, or its endless loop.  *)
Cleanup == [OnDevice("Cleanup", "") EXCEPT !.fails = {}]
Threads == [OnDevice("Threads", "") EXCEPT !.fails = {}]
Loop    == [OnDevice("Loop", "") EXCEPT !.fails = {}]

When(condition, calls) == IF condition THEN calls ELSE <<>>
Otherwise(call, outcomes) == [call EXCEPT !.fails = outcomes]
Needing(call, names) == [call EXCEPT !.needs = names]
Setting(call, names) == [call EXCEPT !.sets = names]

(* The same calls in a function whose callers go to the cleanup            *)
ToCleanup(calls) ==
  [k \in DOMAIN calls |->
     IF calls[k].fails = {"exit"} THEN Otherwise(calls[k], {"cleanup"}) ELSE calls[k]]

(* The calls of F(first), ..., F(last), one after the other                *)
Each(first, last, F(_)) == FlattenSeq([i \in 1 .. last - first + 1 |-> F(first + i - 1)])
=============================================================================
