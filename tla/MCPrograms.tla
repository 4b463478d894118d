------------------------------ MODULE MCPrograms ------------------------------
(***************************************************************************)
(* The programs that are sequences of calls, each with all its options, of *)
(* which one runs; dmabuf-sharing.c goes on with the loop of DmabufSharing.*)
(***************************************************************************)
EXTENDS DmabufSharing, CallMachine, DecoderSetup

CONSTANTS
  M2mRounds,   \* bound: rounds of process in fimc-m2m-f02.c
  HdmiFrames   \* bound: pictures of the endless loop

Dmabuf == INSTANCE DmabufTest
M2m    == INSTANCE FimcM2m
Jpeg   == INSTANCE JpegTest
Hdmi   == INSTANCE HdmiExample
Sharing == INSTANCE SharingSetup
Encoder == INSTANCE EncoderSetup

(* The options of the decoder in any order, up to three of them, perhaps   *)
(* after -m                                                                *)
DecoderOptions ==
  LET some == UNION {[1 .. n -> {"d", "f", "V", "X", "B", "D", "A", "E"}] : n \in 0 .. 3}
  IN  some \cup {<<"m">> \o o : o \in some}

(* Whatever devices there are, with the arguments that parse_args accepts  *)
DecoderSetups ==
  {s \in {parse_options(o, found) : o \in DecoderOptions, found \in SUBSET {"fimc", "mfc"}} :
     ArgumentsAreGood(s)}

MCSetups ==
  [program : {"dmabuf"}, formats : BOOLEAN, hflip : BOOLEAN, vflip : {FALSE}, rotate : {0, 1},
   dump : BOOLEAN, path : {TRUE}, size : {FALSE}]
  \cup [program : {"dmabuf"}, formats : {FALSE}, hflip : {FALSE}, vflip : {TRUE}, rotate : {1},
        dump : {TRUE}, path : {FALSE}, size : {TRUE}]
  \cup [program : {"m2m"}, rounds : {M2mRounds}]
  \cup [program : {"jpeg"}, mode : {"encode", "decode"}]
  \cup [program : {"hdmi"}, frames : {HdmiFrames}]
  \cup [program : {"sharing"}, plane : BOOLEAN]
  \cup [program : {"encoder"}, camera : BOOLEAN, controls : {0, 2}]
  \cup DecoderSetups

MCCode ==
  [s \in MCSetups |->
     CASE s.program = "dmabuf"  -> Dmabuf!dmabuf_main(s)
       [] s.program = "m2m"     -> M2m!m2m_main(s)
       [] s.program = "jpeg"    -> Jpeg!jpeg_main(s)
       [] s.program = "hdmi"    -> Hdmi!hdmi_main(s)
       [] s.program = "sharing" -> Sharing!sharing_main(s, NBuffers)
       [] s.program = "encoder" -> Encoder!encoder_main(s, NBuffers, CapBuffers)
       [] s.program = "decoder" -> decoder_main(s)]

Looping == setup.program = "sharing" /\ Is("Loop")
AtRest  == Ended \/ Is("Loop")

MCInit == MachineInit /\ Init /\ plane = (setup.program = "sharing" /\ setup.plane)

MCNext ==
  \/ Machine /\ UNCHANGED vars
  \/ Looping /\ Next /\ UNCHANGED machineVars
  \/ AtRest /\ UNCHANGED <<machineVars, vars>>

(* The display goes on, and so does the loop; a program makes its next call*)
(* unless DQBUF or select waits, and a device that has work does it.       *)
MCSpec ==
  /\ MCInit /\ [][MCNext]_<<machineVars, vars>>
  /\ MachineFairness
  /\ WF_vars(Looping /\ Main) /\ WF_vars(Looping /\ Vblank)

-----------------------------------------------------------------------------
(* The variables keep their types, and no queue gets more buffers than it  *)
(* was given.                                                              *)
ProgramsTypeOK == TypeOK /\ MachineTypeOK

(* Every call comes when the kernel accepts it and the values it uses have *)
(* been set, unless one before has failed.                                 *)
CallsAreLegal == ~Ended /\ ~faulty => Accepted

(* A program writes, reads and queues a buffer only while no device has it.*)
TouchedWhenFree ==
  ~Ended /\ (Call.op \in {"Fill", "Dump", "QBUF"} \/ (Is("Write") /\ last = Memory))
    => Memory \notin Held

-----------------------------------------------------------------------------
(* What is to be seen: the frame, and how it is turned                     *)

Turned(s) == [ROTATE |-> s.rotate, HFLIP |-> IF s.hflip THEN 1 ELSE 0, VFLIP |-> IF s.vflip THEN 1 ELSE 0]

IsWanted(s, r) ==
  /\ r.as = r.picture.format
  /\ r.picture.frame = IF s.program = "hdmi" THEN r.number ELSE 1
  /\ r.picture.turned =
       CASE s.program = "dmabuf" /\ r.number >= 2 -> Turned(s)
         [] s.program = "m2m" -> [Upright EXCEPT !.ROTATE = (r.number - 1) % 4]
         [] OTHER -> Upright

Wanted(s) ==
  CASE s.program = "dmabuf" -> IF s.dump THEN 5 ELSE 0
    [] s.program = "m2m"    -> s.rounds
    [] s.program = "jpeg"   -> 1
    [] OTHER -> 0

(* The queues whose format is read back and goes with the picture: to the *)
(* next queue and to the file.  Elsewhere the program assumes what it asked*)
(* for.                                                                    *)
Followed(s) ==
  CASE s.program = "dmabuf" -> {CAP("vivi"), CAP("fimc0"), CAP("fimc1")}
    [] s.program = "jpeg"   -> {CAP("jpeg")}
    [] OTHER -> {}

ChangedUnnoticed == \E q \in Queues \ Followed(setup) : queues[q].changed

(* Whatever formats the devices choose where the program follows them, and *)
(* unless they choose one elsewhere, each file and each picture on a screen*)
(* is the frame it should be, turned as asked for, and taken for the format*)
(* it is in.  Only the JPEG program leaves an empty file, after a failure; *)
(* without one no picture is missing at the end.  v4l2-dbuf.c dumps nothing*)
(* unless all its devices are open, though it tests only the first for it. *)
ResultsAreRight ==
  /\ ChangedUnnoticed \/
       \A k \in DOMAIN results :
         \/ IsWanted(setup, results[k])
         \/ setup.program = "jpeg" /\ faulty /\ results[k].picture = Blank
  /\ setup.program = "dmabuf" /\ results # <<>> => Devices \subseteq opened
  /\ Ended /\ verdict = "success" /\ ~faulty => Len(results) = Wanted(setup)

(* However the decoder ends, unless by freeing a part of the command line, *)
(* it has closed every device it had opened, and so has the encoder if it  *)
(* succeeds.  With allocated names only, the decoder never ends so.        *)
DevicesAreClosed ==
  /\ Ended /\ setup.program = "decoder" =>
       \/ opened = {}
       \/ verdict = "crash" /\ "argument" \in {setup.fimc_name, setup.mfc_name}
  /\ Ended /\ setup.program = "encoder" /\ verdict = "success" => opened = {}

(* No program waits for ever for a buffer, or for a select.                *)
Finishes == <>(Ended \/ Is("Loop"))
=============================================================================
