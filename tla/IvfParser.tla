------------------------------ MODULE IvfParser ------------------------------
(***************************************************************************)
(* parse_vp8_stream of v4l2-mfc-example and its two callers: an IVF file is*)
(* a file header and frames, each with a header that has its size.  The    *)
(* parser sees neither the size of the file (in_size) nor that of the      *)
(* output buffer.                                                          *)
(***************************************************************************)
EXTENDS Integers, Sequences, SequencesExt

CONSTANTS
  FrameSizes,  \* below 2^24
  MaxFrames,   \* bound: frames in a file
  Slack        \* bytes of the last page behind the end of the file; they are zero

FileHeader  == 32
FrameHeader == 12

VARIABLES
  file,      \* the sizes of its frames
  dkif,      \* it begins with the file header
  offs,      \* in.offs
  get_head,
  pc,        \* "call"; "killed" by a read beyond the mapping
  frames     \* the frames returned: where their data begin, and how much

vars == <<file, dkif, offs, get_head, pc, frames>>

Start(k) ==
  (IF dkif THEN FileHeader ELSE 0) + FoldLeft(+, 0, SubSeq(file, 1, k - 1)) + (k - 1) * FrameHeader

FileSize == Start(Len(file) + 1)

Init ==
  /\ file \in SeqOf(FrameSizes, MaxFrames) \ {<<>>} /\ dkif \in BOOLEAN
  /\ offs = 0 /\ get_head = TRUE /\ pc = "call" /\ frames = <<>>

(* The signature is looked for in every call.                              *)
FrameBegin == IF offs = 0 /\ dkif THEN FileHeader ELSE offs

(* What is there: the size of a frame, or zeros.                           *)
SizeBytes ==
  IF FrameBegin < FileSize
  THEN LET k == CHOOSE k \in DOMAIN file : Start(k) = FrameBegin IN file[k]
  ELSE 0

SizeRead_SignedChar == IF SizeBytes \in 128 .. 255 THEN SizeBytes - 256 ELSE SizeBytes

(* char is unsigned on the machines the program is written for.            *)
SizeRead == SizeBytes

Data == FrameBegin + FrameHeader

(* Three bytes are read for the size, and the data.                        *)
Mapped ==
  /\ FrameBegin + 3 <= FileSize + Slack
  /\ SizeRead > 0 => Data + SizeRead <= FileSize + Slack

(* The header is the first frame, which is to be returned again.           *)
HeaderConsumed_All == Data + SizeRead

HeaderConsumed == offs

Consumed == Data + SizeRead

(* extract_and_process_header                                              *)
ReturnHeader ==
  /\ pc = "call" /\ get_head /\ Mapped
  /\ frames' = Append(frames, [at |-> Data, size |-> SizeRead])
  /\ get_head' = FALSE /\ offs' = HeaderConsumed
  /\ UNCHANGED <<file, dkif, pc>>

(* parser_thread_func: the return value is 1 whatever was read.            *)
ReturnFrame ==
  /\ pc = "call" /\ ~get_head /\ Mapped
  /\ frames' = Append(frames, [at |-> Data, size |-> SizeRead])
  /\ offs' = Consumed
  /\ UNCHANGED <<file, dkif, get_head, pc>>

ReadsBeyond ==
  /\ pc = "call" /\ ~Mapped
  /\ pc' = "killed"
  /\ UNCHANGED <<file, dkif, offs, get_head, frames>>

Killed == pc = "killed" /\ UNCHANGED vars

Next == ReturnHeader \/ ReturnFrame \/ ReadsBeyond \/ Killed

Spec == Init /\ [][Next]_vars

-----------------------------------------------------------------------------
(* The calls return the first frame twice, for the header is taken from it,*)
(* and then every frame of the file once, in its order.                    *)
FrameOf(k) == [at |-> Start(k) + FrameHeader, size |-> file[k]]

Expected ==
  [k \in 1 .. Len(file) + 1 |-> FrameOf(IF k = 1 THEN 1 ELSE k - 1)]

FramesInOrder ==
  \A k \in DOMAIN frames : k \in DOMAIN Expected => frames[k] = Expected[k]
=============================================================================
