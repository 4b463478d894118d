----------------------------- MODULE StreamParser -----------------------------
(***************************************************************************)
(* parser.c of v4l2-mfc-example: parse_h264_stream, parse_mpeg4_stream and *)
(* parse_mpeg2_stream cut a stream of bytes into a header and frames, one  *)
(* of which is returned by a call.  Here a step scans one byte or returns  *)
(* from a call; the calls are those of extract_and_process_header and of   *)
(* parser_thread_func.                                                     *)
(*                                                                         *)
(* A stream is made of units: a start code and what follows it up to the   *)
(* next.  What the calls must return is stated with the units, which the   *)
(* parser does not see.                                                    *)
(***************************************************************************)
EXTENDS Integers, Sequences, SequencesExt

CONSTANTS
  Units,    \* for each codec the units of its streams: [kind, bytes]
  MaxUnits  \* bound: units in a stream

Kinds  == {"head", "main", "other"}
Codecs == DOMAIN Units

ASSUME UnitsAssumption ==
  /\ MaxUnits \in Nat
  /\ \A c \in Codecs : \A u \in Units[c] : u.kind \in Kinds /\ u.bytes \in Seq(0 .. 255)

VARIABLES
  codec,
  units,     \* the units of the stream
  stream,    \* its bytes, in.p
  offs,      \* in.offs
  consumed,
  get_head,
  ctx,       \* struct mfc_parser_context
  pc,        \* "scan", "return"; "done" or "failed" when the caller has left
  frames     \* the frames returned so far, the header first

vars == <<codec, units, stream, offs, consumed, get_head, ctx, pc, frames>>

Bytes(u) == FlattenSeq([i \in DOMAIN u |-> u[i].bytes])

States == {"no_code", "0x1", "0x2", "0x3", "1x1", "slice"}

Contexts ==
  [state : States, last_tag : {"head", "main"}, bytes : Seq(0 .. 255),
   main_count : Nat, headers_count : Nat,
   tmp_code_start : Int, code_start : Int, code_end : Int,
   got_start : BOOLEAN, got_end : BOOLEAN, seek_end : BOOLEAN, short_header : BOOLEAN]

(* The types, and the limit of ctx->bytes, which has six elements: what a  *)
(* call saves of the next frame, the start code and the bytes that tell a  *)
(* picture, fits, and the start code of a frame is in what was saved.      *)
TypeOK ==
  /\ codec \in Codecs
  /\ units \in Seq(Units[codec]) /\ stream = Bytes(units)
  /\ offs \in 0 .. Len(stream) /\ consumed \in 0 .. Len(stream) - offs
  /\ get_head \in BOOLEAN /\ ctx \in Contexts
  /\ pc \in {"scan", "return", "done", "failed"}
  /\ frames \in Seq(Seq(0 .. 255))
  /\ pc = "return" /\ ctx.got_end => consumed - ctx.code_end \in 0 .. 6
  /\ -ctx.code_start <= Len(ctx.bytes)

(* parse_stream_init                                                       *)
parse_stream_init ==
  [state |-> "no_code", last_tag |-> "head", bytes |-> <<>>,
   main_count |-> 0, headers_count |-> 0,
   tmp_code_start |-> 0, code_start |-> 0, code_end |-> 0,
   got_start |-> FALSE, got_end |-> FALSE, seek_end |-> FALSE, short_header |-> FALSE]

(* An MPEG4 stream starts with its header: without one the decoder cannot  *)
(* be set up.                                                              *)
IsStream(c, u) == c = "mpeg4" /\ u # <<>> => u[1].kind = "head"

Init ==
  /\ codec \in Codecs
  /\ units \in {u \in SeqOf(Units[codec], MaxUnits) : IsStream(codec, u)}
  /\ stream = Bytes(units)
  /\ offs = 0 /\ consumed = 0 /\ get_head = TRUE
  /\ ctx = parse_stream_init /\ pc = "scan" /\ frames = <<>>

-----------------------------------------------------------------------------
(* The automata: the context after byte b at position consumed.            *)

Goto(c, s) == [c EXCEPT !.state = s]

CodeMayStart(c) == [c EXCEPT !.state = "0x1", !.tmp_code_start = consumed]

Header(c) == [c EXCEPT !.state = "no_code", !.last_tag = "head", !.headers_count = @ + 1]

Picture(c) == [c EXCEPT !.state = "no_code", !.last_tag = "main", !.main_count = @ + 1]

OneMoreZero_Ignored(c) == c

(* More zeros than a start code has: it starts later.                      *)
OneMoreZero(c) == [c EXCEPT !.tmp_code_start = @ + 1]

H264Byte(c, b) ==
  CASE c.state = "no_code" -> IF b = 0 THEN CodeMayStart(c) ELSE c
    [] c.state = "0x1" -> Goto(c, IF b = 0 THEN "0x2" ELSE "no_code")
    [] c.state = "0x2" -> Goto(c, IF b = 1 THEN "1x1" ELSE IF b = 0 THEN "0x3" ELSE "no_code")
    [] c.state = "0x3" -> IF b = 0 THEN OneMoreZero(c)
                          ELSE Goto(c, IF b = 1 THEN "1x1" ELSE "no_code")
    [] c.state = "1x1" -> IF b % 32 \in {6, 7, 8} THEN Header(c)
                          ELSE Goto(c, IF b % 32 \in {1, 5} THEN "slice" ELSE "no_code")
    [] c.state = "slice" -> IF b >= 128 THEN Picture(c) ELSE Goto(c, "no_code")

(* A short header (H.263) is a picture, the first one of the stream also   *)
(* its header; in a stream without short headers it is not one.            *)
ShortHeader(c) ==
  IF get_head /\ ~c.short_header THEN [Header(c) EXCEPT !.short_header = TRUE]
  ELSE IF ~c.seek_end \/ c.short_header THEN [Picture(c) EXCEPT !.short_header = TRUE]
  ELSE Goto(c, "no_code")

IsMpeg4Header(b) ==
  (b \div 16) * 16 \in {0, 1, 32} \/ b \in {176, 178, 179, 181}

Mpeg4Byte(c, b) ==
  CASE c.state = "no_code" -> IF b = 0 THEN CodeMayStart(c) ELSE c
    [] c.state = "0x1" -> Goto(c, IF b = 0 THEN "0x2" ELSE "no_code")
    [] c.state = "0x2" -> IF (b \div 4) * 4 = 128 THEN ShortHeader(c)
                          ELSE IF b = 0 THEN OneMoreZero(c)
                          ELSE Goto(c, IF b = 1 THEN "1x1" ELSE "no_code")
    [] c.state = "1x1" -> IF IsMpeg4Header(b) THEN Header(c)
                          ELSE IF b = 182 THEN Picture(c) ELSE Goto(c, "no_code")

Mpeg2Byte(c, b) ==
  CASE c.state = "no_code" -> IF b = 0 THEN CodeMayStart(c) ELSE c
    [] c.state = "0x1" -> Goto(c, IF b = 0 THEN "0x2" ELSE "no_code")
    [] c.state = "0x2" -> IF b = 0 THEN OneMoreZero(c)
                          ELSE Goto(c, IF b = 1 THEN "1x1" ELSE "no_code")
    [] c.state = "1x1" -> IF b \in {179, 184} THEN Header(c)
                          ELSE IF b = 0 THEN Picture(c) ELSE Goto(c, "no_code")

(* setup_parser: h263 and mpeg4 have one function.                         *)
ParserByte(c, b) ==
  CASE codec = "h264" -> H264Byte(c, b)
    [] codec = "mpeg2" -> Mpeg2Byte(c, b)
    [] codec \in {"mpeg4", "h263"} -> Mpeg4Byte(c, b)

-----------------------------------------------------------------------------
(* What a tag makes of the frame                                           *)

HeaderEnds(c) == get_head /\ c.headers_count >= 1 /\ c.main_count = 1

Counts(c, heads, mains) == c.headers_count = heads /\ c.main_count = mains

SeekEnd(c) == [c EXCEPT !.seek_end = TRUE, !.headers_count = 0, !.main_count = 0]

(* The first tag starts a frame; the picture of a frame makes the parser   *)
(* look for the frame's end.                                               *)
FrameStarts(c) ==
  IF c.got_start \/ ~(Counts(c, 1, 0) \/ Counts(c, 0, 1)) THEN c
  ELSE LET s == [c EXCEPT !.got_start = TRUE, !.code_start = c.tmp_code_start]
       IN  IF Counts(c, 0, 1) THEN SeekEnd(s) ELSE s

PictureFound(c) ==
  IF ~c.seek_end /\ c.headers_count > 0 /\ c.main_count = 1 THEN SeekEnd(c) ELSE c

FrameEnds_AtPicture(c) == c.seek_end /\ c.main_count > 0

FrameEnds(c) == c.seek_end /\ (c.headers_count > 0 \/ c.main_count > 0)

EndAt_FrameStart(c) == [c EXCEPT !.got_end = TRUE, !.code_end = c.code_start]

EndAt(c) == [c EXCEPT !.got_end = TRUE, !.code_end = c.tmp_code_start]

More == offs + consumed < Len(stream)

(* The context after the next byte, before it is decided whether the frame *)
(* ends with it.                                                           *)
Scanned == ParserByte(ctx, stream[offs + consumed + 1])

InFrame == PictureFound(FrameStarts(Scanned))

NextByte ==
  /\ pc = "scan" /\ More
  /\ ~HeaderEnds(Scanned) /\ ~FrameEnds(InFrame)
  /\ ctx' = InFrame /\ consumed' = consumed + 1
  /\ UNCHANGED <<codec, units, stream, offs, get_head, pc, frames>>

HeaderEnd ==
  /\ pc = "scan" /\ More
  /\ HeaderEnds(Scanned)
  /\ ctx' = EndAt(Scanned) /\ pc' = "return"
  /\ UNCHANGED <<codec, units, stream, offs, consumed, get_head, frames>>

FrameEnd ==
  /\ pc = "scan" /\ More
  /\ ~HeaderEnds(Scanned) /\ FrameEnds(InFrame)
  /\ ctx' = [EndAt(InFrame) EXCEPT !.seek_end = (InFrame.headers_count = 0)]
  /\ pc' = "return"
  /\ UNCHANGED <<codec, units, stream, offs, consumed, get_head, frames>>

InputEnd ==
  /\ pc = "scan" /\ ~More
  /\ pc' = "return"
  /\ UNCHANGED <<codec, units, stream, offs, consumed, get_head, ctx, frames>>

Scan == NextByte \/ HeaderEnd \/ FrameEnd \/ InputEnd

(* The three functions differ in their automata and in NextFrame.          *)
parse_h264_stream  == codec = "h264" /\ Scan
parse_mpeg2_stream == codec = "mpeg2" /\ Scan
parse_mpeg4_stream == codec \in {"mpeg4", "h263"} /\ Scan

-----------------------------------------------------------------------------
(* The return from a call                                                  *)

In(from, to) == SubSeq(stream, offs + from + 1, offs + to)

Saved == IF ctx.code_start < 0 THEN SubSeq(ctx.bytes, 1, -ctx.code_start) ELSE <<>>

FromThisCall ==
  IF ctx.got_start
  THEN In(IF ctx.code_start >= 0 THEN ctx.code_start ELSE 0,
          IF ctx.got_end THEN ctx.code_end ELSE consumed)
  ELSE <<>>

Extracted_NotSaved == FromThisCall

(* The beginning of the frame was consumed with the last one.  The frame   *)
(* fits in the buffer (mfc.out_buf_size).                                  *)
Extracted == Saved \o FromThisCall

FrameFinished == ctx.got_start /\ ctx.got_end

(* The tag that ended the frame belongs to the next one.                   *)
NextFrame(c) ==
  LET s == [c EXCEPT !.code_start = c.code_end - consumed, !.got_end = FALSE,
                     !.bytes = In(c.code_end, consumed), !.main_count = 0]
  IN  IF c.last_tag = "main" THEN [s EXCEPT !.seek_end = TRUE, !.headers_count = 0]
      ELSE [s EXCEPT !.seek_end = FALSE, !.headers_count = 1,
                     !.short_header = @ /\ codec \notin {"mpeg4", "h263"}]

AfterCall ==
  LET c == IF FrameFinished THEN NextFrame(ctx)
           ELSE IF ctx.got_start THEN [ctx EXCEPT !.code_start = 0] ELSE ctx
  IN  [c EXCEPT !.tmp_code_start = @ - consumed]

NextOffs_EndCounted == offs + consumed + 1

(* The byte that ended the frame is parsed again.                          *)
NextOffs == offs + consumed

(* extract_and_process_header: the header of H.263 is in the first frame,  *)
(* which is parsed again.                                                  *)
ReturnHeader ==
  /\ pc = "return" /\ get_head /\ FrameFinished
  /\ frames' = Append(frames, Extracted)
  /\ IF codec = "h263" THEN ctx' = parse_stream_init /\ UNCHANGED offs
     ELSE ctx' = AfterCall /\ offs' = NextOffs
  /\ get_head' = FALSE /\ consumed' = 0 /\ pc' = "scan"
  /\ UNCHANGED <<codec, units, stream>>

NoHeader ==
  /\ pc = "return" /\ get_head /\ ~FrameFinished
  /\ pc' = "failed"
  /\ UNCHANGED <<codec, units, stream, offs, consumed, get_head, ctx, frames>>

AllExtracted_Early == ~FrameFinished

(* parser_thread_func: all frames have been extracted.                     *)
AllExtracted == ~FrameFinished /\ offs = Len(stream)

ReturnFrame ==
  /\ pc = "return" /\ ~get_head /\ ~AllExtracted
  /\ frames' = Append(frames, Extracted)
  /\ ctx' = AfterCall /\ offs' = NextOffs
  /\ consumed' = 0 /\ pc' = "scan"
  /\ UNCHANGED <<codec, units, stream, get_head>>

Finish ==
  /\ pc = "return" /\ ~get_head /\ AllExtracted
  /\ pc' = "done"
  /\ UNCHANGED <<codec, units, stream, offs, consumed, get_head, ctx, frames>>

Left == pc \in {"done", "failed"} /\ UNCHANGED vars

Next ==
  \/ parse_h264_stream \/ parse_mpeg2_stream \/ parse_mpeg4_stream
  \/ ReturnHeader \/ NoHeader \/ ReturnFrame \/ Finish \/ Left

Spec == Init /\ [][Next]_vars

-----------------------------------------------------------------------------
(* What the frames of a stream are                                         *)

Tags == {i \in DOMAIN units : units[i].kind # "other"}

FollowsPicture(i) ==
  \E j \in Tags : j < i /\ units[j].kind = "main" /\ \A k \in Tags : k <= j \/ k >= i

FirstTag(i)     == i \in Tags /\ \A k \in Tags : k >= i
FirstPicture(i) == units[i].kind = "main" /\ \A k \in 1 .. i - 1 : units[k].kind # "main"

(* A frame starts with the first tag, with each tag after a picture, and,  *)
(* as the header is a frame of its own, with the first picture.            *)
FrameStart(i) == i \in Tags /\ (FirstTag(i) \/ FollowsPicture(i) \/ FirstPicture(i))

Starts == SetToSortSeq({i \in DOMAIN units : FrameStart(i)}, <)

FramesOfUnits ==
  [k \in DOMAIN Starts |->
     Bytes(SubSeq(units, Starts[k], IF k < Len(Starts) THEN Starts[k + 1] - 1 ELSE Len(units)))]

(* H.263 has no header but the first picture, which is returned twice.     *)
Expected ==
  IF codec = "h263" /\ FramesOfUnits # <<>> THEN <<Head(FramesOfUnits)>> \o FramesOfUnits
  ELSE FramesOfUnits

(* parser.h:75-80: the calls return the header, then each picture with the *)
(* headers before it, byte for byte and in order; nothing is lost between  *)
(* two calls although the next start code is consumed with a frame.        *)
FramesAreUnits == IsPrefix(frames, Expected)

(* When the caller sees the end of the stream all frames were returned, and*)
(* it finds no header only in a stream with less than two frames.          *)
NoneMissing ==
  /\ pc = "done" => frames = Expected
  /\ pc = "failed" => Len(FramesOfUnits) < 2
=============================================================================
