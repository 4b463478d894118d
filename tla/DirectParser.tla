----------------------------- MODULE DirectParser -----------------------------
(***************************************************************************)
(* parser.cpp and input_file.cpp of v4l2-mfc-drm-direct, as MFCDecoder     *)
(* calls them.  The automata and the marking of frames are those of        *)
(* parser.c, statement by statement, so that the operators of StreamParser *)
(* are used; what the classes add is the life of a parser: it is           *)
(* constructed, linked to a file, asked for a header, reset for H.263, and *)
(* asked for frames until the program stops.                               *)
(***************************************************************************)
EXTENDS StreamParser

CONSTANTS
  Leftovers, \* what the memory of a new parser may hold, as contexts
  MaxFrames  \* bound: frames asked for

(* The constructor clears the flags and nothing else.                      *)
ASSUME LeftoversAssumption ==
  /\ MaxFrames \in Nat
  /\ \A c \in Leftovers :
       /\ c \in Contexts
       /\ ~c.got_start /\ ~c.got_end /\ ~c.seek_end /\ ~c.short_header

VARIABLE linked

directVars == <<vars, linked>>

DirectInit ==
  /\ codec \in Codecs
  /\ units \in {u \in SeqOf(Units[codec], MaxUnits) : IsStream(codec, u)}
  /\ stream = Bytes(units)
  /\ offs = 0 /\ consumed = 0 /\ get_head = TRUE /\ frames = <<>>
  /\ ctx \in Leftovers /\ pc = "return" /\ linked = FALSE

(* The members that reset() assigns; flags is not one of them.             *)
Cleared(c) ==
  [parse_stream_init EXCEPT !.got_start = c.got_start, !.got_end = c.got_end,
                            !.seek_end = c.seek_end, !.short_header = c.short_header]

Reset(c) == IF linked THEN Cleared(c) ELSE c

Rewound == IF linked THEN 0 ELSE offs

(* The flag that allows the reset is set after it.                         *)
Link ==
  /\ ~linked
  /\ ctx' = Reset(ctx) /\ offs' = Rewound
  /\ linked' = TRUE /\ pc' = "scan"
  /\ UNCHANGED <<codec, units, stream, consumed, get_head, frames>>

(* parse(): the loop of its class, with InputFile::read and advance.       *)
H264Parser_parse  == linked /\ parse_h264_stream /\ UNCHANGED linked
MPEG2Parser_parse == linked /\ parse_mpeg2_stream /\ UNCHANGED linked
MPEG4Parser_parse == linked /\ parse_mpeg4_stream /\ UNCHANGED linked

ParseSucceeds_AtPictures == codec = "h264" => FrameFinished /\ ctx.last_tag = "main"

(* H264Parser::parse returns frame_finished, the others true.              *)
ParseSucceeds == codec = "h264" => FrameFinished

(* InputFile::advance after restore_pos.                                   *)
Advanced_Twice == offs + consumed + consumed

Advanced == offs + consumed

(* MFCDecoder::set_source                                                  *)
SetSource ==
  /\ linked /\ pc = "return" /\ get_head /\ ParseSucceeds
  /\ frames' = Append(frames, Extracted)
  /\ IF codec = "h263" THEN ctx' = Reset(AfterCall) /\ offs' = Rewound
     ELSE ctx' = AfterCall /\ offs' = Advanced
  /\ get_head' = FALSE /\ consumed' = 0 /\ pc' = "scan"
  /\ UNCHANGED <<codec, units, stream, linked>>

(* MFCDecoder::run; after the end of the file the parsers other than       *)
(* H264Parser return empty frames for ever.                                *)
RunParses ==
  /\ linked /\ pc = "return" /\ ~get_head /\ ParseSucceeds
  /\ Len(frames) < MaxFrames
  /\ frames' = Append(frames, Extracted)
  /\ ctx' = AfterCall /\ offs' = Advanced
  /\ consumed' = 0 /\ pc' = "scan"
  /\ UNCHANGED <<codec, units, stream, get_head, linked>>

(* false is an error for both callers                                      *)
ParseFails ==
  /\ linked /\ pc = "return" /\ ~ParseSucceeds
  /\ ctx' = AfterCall /\ offs' = Advanced
  /\ consumed' = 0 /\ pc' = "failed"
  /\ UNCHANGED <<codec, units, stream, get_head, frames, linked>>

Stopped ==
  /\ pc = "failed" \/ Len(frames) = MaxFrames
  /\ UNCHANGED directVars

DirectNext ==
  \/ Link
  \/ H264Parser_parse \/ MPEG2Parser_parse \/ MPEG4Parser_parse
  \/ SetSource \/ RunParses \/ ParseFails \/ Stopped

DirectSpec == DirectInit /\ [][DirectNext]_directVars

-----------------------------------------------------------------------------
(* parser.h:71-72: reset() resets the parser's state and rewinds the file, *)
(* for link() and for H.263: the frames are those of the file from its     *)
(* beginning; only after all of them come empty ones.                      *)
FramesFromTheStart ==
  /\ IsPrefix(SubSeq(frames, 1, Min({Len(frames), Len(Expected)})), Expected)
  /\ \A k \in DOMAIN frames : k > Len(Expected) => frames[k] = <<>>

(* An error is reported with at most the last frame not yet returned.      *)
ErrorsAreLate ==
  pc = "failed" => Len(frames) + 1 >= Len(Expected)
=============================================================================
