------------------------------ MODULE MCParsers ------------------------------
(***************************************************************************)
(* The parsers of both programs on the same streams: parser.c as the       *)
(* threads of v4l2-mfc-example call it, and the classes of parser.cpp as   *)
(* MFCDecoder calls them; and the files of parse_vp8_stream.  The units    *)
(* are those of real streams: start codes of three and four bytes, headers,*)
(* pictures whose data look like the beginning of a start code, and units  *)
(* that are neither.                                                       *)
(***************************************************************************)
EXTENDS DirectParser

VARIABLES
  program,     \* "example", "direct", or "ivf", the example's for VP8
  file, dkif   \* the file of the latter

(* Files of up to four frames, some of them empty, with a few bytes left in*)
(* their last page                                                         *)
Ivf == INSTANCE IvfParser WITH FrameSizes <- {0, 1, 200}, MaxFrames <- 4, Slack <- 20

Unit(kind, bytes) == [kind |-> kind, bytes |-> bytes]

MCUnits ==
  [h264 |-> {Unit("head", <<0, 0, 0, 1, 103, 66>>), Unit("head", <<0, 0, 1, 104, 206, 60>>),
             Unit("main", <<0, 0, 1, 101, 136, 0, 0, 3, 1>>), Unit("main", <<0, 0, 0, 1, 65, 154, 9>>),
             Unit("other", <<0, 0, 1, 65, 64, 128>>), Unit("other", <<0, 0, 0, 1, 9, 240>>)},
   mpeg4 |-> {Unit("head", <<0, 0, 1, 176, 8>>), Unit("head", <<0, 0, 1, 0>>),
              Unit("head", <<0, 0, 1, 32, 0, 200>>), Unit("head", <<0, 0, 1, 179, 0, 16>>),
              Unit("main", <<0, 0, 1, 182, 16, 0, 0, 130, 5>>), Unit("main", <<0, 0, 1, 182, 80>>)},
   mpeg2 |-> {Unit("head", <<0, 0, 1, 179, 22>>), Unit("head", <<0, 0, 1, 184, 0, 8>>),
              Unit("main", <<0, 0, 1, 0, 0, 15, 255>>), Unit("main", <<0, 0, 1, 0, 64, 87, 0>>),
              Unit("other", <<0, 0, 1, 181, 20>>), Unit("other", <<0, 0, 1, 1, 19>>)},
   h263 |-> {Unit("main", <<0, 0, 128, 2, 8>>), Unit("main", <<0, 0, 129, 6, 0, 9>>)}]

(* Memory that the allocator hands out for the first time is zero.         *)
ZeroMemory == {parse_stream_init}

NoFile == file = <<>> /\ dkif = FALSE

NoStream ==
  /\ codec = "vp8" /\ units = <<>> /\ stream = <<>> /\ consumed = 0
  /\ ctx = parse_stream_init

MCInit ==
  \/ program = "example" /\ Init /\ linked = FALSE /\ NoFile
  \/ program = "direct" /\ DirectInit /\ codec # "h263" /\ NoFile
  \/ program = "ivf" /\ Ivf!Init /\ NoStream /\ linked = FALSE

MCNext ==
  /\ UNCHANGED program
  /\ \/ program = "example" /\ Next /\ UNCHANGED <<linked, file, dkif>>
     \/ program = "direct" /\ DirectNext /\ UNCHANGED <<file, dkif>>
     \/ program = "ivf" /\ Ivf!Next /\ UNCHANGED <<codec, units, stream, consumed, ctx, linked>>

MCSpec == MCInit /\ [][MCNext]_<<directVars, program, file, dkif>>

(* The variables keep their types, and what is saved between two calls fits*)
(* into ctx->bytes.                                                        *)
SavedBytesFit == program # "ivf" => TypeOK

(* parser.c returns the frames of the stream, byte for byte and in order.  *)
(* When its caller sees the end of the stream none is missing, and it finds*)
(* no header only in a stream without a second frame.  The frames of an IVF*)
(* file are returned in order too, the first one, as the header, twice.    *)
ExampleParses ==
  /\ program = "example" => FramesAreUnits /\ NoneMissing
  /\ program = "ivf" => Ivf!FramesInOrder

(* parser.cpp returns the frames of the file from its beginning, and       *)
(* H264Parser reports an error with at most the last frame not returned.   *)
DirectParses == program = "direct" => FramesFromTheStart /\ ErrorsAreLate
=============================================================================
