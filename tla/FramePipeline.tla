---------------------------- MODULE FramePipeline ----------------------------
(***************************************************************************)
(* What the programs that decode or encode a video promise: the frames     *)
(* 1 .. NFrames go from their source through the MFC to the display or the *)
(* file, in the order of the stream, each exactly once, with no more of    *)
(* them in flight between two stages than there are buffers.               *)
(* DecoderThreads, DrmDirect and EncoderChain implement it.                *)
(***************************************************************************)
EXTENDS Naturals, Sequences

CONSTANTS
  NFrames,   \* frames in the stream
  OutCnt,    \* buffers between the source and the MFC
  CapCnt     \* buffers between the MFC and the end

VARIABLES
  parsed,    \* frames handed to the MFC
  decoded,   \* frames the MFC has worked on
  shown      \* frames shown or written, in the order they were

vars == <<parsed, decoded, shown>>

Init ==
  /\ parsed = 0
  /\ decoded = 0
  /\ shown = <<>>

Parse ==
  /\ parsed < NFrames
  /\ parsed - decoded < OutCnt
  /\ parsed' = parsed + 1
  /\ UNCHANGED <<decoded, shown>>

Decode ==
  /\ decoded < parsed
  /\ decoded - Len(shown) < CapCnt
  /\ decoded' = decoded + 1
  /\ UNCHANGED <<parsed, shown>>

Show ==
  /\ Len(shown) < decoded
  /\ shown' = Append(shown, Len(shown) + 1)
  /\ UNCHANGED <<parsed, decoded>>

Next == Parse \/ Decode \/ Show

Spec == Init /\ [][Next]_vars /\ WF_vars(Next)
=============================================================================
