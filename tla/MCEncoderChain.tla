--------------------------- MODULE MCEncoderChain ---------------------------
(***************************************************************************)
(* The model of EncoderChain: a few frames, more than there are buffers,   *)
(* so that every buffer is used again.                                     *)
(***************************************************************************)
EXTENDS EncoderChain
=============================================================================
