--------------------------- MODULE MCDecoderDisplay ---------------------------
(***************************************************************************)
(* The display threads with a few pictures and a short count of tries.     *)
(***************************************************************************)
EXTENDS DecoderDisplay
=============================================================================
