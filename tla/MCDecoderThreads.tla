-------------------------- MODULE MCDecoderThreads --------------------------
(***************************************************************************)
(* Instances of the decoder: STREAM_BUFFER_CNT is 2 as in main.c:43, and   *)
(* MFC_MAX_CAP_BUF is as large as the code has it, since only its relation *)
(* to CapCnt matters.                                                      *)
(***************************************************************************)
EXTENDS DecoderThreads
=============================================================================
