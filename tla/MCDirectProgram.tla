---------------------------- MODULE MCDirectProgram ----------------------------
(***************************************************************************)
(* The model of DirectProgram: more frames than pages, so that every page  *)
(* is decoded to more than once.                                           *)
(***************************************************************************)
EXTENDS DirectProgram
=============================================================================
