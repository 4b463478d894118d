----------------------------- MODULE MCDirectSetup -----------------------------
(***************************************************************************)
(* The model of DirectSetup: two buffers and three pages, so that a page   *)
(* fails with others before and after it.                                  *)
(***************************************************************************)
EXTENDS DirectSetup
=============================================================================
