----------------------------- MODULE MCDrmDirect -----------------------------
(***************************************************************************)
(* The model of DrmDirect: more frames than pages, so that every page is   *)
(* decoded to more than once.                                              *)
(***************************************************************************)
EXTENDS DrmDirect
=============================================================================
