---------------------------- MODULE MCDecoderLive ----------------------------
(***************************************************************************)
(* The decoder without faults, with a display thread or without one: the   *)
(* constant Display is "ipp", and NoDisplay is the same program with none. *)
(***************************************************************************)
EXTENDS DecoderThreads

VARIABLE displays   \* whether this run has a display thread

NoDisplay == INSTANCE DecoderThreads WITH Display <- "none"

LiveInit ==
  \/ displays = TRUE /\ Init
  \/ displays = FALSE /\ NoDisplay!Init

LiveNext ==
  /\ UNCHANGED displays
  /\ \/ displays /\ Next
     \/ ~displays /\ NoDisplay!Next

(* Each thread is scheduled, a blocked call returns when it can, and the   *)
(* decoder works on what it has.                                           *)
LiveSpec ==
  /\ LiveInit /\ [][LiveNext]_<<displays, vars>>
  /\ WF_vars(displays /\ parser_thread_func)
  /\ WF_vars(displays /\ mfc_thread_func)
  /\ WF_vars(displays /\ display_thread_func)
  /\ WF_vars(displays /\ main)
  /\ WF_vars(displays /\ Mfc)
  /\ WF_vars(~displays /\ NoDisplay!parser_thread_func)
  /\ WF_vars(~displays /\ NoDisplay!mfc_thread_func)
  /\ WF_vars(~displays /\ NoDisplay!main)
  /\ WF_vars(~displays /\ NoDisplay!Mfc)

(* Neither the parser nor the MFC thread waits for ever for a buffer       *)
(* (main.c:193, 222, 264) or for the decoder (:278): both finish, and main *)
(* returns if there is no display thread.                                  *)
ThreadsFinish ==
  <>(parserPc = "exit" /\ mfcPc = "exit" /\ (displays \/ mainPc = "exit"))
=============================================================================
