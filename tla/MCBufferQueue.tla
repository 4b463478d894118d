---------------------------- MODULE MCBufferQueue ----------------------------
(***************************************************************************)
(* Two threads on a ring of three slots with two indices: large enough for *)
(* the ring to fill, to wrap around and to hold equal neighbours.          *)
(***************************************************************************)
EXTENDS BufferQueue

MCElements == {0, 3}
MCSize == 3
=============================================================================
