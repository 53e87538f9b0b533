---------------------------- MODULE MCRingBuffer ----------------------------
(* RingBuffer on a block of four bytes, with calls longer than the block. *)
EXTENDS RingBuffer

MCByte == {0, 1}
=============================================================================
