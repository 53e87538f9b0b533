-------------------------- MODULE MCBusmailFraming --------------------------
(* Bytes of two values, so that lengths use both length bytes and the start *)
(* of frame also occurs inside frames, as a length, data and checksum byte. *)
EXTENDS BusmailFraming

MCByte == 0 .. Base - 1
MCPayloads == {<<1>>, <<1, 1>>, <<1, 0, 1>>}
MCShort == {<<2>>}
=============================================================================
