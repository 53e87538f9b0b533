--------------------------- MODULE MCFlashFraming ---------------------------
(* Bytes of three values; the start of frame also occurs as data.  The two  *)
(* CRCs differ in the values their high byte takes: never that of the start *)
(* of frame, or any.                                                        *)
EXTENDS FlashFraming

MCByte == 0 .. Base - 1
MCPayloads == {<<2>>, <<1, 2>>, <<0, 2, 1>>}
MCCrcBelowHeader(x, crc) == (2 * crc + x + 1) % (Base * Header)
MCCrcAny(x, crc) == (2 * crc + x + 4) % (Base * Base)
=============================================================================
