--------------------------- MODULE MCFlashProgram ---------------------------
(* All images of up to four blocks over two contents and FF, with and without  *)
(* a block of 0xff behind them.                                               *)
EXTENDS FlashProgram

MCFF == "ff"
MCContents == {"00", "a"}
MCImages == UNION {[1 .. n -> MCContents \cup {MCFF}] : n \in 1 .. 4}
=============================================================================
