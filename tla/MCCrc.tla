-------------------------------- MODULE MCCrc --------------------------------
(* Bytes 0x00, 0x01, 0x80, 0xff and 0xa7: none, the lowest, the highest and *)
(* all bits, and a mixture that has no symmetry.                            *)
EXTENDS Crc

MCBytes == {{}, {0}, {7}, 0 .. 7, {0, 1, 2, 5, 7}}
=============================================================================
