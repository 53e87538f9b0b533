----------------------------- MODULE MCBusmail ------------------------------
(* Information frames 0, 5, 6 and 7, RR, SAMB and an unnumbered frame that is *)
(* not SAMB_POLL_SET; callbacks that enqueue up to three packets.            *)
EXTENDS Busmail

MCHeaders == {0, 5 * 16 + 1, 6 * 16 + 7, 7 * 16 + 8, 130, 200, 192}
MCQueues == UNION {[1 .. n -> Data] : n \in 0 .. 3}
=============================================================================
