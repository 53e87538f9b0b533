------------------------------- MODULE MCFifo --------------------------------
(* Four cells, so that a freed cell is handed out again while others are    *)
(* queued, and two objects that are told apart.                             *)
EXTENDS Fifo, TLC

Symmetry == Permutations(Cells)
=============================================================================
