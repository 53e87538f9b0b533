------------------------------- MODULE MCNvs --------------------------------
(* The nvs mode with a module that restarts, repeats and sends other frames. *)
EXTENDS Nvs

MCQueues == {<< >>} \cup {<<r>> : r \in Requests}
=============================================================================
