---------------------------- MODULE MCBootChain -----------------------------
(* The boot chain with up to three meaningless bytes and one damaged image. *)
EXTENDS BootChain
=============================================================================
