-------------------------------- MODULE Queue --------------------------------
(***************************************************************************)
(* What busmail.c takes a fifo of src/fifo.c to be: objects leave it one   *)
(* by one in the order they were added.  Busmail!tx_fifo is this sequence. *)
(***************************************************************************)
EXTENDS Sequences

CONSTANTS Objects, NULL

VARIABLES queue,      \* oldest object first
          returned    \* by the last Get

queue_vars == <<queue, returned>>

Init == queue = << >> /\ returned = NULL

Add(o) == queue' = Append(queue, o) /\ UNCHANGED returned

Get == /\ queue # << >>
       /\ returned' = Head(queue)
       /\ queue' = Tail(queue)

Next == Get \/ \E o \in Objects : Add(o)

Spec == Init /\ [][Next]_queue_vars
=============================================================================
