--------------------------- MODULE MessageChannel ---------------------------
(***************************************************************************)
(* What the framing layers promise to the dispatchers above them: the      *)
(* payloads the DECT module sends are dispatched once each and in order.   *)
(***************************************************************************)
EXTENDS Integers, Sequences

CONSTANT Payloads

VARIABLES sent,   \* every payload sent so far, in order
          got     \* every payload dispatched so far, in order

vars == <<sent, got>>

Init == sent = << >> /\ got = << >>

Send(p) == sent' = Append(sent, p) /\ UNCHANGED got

Deliver == /\ Len(got) < Len(sent)
           /\ got' = Append(got, sent[Len(got) + 1])
           /\ UNCHANGED sent

Next == Deliver \/ \E p \in Payloads : Send(p)

Spec == Init /\ [][Next]_vars

\* The receiver keeps up: what was sent is dispatched in the end.
Fairness == WF_vars(Deliver)
=============================================================================
