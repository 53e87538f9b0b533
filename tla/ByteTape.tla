------------------------------ MODULE ByteTape ------------------------------
(***************************************************************************)
(* What src/buffer.c promises its callers: a tape of all bytes ever        *)
(* stored and a reading position on it.  At most BufSize bytes are unread; *)
(* a write stores what fits and drops the rest, a read yields the next     *)
(* bytes in order, and a rewind moves the position back over bytes that    *)
(* were read, as long as the BufSize bound allows.                         *)
(***************************************************************************)
EXTENDS Integers, Sequences

CONSTANTS BufSize, Byte,
          MaxIO,     \* longest write, read or rewind considered
          MaxTape    \* bound on the length of the tape

VARIABLES tape,      \* every byte stored, after the zeros of a new buffer
          pos,       \* how many bytes of it have been read
          out        \* the bytes the last read handed out

vars == <<tape, pos, out>>

unread == Len(tape) - pos

Init == /\ tape = [i \in 1 .. BufSize |-> 0]
        /\ pos = BufSize
        /\ out = << >>

Write(input) ==
    LET room == BufSize - unread
        n == IF Len(input) <= room THEN Len(input) ELSE room
    IN  /\ Len(tape) + Len(input) <= MaxTape
        /\ tape' = tape \o SubSeq(input, 1, n)
        /\ out' = << >>
        /\ UNCHANGED pos

Read(n) ==
    LET k == IF n <= unread THEN n ELSE unread
    IN  /\ out' = SubSeq(tape, pos + 1, pos + k)
        /\ pos' = pos + k
        /\ UNCHANGED tape

Rewind(n) ==
    /\ n <= pos
    /\ unread + n <= BufSize
    /\ pos' = pos - n
    /\ out' = << >>
    /\ UNCHANGED tape

Next == \E n \in 1 .. MaxIO :
           \/ \E input \in [1 .. n -> Byte] : Write(input)
           \/ Read(n)
           \/ Rewind(n)

Spec == Init /\ [][Next]_vars
=============================================================================
