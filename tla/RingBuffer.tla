----------------------------- MODULE RingBuffer -----------------------------
(***************************************************************************)
(* The input buffer as a component: any sequence of buffer_write,          *)
(* buffer_read and buffer_rewind calls on one buffer.  A caller rewinds    *)
(* at most into the free space: busmail_get and flashpacket_get put back   *)
(* one or three bytes they have just read, and flashpacket_get also one    *)
(* byte on an empty buffer.                                                *)
(***************************************************************************)
EXTENDS Buffer

CONSTANTS MaxIO,     \* longest write, read or rewind considered
          MaxTape    \* bound on the number of bytes ever stored

ASSUME BoundsAssumption == MaxIO \in Nat /\ MaxTape \in Nat

VARIABLES buf,       \* the buffer_t
          tape,      \* history: zeros of the new block, then every byte stored
          out        \* the bytes copied out by the last buffer_read

ring_vars == <<buf, tape, out>>

RingInit == /\ buf = buffer_new
            /\ tape = [i \in 1 .. BufSize |-> 0]
            /\ out = << >>

Write(input) ==
    /\ Len(tape) + Len(input) <= MaxTape
    /\ buf' = buffer_write(buf, input)
    /\ tape' = tape \o SubSeq(input, 1, buf'.count - buf.count)
    /\ out' = << >>

Read(n) ==
    /\ buf' = buffer_read(buf, n).buf
    /\ out' = buffer_read(buf, n).data
    /\ UNCHANGED tape

Rewind(n) ==
    /\ n <= BufSize - buf.count
    /\ buf' = buffer_rewind(buf, n)
    /\ out' = << >>
    /\ UNCHANGED tape

RingNext == \E n \in 1 .. MaxIO :
               \/ \E input \in [1 .. n -> Byte] : Write(input)
               \/ Read(n)
               \/ Rewind(n)

RingSpec == RingInit /\ [][RingNext]_ring_vars
-----------------------------------------------------------------------------
\* The buffer_t has its type: both cursors stay inside the allocated block
\* and the byte count never exceeds its size.
RingTypeOK == buf \in Buffers

\* Whatever the calls so far, count equals the distance between the cursors
\* on the side the state flag names.  write_normal, read_wrapped and the rest
\* compute every memcpy length from these fields, so a length that is negative
\* or reaches over the block's end needs a violation of this first.
CursorsAgree == Shape(buf)

\* The calls behave like one tape of bytes: nothing unread is overwritten,
\* bytes come out in the order they went in, each once unless rewound, and a
\* rewind brings back exactly the bytes read last, across every wrap of the
\* cursors.
Tape == INSTANCE ByteTape WITH pos <- Len(tape) - buf.count
ImplementsTape == Tape!Spec
=============================================================================
