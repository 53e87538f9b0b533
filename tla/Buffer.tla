------------------------------- MODULE Buffer -------------------------------
(***************************************************************************)
(* The input buffer of src/buffer.c: a ring of BufSize bytes with two      *)
(* cursors, a byte count and a flag that says on which side of the write   *)
(* cursor the unread data lies.  The operators below are the functions of  *)
(* the file, on a record with the fields of buffer_t; the pointers into    *)
(* the allocated block are offsets 0 .. BufSize from buf_start, BufSize    *)
(* being buf_end.                                                          *)
(***************************************************************************)
EXTENDS Integers, Sequences

CONSTANTS BufSize,   \* bytes allocated by buffer_new(size)
          Byte       \* the values of a byte

ASSUME BufSizeAssumption == BufSize \in Nat \ {0}
ASSUME ByteAssumption == 0 \in Byte      \* calloc fills the block with zeros

Least(m, n) == IF m <= n THEN m ELSE n

Buffers == [mem : [0 .. BufSize - 1 -> Byte],
            data_start : 0 .. BufSize,
            data_end : 0 .. BufSize,
            count : 0 .. BufSize,
            state : {"NORMAL", "WRAPPED"}]

buffer_new == [mem |-> [i \in 0 .. BufSize - 1 |-> 0],
               data_start |-> 0, data_end |-> 0, count |-> 0,
               state |-> "NORMAL"]

buffer_size(b) == b.count
-----------------------------------------------------------------------------
(***************************************************************************)
(* Writing.  CopyIn is the body write_normal and write_wrapped share: copy *)
(* at the write cursor, never up to or beyond limit.                       *)
(***************************************************************************)
CopyIn(b, input, limit) ==
    LET n == Least(Len(input), limit - b.data_end)
    IN  [b EXCEPT !.mem = [i \in 0 .. BufSize - 1 |->
                             IF b.data_end <= i /\ i < b.data_end + n
                             THEN input[i - b.data_end + 1]
                             ELSE b.mem[i]],
                  !.data_end = @ + n,
                  !.count = @ + n]

write_normal(b, input) == CopyIn(b, input, BufSize)

\* Mistake: the data that is still unread, from data_start on, is overwritten.
write_wrapped_unbounded(b, input) == CopyIn(b, input, BufSize)

write_wrapped(b, input) == CopyIn(b, input, b.data_start)

\* What does not fit is not stored; written is the growth of count.
buffer_write(b, input) ==
    LET first   == IF b.state = "NORMAL" THEN write_normal(b, input)
                                         ELSE write_wrapped(b, input)
        written == first.count - b.count
        rest    == SubSeq(input, written + 1, Len(input))
    IN  IF b.count = BufSize THEN b
        ELSE IF ~(written < Len(input) /\ first.count < BufSize) THEN first
        ELSE IF b.state = "NORMAL"
             THEN write_wrapped([first EXCEPT !.state = "WRAPPED",
                                              !.data_end = 0], rest)
             ELSE write_normal([first EXCEPT !.state = "NORMAL",
                                             !.data_end = 0], rest)
-----------------------------------------------------------------------------
(***************************************************************************)
(* Reading.  A read yields the buffer it leaves and the bytes it copied    *)
(* out; there are b.count - buf.count of them.                             *)
(***************************************************************************)
CopyOut(b, n) ==
    [buf  |-> [b EXCEPT !.data_start = @ + n, !.count = @ - n],
     data |-> [i \in 1 .. n |-> b.mem[b.data_start + i - 1]]]

read_normal(b, n) == CopyOut(b, Least(n, b.count))

read_wrapped(b, n) == CopyOut(b, Least(n, BufSize - b.data_start))

buffer_read(b, n) ==
    LET first == IF b.state = "NORMAL" THEN read_normal(b, n)
                                       ELSE read_wrapped(b, n)
        read  == b.count - first.buf.count
        turn  == [first.buf EXCEPT !.data_start = 0]
        next  == IF b.state = "NORMAL"
                 THEN read_wrapped([turn EXCEPT !.state = "WRAPPED"], n - read)
                 ELSE read_normal([turn EXCEPT !.state = "NORMAL"], n - read)
    IN  IF read < n /\ first.buf.count > 0
        THEN [buf |-> next.buf, data |-> first.data \o next.data]
        ELSE first
-----------------------------------------------------------------------------
(***************************************************************************)
(* Rewinding: bytes that were read are made unread again.                  *)
(***************************************************************************)
StepBack(b, n) == [b EXCEPT !.data_start = @ - n, !.count = @ + n]

\* Mistake: the cursor is moved below the block.
rewind_normal_unbounded(b, n) == StepBack(b, n)

rewind_normal(b, n) == StepBack(b, Least(n, b.data_start))

rewind_wrapped(b, n) == StepBack(b, Least(n, b.data_start - b.data_end))

\* Mistake: the cursor wraps to the block's end but the state stays NORMAL.
buffer_rewind_keeps_state(b, n) ==
    LET first == IF b.state = "NORMAL" THEN rewind_normal(b, n)
                                       ELSE rewind_wrapped(b, n)
        left  == n - (first.count - b.count)
    IN  IF left = 0 THEN first
        ELSE rewind_wrapped([first EXCEPT !.data_start = BufSize], left)

buffer_rewind(b, n) ==
    LET first == IF b.state = "NORMAL" THEN rewind_normal(b, n)
                                       ELSE rewind_wrapped(b, n)
        left  == n - (first.count - b.count)
        turn  == [first EXCEPT !.data_start = BufSize]
    IN  IF ~(first.count - b.count < n) THEN first
        ELSE IF b.state = "NORMAL"
             THEN rewind_wrapped([turn EXCEPT !.state = "WRAPPED"], left)
             ELSE rewind_normal([turn EXCEPT !.state = "NORMAL"], left)
-----------------------------------------------------------------------------
(***************************************************************************)
(* The shape every buffer of the program has: the cursors are ordered as   *)
(* the state says, and count is the distance between them.                 *)
(***************************************************************************)
Shape(b) ==
    \/ /\ b.state = "NORMAL"
       /\ b.data_start <= b.data_end
       /\ b.count = b.data_end - b.data_start
    \/ /\ b.state = "WRAPPED"
       /\ b.data_end <= b.data_start
       /\ b.count = BufSize - b.data_start + b.data_end

\* The unread bytes, in the order buffer_read hands them out.
Unread(b) == [i \in 1 .. b.count |-> b.mem[(b.data_start + i - 1) % BufSize]]
=============================================================================
