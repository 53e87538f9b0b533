----------------------------- MODULE LeafProofs -----------------------------
(***************************************************************************)
(* Proofs about the three components that rest on no other one: the input  *)
(* buffer (RingBuffer), the list of src/fifo.c (Fifo) and the checksums    *)
(* (Crc).                                                                  *)
(*                                                                         *)
(* The buffer, for every block size and every byte range: by the lemmas of *)
(* BufferProofs every operation keeps the buffer good and its block        *)
(* holding the end of the tape, and is a step of ByteTape.                 *)
(*                                                                         *)
(* The fifo is a queue, for any objects and any number of cells.  Its      *)
(* three invariants are inductive together: LinkedAsQueued needs           *)
(* NothingLeaked because a cell handed out by calloc must not be in the    *)
(* list, and NothingLeaked needs LinkedAsQueued because the cell freed     *)
(* must be the oldest.                                                     *)
(*                                                                         *)
(* UpdateCrc is the division its comment names, for every byte and every   *)
(* register, and a mail with two neighbouring bytes damaged never keeps    *)
(* its checksum.  Both rest on the bits of UpdateCrc (UpdateCrcBits): bit  *)
(* b is an exclusive or of bits of the byte and of the register.  The      *)
(* division has the same bits after eight steps (DividedStep, for any step *)
(* m); and the equations can be solved for the byte or for the register    *)
(* (LowHalf, HighHalf), so different inputs stay apart.                    *)
(***************************************************************************)
EXTENDS RingBuffer, Fifo, Crc, BufferProofs

-----------------------------------------------------------------------------
(* The input buffer as a component.                                        *)

\* The inductive invariant: whatever calls were made, the buffer is good.
THEOREM BufferStaysGood == RingSpec => []Good(buf)
<1>1. RingInit => Good(buf)
  BY NewGood DEF RingInit
<1>2. Good(buf) /\ [RingNext]_ring_vars => Good(buf)'
  <2> SUFFICES ASSUME Good(buf), [RingNext]_ring_vars PROVE Good(buf')
    BY DEF Good, Shape, Buffers
  <2>1. ASSUME NEW n \in 1 .. MaxIO, NEW input \in [1 .. n -> Byte], Write(input)
        PROVE  Good(buf')
    <3>1. input \in Seq(Byte)
      BY BoundsAssumption, SMT
    <3> QED
      BY <2>1, <3>1, WriteGood DEF Write
  <2>2. ASSUME NEW n \in 1 .. MaxIO, Read(n) PROVE Good(buf')
    <3>1. n \in Nat
      BY BoundsAssumption, SMT
    <3> QED
      BY <2>2, <3>1, ReadGood DEF Read
  <2>3. ASSUME NEW n \in 1 .. MaxIO, Rewind(n) PROVE Good(buf')
    <3>1. n \in Nat
      BY BoundsAssumption, SMT
    <3> QED
      BY <2>3, <3>1, RewindGood DEF Rewind, Rewound
  <2>4. CASE UNCHANGED ring_vars
    BY <2>4 DEF ring_vars
  <2> QED
    BY <2>1, <2>2, <2>3, <2>4 DEF RingNext
<1> QED
  BY <1>1, <1>2, PTL DEF RingSpec

\* The cursors stay inside the block and the count inside its size.
THEOREM RingTypeCorrect == RingSpec => []RingTypeOK
<1>1. Good(buf) => RingTypeOK
  BY DEF Good, RingTypeOK
<1> QED
  BY <1>1, BufferStaysGood, PTL

\* The count is the distance between the cursors on the side the flag names.
THEOREM CursorsAlwaysAgree == RingSpec => []CursorsAgree
<1>1. Good(buf) => CursorsAgree
  BY DEF Good, CursorsAgree
<1> QED
  BY <1>1, BufferStaysGood, PTL
-----------------------------------------------------------------------------
(* The component is a tape.                                                *)

\* The inductive invariant: the buffer is good and its block holds the last BufSize
\* bytes of the tape, the zeros of a new block included.
Kept == Good(buf) /\ Holds(buf, tape)

\* A new block holds the zeros the tape begins with.
LEMMA NewHolds == RingInit => Kept
<1> SUFFICES ASSUME RingInit PROVE Kept
  OBVIOUS
<1>1. buf = buffer_new /\ tape = [i \in 1 .. BufSize |-> 0]
  BY DEF RingInit
<1> QED
  BY <1>1, NewGood, ZerosHeld DEF Kept

\* The position on the tape that the buffer's count stands for.
position == Len(tape) - buf.count

\* The tape and the position of a state that keeps the invariant.
LEMMA KeptFacts ==
  ASSUME Kept
  PROVE  /\ tape \in Seq(Byte) /\ Len(tape) \in Nat /\ Len(tape) >= BufSize
         /\ BufSize \in Nat /\ buf.count \in 0 .. BufSize
         /\ position \in Nat /\ Len(tape) - position = buf.count
<1>1. tape \in Seq(Byte) /\ Len(tape) \in Nat /\ Len(tape) >= BufSize
  BY SMT DEF Kept, Holds
<1>2. BufSize \in Nat /\ buf.count \in 0 .. BufSize
  BY Fields, BufSizeAssumption DEF Kept, Good
<1> DEFINE L == Len(tape)
           c == buf.count
<1> HIDE DEF L, c
<1>3. L \in Nat /\ L >= BufSize /\ c \in 0 .. BufSize /\ BufSize \in Nat
  BY <1>1, <1>2 DEF L, c
<1>4. L - c \in Nat /\ L - (L - c) = c
  BY <1>3, SMT
<1> QED
  BY <1>1, <1>2, <1>4 DEF position, L, c

\* buffer_write stores on the tape.
LEMMA WriteStep ==
  ASSUME Kept, NEW input \in Seq(Byte), Write(input)
  PROVE  Kept' /\ Tape!Write(input)
<1> DEFINE w == buf'.count - buf.count
           t == tape \o SubSeq(input, 1, w)
           L == Len(tape)
           c == buf.count
           d == buf'.count
           I == Len(input)
<1>1. /\ L + I <= MaxTape /\ buf' = buffer_write(buf, input)
      /\ tape' = t /\ out' = << >>
  BY DEF Write
<1>2. /\ tape \in Seq(Byte) /\ L \in Nat /\ L >= BufSize
      /\ BufSize \in Nat /\ c \in 0 .. BufSize /\ I \in Nat
      /\ position = L - c
  BY KeptFacts DEF position
<1>3. Good(buf')
  BY <1>1, WriteGood DEF Kept
<1>4. Holds(buf', t) /\ w = Least(I, BufSize - c)
  BY <1>1, WriteHolds DEF Kept
<1> HIDE DEF c, d, I, w
<1>5. w \in Nat /\ w <= I
  BY <1>2, <1>4, SMT DEF Least
<1>6. Appended(t, tape, input, w)
  BY <1>2, <1>5, Extended, Zenon DEF I
<1>7. Len(tape') = L + w /\ d \in 0 .. BufSize
  BY <1>1, <1>3, <1>6, Fields DEF Appended, Good, d
<1>8. Len(tape') - buf'.count = Len(tape) - buf.count
  <2>1. w = d - c
    BY DEF w, d, c
  <2> DEFINE M == Len(tape')
  <2>2. M = L + w
    BY <1>7
  <2> HIDE DEF M, L, t
  <2>3. M - d = L - c
    BY <1>2, <1>5, <1>7, <2>1, <2>2, SMT
  <2> QED
    BY <2>3 DEF M, L, d, c
<1> DEFINE u == Len(tape) - (Len(tape) - buf.count)
<1>9. u = c
  BY KeptFacts DEF c, position
<1> HIDE DEF u
<1>10. w = IF I <= BufSize - u THEN I ELSE BufSize - u
  BY <1>4, <1>9 DEF Least
<1>11. Tape!Write(input)
  BY <1>1, <1>8, <1>10 DEF Tape!Write, Tape!unread, u, I
<1> QED
  BY <1>1, <1>3, <1>4, <1>11 DEF Kept

\* buffer_read moves on along the tape.
LEMMA ReadStep ==
  ASSUME Kept, NEW n \in Nat, Read(n)
  PROVE  Kept' /\ Tape!Read(n)
<1> DEFINE L == Len(tape)
           c == buf.count
           d == buf'.count
           k == Least(n, c)
           u == Len(tape) - (Len(tape) - buf.count)
<1>1. /\ buf' = buffer_read(buf, n).buf /\ out' = buffer_read(buf, n).data
      /\ tape' = tape
  BY DEF Read
<1>2. Good(buf) /\ Holds(buf, tape)
  BY DEF Kept
<1>3. Good(buf')
  BY <1>1, <1>2, ReadGood
<1>4. Reads(buffer_read(buf, n).buf, buffer_read(buf, n).data, buf, tape, n)
  BY <1>2, ReadHolds, Zenon
<1>5. Holds(buf', tape) /\ d = c - k /\ out' = Slice(tape, L - c, k)
  BY <1>1, <1>4 DEF Reads
<1>6. L \in Nat /\ c \in Nat /\ BufSize \in Nat /\ u = c
  BY KeptFacts DEF position
<1> HIDE DEF c, d, u, L
<1>7. k = (IF n <= u THEN n ELSE u) /\ k \in Nat /\ L - d = (L - c) + k
  BY <1>5, <1>6, SMT DEF Least
<1> HIDE DEF k
<1>8. out' = SubSeq(tape, (L - c) + 1, (L - c) + k)
  BY <1>5 DEF Slice
<1>9. Len(tape') - d = (L - c) + k
  BY <1>1, <1>7 DEF L
<1>10. Tape!Read(n)
  BY <1>1, <1>7, <1>8, <1>9 DEF Tape!Read, Tape!unread, L, c, d, u
<1> QED
  BY <1>1, <1>3, <1>5, <1>10 DEF Kept

\* buffer_rewind moves back on the tape.
LEMMA RewindStep ==
  ASSUME Kept, NEW n \in Nat, Rewind(n)
  PROVE  Kept' /\ Tape!Rewind(n)
<1> DEFINE L == Len(tape)
           c == buf.count
           d == buf'.count
           u == Len(tape) - (Len(tape) - buf.count)
<1>1. /\ n <= BufSize - c /\ buf' = buffer_rewind(buf, n)
      /\ out' = << >> /\ tape' = tape
  BY DEF Rewind
<1>2. Good(buf) /\ Holds(buf, tape)
  BY DEF Kept
<1>3. Rewound(buf', buf, n)
  BY <1>1, <1>2, RewindGood
<1>4. Good(buf') /\ Holds(buf', tape) /\ d = c + n
  BY <1>2, <1>3, SameHolds DEF Rewound
<1>5. L \in Nat /\ L >= BufSize /\ c \in Nat /\ BufSize \in Nat /\ u = c
  BY KeptFacts DEF position
<1> HIDE DEF c, d, u, L
<1>6. n <= L - c /\ u + n <= BufSize /\ L - d = (L - c) - n
  BY <1>1, <1>4, <1>5, SMT
<1>7. Len(tape') - d = (L - c) - n
  BY <1>1, <1>6 DEF L
<1>8. Tape!Rewind(n)
  BY <1>1, <1>6, <1>7 DEF Tape!Rewind, Tape!unread, L, c, d, u
<1> QED
  BY <1>1, <1>4, <1>8 DEF Kept

\* Every step keeps the invariant and is a step of the tape.
LEMMA EveryStep == Kept /\ [RingNext]_ring_vars => Kept' /\ [Tape!Next]_(Tape!vars)
<1> SUFFICES ASSUME Kept, [RingNext]_ring_vars PROVE Kept' /\ [Tape!Next]_(Tape!vars)
  OBVIOUS
<1>1. ASSUME NEW n \in 1 .. MaxIO, NEW input \in [1 .. n -> Byte], Write(input)
      PROVE  Kept' /\ Tape!Next
  <2>1. input \in Seq(Byte)
    BY BoundsAssumption, SMT
  <2> QED
    BY <1>1, <2>1, WriteStep DEF Tape!Next
<1>2. ASSUME NEW n \in 1 .. MaxIO, Read(n) PROVE Kept' /\ Tape!Next
  <2>1. n \in Nat
    BY BoundsAssumption, SMT
  <2> QED
    BY <1>2, <2>1, ReadStep DEF Tape!Next
<1>3. ASSUME NEW n \in 1 .. MaxIO, Rewind(n) PROVE Kept' /\ Tape!Next
  <2>1. n \in Nat
    BY BoundsAssumption, SMT
  <2> QED
    BY <1>3, <2>1, RewindStep DEF Tape!Next
<1>4. CASE UNCHANGED ring_vars
  <2>1. buf' = buf /\ tape' = tape /\ out' = out
    BY <1>4 DEF ring_vars
  <2>2. Kept'
    BY <2>1 DEF Kept, Good, Shape, Buffers, Holds
  <2>3. UNCHANGED Tape!vars
    BY <2>1 DEF Tape!vars
  <2> QED
    BY <2>2, <2>3
<1> QED
  BY <1>1, <1>2, <1>3, <1>4 DEF RingNext

\* The block always holds the bytes stored last.
THEOREM BlockHoldsTape == RingSpec => []Holds(buf, tape)
<1>1. Kept => Holds(buf, tape)
  BY DEF Kept
<1> QED
  BY <1>1, NewHolds, EveryStep, PTL DEF RingSpec

\* Whatever is written, read and rewound, and however often the cursors wrap, the
\* buffer behaves like a tape: bytes come out once and in order, none is overwritten
\* unread, and a rewind brings back the bytes read last.
THEOREM RingImplementsTape == RingSpec => ImplementsTape
<1>1. RingInit => Tape!Init
  <2> SUFFICES ASSUME RingInit PROVE Tape!Init
    OBVIOUS
  <2>1. tape = [i \in 1 .. BufSize |-> 0] /\ out = << >> /\ buf = buffer_new
    BY DEF RingInit
  <2>2. Len(tape) = BufSize
    BY <2>1, BufSizeAssumption, SMT
  <2>3. Len(tape) - buf.count = BufSize
    <3>1. buf.count = 0
      BY <2>1 DEF buffer_new
    <3> QED
      BY <2>2, <3>1, BufSizeAssumption, SMT
  <2> QED
    BY <2>1, <2>3 DEF Tape!Init
<1> QED
  BY <1>1, NewHolds, EveryStep, PTL DEF RingSpec, ImplementsTape, Tape!Spec
-----------------------------------------------------------------------------
(* The fifo.                                                               *)

FifoInv == FifoTypeOK /\ LinkedAsQueued /\ NothingLeaked

\* The step of a get, in terms of the history: the oldest cell leaves.
LEMMA GetTakesOldest ==
    ASSUME FifoInv, fifo_get
    PROVE  /\ queued # << >> /\ Len(queued) \in Nat \ {0}
           /\ head.last = queued[1]
           /\ Len(Tail(queued)) = Len(queued) - 1
           /\ \A i \in 1 .. Len(queued) - 1 : Tail(queued)[i] = queued[i + 1]
           /\ Tail(queued) = << >> <=> Len(queued) = 1
           /\ heap[head.last].prev = IF Len(queued) = 1 THEN NULL ELSE queued[2]
           /\ Len(queued) # 1 => queued[2] # NULL
<1>1. queued \in Seq(Cells) /\ Len(queued) > 0
  BY DEF FifoInv, FifoTypeOK, NothingLeaked, fifo_get, fifo_count
<1>2. queued # << >> /\ Len(queued) \in Nat \ {0}
  BY <1>1
<1>3. head.last = queued[1]
  BY <1>2 DEF FifoInv, LinkedAsQueued
<1>4. /\ Len(Tail(queued)) = Len(queued) - 1
      /\ \A i \in 1 .. Len(queued) - 1 : Tail(queued)[i] = queued[i + 1]
      /\ Tail(queued) = << >> <=> Len(queued) = 1
  <2>1. Tail(queued) \in Seq(Cells) /\ Len(Tail(queued)) = Len(queued) - 1
    BY <1>1, <1>2
  <2>2. \A i \in 1 .. Len(queued) - 1 : Tail(queued)[i] = queued[i + 1]
    BY <1>1, <1>2
  <2>3. Tail(queued) = << >> <=> Len(Tail(queued)) = 0
    BY <2>1, EmptySeq
  <2> QED BY <1>2, <2>1, <2>2, <2>3
<1>5. heap[queued[1]].prev = IF 1 = Len(queued) THEN NULL ELSE queued[1 + 1]
  BY <1>2 DEF FifoInv, LinkedAsQueued
<1>6. Len(queued) # 1 => queued[2] # NULL
  <2> SUFFICES ASSUME Len(queued) # 1 PROVE queued[2] # NULL
    OBVIOUS
  <2>1. 2 \in 1 .. Len(queued)
    <3>1. \A k \in Nat \ {0} : k # 1 => 2 \in 1 .. k
      OBVIOUS
    <3> QED BY <1>2, <3>1, Zenon
  <2>2. queued[2] \in Cells
    BY <1>1, <2>1
  <2> QED BY <2>2, NullAssumption
<1> QED BY <1>2, <1>3, <1>4, <1>5, <1>6

\* An empty list satisfies the invariant.
LEMMA FifoInitInv == FifoInit => FifoInv
<1> SUFFICES ASSUME FifoInit PROVE FifoInv
  OBVIOUS
<1>1. FifoTypeOK
  BY DEF FifoInit, FifoTypeOK, Cell, Zeroed
<1>2. LinkedAsQueued
  BY DEF FifoInit, LinkedAsQueued
<1>3. NothingLeaked
  BY DEF FifoInit, NothingLeaked, fifo_count
<1> QED BY <1>1, <1>2, <1>3 DEF FifoInv

\* An added cell goes to the newest end of the chain.
LEMMA AddInv == ASSUME FifoInv, NEW o \in Objects, fifo_add(o) PROVE FifoInv'
<1>1. PICK c \in Cells \ allocated :
         /\ allocated' = allocated \cup {c}
         /\ heap' = Linked(c, o)
         /\ head' = [first |-> c,
                     last |-> IF head.first # NULL THEN head.last ELSE c,
                     count |-> head.count + 1]
         /\ queued' = Append(queued, c)
         /\ returned' = returned
  BY DEF fifo_add
<1> DEFINE n == Len(queued)
<1>2. /\ queued \in Seq(Cells) /\ n \in Nat
      /\ queued' \in Seq(Cells) /\ Len(queued') = n + 1
      /\ queued' # << >> /\ queued'[n + 1] = c
      /\ \A i \in 1 .. n : queued'[i] = queued[i] /\ queued[i] \in Cells
  BY <1>1 DEF FifoInv, FifoTypeOK
<1>3. \A i \in 1 .. n : queued[i] # c
  BY <1>1 DEF FifoInv, NothingLeaked
<1>4. c # NULL /\ NULL \notin Cells
  BY NullAssumption
<1>5. FifoTypeOK'
  <2>1. heap' \in [Cells -> Cell]
    <3> DEFINE fresh == [prev |-> NULL, next |-> head.first, obj |-> o]
    <3>1. /\ c \in Cells /\ head.first \in Cells \cup {NULL}
          /\ heap \in [Cells -> Cell]
      BY <1>1 DEF FifoInv, FifoTypeOK
    <3>2. fresh \in Cell
      BY <1>1, <3>1 DEF Cell
    <3>3. ASSUME NEW a \in Cells PROVE [heap[a] EXCEPT !.prev = c] \in Cell
      BY <3>1 DEF Cell
    <3>4. \A a \in Cells : heap[a] \in Cell
      BY <3>1
    <3>5. heap' = [a \in Cells |-> IF a = c THEN fresh
                                   ELSE IF a = head.first THEN [heap[a] EXCEPT !.prev = c]
                                   ELSE heap[a]]
      BY <1>1, Zenon DEF Linked
    <3> HIDE DEF fresh
    <3> QED BY <3>2, <3>3, <3>4, <3>5
  <2> QED BY <1>1, <1>2, <2>1 DEF FifoInv, FifoTypeOK
<1>6. CASE n = 0
  <2>1. queued = << >> /\ head.first = NULL
    BY <1>2, <1>6 DEF FifoInv, LinkedAsQueued
  <2>2. LinkedAsQueued'
    BY <1>1, <1>2, <1>4, <1>6, <2>1 DEF LinkedAsQueued, Linked
  <2>3. NothingLeaked'
    BY <1>1, <1>2, <1>6, <2>1 DEF FifoInv, NothingLeaked, fifo_count
  <2> QED BY <1>5, <2>2, <2>3 DEF FifoInv
<1>7. CASE n # 0
  <2>1. queued # << >> /\ head.first = queued[n] /\ head.last = queued[1]
    BY <1>2, <1>7 DEF FifoInv, LinkedAsQueued
  <2>2. head.first # NULL /\ head'.first = c /\ head'.last = queued'[1]
    BY <1>1, <1>2, <1>4, <1>7, <2>1
  <2>3. \A i \in 1 .. n + 1 :
           heap'[queued'[i]].prev = IF i = n + 1 THEN NULL ELSE queued'[i + 1]
    <3> TAKE i \in 1 .. n + 1
    <3>1. CASE i = n + 1
      BY <1>1, <1>2, <3>1 DEF Linked
    <3>2. CASE i = n
      BY <1>1, <1>2, <1>3, <2>1, <3>2 DEF Linked, FifoInv, FifoTypeOK, Cell
    <3>3. CASE i < n
      <4>1. queued[i] # c /\ queued[i] # head.first /\ queued[i] \in Cells
        BY <1>2, <1>3, <2>1, <3>3 DEF FifoInv, NothingLeaked
      <4>2. heap'[queued[i]] = heap[queued[i]]
        BY <1>1, <4>1 DEF Linked
      <4>3. heap[queued[i]].prev = queued[i + 1]
        BY <1>2, <3>3 DEF FifoInv, LinkedAsQueued
      <4> QED BY <1>2, <3>3, <4>2, <4>3
    <3> QED BY <1>2, <3>1, <3>2, <3>3
  <2>4. LinkedAsQueued'
    BY <1>2, <2>2, <2>3 DEF LinkedAsQueued
  <2>5. NothingLeaked'
    <3>1. allocated' = {queued'[i] : i \in 1 .. Len(queued')}
      BY <1>1, <1>2 DEF FifoInv, NothingLeaked
    <3>2. \A i, j \in 1 .. Len(queued') : queued'[i] = queued'[j] => i = j
      BY <1>2, <1>3 DEF FifoInv, NothingLeaked
    <3>3. fifo_count' = Len(queued')
      BY <1>1, <1>2 DEF FifoInv, NothingLeaked, fifo_count
    <3> QED BY <3>1, <3>2, <3>3 DEF NothingLeaked
  <2> QED BY <1>5, <2>4, <2>5 DEF FifoInv
<1> QED BY <1>6, <1>7

\* A taken cell was the oldest end of the chain.
LEMMA GetInv == ASSUME FifoInv, fifo_get PROVE FifoInv'
<1> DEFINE n == Len(queued)
<1>1. /\ queued # << >> /\ n \in Nat \ {0}
      /\ head.last = queued[1]
      /\ Len(Tail(queued)) = n - 1
      /\ \A i \in 1 .. n - 1 : Tail(queued)[i] = queued[i + 1]
      /\ Tail(queued) = << >> <=> n = 1
      /\ heap[head.last].prev = IF n = 1 THEN NULL ELSE queued[2]
      /\ n # 1 => queued[2] # NULL
  BY GetTakesOldest
<1>2. queued' = Tail(queued) /\ heap' = heap /\ head' = Without(head.last)
      /\ returned' = heap[head.last].obj /\ allocated' = allocated \ {queued[1]}
  BY <1>1 DEF fifo_get
<1>3. queued \in Seq(Cells) /\ \A i \in 1 .. n : queued[i] \in Cells
  BY DEF FifoInv, FifoTypeOK
<1>4. head' = IF n # 1
              THEN [head EXCEPT !.last = queued[2], !.count = @ - 1]
              ELSE [first |-> NULL, last |-> NULL, count |-> head.count - 1]
  BY <1>1, <1>2 DEF Without
<1>5. head.count = n
  BY DEF FifoInv, NothingLeaked, fifo_count
<1>6. FifoTypeOK'
  <2>1. queued' \in Seq(Cells)
    BY <1>1, <1>2, <1>3
  <2>2. head' \in [first : Cells \cup {NULL}, last : Cells \cup {NULL}, count : Nat]
    <3>1. head \in [first : Cells \cup {NULL}, last : Cells \cup {NULL}, count : Nat]
      BY DEF FifoInv, FifoTypeOK
    <3>2. n - 1 \in Nat /\ (n # 1 => queued[2] \in Cells)
      BY <1>1, <1>3
    <3>3. CASE n # 1
      BY <1>4, <1>5, <3>1, <3>2, <3>3
    <3>4. CASE n = 1
      BY <1>4, <1>5, <3>2, <3>4
    <3> QED BY <3>3, <3>4
  <2>3. returned' \in Objects \cup {NULL}
    BY <1>1, <1>2, <1>3 DEF FifoInv, FifoTypeOK, Cell
  <2> QED BY <1>2, <2>1, <2>2, <2>3 DEF FifoInv, FifoTypeOK
<1>7. LinkedAsQueued'
  <2>1. n # 1 => head'.first = queued'[n - 1] /\ head'.last = queued'[1]
    BY <1>1, <1>2, <1>4 DEF FifoInv, LinkedAsQueued, FifoTypeOK
  <2>2. n = 1 => head'.first = NULL /\ head'.last = NULL
    BY <1>4
  <2>3. \A i \in 1 .. n - 1 :
           heap'[queued'[i]].prev = IF i = n - 1 THEN NULL ELSE queued'[i + 1]
    <3> TAKE i \in 1 .. n - 1
    <3>1. i + 1 \in 1 .. n /\ (i + 1 = n <=> i = n - 1) /\ queued'[i] = queued[i + 1]
      BY <1>1, <1>2
    <3>2. heap[queued[i + 1]].prev = IF i + 1 = n THEN NULL ELSE queued[(i + 1) + 1]
      BY <3>1 DEF FifoInv, LinkedAsQueued
    <3>3. i # n - 1 => i + 1 \in 1 .. n - 1 /\ queued'[i + 1] = queued[(i + 1) + 1]
      BY <1>1, <1>2
    <3> QED BY <1>2, <3>1, <3>2, <3>3
  <2>4. (queued' = << >> <=> n = 1) /\ Len(queued') = n - 1
    BY <1>1, <1>2
  <2> QED BY <1>2, <2>1, <2>2, <2>3, <2>4, SMTT(30) DEF LinkedAsQueued
<1>8. NothingLeaked'
  <2>1. allocated' = {queued'[i] : i \in 1 .. Len(queued')}
    <3>1. ASSUME NEW c \in allocated' PROVE \E i \in 1 .. n - 1 : c = queued'[i]
      <4>1. PICK j \in 1 .. n : c = queued[j] /\ j # 1
        BY <1>2, <3>1 DEF FifoInv, NothingLeaked
      <4>2. j - 1 \in 1 .. n - 1 /\ queued'[j - 1] = queued[j]
        BY <1>1, <1>2, <4>1
      <4> QED BY <4>1, <4>2
    <3>2. ASSUME NEW i \in 1 .. n - 1 PROVE queued'[i] \in allocated'
      <4>1. i + 1 \in 1 .. n /\ 1 \in 1 .. n /\ i + 1 # 1 /\ queued'[i] = queued[i + 1]
        BY <1>1, <1>2
      <4>2. queued[i + 1] \in allocated /\ queued[i + 1] # queued[1]
        BY <4>1 DEF FifoInv, NothingLeaked
      <4> QED BY <1>2, <4>1, <4>2
    <3>3. Len(queued') = n - 1
      BY <1>1, <1>2
    <3> HIDE DEF n
    <3> QED BY <3>1, <3>2, <3>3
  <2>2. \A i, j \in 1 .. Len(queued') : queued'[i] = queued'[j] => i = j
    BY <1>1, <1>2 DEF FifoInv, NothingLeaked
  <2>3. fifo_count' = Len(queued')
    BY <1>1, <1>2, <1>4, <1>5 DEF fifo_count, FifoInv, FifoTypeOK
  <2> QED BY <2>1, <2>2, <2>3 DEF NothingLeaked
<1> QED BY <1>6, <1>7, <1>8 DEF FifoInv

\* fifo.c keeps its list in order, frees every cell once and follows no
\* pointer to a freed one.
THEOREM FifoInvariance == FifoSpec => []FifoInv
<1>1. FifoInit => FifoInv
  BY FifoInitInv
<1>2. FifoInv /\ [FifoNext]_fifo_vars => FifoInv'
  <2> SUFFICES ASSUME FifoInv, [FifoNext]_fifo_vars PROVE FifoInv'
    OBVIOUS
  <2>1. CASE fifo_get
    BY <2>1, GetInv
  <2>2. ASSUME NEW o \in Objects, fifo_add(o) PROVE FifoInv'
    BY <2>2, AddInv
  <2>3. CASE UNCHANGED fifo_vars
    BY <2>3 DEF fifo_vars, FifoInv, FifoTypeOK, LinkedAsQueued, NothingLeaked, fifo_count
  <2> QED BY <2>1, <2>2, <2>3 DEF FifoNext
<1> QED BY <1>1, <1>2, PTL DEF FifoSpec

\* The invariants one by one: types, the chain of cells, and the heap.
THEOREM FifoTypeCorrect == FifoSpec => []FifoTypeOK
<1>1. FifoInv => FifoTypeOK
  BY DEF FifoInv
<1> QED BY <1>1, FifoInvariance, PTL

\* The pointers that are followed lead through the queued cells in order.
THEOREM FifoLinking == FifoSpec => []LinkedAsQueued
<1>1. FifoInv => LinkedAsQueued
  BY DEF FifoInv
<1> QED BY <1>1, FifoInvariance, PTL

\* Each cell is freed when its object is taken and never before or again.
THEOREM FifoNoLeak == FifoSpec => []NothingLeaked
<1>1. FifoInv => NothingLeaked
  BY DEF FifoInv
<1> QED BY <1>1, FifoInvariance, PTL

\* The objects of the queued cells, as the abstract queue.
objects == [i \in 1 .. Len(queued) |-> heap[queued[i]].obj]

\* An empty list of cells is an empty queue.
LEMMA InitQueue == FifoInit => Q!Init
BY DEF FifoInit, Q!Init

\* A get takes the head of the queue.
LEMMA GetRefines == ASSUME FifoInv, fifo_get PROVE Q!Get
<1>1. /\ queued # << >> /\ Len(queued) \in Nat \ {0}
      /\ head.last = queued[1]
      /\ Len(Tail(queued)) = Len(queued) - 1
      /\ \A i \in 1 .. Len(queued) - 1 : Tail(queued)[i] = queued[i + 1]
  BY GetTakesOldest
<1>2. queued' = Tail(queued) /\ heap' = heap /\ returned' = heap[queued[1]].obj
  BY <1>1 DEF fifo_get
<1>3. objects # << >> /\ Head(objects) = heap[queued[1]].obj
      /\ Len(objects) = Len(queued)
  BY <1>1 DEF objects
<1>4. Tail(objects) = [i \in 1 .. Len(queued) - 1 |-> heap[queued[i + 1]].obj]
  BY <1>1, <1>3 DEF objects
<1>5. objects' = [i \in 1 .. Len(queued) - 1 |-> heap[queued[i + 1]].obj]
  BY <1>1, <1>2 DEF objects
<1> QED BY <1>2, <1>3, <1>4, <1>5 DEF Q!Get, objects

\* An add appends to the queue.
LEMMA AddRefines == ASSUME FifoInv, NEW o \in Objects, fifo_add(o) PROVE Q!Add(o)
<1>1. PICK c \in Cells \ allocated :
         heap' = Linked(c, o) /\ queued' = Append(queued, c) /\ returned' = returned
  BY DEF fifo_add
<1>2. /\ queued \in Seq(Cells) /\ Len(queued) \in Nat
      /\ Len(queued') = Len(queued) + 1 /\ queued'[Len(queued) + 1] = c
      /\ \A i \in 1 .. Len(queued) : queued'[i] = queued[i] /\ queued[i] \in Cells
  BY <1>1 DEF FifoInv, FifoTypeOK
<1>3. \A i \in 1 .. Len(queued) : heap'[queued'[i]].obj = heap[queued[i]].obj
  BY <1>1, <1>2 DEF FifoInv, FifoTypeOK, NothingLeaked, Linked, Cell
<1>4. heap'[queued'[Len(queued) + 1]].obj = o
  BY <1>1, <1>2 DEF Linked
<1>5. Append(objects, o) = [i \in 1 .. Len(queued) + 1 |->
                              IF i = Len(queued) + 1 THEN o ELSE heap[queued[i]].obj]
  BY <1>2 DEF objects
<1>6. objects' = [i \in 1 .. Len(queued) + 1 |->
                              IF i = Len(queued) + 1 THEN o ELSE heap[queued[i]].obj]
  BY <1>2, <1>3, <1>4 DEF objects
<1> QED BY <1>1, <1>5, <1>6 DEF Q!Add, objects

\* fifo.c implements the queue that busmail.c relies on.
THEOREM FifoImplementsQueue == FifoSpec => ImplementsQueue
<1>1. FifoInit => Q!Init
  BY InitQueue
<1>2. FifoInv /\ [FifoNext]_fifo_vars => [Q!Next]_Q!queue_vars
  <2> SUFFICES ASSUME FifoInv, [FifoNext]_fifo_vars PROVE [Q!Next]_Q!queue_vars
    OBVIOUS
  <2>1. CASE fifo_get
    BY <2>1, GetRefines DEF Q!Next
  <2>2. ASSUME NEW o \in Objects, fifo_add(o) PROVE Q!Next
    BY <2>2, AddRefines DEF Q!Next
  <2>3. CASE UNCHANGED fifo_vars
    BY <2>3 DEF fifo_vars, Q!queue_vars
  <2> QED BY <2>1, <2>2, <2>3 DEF FifoNext
<1> QED BY <1>1, <1>2, FifoInvariance, PTL DEF FifoSpec, ImplementsQueue, Q!Spec
-----------------------------------------------------------------------------
(* The checksums.                                                          *)

Xor(p, q) == ~(p <=> q)

\* A word of 16 bits is given by its bits.
LEMMA WordsEqual ==
  ASSUME NEW v \in Word16, NEW w \in Word16,
         \A b \in 0 .. 15 : b \in v <=> b \in w
  PROVE  v = w
BY DEF Word16

\* Exclusive or, bit by bit.
LEMMA XorBits ==
  ASSUME NEW v, NEW w, NEW b
  PROVE  b \in SymDiff(v, w) <=> Xor(b \in v, b \in w)
BY DEF SymDiff, Xor

\* Results of the operators fit their width.
LEMMA InWidth ==
  ASSUME NEW v \in Word16, NEW w, NEW k \in Nat
  PROVE  /\ Shl(w, k, 16) \in Word16 /\ Shr(w, k, 8) \in Word16
         /\ w \in Word16 => SymDiff(v, w) \in Word16
<1>1. Shl(w, k, 16) \in Word16
  BY DEF Shl, Word16
<1>2. Shr(w, k, 8) \in Word16
  BY DEF Shr, Word16
<1>3. w \in Word16 => SymDiff(v, w) \in Word16
  BY DEF SymDiff, Word16
<1> QED BY <1>1, <1>2, <1>3

\* One bit into the division register.
LEMMA CcittBitBits ==
  ASSUME NEW r \in Word16, NEW bit \in BOOLEAN
  PROVE  /\ CcittBit(r, bit) \in Word16
         /\ 0 \in CcittBit(r, bit) <=> Xor(15 \in r, bit)
         /\ 5 \in CcittBit(r, bit) <=> Xor(4 \in r, Xor(15 \in r, bit))
         /\ 12 \in CcittBit(r, bit) <=> Xor(11 \in r, Xor(15 \in r, bit))
         /\ \A b \in (1 .. 15) \ {5, 12} : b \in CcittBit(r, bit) <=> b - 1 \in r
<1> DEFINE s == Shl(r, 1, 16)
<1>1. s \in Word16 /\ CcittPoly \in Word16
  BY DEF Shl, Word16, CcittPoly
<1>2. SymDiff(s, CcittPoly) \in Word16
  BY <1>1 DEF SymDiff, Word16
<1>3. /\ 0 \notin s
      /\ \A b \in 1 .. 15 : b \in s <=> b - 1 \in r
  BY DEF Shl, Word16
<1>4. \A b \in 0 .. 15 : b \in SymDiff(s, CcittPoly) <=> Xor(b \in s, b \in {0, 5, 12})
  BY XorBits DEF CcittPoly
<1>5. CASE (15 \in r) <=> bit
  <2>1. CcittBit(r, bit) = s
    BY <1>5 DEF CcittBit
  <2> QED BY <1>1, <1>3, <1>5, <2>1 DEF Xor
<1>6. CASE ~((15 \in r) <=> bit)
  <2>1. CcittBit(r, bit) = SymDiff(s, CcittPoly)
    BY <1>6 DEF CcittBit
  <2> HIDE DEF s
  <2> QED BY <1>2, <1>3, <1>4, <1>6, <2>1 DEF Xor
<1> QED BY <1>5, <1>6

\* What a byte is once it is mixed with the high half of the register (X) and
\* with its own high half (T).
X(byte, c, b) == Xor(b + 8 \in c, b \in byte)
T(byte, c, b) == IF b < 4 THEN Xor(X(byte, c, b), X(byte, c, b + 4)) ELSE X(byte, c, b)

\* Bit b of the division register m bits of the byte after it was c: the bits of
\* c have moved up, and each T has entered at the powers 0, 5 and 12.
Divided(byte, c, m, b) ==
    Xor(Xor(b >= m /\ b - m \in c, b < m /\ T(byte, c, 8 - m + b)),
        Xor(b \in 5 .. 4 + m /\ T(byte, c, 3 - m + b),
            b \in 12 .. 11 + m /\ T(byte, c, b - 4 - m)))

\* UpdateCrc is eight bits further.
LEMMA UpdateCrcBits ==
  ASSUME NEW byte \in SUBSET (0 .. 7), NEW c \in Word16
  PROVE  /\ UpdateCrc(byte, c) \in Word16
         /\ \A b \in 0 .. 15 : b \in UpdateCrc(byte, c) <=> Divided(byte, c, 8, b)
<1> DEFINE c0 == Shr(c, 8, 8) \cup Shl(c, 8, 16)
           c1 == SymDiff(c0, byte)
           c2 == SymDiff(c1, Shr(Low8(c1), 4, 8))
           c3 == SymDiff(c2, Shl(c2, 12, 16))
           u == SymDiff(c3, Shl(Low8(c3), 5, 16))
<1>1. c0 \in Word16 /\ \A b \in 0 .. 15 :
         b \in c0 <=> IF b < 8 THEN b + 8 \in c ELSE b - 8 \in c
  BY DEF Shr, Shl, Word16
<1>2. c1 \in Word16 /\ \A b \in 0 .. 15 :
         b \in c1 <=> IF b < 8 THEN X(byte, c, b) ELSE b - 8 \in c
  <2> HIDE DEF c0
  <2>1. c1 \in Word16
    BY <1>1 DEF SymDiff, Word16
  <2>2. \A b \in 0 .. 15 : b \in c1 <=> Xor(b \in c0, b \in byte)
    BY XorBits
  <2> QED BY <1>1, <2>1, <2>2 DEF X, Xor
<1>3. c2 \in Word16 /\ \A b \in 0 .. 15 :
         b \in c2 <=> IF b < 8 THEN T(byte, c, b) ELSE b - 8 \in c
  <2> HIDE DEF c1
  <2>1. c2 \in Word16
    BY <1>2, InWidth
  <2>2. \A b \in 0 .. 15 : b \in c2 <=> Xor(b \in c1, b \in Shr(Low8(c1), 4, 8))
    BY XorBits
  <2>3. \A b \in 0 .. 15 : b \in Shr(Low8(c1), 4, 8) <=> b < 4 /\ b + 4 \in c1
    BY DEF Shr, Low8
  <2> HIDE DEF c2
  <2> QED BY <1>2, <2>1, <2>2, <2>3 DEF T, Xor
<1>4. c3 \in Word16 /\ \A b \in 0 .. 15 :
         b \in c3 <=> IF b < 8 THEN T(byte, c, b)
                      ELSE IF b < 12 THEN b - 8 \in c
                      ELSE Xor(b - 8 \in c, T(byte, c, b - 12))
  <2> HIDE DEF c2
  <2>1. c3 \in Word16
    BY <1>3, InWidth
  <2>2. \A b \in 0 .. 15 : b \in c3 <=> Xor(b \in c2, b \in Shl(c2, 12, 16))
    BY XorBits
  <2>3. \A b \in 0 .. 15 : b \in Shl(c2, 12, 16) <=> b >= 12 /\ b - 12 \in c2
    BY <1>3 DEF Shl, Word16
  <2> HIDE DEF c3
  <2> QED BY <1>3, <2>1, <2>2, <2>3 DEF Xor
<1>5. u \in Word16 /\ \A b \in 0 .. 15 :
         b \in u <=> Xor(b \in c3, b \in 5 .. 12 /\ T(byte, c, b - 5))
  <2> HIDE DEF c3
  <2>1. u \in Word16
    BY <1>4, InWidth
  <2>2. \A b \in 0 .. 15 : b \in u <=> Xor(b \in c3, b \in Shl(Low8(c3), 5, 16))
    BY XorBits
  <2>3. \A b \in 0 .. 15 : b \in Shl(Low8(c3), 5, 16) <=> b \in 5 .. 12 /\ b - 5 \in c3
    BY <1>4 DEF Shl, Low8, Word16
  <2> HIDE DEF u
  <2> QED BY <1>4, <2>1, <2>2, <2>3 DEF Xor
<1>6. u = UpdateCrc(byte, c)
  BY DEF UpdateCrc
<1> HIDE DEF c3, u
<1>7. ASSUME NEW b \in 0 .. 15 PROVE b \in u <=> Divided(byte, c, 8, b)
  <2>1. b \in u <=> Xor(b \in c3, b \in 5 .. 12 /\ T(byte, c, b - 5))
    BY <1>5
  <2>2. b \in c3 <=> IF b < 8 THEN T(byte, c, b)
                     ELSE IF b < 12 THEN b - 8 \in c
                     ELSE Xor(b - 8 \in c, T(byte, c, b - 12))
    BY <1>4
  <2> QED BY <2>1, <2>2 DEF Divided, Xor
<1> QED BY <1>5, <1>6, <1>7

\* The bit that is fed back is a T.
LEMMA FedBack ==
  ASSUME NEW byte \in SUBSET (0 .. 7), NEW c \in Word16, NEW m \in 0 .. 7,
         NEW r \in Word16,
         15 \in r <=> Divided(byte, c, m, 15)
  PROVE  Xor(15 \in r, 7 - m \in byte) <=> T(byte, c, 7 - m)
<1>1. CASE m < 4
  BY <1>1 DEF Divided, T, X, Xor
<1>2. CASE m >= 4
  BY <1>2 DEF Divided, T, X, Xor
<1> QED BY <1>1, <1>2

\* One more bit of the byte.
LEMMA DividedStep ==
  ASSUME NEW byte \in SUBSET (0 .. 7), NEW c \in Word16, NEW m \in 0 .. 7,
         NEW r \in Word16,
         \A b \in 0 .. 15 : b \in r <=> Divided(byte, c, m, b)
  PROVE  /\ CcittBit(r, 7 - m \in byte) \in Word16
         /\ \A b \in 0 .. 15 :
               b \in CcittBit(r, 7 - m \in byte) <=> Divided(byte, c, m + 1, b)
<1> DEFINE s == CcittBit(r, 7 - m \in byte)
           f == T(byte, c, 7 - m)
<1>1. Xor(15 \in r, 7 - m \in byte) <=> f
  BY FedBack
<1>2. /\ s \in Word16
      /\ 0 \in s <=> Xor(15 \in r, 7 - m \in byte)
      /\ 5 \in s <=> Xor(4 \in r, Xor(15 \in r, 7 - m \in byte))
      /\ 12 \in s <=> Xor(11 \in r, Xor(15 \in r, 7 - m \in byte))
      /\ \A b \in (1 .. 15) \ {5, 12} : b \in s <=> b - 1 \in r
  <2>1. (7 - m \in byte) \in BOOLEAN
    OBVIOUS
  <2> HIDE DEF Xor
  <2> QED BY <2>1, CcittBitBits, Zenon
<1> HIDE DEF s
<1>3. 0 \in s <=> Divided(byte, c, m + 1, 0)
  BY <1>1, <1>2 DEF Divided, Xor
<1>4. 5 \in s <=> Divided(byte, c, m + 1, 5)
  <2>1. 4 \in r <=> Divided(byte, c, m, 4)
    OBVIOUS
  <2>2. 5 \in s <=> Xor(4 \in r, f)
    BY <1>1, <1>2 DEF Xor
  <2> QED BY <2>1, <2>2 DEF Divided, Xor
<1>5. 12 \in s <=> Divided(byte, c, m + 1, 12)
  <2>1. 11 \in r <=> Divided(byte, c, m, 11)
    OBVIOUS
  <2>2. 12 \in s <=> Xor(11 \in r, f)
    BY <1>1, <1>2 DEF Xor
  <2> QED BY <2>1, <2>2 DEF Divided, Xor
<1>6. ASSUME NEW b \in (1 .. 15) \ {5, 12}
      PROVE  b \in s <=> Divided(byte, c, m + 1, b)
  <2>1. b - 1 \in r <=> Divided(byte, c, m, b - 1)
    OBVIOUS
  <2>2. b \in s <=> b - 1 \in r
    BY <1>2
  <2> QED BY <2>1, <2>2 DEF Divided
<1>7. \A b \in 0 .. 15 : b = 0 \/ b = 5 \/ b = 12 \/ b \in (1 .. 15) \ {5, 12}
  OBVIOUS
<1> QED BY <1>2, <1>3, <1>4, <1>5, <1>6, <1>7 DEF s

\* UpdateCrc is the division by X^16 + X^12 + X^5 + 1, for every byte and every
\* register.
THEOREM UpdateCrcDivides ==
  ASSUME NEW byte \in SUBSET (0 .. 7), NEW c \in Word16
  PROVE  UpdateCrc(byte, c) = CcittByte(byte, c)
<1> DEFINE r7 == CcittBit(c, 7 \in byte)
           r6 == CcittBit(r7, 6 \in byte)
           r5 == CcittBit(r6, 5 \in byte)
           r4 == CcittBit(r5, 4 \in byte)
           r3 == CcittBit(r4, 3 \in byte)
           r2 == CcittBit(r3, 2 \in byte)
           r1 == CcittBit(r2, 1 \in byte)
           r0 == CcittBit(r1, 0 \in byte)
           At(r, m) == /\ r \in Word16
                       /\ \A b \in 0 .. 15 : b \in r <=> Divided(byte, c, m, b)
<1>1. r0 = CcittByte(byte, c)
  BY DEF CcittByte
<1>2. \A r, m : m \in 0 .. 7 /\ At(r, m) => At(CcittBit(r, 7 - m \in byte), m + 1)
  BY DividedStep
<1>3. At(c, 0)
  BY DEF Divided, Xor, Word16
<1> HIDE DEF At
<1>4. At(r7, 1)
  BY <1>2, <1>3
<1>5. At(r6, 2)
  BY <1>2, <1>4
<1>6. At(r5, 3)
  BY <1>2, <1>5
<1>7. At(r4, 4)
  BY <1>2, <1>6
<1>8. At(r3, 5)
  BY <1>2, <1>7
<1>9. At(r2, 6)
  BY <1>2, <1>8
<1>10. At(r1, 7)
  BY <1>2, <1>9
<1>11. At(r0, 8)
  BY <1>2, <1>10
<1> HIDE DEF r0
<1> QED BY <1>1, <1>11, UpdateCrcBits, WordsEqual DEF At
-----------------------------------------------------------------------------
(* Detection.                                                              *)

Byte8 == SUBSET (0 .. 7)

\* Registers that agree in their low halves came from bytes and registers that
\* agree once mixed.
LEMMA LowHalf ==
  ASSUME NEW d \in Byte8, NEW e \in Byte8, NEW c \in Word16, NEW k \in Word16,
         \A b \in 0 .. 7 : b \in UpdateCrc(d, c) <=> b \in UpdateCrc(e, k)
  PROVE  /\ \A b \in 0 .. 7 : T(d, c, b) <=> T(e, k, b)
         /\ \A b \in 0 .. 7 : X(d, c, b) <=> X(e, k, b)
<1>1. \A b \in 0 .. 7 : Divided(d, c, 8, b) <=> Divided(e, k, 8, b)
  BY UpdateCrcBits DEF Byte8
<1>2. \A b \in 0 .. 4 : T(d, c, b) <=> T(e, k, b)
  <2> TAKE b \in 0 .. 4
  <2> HIDE DEF T
  <2>1. /\ Divided(d, c, 8, b) <=> T(d, c, b)
        /\ Divided(e, k, 8, b) <=> T(e, k, b)
    BY DEF Divided, Xor
  <2> QED BY <1>1, <2>1
<1>3. \A b \in 5 .. 7 : T(d, c, b) <=> T(e, k, b)
  <2> TAKE b \in 5 .. 7
  <2>1. /\ Divided(d, c, 8, b) <=> Xor(T(d, c, b), T(d, c, b - 5))
        /\ Divided(e, k, 8, b) <=> Xor(T(e, k, b), T(e, k, b - 5))
    BY DEF Divided, Xor
  <2>2. b - 5 \in 0 .. 4
    OBVIOUS
  <2> QED BY <1>1, <1>2, <2>1, <2>2 DEF Xor
<1>4. \A b \in 0 .. 7 : T(d, c, b) <=> T(e, k, b)
  BY <1>2, <1>3
<1>5. \A b \in 4 .. 7 : X(d, c, b) <=> X(e, k, b)
  BY <1>4 DEF T
<1>6. \A b \in 0 .. 3 : X(d, c, b) <=> X(e, k, b)
  <2> TAKE b \in 0 .. 3
  <2>1. T(d, c, b) <=> Xor(X(d, c, b), X(d, c, b + 4))
    BY DEF T
  <2>2. T(e, k, b) <=> Xor(X(e, k, b), X(e, k, b + 4))
    BY DEF T
  <2>3. X(d, c, b + 4) <=> X(e, k, b + 4)
    BY <1>5
  <2> QED BY <1>4, <2>1, <2>2, <2>3 DEF Xor
<1> QED BY <1>4, <1>5, <1>6

\* Equal registers came from registers with equal low halves.
LEMMA HighHalf ==
  ASSUME NEW d \in Byte8, NEW e \in Byte8, NEW c \in Word16, NEW k \in Word16,
         UpdateCrc(d, c) = UpdateCrc(e, k)
  PROVE  \A b \in 0 .. 7 : b \in c <=> b \in k
<1> TAKE b \in 0 .. 7
<1>1. \A i \in 0 .. 15 : Divided(d, c, 8, i) <=> Divided(e, k, 8, i)
  BY UpdateCrcBits DEF Byte8
<1>2. \A i \in 0 .. 7 : T(d, c, i) <=> T(e, k, i)
  BY LowHalf
<1>3. Divided(d, c, 8, b + 8) <=> Divided(e, k, 8, b + 8)
  BY <1>1
<1>4. CASE b <= 3
  <2>1. /\ Divided(d, c, 8, b + 8) <=> Xor(b \in c, T(d, c, b + 3))
        /\ Divided(e, k, 8, b + 8) <=> Xor(b \in k, T(e, k, b + 3))
    BY <1>4 DEF Divided, Xor
  <2>2. b + 3 \in 0 .. 7
    BY <1>4
  <2> QED BY <1>2, <1>3, <2>1, <2>2 DEF Xor
<1>5. CASE b = 4
  <2>1. /\ Divided(d, c, 8, 12) <=> Xor(4 \in c, Xor(T(d, c, 7), T(d, c, 0)))
        /\ Divided(e, k, 8, 12) <=> Xor(4 \in k, Xor(T(e, k, 7), T(e, k, 0)))
    BY DEF Divided, Xor
  <2> QED BY <1>2, <1>3, <1>5, <2>1 DEF Xor
<1>6. CASE b > 4
  <2>1. /\ Divided(d, c, 8, b + 8) <=> Xor(b \in c, T(d, c, b - 4))
        /\ Divided(e, k, 8, b + 8) <=> Xor(b \in k, T(e, k, b - 4))
    BY <1>6 DEF Divided, Xor
  <2>2. b - 4 \in 0 .. 7
    BY <1>6
  <2> QED BY <1>2, <1>3, <2>1, <2>2 DEF Xor
<1> QED BY <1>4, <1>5, <1>6

\* Undamaged bytes never bring two registers together.
LEMMA StaysApart ==
  ASSUME NEW d \in Byte8, NEW c \in Word16, NEW k \in Word16, c # k
  PROVE  UpdateCrc(d, c) # UpdateCrc(d, k)
<1> SUFFICES ASSUME UpdateCrc(d, c) = UpdateCrc(d, k) PROVE c = k
  OBVIOUS
<1>1. \A b \in 0 .. 7 : b \in c <=> b \in k
  BY HighHalf
<1>2. \A b \in 0 .. 7 : X(d, c, b) <=> X(d, k, b)
  BY LowHalf
<1>3. \A b \in 0 .. 7 : b + 8 \in c <=> b + 8 \in k
  BY <1>2 DEF X, Xor
<1>4. \A b \in 8 .. 15 : b - 8 \in 0 .. 7 /\ (b - 8) + 8 = b
  OBVIOUS
<1>5. \A b \in 8 .. 15 : b \in c <=> b \in k
  BY <1>3, <1>4
<1> QED BY <1>1, <1>5, WordsEqual

\* A damaged byte parts the registers, and the next byte, damaged or not, does
\* not bring them together.
LEMMA PartedByTwo ==
  ASSUME NEW d \in Byte8, NEW r \in Byte8, d # r, NEW c \in Word16
  PROVE  /\ UpdateCrc(d, c) # UpdateCrc(r, c)
         /\ \A e, f \in Byte8 :
               UpdateCrc(e, UpdateCrc(d, c)) # UpdateCrc(f, UpdateCrc(r, c))
<1>1. ~ \A b \in 0 .. 7 : b \in UpdateCrc(d, c) <=> b \in UpdateCrc(r, c)
  <2> SUFFICES ASSUME \A b \in 0 .. 7 : b \in UpdateCrc(d, c) <=> b \in UpdateCrc(r, c)
               PROVE  FALSE
    OBVIOUS
  <2>1. \A b \in 0 .. 7 : X(d, c, b) <=> X(r, c, b)
    BY LowHalf
  <2>2. \A b \in 0 .. 7 : b \in d <=> b \in r
    BY <2>1 DEF X, Xor
  <2> QED BY <2>2 DEF Byte8
<1>2. UpdateCrc(d, c) \in Word16 /\ UpdateCrc(r, c) \in Word16
  BY UpdateCrcBits DEF Byte8
<1>3. \A e, f \in Byte8 :
         UpdateCrc(e, UpdateCrc(d, c)) # UpdateCrc(f, UpdateCrc(r, c))
  BY <1>1, <1>2, HighHalf
<1> QED BY <1>1, <1>3
-----------------------------------------------------------------------------
\* The registers agree until the first damaged byte, and then differ; just after
\* that byte they differ in a way the next byte cannot undo.
CrcInv == /\ CrcTypeOK
          /\ UpdateCrcIsCcitt
          /\ damage = "none" => crc = crc_calc
          /\ damage = "first" =>
                \E c \in Word16, d, r \in Byte8 :
                   d # r /\ crc = UpdateCrc(d, c) /\ crc_calc = UpdateCrc(r, c)
          /\ damage = "over" => crc # crc_calc

\* One round of the loops keeps the invariant.
LEMMA CrcStepInv ==
  ASSUME CrcInv, NEW byte \in Bytes, NEW received \in Bytes, Carried(byte, received)
  PROVE  CrcInv'
<1>1. byte \in Byte8 /\ received \in Byte8
  BY BytesAssumption DEF Byte8
<1>2. /\ crc' = UpdateCrc(byte, crc) /\ crc_calc' = UpdateCrc(received, crc_calc)
      /\ ccitt' = CcittByte(byte, ccitt) /\ data' = Append(data, byte)
      /\ damage' = IF damage # "none" THEN "over"
                   ELSE IF received = byte THEN "none" ELSE "first"
      /\ damage = "over" => received = byte
  BY DEF Carried
<1>3. /\ crc \in Word16 /\ crc_calc \in Word16 /\ ccitt = crc
      /\ data \in Seq(Bytes) /\ damage \in {"none", "first", "over"}
  BY DEF CrcInv, CrcTypeOK, UpdateCrcIsCcitt
<1>4. crc' \in Word16 /\ crc_calc' \in Word16
  BY <1>1, <1>2, <1>3, UpdateCrcBits DEF Byte8
<1>5. UpdateCrcIsCcitt'
  BY <1>1, <1>2, <1>3, UpdateCrcDivides DEF UpdateCrcIsCcitt, Byte8
<1>6. CrcTypeOK'
  BY <1>2, <1>3, <1>4, <1>5 DEF CrcTypeOK, UpdateCrcIsCcitt
<1>7. CASE damage = "none" /\ received = byte
  <2>1. damage' = "none" /\ crc' = crc_calc'
    BY <1>2, <1>7 DEF CrcInv
  <2> QED BY <1>5, <1>6, <2>1 DEF CrcInv
<1>8. CASE damage = "none" /\ received # byte
  <2>1. damage' = "first" /\ crc_calc' = UpdateCrc(received, crc)
    BY <1>2, <1>8 DEF CrcInv
  <2> QED BY <1>1, <1>2, <1>3, <1>5, <1>6, <1>8, <2>1 DEF CrcInv
<1>9. CASE damage = "first"
  <2>1. PICK c \in Word16, d \in Byte8, r \in Byte8 :
           d # r /\ crc = UpdateCrc(d, c) /\ crc_calc = UpdateCrc(r, c)
    BY <1>9 DEF CrcInv
  <2>2. crc' # crc_calc' /\ damage' = "over"
    BY <1>1, <1>2, <1>9, <2>1, PartedByTwo
  <2> QED BY <1>5, <1>6, <2>2 DEF CrcInv
<1>10. CASE damage = "over"
  <2>1. crc' # crc_calc' /\ damage' = "over"
    BY <1>1, <1>2, <1>3, <1>10, StaysApart DEF CrcInv
  <2> QED BY <1>5, <1>6, <2>1 DEF CrcInv
<1> QED BY <1>3, <1>7, <1>8, <1>9, <1>10

\* The invariant holds throughout.
LEMMA CrcInvariance == CrcSpec => []CrcInv
<1>1. CrcInit => CrcInv
  BY DEF CrcInit, CrcInv, CrcTypeOK, UpdateCrcIsCcitt, Word16
<1>2. CrcInv /\ [CrcNext]_crc_vars => CrcInv'
  <2> SUFFICES ASSUME CrcInv, [CrcNext]_crc_vars PROVE CrcInv'
    OBVIOUS
  <2>1. ASSUME NEW byte \in Bytes, NEW received \in Bytes, Carried(byte, received)
        PROVE  CrcInv'
    BY <2>1, CrcStepInv
  <2>2. CASE UNCHANGED crc_vars
    BY <2>2 DEF crc_vars, CrcInv, CrcTypeOK, UpdateCrcIsCcitt
  <2> QED BY <2>1, <2>2 DEF CrcNext
<1> QED BY <1>1, <1>2, PTL DEF CrcSpec

\* The registers stay 16 bits wide.
THEOREM CrcTypeCorrect == CrcSpec => []CrcTypeOK
<1>1. CrcInv => CrcTypeOK
  BY DEF CrcInv
<1> QED BY <1>1, CrcInvariance, PTL

\* The checksum of a mail of any length is the one its comment names.
THEOREM CrcIsCcitt == CrcSpec => []UpdateCrcIsCcitt
<1>1. CrcInv => UpdateCrcIsCcitt
  BY DEF CrcInv
<1> QED BY <1>1, CrcInvariance, PTL

\* Damage to one byte or two neighbours never goes unnoticed, whatever the mail
\* and however long.
THEOREM Detection == CrcSpec => []DamageDetected
<1>1. CrcInv => DamageDetected
  <2> SUFFICES ASSUME CrcInv, damage # "none" PROVE crc # crc_calc
    BY DEF DamageDetected
  <2>1. CASE damage = "over"
    BY <2>1 DEF CrcInv
  <2>2. CASE damage = "first"
    <3>1. PICK c \in Word16, d \in Byte8, r \in Byte8 :
             d # r /\ crc = UpdateCrc(d, c) /\ crc_calc = UpdateCrc(r, c)
      BY <2>2 DEF CrcInv
    <3> QED BY <3>1, PartedByTwo
  <2> QED BY <2>1, <2>2 DEF CrcInv, CrcTypeOK
<1> QED BY <1>1, CrcInvariance, PTL
=============================================================================
