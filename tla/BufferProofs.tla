---------------------------- MODULE BufferProofs ----------------------------
(***************************************************************************)
(* What the operators of Buffer do to a good buffer, for every block size  *)
(* and every byte range: lemmas for the proofs about the component         *)
(* RingBuffer and about the framings that use the buffer.                  *)
(*                                                                         *)
(* A buffer is good when its fields lie in their ranges and its cursors    *)
(* agree with the count.  The two only hold together: that the fields lie  *)
(* in their ranges follows from the arithmetic of the operators only where *)
(* the cursors agree with the count, and they agree after a step only if   *)
(* the ranges held before.  One lemma per operator says that it takes good *)
(* buffers to good buffers.                                                *)
(*                                                                         *)
(* What the block holds is said with a tape t, the zeros of the new block  *)
(* and every byte stored: the block holds the last BufSize bytes of the    *)
(* tape, in order and ending before the write cursor (Holds).  A write     *)
(* puts as many new bytes over the oldest ones as it puts on the tape, and *)
(* what it puts them over has been read; reads and rewinds move the other  *)
(* cursor only.  This also where an operation goes around the block's end  *)
(* in two parts.                                                           *)
(***************************************************************************)
EXTENDS Buffer, SequenceTheorems, WellFoundedInduction, TLAPS

Good(b) == b \in Buffers /\ Shape(b)

\* A new buffer is empty and good.
LEMMA NewGood == Good(buffer_new)
  BY BufSizeAssumption, ByteAssumption, SMT DEF Good, buffer_new, Buffers, Shape
-----------------------------------------------------------------------------
\* The fields of a buffer lie in their ranges.
LEMMA Fields ==
  ASSUME NEW b \in Buffers
  PROVE  /\ b.mem \in [0 .. BufSize - 1 -> Byte]
         /\ b.data_start \in 0 .. BufSize
         /\ b.data_end \in 0 .. BufSize
         /\ b.count \in 0 .. BufSize
         /\ b.state \in {"NORMAL", "WRAPPED"}
  BY DEF Buffers

-----------------------------------------------------------------------------
(* Writing.                                                                *)

\* CopyIn stores what fits below the limit and moves only the write cursor and
\* the count.
LEMMA CopyInFields ==
  ASSUME NEW b \in Buffers, NEW input \in Seq(Byte), NEW limit \in 0 .. BufSize,
         NEW n, n = Least(Len(input), limit - b.data_end),
         b.data_end <= limit,
         b.count + n <= BufSize,
         NEW c, c = CopyIn(b, input, limit)
  PROVE  /\ c \in Buffers
         /\ c.data_start = b.data_start /\ c.state = b.state
         /\ c.data_end = b.data_end + n /\ c.count = b.count + n
<1>1. n \in Nat /\ n <= Len(input) /\ b.data_end + n <= limit
  BY Fields, BufSizeAssumption, SMT DEF Least
<1> DEFINE M == [i \in 0 .. BufSize - 1 |->
                   IF b.data_end <= i /\ i < b.data_end + n
                   THEN input[i - b.data_end + 1] ELSE b.mem[i]]
<1>2. M \in [0 .. BufSize - 1 -> Byte]
  <2>1. ASSUME NEW i \in 0 .. BufSize - 1
        PROVE  (IF b.data_end <= i /\ i < b.data_end + n
                THEN input[i - b.data_end + 1] ELSE b.mem[i]) \in Byte
    <3>1. b.mem[i] \in Byte
      BY Fields, Zenon
    <3>2. ASSUME b.data_end <= i, i < b.data_end + n
          PROVE  input[i - b.data_end + 1] \in Byte
      <4>1. i - b.data_end + 1 \in 1 .. Len(input)
        <5> DEFINE e == b.data_end
                   I == Len(input)
        <5>1. e \in 0 .. BufSize /\ BufSize \in Nat /\ n \in Nat /\ I \in Nat /\ n <= I
          BY <1>1, Fields, BufSizeAssumption
        <5>2. e <= i /\ i < e + n
          BY <3>2
        <5> HIDE DEF e, I
        <5>3. i - e + 1 \in 1 .. I
          BY <5>1, <5>2, SMT
        <5> QED
          BY <5>3 DEF e, I
      <4> QED
        BY <4>1, SMT
    <3> QED
      BY <3>1, <3>2
  <2> QED
    BY <2>1, Zenon
<1> DEFINE e == b.data_end + n
           k == b.count + n
<1>3. c = [b EXCEPT !.mem = M, !.data_end = e, !.count = k]
  BY Zenon DEF CopyIn
<1>4. e \in 0 .. BufSize /\ k \in 0 .. BufSize
  BY <1>1, Fields, BufSizeAssumption, SMT
<1> HIDE DEF M, e, k
<1>5. /\ c \in Buffers
      /\ c.data_start = b.data_start /\ c.state = b.state
      /\ c.data_end = e /\ c.count = k
  BY <1>2, <1>3, <1>4 DEF Buffers
<1> QED
  BY <1>5 DEF e, k

\* A write past the end of the data keeps a buffer whose data does not wrap good.
LEMMA WriteNormalGood ==
  ASSUME NEW b, Good(b), b.state = "NORMAL", NEW input \in Seq(Byte),
         NEW c, c = write_normal(b, input)
  PROVE  /\ Good(c)
         /\ c.state = "NORMAL" /\ c.data_start = b.data_start
         /\ b.count <= c.count /\ c.count - b.count <= Len(input)
         /\ c.count - b.count < Len(input) => c.data_end = BufSize
<1> DEFINE n == Least(Len(input), BufSize - b.data_end)
<1>1. b \in Buffers
  BY DEF Good
<1>2. /\ n \in Nat /\ Len(input) \in Nat /\ n <= Len(input)
      /\ b.data_end + n <= BufSize
      /\ n < Len(input) => b.data_end + n = BufSize
  BY <1>1, Fields, BufSizeAssumption, SMT DEF Least
<1>3. b.data_start <= b.data_end /\ b.count = b.data_end - b.data_start
  BY DEF Good, Shape
<1> HIDE DEF n
<1>4. b.data_end <= BufSize /\ b.count + n <= BufSize
  BY <1>1, <1>2, <1>3, Fields, BufSizeAssumption, SMT
<1>5. /\ c \in Buffers
      /\ c.data_start = b.data_start /\ c.state = b.state
      /\ c.data_end = b.data_end + n /\ c.count = b.count + n
  BY <1>1, <1>4, CopyInFields, BufSizeAssumption, SMT DEF write_normal, n
<1>6. Good(c)
  BY <1>1, <1>2, <1>3, <1>5, Fields, SMT DEF Good, Shape
<1>7. b.count \in Nat /\ c.count - b.count = n
  BY <1>1, <1>2, <1>5, Fields, BufSizeAssumption, SMT
<1> QED
  BY <1>2, <1>5, <1>6, <1>7, SMT

\* A write before the unread data keeps a buffer whose data wraps good, and
\* stores less than it was given only when it fills the buffer.
LEMMA WriteWrappedGood ==
  ASSUME NEW b, Good(b), b.state = "WRAPPED", NEW input \in Seq(Byte),
         NEW c, c = write_wrapped(b, input)
  PROVE  /\ Good(c)
         /\ c.count - b.count < Len(input) => c.count = BufSize
<1> DEFINE n == Least(Len(input), b.data_start - b.data_end)
<1>1. b \in Buffers
  BY DEF Good
<1>2. b.data_end <= b.data_start /\ b.count = BufSize - b.data_start + b.data_end
  BY DEF Good, Shape
<1>3. /\ n \in Nat /\ Len(input) \in Nat /\ n <= Len(input)
      /\ b.data_end + n <= b.data_start
      /\ n < Len(input) => b.data_end + n = b.data_start
  BY <1>1, <1>2, Fields, BufSizeAssumption, SMT DEF Least
<1> HIDE DEF n
<1>4. b.count + n <= BufSize
  BY <1>1, <1>2, <1>3, Fields, BufSizeAssumption, SMT
<1>5. /\ c \in Buffers
      /\ c.data_start = b.data_start /\ c.state = b.state
      /\ c.data_end = b.data_end + n /\ c.count = b.count + n
  BY <1>1, <1>2, <1>4, Fields, CopyInFields, SMT DEF write_wrapped, n
<1>6. Good(c)
  BY <1>1, <1>2, <1>3, <1>5, Fields, BufSizeAssumption, SMT DEF Good, Shape
<1>7. c.count - b.count = n /\ (n < Len(input) => c.count = BufSize)
  BY <1>1, <1>2, <1>3, <1>5, Fields, BufSizeAssumption, SMT
<1> QED
  BY <1>6, <1>7

\* buffer_write keeps every good buffer good, whatever the length of the input.
THEOREM WriteGood ==
  ASSUME NEW b, Good(b), NEW input \in Seq(Byte)
  PROVE  Good(buffer_write(b, input))
<1> DEFINE first == IF b.state = "NORMAL" THEN write_normal(b, input)
                                          ELSE write_wrapped(b, input)
           written == first.count - b.count
           rest == SubSeq(input, written + 1, Len(input))
<1>1. b \in Buffers /\ b.state \in {"NORMAL", "WRAPPED"}
  BY Fields DEF Good
<1>2. CASE b.count = BufSize
  BY <1>2 DEF buffer_write
<1>3. CASE b.count # BufSize /\ ~(written < Len(input) /\ first.count < BufSize)
  <2>1. buffer_write(b, input) = first
    BY <1>3 DEF buffer_write
  <2>2. Good(first)
    BY <1>1, WriteNormalGood, WriteWrappedGood, Zenon
  <2> QED
    BY <2>1, <2>2
<1>4. CASE b.count # BufSize /\ written < Len(input) /\ first.count < BufSize
  <2>1. b.state = "NORMAL"
    <3>1. SUFFICES ASSUME b.state = "WRAPPED" PROVE FALSE
      BY <1>1
    <3>2. first = write_wrapped(b, input)
      BY <3>1
    <3> HIDE DEF first
    <3>3. first.count = BufSize
      BY <1>4, <3>1, <3>2, WriteWrappedGood
    <3> QED
      BY <1>4, <3>3, BufSizeAssumption, SMT
  <2>2. first = write_normal(b, input)
    BY <2>1
  <2> DEFINE turn == [first EXCEPT !.state = "WRAPPED", !.data_end = 0]
  <2>3. buffer_write(b, input) = write_wrapped(turn, rest)
    BY <1>4, <2>1 DEF buffer_write
  <2> HIDE DEF first
  <2>4. /\ Good(first) /\ first.state = "NORMAL"
        /\ b.count <= first.count
        /\ first.data_end = BufSize
    BY <1>4, <2>1, <2>2, WriteNormalGood
  <2>5. first \in Buffers /\ first.count = BufSize - first.data_start
    BY <2>4 DEF Good, Shape
  <2>6. /\ turn \in Buffers
        /\ turn.state = "WRAPPED" /\ turn.data_end = 0
        /\ turn.data_start = first.data_start /\ turn.count = first.count
    <3> DEFINE zero == 0
               wrapped == "WRAPPED"
    <3>1. zero \in 0 .. BufSize /\ wrapped \in {"NORMAL", "WRAPPED"}
      BY BufSizeAssumption, SMT
    <3>2. turn = [first EXCEPT !.state = wrapped, !.data_end = zero]
      OBVIOUS
    <3> HIDE DEF zero, wrapped, turn
    <3>3. /\ turn \in Buffers
          /\ turn.state = wrapped /\ turn.data_end = zero
          /\ turn.data_start = first.data_start /\ turn.count = first.count
      BY <2>5, <3>1, <3>2 DEF Buffers
    <3> QED
      BY <3>3 DEF zero, wrapped
  <2> HIDE DEF turn
  <2>7. Good(turn)
    BY <2>5, <2>6, Fields, BufSizeAssumption, SMT DEF Good, Shape
  <2>8. rest \in Seq(Byte)
    <3>1. written \in Nat
      BY <1>1, <2>4, <2>5, Fields, SMT
    <3> HIDE DEF written
    <3> QED
      BY <3>1, SMT
  <2> QED
    BY <2>3, <2>6, <2>7, <2>8, WriteWrappedGood
<1> QED
  BY <1>2, <1>3, <1>4
-----------------------------------------------------------------------------
(* Reading and rewinding.                                                  *)

\* A read of data that does not wrap yields less than asked only when it empties
\* the buffer.
LEMMA ReadNormalGood ==
  ASSUME NEW b, Good(b), b.state = "NORMAL", NEW n \in Nat,
         NEW c, c = read_normal(b, n).buf
  PROVE  /\ Good(c)
         /\ b.count - c.count < n => c.count = 0
<1> DEFINE m == Least(n, b.count)
           s == b.data_start + m
           k == b.count - m
<1>1. b \in Buffers /\ b.data_start <= b.data_end
      /\ b.count = b.data_end - b.data_start
  BY DEF Good, Shape
<1>2. m \in Nat /\ m <= b.count /\ (m < n => m = b.count)
  BY <1>1, Fields, SMT DEF Least
<1>3. c = [b EXCEPT !.data_start = s, !.count = k]
  BY DEF read_normal, CopyOut
<1> HIDE DEF m
<1>4. s \in 0 .. BufSize /\ k \in 0 .. BufSize
  BY <1>1, <1>2, Fields, BufSizeAssumption, SMT
<1> HIDE DEF s, k
<1>5. /\ c \in Buffers
      /\ c.data_end = b.data_end /\ c.state = b.state
      /\ c.data_start = s /\ c.count = k
  BY <1>1, <1>3, <1>4 DEF Buffers
<1>6. Good(c)
  BY <1>1, <1>2, <1>5, Fields, BufSizeAssumption, SMT DEF Good, Shape, s, k
<1>7. b.count - c.count = m /\ (m < n => c.count = 0)
  BY <1>1, <1>2, <1>5, Fields, SMT DEF k
<1> QED
  BY <1>6, <1>7

\* A read of data that wraps yields less than asked only when it reaches the end
\* of the block.
LEMMA ReadWrappedGood ==
  ASSUME NEW b, Good(b), b.state = "WRAPPED", NEW n \in Nat,
         NEW c, c = read_wrapped(b, n).buf
  PROVE  /\ Good(c) /\ c.state = "WRAPPED"
         /\ b.count - c.count \in 0 .. n
         /\ b.count - c.count < n => c.data_start = BufSize
<1> DEFINE m == Least(n, BufSize - b.data_start)
           s == b.data_start + m
           k == b.count - m
<1>1. b \in Buffers /\ b.data_end <= b.data_start
      /\ b.count = BufSize - b.data_start + b.data_end
  BY DEF Good, Shape
<1>2. /\ m \in Nat /\ m <= n /\ b.data_start + m <= BufSize
      /\ m < n => b.data_start + m = BufSize
  BY <1>1, Fields, BufSizeAssumption, SMT DEF Least
<1>3. c = [b EXCEPT !.data_start = s, !.count = k]
  BY DEF read_wrapped, CopyOut
<1> HIDE DEF m
<1>4. s \in 0 .. BufSize /\ k \in 0 .. BufSize
  BY <1>1, <1>2, Fields, BufSizeAssumption, SMT
<1> HIDE DEF s, k
<1>5. /\ c \in Buffers
      /\ c.data_end = b.data_end /\ c.state = b.state
      /\ c.data_start = s /\ c.count = k
  BY <1>1, <1>3, <1>4 DEF Buffers
<1>6. Good(c)
  BY <1>1, <1>2, <1>5, Fields, BufSizeAssumption, SMT DEF Good, Shape, s, k
<1>7. b.count - c.count = m
  BY <1>1, <1>2, <1>5, Fields, SMT DEF k
<1> QED
  BY <1>2, <1>5, <1>6, <1>7, SMT DEF s

\* Stepping back within the data's gap, on either side.
LEMMA StepBackGood ==
  ASSUME NEW b, Good(b), NEW m \in Nat,
         m <= IF b.state = "NORMAL" THEN b.data_start ELSE b.data_start - b.data_end,
         NEW c, c = StepBack(b, m)
  PROVE  /\ Good(c) /\ c.state = b.state
         /\ c.mem = b.mem /\ c.data_end = b.data_end
         /\ c.data_start = b.data_start - m /\ c.count = b.count + m
<1> DEFINE s == b.data_start - m
           k == b.count + m
<1>1. b \in Buffers
  BY DEF Good
<1>2. c = [b EXCEPT !.data_start = s, !.count = k]
  BY DEF StepBack
<1>a. /\ b.data_start \in 0 .. BufSize /\ b.data_end \in 0 .. BufSize
      /\ b.count \in 0 .. BufSize /\ BufSize \in Nat
  BY <1>1, Fields, BufSizeAssumption
<1>b. \/ /\ b.state = "NORMAL" /\ b.data_start <= b.data_end
         /\ b.count = b.data_end - b.data_start /\ m <= b.data_start
      \/ /\ b.state = "WRAPPED" /\ b.data_end <= b.data_start
         /\ b.count = BufSize - b.data_start + b.data_end
         /\ m <= b.data_start - b.data_end
  BY DEF Good, Shape
<1>3. s \in 0 .. BufSize /\ k \in 0 .. BufSize
  BY <1>a, <1>b, SMT
<1> HIDE DEF s, k
<1>4. /\ c \in Buffers
      /\ c.mem = b.mem /\ c.data_end = b.data_end /\ c.state = b.state
      /\ c.data_start = s /\ c.count = k
  BY <1>1, <1>2, <1>3 DEF Buffers
<1>5. Shape(c)
  <2>1. /\ c.data_end = b.data_end /\ c.state = b.state
        /\ c.data_start = s /\ c.count = k
    BY <1>4
  <2> QED
    BY <1>a, <1>b, <2>1, SMT DEF Shape, s, k
<1> QED
  BY <1>4, <1>5 DEF Good, s, k

\* buffer_read keeps every good buffer good, whatever the length asked for.
THEOREM ReadGood ==
  ASSUME NEW b, Good(b), NEW n \in Nat
  PROVE  Good(buffer_read(b, n).buf)
<1> DEFINE first == IF b.state = "NORMAL" THEN read_normal(b, n)
                                          ELSE read_wrapped(b, n)
           read == b.count - first.buf.count
           zero == 0
           turn == [first.buf EXCEPT !.data_start = zero]
           next == IF b.state = "NORMAL"
                   THEN read_wrapped([turn EXCEPT !.state = "WRAPPED"], n - read)
                   ELSE read_normal([turn EXCEPT !.state = "NORMAL"], n - read)
<1>1. b \in Buffers /\ b.state \in {"NORMAL", "WRAPPED"}
  BY Fields DEF Good
<1>2. buffer_read(b, n) = IF read < n /\ first.buf.count > 0
                          THEN [buf |-> next.buf, data |-> first.data \o next.data]
                          ELSE first
  BY Zenon DEF buffer_read
<1>3. CASE ~(read < n /\ first.buf.count > 0)
  <2>1. Good(first.buf)
    BY <1>1, ReadNormalGood, ReadWrappedGood, Zenon
  <2> HIDE DEF first, next
  <2> QED
    BY <1>2, <1>3, <2>1
<1>4. CASE read < n /\ first.buf.count > 0
  <2>1. b.state = "WRAPPED"
    <3>1. SUFFICES ASSUME b.state = "NORMAL" PROVE FALSE
      BY <1>1
    <3>2. first = read_normal(b, n)
      BY <3>1
    <3> HIDE DEF first
    <3>3. first.buf.count = 0
      BY <1>4, <3>1, <3>2, ReadNormalGood
    <3> QED
      BY <1>4, <3>3, SMT
  <2> DEFINE normal == "NORMAL"
             turned == [turn EXCEPT !.state = normal]
  <2>2. first = read_wrapped(b, n)
    BY <2>1
  <2>3. next = read_normal(turned, n - read)
    BY <2>1
  <2> HIDE DEF first, next
  <2>4. /\ Good(first.buf) /\ first.buf.state = "WRAPPED"
        /\ read \in 0 .. n
        /\ first.buf.data_start = BufSize
    BY <1>4, <2>1, <2>2, ReadWrappedGood
  <2>5. /\ first.buf \in Buffers
        /\ first.buf.count = BufSize - first.buf.data_start + first.buf.data_end
    BY <2>4 DEF Good, Shape
  <2>6. /\ turned \in Buffers
        /\ turned.state = normal /\ turned.data_start = zero
        /\ turned.data_end = first.buf.data_end
        /\ turned.count = first.buf.count
    <3>1. zero \in 0 .. BufSize /\ normal \in {"NORMAL", "WRAPPED"}
      BY BufSizeAssumption, SMT
    <3> HIDE DEF zero, normal
    <3> QED
      BY <2>5, <3>1 DEF Buffers
  <2> HIDE DEF turned
  <2>7. Good(turned)
    BY <2>4, <2>5, <2>6, Fields, BufSizeAssumption, SMT DEF Good, Shape
  <2>8. n - read \in Nat
    BY <2>4, SMT
  <2>9. Good(next.buf)
    BY <2>3, <2>6, <2>7, <2>8, ReadNormalGood
  <2> QED
    BY <1>2, <1>4, <2>9
<1> QED
  BY <1>3, <1>4

\* The unread data has grown at its front, and the block is as it was.
Rewound(c, b, n) ==
    /\ Good(c) /\ c.count = b.count + n
    /\ c.mem = b.mem /\ c.data_end = b.data_end

\* buffer_rewind keeps every good buffer good, as long as the callers put back no
\* more than fits beside the unread data, and then puts back all of it.
THEOREM RewindGood ==
  ASSUME NEW b, Good(b), NEW n \in Nat, n <= BufSize - b.count
  PROVE  Rewound(buffer_rewind(b, n), b, n)
<1> DEFINE first == IF b.state = "NORMAL" THEN rewind_normal(b, n)
                                          ELSE rewind_wrapped(b, n)
           left == n - (first.count - b.count)
           turn == [first EXCEPT !.data_start = BufSize]
           wrapped == "WRAPPED"
           turned == [turn EXCEPT !.state = wrapped]
<1>1. b \in Buffers /\ b.state \in {"NORMAL", "WRAPPED"}
  BY Fields DEF Good
<1>2. CASE b.state = "WRAPPED"
  <2>1. b.data_start - b.data_end = BufSize - b.count
    BY <1>1, <1>2, Fields, BufSizeAssumption, SMT DEF Good, Shape
  <2>2. Least(n, b.data_start - b.data_end) = n
    BY <2>1, SMT DEF Least
  <2>3. first = StepBack(b, n)
    BY <1>2, <2>2 DEF rewind_wrapped
  <2> HIDE DEF first
  <2>4. Rewound(first, b, n)
    BY <1>2, <2>1, <2>3, StepBackGood DEF Rewound
  <2>5. ~(first.count - b.count < n)
    BY <1>1, <2>4, Fields, SMT DEF Rewound
  <2>6. buffer_rewind(b, n) = first
    BY <2>5 DEF buffer_rewind, first
  <2> QED
    BY <2>4, <2>6
<1>3. CASE b.state = "NORMAL"
  <2> DEFINE m == Least(n, b.data_start)
  <2>1. m \in Nat /\ m <= n /\ m <= b.data_start /\ (m < n => m = b.data_start)
    BY <1>1, Fields, SMT DEF Least
  <2>2. first = StepBack(b, m)
    BY <1>3 DEF rewind_normal
  <2> HIDE DEF first, m
  <2>3. /\ Good(first) /\ first.state = "NORMAL"
        /\ first.mem = b.mem /\ first.data_end = b.data_end
        /\ first.data_start = b.data_start - m
        /\ first.count = b.count + m
    BY <1>3, <2>1, <2>2, StepBackGood
  <2>4. first.count - b.count = m /\ left = n - m
    BY <1>1, <2>1, <2>3, Fields, SMT
  <2>5. buffer_rewind(b, n) = IF ~(first.count - b.count < n) THEN first
                              ELSE rewind_wrapped(turned, left)
    BY <1>3 DEF buffer_rewind, first
  <2>6. CASE m = n
    <3>1. ~(first.count - b.count < n)
      BY <2>1, <2>4, <2>6, SMT
    <3> QED
      BY <2>3, <2>5, <2>6, <3>1 DEF Rewound
  <2>7. CASE m < n
    <3>1. first \in Buffers /\ first.data_start = 0 /\ first.count = first.data_end
      BY <1>1, <2>1, <2>3, <2>7, Fields, SMT DEF Good, Shape
    <3>2. /\ turned \in Buffers
          /\ turned.state = wrapped /\ turned.data_start = BufSize
          /\ turned.data_end = first.data_end /\ turned.count = first.count
          /\ turned.mem = first.mem
      <4>1. BufSize \in 0 .. BufSize /\ wrapped \in {"NORMAL", "WRAPPED"}
        BY BufSizeAssumption, SMT
      <4> HIDE DEF wrapped
      <4> QED
        BY <3>1, <4>1 DEF Buffers
    <3> HIDE DEF turned, left
    <3>3. Good(turned)
      BY <3>1, <3>2, Fields, BufSizeAssumption, SMT DEF Good, Shape
    <3> DEFINE r == Least(left, turned.data_start - turned.data_end)
    <3>4. /\ r \in Nat /\ r <= turned.data_start - turned.data_end
          /\ m + r = n /\ (b.count + m) + r = b.count + n
      <4> DEFINE D == turned.data_end
                 C == b.count
      <4>1. /\ turned.data_start = BufSize /\ left = n - m /\ m \in Nat /\ m < n
            /\ D \in 0 .. BufSize /\ C \in 0 .. BufSize /\ D = C + m
        BY <1>1, <2>1, <2>3, <2>4, <2>7, <3>1, <3>2, Fields
      <4> HIDE DEF C, D
      <4>2. n <= BufSize - C
        BY DEF C
      <4> QED
        BY <4>1, <4>2, BufSizeAssumption, SMT DEF Least, C, D
    <3>5. rewind_wrapped(turned, left) = StepBack(turned, r)
      BY DEF rewind_wrapped
    <3> HIDE DEF r
    <3>6. Rewound(StepBack(turned, r), b, n)
      BY <2>3, <3>2, <3>3, <3>4, StepBackGood DEF Rewound
    <3>7. first.count - b.count < n
      BY <2>4, <2>7
    <3> QED
      BY <2>5, <3>5, <3>6, <3>7
  <2> QED
    BY <2>1, <2>6, <2>7, SMT
<1> QED
  BY <1>1, <1>2, <1>3
-----------------------------------------------------------------------------
(* What the block holds.                                                   *)

\* The block holds the bytes stored last, in order and ending before the write
\* cursor: those before the cursor, and from there to the block's end the older ones.
Holds(b, t) ==
    /\ t \in Seq(Byte) /\ Len(t) >= BufSize
    /\ \A i \in 0 .. BufSize - 1 :
          /\ i < b.data_end => b.mem[i] = t[Len(t) - b.data_end + i + 1]
          /\ b.data_end <= i => b.mem[i] = t[Len(t) - b.data_end + i + 1 - BufSize]

\* A new block holds zeros.
LEMMA ZerosHeld == Holds(buffer_new, [i \in 1 .. BufSize |-> 0])
<1> DEFINE zeros == [i \in 1 .. BufSize |-> 0]
<1>1. zeros \in Seq(Byte) /\ Len(zeros) = BufSize /\ BufSize \in Nat
  <2>1. zeros \in [1 .. BufSize -> Byte]
    BY ByteAssumption
  <2> HIDE DEF zeros
  <2> QED
    BY <2>1, BufSizeAssumption, SMT
<1>2. ASSUME NEW i \in 0 .. BufSize - 1
      PROVE  ~(i < 0) /\ buffer_new.mem[i] = zeros[Len(zeros) - 0 + i + 1 - BufSize]
  <2>1. buffer_new.mem[i] = 0
    BY DEF buffer_new
  <2> DEFINE k == Len(zeros) - 0 + i + 1 - BufSize
  <2>2. k \in 1 .. BufSize /\ ~(i < 0)
    <3> HIDE DEF zeros
    <3> QED
      BY <1>1, SMT
  <2> HIDE DEF k
  <2>3. zeros[k] = 0
    BY <2>2
  <2> QED
    BY <2>1, <2>2, <2>3 DEF k
<1>3. buffer_new.data_end = 0
  BY DEF buffer_new
<1> HIDE DEF zeros
<1>4. Len(zeros) >= BufSize
  BY <1>1, SMT
<1>5. Holds(buffer_new, zeros)
  BY <1>1, <1>2, <1>3, <1>4 DEF Holds
<1> QED
  BY <1>5 DEF zeros

\* The sequence u is t with the first n elements of input behind it.
Appended(u, t, input, n) ==
    /\ u \in Seq(Byte) /\ Len(u) = Len(t) + n
    /\ \A i \in 1 .. Len(t) : u[i] = t[i]
    /\ \A i \in 1 .. n : u[Len(t) + i] = input[i]

\* That is what the concatenation with a prefix of input is.
LEMMA Extended ==
  ASSUME NEW t \in Seq(Byte), NEW input \in Seq(Byte), NEW n \in Nat, n <= Len(input)
  PROVE  Appended(t \o SubSeq(input, 1, n), t, input, n)
<1> DEFINE s == SubSeq(input, 1, n)
           u == t \o s
<1>1. /\ s \in Seq(Byte) /\ Len(s) = n
      /\ \A i \in 1 .. n : s[i] = input[i]
  BY SMT
<1> HIDE DEF s
<1>2. /\ u \in Seq(Byte) /\ Len(u) = Len(t) + n
      /\ \A i \in 1 .. Len(t) : u[i] = t[i]
      /\ \A i \in 1 .. n : u[Len(t) + i] = s[i]
  <2>1. /\ u \in Seq(Byte) /\ Len(u) = Len(t) + Len(s)
        /\ \A i \in 1 .. Len(t) + Len(s) :
              u[i] = IF i <= Len(t) THEN t[i] ELSE s[i - Len(t)]
    BY <1>1, ConcatProperties
  <2> DEFINE L == Len(t)
  <2>2. L \in Nat
    OBVIOUS
  <2> HIDE DEF u, L
  <2>3. /\ u \in Seq(Byte) /\ Len(u) = L + n
        /\ \A i \in 1 .. L + n : u[i] = IF i <= L THEN t[i] ELSE s[i - L]
    BY <1>1, <2>1 DEF L
  <2>4. ASSUME NEW i \in 1 .. L PROVE u[i] = t[i]
    <3>1. i \in 1 .. L + n /\ i <= L
      BY <2>2, SMT
    <3> QED
      BY <2>3, <3>1
  <2>5. ASSUME NEW i \in 1 .. n PROVE u[L + i] = s[i]
    <3> DEFINE j == L + i
    <3>1. j \in 1 .. L + n /\ ~(j <= L) /\ j - L = i
      BY <2>2, SMT
    <3> HIDE DEF j
    <3>2. u[j] = s[j - L]
      BY <2>3, <3>1
    <3> QED
      BY <3>1, <3>2 DEF j
  <2> QED
    BY <2>3, <2>4, <2>5, Zenon DEF L
<1> HIDE DEF u
<1>3. Appended(u, t, input, n)
  BY <1>1, <1>2 DEF Appended
<1> QED
  BY <1>3 DEF u, s

\* What CopyIn stores is appended to what the block holds.
LEMMA CopyInHolds ==
  ASSUME NEW b \in Buffers, NEW input \in Seq(Byte), NEW limit \in 0 .. BufSize,
         NEW n, n = Least(Len(input), limit - b.data_end),
         b.data_end <= limit,
         b.count + n <= BufSize,
         NEW c, c = CopyIn(b, input, limit),
         NEW t, Holds(b, t)
  PROVE  Holds(c, t \o SubSeq(input, 1, n))
<1> DEFINE u == t \o SubSeq(input, 1, n)
           d == b.data_end
           L == Len(t)
           M == [i \in 0 .. BufSize - 1 |->
                   IF b.data_end <= i /\ i < b.data_end + n
                   THEN input[i - b.data_end + 1] ELSE b.mem[i]]
<1>1. n \in Nat /\ n <= Len(input) /\ d + n <= limit /\ d \in 0 .. BufSize
  BY Fields, BufSizeAssumption, SMT DEF Least
<1>2. t \in Seq(Byte) /\ L \in Nat /\ L >= BufSize
  BY SMT DEF Holds
<1>3. /\ u \in Seq(Byte) /\ Len(u) = L + n
      /\ \A i \in 1 .. L : u[i] = t[i]
      /\ \A i \in 1 .. n : u[L + i] = input[i]
  BY <1>1, <1>2, Extended DEF Appended
<1>4. c.data_end = d + n /\ c.mem = M
  <2>1. c.data_end = d + n
    BY CopyInFields
  <2>2. b.mem \in [0 .. BufSize - 1 -> Byte] /\ b \in Buffers
    BY Fields
  <2> DEFINE e == b.data_end + n
             k == b.count + n
  <2>3. c = [b EXCEPT !.mem = M, !.data_end = e, !.count = k]
    BY Zenon DEF CopyIn
  <2> HIDE DEF M, e, k, d
  <2>4. c.mem = M
    BY <2>2, <2>3 DEF Buffers
  <2> QED
    BY <2>1, <2>4
<1>5. \A i \in 0 .. BufSize - 1 :
         /\ i < d => b.mem[i] = t[L - d + i + 1]
         /\ d <= i => b.mem[i] = t[L - d + i + 1 - BufSize]
  BY DEF Holds
<1>6. \A i \in 0 .. BufSize - 1 :
         M[i] = IF d <= i /\ i < d + n THEN input[i - d + 1] ELSE b.mem[i]
  BY Zenon
<1> HIDE DEF u, d, L, M
<1>7. ASSUME NEW i \in 0 .. BufSize - 1
      PROVE  /\ i < d + n => M[i] = u[(L + n) - (d + n) + i + 1]
             /\ d + n <= i => M[i] = u[(L + n) - (d + n) + i + 1 - BufSize]
  <2>1. (L + n) - (d + n) + i + 1 = L - d + i + 1
    BY <1>1, <1>2, BufSizeAssumption, SMTT(30)
  <2>2. CASE i < d
    <3>1. L - d + i + 1 \in 1 .. L /\ i < d + n /\ ~(d + n <= i) /\ ~(d <= i)
      BY <1>1, <1>2, <2>2, BufSizeAssumption, SMT
    <3> QED
      BY <1>3, <1>5, <1>6, <2>1, <2>2, <3>1
  <2>3. CASE d <= i /\ i < d + n
    <3>1. /\ i - d + 1 \in 1 .. n /\ L + (i - d + 1) = L - d + i + 1
          /\ ~(d + n <= i)
      BY <1>1, <1>2, <2>3, BufSizeAssumption, SMT
    <3>2. u[L + (i - d + 1)] = input[i - d + 1]
      BY <1>3, <3>1
    <3> QED
      BY <1>6, <2>1, <2>3, <3>1, <3>2
  <2>4. CASE d + n <= i
    <3> DEFINE k == L - d + i + 1 - BufSize
    <3>1. /\ k \in 1 .. L /\ d <= i /\ ~(i < d + n)
          /\ (L + n) - (d + n) + i + 1 - BufSize = k
      <4>1. /\ L \in Nat /\ L >= BufSize /\ BufSize \in Nat /\ n \in Nat
            /\ d \in 0 .. BufSize /\ d + n <= i /\ i \in 0 .. BufSize - 1
        BY <1>1, <1>2, <2>4, BufSizeAssumption
      <4>2. d <= i /\ ~(i < d + n)
        BY <4>1, SMT
      <4>3. (L + n) - (d + n) + i + 1 - BufSize = k
        BY <4>1, SMT
      <4>4. 1 <= k /\ k <= L /\ k \in Int
        BY <4>1, <4>2, SMT
      <4> QED
        BY <4>1, <4>2, <4>3, <4>4
    <3>2. b.mem[i] = t[k] /\ M[i] = b.mem[i]
      BY <1>5, <1>6, <3>1
    <3> HIDE DEF k
    <3>3. u[k] = t[k]
      BY <1>3, <3>1
    <3> QED
      BY <3>1, <3>2, <3>3
  <2>5. i < d \/ (d <= i /\ i < d + n) \/ d + n <= i
    BY <1>1, BufSizeAssumption, SMT
  <2> QED
    BY <2>2, <2>3, <2>4, <2>5
<1>8. Len(u) >= BufSize
  BY <1>1, <1>2, <1>3, BufSizeAssumption, SMT
<1>9. Holds(c, u)
  BY <1>3, <1>4, <1>7, <1>8 DEF Holds
<1> QED
  BY <1>9 DEF u

\* Going on at the block's beginning instead of its end changes nothing of it.
LEMMA TurnHolds ==
  ASSUME NEW b \in Buffers, NEW c, NEW t, Holds(b, t),
         b.data_end = BufSize, c.data_end = 0, c.mem = b.mem
  PROVE  Holds(c, t)
<1> DEFINE L == Len(t)
<1>1. t \in Seq(Byte) /\ L \in Nat /\ L >= BufSize
  BY SMT DEF Holds
<1>2. \A i \in 0 .. BufSize - 1 : i < BufSize => b.mem[i] = t[L - BufSize + i + 1]
  BY DEF Holds
<1> HIDE DEF L
<1>3. ASSUME NEW i \in 0 .. BufSize - 1
      PROVE  ~(i < 0) /\ c.mem[i] = t[L - 0 + i + 1 - BufSize]
  <2>1. i < BufSize /\ L - BufSize + i + 1 = L - 0 + i + 1 - BufSize /\ ~(i < 0)
    BY <1>1, BufSizeAssumption, SMT
  <2> QED
    BY <1>2, <2>1
<1> QED
  BY <1>1, <1>3 DEF Holds, L

\* A write past the end of the data appends what it stores.
LEMMA WriteNormalHolds ==
  ASSUME NEW b, Good(b), b.state = "NORMAL", NEW input \in Seq(Byte),
         NEW c, c = write_normal(b, input), NEW t, Holds(b, t)
  PROVE  \E n \in Nat : /\ n <= Len(input) /\ c.count = b.count + n
                        /\ Holds(c, t \o SubSeq(input, 1, n))
<1> DEFINE n == Least(Len(input), BufSize - b.data_end)
<1>1. b \in Buffers
  BY DEF Good
<1>2. /\ n \in Nat /\ n <= Len(input) /\ b.data_end + n <= BufSize
  BY <1>1, Fields, BufSizeAssumption, SMT DEF Least
<1>3. b.data_start <= b.data_end /\ b.count = b.data_end - b.data_start
  BY DEF Good, Shape
<1> HIDE DEF n
<1>4. /\ b.data_end <= BufSize /\ b.count + n <= BufSize
      /\ BufSize \in 0 .. BufSize
  BY <1>1, <1>2, <1>3, Fields, BufSizeAssumption, SMT
<1>5. c.count = b.count + n
  BY <1>1, <1>4, CopyInFields DEF write_normal, n
<1>6. Holds(c, t \o SubSeq(input, 1, n))
  BY <1>1, <1>4, CopyInHolds DEF write_normal, n
<1> QED
  BY <1>2, <1>5, <1>6

\* A write before the unread data appends what it stores.
LEMMA WriteWrappedHolds ==
  ASSUME NEW b, Good(b), b.state = "WRAPPED", NEW input \in Seq(Byte),
         NEW c, c = write_wrapped(b, input), NEW t, Holds(b, t)
  PROVE  \E n \in Nat : /\ n <= Len(input) /\ c.count = b.count + n
                        /\ Holds(c, t \o SubSeq(input, 1, n))
<1> DEFINE n == Least(Len(input), b.data_start - b.data_end)
<1>1. b \in Buffers
  BY DEF Good
<1>2. b.data_end <= b.data_start /\ b.count = BufSize - b.data_start + b.data_end
  BY DEF Good, Shape
<1>3. /\ n \in Nat /\ n <= Len(input) /\ b.data_end + n <= b.data_start
  BY <1>1, <1>2, Fields, BufSizeAssumption, SMT DEF Least
<1> HIDE DEF n
<1>4. b.count + n <= BufSize /\ b.data_start \in 0 .. BufSize
  BY <1>1, <1>2, <1>3, Fields, BufSizeAssumption, SMT
<1>5. c.count = b.count + n
  BY <1>1, <1>2, <1>4, CopyInFields DEF write_wrapped, n
<1>6. Holds(c, t \o SubSeq(input, 1, n))
  BY <1>1, <1>2, <1>4, CopyInHolds DEF write_wrapped, n
<1> QED
  BY <1>3, <1>5, <1>6

\* The rest of input after m elements; its first n appended behind those m make the
\* first m + n appended at once.
Splits(t, input, rest, m, n) ==
    /\ rest \in Seq(Byte) /\ Len(rest) = Len(input) - m
    /\ (t \o SubSeq(input, 1, m)) \o SubSeq(rest, 1, n) = t \o SubSeq(input, 1, m + n)

\* Two pieces of an input appended one after the other.
LEMMA Joined ==
  ASSUME NEW t \in Seq(Byte), NEW input \in Seq(Byte),
         NEW m \in Nat, NEW n \in Nat, m + n <= Len(input),
         NEW rest, rest = SubSeq(input, m + 1, Len(input))
  PROVE  Splits(t, input, rest, m, n)
<1> DEFINE u == t \o SubSeq(input, 1, m)
           v == u \o SubSeq(rest, 1, n)
           w == t \o SubSeq(input, 1, m + n)
<1>1. /\ rest \in Seq(Byte) /\ Len(rest) = Len(input) - m
      /\ \A i \in 1 .. Len(input) - m : rest[i] = input[m + i]
  BY SMT
<1>2. m \in Nat /\ m <= Len(input) /\ n <= Len(rest) /\ m + n \in Nat
  BY <1>1, SMT
<1>3. Appended(u, t, input, m)
  BY <1>2, Extended, Zenon
<1>4. Appended(w, t, input, m + n)
  BY <1>2, Extended, Zenon
<1> HIDE DEF u
<1>5. Appended(v, u, rest, n)
  <2>1. u \in Seq(Byte)
    BY <1>3 DEF Appended
  <2> QED
    BY <1>1, <1>2, <2>1, Extended, Zenon
<1>a. /\ u \in Seq(Byte) /\ Len(u) = Len(t) + m
      /\ \A i \in 1 .. Len(t) : u[i] = t[i]
      /\ \A i \in 1 .. m : u[Len(t) + i] = input[i]
  BY <1>3, Zenon DEF Appended
<1>b. /\ w \in Seq(Byte) /\ Len(w) = Len(t) + (m + n)
      /\ \A i \in 1 .. Len(t) : w[i] = t[i]
      /\ \A i \in 1 .. m + n : w[Len(t) + i] = input[i]
  BY <1>4, Zenon DEF Appended
<1>c. /\ v \in Seq(Byte) /\ Len(v) = Len(u) + n
      /\ \A i \in 1 .. Len(u) : v[i] = u[i]
      /\ \A i \in 1 .. n : v[Len(u) + i] = rest[i]
  BY <1>5, Zenon DEF Appended
<1> HIDE DEF v, w
<1> DEFINE L == Len(t)
<1>6. L \in Nat
  OBVIOUS
<1>7. /\ Len(u) = L + m /\ Len(w) = L + (m + n) /\ Len(v) = Len(w)
  BY <1>a, <1>b, <1>c, <1>6, SMT
<1> HIDE DEF L
<1>8. ASSUME NEW i \in 1 .. Len(v) PROVE v[i] = w[i]
  <2>0. i \in 1 .. L + (m + n)
    BY <1>7
  <2>1. CASE i \in 1 .. L
    <3>1. i \in 1 .. Len(u)
      BY <1>6, <1>7, <2>1, SMT
    <3> QED
      BY <1>a, <1>b, <1>c, <2>1, <3>1 DEF L
  <2>2. CASE i \in L + 1 .. L + m
    <3> DEFINE k == i - L
    <3>1. k \in 1 .. m /\ k \in 1 .. m + n /\ i = L + k /\ i \in 1 .. Len(u)
      BY <1>6, <1>7, <2>2, SMT
    <3> HIDE DEF k
    <3>2. u[L + k] = input[k] /\ w[L + k] = input[k]
      BY <1>a, <1>b, <3>1 DEF L
    <3>3. v[i] = u[i]
      BY <1>c, <3>1
    <3> QED
      BY <3>1, <3>2, <3>3
  <2>3. CASE i \in L + m + 1 .. L + (m + n)
    <3> DEFINE k == i - (L + m)
    <3>1. /\ k \in 1 .. n /\ i = (L + m) + k /\ i = L + (m + k)
          /\ m + k \in 1 .. m + n /\ k \in 1 .. Len(input) - m
      BY <1>6, <1>7, <2>3, SMT
    <3> HIDE DEF k
    <3>2. v[(L + m) + k] = rest[k]
      BY <1>c, <1>7, <3>1
    <3>3. w[L + (m + k)] = input[m + k]
      BY <1>b, <3>1 DEF L
    <3> QED
      BY <1>1, <3>1, <3>2, <3>3
  <2> QED
    BY <1>6, <2>0, <2>1, <2>2, <2>3, SMT
<1>9. v = w
  BY <1>b, <1>c, <1>7, <1>8, SeqEqual
<1> QED
  BY <1>1, <1>9, Zenon DEF Splits, u, v, w

\* buffer_write appends to what the block holds as much of the input as fits beside
\* the unread bytes, around the block's end where it has to.
THEOREM WriteHolds ==
  ASSUME NEW b, Good(b), NEW input \in Seq(Byte), NEW t, Holds(b, t),
         NEW c, c = buffer_write(b, input)
  PROVE  /\ Holds(c, t \o SubSeq(input, 1, c.count - b.count))
         /\ c.count - b.count = Least(Len(input), BufSize - b.count)
<1> DEFINE first == IF b.state = "NORMAL" THEN write_normal(b, input)
                                          ELSE write_wrapped(b, input)
           written == first.count - b.count
           rest == SubSeq(input, written + 1, Len(input))
<1>1. b \in Buffers /\ b.state \in {"NORMAL", "WRAPPED"}
  BY Fields DEF Good
<1>2. b.count \in 0 .. BufSize /\ Len(input) \in Nat /\ BufSize \in Nat
  BY <1>1, Fields, BufSizeAssumption
<1>3. /\ b.state = "NORMAL" => first = write_normal(b, input)
      /\ b.state = "WRAPPED" => first = write_wrapped(b, input)
  OBVIOUS
<1>4. c = IF b.count = BufSize THEN b
          ELSE IF ~(written < Len(input) /\ first.count < BufSize) THEN first
          ELSE IF b.state = "NORMAL"
               THEN write_wrapped([first EXCEPT !.state = "WRAPPED", !.data_end = 0], rest)
               ELSE write_normal([first EXCEPT !.state = "NORMAL", !.data_end = 0], rest)
  BY Zenon DEF buffer_write
<1> HIDE DEF first
<1>5. PICK n \in Nat : /\ n <= Len(input) /\ first.count = b.count + n
                       /\ Holds(first, t \o SubSeq(input, 1, n))
  BY <1>1, <1>3, WriteNormalHolds, WriteWrappedHolds
<1>6. /\ Good(first) /\ first \in Buffers
      /\ b.state = "WRAPPED" => (first.count - b.count < Len(input) => first.count = BufSize)
      /\ b.state = "NORMAL" =>
            /\ first.state = "NORMAL" /\ first.data_start = b.data_start
            /\ first.count - b.count < Len(input) => first.data_end = BufSize
  BY <1>1, <1>3, WriteNormalGood, WriteWrappedGood DEF Good
<1>7. written = n /\ first.count \in 0 .. BufSize
  <2>1. first.count \in 0 .. BufSize
    BY <1>6, Fields
  <2> QED
    BY <1>2, <1>5, <2>1, SMT
<1>8. CASE b.count = BufSize
  <2>1. c = b /\ n = 0
    <3>1. n = 0
      BY <1>2, <1>5, <1>7, <1>8, SMT
    <3> QED
      BY <1>4, <1>8, <3>1
  <2>2. c.count - b.count = 0 /\ Least(Len(input), BufSize - b.count) = 0
    BY <1>2, <1>8, <2>1, SMT DEF Least
  <2>3. t \o SubSeq(input, 1, 0) = t
    <3>1. SubSeq(input, 1, 0) = << >> /\ t \in Seq(Byte)
      BY SMT DEF Holds
    <3> QED
      BY <3>1, ConcatEmptySeq
  <2> QED
    BY <1>8, <2>1, <2>2, <2>3
<1>9. CASE b.count # BufSize /\ ~(written < Len(input) /\ first.count < BufSize)
  <2>1. c = first
    BY <1>4, <1>9
  <2>2. c.count - b.count = n
    BY <1>7, <2>1
  <2>3. n = Least(Len(input), BufSize - b.count)
    BY <1>2, <1>5, <1>7, <1>9, SMT DEF Least
  <2> QED
    BY <1>5, <2>1, <2>2, <2>3
<1>10. CASE b.count # BufSize /\ written < Len(input) /\ first.count < BufSize
  <2>1. b.state = "NORMAL"
    BY <1>1, <1>2, <1>6, <1>7, <1>10, SMT
  <2> DEFINE turn == [first EXCEPT !.state = "WRAPPED", !.data_end = 0]
  <2>2. c = write_wrapped(turn, rest)
    BY <1>4, <1>10, <2>1
  <2>3. first.data_end = BufSize /\ first.count = BufSize - first.data_start
    BY <1>6, <1>7, <1>10, <2>1 DEF Good, Shape
  <2>4. /\ turn \in Buffers
        /\ turn.state = "WRAPPED" /\ turn.data_end = 0 /\ turn.mem = first.mem
        /\ turn.data_start = first.data_start /\ turn.count = first.count
    <3> DEFINE zero == 0
               wrapped == "WRAPPED"
    <3>1. zero \in 0 .. BufSize /\ wrapped \in {"NORMAL", "WRAPPED"}
      BY BufSizeAssumption, SMT
    <3>2. turn = [first EXCEPT !.state = wrapped, !.data_end = zero]
      OBVIOUS
    <3> HIDE DEF zero, wrapped, turn
    <3>3. /\ turn \in Buffers
          /\ turn.state = wrapped /\ turn.data_end = zero /\ turn.mem = first.mem
          /\ turn.data_start = first.data_start /\ turn.count = first.count
      BY <1>6, <3>1, <3>2 DEF Buffers
    <3> QED
      BY <3>3 DEF zero, wrapped
  <2> HIDE DEF turn
  <2>5. Good(turn)
    BY <1>6, <2>3, <2>4, Fields, BufSizeAssumption, SMT DEF Good, Shape
  <2> DEFINE u == t \o SubSeq(input, 1, n)
  <2>6. Holds(turn, u)
    BY <1>5, <1>6, <2>3, <2>4, TurnHolds
  <2>7. rest = SubSeq(input, n + 1, Len(input))
    BY <1>7
  <2>8. t \in Seq(Byte)
    BY DEF Holds
  <2>9. rest \in Seq(Byte) /\ Len(rest) = Len(input) - n
    <3>1. 0 \in Nat /\ n + 0 <= Len(input)
      BY <1>2, <1>5, SMT
    <3>2. Splits(t, input, rest, n, 0)
      BY <2>7, <2>8, <3>1, Joined, Zenon
    <3> QED
      BY <3>2, Zenon DEF Splits
  <2> HIDE DEF rest, u
  <2>10. PICK m \in Nat : /\ m <= Len(rest) /\ c.count = turn.count + m
                          /\ Holds(c, u \o SubSeq(rest, 1, m))
    BY <2>2, <2>4, <2>5, <2>6, <2>9, WriteWrappedHolds
  <2>11. /\ Good(c)
         /\ c.count - turn.count < Len(rest) => c.count = BufSize
    BY <2>2, <2>4, <2>5, <2>9, WriteWrappedGood
  <2>12. c.count \in 0 .. BufSize
    BY <2>11, Fields DEF Good
  <2>13. /\ c.count - b.count = n + m /\ n + m <= Len(input)
         /\ n + m = Least(Len(input), BufSize - b.count)
    <3> DEFINE z == c.count
               y == turn.count
               x == first.count
               a == b.count
               I == Len(input)
               R == Len(rest)
    <3>1. a \in 0 .. BufSize /\ x \in 0 .. BufSize /\ z \in 0 .. BufSize
      BY <1>2, <1>7, <2>12
    <3>2. x = a + n /\ y = x /\ z = y + m /\ R = I - n /\ m <= R
      BY <1>5, <2>4, <2>9, <2>10
    <3>3. z - y < R => z = BufSize
      BY <2>11
    <3>4. I \in Nat /\ BufSize \in Nat
      BY <1>2
    <3> HIDE DEF x, y, z, a, I, R
    <3>5. z - a = n + m /\ n + m <= I /\ n + m = Least(I, BufSize - a)
      BY <3>1, <3>2, <3>3, <3>4, SMT DEF Least
    <3> QED
      BY <3>5, Zenon DEF z, a, I
  <2>14. u \o SubSeq(rest, 1, m) = t \o SubSeq(input, 1, n + m)
    <3>1. n \in Nat /\ m \in Nat /\ n + m <= Len(input)
      BY <2>13
    <3>2. Splits(t, input, rest, n, m)
      BY <2>7, <2>8, <3>1, Joined, Zenon
    <3> QED
      BY <3>2, Zenon DEF Splits, u
  <2> QED
    BY <2>10, <2>13, <2>14
<1> QED
  BY <1>8, <1>9, <1>10

-----------------------------------------------------------------------------
(* What a read hands out.                                                  *)

\* m bytes of the tape from behind position p on.
Slice(t, p, m) == SubSeq(t, p + 1, p + m)

\* A slice is the sequence of those bytes.
LEMMA SliceIs ==
  ASSUME NEW t \in Seq(Byte), NEW p \in Nat, NEW m \in Nat, p + m <= Len(t)
  PROVE  /\ Slice(t, p, m) \in Seq(Byte) /\ Len(Slice(t, p, m)) = m
         /\ \A i \in 1 .. m : Slice(t, p, m)[i] = t[p + i]
<1> DEFINE s == SubSeq(t, p + 1, p + m)
<1>1. /\ s \in Seq(Byte) /\ Len(s) = m
      /\ \A i \in 1 .. m : s[i] = t[p + i]
  BY SMT
<1> QED
  BY <1>1, Zenon DEF Slice

\* Two slices that lie side by side are one.
LEMMA SlicesJoin ==
  ASSUME NEW t \in Seq(Byte), NEW p \in Nat, NEW m \in Nat, NEW n \in Nat,
         p + m + n <= Len(t)
  PROVE  Slice(t, p, m) \o Slice(t, p + m, n) = Slice(t, p, m + n)
<1> DEFINE u == Slice(t, p, m)
           v == Slice(t, p + m, n)
           w == Slice(t, p, m + n)
<1>1. /\ Len(t) \in Nat /\ p + m \in Nat /\ m + n \in Nat
      /\ p + m <= Len(t) /\ (p + m) + n <= Len(t) /\ p + (m + n) <= Len(t)
  OBVIOUS
<1>2. /\ u \in Seq(Byte) /\ Len(u) = m
      /\ \A i \in 1 .. m : u[i] = t[p + i]
  BY <1>1, SliceIs
<1>3. /\ v \in Seq(Byte) /\ Len(v) = n
      /\ \A i \in 1 .. n : v[i] = t[(p + m) + i]
  BY <1>1, SliceIs
<1>4. /\ w \in Seq(Byte) /\ Len(w) = m + n
      /\ \A i \in 1 .. m + n : w[i] = t[p + i]
  BY <1>1, SliceIs
<1> HIDE DEF u, v, w
<1>5. /\ u \o v \in Seq(Byte) /\ Len(u \o v) = m + n
      /\ \A i \in 1 .. m : (u \o v)[i] = u[i]
      /\ \A i \in m + 1 .. m + n : (u \o v)[i] = v[i - m]
  <2>1. /\ u \o v \in Seq(Byte) /\ Len(u \o v) = Len(u) + Len(v)
        /\ \A i \in 1 .. Len(u) + Len(v) :
              (u \o v)[i] = IF i <= Len(u) THEN u[i] ELSE v[i - Len(u)]
    BY <1>2, <1>3, ConcatProperties
  <2> DEFINE x == u \o v
  <2> HIDE DEF x
  <2>2. /\ x \in Seq(Byte) /\ Len(x) = m + n
        /\ \A i \in 1 .. m + n : x[i] = IF i <= m THEN u[i] ELSE v[i - m]
    BY <1>2, <1>3, <2>1 DEF x
  <2>3. ASSUME NEW i \in 1 .. m PROVE x[i] = u[i]
    BY <2>2, SMT
  <2>4. ASSUME NEW i \in m + 1 .. m + n PROVE x[i] = v[i - m]
    <3>1. i \in 1 .. m + n /\ ~(i <= m)
      BY SMT
    <3> QED
      BY <2>2, <3>1
  <2> QED
    BY <2>2, <2>3, <2>4, Zenon DEF x
<1>6. ASSUME NEW i \in 1 .. m + n PROVE (u \o v)[i] = w[i]
  <2>1. CASE i \in 1 .. m
    BY <1>2, <1>4, <1>5, <2>1
  <2>2. CASE i \in m + 1 .. m + n
    <3>1. i - m \in 1 .. n /\ (p + m) + (i - m) = p + i
      BY <2>2, SMT
    <3> DEFINE k == i - m
    <3>2. (u \o v)[i] = v[k] /\ v[k] = t[(p + m) + k]
      BY <1>3, <1>5, <2>2, <3>1
    <3> QED
      BY <1>4, <3>1, <3>2
  <2>3. i \in 1 .. m \/ i \in m + 1 .. m + n
    OBVIOUS
  <2> QED
    BY <2>1, <2>2, <2>3
<1>7. u \o v = w
  <2> DEFINE x == u \o v
  <2>1. x \in Seq(Byte) /\ w \in Seq(Byte) /\ Len(x) = Len(w)
        /\ \A i \in 1 .. Len(x) : x[i] = w[i]
    BY <1>4, <1>5, <1>6
  <2> HIDE DEF x
  <2>2. x = w
    BY <2>1, SeqEqual
  <2> QED
    BY <2>2 DEF x
<1> QED
  BY <1>7 DEF u, v, w

\* What CopyOut leaves in the buffer.
LEMMA CopyOutFields ==
  ASSUME NEW b \in Buffers, NEW m \in Nat, m <= b.count, b.data_start + m <= BufSize,
         NEW c, c = CopyOut(b, m).buf
  PROVE  /\ c \in Buffers /\ c.mem = b.mem
         /\ c.data_end = b.data_end /\ c.state = b.state
         /\ c.data_start = b.data_start + m /\ c.count = b.count - m
<1> DEFINE s == b.data_start + m
           k == b.count - m
<1>1. c = [b EXCEPT !.data_start = s, !.count = k]
  BY DEF CopyOut
<1>2. s \in 0 .. BufSize /\ k \in 0 .. BufSize
  BY Fields, BufSizeAssumption, SMT
<1> HIDE DEF s, k
<1>3. /\ c \in Buffers /\ c.mem = b.mem
      /\ c.data_end = b.data_end /\ c.state = b.state
      /\ c.data_start = s /\ c.count = k
  BY <1>1, <1>2 DEF Buffers
<1> QED
  BY <1>3 DEF s, k

\* CopyOut hands out the unread bytes of the tape from the oldest on.
LEMMA CopyOutSlice ==
  ASSUME NEW b, Good(b), NEW t, Holds(b, t), NEW m \in Nat,
         m <= IF b.state = "NORMAL" THEN b.count ELSE BufSize - b.data_start
  PROVE  CopyOut(b, m).data = Slice(t, Len(t) - b.count, m)
<1> DEFINE D == [i \in 1 .. m |-> b.mem[b.data_start + i - 1]]
           L == Len(t)
           p == L - b.count
           s == b.data_start
           e == b.data_end
<1>1. CopyOut(b, m).data = D
  BY DEF CopyOut
<1>2. t \in Seq(Byte) /\ L \in Nat /\ L >= BufSize
  BY SMT DEF Holds
<1>3. b \in Buffers
  BY DEF Good
<1>4. /\ s \in 0 .. BufSize /\ e \in 0 .. BufSize /\ b.count \in 0 .. BufSize
      /\ b.state \in {"NORMAL", "WRAPPED"}
  BY <1>3, Fields
<1>5. \/ b.state = "NORMAL" /\ s <= e /\ b.count = e - s /\ m <= e - s
      \/ b.state = "WRAPPED" /\ e <= s /\ b.count = BufSize - s + e /\ m <= BufSize - s
  BY <1>4 DEF Good, Shape
<1>6. \A i \in 0 .. BufSize - 1 :
         /\ i < e => b.mem[i] = t[L - e + i + 1]
         /\ e <= i => b.mem[i] = t[L - e + i + 1 - BufSize]
  BY DEF Holds
<1>7. p \in Nat /\ p + m <= L
  <2> DEFINE c == b.count
  <2>1. c \in 0 .. BufSize /\ m <= c /\ p = L - c
    BY <1>4, <1>5, BufSizeAssumption, SMT
  <2> HIDE DEF c, p, L
  <2> QED
    BY <1>2, <2>1, BufSizeAssumption, SMT
<1> HIDE DEF L, s, e
<1>8. ASSUME NEW i \in 1 .. m PROVE b.mem[s + i - 1] = t[p + i]
  <2> DEFINE j == s + i - 1
  <2>1. CASE b.state = "NORMAL"
    <3>1. j \in 0 .. BufSize - 1 /\ j < e /\ L - e + j + 1 = p + i
      BY <1>2, <1>4, <1>5, <2>1, BufSizeAssumption, SMT
    <3> QED
      BY <1>6, <3>1
  <2>2. CASE b.state = "WRAPPED"
    <3>1. j \in 0 .. BufSize - 1 /\ e <= j /\ L - e + j + 1 - BufSize = p + i
      BY <1>2, <1>4, <1>5, <2>2, BufSizeAssumption, SMT
    <3> QED
      BY <1>6, <3>1
  <2> QED
    BY <1>4, <2>1, <2>2
<1> HIDE DEF p
<1> DEFINE w == Slice(t, p, m)
<1>9. /\ w \in Seq(Byte) /\ Len(w) = m
      /\ \A i \in 1 .. m : w[i] = t[p + i]
  BY <1>2, <1>7, SliceIs DEF L
<1> HIDE DEF w
<1>10. \A i \in 1 .. m : D[i] = w[i]
  BY <1>8, <1>9 DEF s
<1>11. D \in [1 .. m -> Byte]
  <2>1. \A i \in 1 .. m : w[i] \in Byte
    BY <1>9, SMT
  <2>2. \A i \in 1 .. m : b.mem[b.data_start + i - 1] \in Byte
    BY <1>10, <2>1
  <2> QED
    BY <2>2, Zenon
<1> HIDE DEF D
<1>12. D \in Seq(Byte) /\ Len(D) = m
  BY <1>11, SMT
<1>13. D = w
  BY <1>9, <1>10, <1>12, SeqEqual
<1> QED
  BY <1>1, <1>13 DEF w, p, L

\* Steps that leave the block and the write cursor leave what the block holds.
LEMMA SameHolds ==
  ASSUME NEW b, NEW c, NEW t, Holds(b, t), c.mem = b.mem, c.data_end = b.data_end
  PROVE  Holds(c, t)
  BY DEF Holds

\* A read of n bytes yields read, the oldest unread bytes, as many as there are up to
\* n, and leaves the buffer c, whose block still holds the tape.
Reads(c, read, b, t, n) ==
    /\ Holds(c, t)
    /\ c.count = b.count - Least(n, b.count)
    /\ read = Slice(t, Len(t) - b.count, Least(n, b.count))

\* buffer_read hands out the bytes in the order they were stored, around the block's
\* end where it has to, and what it leaves is the rest of them.
THEOREM ReadHolds ==
  ASSUME NEW b, Good(b), NEW n \in Nat, NEW t, Holds(b, t)
  PROVE  Reads(buffer_read(b, n).buf, buffer_read(b, n).data, b, t, n)
<1> DEFINE first == IF b.state = "NORMAL" THEN read_normal(b, n)
                                          ELSE read_wrapped(b, n)
           read == b.count - first.buf.count
           zero == 0
           turn == [first.buf EXCEPT !.data_start = zero]
           next == IF b.state = "NORMAL"
                   THEN read_wrapped([turn EXCEPT !.state = "WRAPPED"], n - read)
                   ELSE read_normal([turn EXCEPT !.state = "NORMAL"], n - read)
           k == Least(n, b.count)
           p == Len(t) - b.count
<1>1. b \in Buffers
  BY DEF Good
<1>2. /\ b.count \in 0 .. BufSize /\ b.data_start \in 0 .. BufSize
      /\ b.data_end \in 0 .. BufSize /\ b.state \in {"NORMAL", "WRAPPED"}
      /\ BufSize \in Nat
  BY <1>1, Fields, BufSizeAssumption
<1>3. buffer_read(b, n) = IF read < n /\ first.buf.count > 0
                          THEN [buf |-> next.buf, data |-> first.data \o next.data]
                          ELSE first
  BY Zenon DEF buffer_read
<1>4. CASE b.state = "NORMAL"
  <2>1. b.data_start <= b.data_end /\ b.count = b.data_end - b.data_start
    BY <1>4 DEF Good, Shape
  <2>2. k \in Nat /\ k <= b.count /\ b.data_start + k <= BufSize /\ (k < n => k = b.count)
    BY <1>2, <2>1, SMT DEF Least
  <2>3. first = CopyOut(b, k)
    BY <1>4 DEF read_normal
  <2> HIDE DEF k, first, next
  <2>4. first.buf.mem = b.mem /\ first.buf.data_end = b.data_end
        /\ first.buf.count = b.count - k
    BY <1>1, <2>2, <2>3, CopyOutFields
  <2>5. first.data = Slice(t, Len(t) - b.count, k)
    BY <1>4, <2>2, <2>3, CopyOutSlice
  <2>6. ~(read < n /\ first.buf.count > 0)
    <3> DEFINE x == first.buf.count
               y == b.count
    <3>1. x = y - k /\ read = y - x /\ y \in Nat /\ k \in Nat /\ (k < n => k = y)
      BY <1>2, <2>2, <2>4
    <3> HIDE DEF x, y, read
    <3> QED
      BY <3>1, SMT DEF x
  <2>7. buffer_read(b, n) = first
    BY <1>3, <2>6
  <2>8. Holds(first.buf, t)
    BY <2>4, SameHolds
  <2> QED
    BY <2>4, <2>5, <2>7, <2>8 DEF Reads, k
<1>5. CASE b.state = "WRAPPED"
  <2> DEFINE m == Least(n, BufSize - b.data_start)
             y == b.count
  <2>1. b.data_end <= b.data_start /\ y = BufSize - b.data_start + b.data_end
    BY <1>5 DEF Good, Shape
  <2>2. /\ m \in Nat /\ m <= n /\ m <= BufSize - b.data_start
        /\ m <= y /\ b.data_start + m <= BufSize
        /\ m < n => b.data_start + m = BufSize
    BY <1>2, <2>1, SMT DEF Least
  <2>3. first = CopyOut(b, m)
    BY <1>5 DEF read_wrapped
  <2>4. next = read_normal([turn EXCEPT !.state = "NORMAL"], n - read)
    BY <1>5
  <2> HIDE DEF m, first, next
  <2>5. /\ first.buf \in Buffers
        /\ first.buf.mem = b.mem /\ first.buf.data_end = b.data_end
        /\ first.buf.data_start = b.data_start + m
        /\ first.buf.count = y - m
    BY <1>1, <2>2, <2>3, CopyOutFields
  <2>6. first.data = Slice(t, Len(t) - b.count, m)
    BY <1>5, <2>2, <2>3, CopyOutSlice
  <2>7. read = m /\ y \in Nat
    <3>1. read = y - first.buf.count /\ first.buf.count = y - m /\ y \in Nat
      BY <1>2, <2>5
    <3> HIDE DEF y, read
    <3> QED
      BY <2>2, <3>1, SMT
  <2>8. CASE ~(read < n /\ first.buf.count > 0)
    <3>1. k = m
      <4>1. ~(m < n /\ y - m > 0)
        BY <2>5, <2>7, <2>8
      <4> HIDE DEF y
      <4>2. m = Least(n, y)
        BY <2>2, <2>7, <4>1, SMT DEF Least
      <4> QED
        BY <4>2 DEF y
    <3>2. buffer_read(b, n) = first
      BY <1>3, <2>8
    <3>3. Holds(first.buf, t)
      BY <2>5, SameHolds
    <3> HIDE DEF k
    <3>4. Holds(first.buf, t) /\ first.buf.count = b.count - k
          /\ first.data = Slice(t, Len(t) - b.count, k)
      BY <2>5, <2>6, <3>1, <3>3
    <3> QED
      BY <3>2, <3>4 DEF Reads, k
  <2>9. CASE read < n /\ first.buf.count > 0
    <3> DEFINE normal == "NORMAL"
               turned == [turn EXCEPT !.state = normal]
               z == turned.count
               j == n - m
               l == Least(j, z)
    <3>1. next = read_normal(turned, j)
      BY <2>4, <2>7
    <3>2. /\ turned \in Buffers /\ turned.mem = b.mem
          /\ turned.state = normal /\ turned.data_start = zero
          /\ turned.data_end = b.data_end
          /\ turned.count = y - m
      <4>1. zero \in 0 .. BufSize /\ normal \in {"NORMAL", "WRAPPED"}
        BY BufSizeAssumption, SMT
      <4> HIDE DEF zero, normal, y
      <4> QED
        BY <2>5, <4>1 DEF Buffers
    <3> HIDE DEF turned
    <3>3. y - m = b.data_end /\ m < n
      BY <1>2, <2>1, <2>2, <2>7, <2>9, SMT
    <3>4. Good(turned)
      <4>1. turned.data_start <= turned.data_end
            /\ turned.count = turned.data_end - turned.data_start
        BY <1>2, <3>2, <3>3, SMT
      <4> QED
        BY <3>2, <4>1 DEF Good, Shape
    <3>5. Holds(turned, t)
      BY <3>2, SameHolds
    <3>6. z = y - m /\ z \in Nat /\ j \in Nat
      <4>1. z = y - m
        BY <3>2
      <4> HIDE DEF y, z
      <4> QED
        BY <2>2, <2>7, <3>3, <4>1, SMT
    <3> HIDE DEF z, j
    <3>7. l \in Nat /\ l <= z
      BY <3>6, SMT DEF Least
    <3>8. next = CopyOut(turned, l)
      BY <3>1 DEF read_normal, z
    <3> HIDE DEF l
    <3>9. /\ next.buf.mem = turned.mem /\ next.buf.data_end = turned.data_end
          /\ next.buf.count = z - l
      <4>1. z <= BufSize /\ l <= turned.count /\ turned.count \in 0 .. BufSize
        BY <3>2, <3>7, Fields DEF z
      <4>2. turned.data_start + l <= BufSize
        BY <1>2, <3>2, <3>7, <4>1, SMT
      <4> QED
        BY <3>2, <3>7, <3>8, <4>1, <4>2, CopyOutFields DEF z
    <3>10. next.data = Slice(t, Len(t) - z, l)
      BY <3>2, <3>4, <3>5, <3>7, <3>8, CopyOutSlice DEF z
    <3>11. Holds(next.buf, t)
      BY <3>2, <3>5, <3>9, SameHolds
    <3>12. k = m + l /\ z - l = y - (m + l)
      <4> HIDE DEF y
      <4>1. Least(n, y) = m + l /\ z - l = y - (m + l)
        BY <2>2, <2>7, <3>6, <3>7, SMT DEF Least, l, j
      <4> QED
        BY <4>1 DEF y
    <3> DEFINE L == Len(t)
    <3>13. L \in Nat /\ L >= BufSize /\ t \in Seq(Byte)
      BY SMT DEF Holds
    <3>14. /\ p \in Nat /\ p + m + l <= L /\ L - z = p + m
      <4>1. p = L - y /\ y \in 0 .. BufSize
        BY <1>2
      <4> HIDE DEF p, y, L
      <4> QED
        BY <1>2, <2>2, <3>6, <3>7, <3>13, <4>1, SMT
    <3> HIDE DEF L, p
    <3>15. first.data = Slice(t, p, m) /\ next.data = Slice(t, p + m, l)
      BY <2>6, <3>10, <3>14 DEF p, L
    <3>16. first.data \o next.data = Slice(t, p, m + l)
      <4>1. p + m + l <= Len(t) /\ t \in Seq(Byte)
        BY <3>13, <3>14 DEF L
      <4>2. p \in Nat /\ m \in Nat /\ l \in Nat
        BY <2>2, <3>7, <3>14
      <4>3. Slice(t, p, m) \o Slice(t, p + m, l) = Slice(t, p, m + l)
        BY <4>1, <4>2, SlicesJoin, Zenon
      <4> QED
        BY <3>15, <4>3
    <3>17. buffer_read(b, n) = [buf |-> next.buf, data |-> first.data \o next.data]
      BY <1>3, <2>9
    <3> HIDE DEF k
    <3>18. buffer_read(b, n).buf = next.buf
           /\ buffer_read(b, n).data = Slice(t, p, k)
      BY <3>12, <3>16, <3>17
    <3>19. next.buf.count = b.count - k
      BY <3>9, <3>12
    <3> QED
      BY <3>11, <3>18, <3>19 DEF Reads, p, k
  <2> QED
    BY <2>8, <2>9
<1> QED
  BY <1>2, <1>4, <1>5

\* Unread is the bytes of the tape that are still to be read.
LEMMA UnreadIs ==
  ASSUME NEW b, Good(b), NEW t, Holds(b, t)
  PROVE  /\ Len(Unread(b)) = b.count
         /\ \A i \in 1 .. b.count : Unread(b)[i] = t[Len(t) - b.count + i]
<1> DEFINE d == b.data_start
           e == b.data_end
           c == b.count
           L == Len(t)
<1>1. /\ d \in 0 .. BufSize /\ e \in 0 .. BufSize /\ c \in 0 .. BufSize
      /\ BufSize \in Nat \ {0} /\ L \in Nat
  BY Fields, BufSizeAssumption DEF Good, Holds
<1>2. /\ \A i \in 0 .. BufSize - 1 : i < e => b.mem[i] = t[L - e + i + 1]
      /\ \A i \in 0 .. BufSize - 1 : e <= i => b.mem[i] = t[L - e + i + 1 - BufSize]
  BY DEF Holds
<1>3. \/ d <= e /\ c = e - d
      \/ e <= d /\ c = BufSize - d + e
  BY DEF Good, Shape
<1>4. Unread(b) = [i \in 1 .. c |-> b.mem[(d + i - 1) % BufSize]]
  BY DEF Unread
<1> HIDE DEF d, e, c, L
<1>5. ASSUME NEW i \in 1 .. c PROVE b.mem[(d + i - 1) % BufSize] = t[L - c + i]
  <2> DEFINE j == d + i - 1
  <2>1. CASE j < BufSize
    <3>1. j \in 0 .. BufSize - 1
      BY <1>1, <2>1
    <3>2. j % BufSize = j
      <4> HIDE DEF j
      <4> QED BY <1>1, <3>1, SMT
    <3>3. CASE d <= e /\ c = e - d
      <4>1. j < e /\ L - e + j + 1 = L - c + i
        BY <1>1, <3>3
      <4> QED BY <1>2, <3>1, <3>2, <4>1
    <3>4. CASE e <= d /\ c = BufSize - d + e
      <4>1. e <= j /\ L - e + j + 1 - BufSize = L - c + i
        BY <1>1, <3>4
      <4> QED BY <1>2, <3>1, <3>2, <4>1
    <3> QED BY <1>3, <3>3, <3>4
  <2>2. CASE ~(j < BufSize)
    <3>1. j \in BufSize .. 2 * BufSize - 1
      BY <1>1, <1>3, <2>2
    <3>2. j % BufSize = j - BufSize
      <4> HIDE DEF j
      <4> QED BY <1>1, <3>1, SMT
    <3>3. e <= d /\ c = BufSize - d + e
      BY <1>1, <1>3, <2>2
    <3> DEFINE k == j - BufSize
    <3>4. k \in 0 .. BufSize - 1 /\ k < e /\ L - e + k + 1 = L - c + i
      BY <1>1, <3>1, <3>3
    <3> HIDE DEF k
    <3> QED BY <1>2, <3>2, <3>4 DEF k
  <2> QED BY <2>1, <2>2
<1>6. Len(Unread(b)) = c
  BY <1>1, <1>4
<1> QED
  BY <1>4, <1>5, <1>6 DEF c, L

\* A read r of n bytes that are there, from a buffer b that holds t.
ReadOf(r, b, t, n) ==
    /\ Good(r.buf) /\ Holds(r.buf, t) /\ r.buf.count = b.count - n
    /\ r.data \in Seq(Byte) /\ Len(r.data) = n
    /\ \A i \in 1 .. n : r.data[i] = t[Len(t) - b.count + i]

\* buffer_read hands out the bytes asked for when they are there.
LEMMA ReadThere ==
  ASSUME NEW b, Good(b), NEW t, Holds(b, t), NEW n \in Nat, n <= b.count
  PROVE  ReadOf(buffer_read(b, n), b, t, n)
<1> DEFINE r == buffer_read(b, n)
           c == b.count
           L == Len(t)
<1>1. Good(r.buf)
  BY ReadGood
<1>2. Reads(r.buf, r.data, b, t, n)
  BY ReadHolds, Zenon
<1>3. c \in 0 .. BufSize /\ BufSize \in Nat /\ L \in Nat /\ BufSize <= L /\ t \in Seq(Byte)
  BY Fields, BufSizeAssumption DEF Good, Holds
<1> HIDE DEF c, L, r
<1>4. Least(n, c) = n
  BY <1>3 DEF Least, c
<1>5. Holds(r.buf, t) /\ r.buf.count = c - n /\ r.data = Slice(t, L - c, n)
  BY <1>2, <1>4 DEF Reads, c, L
<1>6. L - c \in Nat /\ (L - c) + n <= L
  BY <1>3 DEF c
<1>7. /\ r.data \in Seq(Byte) /\ Len(r.data) = n
      /\ \A i \in 1 .. n : r.data[i] = t[(L - c) + i]
  <2> DEFINE p == L - c
  <2>1. p \in Nat /\ p + n <= Len(t)
    BY <1>6 DEF L
  <2> HIDE DEF p
  <2>2. /\ Slice(t, p, n) \in Seq(Byte) /\ Len(Slice(t, p, n)) = n
        /\ \A i \in 1 .. n : Slice(t, p, n)[i] = t[p + i]
    BY <1>3, <2>1, SliceIs, Zenon
  <2> QED
    BY <1>5, <2>2 DEF p
<1> QED
  BY <1>1, <1>5, <1>7 DEF ReadOf, r, c, L

\* A rewind c by n bytes of a buffer b that holds t.
PutBack(c, b, t, n) == Good(c) /\ Holds(c, t) /\ c.count = b.count + n

\* buffer_rewind puts back what fits beside the unread bytes.
LEMMA RewindThere ==
  ASSUME NEW b, Good(b), NEW t, Holds(b, t), NEW n \in Nat, n <= BufSize - b.count
  PROVE  PutBack(buffer_rewind(b, n), b, t, n)
<1>1. Rewound(buffer_rewind(b, n), b, n)
  BY RewindGood
<1> QED
  BY <1>1, SameHolds DEF Rewound, PutBack

\* The buffer c and the tape u, and the rest v of the wire w, after n bytes of w were
\* written to b, which held t.
Received(c, u, v, b, t, w, n) ==
    /\ Good(c) /\ Holds(c, u) /\ c.count = b.count + n
    /\ Len(u) = Len(t) + n
    /\ v \in Seq(Byte) /\ u \o v = t \o w

\* buffer_write takes a chunk that fits off the wire: the stream stays the same.
LEMMA WriteThere ==
  ASSUME NEW b, Good(b), NEW t, Holds(b, t), NEW w \in Seq(Byte),
         NEW n \in 1 .. Len(w), b.count + n <= BufSize
  PROVE  Received(buffer_write(b, SubSeq(w, 1, n)), t \o SubSeq(w, 1, n),
                  SubSeq(w, n + 1, Len(w)), b, t, w, n)
<1> DEFINE input == SubSeq(w, 1, n)
           c == buffer_write(b, input)
           v == SubSeq(w, n + 1, Len(w))
           m == Len(w) - n
<1>1. /\ input \in Seq(Byte) /\ Len(input) = n /\ n \in Nat
      /\ m \in Nat /\ n + m = Len(w) /\ n + m <= Len(w) /\ n <= Len(w)
  OBVIOUS
<1>2. t \in Seq(Byte) /\ b.count \in 0 .. BufSize /\ BufSize \in Nat
  BY Fields, BufSizeAssumption DEF Good, Holds
<1> HIDE DEF input, m
<1>3. Good(c)
  BY <1>1, WriteGood
<1>4. /\ Holds(c, t \o SubSeq(input, 1, c.count - b.count))
      /\ c.count - b.count = Least(Len(input), BufSize - b.count)
  BY <1>1, WriteHolds
<1>5. c.count \in 0 .. BufSize
  BY <1>3, Fields DEF Good
<1>6. c.count - b.count = n /\ c.count = b.count + n
  <2> DEFINE x == c.count
             y == b.count
  <2>1. x - y = Least(n, BufSize - y) /\ x \in Nat /\ y \in Nat /\ y + n <= BufSize
    BY <1>1, <1>2, <1>4, <1>5
  <2> HIDE DEF x, y
  <2>2. x - y = n /\ x = y + n
    BY <1>1, <1>2, <2>1 DEF Least
  <2> QED
    BY <2>2 DEF x, y
<1>7. SubSeq(input, 1, n) = input
  BY <1>1, SubSeqFull
<1>8. Holds(c, t \o input)
  BY <1>4, <1>6, <1>7
<1>9. Appended(t \o input, t, w, n)
  BY <1>1, <1>2, Extended DEF input
<1>10. Splits(t, w, v, n, m)
  BY <1>1, <1>2, Joined, Zenon
<1>11. v \in Seq(Byte) /\ Len(v) = m
  BY <1>1, <1>10 DEF Splits, m
<1>12. SubSeq(v, 1, m) = v /\ SubSeq(w, 1, n + m) = w
  BY <1>1, <1>11, SubSeqFull
<1>13. (t \o input) \o v = t \o w
  BY <1>10, <1>12 DEF Splits, input
<1> QED
  BY <1>3, <1>6, <1>8, <1>9, <1>11, <1>13 DEF Received, Appended, input

\* Every set of numbers that is not empty has a least element.
LEMMA LeastElement ==
  ASSUME NEW T \in SUBSET Nat, T # {}
  PROVE  \E x \in T : \A y \in T : x <= y
<1>1. \E x \in T : \A y \in T : ~(<<y, x>> \in OpToRel(<, Nat))
  BY NatLessThanWellFounded, WFMin, Zenon
<1>2. PICK x \in T : \A y \in T : ~(<<y, x>> \in OpToRel(<, Nat))
  BY <1>1
<1>3. ASSUME NEW y \in T PROVE x <= y
  <2>1. x \in Nat /\ y \in Nat
    OBVIOUS
  <2>2. ~(y < x)
    BY <1>2, <2>1 DEF OpToRel
  <2> QED BY <2>1, <2>2
<1> QED BY <1>3

-----------------------------------------------------------------------------
(* Frames in a stream of bytes, as both framings cut them out.             *)

\* The stream T has frames behind the positions in F, up to the positions in end:
\* each begins with the byte h, and none reaches into the next.
Frames(T, h, F, end) ==
    /\ T \in Seq(Byte)
    /\ F \in SUBSET Nat
    /\ end \in [F -> Nat]
    /\ \A s \in F : s < end[s] /\ end[s] <= Len(T) /\ T[s + 1] = h
    /\ \A s, r \in F : s < r => end[s] <= r

\* Position o is not inside a frame: what of the byte h comes behind o is in a frame
\* that begins there.
Clear(T, h, F, end, o) ==
    /\ o \in 0 .. Len(T)
    /\ \A q \in o + 1 .. Len(T) :
          T[q] = h => \E s \in F : o <= s /\ s < q /\ q <= end[s]

\* The n frames at[1], at[2], ... lie in this order, and the first k of them begin
\* before position o.
Taken(F, at, n, k, o) ==
    /\ n \in Nat /\ k \in 0 .. n
    /\ at \in [1 .. n -> F]
    /\ \A i, j \in 1 .. n : i < j => at[i] < at[j]
    /\ \A i \in 1 .. n : i <= k <=> at[i] < o

\* The byte h is first found behind position s when it is sought from o on.
Found(T, h, o, s) ==
    /\ s \in Nat /\ o <= s /\ s < Len(T) /\ T[s + 1] = h
    /\ \A q \in o + 1 .. s : T[q] # h

\* What is found is the first frame that is not behind.
LEMMA FoundIsFrame ==
  ASSUME NEW T, NEW h, NEW F, NEW end, NEW o, NEW s,
         Frames(T, h, F, end), Clear(T, h, F, end, o), Found(T, h, o, s)
  PROVE  s \in F /\ \A r \in F : o <= r => s <= r
<1> DEFINE L == Len(T)
<1>1. L \in Nat /\ o \in Nat /\ s \in Nat /\ o <= s /\ s < L /\ F \in SUBSET Nat
  BY DEF Frames, Clear, Found
<1>2. /\ \A q \in o + 1 .. L : T[q] = h => \E r \in F : o <= r /\ r < q /\ q <= end[r]
      /\ \A r \in F : r + 1 <= L /\ T[r + 1] = h
      /\ T[s + 1] = h /\ \A q \in o + 1 .. s : T[q] # h
  BY DEF Frames, Clear, Found
<1> HIDE DEF L
<1>3. ASSUME NEW r \in F, o <= r PROVE s <= r
  BY <1>1, <1>2, <1>3
<1>4. PICK r \in F : o <= r /\ r < s + 1
  BY <1>1, <1>2
<1>5. s = r
  BY <1>1, <1>3, <1>4
<1> QED
  BY <1>3, <1>5

\* Positions may be passed that hold no byte h.
LEMMA SkipClear ==
  ASSUME NEW T, NEW h, NEW F, NEW end, NEW o, NEW at, NEW n, NEW k,
         Frames(T, h, F, end), Clear(T, h, F, end, o), Taken(F, at, n, k, o),
         NEW p \in Nat, o <= p, p <= Len(T), \A q \in o + 1 .. p : T[q] # h
  PROVE  Clear(T, h, F, end, p) /\ Taken(F, at, n, k, p)
<1> DEFINE L == Len(T)
<1>1. L \in Nat /\ o \in Nat /\ p <= L /\ F \in SUBSET Nat
  BY DEF Frames, Clear
<1>2. /\ \A q \in o + 1 .. L : T[q] = h => \E r \in F : o <= r /\ r < q /\ q <= end[r]
      /\ \A r \in F : r + 1 <= L /\ T[r + 1] = h
  BY DEF Frames, Clear
<1> HIDE DEF L
<1>3. ASSUME NEW r \in F, o <= r PROVE p <= r
  BY <1>1, <1>2, <1>3
<1>4. ASSUME NEW q \in p + 1 .. L, T[q] = h
      PROVE  \E r \in F : p <= r /\ r < q /\ q <= end[r]
  <2>1. q \in o + 1 .. L
    BY <1>1, <1>4
  <2>2. PICK r \in F : o <= r /\ r < q /\ q <= end[r]
    BY <1>2, <1>4, <2>1
  <2> QED
    BY <1>3, <2>2
<1>5. ASSUME NEW r \in F PROVE r < o <=> r < p
  BY <1>1, <1>3
<1>6. Clear(T, h, F, end, p)
  BY <1>1, <1>4 DEF Clear, L
<1>7. Taken(F, at, n, k, p)
  BY <1>5 DEF Taken
<1> QED
  BY <1>6, <1>7

\* A position may be taken back over a byte other than h.
LEMMA BackClear ==
  ASSUME NEW T, NEW h, NEW F, NEW end, NEW o, NEW at, NEW n, NEW k,
         Frames(T, h, F, end), Clear(T, h, F, end, o), Taken(F, at, n, k, o),
         NEW p \in Nat, p + 1 = o, T[o] # h
  PROVE  Clear(T, h, F, end, p) /\ Taken(F, at, n, k, p)
<1> DEFINE L == Len(T)
<1>1. L \in Nat /\ o \in Nat /\ o <= L /\ F \in SUBSET Nat
  BY DEF Frames, Clear
<1>2. /\ \A q \in o + 1 .. L : T[q] = h => \E r \in F : o <= r /\ r < q /\ q <= end[r]
      /\ \A r \in F : T[r + 1] = h
  BY DEF Frames, Clear
<1> HIDE DEF L
<1>3. ASSUME NEW q \in p + 1 .. L, T[q] = h
      PROVE  \E r \in F : p <= r /\ r < q /\ q <= end[r]
  <2>1. q # o
    BY <1>3
  <2>2. q \in o + 1 .. L
    BY <1>1, <1>3, <2>1
  <2>3. PICK r \in F : o <= r /\ r < q /\ q <= end[r]
    BY <1>2, <1>3, <2>2
  <2>4. p <= r
    BY <1>1, <2>3
  <2> QED
    BY <2>3, <2>4
<1>4. Clear(T, h, F, end, p)
  <2>1. p \in 0 .. L
    BY <1>1
  <2> QED BY <1>3, <2>1 DEF Clear, L
<1>5. ASSUME NEW r \in F PROVE r < o <=> r < p
  <2>1. r # p
    BY <1>2
  <2> QED BY <1>1, <2>1
<1>6. Taken(F, at, n, k, p)
  BY <1>5 DEF Taken
<1> QED
  BY <1>4, <1>6

\* Behind the first frame that is not behind, the next position is its end; when the
\* frame is one of the n, it is the next of them.
LEMMA PassClear ==
  ASSUME NEW T, NEW h, NEW F, NEW end, NEW o, NEW at, NEW n, NEW k,
         Frames(T, h, F, end), Clear(T, h, F, end, o), Taken(F, at, n, k, o),
         NEW s \in F, o <= s, \A r \in F : o <= r => s <= r
  PROVE  /\ Clear(T, h, F, end, end[s])
         /\ (\A i \in 1 .. n : at[i] # s) => Taken(F, at, n, k, end[s])
         /\ \A i \in 1 .. n : at[i] = s => i = k + 1 /\ Taken(F, at, n, k + 1, end[s])
<1> DEFINE L == Len(T)
           p == end[s]
<1>1. L \in Nat /\ o \in Nat /\ p \in Nat /\ s < p /\ p <= L /\ F \in SUBSET Nat
  BY DEF Frames, Clear
<1>2. /\ \A q \in o + 1 .. L : T[q] = h => \E r \in F : o <= r /\ r < q /\ q <= end[r]
      /\ \A r \in F : s < r => p <= r
  BY DEF Frames, Clear
<1> HIDE DEF L
<1>3. ASSUME NEW q \in p + 1 .. L, T[q] = h
      PROVE  \E r \in F : p <= r /\ r < q /\ q <= end[r]
  <2>1. q \in o + 1 .. L /\ p < q
    BY <1>1, <1>3
  <2>2. PICK r \in F : o <= r /\ r < q /\ q <= end[r]
    BY <1>2, <1>3, <2>1
  <2>3. r # s
    BY <1>1, <2>1, <2>2
  <2>4. s < r
    BY <1>1, <2>2, <2>3
  <2> QED
    BY <1>2, <2>2, <2>4
<1>4. Clear(T, h, F, end, p)
  BY <1>1, <1>3 DEF Clear, L
<1>5. ASSUME NEW r \in F PROVE r < p <=> r < o \/ r = s
  BY <1>1, <1>2
<1>6. /\ n \in Nat /\ k \in 0 .. n
      /\ \A i \in 1 .. n : at[i] \in F
      /\ \A i, j \in 1 .. n : i < j => at[i] < at[j]
      /\ \A i \in 1 .. n : i <= k <=> at[i] < o
  BY DEF Taken
<1> HIDE DEF p
<1>7. ASSUME \A i \in 1 .. n : at[i] # s PROVE Taken(F, at, n, k, p)
  BY <1>5, <1>7 DEF Taken
<1>8. ASSUME NEW i \in 1 .. n, at[i] = s PROVE i = k + 1 /\ Taken(F, at, n, k + 1, p)
  <2>1. ~(i <= k)
    BY <1>1, <1>6, <1>8
  <2>2. k + 1 \in 1 .. n
    BY <1>6, <2>1
  <2> DEFINE m == k + 1
  <2>a. m \in 1 .. n /\ ~(m <= k)
    BY <1>6, <2>2
  <2>b. at[m] \in F /\ ~(at[m] < o)
    BY <1>6, <2>a
  <2> HIDE DEF m
  <2>c. at[m] \in Nat
    BY <1>1, <2>b
  <2>3. o <= at[m]
    <3> DEFINE x == at[m]
    <3>1. x \in Nat /\ ~(x < o) /\ o \in Nat
      BY <1>1, <2>b, <2>c
    <3> HIDE DEF x
    <3>2. o <= x
      BY <3>1
    <3> QED
      BY <3>2 DEF x
  <2>4. s <= at[m]
    BY <2>b, <2>3
  <2>5. ~(m < i)
    <3>1. m < i => at[m] < s
      BY <1>6, <1>8, <2>a
    <3>2. at[m] \in Nat
      BY <1>1, <2>b
    <3> QED
      BY <1>1, <2>4, <3>1, <3>2
  <2>6. i = k + 1
    BY <1>6, <2>1, <2>5 DEF m
  <2>7. ASSUME NEW j \in 1 .. n PROVE j <= k + 1 <=> at[j] < p
    <3>1. j <= k + 1 <=> j <= k \/ j = i
      BY <1>6, <2>6
    <3>2. at[j] = s <=> j = i
      BY <1>1, <1>6, <1>8
    <3>3. at[j] < p <=> at[j] < o \/ at[j] = s
      BY <1>5, <1>6
    <3> QED
      BY <1>6, <3>1, <3>2, <3>3
  <2>8. k + 1 \in 0 .. n
    BY <1>6, <2>2
  <2> QED
    BY <2>6, <2>7, <2>8 DEF Taken
<1> QED
  BY <1>4, <1>7, <1>8 DEF p

\* The stream u is T with more bytes behind it.
Longer(u, T) ==
    /\ T \in Seq(Byte) /\ u \in Seq(Byte) /\ Len(T) <= Len(u)
    /\ \A i \in 1 .. Len(T) : u[i] = T[i]

\* A concatenation is longer.
LEMMA ConcatLonger ==
  ASSUME NEW T \in Seq(Byte), NEW v \in Seq(Byte)
  PROVE  /\ Longer(T \o v, T) /\ Len(T \o v) = Len(T) + Len(v)
         /\ \A i \in 1 .. Len(v) : (T \o v)[Len(T) + i] = v[i]
<1> DEFINE u == T \o v
           L == Len(T)
           V == Len(v)
<1>1. /\ u \in Seq(Byte) /\ Len(u) = L + V
      /\ \A i \in 1 .. L + V : u[i] = IF i <= L THEN T[i] ELSE v[i - L]
  BY ConcatProperties
<1>2. L \in Nat /\ V \in Nat
  OBVIOUS
<1> HIDE DEF u, L, V
<1>3. \A i \in 1 .. L : u[i] = T[i]
  BY <1>1, <1>2
<1>4. ASSUME NEW i \in 1 .. V PROVE u[L + i] = v[i]
  <2>1. L + i \in 1 .. L + V /\ ~(L + i <= L) /\ (L + i) - L = i
    BY <1>2
  <2> QED
    BY <1>1, <2>1
<1>5. L <= Len(u)
  BY <1>1, <1>2
<1>6. Longer(u, T)
  BY <1>1, <1>3, <1>5 DEF Longer, L
<1> QED
  BY <1>1, <1>4, <1>6 DEF u, L, V

\* More bytes other than h leave the frames as they are.
LEMMA GrowClear ==
  ASSUME NEW T, NEW h, NEW F, NEW end, NEW o, NEW u,
         Frames(T, h, F, end), Clear(T, h, F, end, o), Longer(u, T),
         \A q \in Len(T) + 1 .. Len(u) : u[q] # h
  PROVE  Frames(u, h, F, end) /\ Clear(u, h, F, end, o)
<1> DEFINE L == Len(T)
           U == Len(u)
<1>1. L \in Nat /\ U \in Nat /\ L <= U /\ o \in 0 .. L /\ F \in SUBSET Nat
  BY DEF Frames, Clear, Longer
<1>2. /\ \A q \in o + 1 .. L : T[q] = h => \E r \in F : o <= r /\ r < q /\ q <= end[r]
      /\ \A r \in F : r < end[r] /\ end[r] \in Nat /\ end[r] <= L /\ T[r + 1] = h
      /\ \A q \in 1 .. L : u[q] = T[q]
      /\ \A q \in L + 1 .. U : u[q] # h
  BY DEF Frames, Clear, Longer
<1> HIDE DEF L, U
<1>3. ASSUME NEW q \in o + 1 .. U, u[q] = h
      PROVE  \E r \in F : o <= r /\ r < q /\ q <= end[r]
  <2>1. q \in o + 1 .. L /\ q \in 1 .. L
    BY <1>1, <1>2, <1>3
  <2> QED
    BY <1>2, <1>3, <2>1
<1>4. ASSUME NEW r \in F PROVE r < end[r] /\ end[r] <= U /\ u[r + 1] = h
  <2> DEFINE e == end[r]
  <2>1. r \in Nat /\ r < e /\ e \in Nat /\ e <= L /\ T[r + 1] = h
    BY <1>1, <1>2
  <2> HIDE DEF e
  <2>2. r + 1 \in 1 .. L /\ e <= U
    BY <1>1, <2>1
  <2> QED
    BY <1>2, <2>1, <2>2 DEF e
<1>5. Frames(u, h, F, end)
  BY <1>4 DEF Frames, Longer, U
<1>6. Clear(u, h, F, end, o)
  BY <1>1, <1>3 DEF Clear, U
<1> QED
  BY <1>5, <1>6

\* One more frame, from s to e; and one more among those counted.
MoreEnds(F, end, s, e) == [r \in F \cup {s} |-> IF r = s THEN e ELSE end[r]]
MoreAt(at, n, s) == [i \in 1 .. n + 1 |-> IF i = n + 1 THEN s ELSE at[i]]

\* More bytes of which the first is h may be one more frame, to be counted or not.
LEMMA NewFrame ==
  ASSUME NEW T, NEW h, NEW F, NEW end, NEW o, NEW at, NEW n, NEW k, NEW u,
         Frames(T, h, F, end), Clear(T, h, F, end, o), Taken(F, at, n, k, o),
         Longer(u, T), Len(T) < Len(u), u[Len(T) + 1] = h,
         NEW G, G = F \cup {Len(T)}, NEW e, e = MoreEnds(F, end, Len(T), Len(u))
  PROVE  /\ Frames(u, h, G, e) /\ Clear(u, h, G, e, o)
         /\ Taken(G, at, n, k, o)
         /\ Taken(G, MoreAt(at, n, Len(T)), n + 1, k, o)
<1> DEFINE L == Len(T)
           U == Len(u)
           a == MoreAt(at, n, L)
<1>1. L \in Nat /\ U \in Nat /\ L < U /\ o \in 0 .. L /\ F \in SUBSET Nat
  BY DEF Frames, Clear, Longer
<1>2. /\ \A q \in o + 1 .. L : T[q] = h => \E r \in F : o <= r /\ r < q /\ q <= end[r]
      /\ \A r \in F : r < end[r] /\ end[r] \in Nat /\ end[r] <= L /\ T[r + 1] = h
      /\ \A r, s \in F : r < s => end[r] <= s
      /\ \A q \in 1 .. L : u[q] = T[q]
  BY DEF Frames, Clear, Longer
<1>3. /\ n \in Nat /\ k \in 0 .. n
      /\ at \in [1 .. n -> F] /\ \A i \in 1 .. n : at[i] \in F
      /\ \A i, j \in 1 .. n : i < j => at[i] < at[j]
      /\ \A i \in 1 .. n : i <= k <=> at[i] < o
  BY DEF Taken
<1>4. u[L + 1] = h /\ G = F \cup {L}
  OBVIOUS
<1>5. /\ e = [r \in G |-> IF r = L THEN U ELSE end[r]]
      /\ a = [i \in 1 .. n + 1 |-> IF i = n + 1 THEN L ELSE at[i]]
  BY DEF MoreEnds, MoreAt
<1> HIDE DEF L, U, a
<1>6. ASSUME NEW r \in F PROVE r # L /\ r < L /\ r \in Nat
  <2> DEFINE x == end[r]
  <2>1. r \in Nat /\ r < x /\ x \in Nat /\ x <= L
    BY <1>1, <1>2
  <2> HIDE DEF x
  <2> QED
    BY <1>1, <2>1
<1>7. /\ e[L] = U /\ \A r \in F : e[r] = end[r]
      /\ G \in SUBSET Nat /\ e \in [G -> Nat]
  <2>1. e[L] = U /\ \A r \in F : e[r] = end[r]
    BY <1>4, <1>5, <1>6
  <2>2. G \in SUBSET Nat
    BY <1>1, <1>4
  <2>3. \A r \in G : (IF r = L THEN U ELSE end[r]) \in Nat
    BY <1>1, <1>2, <1>4
  <2> QED
    BY <1>5, <2>1, <2>2, <2>3
<1>8. ASSUME NEW r \in G PROVE r < e[r] /\ e[r] <= U /\ u[r + 1] = h
  <2>1. CASE r = L
    BY <1>1, <1>4, <1>7, <2>1
  <2>2. CASE r \in F
    <3> DEFINE x == end[r]
    <3>1. r \in Nat /\ r < x /\ x \in Nat /\ x <= L /\ T[r + 1] = h /\ e[r] = x
      BY <1>1, <1>2, <1>7, <2>2
    <3> HIDE DEF x
    <3>2. r + 1 \in 1 .. L /\ x <= U
      BY <1>1, <3>1
    <3> QED
      BY <1>2, <3>1, <3>2
  <2> QED
    BY <1>4, <2>1, <2>2
<1>9. ASSUME NEW r \in G, NEW s \in G, r < s PROVE e[r] <= s
  <2>1. CASE r \in F /\ s \in F
    BY <1>2, <1>7, <1>9, <2>1
  <2>2. CASE r \in F /\ s = L
    BY <1>2, <1>7, <2>2
  <2>3. CASE r = L
    <3>1. s = L \/ s < L
      BY <1>4, <1>6
    <3> QED
      BY <1>1, <1>6, <1>9, <2>3, <3>1
  <2> QED
    BY <1>4, <2>1, <2>2, <2>3
<1>10. Frames(u, h, G, e)
  BY <1>7, <1>8, <1>9 DEF Frames, Longer, U
<1>11. ASSUME NEW q \in o + 1 .. U, u[q] = h
       PROVE  \E r \in G : o <= r /\ r < q /\ q <= e[r]
  <2>1. CASE q <= L
    <3>1. q \in o + 1 .. L /\ q \in 1 .. L
      BY <1>1, <2>1
    <3>2. PICK r \in F : o <= r /\ r < q /\ q <= end[r]
      BY <1>2, <1>11, <3>1
    <3> QED
      BY <1>4, <1>7, <3>2
  <2>2. CASE L < q
    <3>1. L \in G /\ o <= L /\ q <= e[L]
      BY <1>1, <1>4, <1>7
    <3> QED
      BY <2>2, <3>1
  <2> QED
    BY <1>1, <2>1, <2>2
<1>12. Clear(u, h, G, e, o)
  <2>1. o \in 0 .. U
    BY <1>1
  <2> QED
    BY <1>11, <2>1 DEF Clear, U
<1>13. Taken(G, at, n, k, o)
  <2>1. at \in [1 .. n -> G]
    BY <1>3, <1>4
  <2> QED
    BY <1>3, <2>1 DEF Taken
<1>14. a[n + 1] = L /\ \A i \in 1 .. n : a[i] = at[i]
  BY <1>3, <1>5
<1>15. a \in [1 .. n + 1 -> G]
  <2>1. \A i \in 1 .. n + 1 : (IF i = n + 1 THEN L ELSE at[i]) \in G
    <3>1. \A i \in 1 .. n + 1 : i # n + 1 => i \in 1 .. n
      BY <1>3
    <3> QED
      BY <1>3, <1>4, <3>1
  <2> QED
    BY <1>5, <2>1
<1>16. ASSUME NEW i \in 1 .. n + 1, NEW j \in 1 .. n + 1, i < j PROVE a[i] < a[j]
  <2>1. i \in 1 .. n
    BY <1>3, <1>16
  <2>2. CASE j = n + 1
    BY <1>3, <1>6, <1>14, <2>1, <2>2
  <2>3. CASE j # n + 1
    <3>1. j \in 1 .. n
      BY <1>3, <2>3
    <3> QED
      BY <1>3, <1>14, <1>16, <2>1, <3>1
  <2> QED
    BY <2>2, <2>3
<1>17. ASSUME NEW i \in 1 .. n + 1 PROVE i <= k <=> a[i] < o
  <2>1. CASE i = n + 1
    BY <1>1, <1>3, <1>14, <2>1
  <2>2. CASE i # n + 1
    <3>1. i \in 1 .. n
      BY <1>3, <2>2
    <3> QED
      BY <1>3, <1>14, <3>1
  <2> QED
    BY <2>1, <2>2
<1>18. Taken(G, a, n + 1, k, o)
  <2>1. n + 1 \in Nat /\ k \in 0 .. n + 1
    BY <1>3
  <2> QED
    BY <1>15, <1>16, <1>17, <2>1 DEF Taken
<1> QED
  BY <1>10, <1>12, <1>13, <1>18 DEF a, L

=============================================================================
