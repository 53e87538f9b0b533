----------------------------- MODULE FlashProofs -----------------------------
(***************************************************************************)
(* Programming the flash: the packets the target sends, and the image.     *)
(*                                                                         *)
(* Framing, for any stream, chunks and CRC.  What flashpacket_get does to  *)
(* a buffer that holds the tape t (FlashpacketGet) is put in terms of the  *)
(* stream, t and what is still on the wire: Aligned says which packets the *)
(* stream holds, that the handler reads on between two of them and has     *)
(* handed out the packets sent so far.  The byte put back at the end of    *)
(* every run of the loop keeps this true only as long as it starts no      *)
(* packet (Fresh), which is why no CRC may end in the start of frame.      *)
(*                                                                         *)
(* Programming, for any images, contents, failures and losses.  That exit  *)
(* code 0 means a programmed flash rests on what a request says about the  *)
(* blocks before it: when block k is requested after a successful erasure, *)
(* blocks 1 to k hold the image already (Upto).  Skipped blocks keep this  *)
(* true because they are 0xff in the image and, as nothing is ever mixed,  *)
(* in the flash.                                                           *)
(***************************************************************************)
EXTENDS FlashFraming, FlashProgram, BufferProofs

\* The length a frame behind position s of the stream T states, where the frame ends,
\* its payload, and whether its last two bytes are the CRC of the payload.
SizeAt(T, s) == T[s + 3] * Base + T[s + 2]
EndAt(T, s) == s + 5 + SizeAt(T, s)
PayloadAt(T, s) == Slice(T, s + 3, SizeAt(T, s))
Intact(T, s) ==
    T[EndAt(T, s)] * Base + T[EndAt(T, s) - 1] = Crc(PayloadAt(T, s))

\* The length is a number when both its bytes are there.
LEMMA SizeIsNat ==
  ASSUME NEW T \in Seq(Byte), NEW s \in Nat, s + 3 <= Len(T)
  PROVE  SizeAt(T, s) \in Nat /\ EndAt(T, s) \in Nat
<1>1. T[s + 2] \in Byte /\ T[s + 3] \in Byte
  OBVIOUS
<1>2. T[s + 2] \in Nat /\ T[s + 3] \in Nat /\ Base \in Nat
  BY <1>1, BaseAssumption
<1> QED
  BY <1>2 DEF SizeAt, EndAt

\* A frame that is all in T is the same in any stream T begins.
LEMMA SameFrame ==
  ASSUME NEW T, NEW u, Longer(u, T), NEW s \in Nat,
         s + 3 <= Len(T), EndAt(T, s) <= Len(T)
  PROVE  /\ EndAt(u, s) = EndAt(T, s)
         /\ PayloadAt(u, s) = PayloadAt(T, s)
         /\ Intact(u, s) <=> Intact(T, s)
         /\ u[EndAt(u, s)] = T[EndAt(T, s)]
<1> DEFINE L == Len(T)
           U == Len(u)
           e == EndAt(T, s)
           z == SizeAt(T, s)
<1>1. /\ T \in Seq(Byte) /\ u \in Seq(Byte) /\ L \in Nat /\ U \in Nat /\ L <= U
      /\ \A i \in 1 .. L : u[i] = T[i]
  BY DEF Longer
<1>2. z \in Nat /\ e = s + 5 + z /\ s + 3 <= L /\ e <= L
  BY <1>1, SizeIsNat DEF EndAt
<1> HIDE DEF L, U, e, z
<1>3. s + 2 \in 1 .. L /\ s + 3 \in 1 .. L /\ e \in 1 .. L /\ e - 1 \in 1 .. L
  BY <1>1, <1>2
<1>4. SizeAt(u, s) = z
  BY <1>1, <1>3 DEF SizeAt, z
<1>5. EndAt(u, s) = e
  BY <1>2, <1>4 DEF EndAt
<1>6. Slice(u, s + 3, z) = Slice(T, s + 3, z)
  <2> DEFINE p == s + 3
  <2>1. p \in Nat /\ p + z <= L /\ p + z <= U
    BY <1>1, <1>2
  <2> HIDE DEF p
  <2>2. /\ Slice(u, p, z) \in Seq(Byte) /\ Len(Slice(u, p, z)) = z
        /\ \A i \in 1 .. z : Slice(u, p, z)[i] = u[p + i]
    BY <1>1, <1>2, <2>1, SliceIs, Zenon DEF U
  <2>3. /\ Slice(T, p, z) \in Seq(Byte) /\ Len(Slice(T, p, z)) = z
        /\ \A i \in 1 .. z : Slice(T, p, z)[i] = T[p + i]
    BY <1>1, <1>2, <2>1, SliceIs, Zenon DEF L
  <2>4. \A i \in 1 .. z : u[p + i] = T[p + i]
    BY <1>1, <1>2, <2>1
  <2>5. Slice(u, p, z) = Slice(T, p, z)
    BY <2>2, <2>3, <2>4, SeqEqual
  <2> QED
    BY <2>5 DEF p
<1>7. PayloadAt(u, s) = PayloadAt(T, s)
  BY <1>4, <1>6 DEF PayloadAt, z
<1>8. u[e] = T[e] /\ u[e - 1] = T[e - 1]
  BY <1>1, <1>3
<1> QED
  BY <1>5, <1>7, <1>8 DEF Intact, e
-----------------------------------------------------------------------------
(* What flashpacket_get does, whatever the buffer holds.                   *)

\* No start of frame is there: all is read, and one byte put back, also when there
\* was none to read.
Nothing(g, b, t) ==
    /\ \A q \in Len(t) - b.count + 1 .. Len(t) : t[q] # Header
    /\ g.ret = -1 /\ g.buf.count = 1

\* A frame begins behind s and is not all there: what there is of it is put back.
Partial(g, b, t, s) ==
    /\ Found(t, Header, Len(t) - b.count, s)
    /\ s + 3 <= Len(t) => Len(t) < EndAt(t, s)
    /\ g.ret = -1 /\ g.buf.count = Len(t) - s

\* A frame begins behind s and is all there: it is taken, and its payload handed out
\* when the CRC is right.
Whole(g, b, t, s) ==
    /\ Found(t, Header, Len(t) - b.count, s)
    /\ s + 3 <= Len(t) /\ EndAt(t, s) <= Len(t)
    /\ g.buf.count = Len(t) - EndAt(t, s)
    /\ IF Intact(t, s) THEN g.ret = 0 /\ g.data = PayloadAt(t, s) ELSE g.ret = -1

\* Sought finds the first start of frame among the unread bytes, or counts them.
LEMMA SoughtIs ==
  ASSUME NEW b, Good(b), NEW t, Holds(b, t),
         NEW k, k = Sought(b), NEW o, o = Len(t) - b.count
  PROVE  \/ k = b.count /\ \A q \in o + 1 .. Len(t) : t[q] # Header
         \/ k \in 1 .. b.count /\ Found(t, Header, o, o + k - 1)
<1> DEFINE c == b.count
           L == Len(t)
           I == {i \in 1 .. Len(Unread(b)) : Unread(b)[i] = Header}
<1>1. /\ c \in 0 .. BufSize /\ BufSize \in Nat /\ L \in Nat /\ BufSize <= L
  BY Fields, BufSizeAssumption DEF Good, Holds
<1>2. /\ Len(Unread(b)) = c
      /\ \A i \in 1 .. c : Unread(b)[i] = t[L - c + i]
  BY UnreadIs
<1>3. o = L - c
  OBVIOUS
<1>4. k = LET at == IF I # {} THEN Min(I) ELSE 0 IN IF at = 0 THEN c ELSE at
  BY DEF Sought, SelectInSeq
<1> HIDE DEF c, L
<1>5. I = {i \in 1 .. c : t[o + i] = Header}
  BY <1>2, <1>3
<1> HIDE DEF I
<1>6. o \in Nat /\ o + c = L
  BY <1>1, <1>3
<1>7. CASE I = {}
  <2>1. k = c
    BY <1>4, <1>7
  <2>2. ASSUME NEW q \in o + 1 .. L PROVE t[q] # Header
    <3>1. q - o \in 1 .. c /\ o + (q - o) = q
      BY <1>1, <1>6
    <3> QED
      BY <1>5, <1>7, <3>1
  <2> QED
    BY <2>1, <2>2 DEF c, L
<1>8. CASE I # {}
  <2>1. I \in SUBSET Nat
    BY <1>5
  <2>2. \E x \in I : \A y \in I : x <= y
    BY <1>8, <2>1, LeastElement
  <2>3. Min(I) \in I /\ \A y \in I : Min(I) <= y
    BY <2>2 DEF Min
  <2>4. k = Min(I)
    <3>1. Min(I) # 0
      BY <1>5, <2>3
    <3> QED
      BY <1>4, <1>8, <3>1
  <2>5. k \in 1 .. c /\ t[o + k] = Header /\ \A y \in I : k <= y
    BY <1>5, <2>3, <2>4
  <2>a. k \in Nat /\ 1 <= k /\ k <= c /\ c \in Nat /\ o \in Nat /\ L \in Nat /\ o + c = L
    BY <1>1, <1>6, <2>5
  <2> DEFINE s == o + k - 1
  <2>6. s \in Nat /\ o <= s /\ s < L /\ s + 1 = o + k
    BY <2>a
  <2>7. ASSUME NEW q \in o + 1 .. s PROVE t[q] # Header
    <3> DEFINE j == q - o
    <3>1. q \in Nat /\ o + 1 <= q /\ q + 1 <= o + k
      BY <2>a, <2>6, SMTT(30)
    <3>2. k \in Nat /\ k <= c /\ c \in Nat /\ o \in Nat
      BY <2>a
    <3>a. j \in Nat /\ o + j = q /\ 1 <= j /\ j + 1 <= k
      BY <3>1, <3>2, SMTT(30)
    <3> HIDE DEF j
    <3>3. j \in 1 .. c
      BY <3>2, <3>a
    <3>4. o + j = q
      BY <3>a
    <3>5. ~(k <= j)
      BY <3>2, <3>a
    <3> QED
      BY <1>5, <2>5, <3>3, <3>4, <3>5
  <2>8. t[s + 1] = Header
    BY <2>5, <2>6
  <2> HIDE DEF s
  <2>9. Found(t, Header, o, s)
    BY <2>6, <2>7, <2>8 DEF Found, L
  <2> QED
    BY <2>5, <2>9 DEF c, s
<1> QED
  BY <1>7, <1>8

\* Data and CRC are read from a buffer that holds them.
LEMMA CheckedIs ==
  ASSUME NEW t \in Seq(Byte), NEW s \in Nat,
         s + 3 <= Len(t), EndAt(t, s) <= Len(t),
         NEW r, r.data \in Seq(Byte), Len(r.data) = SizeAt(t, s) + 2,
         \A i \in 1 .. SizeAt(t, s) + 2 : r.data[i] = t[s + 3 + i],
         NEW g \in Checked(r, SizeAt(t, s))
  PROVE  /\ g.buf = r.buf
         /\ IF Intact(t, s) THEN g.ret = 0 /\ g.data = PayloadAt(t, s) ELSE g.ret = -1
<1> DEFINE z == SizeAt(t, s)
           e == EndAt(t, s)
           d == r.data
<1>1. z \in Nat /\ e = s + 5 + z /\ e <= Len(t) /\ Len(t) \in Nat
  BY SizeIsNat DEF EndAt
<1>2. d \in Seq(Byte) /\ Len(d) = z + 2 /\ \A i \in 1 .. z + 2 : d[i] = t[s + 3 + i]
  OBVIOUS
<1>3. g \in Checked(r, z)
  OBVIOUS
<1> HIDE DEF z, d, e
<1>4. SubSeq(d, 1, z) = PayloadAt(t, s)
  <2> DEFINE p == s + 3
             v == Slice(t, p, z)
  <2>1. p \in Nat /\ p + z <= Len(t)
    BY <1>1
  <2>2. \A i \in 1 .. z : d[i] = t[p + i]
    BY <1>1, <1>2
  <2> HIDE DEF p
  <2>3. v \in Seq(Byte) /\ Len(v) = z /\ \A i \in 1 .. z : v[i] = t[p + i]
    BY <1>1, <2>1, SliceIs, Zenon
  <2>4. /\ SubSeq(d, 1, z) \in Seq(Byte) /\ Len(SubSeq(d, 1, z)) = z
        /\ \A i \in 1 .. z : SubSeq(d, 1, z)[i] = d[i]
    BY <1>1, <1>2
  <2> HIDE DEF v
  <2>5. SubSeq(d, 1, z) = v
    BY <2>2, <2>3, <2>4, SeqEqual
  <2> QED
    BY <2>5 DEF PayloadAt, p, v, z
<1>5. d[z + 2] = t[e] /\ d[z + 1] = t[e - 1]
  <2>1. /\ z + 2 \in 1 .. z + 2 /\ z + 1 \in 1 .. z + 2
        /\ s + 3 + (z + 2) = e /\ s + 3 + (z + 1) = e - 1
    BY <1>1
  <2> QED
    BY <1>2, <2>1
<1>6. g = IF t[e] * Base + t[e - 1] = Crc(PayloadAt(t, s))
          THEN [ret |-> 0, buf |-> r.buf, data |-> PayloadAt(t, s)]
          ELSE NoPacket(r.buf)
  BY <1>3, <1>4, <1>5 DEF Checked, d
<1>7. CASE Intact(t, s)
  BY <1>6, <1>7 DEF Intact, e
<1>8. CASE ~Intact(t, s)
  BY <1>6, <1>8 DEF Intact, NoPacket, e
<1> QED
  BY <1>7, <1>8

\* The frame behind s has been measured: b is what follows its length.
LEMMA MeasuredIs ==
  ASSUME NEW t, NEW s \in Nat, s + 3 <= Len(t),
         NEW r, Good(r.buf), Holds(r.buf, t), r.buf.count = Len(t) - s - 3,
         r.buf.count <= BufSize - 3,
         FrameSize(r.data) = SizeAt(t, s),
         NEW g \in Measured(r)
  PROVE  /\ Good(g.buf) /\ Holds(g.buf, t)
         /\ \/ /\ Len(t) < EndAt(t, s)
               /\ g.ret = -1 /\ g.buf.count = Len(t) - s
            \/ /\ EndAt(t, s) <= Len(t) /\ g.buf.count = Len(t) - EndAt(t, s)
               /\ IF Intact(t, s) THEN g.ret = 0 /\ g.data = PayloadAt(t, s)
                                  ELSE g.ret = -1
<1> DEFINE z == SizeAt(t, s)
           e == EndAt(t, s)
           b == r.buf
           c == b.count
           L == Len(t)
<1>1. /\ t \in Seq(Byte) /\ L \in Nat /\ z \in Nat /\ e = s + 5 + z
      /\ c \in Nat /\ BufSize \in Nat /\ c = L - s - 3 /\ c <= BufSize - 3
  <2>1. t \in Seq(Byte) /\ L \in Nat
    BY DEF Holds
  <2>2. z \in Nat /\ e = s + 5 + z
    BY <2>1, SizeIsNat DEF EndAt
  <2>3. c \in Nat /\ BufSize \in Nat
    BY Fields, BufSizeAssumption DEF Good
  <2> QED
    BY <2>1, <2>2, <2>3
<1>2. g \in IF 2 + z > c THEN {NoPacket(buffer_rewind(b, 3))}
            ELSE UNION {Checked(x, z) : x \in {buffer_read(b, z + 2)}}
  BY DEF Measured, buffer_size
<1> HIDE DEF z, e, b, c, L
<1>a. z \in Nat /\ e = s + 5 + z /\ L \in Nat /\ c \in Nat /\ c = L - s - 3
  BY <1>1
<1>3. CASE 2 + z > c
  <2>1. g = NoPacket(buffer_rewind(b, 3))
    BY <1>2, <1>3
  <2>2. 3 <= BufSize - c
    BY <1>1
  <2>3. PutBack(buffer_rewind(b, 3), b, t, 3)
    BY <2>2, RewindThere DEF b, c
  <2>4. L < e /\ c + 3 = L - s
    BY <1>3, <1>a, SMTT(30)
  <2> QED
    BY <2>1, <2>3, <2>4 DEF PutBack, NoPacket, L, e, c
<1>4. CASE ~(2 + z > c)
  <2> DEFINE x == buffer_read(b, z + 2)
  <2>1. g \in Checked(x, z)
    BY <1>2, <1>4
  <2>2. z + 2 \in Nat /\ z + 2 <= c
    BY <1>4, <1>a, SMTT(30)
  <2>3. ReadOf(x, b, t, z + 2)
    <3>1. Good(b) /\ Holds(b, t) /\ z + 2 \in Nat /\ z + 2 <= b.count
      BY <2>2 DEF b, c
    <3> QED BY <3>1, ReadThere
  <2> HIDE DEF x
  <2>4. /\ x.data \in Seq(Byte) /\ Len(x.data) = z + 2
        /\ \A i \in 1 .. z + 2 : x.data[i] = t[s + 3 + i]
    <3>1. \A i \in 1 .. z + 2 : x.data[i] = t[(L - c) + i]
      BY <2>3 DEF ReadOf, L, c
    <3>2. L - c = s + 3
      BY <1>a, SMTT(30)
    <3> QED
      BY <2>3, <3>1, <3>2 DEF ReadOf
  <2>5. e <= L
    BY <1>a, <2>2, SMTT(30)
  <2>6. /\ g.buf = x.buf
        /\ IF Intact(t, s) THEN g.ret = 0 /\ g.data = PayloadAt(t, s) ELSE g.ret = -1
    <3>1. /\ t \in Seq(Byte) /\ s + 3 <= Len(t) /\ EndAt(t, s) <= Len(t)
          /\ x.data \in Seq(Byte) /\ Len(x.data) = SizeAt(t, s) + 2
          /\ \A i \in 1 .. SizeAt(t, s) + 2 : x.data[i] = t[s + 3 + i]
      BY <1>1, <2>4, <2>5 DEF z, e, L
    <3>2. g \in Checked(x, SizeAt(t, s))
      BY <2>1 DEF z
    <3> QED
      BY <3>1, <3>2, CheckedIs, ZenonT(30)
  <2>7. Good(x.buf) /\ Holds(x.buf, t) /\ x.buf.count = c - (z + 2)
    BY <2>3 DEF ReadOf, c
  <2>8. c - (z + 2) = L - e
    BY <1>a, SMTT(30)
  <2> QED
    BY <2>5, <2>6, <2>7, <2>8 DEF e, L
<1> QED
  BY <1>3, <1>4

\* flashpacket_get takes the first frame of what it finds in the buffer, if it is all
\* there.  On an empty buffer it puts back one byte that it has not read.
THEOREM FlashpacketGet ==
  ASSUME NEW b, Good(b), NEW t, Holds(b, t), NEW g \in flashpacket_get(b)
  PROVE  /\ Good(g.buf) /\ Holds(g.buf, t)
         /\ Nothing(g, b, t) \/ \E s \in Nat : Partial(g, b, t, s) \/ Whole(g, b, t, s)
<1> DEFINE c == b.count
           L == Len(t)
           o == L - c
           k == Sought(b)
           r == buffer_read(b, k)
<1>0. /\ c \in 0 .. BufSize /\ BufSize \in Nat \ {0} /\ L \in Nat /\ BufSize <= L
      /\ t \in Seq(Byte)
  BY Fields, BufSizeAssumption DEF Good, Holds
<1>1. g \in Headed(r.buf)
  BY DEF flashpacket_get, buffer_size
<1>2. \/ k = c /\ \A q \in o + 1 .. L : t[q] # Header
      \/ k \in 1 .. c /\ Found(t, Header, o, o + k - 1)
  BY SoughtIs
<1> HIDE DEF c, L, o, k, r
<1>4. k \in Nat /\ k <= c
  BY <1>0, <1>2
<1>5. ReadOf(r, b, t, k)
  BY <1>4, ReadThere DEF r, c
<1> DEFINE d == r.buf
           m == d.count
<1>6. Good(d) /\ Holds(d, t) /\ m = c - k
  BY <1>5 DEF ReadOf, c
<1> HIDE DEF d, m
<1>7. m \in Nat /\ m + 1 <= BufSize
  <2>1. c = 0 \/ k \in 1 .. c
    BY <1>0, <1>2
  <2> QED BY <1>0, <1>4, <1>6, <2>1
<1>8. m < 2 => g.ret = -1 /\ PutBack(g.buf, d, t, 1)
  <2> SUFFICES ASSUME m < 2 PROVE g.ret = -1 /\ PutBack(g.buf, d, t, 1)
    OBVIOUS
  <2>1. g = NoPacket(buffer_rewind(d, 1))
    BY <1>1 DEF Headed, buffer_size, d, m
  <2>2. 1 <= BufSize - m
    BY <1>0, <1>7
  <2>3. PutBack(buffer_rewind(d, 1), d, t, 1)
    BY <1>6, <2>2, RewindThere DEF m
  <2> QED
    BY <2>1, <2>3 DEF NoPacket
<1>9. CASE k = c /\ \A q \in o + 1 .. L : t[q] # Header
  <2>1. m = 0 /\ m < 2
    BY <1>0, <1>6, <1>9
  <2>3. g.ret = -1 /\ Good(g.buf) /\ Holds(g.buf, t) /\ g.buf.count = 1
    BY <1>8, <2>1 DEF PutBack, m
  <2> QED
    BY <1>9, <2>3 DEF Nothing, o, L, c
<1>10. CASE k \in 1 .. c /\ Found(t, Header, o, o + k - 1)
  <2> DEFINE s == o + k - 1
  <2>1. o \in Nat /\ s \in Nat /\ s + 1 + m = L /\ s + 1 = o + k
    BY <1>0, <1>4, <1>6, <1>10 DEF o
  <2>2. Found(t, Header, o, s)
    BY <1>10
  <2> HIDE DEF s
  <2>3. CASE m < 2
    <3>1. m + 1 = L - s /\ ~(s + 3 <= L)
      BY <1>0, <1>7, <2>1, <2>3
    <3>2. g.ret = -1 /\ Good(g.buf) /\ Holds(g.buf, t) /\ g.buf.count = L - s
      BY <1>8, <2>3, <3>1 DEF PutBack, m
    <3>3. Partial(g, b, t, s)
      BY <2>2, <3>1, <3>2 DEF Partial, o, L, c
    <3> QED
      BY <2>1, <3>2, <3>3
  <2>4. CASE ~(m < 2)
    <3> DEFINE x == buffer_read(d, 2)
    <3>1. g \in Measured(x)
      BY <1>1, <2>4 DEF Headed, buffer_size, d, m
    <3>2. ReadOf(x, d, t, 2)
      <4>1. 2 <= m
        BY <1>7, <2>4
      <4> QED
        BY <1>6, <4>1, ReadThere DEF m
    <3> HIDE DEF x
    <3>3. Good(x.buf) /\ Holds(x.buf, t) /\ x.buf.count = m - 2
      BY <3>2 DEF ReadOf, m
    <3>4. m - 2 = L - s - 3 /\ m - 2 <= BufSize - 3 /\ s + 3 <= L
      BY <1>0, <1>7, <2>1, <2>4
    <3>5. FrameSize(x.data) = SizeAt(t, s)
      <4>1. \A i \in 1 .. 2 : x.data[i] = t[(L - m) + i]
        BY <3>2 DEF ReadOf, L, m
      <4>2. (L - m) + 1 = s + 2 /\ (L - m) + 2 = s + 3
        BY <1>0, <1>7, <2>1
      <4>3. x.data[1] = t[s + 2] /\ x.data[2] = t[s + 3]
        BY <4>1, <4>2
      <4> QED
        BY <4>3 DEF FrameSize, SizeAt
    <3>6. /\ Good(g.buf) /\ Holds(g.buf, t)
          /\ \/ /\ Len(t) < EndAt(t, s)
                /\ g.ret = -1 /\ g.buf.count = Len(t) - s
             \/ /\ EndAt(t, s) <= Len(t) /\ g.buf.count = Len(t) - EndAt(t, s)
                /\ IF Intact(t, s) THEN g.ret = 0 /\ g.data = PayloadAt(t, s)
                                   ELSE g.ret = -1
      BY <2>1, <3>1, <3>3, <3>4, <3>5, MeasuredIs DEF L
    <3>7. Partial(g, b, t, s) \/ Whole(g, b, t, s)
      BY <2>2, <3>4, <3>6 DEF Partial, Whole, o, L, c
    <3> QED
      BY <2>1, <3>6, <3>7
  <2> QED
    BY <2>3, <2>4
<1> QED
  BY <1>2, <1>9, <1>10


-----------------------------------------------------------------------------
(* What the target puts on the line.                                       *)

\* A packet with payload p and n for its CRC.
Packet(p, n) ==
    <<Header, Lsb(Len(p)), Msb(Len(p))>> \o p \o <<Lsb(n), Msb(n)>>

\* Two bytes make the number they came from.
LEMMA TwoBytes ==
  ASSUME NEW n \in 0 .. Base * Base - 1
  PROVE  /\ Lsb(n) \in 0 .. Base - 1 /\ Msb(n) \in 0 .. Base - 1
         /\ Msb(n) * Base + Lsb(n) = n
<1>1. Base \in Nat \ {0} /\ n \in Nat /\ n < Base * Base
  BY BaseAssumption
<1> QED
  BY <1>1, SMT DEF Lsb, Msb

\* The bytes of a packet.
LEMMA PacketBytes ==
  ASSUME NEW p \in Seq(Byte), Len(p) < Base * Base, NEW c \in 0 .. Base * Base - 1
  PROVE  /\ Packet(p, c) \in Seq(Byte) /\ Len(Packet(p, c)) = Len(p) + 5
         /\ Packet(p, c)[1] = Header
         /\ Packet(p, c)[3] * Base + Packet(p, c)[2] = Len(p)
         /\ \A i \in 1 .. Len(p) : Packet(p, c)[3 + i] = p[i]
         /\ Packet(p, c)[2] = Lsb(Len(p)) /\ Packet(p, c)[3] = Msb(Len(p))
         /\ Packet(p, c)[Len(p) + 4] = Lsb(c) /\ Packet(p, c)[Len(p) + 5] = Msb(c)
         /\ Packet(p, c)[Len(p) + 5] * Base + Packet(p, c)[Len(p) + 4] = c
<1> DEFINE n == Len(p)
           x == Lsb(n)
           y == Msb(n)
           lo == Lsb(c)
           hi == Msb(c)
           h == <<Header, x, y>>
           v == h \o p
           j == <<lo, hi>>
           w == v \o j
<1>1. n \in Nat /\ Base \in Nat \ {0} /\ n < Base * Base
  BY BaseAssumption
<1>2. x \in 0 .. Base - 1 /\ y \in 0 .. Base - 1 /\ y * Base + x = n
  <2> HIDE DEF n
  <2>1. n \in 0 .. Base * Base - 1
    BY <1>1
  <2> QED BY <1>1, <2>1, TwoBytes DEF x, y
<1>3. lo \in 0 .. Base - 1 /\ hi \in 0 .. Base - 1 /\ hi * Base + lo = c
  BY TwoBytes
<1> HIDE DEF x, y, lo, hi
<1>5. Header \in Byte /\ x \in Byte /\ y \in Byte /\ lo \in Byte /\ hi \in Byte
  BY <1>2, <1>3, BaseAssumption, HeaderAssumption
<1>6. h \in Seq(Byte) /\ Len(h) = 3 /\ h[1] = Header /\ h[2] = x /\ h[3] = y
  BY <1>5
<1>7. j \in Seq(Byte) /\ Len(j) = 2 /\ j[1] = lo /\ j[2] = hi
  BY <1>5
<1> HIDE DEF h, j
<1>8. Longer(v, h) /\ Len(v) = Len(h) + n /\ \A i \in 1 .. n : v[Len(h) + i] = p[i]
  BY <1>6, ConcatLonger, Zenon
<1> HIDE DEF v
<1>9. /\ v \in Seq(Byte) /\ Len(v) = 3 + n
      /\ \A i \in 1 .. 3 : v[i] = h[i]
      /\ \A i \in 1 .. n : v[3 + i] = p[i]
  BY <1>6, <1>8 DEF Longer
<1>a. Longer(w, v) /\ Len(w) = Len(v) + Len(j) /\ \A i \in 1 .. Len(j) : w[Len(v) + i] = j[i]
  BY <1>7, <1>9, ConcatLonger, Zenon
<1>10. Longer(w, v) /\ Len(w) = Len(v) + 2 /\ \A i \in 1 .. 2 : w[Len(v) + i] = j[i]
  BY <1>7, <1>a
<1> HIDE DEF w, n
<1>11. w \in Seq(Byte) /\ Len(w) = n + 5 /\ \A i \in 1 .. 3 + n : w[i] = v[i]
  BY <1>1, <1>9, <1>10 DEF Longer
<1>12. w[n + 4] = lo /\ w[n + 5] = hi
  <2>1. Len(v) + 1 = n + 4 /\ Len(v) + 2 = n + 5 /\ 1 \in 1 .. 2 /\ 2 \in 1 .. 2
    BY <1>1, <1>9
  <2> QED BY <1>7, <1>10, <2>1
<1>13. w[1] = Header /\ w[2] = x /\ w[3] = y
  <2>1. 1 \in 1 .. 3 + n /\ 2 \in 1 .. 3 + n /\ 3 \in 1 .. 3 + n
    BY <1>1
  <2> QED BY <1>6, <1>9, <1>11, <2>1
<1>14. \A i \in 1 .. n : w[3 + i] = p[i]
  <2>1. \A i \in 1 .. n : 3 + i \in 1 .. 3 + n
    BY <1>1
  <2> QED BY <1>9, <1>11, <2>1
<1>15. w = Packet(p, c)
  BY DEF Packet, w, v, h, j, x, y, lo, hi, n
<1>16. w[3] * Base + w[2] = n /\ w[n + 5] * Base + w[n + 4] = c
  BY <1>2, <1>3, <1>12, <1>13
<1>17. /\ w[2] = Lsb(n) /\ w[3] = Msb(n) /\ w[n + 4] = Lsb(c) /\ w[n + 5] = Msb(c)
  BY <1>12, <1>13 DEF x, y, lo, hi
<1> QED
  BY <1>11, <1>13, <1>14, <1>15, <1>16, <1>17 DEF n

\* The stream u ends with a packet behind T.
Framed(u, T, p, c) ==
    /\ Longer(u, T) /\ Len(T) + 3 <= Len(u)
    /\ u[Len(T) + 1] = Header /\ EndAt(u, Len(T)) = Len(u)
    /\ PayloadAt(u, Len(T)) = p
    /\ Intact(u, Len(T)) <=> c = Crc(p)
    /\ u[Len(u)] = Msb(c)

\* A packet behind a stream T is one more frame of it.
LEMMA PacketFrame ==
  ASSUME NEW p \in Seq(Byte), Len(p) < Base * Base, NEW c \in 0 .. Base * Base - 1,
         NEW T \in Seq(Byte)
  PROVE  Framed(T \o Packet(p, c), T, p, c)
<1> DEFINE v == Packet(p, c)
           u == T \o v
           s == Len(T)
           n == Len(p)
<1>1. /\ v \in Seq(Byte) /\ Len(v) = n + 5
      /\ v[1] = Header /\ v[3] * Base + v[2] = n
      /\ \A i \in 1 .. n : v[3 + i] = p[i]
      /\ v[n + 5] = Msb(c) /\ v[n + 5] * Base + v[n + 4] = c
  BY PacketBytes
<1>2. n \in Nat /\ s \in Nat
  OBVIOUS
<1> HIDE DEF v, n
<1>3. /\ Longer(u, T) /\ Len(u) = s + Len(v)
      /\ \A i \in 1 .. Len(v) : u[s + i] = v[i]
  BY <1>1, ConcatLonger
<1> HIDE DEF u, s
<1>4. /\ Len(u) = s + n + 5 /\ u \in Seq(Byte)
      /\ \A i \in 1 .. n + 5 : u[s + i] = v[i]
  BY <1>1, <1>2, <1>3 DEF Longer
<1>5. /\ 1 \in 1 .. n + 5 /\ 2 \in 1 .. n + 5 /\ 3 \in 1 .. n + 5 /\ n + 5 \in 1 .. n + 5
      /\ n + 4 \in 1 .. n + 5 /\ s + (n + 4) = s + (n + 5) - 1
      /\ \A i \in 1 .. n : 3 + i \in 1 .. n + 5 /\ s + (3 + i) = (s + 3) + i
  BY <1>2
<1>6. u[s + 1] = Header /\ SizeAt(u, s) = n
  BY <1>1, <1>4, <1>5 DEF SizeAt
<1>7. EndAt(u, s) = s + (n + 5) /\ s + (n + 5) = Len(u) /\ s + 3 <= Len(u)
  BY <1>2, <1>4, <1>6 DEF EndAt
<1>8. PayloadAt(u, s) = p
  <2> DEFINE q == s + 3
             z == Slice(u, q, n)
  <2>1. q \in Nat /\ q + n <= Len(u)
    BY <1>2, <1>4
  <2>2. \A i \in 1 .. n : u[q + i] = p[i]
    <3>1. \A i \in 1 .. n : u[s + (3 + i)] = p[i]
      BY <1>1, <1>4, <1>5
    <3> QED BY <1>5, <3>1
  <2> HIDE DEF q
  <2>3. z \in Seq(Byte) /\ Len(z) = n /\ \A i \in 1 .. n : z[i] = u[q + i]
    BY <1>2, <1>4, <2>1, SliceIs, Zenon
  <2> HIDE DEF z
  <2>4. z = p
    BY <2>2, <2>3, SeqEqual DEF n
  <2> QED
    BY <1>6, <2>4 DEF PayloadAt, z, q
<1>9. /\ u[EndAt(u, s)] = Msb(c)
      /\ u[EndAt(u, s)] * Base + u[EndAt(u, s) - 1] = c
  <2> DEFINE e == EndAt(u, s)
  <2>a. e = s + (n + 5)
    BY <1>7
  <2>2. u[s + (n + 5)] = v[n + 5] /\ u[s + (n + 4)] = v[n + 4]
    BY <1>4, <1>5
  <2> HIDE DEF e
  <2>1. e = s + (n + 5) /\ e - 1 = s + (n + 4)
    BY <1>2, <2>a
  <2>3. u[e] = Msb(c) /\ u[e] * Base + u[e - 1] = c
    BY <1>1, <2>1, <2>2
  <2> QED BY <2>3 DEF e
<1>10. Intact(u, s) <=> c = Crc(p)
  BY <1>8, <1>9 DEF Intact
<1> QED
  BY <1>3, <1>6, <1>7, <1>8, <1>9, <1>10 DEF Framed, u, v, s

\* A packet with byte i of its payload replaced is that payload's packet with the CRC
\* of the other.
LEMMA OtherByte ==
  ASSUME NEW p \in Seq(Byte), Len(p) < Base * Base, NEW c \in 0 .. Base * Base - 1,
         NEW i \in 1 .. Len(p), NEW x \in Byte
  PROVE  /\ [p EXCEPT ![i] = x] \in Seq(Byte) /\ Len([p EXCEPT ![i] = x]) = Len(p)
         /\ [Packet(p, c) EXCEPT ![3 + i] = x] = Packet([p EXCEPT ![i] = x], c)
<1> DEFINE n == Len(p)
           r == [p EXCEPT ![i] = x]
           v == Packet(p, c)
           w == Packet(r, c)
           u == [v EXCEPT ![3 + i] = x]
<1>1. r \in Seq(Byte) /\ Len(r) = n /\ n \in Nat
      /\ \A k \in 1 .. n : r[k] = IF k = i THEN x ELSE p[k]
  OBVIOUS
<1>2. /\ v \in Seq(Byte) /\ Len(v) = n + 5
      /\ \A k \in 1 .. n : v[3 + k] = p[k]
  BY PacketBytes
<1> HIDE DEF r
<1>3. /\ w \in Seq(Byte) /\ Len(w) = n + 5
      /\ \A k \in 1 .. n : w[3 + k] = r[k]
  BY <1>1, PacketBytes
<1>4. \A k \in 1 .. n + 5 : k \notin 4 .. n + 3 => v[k] = w[k]
  <2>1. /\ v[1] = Header /\ v[2] = Lsb(n) /\ v[3] = Msb(n)
        /\ v[n + 4] = Lsb(c) /\ v[n + 5] = Msb(c)
    BY PacketBytes
  <2>2. /\ w[1] = Header /\ w[2] = Lsb(n) /\ w[3] = Msb(n)
        /\ w[n + 4] = Lsb(c) /\ w[n + 5] = Msb(c)
    <3>1. r \in Seq(Byte) /\ Len(r) < Base * Base /\ Len(r) = n
      BY <1>1
    <3>2. /\ w[1] = Header /\ w[2] = Lsb(Len(r)) /\ w[3] = Msb(Len(r))
          /\ w[Len(r) + 4] = Lsb(c) /\ w[Len(r) + 5] = Msb(c)
      BY <3>1, PacketBytes, Zenon
    <3> QED BY <3>1, <3>2
  <2>3. \A k \in 1 .. n + 5 : k \notin 4 .. n + 3 => k \in {1, 2, 3, n + 4, n + 5}
    BY <1>1
  <2> HIDE DEF v, w, n
  <2> QED BY <2>1, <2>2, <2>3
<1> HIDE DEF v, w, n
<1>5. i \in 1 .. n
  BY DEF n
<1>6. /\ u \in Seq(Byte) /\ Len(u) = n + 5
      /\ \A k \in 1 .. n + 5 : u[k] = IF k = 3 + i THEN x ELSE v[k]
  <2>1. 3 + i \in 1 .. Len(v)
    BY <1>1, <1>2, <1>5
  <2> QED BY <1>2, <2>1
<1>7. ASSUME NEW k \in 1 .. n + 5 PROVE u[k] = w[k]
  <2>1. CASE k \in 4 .. n + 3
    <3> DEFINE j == k - 3
    <3>1. j \in 1 .. n /\ 3 + j = k /\ (k = 3 + i <=> j = i)
      BY <1>1, <1>5, <2>1
    <3> HIDE DEF j
    <3>2. v[3 + j] = p[j] /\ w[3 + j] = r[j] /\ r[j] = IF j = i THEN x ELSE p[j]
      BY <1>1, <1>2, <1>3, <3>1
    <3> QED BY <1>6, <3>1, <3>2
  <2>2. CASE k \notin 4 .. n + 3
    <3>1. k # 3 + i
      BY <1>1, <1>5, <2>2
    <3> QED BY <1>4, <1>6, <2>2, <3>1
  <2> QED BY <2>1, <2>2
<1>8. u = w
  BY <1>3, <1>6, <1>7, SeqEqual
<1> QED
  BY <1>1, <1>8 DEF r, u, v, w, n
-----------------------------------------------------------------------------
(* The invariant.                                                          *)

\* Where the frames behind the positions in F end.
Ends(T, F) == [s \in F |-> EndAt(T, s)]

\* The stream T holds the packets behind the positions in F and no other start of
\* frame; those whose CRC is right are the packets sent, at[1], at[2], ...; none ends with
\* the byte that starts one.
Packets(T, snt, F, at) ==
    /\ Frames(T, Header, F, Ends(T, F))
    /\ \A s \in F : /\ s + 3 <= Len(T) /\ EndAt(T, s) <= Len(T)
                    /\ T[EndAt(T, s)] # Header
    /\ snt \in Seq(Payloads)
    /\ at \in [1 .. Len(snt) -> F]
    /\ \A i \in 1 .. Len(snt) : Intact(T, at[i]) /\ PayloadAt(T, at[i]) = snt[i]
    /\ \A s \in F : Intact(T, s) => \E i \in 1 .. Len(snt) : s = at[i]

\* Position o of the stream is not inside a packet, and of the packets sent those
\* before it have been handed out.
Between(T, snt, gt, F, at, o) ==
    /\ Clear(T, Header, F, Ends(T, F), o)
    /\ Taken(F, at, Len(snt), Len(gt), o)
    /\ gt \in Seq(Payloads)
    /\ \A i \in 1 .. Len(gt) : gt[i] = snt[i]

\* The tape t is what was stored in the buffer so far and t \o w the stream: what is
\* stored and what is still on the wire.  The handler reads on between two packets.
Aligned(b, w, snt, gt, t, F, at) ==
    /\ Good(b) /\ Holds(b, t) /\ w \in Seq(Byte)
    /\ Packets(t \o w, snt, F, at)
    /\ Between(t \o w, snt, gt, F, at, Len(t) - b.count)

\* When nothing is left to be read, the byte that was read last starts no packet.
Fresh(b, t) == b.count = 0 => t[Len(t)] # Header

\* Every packet has been sent with the right CRC.
AllSent(snt, F, at) == \A s \in F : \E i \in 1 .. Len(snt) : s = at[i]

\* All that is left in the buffer is at most one byte or the part of a packet that has
\* not arrived in full.
Drained(b, w, snt, t, at) ==
    \/ b.count <= 1
    \/ \E i \in 1 .. Len(snt) : /\ at[i] = Len(t) - b.count
                                /\ Len(t) < EndAt(t \o w, at[i])

Inv == /\ damaged \in Nat
       /\ damaged = 0 =>
             \E t, F, at : /\ Aligned(buf, wire, sent, got, t, F, at)
                           /\ AllSent(sent, F, at)
                           /\ handling => Fresh(buf, t)
                           /\ ~handling => Drained(buf, wire, sent, t, at)

\* The packets of a stream are the same in every stream it begins.
LEMMA KeptPackets ==
  ASSUME NEW T, NEW snt, NEW F, NEW at, Packets(T, snt, F, at), NEW u, Longer(u, T)
  PROVE  /\ \A s \in F : /\ EndAt(u, s) = EndAt(T, s) /\ PayloadAt(u, s) = PayloadAt(T, s)
                         /\ Intact(u, s) <=> Intact(T, s)
                         /\ s + 3 <= Len(u) /\ EndAt(u, s) <= Len(u)
                         /\ u[EndAt(u, s)] # Header
         /\ Ends(u, F) = Ends(T, F)
<1>1. /\ F \in SUBSET Nat /\ T \in Seq(Byte)
      /\ \A s \in F : /\ s + 3 <= Len(T) /\ EndAt(T, s) <= Len(T)
                      /\ T[EndAt(T, s)] # Header
  BY DEF Packets, Frames
<1>2. Len(T) \in Nat /\ Len(u) \in Nat /\ Len(T) <= Len(u)
  BY DEF Longer
<1>3. ASSUME NEW s \in F
      PROVE  /\ EndAt(u, s) = EndAt(T, s) /\ PayloadAt(u, s) = PayloadAt(T, s)
             /\ Intact(u, s) <=> Intact(T, s)
             /\ s + 3 <= Len(u) /\ EndAt(u, s) <= Len(u)
             /\ u[EndAt(u, s)] # Header
  <2> DEFINE e == EndAt(T, s)
             L == Len(T)
             U == Len(u)
  <2>1. s \in Nat /\ s + 3 <= L /\ e <= L
    BY <1>1
  <2>2. EndAt(u, s) = e /\ PayloadAt(u, s) = PayloadAt(T, s)
        /\ (Intact(u, s) <=> Intact(T, s)) /\ u[e] = T[e]
    BY <2>1, SameFrame
  <2>3. e \in Nat
    BY <1>1, <2>1, SizeIsNat
  <2> HIDE DEF e, L, U
  <2>4. s + 3 <= U /\ e <= U
    BY <1>2, <2>1, <2>3 DEF L, U
  <2>5. T[e] # Header
    BY <1>1 DEF e
  <2> QED
    BY <2>2, <2>4, <2>5 DEF U, e
<1>4. Ends(u, F) = Ends(T, F)
  BY <1>3 DEF Ends
<1> QED
  BY <1>3, <1>4

\* One more packet is one more frame.
LEMMA OneMore ==
  ASSUME NEW T, NEW snt, NEW gt, NEW F, NEW at, NEW o,
         Packets(T, snt, F, at), Between(T, snt, gt, F, at, o),
         NEW u, Longer(u, T), NEW s, s = Len(T), s + 3 <= Len(u),
         EndAt(u, s) = Len(u), u[s + 1] = Header,
         NEW G, G = F \cup {s}
  PROVE  /\ Frames(u, Header, G, Ends(u, G)) /\ Clear(u, Header, G, Ends(u, G), o)
         /\ Taken(G, at, Len(snt), Len(gt), o)
         /\ Taken(G, MoreAt(at, Len(snt), s), Len(snt) + 1, Len(gt), o)
<1>1. /\ Frames(T, Header, F, Ends(T, F)) /\ Clear(T, Header, F, Ends(T, F), o)
      /\ Taken(F, at, Len(snt), Len(gt), o)
  BY DEF Packets, Between
<1>2. \A r \in F : EndAt(u, r) = EndAt(T, r) /\ r < s
  <2>1. ASSUME NEW r \in F PROVE r < s
    <3>1. r \in Nat /\ s \in Nat /\ r + 3 <= s
      BY DEF Packets, Frames
    <3> QED BY <3>1
  <2> QED BY <2>1, KeptPackets
<1>3. Ends(u, G) = MoreEnds(F, Ends(T, F), s, Len(u))
  <2>1. ASSUME NEW r \in G PROVE EndAt(u, r) = IF r = s THEN Len(u) ELSE Ends(T, F)[r]
    BY <1>2 DEF Ends
  <2> QED BY <2>1 DEF Ends, MoreEnds
<1>4. Len(T) < Len(u)
  <2>1. Len(T) \in Nat /\ Len(u) \in Nat /\ Len(T) + 3 <= Len(u)
    BY DEF Longer
  <2> QED BY <2>1
<1> DEFINE e == Ends(u, G)
           d == Ends(T, F)
           n == Len(snt)
           k == Len(gt)
<1>5. G = F \cup {Len(T)} /\ e = MoreEnds(F, d, Len(T), Len(u)) /\ u[Len(T) + 1] = Header
  BY <1>3
<1>6. Frames(T, Header, F, d) /\ Clear(T, Header, F, d, o) /\ Taken(F, at, n, k, o)
  BY <1>1
<1> HIDE DEF e, d, n, k
<1>7. /\ Frames(u, Header, G, e) /\ Clear(u, Header, G, e, o)
      /\ Taken(G, at, n, k, o)
      /\ Taken(G, MoreAt(at, n, Len(T)), n + 1, k, o)
  BY <1>4, <1>5, <1>6, NewFrame
<1> QED
  BY <1>7 DEF e, n, k

\* A packet with the right CRC is one more packet sent.
LEMMA SentPacket ==
  ASSUME NEW T, NEW snt, NEW gt, NEW F, NEW at, NEW o,
         Packets(T, snt, F, at), Between(T, snt, gt, F, at, o),
         NEW u, Longer(u, T), NEW s, s = Len(T), s + 3 <= Len(u),
         EndAt(u, s) = Len(u), u[s + 1] = Header, u[Len(u)] # Header,
         NEW p \in Payloads, PayloadAt(u, s) = p, Intact(u, s),
         NEW G, G = F \cup {s}, NEW a, a = MoreAt(at, Len(snt), s)
  PROVE  /\ Packets(u, Append(snt, p), G, a)
         /\ Between(u, Append(snt, p), gt, G, a, o)
         /\ AllSent(snt, F, at) => AllSent(Append(snt, p), G, a)
<1> DEFINE n == Len(snt)
           v == Append(snt, p)
<1>1. /\ Frames(u, Header, G, Ends(u, G)) /\ Clear(u, Header, G, Ends(u, G), o)
      /\ Taken(G, a, n + 1, Len(gt), o)
  BY OneMore
<1>2. n \in Nat /\ v \in Seq(Payloads) /\ Len(v) = n + 1
      /\ v[n + 1] = p /\ \A i \in 1 .. n : v[i] = snt[i]
  BY DEF Packets
<1>3. a[n + 1] = s /\ \A i \in 1 .. n : a[i] = at[i]
  BY <1>2 DEF MoreAt
<1>4. a \in [1 .. n + 1 -> G]
  BY <1>1 DEF Taken
<1>5. /\ \A r \in F : /\ EndAt(u, r) = EndAt(T, r) /\ PayloadAt(u, r) = PayloadAt(T, r)
                      /\ Intact(u, r) <=> Intact(T, r)
                      /\ r + 3 <= Len(u) /\ EndAt(u, r) <= Len(u)
                      /\ u[EndAt(u, r)] # Header
  BY KeptPackets
<1>6. /\ \A i \in 1 .. n : Intact(T, at[i]) /\ PayloadAt(T, at[i]) = snt[i] /\ at[i] \in F
      /\ \A r \in F : Intact(T, r) => \E i \in 1 .. n : r = at[i]
  BY DEF Packets
<1>7. \A r \in G : r + 3 <= Len(u) /\ EndAt(u, r) <= Len(u) /\ u[EndAt(u, r)] # Header
  <2>1. Len(u) <= Len(u)
    BY DEF Longer
  <2> QED BY <1>5, <2>1
<1> HIDE DEF n, v
<1>8. ASSUME NEW i \in 1 .. n + 1 PROVE Intact(u, a[i]) /\ PayloadAt(u, a[i]) = v[i]
  <2>1. CASE i = n + 1
    BY <1>2, <1>3, <2>1
  <2>2. CASE i # n + 1
    <3>1. i \in 1 .. n
      BY <1>2, <2>2
    <3> QED BY <1>2, <1>3, <1>5, <1>6, <3>1
  <2> QED BY <2>1, <2>2
<1>9. \A i \in 1 .. n : i \in 1 .. n + 1
  BY <1>2
<1>10. n + 1 \in 1 .. n + 1
  BY <1>2
<1>11. ASSUME NEW r \in G, Intact(u, r) PROVE \E i \in 1 .. n + 1 : r = a[i]
  <2>1. CASE r = s
    BY <1>3, <1>10, <2>1
  <2>2. CASE r \in F
    BY <1>3, <1>5, <1>6, <1>9, <1>11, <2>2
  <2> QED BY <2>1, <2>2
<1>12. Packets(u, v, G, a)
  BY <1>1, <1>2, <1>4, <1>7, <1>8, <1>11 DEF Packets
<1>13. Len(gt) \in 0 .. n /\ gt \in Seq(Payloads) /\ \A i \in 1 .. Len(gt) : gt[i] = snt[i]
  BY DEF Between, Taken, n
<1>14. \A i \in 1 .. Len(gt) : gt[i] = v[i]
  <2>1. \A i \in 1 .. Len(gt) : i \in 1 .. n
    BY <1>2, <1>13
  <2> QED BY <1>2, <1>13, <2>1
<1>15. Between(u, v, gt, G, a, o)
  BY <1>1, <1>2, <1>13, <1>14 DEF Between
<1>16. ASSUME AllSent(snt, F, at) PROVE AllSent(v, G, a)
  <2>1. ASSUME NEW r \in G PROVE \E i \in 1 .. n + 1 : r = a[i]
    <3>1. CASE r = s
      BY <1>3, <1>10, <3>1
    <3>2. CASE r \in F
      BY <1>3, <1>9, <1>16, <3>2 DEF AllSent, n
    <3> QED BY <3>1, <3>2
  <2> QED BY <1>2, <2>1 DEF AllSent
<1> QED
  BY <1>12, <1>15, <1>16 DEF v

\* A packet with another CRC is none of the packets sent.
LEMMA BadPacket ==
  ASSUME NEW T, NEW snt, NEW gt, NEW F, NEW at, NEW o,
         Packets(T, snt, F, at), Between(T, snt, gt, F, at, o),
         NEW u, Longer(u, T), NEW s, s = Len(T), s + 3 <= Len(u),
         EndAt(u, s) = Len(u), u[s + 1] = Header, u[Len(u)] # Header, ~Intact(u, s),
         NEW G, G = F \cup {s}
  PROVE  Packets(u, snt, G, at) /\ Between(u, snt, gt, G, at, o)
<1> DEFINE n == Len(snt)
<1>1. /\ Frames(u, Header, G, Ends(u, G)) /\ Clear(u, Header, G, Ends(u, G), o)
      /\ Taken(G, at, n, Len(gt), o)
  BY OneMore
<1>2. /\ \A r \in F : /\ EndAt(u, r) = EndAt(T, r) /\ PayloadAt(u, r) = PayloadAt(T, r)
                      /\ Intact(u, r) <=> Intact(T, r)
                      /\ r + 3 <= Len(u) /\ EndAt(u, r) <= Len(u)
                      /\ u[EndAt(u, r)] # Header
  BY KeptPackets
<1>3. /\ \A i \in 1 .. n : Intact(T, at[i]) /\ PayloadAt(T, at[i]) = snt[i] /\ at[i] \in F
      /\ \A r \in F : Intact(T, r) => \E i \in 1 .. n : r = at[i]
      /\ snt \in Seq(Payloads)
  BY DEF Packets
<1>4. \A r \in G : r + 3 <= Len(u) /\ EndAt(u, r) <= Len(u) /\ u[EndAt(u, r)] # Header
  <2>1. Len(u) <= Len(u)
    BY DEF Longer
  <2> QED BY <1>2, <2>1
<1>5. at \in [1 .. n -> G]
  BY <1>1 DEF Taken
<1> HIDE DEF n
<1>6. \A i \in 1 .. n : Intact(u, at[i]) /\ PayloadAt(u, at[i]) = snt[i]
  BY <1>2, <1>3
<1>7. \A r \in G : Intact(u, r) => \E i \in 1 .. n : r = at[i]
  BY <1>2, <1>3
<1>8. Packets(u, snt, G, at)
  BY <1>1, <1>3, <1>4, <1>5, <1>6, <1>7 DEF Packets, n
<1>9. gt \in Seq(Payloads) /\ \A i \in 1 .. Len(gt) : gt[i] = snt[i]
  BY DEF Between
<1>10. Between(u, snt, gt, G, at, o)
  BY <1>1, <1>9 DEF Between, n
<1> QED
  BY <1>8, <1>10

\* flashpacket_get in an aligned state hands out the next packet sent, or none; then it
\* leaves behind it what the loop leaves to the next event.
LEMMA GetAligned ==
  ASSUME NEW b, NEW w, NEW snt, NEW gt, NEW t, NEW F, NEW at,
         Aligned(b, w, snt, gt, t, F, at), Fresh(b, t), NEW g \in flashpacket_get(b)
  PROVE  \/ /\ g.ret = -1
            /\ Aligned(g.buf, w, snt, gt, t, F, at)
            /\ AllSent(snt, F, at) => Drained(g.buf, w, snt, t, at)
         \/ /\ g.ret = 0
            /\ Aligned(g.buf, w, snt, Append(gt, g.data), t, F, at)
            /\ Fresh(g.buf, t)
            /\ Len(gt) < Len(snt) /\ g.data = snt[Len(gt) + 1]
<1> DEFINE T == t \o w
           L == Len(t)
           M == Len(T)
           c == b.count
           d == g.buf.count
           o == L - c
           n == Len(snt)
           k == Len(gt)
           E == Ends(T, F)
<1>1. /\ Good(b) /\ Holds(b, t) /\ t \in Seq(Byte) /\ w \in Seq(Byte)
      /\ Packets(T, snt, F, at) /\ Between(T, snt, gt, F, at, o)
  BY DEF Aligned, Holds
<1>2. /\ Good(g.buf) /\ Holds(g.buf, t)
      /\ Nothing(g, b, t) \/ \E s \in Nat : Partial(g, b, t, s) \/ Whole(g, b, t, s)
  BY <1>1, FlashpacketGet
<1>3. /\ c \in 0 .. BufSize /\ d \in 0 .. BufSize /\ BufSize \in Nat \ {0}
      /\ L \in Nat /\ BufSize <= L
  BY <1>1, <1>2, Fields, BufSizeAssumption DEF Good, Holds
<1>4. Longer(T, t)
  BY <1>1, ConcatLonger
<1>5. M \in Nat /\ L <= M /\ T \in Seq(Byte) /\ \A i \in 1 .. L : T[i] = t[i]
  BY <1>4 DEF Longer
<1>6. /\ Frames(T, Header, F, E) /\ Clear(T, Header, F, E, o) /\ Taken(F, at, n, k, o)
      /\ F \in SUBSET Nat
  BY <1>1 DEF Packets, Between, Frames
<1>7. o \in Nat /\ o + c = L
  BY <1>3
<1>a. g.buf.count = d /\ L - g.buf.count = L - d
  OBVIOUS
<1>b. /\ gt \in Seq(Payloads) /\ \A i \in 1 .. k : gt[i] = snt[i]
  BY <1>1 DEF Between
<1> HIDE DEF T, L, M, c, d, o, n, k, E
<1>8. ASSUME Clear(T, Header, F, E, L - d), Taken(F, at, n, k, L - d)
      PROVE  Aligned(g.buf, w, snt, gt, t, F, at)
  <2>1. Between(T, snt, gt, F, at, L - d)
    BY <1>8, <1>b DEF Between, E, n, k
  <2> QED
    BY <1>1, <1>2, <2>1 DEF Aligned, T, L, d
<1>9. ASSUME NEW p \in Nat, o <= p, p <= L, L - d = p, \A q \in o + 1 .. p : t[q] # Header
      PROVE  Aligned(g.buf, w, snt, gt, t, F, at)
  <2>1. p <= Len(T)
    BY <1>3, <1>5, <1>9 DEF M
  <2>2. \A q \in o + 1 .. p : T[q] # Header
    <3>1. \A q \in o + 1 .. p : q \in 1 .. L
      BY <1>3, <1>7, <1>9
    <3> QED
      BY <1>5, <1>9, <3>1
  <2>3. Clear(T, Header, F, E, p) /\ Taken(F, at, n, k, p)
    BY <1>6, <1>9, <2>1, <2>2, SkipClear, Zenon
  <2> QED
    BY <1>8, <1>9, <2>3
<1>10. CASE Nothing(g, b, t)
  <2>1. /\ \A q \in o + 1 .. L : t[q] # Header
        /\ g.ret = -1 /\ d = 1
    BY <1>10 DEF Nothing, o, L, c, d
  <2> DEFINE p == L - 1
  <2>2. p \in Nat /\ p <= L /\ L - d = p
    BY <1>3, <2>1
  <2>3. Aligned(g.buf, w, snt, gt, t, F, at)
    <3>1. CASE c = 0
      <4>1. p + 1 = o /\ o = L /\ L \in 1 .. L
        BY <1>3, <1>7, <3>1
      <4>2. T[o] # Header
        BY <1>5, <3>1, <4>1 DEF Fresh, c, L
      <4> HIDE DEF p
      <4>3. Clear(T, Header, F, E, p) /\ Taken(F, at, n, k, p)
        BY <1>6, <2>2, <4>1, <4>2, BackClear, Zenon
      <4> QED
        BY <1>8, <2>2, <4>3
    <3>2. CASE c # 0
      <4>1. o <= p /\ \A q \in o + 1 .. p : q \in o + 1 .. L
        BY <1>3, <1>7, <3>2
      <4>2. \A q \in o + 1 .. p : t[q] # Header
        BY <2>1, <4>1
      <4> HIDE DEF p
      <4> QED
        BY <1>9, <2>2, <4>1, <4>2
    <3> QED BY <3>1, <3>2
  <2>4. Drained(g.buf, w, snt, t, at)
    BY <2>1 DEF Drained, d
  <2> QED
    BY <2>1, <2>3, <2>4
<1>11. ASSUME NEW s \in Nat, Partial(g, b, t, s)
       PROVE  /\ g.ret = -1
              /\ Aligned(g.buf, w, snt, gt, t, F, at)
              /\ AllSent(snt, F, at) => Drained(g.buf, w, snt, t, at)
  <2>1. /\ o <= s /\ s < L /\ t[s + 1] = Header /\ \A q \in o + 1 .. s : t[q] # Header
        /\ s + 3 <= L => L < EndAt(t, s)
        /\ g.ret = -1 /\ d = L - s
    BY <1>11 DEF Partial, Found, o, L, c, d
  <2>2. s <= L /\ L - d = s
    BY <1>3, <2>1
  <2>3. Aligned(g.buf, w, snt, gt, t, F, at)
    BY <1>9, <2>1, <2>2
  <2>4. Found(T, Header, o, s)
    <3>1. s + 1 \in 1 .. L /\ s < M /\ \A q \in o + 1 .. s : q \in 1 .. L
      BY <1>3, <1>5, <1>7, <2>1
    <3> QED
      BY <1>5, <2>1, <3>1 DEF Found, M
  <2>5. s \in F
    BY <1>6, <2>4, FoundIsFrame, Zenon
  <2>6. s + 3 <= M
    BY <1>1, <2>5 DEF Packets, M
  <2> DEFINE e == EndAt(T, s)
             z == SizeAt(T, s)
  <2>7. e = s + 5 + z /\ z \in Nat
    BY <1>5, <2>6, SizeIsNat DEF EndAt, M
  <2>8. s + 3 <= L => e = EndAt(t, s)
    <3> SUFFICES ASSUME s + 3 <= L PROVE e = EndAt(t, s)
      OBVIOUS
    <3>1. s + 2 \in 1 .. L /\ s + 3 \in 1 .. L
      BY <1>3
    <3>2. T[s + 2] = t[s + 2] /\ T[s + 3] = t[s + 3]
      BY <1>5, <3>1
    <3> QED
      BY <3>2 DEF EndAt, SizeAt
  <2> HIDE DEF e, z
  <2>9. L < e
    <3>1. CASE s + 3 <= L
      BY <2>1, <2>8, <3>1
    <3>2. CASE ~(s + 3 <= L)
      BY <1>3, <2>7, <3>2
    <3> QED BY <3>1, <3>2
  <2>10. ASSUME AllSent(snt, F, at) PROVE Drained(g.buf, w, snt, t, at)
    <3>1. PICK i \in 1 .. Len(snt) : s = at[i]
      BY <2>5, <2>10 DEF AllSent
    <3>2. at[i] = Len(t) - g.buf.count
      BY <2>2, <3>1 DEF L, d
    <3>3. Len(t) < EndAt(t \o w, at[i])
      BY <2>9, <3>1 DEF L, e, T
    <3> QED
      BY <3>2, <3>3 DEF Drained
  <2> QED
    BY <2>1, <2>3, <2>10
<1>12. ASSUME NEW s \in Nat, Whole(g, b, t, s)
       PROVE  \/ /\ g.ret = -1
                 /\ Aligned(g.buf, w, snt, gt, t, F, at)
                 /\ AllSent(snt, F, at) => Drained(g.buf, w, snt, t, at)
              \/ /\ g.ret = 0
                 /\ Aligned(g.buf, w, snt, Append(gt, g.data), t, F, at)
                 /\ Fresh(g.buf, t)
                 /\ k < n /\ g.data = snt[k + 1]
  <2>1. /\ o <= s /\ s < L /\ t[s + 1] = Header /\ \A q \in o + 1 .. s : t[q] # Header
        /\ s + 3 <= Len(t) /\ EndAt(t, s) <= Len(t)
        /\ d = L - EndAt(t, s)
        /\ IF Intact(t, s) THEN g.ret = 0 /\ g.data = PayloadAt(t, s) ELSE g.ret = -1
    BY <1>12 DEF Whole, Found, o, L, c, d
  <2>2. Found(T, Header, o, s)
    <3>1. s + 1 \in 1 .. L /\ s < M /\ \A q \in o + 1 .. s : q \in 1 .. L
      BY <1>3, <1>5, <1>7, <2>1
    <3> QED
      BY <1>5, <2>1, <3>1 DEF Found, M
  <2>3. s \in F /\ \A r \in F : o <= r => s <= r
    BY <1>6, <2>2, FoundIsFrame, Zenon
  <2>4. /\ EndAt(T, s) = EndAt(t, s) /\ PayloadAt(T, s) = PayloadAt(t, s)
        /\ (Intact(T, s) <=> Intact(t, s)) /\ T[EndAt(T, s)] = t[EndAt(t, s)]
    BY <1>4, <2>1, SameFrame
  <2>a. t[EndAt(t, s)] # Header
    BY <1>1, <2>3, <2>4 DEF Packets
  <2> DEFINE e == EndAt(t, s)
  <2>5. e \in Nat /\ L - d = e /\ E[s] = e
    <3>1. e \in Nat
      BY <1>1, <2>1, SizeIsNat
    <3>2. E[s] = e
      BY <2>3, <2>4 DEF E, Ends
    <3>3. d = L - e
      BY <2>1
    <3> HIDE DEF e
    <3> QED BY <1>3, <3>1, <3>2, <3>3
  <2> HIDE DEF e
  <2>6. /\ Clear(T, Header, F, E, E[s])
        /\ (\A i \in 1 .. n : at[i] # s) => Taken(F, at, n, k, E[s])
        /\ \A i \in 1 .. n : at[i] = s => i = k + 1 /\ Taken(F, at, n, k + 1, E[s])
    BY <1>6, <2>1, <2>3, PassClear, ZenonT(30)
  <2>7. CASE Intact(t, s)
    <3>1. PICK i \in 1 .. n : s = at[i]
      BY <1>1, <2>3, <2>4, <2>7 DEF Packets, n
    <3>2. i = k + 1 /\ Taken(F, at, n, k + 1, E[s])
      BY <2>6, <3>1
    <3>3. g.ret = 0 /\ g.data = snt[i]
      BY <1>1, <2>1, <2>4, <2>7, <3>1 DEF Packets, n
    <3>4. k \in Nat /\ n \in Nat /\ k < n
      BY <1>6, <3>2 DEF Taken
    <3>5. snt[i] \in Payloads
      BY <1>1, <3>1 DEF Packets, n
    <3> DEFINE v == Append(gt, g.data)
    <3>6. v \in Seq(Payloads) /\ Len(v) = k + 1 /\ \A j \in 1 .. k : v[j] = gt[j]
      BY <1>b, <3>3, <3>5 DEF k
    <3>7. v[k + 1] = snt[k + 1]
      BY <1>b, <3>2, <3>3, <3>5 DEF k
    <3> HIDE DEF v
    <3>8. \A j \in 1 .. k + 1 : v[j] = snt[j]
      <4>1. \A j \in 1 .. k + 1 : j \in 1 .. k \/ j = k + 1
        BY <3>4
      <4> QED BY <1>b, <3>6, <3>7, <4>1
    <3>9. Between(T, snt, v, F, at, L - d)
      BY <2>5, <2>6, <3>2, <3>6, <3>8 DEF Between, E, n
    <3>10. Aligned(g.buf, w, snt, v, t, F, at)
      BY <1>1, <1>2, <3>9 DEF Aligned, T, L, d
    <3>11. Fresh(g.buf, t)
      <4>1. d = 0 => e = L
        BY <1>3, <2>5
      <4> QED
        BY <2>a, <4>1 DEF Fresh, d, e, L
    <3> QED
      BY <3>2, <3>3, <3>4, <3>10, <3>11 DEF v
  <2>8. CASE ~Intact(t, s)
    <3>1. \A i \in 1 .. n : at[i] # s
      BY <1>1, <2>4, <2>8 DEF Packets, n
    <3>2. Aligned(g.buf, w, snt, gt, t, F, at)
      BY <1>8, <2>5, <2>6, <3>1
    <3>3. ~AllSent(snt, F, at)
      BY <2>3, <3>1 DEF AllSent, n
    <3> QED
      BY <2>1, <2>8, <3>2, <3>3
  <2> QED
    BY <2>7, <2>8
<1> QED
  BY <1>2, <1>10, <1>11, <1>12 DEF n, k

\* What the loop has left is still less than a packet when more comes on the wire.
LEMMA DrainedStays ==
  ASSUME NEW b, NEW w, NEW snt, NEW t, NEW F, NEW at, Packets(t \o w, snt, F, at),
         NEW w2, Longer(t \o w2, t \o w),
         NEW m, NEW a, NEW v, Len(snt) \in Nat, m = Len(v), m \in Nat, Len(snt) <= m,
         \A i \in 1 .. Len(snt) : a[i] = at[i],
         Drained(b, w, snt, t, at)
  PROVE  Drained(b, w2, v, t, a)
<1>1. CASE b.count <= 1
  BY <1>1 DEF Drained
<1>2. ASSUME NEW i \in 1 .. Len(snt), at[i] = Len(t) - b.count, Len(t) < EndAt(t \o w, at[i])
      PROVE  Drained(b, w2, v, t, a)
  <2>1. at[i] \in F
    BY DEF Packets
  <2>2. EndAt(t \o w2, at[i]) = EndAt(t \o w, at[i])
    BY <2>1, KeptPackets
  <2>3. i \in 1 .. Len(v) /\ a[i] = at[i]
    OBVIOUS
  <2>4. a[i] = Len(t) - b.count /\ Len(t) < EndAt(t \o w2, a[i])
    BY <1>2, <2>2, <2>3
  <2> QED
    BY <2>3, <2>4 DEF Drained
<1> QED
  BY <1>1, <1>2 DEF Drained

\* The next state is aligned too; if no packet was damaged it is also drained when the
\* handler has returned; and what is handed out are the packets sent.
Goes(t, F, at) ==
    /\ \E u, G, a :
          /\ Aligned(buf', wire', sent', got', u, G, a)
          /\ handling' => Fresh(buf', u)
          /\ (/\ damaged' = damaged
              /\ AllSent(sent, F, at)
              /\ ~handling => Drained(buf, wire, sent, t, at))
             => /\ AllSent(sent', G, a)
                /\ ~handling' => Drained(buf', wire', sent', u, a)
    /\ [Channel!Next]_(Channel!vars)

\* No payload's CRC has the start of frame for its high byte.
NeverHeader == \A p \in Payloads : Msb(Crc(p)) # Header

\* What comes on the wire comes behind the stream.
LEMMA Behind ==
  ASSUME NEW t \in Seq(Byte), NEW w \in Seq(Byte), NEW x \in Seq(Byte)
  PROVE  w \o x \in Seq(Byte) /\ t \o w \in Seq(Byte) /\ t \o (w \o x) = (t \o w) \o x
<1>1. w \o x \in Seq(Byte)
  BY ConcatProperties, Zenon
<1>2. t \o w \in Seq(Byte)
  BY ConcatProperties, Zenon
<1>3. (t \o w) \o x = t \o (w \o x)
  BY ConcatAssociative
<1> QED
  BY <1>1, <1>2, <1>3

\* The target sends a packet.
LEMMA SendStep ==
  ASSUME NEW t, NEW F, NEW at, Aligned(buf, wire, sent, got, t, F, at),
         handling => Fresh(buf, t), NeverHeader,
         NEW p \in Payloads, TargetSends(p)
  PROVE  Goes(t, F, at)
<1> DEFINE T == t \o wire
           x == Packet(p, Crc(p))
           u == T \o x
           s == Len(T)
           G == F \cup {s}
           a == MoreAt(at, Len(sent), s)
           o == Len(t) - buf.count
<1>1. /\ wire' = wire \o x /\ sent' = Append(sent, p)
      /\ buf' = buf /\ handling' = handling /\ got' = got /\ damaged' = damaged
  BY DEF TargetSends, make_tx_packet, Packet
<1>2. p \in Seq(Byte) /\ Len(p) < Base * Base /\ Crc(p) \in 0 .. Base * Base - 1
  BY PayloadAssumption, CrcAssumption
<1>3. /\ Good(buf) /\ Holds(buf, t) /\ t \in Seq(Byte) /\ wire \in Seq(Byte)
      /\ Packets(T, sent, F, at) /\ Between(T, sent, got, F, at, o)
  BY DEF Aligned, Holds
<1>4. x \in Seq(Byte)
  BY <1>2, PacketBytes
<1> HIDE DEF x
<1>5. t \o wire' = u /\ wire' \in Seq(Byte) /\ T \in Seq(Byte)
  <2>a. t \in Seq(Byte) /\ wire \in Seq(Byte) /\ x \in Seq(Byte)
    BY <1>3, <1>4
  <2>1. /\ wire \o x \in Seq(Byte) /\ t \o wire \in Seq(Byte)
        /\ t \o (wire \o x) = (t \o wire) \o x
    BY <2>a, Behind, SMTT(30)
  <2> QED BY <1>1, <2>1
<1> HIDE DEF T, u, s
<1>7. /\ Longer(u, T) /\ s + 3 <= Len(u) /\ u[s + 1] = Header /\ EndAt(u, s) = Len(u)
      /\ PayloadAt(u, s) = p /\ Intact(u, s) /\ u[Len(u)] # Header
  <2> DEFINE c == Crc(p)
  <2>1. /\ u = T \o Packet(p, c) /\ s = Len(T) /\ c \in 0 .. Base * Base - 1
        /\ c = Crc(p) /\ Msb(c) # Header
    BY <1>2 DEF u, x, s, NeverHeader
  <2> HIDE DEF c
  <2>2. Framed(T \o Packet(p, c), T, p, c)
    BY <1>2, <1>5, <2>1, PacketFrame
  <2>3. Framed(u, T, p, c)
    BY <2>1, <2>2
  <2> QED BY <2>1, <2>3 DEF Framed
<1> HIDE DEF o, G, a
<1>8. /\ Packets(u, Append(sent, p), G, a)
      /\ Between(u, Append(sent, p), got, G, a, o)
      /\ AllSent(sent, F, at) => AllSent(Append(sent, p), G, a)
  <2>1. s = Len(T) /\ G = F \cup {s} /\ a = MoreAt(at, Len(sent), s)
    BY DEF s, G, a
  <2> QED BY <1>3, <1>7, <2>1, SentPacket
<1>9. Aligned(buf', wire', sent', got', t, G, a)
  BY <1>1, <1>3, <1>5, <1>8 DEF Aligned, o
<1>10. ASSUME Drained(buf, wire, sent, t, at) PROVE Drained(buf', wire', sent', t, a)
  <2> DEFINE m == Len(sent')
  <2>1. Len(sent) \in Nat /\ m = Len(sent) + 1 /\ m \in Nat /\ Len(sent) <= m
    BY <1>1, <1>3 DEF Packets
  <2>2. \A i \in 1 .. Len(sent) : a[i] = at[i]
    BY <2>1 DEF a, MoreAt
  <2>3. Packets(t \o wire, sent, F, at) /\ Longer(t \o wire', t \o wire)
    BY <1>3, <1>5, <1>7 DEF T
  <2>4. m = Len(sent')
    OBVIOUS
  <2> HIDE DEF m
  <2> QED
    BY <1>1, <1>10, <2>1, <2>2, <2>3, <2>4, DrainedStays
<1>11. Channel!Next
  BY <1>1 DEF Channel!Next, Channel!Send
<1>12. handling' => Fresh(buf', t)
  BY <1>1
<1> QED
  BY <1>1, <1>8, <1>9, <1>10, <1>11, <1>12 DEF Goes

\* A packet with another CRC comes on the wire.
LEMMA DamageStep ==
  ASSUME NEW t, NEW F, NEW at, Aligned(buf, wire, sent, got, t, F, at),
         handling => Fresh(buf, t), NeverHeader,
         damaged \in Nat, NEW p \in Payloads, FrameDamaged(p)
  PROVE  Goes(t, F, at)
<1>1. /\ buf' = buf /\ handling' = handling /\ got' = got /\ sent' = sent
      /\ damaged' = damaged + 1
  BY DEF FrameDamaged
<1> DEFINE c == Crc(p)
<1>2. p \in Seq(Byte) /\ Len(p) < Base * Base /\ c \in 0 .. Base * Base - 1
  BY PayloadAssumption, CrcAssumption
<1>3. make_tx_packet(p) = Packet(p, c)
  BY DEF make_tx_packet, Packet
<1>4. PICK i \in 1 .. Len(p), y \in Byte :
         /\ Crc([p EXCEPT ![i] = y]) # Crc(p)
         /\ wire' = wire \o [make_tx_packet(p) EXCEPT ![3 + i] = y]
  BY DEF FrameDamaged
<1> DEFINE r == [p EXCEPT ![i] = y]
           T == t \o wire
           x == Packet(r, c)
           u == T \o x
           s == Len(T)
           G == F \cup {s}
           o == Len(t) - buf.count
<1>a. Crc(r) # c /\ Msb(c) # Header
  BY <1>4 DEF NeverHeader
<1> HIDE DEF c
<1>b. wire' = wire \o [Packet(p, c) EXCEPT ![3 + i] = y]
  BY <1>3, <1>4
<1>5. wire' = wire \o x /\ r \in Seq(Byte) /\ Len(r) = Len(p)
  <2>1. i \in 1 .. Len(p) /\ y \in Byte
    OBVIOUS
  <2>2. /\ r \in Seq(Byte) /\ Len(r) = Len(p)
        /\ [Packet(p, c) EXCEPT ![3 + i] = y] = Packet(r, c)
    <3>1. p \in Seq(Byte) /\ Len(p) < Base * Base /\ c \in 0 .. Base * Base - 1
      BY <1>2
    <3> QED BY <2>1, <3>1, OtherByte
  <2> QED BY <1>b, <2>2
<1> HIDE DEF r
<1>6. /\ Good(buf) /\ Holds(buf, t) /\ t \in Seq(Byte) /\ wire \in Seq(Byte)
      /\ Packets(T, sent, F, at) /\ Between(T, sent, got, F, at, o)
  BY DEF Aligned, Holds
<1>7. r \in Seq(Byte) /\ Len(r) < Base * Base
  BY <1>2, <1>5
<1>8. x \in Seq(Byte)
  BY <1>2, <1>7, PacketBytes
<1> HIDE DEF x
<1>9. t \o wire' = u /\ wire' \in Seq(Byte) /\ T \in Seq(Byte)
  <2>a. t \in Seq(Byte) /\ wire \in Seq(Byte) /\ x \in Seq(Byte)
    BY <1>6, <1>8
  <2>1. /\ wire \o x \in Seq(Byte) /\ t \o wire \in Seq(Byte)
        /\ t \o (wire \o x) = (t \o wire) \o x
    BY <2>a, Behind, SMTT(30)
  <2> QED BY <1>5, <2>1
<1> HIDE DEF T, u, s
<1>11. /\ Longer(u, T) /\ s + 3 <= Len(u) /\ u[s + 1] = Header /\ EndAt(u, s) = Len(u)
       /\ ~Intact(u, s) /\ u[Len(u)] # Header
  <2>1. u = T \o Packet(r, c) /\ s = Len(T)
    BY DEF u, x, s
  <2>2. Framed(T \o Packet(r, c), T, r, c)
    BY <1>2, <1>7, <1>9, PacketFrame
  <2>3. Framed(u, T, r, c)
    BY <2>1, <2>2
  <2> QED BY <1>a, <2>1, <2>3 DEF Framed
<1> HIDE DEF o, G
<1>12. Packets(u, sent, G, at) /\ Between(u, sent, got, G, at, o)
  <2>1. s = Len(T) /\ G = F \cup {s}
    BY DEF s, G
  <2> QED BY <1>6, <1>11, <2>1, BadPacket
<1>13. Aligned(buf', wire', sent', got', t, G, at)
  BY <1>1, <1>6, <1>9, <1>12 DEF Aligned, o
<1>14. damaged' # damaged
  BY <1>1
<1>15. UNCHANGED Channel!vars
  BY <1>1 DEF Channel!vars
<1>16. handling' => Fresh(buf', t)
  BY <1>1
<1> QED
  BY <1>13, <1>14, <1>15, <1>16 DEF Goes

\* A chunk is stored that fits.
LEMMA ReceiveStep ==
  ASSUME NEW t, NEW F, NEW at, Aligned(buf, wire, sent, got, t, F, at),
         MaxRead \in Nat, buf.count + MaxRead <= BufSize, Receive
  PROVE  Goes(t, F, at)
<1>1. /\ handling' = TRUE /\ got' = got /\ sent' = sent /\ damaged' = damaged
  BY DEF Receive
<1>2. PICK n \in 1 .. Least(Len(wire), MaxRead) :
          /\ buf' = buffer_write(buf, SubSeq(wire, 1, n))
          /\ wire' = SubSeq(wire, n + 1, Len(wire))
  BY DEF Receive
<1> DEFINE u == t \o SubSeq(wire, 1, n)
<1>3. /\ Good(buf) /\ Holds(buf, t) /\ t \in Seq(Byte) /\ wire \in Seq(Byte)
      /\ Packets(t \o wire, sent, F, at)
      /\ Between(t \o wire, sent, got, F, at, Len(t) - buf.count)
  BY DEF Aligned, Holds
<1>4. buf.count \in 0 .. BufSize /\ BufSize \in Nat
  BY <1>3, Fields, BufSizeAssumption DEF Good
<1>5. n \in 1 .. Len(wire) /\ buf.count + n <= BufSize
  <2> DEFINE c == buf.count
             l == Len(wire)
  <2>1. l \in Nat /\ n \in 1 .. Least(l, MaxRead) /\ c \in Nat /\ c + MaxRead <= BufSize
    BY <1>3, <1>4
  <2> HIDE DEF c, l
  <2>2. n \in 1 .. l /\ c + n <= BufSize
    BY <1>4, <2>1 DEF Least
  <2> QED BY <2>2 DEF c, l
<1>6. Received(buf', u, wire', buf, t, wire, n)
  BY <1>2, <1>3, <1>5, WriteThere
<1> HIDE DEF u
<1>7. /\ Good(buf') /\ Holds(buf', u) /\ wire' \in Seq(Byte) /\ u \o wire' = t \o wire
      /\ Len(u) = Len(t) + n /\ buf'.count = buf.count + n
  BY <1>6 DEF Received
<1>8. Len(u) - buf'.count = Len(t) - buf.count
  <2> DEFINE x == Len(u)
             y == Len(t)
             c == buf.count
             d == buf'.count
  <2>1. y \in Nat /\ c \in Nat /\ n \in Nat /\ x = y + n /\ d = c + n
    BY <1>3, <1>4, <1>5, <1>7
  <2> HIDE DEF x, y, c, d
  <2>2. x - d = y - c
    BY <2>1
  <2> QED BY <2>2 DEF x, y, c, d
<1>9. Aligned(buf', wire', sent', got', u, F, at)
  BY <1>1, <1>3, <1>7, <1>8 DEF Aligned
<1>10. UNCHANGED Channel!vars
  BY <1>1 DEF Channel!vars
<1>11. Fresh(buf', u)
  <2>1. buf'.count # 0
    BY <1>4, <1>5, <1>7
  <2> QED BY <2>1 DEF Fresh
<1> QED
  BY <1>1, <1>9, <1>10, <1>11 DEF Goes

\* flashpacket_get returns, in the handler's loop.
LEMMA LoopStep ==
  ASSUME NEW t, NEW F, NEW at, Aligned(buf, wire, sent, got, t, F, at),
         handling => Fresh(buf, t),
         NoWholePacket \/ GotPacket
  PROVE  Goes(t, F, at)
<1>1. CASE NoWholePacket
  <2>1. PICK g \in flashpacket_get(buf) : g.ret = -1 /\ buf' = g.buf
    BY <1>1 DEF NoWholePacket
  <2>2. /\ wire' = wire /\ sent' = sent /\ got' = got /\ damaged' = damaged
        /\ handling' = FALSE /\ handling
    BY <1>1 DEF NoWholePacket
  <2>3. /\ Aligned(g.buf, wire, sent, got, t, F, at)
        /\ AllSent(sent, F, at) => Drained(g.buf, wire, sent, t, at)
    BY <2>1, <2>2, GetAligned
  <2>4. UNCHANGED Channel!vars
    BY <2>2 DEF Channel!vars
  <2> QED
    BY <2>1, <2>2, <2>3, <2>4 DEF Goes
<1>2. CASE GotPacket
  <2>1. PICK g \in flashpacket_get(buf) :
           g.ret = 0 /\ buf' = g.buf /\ got' = Append(got, g.data)
    BY <1>2 DEF GotPacket
  <2>2. wire' = wire /\ sent' = sent /\ damaged' = damaged /\ handling' = handling /\ handling
    BY <1>2 DEF GotPacket
  <2>3. /\ Aligned(g.buf, wire, sent, Append(got, g.data), t, F, at)
        /\ Fresh(g.buf, t)
        /\ Len(got) < Len(sent) /\ g.data = sent[Len(got) + 1]
    BY <2>1, <2>2, GetAligned
  <2>4. Channel!Next
    BY <2>1, <2>2, <2>3 DEF Channel!Next, Channel!Deliver
  <2> QED
    BY <2>1, <2>2, <2>3, <2>4 DEF Goes
<1> QED
  BY <1>1, <1>2

-----------------------------------------------------------------------------
(* The theorems.                                                           *)

\* The buffer has room for one read and what may come before it of one packet.
Fits == /\ MaxRead \in Nat /\ MaxRead < BufSize
        /\ \A p \in Payloads : Len(p) + 4 + MaxRead <= BufSize

\* Between two events the buffer has room for the next chunk.
ChunkFits == ~handling => buf.count + MaxRead <= BufSize

\* What the loop leaves takes no more than its share of the buffer.
LEMMA RoomBehind ==
  ASSUME Fits, NEW b, NEW w, NEW snt, NEW gt, NEW t, NEW F, NEW at,
         Aligned(b, w, snt, gt, t, F, at), Drained(b, w, snt, t, at)
  PROVE  b.count + MaxRead <= BufSize
<1>1. Good(b) /\ Holds(b, t) /\ Packets(t \o w, snt, F, at)
  BY DEF Aligned
<1> DEFINE c == b.count
           L == Len(t)
           T == t \o w
<1>2. c \in 0 .. BufSize /\ BufSize \in Nat /\ L \in Nat /\ BufSize <= L
  BY <1>1, Fields, BufSizeAssumption DEF Good, Holds
<1>3. MaxRead \in Nat /\ MaxRead + 1 <= BufSize
  BY <1>2 DEF Fits
<1> HIDE DEF c, L, T
<1>4. CASE c <= 1
  <2>1. c + MaxRead <= BufSize
    BY <1>2, <1>3, <1>4
  <2> QED
    BY <2>1 DEF c
<1>5. ASSUME NEW i \in 1 .. Len(snt), at[i] = L - c, L < EndAt(T, at[i])
      PROVE  c + MaxRead <= BufSize
  <2> DEFINE s == at[i]
             p == snt[i]
             z == SizeAt(T, s)
             M == Len(T)
  <2>a. /\ at \in [1 .. Len(snt) -> F] /\ F \in SUBSET Nat /\ T \in Seq(Byte)
        /\ \A r \in F : r + 3 <= M /\ EndAt(T, r) <= M
        /\ PayloadAt(T, s) = p /\ snt \in Seq(Payloads)
    BY <1>1 DEF Packets, Frames, T
  <2>b. at[i] \in F
    BY <2>a, Zenon
  <2>c. snt[i] \in Payloads
    BY <2>a
  <2>1. /\ s \in Nat /\ T \in Seq(Byte) /\ s + 3 <= M /\ EndAt(T, s) <= M
        /\ PayloadAt(T, s) = p /\ p \in Payloads
    BY <2>a, <2>b, <2>c
  <2>2. s \in Nat /\ z \in Nat /\ M \in Nat /\ EndAt(T, s) = s + 5 + z
    <3>1. SizeAt(T, s) \in Nat
      BY <2>1, SizeIsNat
    <3> QED BY <2>1, <3>1 DEF EndAt
  <2>3. Len(p) = z
    <3>1. (s + 3) \in Nat /\ (s + 3) + z <= M
      <4>1. s + 5 + z <= M
        BY <2>1, <2>2
      <4> HIDE DEF s, z, M
      <4> QED BY <2>2, <4>1
    <3> DEFINE q == s + 3
    <3>2. q \in Nat /\ q + z <= Len(T)
      BY <3>1
    <3> HIDE DEF q
    <3>3. Len(Slice(T, q, z)) = z
      BY <2>1, <2>2, <3>2, SliceIs, Zenon
    <3> QED
      BY <2>1, <3>3 DEF PayloadAt, q
  <2>4. z + 4 + MaxRead <= BufSize
    BY <2>1, <2>3 DEF Fits
  <2>5. s = L - c /\ L < s + 5 + z
    BY <1>5, <2>2
  <2> HIDE DEF s, z
  <2> QED
    BY <1>2, <1>3, <2>2, <2>4, <2>5
<1> QED
  BY <1>4, <1>5 DEF Drained, c, L, T

\* At the beginning all is aligned: the stream is the zeros of a new block.
LEMMA InitAligned ==
  ASSUME Init
  PROVE  \E t, F, at : /\ Aligned(buf, wire, sent, got, t, F, at)
                       /\ AllSent(sent, F, at)
                       /\ Drained(buf, wire, sent, t, at)
<1> DEFINE t == [i \in 1 .. BufSize |-> 0]
           at == [i \in 1 .. 0 |-> 0]
           b == buffer_new
<1>1. /\ buf = b /\ wire = << >> /\ sent = << >> /\ got = << >>
  BY DEF Init
<1>2. Good(b) /\ Holds(b, t)
  BY NewGood, ZerosHeld
<1>3. t \in Seq(Byte) /\ Len(t) = BufSize /\ BufSize \in Nat
  <2>1. t \in [1 .. BufSize -> Byte] /\ BufSize \in Nat
    BY ByteAssumption, BufSizeAssumption
  <2> HIDE DEF t
  <2>2. t \in Seq(Byte) /\ Len(t) = BufSize
    BY <2>1
  <2> QED BY <2>1, <2>2
<1>4. b.count = 0
  BY DEF buffer_new
<1> HIDE DEF t, b
<1>5. t \o << >> = t
  BY <1>3, ConcatEmptySeq
<1>6. Ends(t, {}) \in [{} -> Nat]
  BY DEF Ends
<1>7. Frames(t, Header, {}, Ends(t, {}))
  BY <1>3, <1>6 DEF Frames
<1>8. << >> \in Seq(Payloads) /\ Len(<< >>) = 0
  OBVIOUS
<1>9. at \in [1 .. 0 -> {}] /\ \A i \in 1 .. 0 : FALSE
  OBVIOUS
<1>10. Packets(t, << >>, {}, at)
  BY <1>7, <1>8, <1>9 DEF Packets
<1>11. Len(t) - b.count = BufSize
  BY <1>3, <1>4
<1>12. Clear(t, Header, {}, Ends(t, {}), BufSize)
  <2>1. \A q \in BufSize + 1 .. BufSize : FALSE
    BY <1>3
  <2> QED BY <1>3, <2>1 DEF Clear
<1>13. Taken({}, at, 0, 0, BufSize)
  BY <1>9 DEF Taken
<1>14. Between(t, << >>, << >>, {}, at, BufSize)
  BY <1>8, <1>9, <1>12, <1>13 DEF Between
<1>15. << >> \in Seq(Byte)
  OBVIOUS
<1>16. Aligned(b, << >>, << >>, << >>, t, {}, at)
  BY <1>2, <1>5, <1>10, <1>11, <1>14, <1>15 DEF Aligned
<1>17. AllSent(<< >>, {}, at) /\ Drained(b, << >>, << >>, t, at)
  BY <1>4 DEF AllSent, Drained
<1> QED
  BY <1>1, <1>16, <1>17

\* The invariant holds at the beginning.
LEMMA InitInv == Init => Inv
<1> SUFFICES ASSUME Init PROVE Inv
  OBVIOUS
<1>1. damaged \in Nat
  BY DEF Init
<1>2. \E t, F, at : /\ Aligned(buf, wire, sent, got, t, F, at)
                    /\ AllSent(sent, F, at)
                    /\ Drained(buf, wire, sent, t, at)
  BY InitAligned
<1>3. handling = FALSE
  BY DEF Init
<1> QED
  BY <1>1, <1>2, <1>3 DEF Inv

\* Every step from an aligned state.
LEMMA EveryStep ==
  ASSUME NeverHeader, MaxRead \in Nat, damaged \in Nat,
         NEW t, NEW F, NEW at, Aligned(buf, wire, sent, got, t, F, at),
         handling => Fresh(buf, t), ChunkFits, [Next]_vars
  PROVE  Goes(t, F, at)
<1>1. ASSUME NEW p \in Payloads, TargetSends(p) PROVE Goes(t, F, at)
  BY <1>1, SendStep
<1>2. ASSUME NEW p \in Payloads, FrameDamaged(p) PROVE Goes(t, F, at)
  BY <1>2, DamageStep
<1>4. CASE Receive
  <2>1. buf.count + MaxRead <= BufSize
    BY <1>4 DEF Receive, ChunkFits
  <2> QED BY <1>4, <2>1, ReceiveStep
<1>5. CASE NoWholePacket \/ GotPacket
  BY <1>5, LoopStep
<1>6. CASE UNCHANGED vars
  BY <1>6 DEF vars, Goes, Channel!vars
<1> QED
  BY <1>1, <1>2, <1>4, <1>5, <1>6 DEF Next, Handler

\* A step changes the number of damaged packets by one at most.
LEMMA CountsDamaged ==
  ASSUME damaged \in Nat, [Next]_vars
  PROVE  damaged' \in Nat /\ (damaged' = 0 => damaged = 0)
<1>1. ASSUME NEW p \in Payloads, FrameDamaged(p) PROVE damaged' = damaged + 1
  BY <1>1 DEF FrameDamaged
<1>2. ASSUME NEW p \in Payloads, TargetSends(p) PROVE damaged' = damaged
  BY <1>2 DEF TargetSends
<1>3. ASSUME Handler PROVE damaged' = damaged
  BY <1>3 DEF Handler, Receive, NoWholePacket, GotPacket
<1>a. ASSUME UNCHANGED vars PROVE damaged' = damaged
  BY <1>a DEF vars
<1>b. Next \/ UNCHANGED vars
  OBVIOUS
<1>4. damaged' = damaged \/ damaged' = damaged + 1
  BY <1>1, <1>2, <1>3, <1>a, <1>b, Zenon DEF Next
<1> QED
  BY <1>4

\* The invariant leaves room for the next read.
LEMMA InvRoom ==
  ASSUME Fits, Inv
  PROVE  damaged = 0 => ChunkFits
  BY RoomBehind DEF Inv, ChunkFits

\* The invariant is kept.
LEMMA InvKept ==
  ASSUME NeverHeader, Fits, Inv, [Next]_vars
  PROVE  Inv'
<1>1. damaged' \in Nat /\ (damaged' = 0 => damaged = 0)
  BY CountsDamaged DEF Inv
<1>2. ASSUME damaged' = 0
      PROVE  \E u, G, a : /\ Aligned(buf', wire', sent', got', u, G, a)
                          /\ AllSent(sent', G, a)
                          /\ handling' => Fresh(buf', u)
                          /\ ~handling' => Drained(buf', wire', sent', u, a)
  <2>1. damaged = 0 /\ damaged' = damaged
    BY <1>1, <1>2
  <2>2. PICK t, F, at : /\ Aligned(buf, wire, sent, got, t, F, at)
                        /\ AllSent(sent, F, at)
                        /\ handling => Fresh(buf, t)
                        /\ ~handling => Drained(buf, wire, sent, t, at)
    BY <2>1 DEF Inv
  <2>3. ChunkFits /\ MaxRead \in Nat /\ damaged \in Nat
    BY <2>1, InvRoom DEF Fits
  <2>4. Goes(t, F, at)
    BY <2>1, <2>2, <2>3, EveryStep
  <2> QED
    BY <2>1, <2>2, <2>4 DEF Goes
<1> QED
  BY <1>1, <1>2 DEF Inv

\* The invariant leaves no packet behind when all has been read.
LEMMA InvProcessed == Inv => WholePacketsProcessed
<1> SUFFICES ASSUME Inv, damaged = 0, ~handling, wire = << >> PROVE got = sent
  BY DEF WholePacketsProcessed
<1>1. PICK t, F, at : /\ Aligned(buf, wire, sent, got, t, F, at)
                      /\ AllSent(sent, F, at)
                      /\ Drained(buf, wire, sent, t, at)
  BY DEF Inv
<1> DEFINE c == buf.count
           L == Len(t)
           o == L - c
           n == Len(sent)
           k == Len(got)
<1>2. /\ Good(buf) /\ Holds(buf, t) /\ t \in Seq(Byte)
      /\ Packets(t \o wire, sent, F, at) /\ Between(t \o wire, sent, got, F, at, o)
  BY <1>1 DEF Aligned, Holds
<1>3. t \o wire = t
  BY <1>2, ConcatEmptySeq
<1>4. c \in 0 .. BufSize /\ BufSize \in Nat /\ L \in Nat /\ BufSize <= L
  BY <1>2, Fields, BufSizeAssumption DEF Good, Holds
<1>5. /\ Taken(F, at, n, k, o)
      /\ sent \in Seq(Payloads) /\ got \in Seq(Payloads)
      /\ \A i \in 1 .. k : got[i] = sent[i]
  BY <1>2 DEF Packets, Between
<1> HIDE DEF c, L, o, n, k
<1>6. k \in Nat /\ n \in Nat /\ k <= n /\ at \in [1 .. n -> F]
      /\ \A i \in 1 .. n : i <= k <=> at[i] < o
  BY <1>5 DEF Taken
<1>7. k = n
  <2> SUFFICES ASSUME k # n PROVE FALSE
    OBVIOUS
  <2> DEFINE m == k + 1
  <2>1. m \in 1 .. n /\ ~(m <= k)
    BY <1>6
  <2> HIDE DEF m
  <2> DEFINE s == at[m]
             z == SizeAt(t, s)
  <2>2. s \in F /\ ~(s < o)
    BY <1>6, <2>1
  <2>3. s \in Nat /\ s + 3 <= Len(t) /\ EndAt(t, s) <= Len(t)
    BY <1>2, <1>3, <2>2 DEF Packets, Frames
  <2>4. z \in Nat /\ s + 5 + z <= L
    BY <1>2, <2>3, SizeIsNat DEF EndAt, L
  <2> HIDE DEF s, z
  <2>5. o \in Nat /\ o = L - c
    BY <1>4 DEF o
  <2>6. c > 1
    BY <1>4, <2>2, <2>3, <2>4, <2>5
  <2>7. PICK i \in 1 .. n : at[i] = o /\ L < EndAt(t, at[i])
    BY <1>1, <1>3, <1>4, <2>6 DEF Drained, c, L, o, n
  <2>8. at[i] \in F
    BY <1>6, <2>7
  <2>9. EndAt(t, at[i]) \in Nat /\ EndAt(t, at[i]) <= L
    <3>1. at[i] \in Nat /\ at[i] + 3 <= Len(t) /\ EndAt(t, at[i]) <= Len(t)
      BY <1>2, <1>3, <2>8 DEF Packets, Frames
    <3> QED BY <1>2, <3>1, SizeIsNat DEF L
  <2> QED
    BY <1>4, <2>7, <2>9
<1>8. Len(got) = Len(sent) /\ \A i \in 1 .. Len(sent) : got[i] = sent[i]
  BY <1>5, <1>7 DEF k, n
<1> QED
  BY <1>5, <1>8, SeqEqual

\* Whatever the chunks, the handler leaves room for the next read: nothing of it is
\* dropped, as long as no frame was damaged.
THEOREM RoomKept ==
  ASSUME NeverHeader, Fits
  PROVE  Spec => [](damaged = 0 => ChunkFits)
<1>1. Init => Inv
  BY InitInv
<1>2. Inv /\ [Next]_vars => Inv'
  BY InvKept
<1>3. Inv => (damaged = 0 => ChunkFits)
  BY InvRoom
<1> QED
  BY <1>1, <1>2, <1>3, PTL DEF Spec

\* Whatever the chunks, every packet that is whole is dispatched before the handler
\* returns, as long as no frame was damaged.
THEOREM NoPacketLeftBehind ==
  ASSUME NeverHeader, Fits
  PROVE  Spec => []WholePacketsProcessed
<1>1. Init => Inv
  BY InitInv
<1>2. Inv /\ [Next]_vars => Inv'
  BY InvKept
<1> QED
  BY <1>1, <1>2, InvProcessed, PTL DEF Spec

\* Initially nothing is sent and nothing handed out.
LEMMA ChannelInit == Init => Channel!Init
  BY DEF Init, Channel!Init

\* The handler is between two packets of a stream, whatever was damaged.
InStep == \E t, F, at : /\ Aligned(buf, wire, sent, got, t, F, at)
                        /\ handling => Fresh(buf, t)

\* Frames of a wrong CRC in between, and wherever the chunks end:
\* what is dispatched are the packets sent, once each and in order, as long as every
\* chunk finds room.
THEOREM ChannelKept ==
  ASSUME NeverHeader, MaxRead \in Nat
  PROVE  Spec /\ []ChunkFits => Channel!Spec
<1> DEFINE I == damaged \in Nat /\ InStep
<1>1. Init => I
  <2> SUFFICES ASSUME Init PROVE I
    OBVIOUS
  <2>1. damaged \in Nat
    BY DEF Init
  <2>2. \E t, F, at : Aligned(buf, wire, sent, got, t, F, at)
    BY InitAligned
  <2>3. handling = FALSE
    BY DEF Init
  <2> QED
    BY <2>1, <2>2, <2>3 DEF InStep
<1>2. I /\ ChunkFits /\ [Next]_vars => I' /\ [Channel!Next]_(Channel!vars)
  <2> SUFFICES ASSUME I, ChunkFits, [Next]_vars
               PROVE  I' /\ [Channel!Next]_(Channel!vars)
    OBVIOUS
  <2>1. PICK t, F, at : /\ Aligned(buf, wire, sent, got, t, F, at)
                        /\ handling => Fresh(buf, t)
    BY DEF InStep
  <2>2. Goes(t, F, at)
    BY <2>1, EveryStep
  <2>3. \E u, G, a : /\ Aligned(buf', wire', sent', got', u, G, a)
                     /\ handling' => Fresh(buf', u)
    BY <2>2 DEF Goes
  <2> QED
    BY <2>2, <2>3, CountsDamaged DEF Goes, InStep
<1> HIDE DEF I
<1> QED
  BY <1>1, <1>2, ChannelInit, PTL DEF Spec, Channel!Spec

\* The same while no frame is damaged, when the buffer has the room it needs: no chunk
\* can then be too long, and it need not be assumed that none is.
THEOREM IntactChannel ==
  ASSUME NeverHeader, Fits
  PROVE  Spec /\ [](damaged = 0) => Channel!Spec
<1>1. Init => Inv
  BY InitInv
<1>2. Inv /\ [Next]_vars => Inv'
  BY InvKept
<1>3. Inv /\ damaged = 0 /\ (damaged = 0)' /\ [Next]_vars => [Channel!Next]_(Channel!vars)
  <2> SUFFICES ASSUME Inv, damaged = 0, damaged' = 0, [Next]_vars
               PROVE  [Channel!Next]_(Channel!vars)
    OBVIOUS
  <2>1. PICK t, F, at : /\ Aligned(buf, wire, sent, got, t, F, at)
                        /\ handling => Fresh(buf, t)
    BY DEF Inv
  <2>2. ChunkFits /\ MaxRead \in Nat /\ damaged \in Nat
    BY InvRoom DEF Fits
  <2>3. Goes(t, F, at)
    BY <2>1, <2>2, EveryStep
  <2> QED
    BY <2>3 DEF Goes
<1> QED
  BY <1>1, <1>2, <1>3, ChannelInit, PTL DEF Spec, Channel!Spec
-----------------------------------------------------------------------------
(* Programming: the invariant.                                             *)

Requests == [primitive : Primitives, address : 0 .. Size,
             data : Contents \cup {FF, Empty}]
Confirms == [primitive : Primitives, address : 0 .. Size, confirm : BOOLEAN]

\* The first k blocks are programmed, unless the erasure failed.
Upto(k) == erased => \A i \in 1 .. Size : i <= k => flash[i] = image[i]

\* What a request under way says about the flash.
RequestInv(r) ==
    /\ r \in Requests
    /\ image[Size] # FF => r.address < Size
    /\ r.primitive = "PROG_FLASH" =>
          /\ r.address < Size => r.data = Block(r.address)
          /\ Upto(r.address)
    /\ r.primitive = "CALC_CRC32" => Upto(Size)

\* What a confirm under way says about it.
ConfirmInv(m) ==
    /\ m \in Confirms
    /\ image[Size] # FF => m.address < Size
    /\ m.primitive = "PROG_FLASH" =>
          Upto(IF m.confirm THEN m.address + 1 ELSE m.address)
    /\ m.primitive = "CALC_CRC32" /\ m.confirm => flash = image

StateInv ==
    /\ image \in Images
    /\ behind \in [filled : BOOLEAN, ff : 0 .. MaxBehind]
    /\ exited \in {"no", "0", "-1"} \cup Signals
    /\ flash \in [1 .. Size -> Contents \cup {FF, Old, Mixed}]
    /\ erased \in BOOLEAN
    /\ lost \in Nat
    /\ NothingMixed
    /\ ExitZeroMeansProgrammed
    /\ image[Size] # FF => exited # "SIGSEGV"

\* A queue is empty or holds one item.
QueueInv ==
    /\ \/ to_target = << >>
       \/ \E r \in Requests : RequestInv(r) /\ to_target = <<r>>
    /\ \/ from_target = << >>
       \/ \E m \in Confirms : ConfirmInv(m) /\ from_target = <<m>>
    /\ Lockstep

IInv == StateInv /\ QueueInv
-----------------------------------------------------------------------------
\* An image is a sequence of at least one block.
LEMMA ImageIsSeq ==
  ASSUME StateInv
  PROVE  /\ Size \in Nat \ {0}
         /\ image \in [1 .. Size -> Contents \cup {FF}]
<1>1. image \in Seq(Contents \cup {FF}) /\ image # << >>
  BY ImageAssumption DEF StateInv
<1>2. Len(image) \in Nat /\ Len(image) # 0
  BY <1>1, EmptySeq
<1> QED BY <1>1, <1>2 DEF Size

\* The loop over blocks of 0xff ends, and all it passes are such blocks.
LEMMA SkipEnds ==
  ASSUME StateInv, NEW offset \in 0 .. Size
  PROVE  /\ SkipFF(offset) \in offset .. Size + MaxBehind
         /\ ~is_data_ff(SkipFF(offset))
         /\ \A k \in offset .. SkipFF(offset) - 1 : is_data_ff(k)
<1>1. Size \in Nat \ {0} /\ MaxBehind \in Nat /\ behind.ff \in 0 .. MaxBehind
  BY ImageIsSeq, BoundsAssumption DEF StateInv
<1> DEFINE T == {of \in offset .. Size + MaxBehind : ~is_data_ff(of)}
<1>2. Size + MaxBehind \in T
  <2>1. Size + MaxBehind \in offset .. Size + MaxBehind
    BY <1>1
  <2>2. ~(Size + MaxBehind < Size + behind.ff - (IF behind.filled THEN 0 ELSE 1))
    BY <1>1
  <2> QED BY <2>1, <2>2 DEF is_data_ff
<1>3. PICK x \in T : \A y \in T : x <= y
  <2>1. T \in SUBSET Nat
    BY <1>1
  <2> QED BY <1>2, <2>1, LeastElement
<1>4. \A k \in offset .. x - 1 : is_data_ff(k)
  BY <1>1, <1>3
<1>5. \E of \in offset .. Size + MaxBehind :
         /\ ~is_data_ff(of)
         /\ \A k \in offset .. of - 1 : is_data_ff(k)
  BY <1>3, <1>4
<1> HIDE DEF T
<1> QED BY <1>5, Zenon DEF SkipFF
-----------------------------------------------------------------------------
\* The request for the next block from offset on tells the truth about the
\* flash, unless the image is left.
LEMMA ProgFlashReqGood ==
  ASSUME StateInv, NEW offset \in 0 .. Size,
         image[Size] # FF => offset < Size, Upto(offset)
  PROVE  \/ RequestInv(prog_flash_req(offset))
         \/ prog_flash_req(offset) = Crash("SIGSEGV") /\ image[Size] = FF
<1> DEFINE of == SkipFF(offset)
<1>1. /\ Size \in Nat \ {0} /\ MaxBehind \in Nat
      /\ image \in [1 .. Size -> Contents \cup {FF}]
  BY ImageIsSeq, BoundsAssumption
<1>2. /\ of \in offset .. Size + MaxBehind
      /\ ~is_data_ff(of)
      /\ \A k \in offset .. of - 1 : is_data_ff(k)
  BY SkipEnds
<1> HIDE DEF of
<1>3. \A k \in offset .. of - 1 : k < Size => image[k + 1] = FF
  BY <1>2 DEF is_data_ff, Block
<1>4. image[Size] # FF => of < Size
  <2> SUFFICES ASSUME image[Size] # FF, ~(of < Size) PROVE FALSE
    BY <1>1, <1>2
  <2>1. Size - 1 \in offset .. of - 1
    BY <1>1, <1>2
  <2>2. Size - 1 < Size /\ (Size - 1) + 1 = Size
    BY <1>1
  <2> QED BY <1>3, <2>1, <2>2
<1>5. Upto(of)
  <2> SUFFICES ASSUME erased, NEW i \in 1 .. Size, i <= of PROVE flash[i] = image[i]
    BY DEF Upto
  <2>1. CASE i <= offset
    BY <2>1 DEF Upto
  <2>2. CASE ~(i <= offset)
    <3>1. i - 1 \in offset .. of - 1 /\ i - 1 < Size /\ (i - 1) + 1 = i
      BY <1>1, <1>2, <2>2
    <3>2. image[i] = FF
      BY <1>3, <3>1
    <3>3. flash[i] \in {FF, image[i]}
      BY DEF StateInv, NothingMixed
    <3> QED BY <3>2, <3>3
  <2> QED BY <2>1, <2>2
<1>6. CASE DataSizeNegative(of)
  <2>1. image[Size] = FF
    BY <1>1, <1>2, <1>4, <1>6 DEF DataSizeNegative
  <2> QED BY <1>6, <2>1 DEF prog_flash_req, Programming, of
<1>7. CASE ~DataSizeNegative(of)
  <2>1. of \in 0 .. Size
    BY <1>1, <1>2, <1>7 DEF DataSizeNegative
  <2> DEFINE d == IF of = Size THEN Empty ELSE Block(of)
  <2>2. d \in Contents \cup {FF, Empty}
    BY <1>1, <2>1 DEF Block
  <2>3. of < Size => d = Block(of)
    BY <1>1, <2>1
  <2> DEFINE r == [primitive |-> "PROG_FLASH", address |-> of, data |-> d]
  <2>4. prog_flash_req(offset) = r
    BY <1>7 DEF prog_flash_req, Programming, of
  <2> HIDE DEF d
  <2>5. /\ r \in Requests
        /\ r.primitive = "PROG_FLASH" /\ r.address = of /\ r.data = d
    BY <2>1, <2>2 DEF Requests, Primitives
  <2> HIDE DEF r
  <2>6. RequestInv(r)
    BY <1>4, <1>5, <2>3, <2>5 DEF RequestInv
  <2> QED BY <2>4, <2>6
<1> QED BY <1>6, <1>7

\* A request of another kind, in particular that for the checksum.
LEMMA OtherRequestGood ==
  ASSUME StateInv, NEW p \in Primitives \ {"PROG_FLASH"},
         p = "CALC_CRC32" => Upto(Size)
  PROVE  RequestInv(Request(p))
<1>1. Size \in Nat \ {0}
  BY ImageIsSeq
<1>2. /\ Request(p) \in Requests
      /\ Request(p).primitive = p /\ Request(p).address = 0
  BY <1>1 DEF Request, Requests
<1> QED BY <1>1, <1>2 DEF RequestInv

\* flashloader_dispatch sends one request, which tells the truth, or ends the
\* program by a signal: by SIGSEGV only for an image that ends in 0xff.
LEMMA ResponseGood ==
  ASSUME StateInv, NEW m \in Confirms, ConfirmInv(m), m.primitive # "CALC_CRC32"
  PROVE  \E r : /\ flashloader_dispatch(m) = <<r>>
                /\ \/ RequestInv(r)
                   \/ r = Crash("SIGSEGV") /\ image[Size] = FF
                   \/ r = Crash("SIGFPE")
<1>1. Size \in Nat \ {0}
  BY ImageIsSeq
<1>2. CASE m.primitive = "SW_VERSION"
  <2>1. flashloader_dispatch(m) = <<Request("WRITE_CONFIG")>>
    BY <1>2 DEF flashloader_dispatch
  <2>2. RequestInv(Request("WRITE_CONFIG"))
    BY OtherRequestGood DEF Primitives
  <2> QED BY <2>1, <2>2
<1>3. CASE m.primitive = "WRITE_CONFIG"
  <2>1. flashloader_dispatch(m) = <<Request("READ_PROPRIETARY_DATA")>>
    BY <1>3 DEF flashloader_dispatch
  <2>2. RequestInv(Request("READ_PROPRIETARY_DATA"))
    BY OtherRequestGood DEF Primitives
  <2> QED BY <2>1, <2>2
<1>4. CASE m.primitive = "READ_PROPRIETARY_DATA"
  <2>1. flashloader_dispatch(m) = <<erase_flash(m)>>
    BY <1>4 DEF flashloader_dispatch
  <2>2. RequestInv(Request("FLASH_ERASE"))
    BY OtherRequestGood DEF Primitives
  <2>3. erase_flash(m) = Request("FLASH_ERASE") \/ erase_flash(m) = Crash("SIGFPE")
    BY DEF erase_flash
  <2> QED BY <2>1, <2>2, <2>3
<1>5. CASE m.primitive = "FLASH_ERASE"
  <2>1. flashloader_dispatch(m) = <<prog_flash_req(0)>>
    BY <1>5 DEF flashloader_dispatch
  <2>2. Upto(0)
    BY <1>1 DEF Upto
  <2>3. 0 \in 0 .. Size /\ 0 < Size
    BY <1>1
  <2> QED BY <2>1, <2>2, <2>3, ProgFlashReqGood
<1>6. CASE m.primitive = "PROG_FLASH"
  <2>1. flashloader_dispatch(m) = <<prog_flash_cfm(m)>>
    BY <1>6 DEF flashloader_dispatch
  <2>2. m.address \in 0 .. Size /\ m.confirm \in BOOLEAN
    BY DEF Confirms
  <2>3. CASE ~m.confirm
    <3>1. prog_flash_cfm(m) = prog_flash_req(m.address)
      BY <2>3 DEF prog_flash_cfm
    <3>2. Upto(m.address) /\ (image[Size] # FF => m.address < Size)
      BY <1>6, <2>3 DEF ConfirmInv
    <3> QED BY <2>1, <2>2, <3>1, <3>2, ProgFlashReqGood
  <2>4. CASE m.confirm /\ m.address + 1 < Size
    <3>1. prog_flash_cfm(m) = prog_flash_req(m.address + 1)
      BY <2>4 DEF prog_flash_cfm
    <3>2. Upto(m.address + 1)
      BY <1>6, <2>4 DEF ConfirmInv
    <3>3. m.address + 1 \in 0 .. Size
      BY <1>1, <2>2, <2>4
    <3> QED BY <2>1, <2>4, <3>1, <3>2, <3>3, ProgFlashReqGood
  <2>5. CASE m.confirm /\ ~(m.address + 1 < Size)
    <3>1. prog_flash_cfm(m) = Request("CALC_CRC32")
      BY <2>5 DEF prog_flash_cfm, calc_crc32_req
    <3>2. Upto(m.address + 1)
      BY <1>6, <2>5 DEF ConfirmInv
    <3>3. Upto(Size)
      BY <1>1, <2>2, <2>5, <3>2 DEF Upto
    <3>4. RequestInv(Request("CALC_CRC32"))
      BY <3>3, OtherRequestGood DEF Primitives
    <3> QED BY <2>1, <3>1, <3>4
  <2> QED BY <2>2, <2>3, <2>4, <2>5
<1> QED BY <1>2, <1>3, <1>4, <1>5, <1>6 DEF Confirms, Primitives
-----------------------------------------------------------------------------
\* A queue of one item has it at its head and nothing behind it.
LEMMA OneItem ==
  ASSUME NEW x
  PROVE  /\ <<x>> # << >> /\ Head(<<x>>) = x /\ Tail(<<x>>) = << >>
         /\ Len(<<x>>) = 1 /\ <<x>>[1] = x
         /\ << >> \o <<x>> = <<x>> /\ Append(<< >>, x) = <<x>>
         /\ << >> \o << >> = << >> /\ Len(<< >>) = 0
OBVIOUS

\* While one queue holds an item the other is empty and nothing was lost.
LEMMA ConfirmAlone ==
  ASSUME IInv, from_target # << >>
  PROVE  /\ to_target = << >> /\ lost = 0 /\ exited = "no"
         /\ \E m \in Confirms : ConfirmInv(m) /\ from_target = <<m>>
<1>1. PICK m \in Confirms : ConfirmInv(m) /\ from_target = <<m>>
  BY DEF IInv, QueueInv
<1>2. Len(from_target) = 1
  BY <1>1, OneItem
<1>3. to_target = << >> \/ Len(to_target) = 1
  BY OneItem DEF IInv, QueueInv
<1>4. Lockstep
  BY DEF IInv, QueueInv
<1>5. Len(to_target) # 1 /\ exited = "no" /\ lost = 0
  BY <1>2, <1>3, <1>4, OneItem DEF Lockstep
<1> QED BY <1>1, <1>3, <1>5

\* A request is on the way alone.
LEMMA RequestAlone ==
  ASSUME IInv, to_target # << >>
  PROVE  /\ from_target = << >> /\ lost = 0 /\ exited = "no"
         /\ \E r \in Requests : RequestInv(r) /\ to_target = <<r>>
<1>1. PICK r \in Requests : RequestInv(r) /\ to_target = <<r>>
  BY DEF IInv, QueueInv
<1>2. Len(to_target) = 1
  BY <1>1, OneItem
<1>3. from_target = << >> \/ Len(from_target) = 1
  BY OneItem DEF IInv, QueueInv
<1>4. Lockstep
  BY DEF IInv, QueueInv
<1>5. Len(from_target) # 1 /\ exited = "no" /\ lost = 0
  BY <1>2, <1>3, <1>4, OneItem DEF Lockstep
<1> QED BY <1>1, <1>3, <1>5

\* The first request has been sent.
LEMMA ProgramInitInv == ProgramInit => IInv
<1> SUFFICES ASSUME ProgramInit PROVE IInv
  OBVIOUS
<1>1. StateInv
  BY BoundsAssumption
  DEF ProgramInit, StateInv, NothingMixed, ExitZeroMeansProgrammed, Size
<1>2. RequestInv(Request("SW_VERSION"))
  BY <1>1, OtherRequestGood DEF Primitives
<1>3. Request("SW_VERSION") \in Requests
  BY <1>2 DEF RequestInv
<1>4. Lockstep
  BY OneItem DEF ProgramInit, Lockstep
<1> QED BY <1>1, <1>2, <1>3, <1>4 DEF ProgramInit, IInv, QueueInv

\* What the program answers keeps the invariant.
LEMMA DispatchInv == ASSUME IInv, Dispatch PROVE IInv'
<1>1. PICK m \in Confirms : ConfirmInv(m) /\ from_target = <<m>>
  BY ConfirmAlone DEF Dispatch
<1>2. /\ to_target = << >> /\ lost = 0 /\ exited = "no" /\ StateInv
      /\ Head(from_target) = m /\ from_target' = << >>
  BY <1>1, ConfirmAlone, OneItem DEF Dispatch, IInv
<1>3. UNCHANGED <<image, behind, flash, erased, lost>>
  BY DEF Dispatch, target_vars
<1>4. CASE m.primitive = "CALC_CRC32"
  <2>1. flashloader_dispatch(m) = << >>
    BY <1>4 DEF flashloader_dispatch
  <2>2. /\ to_target' = << >>
        /\ exited' = calc_crc32_cfm(m)
    <3>1. ~\E i \in 1 .. Len(<< >>) : << >>[i].primitive \in Signals
      BY OneItem
    <3> QED BY <1>2, <1>4, <2>1, <3>1, OneItem DEF Dispatch
  <2>3. exited' \in {"0", "-1"} /\ (exited' = "0" => flash = image)
    BY <1>1, <1>4, <2>2 DEF calc_crc32_cfm, ConfirmInv
  <2>4. StateInv'
    BY <1>2, <1>3, <2>3
    DEF StateInv, NothingMixed, ExitZeroMeansProgrammed, Size
  <2>5. Lockstep'
    BY <1>2, <2>2, <2>3, OneItem DEF Lockstep
  <2> QED BY <1>2, <2>2, <2>4, <2>5 DEF IInv, QueueInv
<1>5. CASE m.primitive # "CALC_CRC32"
  <2>1. PICK r : /\ flashloader_dispatch(m) = <<r>>
                 /\ \/ RequestInv(r)
                    \/ r = Crash("SIGSEGV") /\ image[Size] = FF
                    \/ r = Crash("SIGFPE")
    BY <1>1, <1>2, <1>5, ResponseGood
  <2>2. (\E i \in 1 .. Len(<<r>>) : <<r>>[i].primitive \in Signals)
            <=> r.primitive \in Signals
    BY OneItem
  <2>3. CASE RequestInv(r)
    <3>1. r \in Requests /\ r.primitive \notin Signals
      BY <2>3 DEF RequestInv, Requests, Primitives, Signals
    <3>2. to_target' = <<r>> /\ exited' = "no"
      BY <1>2, <1>5, <2>1, <2>2, <3>1, OneItem DEF Dispatch
    <3>3. StateInv'
      BY <1>2, <1>3, <3>2
      DEF StateInv, NothingMixed, ExitZeroMeansProgrammed, Size
    <3>4. RequestInv(r)' /\ (r \in Requests)'
      BY <1>3, <2>3, <3>1 DEF RequestInv, Requests, Upto, Block, Size
    <3>5. Lockstep'
      BY <1>2, <1>3, <3>2, OneItem DEF Lockstep
    <3> QED BY <1>2, <3>2, <3>3, <3>4, <3>5 DEF IInv, QueueInv
  <2>4. CASE ~RequestInv(r)
    <3>1. /\ r.primitive \in Signals
          /\ r.primitive = "SIGSEGV" => image[Size] = FF
      BY <2>1, <2>4 DEF Crash, Signals
    <3>2. to_target' = << >> /\ exited' = r.primitive
      BY <1>2, <1>5, <2>1, <2>2, <3>1, OneItem DEF Dispatch
    <3>3. StateInv'
      BY <1>2, <1>3, <3>1, <3>2
      DEF StateInv, NothingMixed, ExitZeroMeansProgrammed, Size, Signals
    <3>4. Lockstep'
      BY <1>2, <1>3, <3>1, <3>2, OneItem DEF Lockstep, Signals
    <3> QED BY <1>2, <3>2, <3>3, <3>4 DEF IInv, QueueInv
  <2> QED BY <2>3, <2>4
<1> QED BY <1>4, <1>5

\* Serving the request r leaves its confirm as the only item under way.
LEMMA ServeOne ==
  ASSUME IInv, NEW r \in Requests, to_target = <<r>>, NEW ok \in BOOLEAN, Serve(ok),
         Upto(r.address)' \/ r.primitive # "PROG_FLASH",
         Upto(r.address + 1)' \/ ~ok \/ r.primitive # "PROG_FLASH",
         ok => (flash = image)' \/ r.primitive # "CALC_CRC32",
         StateInv'
  PROVE  IInv'
<1> DEFINE m == Confirm(r, ok)
<1>1. from_target = << >> /\ lost = 0 /\ exited = "no" /\ RequestInv(r)
  <2>1. PICK s \in Requests : RequestInv(s) /\ to_target = <<s>>
    BY RequestAlone, OneItem
  <2>2. s = r
    BY <2>1, OneItem
  <2> QED BY <2>1, <2>2, RequestAlone, OneItem
<1>2. /\ to_target' = << >> /\ from_target' = <<m>>
      /\ UNCHANGED <<image, exited, lost>>
  BY <1>1, OneItem DEF Serve, program_vars
<1>3. m \in Confirms /\ m.primitive = r.primitive /\ m.address = r.address
      /\ m.confirm = ok
  BY DEF Confirm, Requests, Confirms
<1> HIDE DEF m
<1>4. (m \in Confirms)'
  BY <1>2, <1>3 DEF Confirms, Size
<1>5. ConfirmInv(m)'
  <2>1. (image[Size] # FF => m.address < Size)'
    BY <1>1, <1>2, <1>3 DEF RequestInv, Size
  <2>2. m.primitive = "PROG_FLASH" =>
          Upto(IF m.confirm THEN m.address + 1 ELSE m.address)'
    BY <1>3
  <2>3. (m.primitive = "CALC_CRC32" /\ m.confirm => flash = image)'
    BY <1>3
  <2> QED BY <1>4, <2>1, <2>2, <2>3 DEF ConfirmInv
<1>6. Lockstep'
  BY <1>1, <1>2, OneItem DEF Lockstep
<1> QED BY <1>2, <1>4, <1>5, <1>6 DEF IInv, QueueInv

\* What the target serves keeps the invariant.
LEMMA TargetServesInv == ASSUME IInv, TargetServes PROVE IInv'
<1>1. PICK r \in Requests : RequestInv(r) /\ to_target = <<r>>
  BY RequestAlone DEF TargetServes
<1>2. Head(to_target) = r /\ StateInv /\ exited = "no"
  BY <1>1, OneItem, RequestAlone DEF IInv
<1>3. /\ Size \in Nat \ {0}
      /\ image \in [1 .. Size -> Contents \cup {FF}]
  BY <1>2, ImageIsSeq
<1>4. CASE /\ r.primitive \in {"SW_VERSION", "WRITE_CONFIG", "READ_PROPRIETARY_DATA"}
           /\ Serve(TRUE)
           /\ UNCHANGED target_vars
  <2>1. UNCHANGED <<image, behind, exited, flash, erased, lost>>
    BY <1>4 DEF Serve, program_vars, target_vars
  <2>2. StateInv'
    BY <1>2, <2>1 DEF StateInv, NothingMixed, ExitZeroMeansProgrammed, Size
  <2> QED BY <1>1, <1>4, <2>2, ServeOne
<1>5. CASE /\ r.primitive = "FLASH_ERASE"
           /\ Serve(TRUE)
           /\ flash' = [i \in 1 .. Size |-> FF]
           /\ erased' = TRUE
  <2>1. UNCHANGED <<image, behind, exited, lost>>
    BY <1>5 DEF Serve, program_vars
  <2>2. StateInv'
    BY <1>2, <1>5, <2>1 DEF StateInv, NothingMixed, ExitZeroMeansProgrammed, Size
  <2> QED BY <1>1, <1>5, <2>2, ServeOne
<1>6. CASE /\ r.primitive = "PROG_FLASH"
           /\ Serve(TRUE)
           /\ flash' = [i \in 1 .. Size |-> IF i = r.address + 1
                                           THEN Programmed(flash[i], r.data)
                                           ELSE flash[i]]
           /\ UNCHANGED erased
  <2>1. UNCHANGED <<image, behind, exited, lost>> /\ Size' = Size
    BY <1>6 DEF Serve, program_vars, Size
  <2>2. r.address \in 0 .. Size /\ r.data \in Contents \cup {FF, Empty}
    BY DEF Requests
  <2>3. ASSUME NEW i \in 1 .. Size, i # r.address + 1
        PROVE  flash'[i] = flash[i]
    BY <1>6, <2>3
  <2>4. ASSUME NEW i \in 1 .. Size, i = r.address + 1
        PROVE  /\ flash'[i] \in Contents \cup {FF, Mixed}
               /\ erased => flash'[i] = image[i]
    <3>1. flash'[i] = Programmed(flash[i], r.data)
      BY <1>6, <2>4
    <3>2. r.data = image[i]
      <4>1. r.address < Size
        BY <2>2, <2>4, <1>3
      <4>2. r.data = Block(r.address)
        BY <1>1, <1>6, <4>1 DEF RequestInv
      <4> QED BY <2>4, <4>2 DEF Block
    <3>3. image[i] \in Contents \cup {FF}
      BY <1>3
    <3>4. erased => flash[i] \in {FF, image[i]}
      BY <1>2 DEF StateInv, NothingMixed
    <3> QED BY <3>1, <3>2, <3>3, <3>4 DEF Programmed
  <2>5. flash' \in [1 .. Size -> Contents \cup {FF, Old, Mixed}]
    <3>1. ASSUME NEW i \in 1 .. Size
          PROVE  flash'[i] \in Contents \cup {FF, Old, Mixed}
      BY <1>2, <2>3, <2>4 DEF StateInv
    <3>2. flash' = [i \in 1 .. Size |-> flash'[i]]
      BY <1>6
    <3> QED BY <3>1, <3>2
  <2>6. erased => \A i \in 1 .. Size : flash'[i] \in {FF, image[i]}
    BY <1>2, <2>3, <2>4 DEF StateInv, NothingMixed
  <2>7. StateInv'
    BY <1>2, <1>6, <2>1, <2>5, <2>6
    DEF StateInv, NothingMixed, ExitZeroMeansProgrammed
  <2>8. Upto(r.address)' /\ Upto(r.address + 1)'
    <3>1. Upto(r.address)
      BY <1>1, <1>6 DEF RequestInv
    <3>2. ASSUME erased, NEW i \in 1 .. Size, i <= r.address + 1
          PROVE  flash'[i] = image[i]
      <4>1. CASE i = r.address + 1
        BY <2>4, <3>2, <4>1
      <4>2. CASE i # r.address + 1
        <5>1. i <= r.address
          BY <2>2, <3>2, <4>2
        <5> QED BY <2>3, <3>1, <3>2, <4>2, <5>1 DEF Upto
      <4> QED BY <4>1, <4>2
    <3>3. \A i \in 1 .. Size : i <= r.address => i <= r.address + 1
      BY <2>2
    <3> QED BY <1>6, <2>1, <3>2, <3>3 DEF Upto
  <2> QED BY <1>1, <1>6, <2>7, <2>8, ServeOne
<1>7. CASE /\ r.primitive = "CALC_CRC32"
           /\ Serve(flash = image)
           /\ UNCHANGED target_vars
  <2>1. UNCHANGED <<image, behind, exited, flash, erased, lost>>
    BY <1>7 DEF Serve, program_vars, target_vars
  <2>2. StateInv'
    BY <1>2, <2>1 DEF StateInv, NothingMixed, ExitZeroMeansProgrammed, Size
  <2>3. (flash = image) \in BOOLEAN
    OBVIOUS
  <2> QED BY <1>1, <1>7, <2>1, <2>2, <2>3, ServeOne
<1> QED BY <1>2, <1>4, <1>5, <1>6, <1>7 DEF TargetServes

\* A refusal leaves the flash as it is.
LEMMA TargetFailsInv == ASSUME IInv, TargetFails PROVE IInv'
<1>1. PICK r \in Requests : RequestInv(r) /\ to_target = <<r>>
  BY RequestAlone DEF TargetFails
<1>2. StateInv /\ Serve(FALSE) /\ r.primitive # "CALC_CRC32"
  BY <1>1, OneItem DEF IInv, TargetFails, Fallible
<1>3. UNCHANGED <<image, behind, exited, flash, erased, lost>>
  BY DEF TargetFails, Serve, program_vars
<1>4. StateInv'
  BY <1>2, <1>3 DEF StateInv, NothingMixed, ExitZeroMeansProgrammed, Size
<1>5. Upto(r.address)' \/ r.primitive # "PROG_FLASH"
  BY <1>1, <1>3 DEF RequestInv, Upto, Size
<1> QED BY <1>1, <1>2, <1>4, <1>5, ServeOne

\* A lost confirm leaves nothing under way.
LEMMA ConfirmLostInv == ASSUME IInv, ConfirmLost PROVE IInv'
<1>1. PICK m \in Confirms : ConfirmInv(m) /\ from_target = <<m>>
  BY ConfirmAlone DEF ConfirmLost
<1>2. /\ to_target' = << >> /\ from_target' = << >>
      /\ lost' = 1 /\ StateInv
      /\ UNCHANGED <<image, behind, exited, flash, erased>>
  BY <1>1, ConfirmAlone, OneItem
  DEF ConfirmLost, IInv, program_vars, target_vars
<1>3. StateInv'
  BY <1>2 DEF StateInv, NothingMixed, ExitZeroMeansProgrammed, Size
<1>4. Lockstep'
  BY <1>2, OneItem DEF Lockstep
<1> QED BY <1>2, <1>3, <1>4 DEF IInv, QueueInv
-----------------------------------------------------------------------------
\* The invariant holds of every behaviour.
THEOREM ProgramInvariance == ProgramSpec => []IInv
<1>1. IInv /\ [ProgramNext]_programming_vars => IInv'
  <2> SUFFICES ASSUME IInv, [ProgramNext]_programming_vars PROVE IInv'
    OBVIOUS
  <2>1. CASE UNCHANGED programming_vars
    BY <2>1 DEF IInv, StateInv, QueueInv, NothingMixed, ExitZeroMeansProgrammed,
       Lockstep, RequestInv, ConfirmInv, Requests, Confirms, Upto, Block, Size,
       programming_vars, program_vars, target_vars
  <2> QED BY <2>1, DispatchInv, TargetServesInv, TargetFailsInv, ConfirmLostInv
      DEF ProgramNext
<1> QED BY <1>1, ProgramInitInv, PTL DEF ProgramSpec

\* One request or confirm is under way at any time until the program ends: no
\* confirm starts a second chain, for images of any length.
THEOREM OneUnderWay == ProgramSpec => []Lockstep
<1>1. IInv => Lockstep
  BY DEF IInv, QueueInv
<1> QED BY <1>1, ProgramInvariance, PTL

\* Once erased, a block is erased or holds the image, through all refusals and
\* requests made again.
THEOREM NeverMixed == ProgramSpec => []NothingMixed
<1>1. IInv => NothingMixed
  BY DEF IInv, StateInv
<1> QED BY <1>1, ProgramInvariance, PTL

\* Exit code 0 means that the flash holds the image, whatever failed on the way.
THEOREM ExitZero == ProgramSpec => []ExitZeroMeansProgrammed
<1>1. IInv => ExitZeroMeansProgrammed
  BY DEF IInv, StateInv
<1> QED BY <1>1, ProgramInvariance, PTL

\* When the checksum is asked for after a successful erasure, the image is
\* complete in the flash, skipped blocks included.
THEOREM Complete == ProgramSpec => []CompleteAtChecksum
<1>1. IInv => CompleteAtChecksum
  <2> SUFFICES ASSUME IInv, erased, NEW i \in 1 .. Len(to_target),
                      to_target[i].primitive = "CALC_CRC32"
               PROVE  flash = image
    BY DEF CompleteAtChecksum
  <2>1. to_target # << >>
    BY OneItem
  <2>2. PICK r \in Requests : RequestInv(r) /\ to_target = <<r>>
    BY <2>1, RequestAlone
  <2>3. i = 1 /\ r.primitive = "CALC_CRC32"
    BY <2>2, OneItem
  <2>4. Upto(Size)
    BY <2>2, <2>3 DEF RequestInv
  <2>5. /\ Size \in Nat \ {0}
        /\ image \in [1 .. Size -> Contents \cup {FF}]
        /\ flash \in [1 .. Size -> Contents \cup {FF, Old, Mixed}]
    BY ImageIsSeq DEF IInv, StateInv
  <2>6. \A j \in 1 .. Size : flash[j] = image[j]
    BY <2>4, <2>5 DEF Upto
  <2> QED BY <2>5, <2>6
<1> QED BY <1>1, ProgramInvariance, PTL

\* The program does not leave an image whose last block is not 0xff, whatever
\* the memory behind it holds.
THEOREM ImageNotLeft == ProgramSpec => []StaysInImage
<1>1. IInv => StaysInImage
  <2> SUFFICES ASSUME IInv, image[Size] # FF
               PROVE  /\ exited # "SIGSEGV"
                      /\ \A i \in 1 .. Len(to_target) : to_target[i].address < Size
    BY DEF StaysInImage
  <2>1. exited # "SIGSEGV"
    BY DEF IInv, StateInv
  <2>2. CASE to_target = << >>
    BY <2>1, <2>2, OneItem
  <2>3. CASE to_target # << >>
    <3>1. PICK r \in Requests : RequestInv(r) /\ to_target = <<r>>
      BY <2>3, RequestAlone
    <3> QED BY <2>1, <3>1, OneItem DEF RequestInv
  <2> QED BY <2>2, <2>3
<1> QED BY <1>1, ProgramInvariance, PTL

\* Requests and confirms keep their types: addresses are within the image or at
\* its end.
THEOREM TypeCorrect == ProgramSpec => []TypeOK
<1>1. IInv => TypeOK
  <2> SUFFICES ASSUME IInv PROVE TypeOK
    OBVIOUS
  <2>1. to_target \in Seq(Requests)
    <3>1. ASSUME NEW r \in Requests PROVE <<r>> \in Seq(Requests)
      OBVIOUS
    <3>2. << >> \in Seq(Requests)
      OBVIOUS
    <3> QED BY <3>1, <3>2 DEF IInv, QueueInv
  <2>2. from_target \in Seq(Confirms)
    <3>1. ASSUME NEW m \in Confirms PROVE <<m>> \in Seq(Confirms)
      OBVIOUS
    <3>2. << >> \in Seq(Confirms)
      OBVIOUS
    <3> QED BY <3>1, <3>2 DEF IInv, QueueInv
  <2> QED BY <2>1, <2>2 DEF TypeOK, IInv, StateInv, Requests, Confirms
<1> QED BY <1>1, ProgramInvariance, PTL
=============================================================================
