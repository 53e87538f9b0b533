--------------------------------- MODULE Crc ---------------------------------
(***************************************************************************)
(* The checksums of src/Crc.c: UpdateCrc, which guards each mail of the    *)
(* flash loader, and the table-driven CRC-32 over the image.  A word is    *)
(* the set of the positions of its 1 bits, so exclusive or is the          *)
(* symmetric difference of sets; integer promotion and truncation are the  *)
(* widths given to the shifts.                                             *)
(*                                                                         *)
(* The specification takes the bytes of a mail one by one: crc is what the *)
(* sender computes, crc_calc what flashpacket_get computes from the bytes  *)
(* that arrive, of which two neighbours may have been damaged.  The bytes  *)
(* so far also serve as the image whose CRC-32 is compared.                *)
(***************************************************************************)
EXTENDS SequencesExt, Integers

CONSTANTS Bytes,    \* values of a byte that occur
          MaxLen    \* bound on the bytes of a mail

ASSUME BytesAssumption == Bytes \subseteq SUBSET (0 .. 7)

VARIABLES crc,        \* make_tx_packet's register
          crc_calc,   \* flashpacket_get's register
          ccitt,      \* history: the register of the bit-serial definition
          data,       \* history: the bytes sent
          damage      \* none, first: the last byte is damaged, or over

crc_vars == <<crc, crc_calc, ccitt, data, damage>>

Word16 == SUBSET (0 .. 15)

\* w << k and w >> k of words of at most n bits.
Shl(w, k, n) == {b \in 0 .. n - 1 : b - k \in w}
Shr(w, k, n) == {b \in 0 .. n - 1 : b + k \in w}
Low8(w) == w \cap (0 .. 7)
-----------------------------------------------------------------------------
(* CCITT, 16 bits.                                                         *)

\* Mistake: the last line shifts by 4 only.
UpdateCrc_short_shift(byte, icrc) ==
    LET c0 == Shr(icrc, 8, 8) \cup Shl(icrc, 8, 16)
        c1 == SymDiff(c0, byte)
        c2 == SymDiff(c1, Shr(Low8(c1), 4, 8))
        c3 == SymDiff(c2, Shl(c2, 12, 16))
    IN  SymDiff(c3, Shl(Low8(c3), 4, 16))

\* Mistake: only the low half of the byte is taken.
UpdateCrc_low_half(byte, icrc) ==
    LET c0 == Shr(icrc, 8, 8) \cup Shl(icrc, 8, 16)
        c1 == SymDiff(c0, byte \cap (0 .. 3))
        c2 == SymDiff(c1, Shr(Low8(c1), 4, 8))
        c3 == SymDiff(c2, Shl(c2, 12, 16))
    IN  SymDiff(c3, Shl(Low8(c3), 5, 16))

UpdateCrc(byte, icrc) ==
    LET c0 == Shr(icrc, 8, 8) \cup Shl(icrc, 8, 16)
        c1 == SymDiff(c0, byte)
        c2 == SymDiff(c1, Shr(Low8(c1), 4, 8))
        c3 == SymDiff(c2, Shl(c2, 12, 16))
    IN  SymDiff(c3, Shl(Low8(c3), 5, 16))

\* X^16 + X^12 + X^5 + 1 (Crc.c:186), the highest power left out.
CcittPoly == {12, 5, 0}

\* The register of the division by the polynomial after one more bit.
CcittBit(r, bit) ==
    IF (15 \in r) <=> bit THEN Shl(r, 1, 16)
                          ELSE SymDiff(Shl(r, 1, 16), CcittPoly)

\* The bits of a byte go in highest first.
CcittByte(byte, r) ==
    LET r7 == CcittBit(r, 7 \in byte)
        r6 == CcittBit(r7, 6 \in byte)
        r5 == CcittBit(r6, 5 \in byte)
        r4 == CcittBit(r5, 4 \in byte)
        r3 == CcittBit(r4, 3 \in byte)
        r2 == CcittBit(r3, 2 \in byte)
        r1 == CcittBit(r2, 1 \in byte)
    IN  CcittBit(r1, 0 \in byte)
-----------------------------------------------------------------------------
(* CRC-32.                                                                 *)

Ones32 == 0 .. 31

\* 0xEDB88320.
Poly32 == {31, 30, 29, 27, 26, 24, 23, 21, 20, 19, 15, 9, 8, 5}

\* One step of the inner loop of InitCrc32Table.
Crc32Step(crc32) == IF 0 \in crc32 THEN SymDiff(Shr(crc32, 1, 32), Poly32)
                                   ELSE Shr(crc32, 1, 32)

Crc32Entry(i) == FoldLeft(LAMBDA crc32, j : Crc32Step(crc32), i, [j \in 1 .. 8 |-> j])

crc32Table == [i \in SUBSET (0 .. 7) |-> Crc32Entry(i)]

InitCalculateCRC32 == Ones32
GetCRC32(crc32) == SymDiff(crc32, Ones32)

\* The line that takes a byte into the register, of both block functions.
UpdateCrc32(byte, crc32) ==
    SymDiff(Shr(crc32, 8, 32), crc32Table[Low8(SymDiff(crc32, byte))])

\* Byte i of the image, read in words of 16 bits with the low byte first.
ByteAt(words, i) == LET data16 == words[(i + 1) \div 2]
                    IN  IF i % 2 = 1 THEN Low8(data16) ELSE Shr(data16, 8, 8)

\* Mistake: the last word is always taken whole.
BlockCalculateCRC32_whole_words(crc32, words, Length) ==
    FoldLeft(LAMBDA r, i : UpdateCrc32(ByteAt(words, i), r), crc32,
             [i \in 1 .. 2 * Len(words) |-> i])

\* Of the last word of an odd Length only the low byte counts.
BlockCalculateCRC32(crc32, words, Length) ==
    FoldLeft(LAMBDA r, i : UpdateCrc32(ByteAt(words, i), r), crc32,
             [i \in 1 .. Length |-> i])

CalculateCRC32(words, Length) ==
    GetCRC32(BlockCalculateCRC32(InitCalculateCRC32, words, Length))

CalculateEmptyBlockCRC32(Length) ==
    GetCRC32(FoldLeft(LAMBDA r, i : UpdateCrc32(0 .. 7, r), InitCalculateCRC32,
                      [i \in 1 .. Length |-> i]))

\* The image in memory as read through a uint16 pointer; beyond is the byte
\* that follows it.
InWords(bytes, beyond) ==
    LET padded == Append(bytes, beyond)
    IN  [k \in 1 .. (Len(bytes) + 1) \div 2 |->
            padded[2 * k - 1] \cup Shl(padded[2 * k], 8, 16)]

\* The reflected register after one more bit.
Crc32Bit(r, bit) == IF (0 \in r) <=> bit THEN Shr(r, 1, 32)
                                         ELSE SymDiff(Shr(r, 1, 32), Poly32)

\* CRC-32 by its definition: the bits of each byte lowest first, the register
\* all ones before and inverted after.
Crc32Reference(bytes) ==
    SymDiff(Ones32,
            FoldLeft(LAMBDA r, k : Crc32Bit(r, (k - 1) % 8 \in bytes[(k + 7) \div 8]),
                     Ones32, [k \in 1 .. 8 * Len(bytes) |-> k]))
-----------------------------------------------------------------------------
CrcInit == /\ crc = {} /\ crc_calc = {} /\ ccitt = {}
           /\ data = << >>
           /\ damage = "none"

\* One round of the two loops: byte is sent and arrives as received.
Carried(byte, received) ==
    /\ Len(data) < MaxLen
    /\ damage = "over" => received = byte
    /\ crc' = UpdateCrc(byte, crc)
    /\ crc_calc' = UpdateCrc(received, crc_calc)
    /\ ccitt' = CcittByte(byte, ccitt)
    /\ data' = Append(data, byte)
    /\ damage' = IF damage # "none" THEN "over"
                 ELSE IF received = byte THEN "none" ELSE "first"

CrcNext == \E byte, received \in Bytes : Carried(byte, received)

CrcSpec == CrcInit /\ [][CrcNext]_crc_vars
-----------------------------------------------------------------------------
\* The registers are 16 bits wide.
CrcTypeOK == /\ crc \in Word16 /\ crc_calc \in Word16 /\ ccitt \in Word16
             /\ data \in Seq(Bytes)
             /\ damage \in {"none", "first", "over"}

\* The shifts and exclusive ors of UpdateCrc are the division by the polynomial
\* its comment names, however long the mail.
UpdateCrcIsCcitt == crc = ccitt

\* A mail with one byte or two neighbouring bytes changed has another checksum
\* at its end, whatever follows the damage: flashpacket_get drops it.
DamageDetected == damage # "none" => crc # crc_calc

\* The table-driven checksum of the image is the CRC-32 of its bytes, for odd
\* and even sizes, and the byte after an image of odd size, which is read, does
\* not count.  For blocks of 0xff the shorter function agrees.  (Every sequence
\* of bytes also occurs undamaged.)
ImageChecksumIsCrc32 == damage = "none" =>
    /\ \A beyond \in Bytes :
          CalculateCRC32(InWords(data, beyond), Len(data)) = Crc32Reference(data)
    /\ CalculateEmptyBlockCRC32(Len(data))
          = Crc32Reference([i \in 1 .. Len(data) |-> 0 .. 7])
=============================================================================
