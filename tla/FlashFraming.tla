---------------------------- MODULE FlashFraming ----------------------------
(***************************************************************************)
(* How packets are cut out of the byte stream while the flash is           *)
(* programmed: handle_flashloader_package with flashpacket_get, both of    *)
(* src/flashloader.c, on the ring of Buffer.  The length comes low byte    *)
(* first, the frame ends in a 16-bit CRC, and the search for a start of    *)
(* frame goes on when it read nothing, unlike busmail_get's.               *)
(***************************************************************************)
EXTENDS Buffer, SequencesExt

CONSTANTS Base,             \* number of values of a byte (256)
          Header,           \* UART_PACKET_HEADER
          UpdateCrc(_, _),  \* the CRC after one more byte
          Payloads,         \* payloads the target may send
          MaxRead,          \* longest chunk a read() returns
          MaxSent,          \* bound on the frames sent intact
          MaxDamaged        \* bound on the damaged frames

ASSUME BaseAssumption == Base \in Nat \ {0} /\ Byte = 0 .. Base - 1
ASSUME HeaderAssumption == Header \in Byte
ASSUME PayloadAssumption ==
    \A p \in Payloads : p \in Seq(Byte) /\ Len(p) < Base * Base

VARIABLES buf,        \* the input buffer
          wire,       \* bytes sent and not read yet
          handling,   \* inside the handler's loop over flashpacket_get
          sent,       \* payloads sent intact
          got,        \* payloads handed to flashloader_dispatch
          damaged     \* damaged frames so far

vars == <<buf, wire, handling, sent, got, damaged>>

Crc(data) == FoldLeft(LAMBDA crc, x : UpdateCrc(x, crc), 0, data)

\* An unsigned short.  It could be proved only by induction over the payload.
ASSUME CrcAssumption == \A p \in Payloads : Crc(p) \in 0 .. Base * Base - 1

\* A 16-bit number on the line: low byte, high byte.
Lsb(n) == n % Base
Msb(n) == n \div Base

make_tx_packet(data) ==
    <<Header, Lsb(Len(data)), Msb(Len(data))>> \o data
        \o <<Lsb(Crc(data)), Msb(Crc(data))>>

Init == /\ buf = buffer_new
        /\ wire = << >>
        /\ handling = FALSE
        /\ sent = << >>
        /\ got = << >>
        /\ damaged = 0
-----------------------------------------------------------------------------
(* The line.  The target frames its mails as make_tx_packet does.          *)

TargetSends(p) ==
    /\ Len(sent) < MaxSent
    /\ wire' = wire \o make_tx_packet(p)
    /\ sent' = Append(sent, p)
    /\ UNCHANGED <<buf, handling, got, damaged>>

\* A frame one byte of whose payload was changed on the way, detectably.
FrameDamaged(p) ==
    /\ damaged < MaxDamaged
    /\ \E i \in 1 .. Len(p), x \in Byte :
          /\ Crc([p EXCEPT ![i] = x]) # Crc(p)
          /\ wire' = wire \o [make_tx_packet(p) EXCEPT ![3 + i] = x]
    /\ damaged' = damaged + 1
    /\ UNCHANGED <<buf, handling, sent, got>>
-----------------------------------------------------------------------------
(* The handler.                                                            *)

\* read() in main, then buffer_write at the top of the handler.
Receive ==
    /\ ~handling
    /\ \E n \in 1 .. Least(Len(wire), MaxRead) :
          /\ buf' = buffer_write(buf, SubSeq(wire, 1, n))
          /\ wire' = SubSeq(wire, n + 1, Len(wire))
    /\ handling' = TRUE
    /\ UNCHANGED <<sent, got, damaged>>

\* Bytes read one by one up to and including the first start of frame, all of
\* them when there is none.
Sought(b) == LET at == SelectInSeq(Unread(b), LAMBDA x : x = Header)
             IN  IF at = 0 THEN b.count ELSE at

FrameSize(s) == s[2] * Base + s[1]

NoPacket(b) == [ret |-> -1, buf |-> b, data |-> << >>]

\* Data and CRC have been read.
\* Mistake: only the high byte of the CRC is compared.
Checked_msb_only(r, size) ==
    LET data == SubSeq(r.data, 1, size)
    IN  {IF r.data[size + 2] = Msb(Crc(data))
         THEN [ret |-> 0, buf |-> r.buf, data |-> data]
         ELSE NoPacket(r.buf)}

Checked(r, size) ==
    LET data == SubSeq(r.data, 1, size)
    IN  {IF r.data[size + 2] * Base + r.data[size + 1] = Crc(data)
         THEN [ret |-> 0, buf |-> r.buf, data |-> data]
         ELSE NoPacket(r.buf)}

\* The length has been read.  Do we have a full packet?
\* Mistake: one byte of the CRC may still be missing.
Measured_off_by_one(r) ==
    LET size == FrameSize(r.data)
    IN  IF 1 + size > buffer_size(r.buf)
        THEN {NoPacket(buffer_rewind(r.buf, 3))}
        ELSE UNION {Checked([s EXCEPT !.data = @ \o <<0>>], size) :
                    s \in {buffer_read(r.buf, size + 2)}}

Measured(r) ==
    LET size == FrameSize(r.data)
    IN  IF 2 + size > buffer_size(r.buf)
        THEN {NoPacket(buffer_rewind(r.buf, 3))}
        ELSE UNION {Checked(s, size) : s \in {buffer_read(r.buf, size + 2)}}

\* The start of frame has been sought.  Do we have a full header?  On an empty
\* buffer the rewind brings back the last byte of the frame before.
Headed(b) == IF buffer_size(b) < 2
             THEN {NoPacket(buffer_rewind(b, 1))}
             ELSE UNION {Measured(r) : r \in {buffer_read(b, 2)}}

\* The outcomes: return value, buffer left behind, payload copied to p.
flashpacket_get(b) ==
    UNION {Headed(r.buf) : r \in {buffer_read(b, Sought(b))}}

\* return -1 ends the loop and the handler; main waits for the next event.
NoWholePacket ==
    /\ handling
    /\ \E g \in flashpacket_get(buf) : g.ret = -1 /\ buf' = g.buf
    /\ handling' = FALSE
    /\ UNCHANGED <<wire, sent, got, damaged>>

\* return 0: the payload goes to flashloader_dispatch and the loop goes on.
GotPacket ==
    /\ handling
    /\ \E g \in flashpacket_get(buf) : /\ g.ret = 0
                                   /\ buf' = g.buf
                                   /\ got' = Append(got, g.data)
    /\ UNCHANGED <<wire, handling, sent, damaged>>

Handler == Receive \/ NoWholePacket \/ GotPacket

Next == \/ \E p \in Payloads : TargetSends(p) \/ FrameDamaged(p)
        \/ Handler

Spec == Init /\ [][Next]_vars

\* The process runs whenever it can: epoll_wait is level-triggered and returns
\* as long as bytes wait to be read, and no handler step blocks.  The target owes
\* nothing.
FairSpec == Spec /\ WF_vars(Handler)
-----------------------------------------------------------------------------
\* As long as no mail was damaged: when the handler returns and the line is empty,
\* every mail sent has been dispatched.  What the loop leaves in the buffer hides
\* no whole packet.
WholePacketsProcessed ==
    damaged = 0 /\ ~handling /\ wire = << >> => got = sent

\* The handler implements the channel: dispatched are only mails that arrived with
\* their own CRC, once each and in the order sent, wherever the chunks end, although
\* every run of the loop ends by putting back one byte of a frame that was already
\* taken out; and each of them in the end, as long as none was damaged.
Channel == INSTANCE MessageChannel
ImplementsChannel ==
    /\ Channel!Spec
    /\ [](damaged = 0) => Channel!Fairness
=============================================================================
