--------------------------- MODULE BusmailFraming ---------------------------
(***************************************************************************)
(* How packets are cut out of the byte stream in the nvs and app modes:    *)
(* the event handlers handle_app_package / handle_nvs_package with         *)
(* busmail_get of src/busmail.c on the ring of Buffer.  The peer, the DECT *)
(* module, frames its payloads as make_tx_packet does.                     *)
(*                                                                         *)
(* One read() hands the handler a chunk of the stream; chunks end          *)
(* anywhere, also inside a frame.  Each call of busmail_get in the         *)
(* handler's loop is a step, and bytes go on arriving between the steps.   *)
(***************************************************************************)
EXTENDS Buffer, SequencesExt

CONSTANTS Base,           \* number of values of a byte (256)
          Header,         \* BUSMAIL_PACKET_HEADER
          Payloads,       \* payloads the peer may send
          StartValues,    \* values the uninitialised local start may hold
          MaxRead,        \* longest chunk a read() returns
          MaxSent,        \* bound on the frames sent intact
          MaxDamaged,     \* bound on the damaged frames
          DamagedLengths, \* what the line may make of a length
          MaxStray        \* bound on the stray bytes

ASSUME BaseAssumption == Base \in Nat \ {0} /\ Byte = 0 .. Base - 1
ASSUME HeaderAssumption == Header \in Byte
ASSUME PayloadAssumption ==
    \A p \in Payloads : p \in Seq(Byte) /\ Len(p) < Base * Base
ASSUME StartAssumption == StartValues \subseteq Int
ASSUME LengthAssumption == DamagedLengths \subseteq 0 .. Base * Base - 1

VARIABLES buf,        \* the input buffer
          wire,       \* bytes sent and not read yet
          handling,   \* inside the handler's loop over busmail_get
          sent,       \* payloads sent intact
          got,        \* payloads handed to busmail_dispatch
          damaged,    \* damaged frames so far
          stray       \* stray bytes so far

vars == <<buf, wire, handling, sent, got, damaged, stray>>

Checksum(data) == FoldLeft(+, 0, data) % Base

\* A uint8_t.  It could be proved only by induction over the payload.
ASSUME ChecksumAssumption == \A p \in Payloads : Checksum(p) \in Byte

make_tx_packet(data) ==
    <<Header, Len(data) \div Base, Len(data) % Base>> \o data
        \o <<Checksum(data)>>

Init == /\ buf = buffer_new
        /\ wire = << >>
        /\ handling = FALSE
        /\ sent = << >>
        /\ got = << >>
        /\ damaged = 0
        /\ stray = 0
-----------------------------------------------------------------------------
(* The line.                                                               *)

PeerSends(p) ==
    /\ Len(sent) < MaxSent
    /\ wire' = wire \o make_tx_packet(p)
    /\ sent' = Append(sent, p)
    /\ UNCHANGED <<buf, handling, got, damaged, stray>>

\* A frame whose checksum byte no longer fits its payload, or with another length.
Damaged(p) ==
    LET frame == make_tx_packet(p)
    IN  {Append(Front(frame), c) : c \in Byte \ {Checksum(p)}}
            \cup {[frame EXCEPT ![2] = n \div Base, ![3] = n % Base] :
                     n \in DamagedLengths \ {Len(p)}}

FrameDamaged(p) ==
    /\ damaged < MaxDamaged
    /\ \E frame \in Damaged(p) : wire' = wire \o frame
    /\ damaged' = damaged + 1
    /\ UNCHANGED <<buf, handling, sent, got, stray>>

\* A byte between two frames that is no start of frame.
StrayByte ==
    /\ stray < MaxStray
    /\ \E x \in Byte \ {Header} : wire' = Append(wire, x)
    /\ stray' = stray + 1
    /\ UNCHANGED <<buf, handling, sent, got, damaged>>
-----------------------------------------------------------------------------
(* The handler.                                                            *)

\* read() in main, then buffer_write at the top of the handler, which keeps
\* what fits.
Receive ==
    /\ ~handling
    /\ \E n \in 1 .. Least(Len(wire), MaxRead) :
          /\ buf' = buffer_write(buf, SubSeq(wire, 1, n))
          /\ wire' = SubSeq(wire, n + 1, Len(wire))
    /\ handling' = TRUE
    /\ UNCHANGED <<sent, got, damaged, stray>>

\* Bytes read one by one up to and including the first start of frame, all of
\* them when there is none.
Sought(b) == LET at == SelectInSeq(Unread(b), LAMBDA x : x = Header)
             IN  IF at = 0 THEN b.count ELSE at

\* Mistake: the two length bytes are taken in the other order.
FrameSize_swapped(s) == s[2] * Base + s[1]

FrameSize(s) == s[1] * Base + s[2]

\* buf[start + 3 + size] of the local array, body being what it holds from the
\* payload on: the last byte of the frame when start is zero, an earlier one
\* when it is negative, and stack contents when it is positive.
ChecksumReads(body) ==
    UNION {LET i == start + Len(body)
           IN  IF i \in 1 .. Len(body) THEN {body[i]} ELSE Byte :
           start \in StartValues}

NoPacket(b) == [ret |-> -1, buf |-> b, data |-> << >>]

\* Data and checksum have been read.
\* Mistake: the checksum is read and not compared.
Checked_not(r) == {[ret |-> 0, buf |-> r.buf, data |-> Front(r.data)]}

Checked(r) ==
    {IF crc = Checksum(Front(r.data))
     THEN [ret |-> 0, buf |-> r.buf, data |-> Front(r.data)]
     ELSE NoPacket(r.buf) : crc \in ChecksumReads(r.data)}

\* The length has been read.  Do we have a full packet?  Data and checksum.
\* Mistake: only the length bytes are put back, not the start of frame.
Measured_rewinds_2(r) ==
    IF 1 + FrameSize(r.data) > buffer_size(r.buf)
    THEN {NoPacket(buffer_rewind(r.buf, 2))}
    ELSE UNION {Checked(s) : s \in {buffer_read(r.buf, FrameSize(r.data) + 1)}}

\* Mistake: two bytes of checksum are waited for, as in flashpacket_get.
Measured_waits(r) ==
    IF 2 + FrameSize(r.data) > buffer_size(r.buf)
    THEN {NoPacket(buffer_rewind(r.buf, 3))}
    ELSE UNION {Checked(s) : s \in {buffer_read(r.buf, FrameSize(r.data) + 1)}}

Measured(r) ==
    IF 1 + FrameSize(r.data) > buffer_size(r.buf)
    THEN {NoPacket(buffer_rewind(r.buf, 3))}
    ELSE UNION {Checked(s) : s \in {buffer_read(r.buf, FrameSize(r.data) + 1)}}

\* The start of frame has been sought.  Do we have a full header?
Headed(b) == IF buffer_size(b) < 2
             THEN {NoPacket(buffer_rewind(b, 1))}
             ELSE UNION {Measured(r) : r \in {buffer_read(b, 2)}}

\* The outcomes: return value, buffer left behind, payload copied to p.
busmail_get(b) == IF buffer_size(b) = 0
                  THEN {NoPacket(b)}
                  ELSE UNION {Headed(r.buf) : r \in {buffer_read(b, Sought(b))}}

\* return -1 ends the loop and the handler; main waits for the next event.
NoWholePacket ==
    /\ handling
    /\ \E g \in busmail_get(buf) : g.ret = -1 /\ buf' = g.buf
    /\ handling' = FALSE
    /\ UNCHANGED <<wire, sent, got, damaged, stray>>

\* return 0: the payload goes to busmail_dispatch and the loop goes on.
GotPacket ==
    /\ handling
    /\ \E g \in busmail_get(buf) : /\ g.ret = 0
                                   /\ buf' = g.buf
                                   /\ got' = Append(got, g.data)
    /\ UNCHANGED <<wire, handling, sent, damaged, stray>>

Handler == Receive \/ NoWholePacket \/ GotPacket

Next == \/ \E p \in Payloads : PeerSends(p) \/ FrameDamaged(p)
        \/ StrayByte
        \/ Handler

Spec == Init /\ [][Next]_vars

\* The process runs whenever it can: epoll_wait is level-triggered and returns
\* as long as bytes wait to be read, and no handler step blocks.  The peer owes
\* nothing.
FairSpec == Spec /\ WF_vars(Handler)
-----------------------------------------------------------------------------
\* As long as no frame was damaged: when the handler returns and the line is empty,
\* every frame sent has been dispatched.  What the loop leaves in the buffer hides
\* no whole packet.
WholePacketsProcessed ==
    damaged = 0 /\ ~handling /\ wire = << >> => got = sent

\* When the handler returns, what it leaves in the buffer is less than a frame, so
\* that the next read finds room and nothing of it is dropped, as long as no frame
\* was damaged.
RoomForRead == damaged = 0 /\ ~handling => buf.count + MaxRead <= BufSize

\* The handler implements the channel: dispatched are only payloads that arrived
\* with their own checksum, once each and in the order sent, wherever the chunks
\* end, however often a partial frame is rewound, and with stray bytes and frames
\* of a wrong checksum in between; and each of them in the end, as long as no frame
\* was damaged.
Channel == INSTANCE MessageChannel
ImplementsChannel ==
    /\ Channel!Spec
    /\ [](damaged = 0) => Channel!Fairness
-----------------------------------------------------------------------------
\* "Process whole packets in buffer" (app.c:156): whatever arrives, the loop makes
\* room in the buffer again and again.
RoomAgain == []<>(buf.count < BufSize)
=============================================================================
