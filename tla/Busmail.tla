------------------------------ MODULE Busmail -------------------------------
(***************************************************************************)
(* The busmail link layer of src/busmail.c above the framing: sequence     *)
(* counters, the dispatch on the frame type, and the answer to each        *)
(* information frame.  busmail_dispatch runs to its end before the next    *)
(* packet is taken from the buffer; every write() it makes is a step of    *)
(* its own.  What the application callback enqueues while a frame is       *)
(* handled is any sequence of Queues here; the modules that extend this    *)
(* one say which.                                                          *)
(*                                                                         *)
(* Frame headers are the bytes of the code, so that a counter that has     *)
(* outgrown its field shows where it ends up.                              *)
(***************************************************************************)
EXTENDS Integers, Sequences

CONSTANTS Headers,      \* frame_header bytes the DECT module sends
          ProgramIds,   \* program_id bytes it sends
          Data,         \* packets an application enqueues
          Queues        \* what a callback enqueues for one frame

ASSUME HeaderAssumption == Headers \subseteq 0 .. 255
ASSUME QueueAssumption == Queues \subseteq Seq(Data)

VARIABLES tx_seq_l, rx_seq_l,   \* the uint8_t counters of this end
          tx_seq_r, rx_seq_r,   \* the numbers last received
          tx_fifo,              \* packets enqueued with busmail_send
          answering,            \* inside information_frame, past the callback
          ack,                  \* its local flag: nothing transmitted yet
          answer,               \* history: the answer to the last frame to be answered
          last_tx               \* history: number in the last packet sent since
                                \* the counters were reset, or -1

counters == <<tx_seq_l, rx_seq_l, tx_seq_r, rx_seq_r>>
link_vars == <<counters, tx_fifo, answering, ack, answer, last_tx>>

API_PROG_ID == 0
SAMB_POLL_SET == 200
SAMB_NO_POLL_SET == 192
SUID_RR == 0
NO_PF == 0
PF == 1

\* The fields of a header byte.
IsControl(h) == h >= 128
IsUnnumbered(h) == h >= 192
\* Mistake: the type bit is not masked off.
TxSeq_unmasked(h) == h \div 16
TxSeq(h) == (h \div 16) % 8
RxSeq(h) == h % 8

\* field << offset | pf << PF_OFFSET | rx_seq_l in a byte; 8 is the PF bit, and
\* rx_seq_l may hold it too.
HeaderByte(high, pf, rx) ==
    ((high * 16) % 256) + (IF pf = PF \/ rx >= 8 THEN 8 ELSE 0) + (rx % 8)

make_supervisory_frame(suid, pf) == HeaderByte(suid, pf, rx_seq_l)
make_info_frame(pf) == HeaderByte(tx_seq_l, pf, rx_seq_l)

\* The number to expect after frame n, as information_frame computes it.
\* Mistake: the number of the frame itself.
NextExpected_is_last(n) == n
NextExpected(n) == IF n + 1 = 7 THEN 0 ELSE n + 1

NoAnswer == [number |-> -1, queued |-> << >>, infos |-> << >>, acks |-> << >>]

Init == /\ tx_seq_l = 0 /\ rx_seq_l = 0
        /\ tx_seq_r = 0 /\ rx_seq_r = 0
        /\ tx_fifo = << >>
        /\ answering = FALSE
        /\ ack = TRUE
        /\ answer = NoAnswer
        /\ last_tx = -1
-----------------------------------------------------------------------------
(* Control frames.                                                         *)

\* Mistake: the transmit counter goes on after the reset.
unnumbered_control_frame_keeps_tx(h) ==
    /\ IsUnnumbered(h)
    /\ IF h = SAMB_POLL_SET
       THEN /\ rx_seq_l' = 0 /\ tx_seq_r' = 0 /\ rx_seq_r' = 0
            /\ last_tx' = -1
            /\ answer' = [NoAnswer EXCEPT !.acks = <<SAMB_NO_POLL_SET>>]
       ELSE UNCHANGED <<rx_seq_l, tx_seq_r, rx_seq_r, last_tx, answer>>
    /\ UNCHANGED <<tx_seq_l, tx_fifo, answering, ack>>

\* SAMB_POLL_SET resets the counters and is answered by SAMB_NO_POLL_SET.
unnumbered_control_frame(h) ==
    /\ IsUnnumbered(h)
    /\ IF h = SAMB_POLL_SET
       THEN /\ tx_seq_l' = 0 /\ rx_seq_l' = 0
            /\ tx_seq_r' = 0 /\ rx_seq_r' = 0
            /\ last_tx' = -1
            /\ answer' = [NoAnswer EXCEPT !.acks = <<SAMB_NO_POLL_SET>>]
       ELSE UNCHANGED <<counters, last_tx, answer>>
    /\ UNCHANGED <<tx_fifo, answering, ack>>

\* RR, REJ and RNR alike only note the peer's number: nothing is sent again.
supervisory_control_frame(h) ==
    /\ IsControl(h) /\ ~IsUnnumbered(h)
    /\ rx_seq_r' = RxSeq(h)
    /\ UNCHANGED <<tx_seq_l, rx_seq_l, tx_seq_r, tx_fifo, answering, ack,
                   answer, last_tx>>
-----------------------------------------------------------------------------
(* Information frames.                                                     *)

TakeNumbers(h) ==
    /\ tx_seq_r' = TxSeq(h)
    /\ rx_seq_r' = RxSeq(h)
    /\ rx_seq_l' = NextExpected(TxSeq(h))
    /\ UNCHANGED tx_seq_l

\* Mistake: a frame with the number last received is dropped as a duplicate.
information_frame_dropped_again(h, program_id) ==
    /\ ~IsControl(h)
    /\ program_id # API_PROG_ID \/ TxSeq(h) = tx_seq_r
    /\ UNCHANGED link_vars

\* Frames of another program are dropped before anything is noted.
information_frame_dropped(h, program_id) ==
    /\ ~IsControl(h)
    /\ program_id # API_PROG_ID
    /\ UNCHANGED link_vars

\* Up to the return of the callback, which enqueued queue with busmail_send.
information_frame(h, program_id, queue) ==
    /\ ~IsControl(h)
    /\ program_id = API_PROG_ID
    /\ TakeNumbers(h)
    /\ tx_fifo' = tx_fifo \o queue
    /\ answering' = TRUE
    /\ ack' = TRUE
    /\ answer' = [NoAnswer EXCEPT !.number = TxSeq(h), !.queued = queue]
    /\ UNCHANGED last_tx

busmail_dispatch(h, program_id, queue) ==
    /\ ~answering
    /\ \/ information_frame(h, program_id, queue)
       \/ information_frame_dropped(h, program_id)
       \/ supervisory_control_frame(h)
       \/ unnumbered_control_frame(h)

\* One round of the loop that empties tx_fifo: busmail_tx with PF.
\* Mistake: the newest packet first.
Transmit_lifo ==
    /\ answering
    /\ tx_fifo # << >>
    /\ tx_fifo' = SubSeq(tx_fifo, 1, Len(tx_fifo) - 1)
    /\ ack' = FALSE
    /\ answer' = [answer EXCEPT !.infos =
                    Append(@, [header |-> make_info_frame(PF),
                               data |-> tx_fifo[Len(tx_fifo)]])]
    /\ last_tx' = TxSeq(make_info_frame(PF))
    /\ tx_seq_l' = (tx_seq_l + 1) % 256
    /\ UNCHANGED <<rx_seq_l, tx_seq_r, rx_seq_r, answering>>

\* Mistake: the packet is looked at and stays queued.
Transmit_peeks ==
    /\ answering
    /\ tx_fifo # << >>
    /\ ack' = FALSE
    /\ last_tx' = TxSeq(make_info_frame(PF))
    /\ tx_seq_l' = (tx_seq_l + 1) % 256
    /\ UNCHANGED <<rx_seq_l, tx_seq_r, rx_seq_r, tx_fifo, answering, answer>>

Transmit ==
    /\ answering
    /\ tx_fifo # << >>
    /\ tx_fifo' = Tail(tx_fifo)
    /\ ack' = FALSE
    /\ answer' = [answer EXCEPT !.infos =
                    Append(@, [header |-> make_info_frame(PF),
                               data |-> Head(tx_fifo)])]
    /\ last_tx' = TxSeq(make_info_frame(PF))
    /\ tx_seq_l' = (tx_seq_l + 1) % 256
    /\ UNCHANGED <<rx_seq_l, tx_seq_r, rx_seq_r, answering>>

\* Mistake: the first packet sent ends the loop.
Finish_early ==
    /\ answering
    /\ tx_fifo = << >> \/ ~ack
    /\ answering' = FALSE
    /\ answer' = IF ack
                 THEN [answer EXCEPT !.acks =
                         Append(@, make_supervisory_frame(SUID_RR, NO_PF))]
                 ELSE answer
    /\ UNCHANGED <<counters, tx_fifo, ack, last_tx>>

\* Mistake: the ack is sent whether or not a packet carried it.
Finish_always_acks ==
    /\ answering
    /\ tx_fifo = << >>
    /\ answering' = FALSE
    /\ answer' = [answer EXCEPT !.acks =
                    Append(@, make_supervisory_frame(SUID_RR, NO_PF))]
    /\ UNCHANGED <<counters, tx_fifo, ack, last_tx>>

\* The queue is empty; busmail_ack when nothing was sent.
Finish ==
    /\ answering
    /\ tx_fifo = << >>
    /\ answering' = FALSE
    /\ answer' = IF ack
                 THEN [answer EXCEPT !.acks =
                         Append(@, make_supervisory_frame(SUID_RR, NO_PF))]
                 ELSE answer
    /\ UNCHANGED <<counters, tx_fifo, ack, last_tx>>

Next == \/ \E h \in Headers, id \in ProgramIds, queue \in Queues :
              busmail_dispatch(h, id, queue)
        \/ Transmit
        \/ Finish

Spec == Init /\ [][Next]_link_vars

\* The handler runs on; when the peer sends is its own affair.
FairSpec == Spec /\ WF_link_vars(Transmit \/ Finish)
-----------------------------------------------------------------------------
Info == [header : 0 .. 255, data : Data]

\* Counters are bytes, the numbers received fit their field, and the answer is
\* made of frames.
TypeOK == /\ tx_seq_l \in 0 .. 255
          /\ rx_seq_l \in 0 .. 8
          /\ tx_seq_r \in 0 .. 7
          /\ rx_seq_r \in 0 .. 7
          /\ tx_fifo \in Seq(Data)
          /\ answering \in BOOLEAN
          /\ ack \in BOOLEAN
          /\ answer \in [number : (-1) .. 7, queued : Seq(Data),
                         infos : Seq(Info), acks : Seq(0 .. 255)]
          /\ last_tx \in (-1) .. 7

\* The packets of an answer are those the callback enqueued, in that order:
\* what is sent and what is still queued make up the whole.
AnswerInOrder ==
    [i \in 1 .. Len(answer.infos) |-> answer.infos[i].data] \o tx_fifo
        = answer.queued

\* When information_frame returns, the peer has been answered once: by the
\* packets, or by one ack if there was none, never by both and never by neither.
AnsweredOnce ==
    ~answering /\ answer # NoAnswer =>
        IF answer.queued = << >> THEN Len(answer.acks) = 1
                                 ELSE answer.acks = << >>

\* Packets are numbered consecutively modulo 8 in the peer's eyes, from 0 after
\* start and after every SAMB, also when tx_seq_l has outgrown its field.
NumberedConsecutively == tx_seq_l % 8 = (last_tx + 1) % 8

AnswerHeaders == {answer.infos[i].header : i \in 1 .. Len(answer.infos)}
                     \cup {answer.acks[i] : i \in 1 .. Len(answer.acks)}

\* Every frame of an answer acknowledges the frame in hand, not an earlier one.
\* Number 6 is left out: its successor is taken to be 0.
AcksFrameInHand ==
    answer.number # 6 =>
        \A h \in AnswerHeaders : RxSeq(h) = (answer.number + 1) % 8

\* An information frame is answered in the end, however much is enqueued.
EventuallyAnswered == answering ~> ~answering
=============================================================================
