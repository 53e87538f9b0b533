---------------------------- MODULE BusmailProofs -----------------------------
(***************************************************************************)
(* Proofs about Busmail: for any headers, programs and packets, and        *)
(* whatever callbacks enqueue, tx_fifo is empty between packets, and each  *)
(* information frame is answered with the packets enqueued, in order, or   *)
(* with one ack.                                                           *)
(***************************************************************************)
EXTENDS Busmail, SequenceTheorems, FiniteSetTheorems, TLAPS

\* The loop of information_frame leaves nothing in tx_fifo.
IdleDrained == ~answering => tx_fifo = << >>

Sent(infos) == [i \in 1 .. Len(infos) |-> infos[i].data]

\* While the loop runs, ack says that nothing was sent, and no ack is out yet.
AckTellsSent == answering => /\ ack <=> answer.infos = << >>
                             /\ answer.acks = << >>

\* The invariant: the answer is only right at the end because the flag and the
\* queue are right at every round of the loop.
IInv == /\ TypeOK
        /\ IdleDrained
        /\ AnswerInOrder
        /\ AckTellsSent
        /\ AnsweredOnce
-----------------------------------------------------------------------------
\* The fields of a header byte fit three bits.
LEMMA FieldsFit ==
  ASSUME NEW h \in 0 .. 255
  PROVE  TxSeq(h) \in 0 .. 7 /\ RxSeq(h) \in 0 .. 7
  BY SMT DEF TxSeq, RxSeq

\* What the frame makers return is a byte.
LEMMA HeaderIsByte ==
  ASSUME NEW high \in 0 .. 255, NEW pf, NEW rx \in 0 .. 8
  PROVE  HeaderByte(high, pf, rx) \in 0 .. 255
<1>1. (high * 16) % 256 \in 0 .. 240
  BY SMT
<1>2. rx % 8 \in 0 .. 7
  BY SMT
<1> QED
  BY <1>1, <1>2, SMT DEF HeaderByte

\* The number expected after a frame fits rx_seq_l, which may reach 8.
LEMMA NextExpectedFits ==
  ASSUME NEW n \in 0 .. 7
  PROVE  NextExpected(n) \in 0 .. 8
  BY SMT DEF NextExpected

\* The packets of an answer are a sequence as long as the answer.
LEMMA SentIsSeq ==
  ASSUME NEW infos \in Seq(Info)
  PROVE  Sent(infos) \in Seq(Data) /\ Len(Sent(infos)) = Len(infos)
<1> DEFINE n == Len(infos)
<1>1. n \in Nat
  OBVIOUS
<1>2. \A i \in 1 .. n : infos[i].data \in Data
  <2>1. \A i \in 1 .. n : infos[i] \in Info
    OBVIOUS
  <2> QED
    BY <2>1 DEF Info
<1>3. Sent(infos) \in [1 .. n -> Data]
  BY <1>2 DEF Sent
<1> QED
  BY <1>1, <1>3

\* Sending the head of the queue moves it to the end of what was sent.
LEMMA SentGrows ==
  ASSUME NEW infos \in Seq(Info), NEW queue \in Seq(Data), queue # << >>,
         NEW frame \in Info, frame.data = Head(queue)
  PROVE  Sent(Append(infos, frame)) \o Tail(queue) = Sent(infos) \o queue
<1> DEFINE longer == Append(infos, frame)
<1>1. Sent(infos) \in Seq(Data) /\ Len(Sent(infos)) = Len(infos)
  BY SentIsSeq
<1>2. longer \in Seq(Info) /\ Len(longer) = Len(infos) + 1
  OBVIOUS
<1>3. Sent(longer) \in Seq(Data) /\ Len(Sent(longer)) = Len(infos) + 1
  BY <1>2, SentIsSeq
<1>4. \A i \in 1 .. Len(infos) : Sent(longer)[i] = Sent(infos)[i]
  BY <1>2 DEF Sent
<1>5. Sent(longer)[Len(infos) + 1] = Head(queue)
  BY <1>2 DEF Sent
<1> HIDE DEF longer
<1>6. Sent(longer) = Append(Sent(infos), Head(queue))
  BY <1>1, <1>3, <1>4, <1>5
<1>7. Append(Sent(infos), Head(queue)) \o Tail(queue) = Sent(infos) \o queue
  BY <1>1
<1> QED
  BY <1>6, <1>7 DEF longer
-----------------------------------------------------------------------------
\* The program starts with an empty queue and no answer.
LEMMA InitInvariant == Init => IInv
<1> SUFFICES ASSUME Init PROVE IInv
  OBVIOUS
<1>1. answer = [number |-> -1, queued |-> << >>, infos |-> << >>, acks |-> << >>]
  BY DEF Init, NoAnswer
<1>2. TypeOK
  <2>1. answer \in [number : (-1) .. 7, queued : Seq(Data),
                    infos : Seq(Info), acks : Seq(0 .. 255)]
    BY <1>1
  <2>2. answering \in BOOLEAN /\ ack \in BOOLEAN
    BY DEF Init
  <2>3. /\ tx_seq_l \in 0 .. 255 /\ rx_seq_l \in 0 .. 8
        /\ tx_seq_r \in 0 .. 7 /\ rx_seq_r \in 0 .. 7
        /\ last_tx \in (-1) .. 7
    BY DEF Init
  <2>4. tx_fifo \in Seq(Data)
    BY DEF Init
  <2> QED
    BY <2>1, <2>2, <2>3, <2>4 DEF TypeOK
<1>3. AnswerInOrder
  <2>1. Sent(answer.infos) = << >>
    BY <1>1 DEF Sent
  <2> QED
    BY <1>1, <2>1 DEF Init, AnswerInOrder, Sent
<1>4. IdleDrained /\ AckTellsSent /\ AnsweredOnce
  BY DEF Init, IdleDrained, AckTellsSent, AnsweredOnce
<1> QED
  BY <1>2, <1>3, <1>4 DEF IInv

\* A frame that is dropped or concerns the counters only.
LEMMA ControlStep ==
  ASSUME IInv, NEW h \in 0 .. 255, NEW id,
         ~answering,
         \/ information_frame_dropped(h, id)
         \/ supervisory_control_frame(h)
         \/ unnumbered_control_frame(h)
  PROVE  IInv'
<1>1. RxSeq(h) \in 0 .. 7
  BY FieldsFit
<1>2. UNCHANGED <<tx_fifo, answering, ack>>
  BY DEF information_frame_dropped, supervisory_control_frame,
         unnumbered_control_frame, link_vars
<1> DEFINE reply == [number |-> -1, queued |-> << >>, infos |-> << >>,
                     acks |-> <<SAMB_NO_POLL_SET>>]
<1>5. answer' = answer \/ answer' = reply
  BY DEF information_frame_dropped, supervisory_control_frame,
         unnumbered_control_frame, link_vars, NoAnswer
<1>3. TypeOK'
  <2>1. CASE information_frame_dropped(h, id)
    BY <2>1 DEF information_frame_dropped, link_vars, counters, IInv, TypeOK
  <2>2. CASE supervisory_control_frame(h)
    BY <1>1, <2>2 DEF supervisory_control_frame, IInv, TypeOK
  <2>3. CASE unnumbered_control_frame(h)
    <3>1. /\ tx_seq_l' \in 0 .. 255 /\ rx_seq_l' \in 0 .. 8
          /\ tx_seq_r' \in 0 .. 7 /\ rx_seq_r' \in 0 .. 7
          /\ last_tx' \in (-1) .. 7
      <4>1. CASE h = SAMB_POLL_SET
        BY <2>3, <4>1 DEF unnumbered_control_frame
      <4>2. CASE h # SAMB_POLL_SET
        <5>1. UNCHANGED <<counters, last_tx>>
          BY <2>3, <4>2 DEF unnumbered_control_frame
        <5> QED
          BY <5>1 DEF counters, IInv, TypeOK
      <4> QED
        BY <4>1, <4>2
    <3>2. answer' \in [number : (-1) .. 7, queued : Seq(Data),
                       infos : Seq(Info), acks : Seq(0 .. 255)]
      <4> DEFINE Answers == [number : (-1) .. 7, queued : Seq(Data),
                             infos : Seq(Info), acks : Seq(0 .. 255)]
      <4>1. reply \in Answers
        BY DEF SAMB_NO_POLL_SET
      <4>2. answer \in Answers
        BY DEF IInv, TypeOK
      <4> HIDE DEF reply, Answers
      <4>3. answer' \in Answers
        BY <1>5, <4>1, <4>2
      <4> QED
        BY <4>3 DEF Answers
    <3> QED
      BY <1>2, <3>1, <3>2 DEF IInv, TypeOK
  <2> QED
    BY <2>1, <2>2, <2>3
<1>4. (IdleDrained /\ AnswerInOrder /\ AckTellsSent /\ AnsweredOnce)'
  <2>1. CASE answer' = answer
    BY <1>2, <2>1 DEF IInv, IdleDrained, AnswerInOrder, AckTellsSent, AnsweredOnce
  <2>2. CASE answer' = reply
    <3>1. tx_fifo' = << >> /\ ~answering'
      BY <1>2 DEF IInv, IdleDrained
    <3>2. Sent(answer'.infos) = << >>
      BY <2>2 DEF Sent
    <3>3. AnswerInOrder'
      BY <2>2, <3>1, <3>2 DEF AnswerInOrder, Sent
    <3>4. (IdleDrained /\ AckTellsSent)'
      BY <3>1 DEF IdleDrained, AckTellsSent
    <3>5. AnsweredOnce'
      <4>1. answer'.queued = << >> /\ answer'.acks = <<SAMB_NO_POLL_SET>>
        BY <2>2
      <4>2. Len(<<SAMB_NO_POLL_SET>>) = 1
        OBVIOUS
      <4> QED
        BY <4>1, <4>2 DEF AnsweredOnce
    <3> QED
      BY <3>3, <3>4, <3>5
  <2> QED
    BY <1>5, <2>1, <2>2
<1> QED
  BY <1>3, <1>4 DEF IInv

\* An information frame: the answer is empty and all that was enqueued is queued.
LEMMA InformationStep ==
  ASSUME IInv, NEW h \in 0 .. 255, NEW id, NEW queue \in Seq(Data),
         ~answering, information_frame(h, id, queue)
  PROVE  IInv'
<1>1. TxSeq(h) \in 0 .. 7 /\ RxSeq(h) \in 0 .. 7 /\ NextExpected(TxSeq(h)) \in 0 .. 8
  BY FieldsFit, NextExpectedFits
<1>2. queue \in Seq(Data) /\ tx_fifo = << >>
  BY DEF IInv, IdleDrained
<1>3. tx_fifo' = queue
  BY <1>2 DEF information_frame
<1>4. answer' = [number |-> TxSeq(h), queued |-> queue, infos |-> << >>, acks |-> << >>]
  BY DEF information_frame, NoAnswer
<1>5. answering' /\ ack' /\ last_tx' = last_tx
  BY DEF information_frame
<1>6. TypeOK'
  <2>1. answer' \in [number : (-1) .. 7, queued : Seq(Data),
                     infos : Seq(Info), acks : Seq(0 .. 255)]
    BY <1>1, <1>2, <1>4
  <2>2. /\ tx_seq_l' \in 0 .. 255 /\ rx_seq_l' \in 0 .. 8
        /\ tx_seq_r' \in 0 .. 7 /\ rx_seq_r' \in 0 .. 7
    BY <1>1 DEF information_frame, TakeNumbers, IInv, TypeOK
  <2>3. answering' = TRUE /\ ack' = TRUE
    BY DEF information_frame
  <2> QED
    BY <1>2, <1>3, <1>5, <2>1, <2>2, <2>3 DEF IInv, TypeOK
<1>7. AnswerInOrder'
  <2>1. Sent(answer'.infos) = << >>
    BY <1>4 DEF Sent
  <2> QED
    BY <1>2, <1>3, <1>4, <2>1 DEF AnswerInOrder, Sent
<1>8. (IdleDrained /\ AckTellsSent /\ AnsweredOnce)'
  BY <1>4, <1>5 DEF IdleDrained, AckTellsSent, AnsweredOnce
<1> QED
  BY <1>6, <1>7, <1>8 DEF IInv

\* A whole frame, whichever it is.  Any byte, any program and any queue will do:
\* what the modules that extend Busmail make of it is covered too.
LEMMA DispatchStep ==
  ASSUME IInv, NEW h \in 0 .. 255, NEW id, NEW queue \in Seq(Data),
         busmail_dispatch(h, id, queue)
  PROVE  IInv'
BY ControlStep, InformationStep DEF busmail_dispatch

\* One packet goes from the queue to the answer.
LEMMA TransmitStep ==
  ASSUME IInv, Transmit
  PROVE  IInv'
<1> DEFINE frame == [header |-> make_info_frame(PF), data |-> Head(tx_fifo)]
<1>1. make_info_frame(PF) \in 0 .. 255
  BY HeaderIsByte DEF make_info_frame, IInv, TypeOK
<1>2. frame \in Info /\ tx_fifo \in Seq(Data) /\ tx_fifo # << >>
      /\ answer.infos \in Seq(Info)
  BY <1>1 DEF Transmit, IInv, TypeOK, Info
<1>3. answer' = [answer EXCEPT !.infos = Append(answer.infos, frame)]
  BY DEF Transmit
<1>4. /\ answer'.infos = Append(answer.infos, frame)
      /\ answer'.queued = answer.queued
      /\ answer'.acks = answer.acks
      /\ answer'.number = answer.number
  BY <1>3 DEF IInv, TypeOK
<1>5. answer'.infos \in Seq(Info) /\ answer'.infos # << >>
  <2> HIDE DEF frame
  <2> QED
    BY <1>2, <1>4
<1>6. TypeOK'
  <2>1. answer' \in [number : (-1) .. 7, queued : Seq(Data),
                     infos : Seq(Info), acks : Seq(0 .. 255)]
    BY <1>3, <1>5, <1>4 DEF IInv, TypeOK
  <2>2. tx_seq_l' \in 0 .. 255
    <3>1. tx_seq_l \in 0 .. 255 /\ tx_seq_l' = (tx_seq_l + 1) % 256
      BY DEF Transmit, IInv, TypeOK
    <3> QED
      BY <3>1, SMT
  <2>3. last_tx' \in (-1) .. 7
    <3>1. last_tx' = TxSeq(make_info_frame(PF))
      BY DEF Transmit
    <3> QED
      BY <1>1, <3>1, FieldsFit
  <2>4. tx_fifo' \in Seq(Data)
    BY <1>2 DEF Transmit
  <2>5. answering' = TRUE /\ ack' = FALSE
    BY DEF Transmit, IInv, TypeOK
  <2>6. UNCHANGED <<rx_seq_l, tx_seq_r, rx_seq_r>>
    BY DEF Transmit
  <2> QED
    BY <2>1, <2>2, <2>3, <2>4, <2>5, <2>6 DEF IInv, TypeOK
<1>7. AnswerInOrder'
  <2>1. Sent(answer'.infos) \o tx_fifo' = Sent(answer.infos) \o tx_fifo
    <3>1. frame.data = Head(tx_fifo)
      OBVIOUS
    <3>2. tx_fifo' = Tail(tx_fifo)
      BY DEF Transmit
    <3> HIDE DEF frame
    <3> QED
      BY <1>2, <1>4, <3>1, <3>2, SentGrows
  <2>2. Sent(answer.infos) \o tx_fifo = answer.queued
    BY DEF IInv, AnswerInOrder, Sent
  <2> QED
    BY <1>4, <2>1, <2>2 DEF AnswerInOrder, Sent
<1>8. (IdleDrained /\ AckTellsSent /\ AnsweredOnce)'
  <2>1. answering /\ answering' /\ ~ack'
    BY DEF Transmit
  <2>2. answer.acks = << >>
    BY <2>1 DEF IInv, AckTellsSent
  <2> QED
    BY <1>4, <1>5, <2>1, <2>2 DEF IdleDrained, AckTellsSent, AnsweredOnce
<1> QED
  BY <1>6, <1>7, <1>8 DEF IInv

\* The end: with an empty queue, all that was enqueued has been sent, so ack is
\* still set exactly when nothing was enqueued.
LEMMA FinishStep ==
  ASSUME IInv, Finish
  PROVE  IInv'
<1> DEFINE rr == make_supervisory_frame(SUID_RR, NO_PF)
<1>1. rr \in 0 .. 255
  <2>1. rx_seq_l \in 0 .. 8 /\ SUID_RR \in 0 .. 255
    BY DEF SUID_RR, IInv, TypeOK
  <2> QED
    BY <2>1, HeaderIsByte DEF make_supervisory_frame
<1>2. /\ answering /\ tx_fifo = << >> /\ answering' = FALSE
      /\ UNCHANGED <<counters, tx_fifo, ack, last_tx>>
  BY DEF Finish
<1>3. /\ answer'.queued = answer.queued /\ answer'.infos = answer.infos
      /\ answer'.number = answer.number
      /\ answer'.acks = IF ack THEN <<rr>> ELSE << >>
      /\ answer' \in [number : (-1) .. 7, queued : Seq(Data),
                      infos : Seq(Info), acks : Seq(0 .. 255)]
  <2>1. answer.acks = << >>
    BY <1>2 DEF IInv, AckTellsSent
  <2>2. CASE ack
    <3>1. answer' = [answer EXCEPT !.acks = <<rr>>]
      BY <2>1, <2>2 DEF Finish
    <3> HIDE DEF rr
    <3>2. <<rr>> \in Seq(0 .. 255)
      BY <1>1
    <3>3. answer \in [number : (-1) .. 7, queued : Seq(Data),
                      infos : Seq(Info), acks : Seq(0 .. 255)]
      BY DEF IInv, TypeOK
    <3> QED
      BY <2>2, <3>1, <3>2, <3>3
  <2>3. CASE ~ack
    BY <2>1, <2>3 DEF Finish, IInv, TypeOK
  <2> QED
    BY <2>2, <2>3
<1>4. answer.queued = << >> <=> ack
  <2>1. answer.queued = Sent(answer.infos)
    <3>1. answer.infos \in Seq(Info)
      BY DEF IInv, TypeOK
    <3>2. Sent(answer.infos) \in Seq(Data)
      BY <3>1, SentIsSeq
    <3>3. Sent(answer.infos) \o tx_fifo = answer.queued
      BY DEF IInv, AnswerInOrder, Sent
    <3> QED
      BY <1>2, <3>2, <3>3
  <2>2. Sent(answer.infos) = << >> <=> answer.infos = << >>
    <3>1. answer.infos \in Seq(Info)
      BY DEF IInv, TypeOK
    <3>2. Sent(answer.infos) \in Seq(Data) /\ Len(Sent(answer.infos)) = Len(answer.infos)
      BY <3>1, SentIsSeq
    <3> QED
      BY <3>1, <3>2
  <2>3. ack <=> answer.infos = << >>
    BY <1>2 DEF IInv, AckTellsSent
  <2> QED
    BY <2>1, <2>2, <2>3
<1>5. TypeOK'
  BY <1>2, <1>3 DEF IInv, TypeOK, counters
<1>6. AnswerInOrder'
  BY <1>2, <1>3 DEF IInv, AnswerInOrder
<1>7. AnsweredOnce'
  <2>1. Len(<<rr>>) = 1
    OBVIOUS
  <2> HIDE DEF rr
  <2> QED
    BY <1>3, <1>4, <2>1 DEF AnsweredOnce
<1>8. (IdleDrained /\ AckTellsSent)'
  BY <1>2 DEF IdleDrained, AckTellsSent
<1> QED
  BY <1>5, <1>6, <1>7, <1>8 DEF IInv
-----------------------------------------------------------------------------
\* The invariant holds in every state of every behaviour.
THEOREM Invariance == Spec => []IInv
<1>1. IInv /\ [Next]_link_vars => IInv'
  <2> SUFFICES ASSUME IInv, [Next]_link_vars PROVE IInv'
    OBVIOUS
  <2>1. ASSUME NEW h \in Headers, NEW id \in ProgramIds, NEW queue \in Queues,
               busmail_dispatch(h, id, queue)
        PROVE  IInv'
    BY <2>1, HeaderAssumption, QueueAssumption, DispatchStep
  <2>2. CASE Transmit
    BY <2>2, TransmitStep
  <2>3. CASE Finish
    BY <2>3, FinishStep
  <2>4. CASE UNCHANGED link_vars
    BY <2>4 DEF link_vars, counters, IInv, TypeOK, IdleDrained, AnswerInOrder,
                AckTellsSent, AnsweredOnce
  <2> QED
    BY <2>1, <2>2, <2>3, <2>4 DEF Next
<1> QED
  BY <1>1, InitInvariant, PTL DEF Spec

\* Counters, queue and answer keep their types: in particular tx_seq_l stays a
\* byte and every header that goes out is one.
THEOREM TypeCorrect == Spec => []TypeOK
  BY Invariance, PTL DEF IInv

\* What was sent and what is queued make up what the callback enqueued, in order.
THEOREM AnswersInOrder == Spec => []AnswerInOrder
  BY Invariance, PTL DEF IInv

\* Each information frame is answered by its packets, or by one ack if there are
\* none.
THEOREM EachAnsweredOnce == Spec => []AnsweredOnce
  BY Invariance, PTL DEF IInv

\* The number in a header is the counter modulo 8, whatever is in the low bits.
LEMMA NumberInHeader ==
  ASSUME NEW l \in 0 .. 255, NEW pf, NEW rx \in 0 .. 8
  PROVE  TxSeq(HeaderByte(l, pf, rx)) = l % 8
<1> DEFINE low == (IF pf = PF \/ rx >= 8 THEN 8 ELSE 0) + (rx % 8)
<1>1. low \in 0 .. 15
  <2>1. rx % 8 \in 0 .. 7
    BY SMT
  <2> QED
    BY <2>1, SMT
<1>2. HeaderByte(l, pf, rx) = ((l * 16) % 256) + low
  BY <1>1, SMT DEF HeaderByte
<1> HIDE DEF low
<1>3. (l * 16) % 256 = 16 * (l % 16)
  BY SMT
<1>4. (16 * (l % 16) + low) \div 16 = l % 16
  BY <1>1, SMT
<1>5. (l % 16) % 8 = l % 8
  BY SMT
<1> QED
  BY <1>2, <1>3, <1>4, <1>5 DEF TxSeq

\* Packets are numbered consecutively modulo 8 for ever, also when tx_seq_l has
\* outgrown its field and when it wraps at 256.
THEOREM NumbersConsecutive == Spec => []NumberedConsecutively
<1>1. Init => NumberedConsecutively
  BY SMT DEF Init, NumberedConsecutively
<1>2. IInv /\ NumberedConsecutively /\ [Next]_link_vars => NumberedConsecutively'
  <2> SUFFICES ASSUME IInv, NumberedConsecutively, [Next]_link_vars
               PROVE  NumberedConsecutively'
    OBVIOUS
  <2>1. ASSUME NEW h \in Headers, NEW id \in ProgramIds, NEW queue \in Queues,
               busmail_dispatch(h, id, queue)
        PROVE  NumberedConsecutively'
    <3>1. CASE UNCHANGED <<tx_seq_l, last_tx>>
      BY <3>1 DEF NumberedConsecutively
    <3>2. CASE tx_seq_l' = 0 /\ last_tx' = -1
      BY <3>2, SMT DEF NumberedConsecutively
    <3>3. \/ UNCHANGED <<tx_seq_l, last_tx>>
          \/ tx_seq_l' = 0 /\ last_tx' = -1
      <4>1. CASE information_frame(h, id, queue)
        BY <4>1 DEF information_frame, TakeNumbers
      <4>2. CASE information_frame_dropped(h, id)
        BY <4>2 DEF information_frame_dropped, link_vars, counters
      <4>3. CASE supervisory_control_frame(h)
        BY <4>3 DEF supervisory_control_frame
      <4>4. CASE unnumbered_control_frame(h)
        <5>1. CASE h = SAMB_POLL_SET
          BY <4>4, <5>1 DEF unnumbered_control_frame
        <5>2. CASE h # SAMB_POLL_SET
          BY <4>4, <5>2 DEF unnumbered_control_frame, counters
        <5> QED
          BY <5>1, <5>2
      <4> QED
        BY <2>1, <4>1, <4>2, <4>3, <4>4 DEF busmail_dispatch
    <3> QED
      BY <3>1, <3>2, <3>3
  <2>2. CASE Transmit
    <3>1. tx_seq_l \in 0 .. 255 /\ rx_seq_l \in 0 .. 8
      BY DEF IInv, TypeOK
    <3>2. last_tx' = tx_seq_l % 8
      BY <2>2, <3>1, NumberInHeader DEF Transmit, make_info_frame
    <3>3. tx_seq_l' = (tx_seq_l + 1) % 256
      BY <2>2 DEF Transmit
    <3>4. ((tx_seq_l + 1) % 256) % 8 = ((tx_seq_l % 8) + 1) % 8
      BY <3>1, SMT
    <3> QED
      BY <3>2, <3>3, <3>4 DEF NumberedConsecutively
  <2>3. CASE Finish
    BY <2>3 DEF Finish, counters, NumberedConsecutively
  <2>4. CASE UNCHANGED link_vars
    BY <2>4 DEF link_vars, counters, NumberedConsecutively
  <2> QED
    BY <2>1, <2>2, <2>3, <2>4 DEF Next
<1> QED
  BY <1>1, <1>2, Invariance, PTL DEF Spec
-----------------------------------------------------------------------------
\* While a frame is answered, rx_seq_l is what its number makes it.
AckInv == /\ AcksFrameInHand
          /\ answering => /\ answer.number \in 0 .. 7
                          /\ rx_seq_l = NextExpected(answer.number)

\* The low three bits of a header are those of rx_seq_l, also when it is 8 and
\* sets the bit before them.
LEMMA AckInHeader ==
  ASSUME NEW high \in 0 .. 255, NEW pf, NEW rx \in 0 .. 8
  PROVE  RxSeq(HeaderByte(high, pf, rx)) = rx % 8
<1> DEFINE pfbit == IF pf = PF \/ rx >= 8 THEN 8 ELSE 0
<1>1. pfbit \in {0, 8}
  OBVIOUS
<1>2. HeaderByte(high, pf, rx) = ((high * 16) % 256) + pfbit + (rx % 8)
  BY DEF HeaderByte
<1> HIDE DEF pfbit
<1>3. (high * 16) % 256 = 16 * (high % 16)
  BY SMT
<1>4. (16 * (high % 16) + pfbit + (rx % 8)) % 8 = rx % 8
  BY <1>1, SMT
<1> QED
  BY <1>2, <1>3, <1>4 DEF RxSeq

\* A number other than 6 is acknowledged by its successor.
LEMMA NextIsSuccessor ==
  ASSUME NEW n \in 0 .. 7, n # 6
  PROVE  NextExpected(n) % 8 = (n + 1) % 8
BY SMT DEF NextExpected

\* A frame made while answering acknowledges the frame in hand.
LEMMA HeaderAcks ==
  ASSUME IInv, AckInv, answering, answer.number # 6, NEW high \in 0 .. 255, NEW pf
  PROVE  RxSeq(HeaderByte(high, pf, rx_seq_l)) = (answer.number + 1) % 8
<1>1. rx_seq_l \in 0 .. 8 /\ answer.number \in 0 .. 7
  BY DEF IInv, TypeOK, AckInv
<1>2. rx_seq_l = NextExpected(answer.number)
  BY DEF AckInv
<1> QED
  BY <1>1, <1>2, AckInHeader, NextIsSuccessor

\* Every packet and every ack of an answer acknowledges the frame that is being
\* answered, with number 6 left out: rx_seq_l is not touched in between.
THEOREM AcksInHand == Spec => []AcksFrameInHand
<1>1. Init => AckInv
  BY DEF Init, NoAnswer, AckInv, AcksFrameInHand, AnswerHeaders
<1>2. IInv /\ AckInv /\ [Next]_link_vars => AckInv'
  <2> SUFFICES ASSUME IInv, AckInv, [Next]_link_vars PROVE AckInv'
    OBVIOUS
  <2>1. ASSUME NEW h \in Headers, NEW id \in ProgramIds, NEW queue \in Queues,
               busmail_dispatch(h, id, queue)
        PROVE  AckInv'
    <3>1. CASE information_frame(h, id, queue)
      <4>1. /\ answer' = [number |-> TxSeq(h), queued |-> queue,
                          infos |-> << >>, acks |-> << >>]
            /\ rx_seq_l' = NextExpected(TxSeq(h))
        BY <3>1 DEF information_frame, TakeNumbers, NoAnswer
      <4>2. TxSeq(h) \in 0 .. 7
        BY HeaderAssumption, FieldsFit
      <4>3. AnswerHeaders' = {}
        BY <4>1 DEF AnswerHeaders
      <4> QED
        BY <4>1, <4>2, <4>3 DEF AckInv, AcksFrameInHand
    <3>2. CASE answer' = answer /\ ~answering'
      BY <3>2 DEF AckInv, AcksFrameInHand, AnswerHeaders
    <3>3. CASE /\ answer' = [number |-> -1, queued |-> << >>, infos |-> << >>,
                             acks |-> <<SAMB_NO_POLL_SET>>]
               /\ ~answering'
      <4>1. AnswerHeaders' = {SAMB_NO_POLL_SET} /\ answer'.number = -1
        BY <3>3 DEF AnswerHeaders
      <4>2. RxSeq(SAMB_NO_POLL_SET) = ((-1) + 1) % 8
        BY SMT DEF RxSeq, SAMB_NO_POLL_SET
      <4> QED
        BY <3>3, <4>1, <4>2 DEF AckInv, AcksFrameInHand
    <3> QED
      BY <2>1, <3>1, <3>2, <3>3
      DEF busmail_dispatch, information_frame_dropped, supervisory_control_frame,
          unnumbered_control_frame, link_vars, NoAnswer
  <2>2. CASE Transmit
    <3> DEFINE frame == [header |-> make_info_frame(PF), data |-> Head(tx_fifo)]
    <3>1. /\ answering /\ UNCHANGED rx_seq_l
          /\ answer' = [answer EXCEPT !.infos = Append(answer.infos, frame)]
      BY <2>2 DEF Transmit
    <3>2. /\ answer.infos \in Seq(Info)
          /\ answer'.infos = Append(answer.infos, frame)
          /\ answer'.acks = answer.acks /\ answer'.number = answer.number
      BY <3>1 DEF IInv, TypeOK
    <3>3. frame.header = make_info_frame(PF)
      OBVIOUS
    <3> HIDE DEF frame
    <3>4. AnswerHeaders' \subseteq AnswerHeaders \cup {make_info_frame(PF)}
      BY <3>2, <3>3 DEF AnswerHeaders
    <3>5. answer.number # 6 => RxSeq(make_info_frame(PF)) = (answer.number + 1) % 8
      <4>1. tx_seq_l \in 0 .. 255
        BY DEF IInv, TypeOK
      <4> QED
        BY <3>1, <4>1, HeaderAcks DEF make_info_frame
    <3> QED
      BY <3>1, <3>2, <3>4, <3>5 DEF AckInv, AcksFrameInHand
  <2>3. CASE Finish
    <3> DEFINE rr == make_supervisory_frame(SUID_RR, NO_PF)
    <3>1. /\ answering /\ ~answering'
          /\ answer' = answer \/ answer' = [answer EXCEPT !.acks = Append(@, rr)]
      BY <2>3 DEF Finish
    <3>2. answer.number # 6 => RxSeq(rr) = (answer.number + 1) % 8
      <4>1. SUID_RR \in 0 .. 255
        BY DEF SUID_RR
      <4> QED
        BY <3>1, <4>1, HeaderAcks DEF make_supervisory_frame
    <3> HIDE DEF rr
    <3>3. /\ answer'.number = answer.number
          /\ AnswerHeaders' \subseteq AnswerHeaders \cup {rr}
      <4>1. CASE answer' = answer
        BY <4>1 DEF AnswerHeaders
      <4>2. CASE answer' = [answer EXCEPT !.acks = Append(@, rr)]
        <5>1. /\ answer.acks \in Seq(0 .. 255)
              /\ answer'.acks = Append(answer.acks, rr)
              /\ answer'.infos = answer.infos /\ answer'.number = answer.number
          BY <4>2 DEF IInv, TypeOK
        <5> QED
          BY <5>1 DEF AnswerHeaders
      <4> QED
        BY <3>1, <4>1, <4>2
    <3> QED
      BY <3>1, <3>2, <3>3 DEF AckInv, AcksFrameInHand
  <2>4. CASE UNCHANGED link_vars
    BY <2>4 DEF link_vars, counters, AckInv, AcksFrameInHand, AnswerHeaders
  <2> QED
    BY <2>1, <2>2, <2>3, <2>4 DEF Next
<1>3. AckInv => AcksFrameInHand
  BY DEF AckInv
<1> QED
  BY <1>1, <1>2, <1>3, Invariance, PTL DEF Spec
-----------------------------------------------------------------------------
(* Packets on their way to the peer and packets queued, as one sequence.   *)

\* A send moves a packet from the queue to the line.
LEMMA SendKeeps ==
  ASSUME NEW T, NEW s \in Seq(T), NEW t \in Seq(T), t # << >>
  PROVE  /\ Append(s, Head(t)) \o Tail(t) = s \o t
         /\ Append(s, Head(t)) \in Seq(T) /\ Tail(t) \in Seq(T)
OBVIOUS

\* The module takes the oldest of all.
LEMMA TakeHead ==
  ASSUME NEW T, NEW s \in Seq(T), NEW t \in Seq(T), s # << >>
  PROVE  /\ Tail(s) \o t = Tail(s \o t) /\ Head(s) = Head(s \o t)
         /\ s \o t # << >> /\ s \o t \in Seq(T)
         /\ Tail(s) \in Seq(T)
<1>1. /\ Len(s) \in Nat \ {0} /\ Len(t) \in Nat
      /\ s \o t \in Seq(T) /\ Len(s \o t) = Len(s) + Len(t)
      /\ \A i \in 1 .. Len(s) + Len(t) :
            (s \o t)[i] = IF i <= Len(s) THEN s[i] ELSE t[i - Len(s)]
  BY EmptySeq, ConcatProperties
<1>2. s \o t # << >>
  BY <1>1, EmptySeq
<1>3. /\ Tail(s) \in Seq(T) /\ Len(Tail(s)) = Len(s) - 1
      /\ \A i \in 1 .. Len(s) - 1 : Tail(s)[i] = s[i + 1]
      /\ Head(s) = s[1] /\ Head(s \o t) = (s \o t)[1]
      /\ Tail(s \o t) \in Seq(T) /\ Len(Tail(s \o t)) = Len(s \o t) - 1
      /\ \A i \in 1 .. Len(s \o t) - 1 : Tail(s \o t)[i] = (s \o t)[i + 1]
  BY <1>1, <1>2, HeadTailProperties
<1> DEFINE u == Tail(s) \o t
           v == Tail(s \o t)
<1>4. /\ u \in Seq(T) /\ Len(u) = Len(s) - 1 + Len(t)
      /\ \A i \in 1 .. Len(s) - 1 + Len(t) :
            u[i] = IF i <= Len(s) - 1 THEN Tail(s)[i] ELSE t[i - (Len(s) - 1)]
  BY <1>1, <1>3, ConcatProperties
<1>5. v \in Seq(T) /\ Len(v) = Len(s) - 1 + Len(t)
  BY <1>1, <1>3
<1>6. ASSUME NEW i \in 1 .. Len(u) PROVE u[i] = v[i]
  <2>1. v[i] = (s \o t)[i + 1] /\ i + 1 \in 1 .. Len(s) + Len(t)
    BY <1>1, <1>3, <1>4
  <2>2. CASE i <= Len(s) - 1
    BY <1>1, <1>3, <1>4, <2>1, <2>2
  <2>3. CASE ~(i <= Len(s) - 1)
    BY <1>1, <1>4, <2>1, <2>3
  <2> QED BY <2>2, <2>3
<1> HIDE DEF u, v
<1>7. u = v
  BY <1>4, <1>5, <1>6, SeqEqual
<1>8. Tail(s) \o t = Tail(s \o t)
  BY <1>7 DEF u, v
<1>9. (s \o t)[1] = s[1]
  BY <1>1
<1> QED BY <1>1, <1>2, <1>3, <1>8, <1>9
-----------------------------------------------------------------------------
(* How many members of a queue, or of the frames on their way, are of a kind. *)

Places(q, kind) == {i \in 1 .. Len(q) : q[i] \in kind}
Count(q, kind) == Cardinality(Places(q, kind))

\* The count is a number, no greater than the length.
LEMMA CountType ==
  ASSUME NEW T, NEW q \in Seq(T), NEW kind
  PROVE  /\ IsFiniteSet(Places(q, kind))
         /\ Count(q, kind) \in Nat
         /\ Count(q, kind) <= Len(q)
<1>1. Len(q) \in Nat
  OBVIOUS
<1>2. IsFiniteSet(1 .. Len(q)) /\ Cardinality(1 .. Len(q)) = Len(q)
  <2> DEFINE L == Len(q)
  <2>1. L - 1 + 1 = L /\ (1 <= L => L \in Int) /\ 1 \in Int /\ L \in Int
    BY <1>1
  <2> HIDE DEF L
  <2>2. IsFiniteSet(1 .. L) /\ Cardinality(1 .. L) = IF L < 1 THEN 0 ELSE L - 1 + 1
    BY <2>1, FS_Interval
  <2> QED BY <1>1, <2>1, <2>2 DEF L
<1>3. Places(q, kind) \in SUBSET (1 .. Len(q))
  BY DEF Places
<1>4. IsFiniteSet(Places(q, kind)) /\ Count(q, kind) <= Len(q)
  BY <1>2, <1>3, FS_Subset DEF Count
<1> QED BY <1>4, FS_CardinalityType DEF Count

\* An empty queue has none of any kind.
LEMMA CountEmpty ==
  ASSUME NEW kind
  PROVE  Count(<< >>, kind) = 0
<1>1. Places(<< >>, kind) = {}
  BY DEF Places
<1> QED BY <1>1, FS_EmptySet DEF Count

\* A positive count has a witness.
LEMMA CountZero ==
  ASSUME NEW T, NEW q \in Seq(T), NEW kind
  PROVE  Count(q, kind) = 0 <=> \A i \in 1 .. Len(q) : q[i] \notin kind
<1>1. Count(q, kind) = 0 <=> Places(q, kind) = {}
  BY CountType, FS_EmptySet DEF Count
<1> QED BY <1>1 DEF Places

\* One more at the end.
LEMMA CountAppend ==
  ASSUME NEW T, NEW q \in Seq(T), NEW x \in T, NEW kind
  PROVE  Count(Append(q, x), kind) = Count(q, kind) + (IF x \in kind THEN 1 ELSE 0)
<1> DEFINE n == Len(q) + 1
           longer == Append(q, x)
<1>1. /\ n \in Nat \ {0} /\ Len(longer) = n /\ longer[n] = x
      /\ \A i \in 1 .. Len(q) : longer[i] = q[i]
      /\ 1 .. n = (1 .. Len(q)) \cup {n} /\ n \notin 1 .. Len(q)
  OBVIOUS
<1> HIDE DEF n, longer
<1>2. n \notin Places(q, kind)
  BY <1>1 DEF Places
<1>3. CASE x \in kind
  <2>1. Places(longer, kind) = Places(q, kind) \cup {n}
    BY <1>1, <1>3 DEF Places
  <2> QED BY <1>2, <1>3, <2>1, CountType, FS_AddElement DEF Count, longer
<1>4. CASE x \notin kind
  <2>1. Places(longer, kind) = Places(q, kind)
    BY <1>1, <1>4 DEF Places
  <2>2. Count(q, kind) \in Nat
    BY CountType
  <2> QED BY <1>4, <2>1, <2>2 DEF Count, longer
<1> QED BY <1>3, <1>4

\* One fewer at the head.
LEMMA CountTail ==
  ASSUME NEW T, NEW q \in Seq(T), q # << >>, NEW kind
  PROVE  Count(q, kind) = Count(Tail(q), kind) + (IF Head(q) \in kind THEN 1 ELSE 0)
<1> DEFINE rest == Tail(q)
           shift == [i \in Places(rest, kind) |-> i + 1]
<1>1. /\ Len(q) \in Nat \ {0} /\ Head(q) = q[1] /\ rest \in Seq(T)
      /\ Len(rest) = Len(q) - 1
      /\ \A i \in 1 .. Len(q) - 1 : rest[i] = q[i + 1]
  BY EmptySeq, HeadTailProperties
<1> HIDE DEF rest
<1>2. Places(rest, kind) \subseteq 1 .. Len(q) - 1
  BY <1>1 DEF Places
<1>3. shift \in Bijection(Places(rest, kind), Places(q, kind) \ {1})
  <2>1. \A i \in Places(rest, kind) : i + 1 \in Places(q, kind) \ {1}
    BY <1>1 DEF Places
  <2>2. \A j \in Places(q, kind) \ {1} : j - 1 \in Places(rest, kind) /\ (j - 1) + 1 = j
    BY <1>1 DEF Places
  <2>3. shift \in [Places(rest, kind) -> Places(q, kind) \ {1}]
    BY <2>1
  <2>4. \A i, j \in Places(rest, kind) : shift[i] = shift[j] => i = j
    BY <1>2
  <2>5. \A j \in Places(q, kind) \ {1} : \E i \in Places(rest, kind) : shift[i] = j
    BY <2>2
  <2> HIDE DEF shift
  <2> QED BY <2>3, <2>4, <2>5 DEF Bijection, Injection, Surjection, IsInjective
<1> HIDE DEF shift
<1>4. Cardinality(Places(q, kind) \ {1}) = Count(rest, kind)
  BY <1>1, <1>3, CountType, FS_Bijection DEF ExistsBijection, Count
<1>5. /\ Cardinality(Places(q, kind) \ {1}) =
           IF 1 \in Places(q, kind) THEN Count(q, kind) - 1 ELSE Count(q, kind)
      /\ Count(q, kind) \in Nat
  BY CountType, FS_RemoveElement DEF Count
<1>6. 1 \in Places(q, kind) <=> Head(q) \in kind
  BY <1>1 DEF Places
<1> QED BY <1>4, <1>5, <1>6 DEF rest
=============================================================================
