------------------------------ MODULE AppProofs -------------------------------
(***************************************************************************)
(* The start-up sequence of the app mode runs once, and once more for each *)
(* confirm that is sent again; the module is never opened for registration *)
(* before its protocol was started; no information frame goes unanswered.  *)
(* All this for any number of indications and of frames sent again.        *)
(*                                                                         *)
(* The two requests are enqueued together, sent one by one and taken one   *)
(* by one; what orders them is that the packets on their way and those     *)
(* still queued form one sequence, of which a send changes nothing, the    *)
(* program extends the end and the module takes the head (InOrder).  What  *)
(* limits them is that each step only trades one token of the sequence for *)
(* others of the same worth (Worth, Room): the announcement not yet seen,  *)
(* the version request, its confirm, the packets queued and taken.         *)
(***************************************************************************)
EXTENDS App, BusmailProofs

\* Requests not yet taken by the module, oldest first.
Pending == to_module \o tx_fifo

\* As long as the protocol is not started, START_PROTOCOL_REQ is before every
\* SET_REGISTRATION_MODE_REQ.
StartFirst(requests) ==
    \A i \in 1 .. Len(requests) : requests[i] = "SET_REGISTRATION_MODE_REQ" =>
        \E j \in 1 .. i - 1 : requests[j] = "START_PROTOCOL_REQ"

InOrder == ~protocol => StartFirst(Pending)

\* The frames of the module: information, and one control frame.
InformationFrames ==
    [header : 0 .. 112, program_id : {API_PROG_ID},
     mail : Indications \cup {"FW_VERSION_CFM", "SET_REGISTRATION_MODE_CFM"}]
Frames == InformationFrames \cup {ReceiverReady}

\* The frame that is taken next.
Frame == Head(from_module)

Confirms == {f \in Frames : f.mail = "FW_VERSION_CFM"}
VersionRequest == {"GET_FW_VERSION_REQ"}

WireOK == /\ to_module \in Seq(Requests) /\ tx_fifo \in Seq(Requests)
          /\ from_module \in Seq(Frames)
          /\ m_last \in InformationFrames
          /\ m_sent \in Nat /\ resent \in Nat /\ acked \in Nat
          /\ reset_ind \in {0, 1}
          /\ protocol \in BOOLEAN /\ registration \in BOOLEAN

\* What the announcement, if it is still to come, and the version requests make
\* the program send: the packets queued, two for a request, three for the
\* announcement.  A confirm on its way adds two.
Asked == Count(Pending, VersionRequest)
Confirmed == Count(from_module, Confirms)
Owed == Len(tx_fifo) + 2 * Asked + 3 * (1 - reset_ind)
Worth == tx_seq_l + Owed + 2 * Confirmed <= 3 + 2 * resent

\* What they leave for the module to take besides the version request.
Taken == (IF protocol THEN 1 ELSE 0) + (IF registration THEN 1 ELSE 0)
Load == Len(Pending) + Asked + 2 * (1 - reset_ind)
Room == Load + Taken + 2 * Confirmed <= 2 + 2 * resent

\* Each information frame sent is answered, in hand, or on its way.
Accounted == acked + (IF answering THEN 1 ELSE 0) + Count(from_module, InformationFrames)
                 = m_sent + resent

AppInv == /\ IInv
          /\ WireOK
          /\ RegistersStarted
          /\ InOrder
          /\ Worth
          /\ Room
          /\ Accounted
-----------------------------------------------------------------------------
\* What the callback enqueues is in order itself.
LEMMA EnqueuedInOrder ==
  ASSUME NEW mail
  PROVE  /\ application_frame(mail) \in Seq(Requests)
         /\ StartFirst(application_frame(mail))
<1>1. \/ application_frame(mail) = << >>
      \/ application_frame(mail) = <<"GET_FW_VERSION_REQ">>
      \/ application_frame(mail) = <<"START_PROTOCOL_REQ", "SET_REGISTRATION_MODE_REQ">>
  BY DEF application_frame
<1>2. << >> \in Seq(Requests) /\ StartFirst(<< >>)
  BY DEF StartFirst
<1>3. <<"GET_FW_VERSION_REQ">> \in Seq(Requests) /\ StartFirst(<<"GET_FW_VERSION_REQ">>)
  BY DEF StartFirst, Requests
<1> DEFINE both == <<"START_PROTOCOL_REQ", "SET_REGISTRATION_MODE_REQ">>
<1>4. both \in Seq(Requests) /\ StartFirst(both)
  <2>1. /\ Len(both) = 2 /\ both[1] = "START_PROTOCOL_REQ"
        /\ both[2] = "SET_REGISTRATION_MODE_REQ"
    OBVIOUS
  <2>2. both \in Seq(Requests)
    BY DEF Requests
  <2> HIDE DEF both
  <2> QED BY <2>1, <2>2 DEF StartFirst
<1> QED BY <1>1, <1>2, <1>3, <1>4

\* Two sequences in order, one after the other, are in order.
LEMMA ConcatInOrder ==
  ASSUME NEW s \in Seq(Requests), NEW t \in Seq(Requests), StartFirst(s), StartFirst(t)
  PROVE  StartFirst(s \o t)
<1>1. /\ s \o t \in Seq(Requests) /\ Len(s \o t) = Len(s) + Len(t)
      /\ Len(s) \in Nat /\ Len(t) \in Nat
      /\ \A i \in 1 .. Len(s) + Len(t) :
            (s \o t)[i] = IF i <= Len(s) THEN s[i] ELSE t[i - Len(s)]
  BY ConcatProperties
<1> SUFFICES ASSUME NEW i \in 1 .. Len(s) + Len(t),
                    (s \o t)[i] = "SET_REGISTRATION_MODE_REQ"
             PROVE  \E j \in 1 .. i - 1 : (s \o t)[j] = "START_PROTOCOL_REQ"
  BY <1>1 DEF StartFirst
<1>2. CASE i <= Len(s)
  <2>1. PICK j \in 1 .. i - 1 : s[j] = "START_PROTOCOL_REQ"
    BY <1>1, <1>2 DEF StartFirst
  <2> QED BY <1>1, <1>2, <2>1
<1>3. CASE ~(i <= Len(s))
  <2>1. i - Len(s) \in 1 .. Len(t) /\ t[i - Len(s)] = "SET_REGISTRATION_MODE_REQ"
    BY <1>1, <1>3
  <2>2. PICK j \in 1 .. (i - Len(s)) - 1 : t[j] = "START_PROTOCOL_REQ"
    BY <2>1 DEF StartFirst
  <2>3. /\ j + Len(s) \in 1 .. i - 1 /\ ~(j + Len(s) <= Len(s))
        /\ (j + Len(s)) - Len(s) = j
    BY <1>1, <1>3, <2>2
  <2>4. (s \o t)[j + Len(s)] = "START_PROTOCOL_REQ"
    BY <1>1, <2>2, <2>3
  <2> QED BY <2>3, <2>4
<1> QED BY <1>2, <1>3

\* The head of a sequence in order opens no registration, and without a head other
\* than START_PROTOCOL_REQ it stays in order.
LEMMA TailInOrder ==
  ASSUME NEW s \in Seq(Requests), s # << >>, StartFirst(s)
  PROVE  /\ Head(s) # "SET_REGISTRATION_MODE_REQ"
         /\ Head(s) # "START_PROTOCOL_REQ" => StartFirst(Tail(s))
<1>1. /\ Len(s) \in Nat \ {0} /\ Head(s) = s[1] /\ Tail(s) \in Seq(Requests)
      /\ Len(Tail(s)) = Len(s) - 1
      /\ \A i \in 1 .. Len(s) - 1 : Tail(s)[i] = s[i + 1]
  BY EmptySeq, HeadTailProperties
<1>2. Head(s) # "SET_REGISTRATION_MODE_REQ"
  BY <1>1 DEF StartFirst
<1>3. ASSUME Head(s) # "START_PROTOCOL_REQ", NEW i \in 1 .. Len(Tail(s)),
             Tail(s)[i] = "SET_REGISTRATION_MODE_REQ"
      PROVE  \E j \in 1 .. i - 1 : Tail(s)[j] = "START_PROTOCOL_REQ"
  <2>1. i + 1 \in 1 .. Len(s) /\ s[i + 1] = "SET_REGISTRATION_MODE_REQ"
    BY <1>1, <1>3
  <2>2. PICK j \in 1 .. (i + 1) - 1 : s[j] = "START_PROTOCOL_REQ"
    BY <2>1 DEF StartFirst
  <2>3. j # 1
    BY <1>1, <1>3, <2>2
  <2>4. j - 1 \in 1 .. i - 1 /\ Tail(s)[j - 1] = s[(j - 1) + 1]
    BY <1>1, <2>2, <2>3
  <2>5. (j - 1) + 1 = j
    BY <2>2
  <2> QED BY <2>2, <2>4, <2>5
<1> QED BY <1>2, <1>3 DEF StartFirst
-----------------------------------------------------------------------------
\* The announcement is the only frame on its way at first.
LEMMA InitInv == AppInit => AppInv
<1> SUFFICES ASSUME AppInit PROVE AppInv
  OBVIOUS
<1> DEFINE first == InfoFrame(0, "RESET_IND")
<1>1. IInv
  BY InitInvariant DEF AppInit
<1>2. /\ to_module = << >> /\ tx_fifo = << >> /\ tx_seq_l = 0 /\ answering = FALSE
      /\ from_module = <<first>> /\ m_last = first
      /\ reset_ind = 0 /\ resent = 0 /\ acked = 0 /\ m_sent = 1
      /\ protocol = FALSE /\ registration = FALSE
  BY DEF AppInit, Init
<1>3. /\ first \in InformationFrames /\ first \in Frames /\ first \notin Confirms
  BY DEF InfoFrame, InformationFrames, Indications, Frames, Confirms
<1> HIDE DEF first
<1>4. WireOK
  <2>1. from_module \in Seq(Frames) /\ m_last \in InformationFrames
    BY <1>2, <1>3
  <2>2. to_module \in Seq(Requests) /\ tx_fifo \in Seq(Requests)
    BY <1>2
  <2> QED BY <1>2, <2>1, <2>2 DEF WireOK
<1>5. /\ Pending = << >> /\ Asked = 0
  BY <1>2, CountEmpty DEF Pending, Asked
<1>6. /\ Confirmed = 0
      /\ Count(from_module, InformationFrames) = 1
  <2>1. from_module = Append(<< >>, first) /\ << >> \in Seq(Frames)
    BY <1>2
  <2>2. \A kind : Count(from_module, kind) =
            Count(<< >>, kind) + (IF first \in kind THEN 1 ELSE 0)
    BY <1>3, <2>1, CountAppend
  <2> QED BY <1>3, <2>2, CountEmpty DEF Confirmed
<1>7. InOrder /\ RegistersStarted
  BY <1>2, <1>5 DEF InOrder, StartFirst, RegistersStarted
<1>8. Worth /\ Room /\ Accounted
  <2>1. Owed = 3 /\ Load = 2 /\ Taken = 0
    BY <1>2, <1>5 DEF Owed, Load, Taken
  <2> QED BY <1>2, <1>6, <2>1 DEF Worth, Room, Accounted
<1> QED BY <1>1, <1>4, <1>7, <1>8 DEF AppInv

\* The counts are numbers.
LEMMA Counts ==
  ASSUME WireOK
  PROVE  /\ Pending \in Seq(Requests) /\ Len(Pending) = Len(to_module) + Len(tx_fifo)
         /\ Len(Pending) \in Nat /\ Len(tx_fifo) \in Nat
         /\ Asked \in Nat /\ Confirmed \in Nat
         /\ Count(from_module, InformationFrames) \in Nat
         /\ Taken \in 0 .. 2 /\ Owed \in Nat /\ Load \in Nat
<1>1. /\ Pending \in Seq(Requests) /\ Len(Pending) = Len(to_module) + Len(tx_fifo)
      /\ Len(Pending) \in Nat /\ Len(tx_fifo) \in Nat
  BY ConcatProperties DEF WireOK, Pending
<1>2. Asked \in Nat
  BY <1>1, CountType DEF Asked
<1>3. Confirmed \in Nat /\ Count(from_module, InformationFrames) \in Nat
  BY CountType DEF WireOK, Confirmed
<1>4. Taken \in 0 .. 2
  BY DEF Taken
<1>5. Owed \in Nat /\ Load \in Nat
  BY <1>1, <1>2 DEF WireOK, Owed, Load
<1> QED BY <1>1, <1>2, <1>3, <1>4, <1>5

\* The counts are numbers after a step too.
LEMMA CountsNext ==
  ASSUME WireOK'
  PROVE  /\ Owed' \in Nat /\ Load' \in Nat /\ Confirmed' \in Nat
         /\ Count(from_module', InformationFrames) \in Nat
<1>1. /\ Pending' \in Seq(Requests) /\ Len(Pending') \in Nat /\ Len(tx_fifo') \in Nat
  BY ConcatProperties DEF WireOK, Pending
<1>2. Asked' \in Nat
  BY <1>1, CountType DEF Asked
<1>3. Confirmed' \in Nat /\ Count(from_module', InformationFrames) \in Nat
  BY CountType DEF WireOK, Confirmed
<1>4. Owed' \in Nat /\ Load' \in Nat
  <2>1. reset_ind' \in {0, 1}
    BY DEF WireOK
  <2> QED BY <1>1, <1>2, <2>1 DEF Owed, Load
<1> QED BY <1>3, <1>4

\* What a received frame does: the counts lose it, the program is at work on it or
\* has dropped it, and a control frame touches neither queue nor transmit counter.
LEMMA Received ==
  ASSUME AppInv, Receive
  PROVE  /\ Frame \in Frames /\ from_module' \in Seq(Frames)
         /\ \A kind : Count(from_module, kind) =
                        Count(from_module', kind) + (IF Frame \in kind THEN 1 ELSE 0)
         /\ ~answering /\ tx_fifo = << >>
         /\ reset_ind' = IF Frame.mail = "RESET_IND" THEN 1 ELSE reset_ind
         /\ UNCHANGED <<to_module, protocol, registration, m_sent, m_last, resent,
                        acked, tx_seq_l>>
         /\ \/ /\ Frame \in InformationFrames
               /\ tx_fifo' = application_frame(Frame.mail) /\ answering' = TRUE
            \/ /\ Frame = ReceiverReady
               /\ tx_fifo' = << >> /\ answering' = FALSE
         /\ IInv'
<1>1. /\ from_module # << >> /\ from_module' = Tail(from_module)
      /\ busmail_dispatch(Frame.header, Frame.program_id, application_frame(Frame.mail))
      /\ reset_ind' = IF Frame.mail = "RESET_IND" THEN 1 ELSE reset_ind
      /\ UNCHANGED <<module_vars, to_module, acked>>
  BY DEF Receive, Frame
<1>2. from_module \in Seq(Frames)
  BY DEF AppInv, WireOK
<1>3. Frame \in Frames /\ from_module' \in Seq(Frames)
  BY <1>1, <1>2 DEF Frame
<1>4. \A kind : Count(from_module, kind) =
                  Count(from_module', kind) + (IF Frame \in kind THEN 1 ELSE 0)
  BY <1>1, <1>2, CountTail DEF Frame
<1>5. ~answering /\ tx_fifo = << >>
  BY <1>1 DEF busmail_dispatch, AppInv, IInv, IdleDrained
<1>6. UNCHANGED <<to_module, protocol, registration, m_sent, m_last, resent, acked>>
  BY <1>1 DEF module_vars, bounds
<1>7. application_frame(Frame.mail) \in Seq(Requests)
      /\ application_frame(Frame.mail) \in Seq(Data)
  BY EnqueuedInOrder, DataAssumption
<1>8. Frame.header \in 0 .. 128
  BY <1>3 DEF Frames, InformationFrames, ReceiverReady
<1>9. IInv'
  <2>1. IInv /\ Frame.header \in 0 .. 255
    BY <1>8 DEF AppInv
  <2> QED BY <1>1, <1>7, <2>1, DispatchStep
<1>10. CASE Frame \in InformationFrames
  <2>1. Frame.header \in 0 .. 112 /\ Frame.program_id = API_PROG_ID
    BY <1>10 DEF InformationFrames
  <2>2. ~IsControl(Frame.header) /\ ~IsUnnumbered(Frame.header)
    BY <2>1 DEF IsControl, IsUnnumbered
  <2>3. information_frame(Frame.header, Frame.program_id, application_frame(Frame.mail))
    BY <1>1, <2>1, <2>2
    DEF busmail_dispatch, information_frame_dropped, supervisory_control_frame,
        unnumbered_control_frame
  <2>4. answering' = TRUE /\ tx_seq_l' = tx_seq_l
        /\ tx_fifo' = tx_fifo \o application_frame(Frame.mail)
    BY <2>3 DEF information_frame, TakeNumbers
  <2>5. tx_fifo' = application_frame(Frame.mail)
    BY <1>5, <1>7, <2>4
  <2> QED BY <1>1, <1>3, <1>4, <1>5, <1>6, <1>9, <1>10, <2>4, <2>5
<1>11. CASE Frame = ReceiverReady
  <2>1. IsControl(Frame.header) /\ ~IsUnnumbered(Frame.header)
    BY <1>11 DEF ReceiverReady, IsControl, IsUnnumbered
  <2>2. supervisory_control_frame(Frame.header)
    BY <1>1, <2>1 DEF busmail_dispatch, information_frame,
                      information_frame_dropped, unnumbered_control_frame
  <2>3. UNCHANGED <<answering, tx_fifo, tx_seq_l>>
    BY <2>2 DEF supervisory_control_frame
  <2>4. answering' = FALSE
    BY <1>5, <2>3 DEF AppInv, IInv, TypeOK
  <2> QED BY <1>1, <1>3, <1>4, <1>5, <1>6, <1>9, <1>11, <2>3, <2>4
<1> QED BY <1>3, <1>10, <1>11 DEF Frames

\* What is enqueued for a frame pays for itself: the announcement counts as three
\* packets, a confirm as two.
LEMMA EnqueuedWorth ==
  ASSUME WireOK, WireOK', NEW p \in InformationFrames, to_module' = to_module,
         tx_fifo = << >>, tx_fifo' = application_frame(p.mail),
         reset_ind' = IF p.mail = "RESET_IND" THEN 1 ELSE reset_ind
  PROVE  \/ p \notin Confirms /\ Owed' <= Owed /\ Load' <= Load
         \/ p \in Confirms /\ Owed' <= Owed + 2 /\ Load' <= Load + 2
<1>1. to_module \in Seq(Requests) /\ Pending = to_module /\ reset_ind \in {0, 1}
  BY DEF WireOK, Pending
<1>2. Pending' = to_module \o tx_fifo'
  BY DEF Pending
<1>3. /\ Asked \in Nat /\ Len(Pending) \in Nat
      /\ Len(tx_fifo) = 0 /\ p \in Frames
  BY Counts, <1>1 DEF Frames
<1>4. CASE tx_fifo' = << >>
  <2>1. Pending' = to_module
    BY <1>1, <1>2, <1>4
  <2>2. Asked' = Asked /\ Len(tx_fifo') = 0 /\ Len(Pending') = Len(Pending)
    BY <1>1, <1>4, <2>1 DEF Asked
  <2>3. p \notin Confirms
    BY <1>4 DEF Confirms, application_frame
  <2>4. reset_ind' = reset_ind \/ reset_ind' = 1
    OBVIOUS
  <2>5. Owed' = 2 * Asked + 3 * (1 - reset_ind')
        /\ Load' = Len(Pending) + Asked + 2 * (1 - reset_ind')
    BY <1>3, <2>2 DEF Owed, Load
  <2>6. Owed' <= Owed /\ Load' <= Load
    <3>1. CASE reset_ind' = reset_ind
      BY <1>1, <1>3, <2>5, <3>1 DEF Owed, Load
    <3>2. CASE reset_ind' = 1
      BY <1>1, <1>3, <2>5, <3>2 DEF Owed, Load
    <3> QED BY <2>4, <3>1, <3>2
  <2> QED BY <2>3, <2>6
<1>5. CASE p.mail = "RESET_IND" /\ reset_ind = 0
  <2>1. tx_fifo' = <<"GET_FW_VERSION_REQ">> /\ reset_ind' = 1
    BY <1>5 DEF application_frame
  <2>2. Pending' = Append(to_module, "GET_FW_VERSION_REQ")
    BY <1>1, <1>2, <2>1
  <2>3. "GET_FW_VERSION_REQ" \in Requests /\ "GET_FW_VERSION_REQ" \in VersionRequest
    BY DEF Requests, VersionRequest
  <2>4. Asked' = Asked + 1
    BY <1>1, <2>2, <2>3, CountAppend DEF Asked
  <2>5. Len(tx_fifo') = 1 /\ Len(Pending') = Len(Pending) + 1
    BY <1>1, <2>1, <2>2
  <2>6. p \notin Confirms
    BY <1>5 DEF Confirms
  <2>7. Owed' = 1 + 2 * (Asked + 1) /\ Load' = Len(Pending) + 1 + (Asked + 1)
    BY <1>3, <2>1, <2>4, <2>5 DEF Owed, Load
  <2>8. Owed = 2 * Asked + 3 /\ Load = Len(Pending) + Asked + 2
    BY <1>3, <1>5 DEF Owed, Load
  <2>9. Owed' <= Owed /\ Load' <= Load
    BY <1>3, <2>7, <2>8
  <2> QED BY <2>6, <2>9
<1>6. CASE p.mail = "FW_VERSION_CFM"
  <2>1. tx_fifo' = <<"START_PROTOCOL_REQ", "SET_REGISTRATION_MODE_REQ">>
        /\ reset_ind' = reset_ind
    BY <1>6 DEF application_frame
  <2>2. p \in Confirms
    BY <1>3, <1>6 DEF Confirms
  <2> DEFINE one == Append(to_module, "START_PROTOCOL_REQ")
  <2>3. Pending' = Append(one, "SET_REGISTRATION_MODE_REQ")
    BY <1>1, <1>2, <2>1
  <2>4. /\ "START_PROTOCOL_REQ" \in Requests
        /\ "SET_REGISTRATION_MODE_REQ" \in Requests
        /\ "START_PROTOCOL_REQ" \notin VersionRequest
        /\ "SET_REGISTRATION_MODE_REQ" \notin VersionRequest
    BY DEF Requests, VersionRequest
  <2>5. one \in Seq(Requests) /\ Len(one) = Len(to_module) + 1
    BY <1>1, <2>4
  <2>6. Count(one, VersionRequest) = Asked
    BY <1>1, <1>3, <2>4, CountAppend DEF Asked
  <2> HIDE DEF one
  <2>7. Asked' = Asked
    BY <1>3, <2>3, <2>4, <2>5, <2>6, CountAppend DEF Asked
  <2>8. Len(tx_fifo') = 2 /\ Len(Pending') = Len(Pending) + 2
    BY <1>1, <2>1, <2>3, <2>5
  <2>9. /\ Owed' = 2 + 2 * Asked + 3 * (1 - reset_ind)
        /\ Load' = Len(Pending) + 2 + Asked + 2 * (1 - reset_ind)
    BY <1>3, <2>1, <2>7, <2>8 DEF Owed, Load
  <2>10. Owed' <= Owed + 2 /\ Load' <= Load + 2
    BY <1>1, <1>3, <2>9 DEF Owed, Load
  <2> QED BY <2>2, <2>10
<1> QED BY <1>1, <1>4, <1>5, <1>6 DEF application_frame

\* The program enqueues in order, and no more than the frame is worth.
LEMMA ReceiveInv == ASSUME AppInv, Receive PROVE AppInv'
<1> DEFINE queue == application_frame(Frame.mail)
<1>1. /\ Frame \in Frames /\ from_module' \in Seq(Frames)
      /\ \A kind : Count(from_module, kind) =
                     Count(from_module', kind) + (IF Frame \in kind THEN 1 ELSE 0)
      /\ ~answering /\ tx_fifo = << >>
      /\ reset_ind' = IF Frame.mail = "RESET_IND" THEN 1 ELSE reset_ind
      /\ UNCHANGED <<to_module, protocol, registration, m_sent, m_last, resent,
                     acked, tx_seq_l>>
      /\ \/ /\ Frame \in InformationFrames
            /\ tx_fifo' = queue /\ answering' = TRUE
         \/ /\ Frame = ReceiverReady
            /\ tx_fifo' = << >> /\ answering' = FALSE
      /\ IInv'
  BY Received
<1>2. queue \in Seq(Requests) /\ StartFirst(queue)
  BY EnqueuedInOrder
<1> HIDE DEF queue
<1>3. WireOK'
  BY <1>1, <1>2 DEF AppInv, WireOK
<1>4. /\ Owed \in Nat /\ Load \in Nat /\ Confirmed \in Nat
      /\ Owed' \in Nat /\ Load' \in Nat /\ Confirmed' \in Nat
      /\ Count(from_module, InformationFrames) \in Nat
      /\ Count(from_module', InformationFrames) \in Nat
      /\ tx_seq_l \in Nat /\ resent \in Nat /\ acked \in Nat /\ m_sent \in Nat
      /\ Taken \in Nat /\ Taken' = Taken
      /\ Worth /\ Room /\ Accounted
  <2>1. WireOK /\ IInv
    BY DEF AppInv
  <2>2. Owed' \in Nat /\ Load' \in Nat /\ Confirmed' \in Nat
        /\ Count(from_module', InformationFrames) \in Nat
    BY <1>3, CountsNext
  <2>3. Taken' = Taken
    BY <1>1 DEF Taken
  <2>4. resent \in Nat /\ acked \in Nat /\ m_sent \in Nat /\ tx_seq_l \in Nat
    BY <2>1 DEF WireOK, IInv, TypeOK
  <2>5. Worth /\ Room /\ Accounted
    BY DEF AppInv
  <2> QED BY <2>1, <2>2, <2>3, <2>4, <2>5, Counts
<1>5. RegistersStarted'
  BY <1>1 DEF AppInv, RegistersStarted
<1>6. CASE Frame \in InformationFrames /\ tx_fifo' = queue /\ answering' = TRUE
  <2>1. \/ Frame \notin Confirms /\ Owed' <= Owed /\ Load' <= Load
        \/ Frame \in Confirms /\ Owed' <= Owed + 2 /\ Load' <= Load + 2
    BY <1>1, <1>3, <1>6, EnqueuedWorth DEF AppInv, queue
  <2> DEFINE owed == Owed'
             load == Load'
             confirmed == Confirmed'
  <2>2. \/ /\ confirmed = Confirmed /\ owed <= Owed /\ load <= Load
        \/ /\ confirmed + 1 = Confirmed /\ owed <= Owed + 2 /\ load <= Load + 2
    BY <1>1, <1>4, <2>1 DEF Confirmed
  <2>3. owed \in Nat /\ load \in Nat /\ confirmed \in Nat
    BY <1>4
  <2> HIDE DEF owed, load, confirmed
  <2>4. Worth'
    <3>1. tx_seq_l + owed + 2 * confirmed <= 3 + 2 * resent
      BY <1>4, <2>2, <2>3 DEF Worth
    <3> QED BY <1>1, <3>1 DEF Worth, owed, confirmed
  <2>5. Room'
    <3>1. load + Taken + 2 * confirmed <= 2 + 2 * resent
      BY <1>4, <2>2, <2>3 DEF Room
    <3> QED BY <1>1, <1>4, <3>1 DEF Room, load, confirmed
  <2>6. Accounted'
    BY <1>1, <1>4, <1>6 DEF AppInv, Accounted
  <2>7. InOrder'
    <3>1. Pending = to_module /\ Pending' = Pending \o queue /\ Pending \in Seq(Requests)
      BY <1>1, <1>6 DEF AppInv, WireOK, Pending
    <3> QED BY <1>1, <1>2, <3>1, ConcatInOrder DEF AppInv, InOrder
  <2> QED BY <1>1, <1>3, <1>5, <2>4, <2>5, <2>6, <2>7 DEF AppInv
<1>7. CASE Frame = ReceiverReady /\ tx_fifo' = << >> /\ answering' = FALSE
  <2>1. Frame \notin InformationFrames /\ Frame \notin Confirms /\ Frame.mail # "RESET_IND"
    BY <1>7 DEF ReceiverReady, InformationFrames, Confirms
  <2>2. tx_fifo' = tx_fifo
    BY <1>1, <1>7
  <2>3. Pending' = Pending /\ Asked' = Asked
    BY <1>1, <2>2 DEF Pending, Asked
  <2>4. Confirmed' = Confirmed /\ Owed' = Owed /\ Load' = Load
    BY <1>1, <1>4, <2>1, <2>2, <2>3 DEF Confirmed, Owed, Load
  <2>5. Worth' /\ Room'
    BY <1>1, <1>4, <2>4 DEF Worth, Room
  <2>6. Accounted'
    BY <1>1, <1>4, <1>7, <2>1 DEF AppInv, Accounted
  <2>7. InOrder'
    BY <1>1, <2>3 DEF AppInv, InOrder
  <2> QED BY <1>1, <1>3, <1>5, <2>5, <2>6, <2>7 DEF AppInv
<1> QED BY <1>1, <1>6, <1>7

\* What is pending stays as it is: the packet that is counted by tx_seq_l is no
\* longer counted in the queue.
LEMMA SendInv == ASSUME AppInv, Send PROVE AppInv'
<1>1. /\ tx_fifo # << >> /\ tx_fifo' = Tail(tx_fifo)
      /\ to_module' = Append(to_module, Head(tx_fifo))
      /\ answering /\ answering' = answering
      /\ tx_seq_l' = (tx_seq_l + 1) % 256
      /\ UNCHANGED <<protocol, registration, from_module, m_sent, m_last, resent,
                     reset_ind, acked>>
      /\ Transmit
  BY DEF Send, Transmit, module_vars, bounds
<1>2. IInv'
  BY <1>1, TransmitStep DEF AppInv
<1>3. WireOK
  BY DEF AppInv
<1>4. Pending' = Pending /\ to_module' \in Seq(Requests) /\ tx_fifo' \in Seq(Requests)
  <2>1. to_module \in Seq(Requests) /\ tx_fifo \in Seq(Requests) /\ tx_fifo # << >>
    BY <1>1, <1>3 DEF WireOK, Transmit
  <2>2. to_module' = Append(to_module, Head(tx_fifo)) /\ tx_fifo' = Tail(tx_fifo)
    BY <1>1 DEF Transmit
  <2> DEFINE longer == Append(to_module, Head(tx_fifo))
             rest == Tail(tx_fifo)
  <2>3. /\ longer \o rest = to_module \o tx_fifo
        /\ longer \in Seq(Requests) /\ rest \in Seq(Requests)
    BY <2>1, SendKeeps, Zenon
  <2> HIDE DEF longer, rest
  <2>4. to_module' = longer /\ tx_fifo' = rest
    BY <2>2 DEF longer, rest
  <2> QED BY <2>3, <2>4 DEF Pending
<1>5. WireOK'
  BY <1>1, <1>3, <1>4 DEF WireOK
<1>6. Asked' = Asked /\ Confirmed' = Confirmed /\ Taken' = Taken
  BY <1>1, <1>4 DEF Asked, Confirmed, Taken
<1>7. Load' = Load
  BY <1>1, <1>4, <1>6 DEF Load
<1>8. Owed' = Owed - 1
  <2>1. Len(tx_fifo') = Len(tx_fifo) - 1 /\ Len(tx_fifo) \in Nat
    BY <1>1, <1>3 DEF WireOK
  <2>2. Asked \in Nat /\ reset_ind \in {0, 1}
    BY <1>3, Counts DEF WireOK
  <2> DEFINE queued == Len(tx_fifo')
  <2>3. Owed' = queued + 2 * Asked + 3 * (1 - reset_ind)
    BY <1>1, <1>6 DEF Owed
  <2> QED BY <2>1, <2>2, <2>3 DEF Owed
<1>9. Worth'
  <2> DEFINE sent == tx_seq_l'
  <2>1. tx_seq_l \in 0 .. 255 /\ sent = (tx_seq_l + 1) % 256
    BY <1>1 DEF AppInv, IInv, TypeOK
  <2>2. sent <= tx_seq_l + 1 /\ sent \in Nat
    BY <2>1, SMT
  <2>3. Owed \in Nat /\ Confirmed \in Nat /\ resent \in Nat /\ Worth
    BY <1>3, Counts DEF AppInv, WireOK
  <2> HIDE DEF sent
  <2>4. sent + (Owed - 1) + 2 * Confirmed <= 3 + 2 * resent
    BY <2>1, <2>2, <2>3 DEF Worth
  <2> QED BY <1>1, <1>6, <1>8, <2>4 DEF Worth, sent
<1>10. Room'
  BY <1>1, <1>6, <1>7 DEF AppInv, Room
<1>11. (Accounted /\ RegistersStarted /\ InOrder)'
  BY <1>1, <1>4 DEF AppInv, Accounted, RegistersStarted, InOrder
<1> QED BY <1>2, <1>5, <1>9, <1>10, <1>11 DEF AppInv

\* The frame is answered.
LEMMA AnsweredInv == ASSUME AppInv, Answered PROVE AppInv'
<1>1. /\ answering /\ answering' = FALSE /\ acked' = acked + 1
      /\ UNCHANGED <<tx_fifo, to_module, protocol, registration, from_module, m_sent,
                     m_last, resent, reset_ind, tx_seq_l>>
      /\ Finish
  BY DEF Answered, Finish, module_vars, bounds, counters
<1>2. IInv'
  BY <1>1, FinishStep DEF AppInv
<1>3. WireOK'
  BY <1>1 DEF AppInv, WireOK
<1>4. Pending' = Pending /\ Asked' = Asked /\ Confirmed' = Confirmed /\ Taken' = Taken
  BY <1>1 DEF Pending, Asked, Confirmed, Taken
<1>5. Owed' = Owed /\ Load' = Load
  BY <1>1, <1>4 DEF Owed, Load
<1>6. (Worth /\ Room /\ RegistersStarted /\ InOrder)'
  BY <1>1, <1>4, <1>5 DEF AppInv, Worth, Room, RegistersStarted, InOrder
<1>7. Accounted'
  <2>1. acked \in Nat /\ Count(from_module, InformationFrames) \in Nat
    BY Counts DEF AppInv, WireOK
  <2> QED BY <1>1, <2>1 DEF AppInv, Accounted
<1> QED BY <1>2, <1>3, <1>6, <1>7 DEF AppInv

\* A step of the module leaves the program alone.
LEMMA ModuleLeaves ==
  ASSUME AppInv, UNCHANGED program_vars
  PROVE  /\ IInv'
         /\ UNCHANGED <<tx_fifo, tx_seq_l, answering, reset_ind, acked>>
BY DEF program_vars, link_vars, counters, AppInv, IInv, TypeOK, IdleDrained,
       AnswerInOrder, AckTellsSent, AnsweredOnce

\* A frame more on its way to the program.
LEMMA Sends ==
  ASSUME WireOK, NEW f \in Frames, from_module' = Append(from_module, f)
  PROVE  /\ from_module' \in Seq(Frames)
         /\ Confirmed' = Confirmed + (IF f \in Confirms THEN 1 ELSE 0)
         /\ Count(from_module', InformationFrames) =
               Count(from_module, InformationFrames)
                   + (IF f \in InformationFrames THEN 1 ELSE 0)
<1>1. from_module \in Seq(Frames)
  BY DEF WireOK
<1>2. \A kind : Count(from_module', kind) =
                  Count(from_module, kind) + (IF f \in kind THEN 1 ELSE 0)
  BY <1>1, CountAppend
<1> QED BY <1>1, <1>2 DEF Confirmed

\* An information frame of the module.
LEMMA FrameMade ==
  ASSUME NEW seq \in Nat,
         NEW mail \in Indications \cup {"FW_VERSION_CFM", "SET_REGISTRATION_MODE_CFM"}
  PROVE  /\ InfoFrame(seq, mail) \in InformationFrames
         /\ InfoFrame(seq, mail) \in Frames
         /\ InfoFrame(seq, mail) \in Confirms <=> mail = "FW_VERSION_CFM"
<1>1. (seq % 8) * 16 \in 0 .. 112
  <2>1. seq % 8 \in 0 .. 7
    BY SMT
  <2> QED BY <2>1, SMT
<1>2. InfoFrame(seq, mail) \in InformationFrames
  BY <1>1 DEF InfoFrame, InformationFrames
<1>3. InfoFrame(seq, mail).mail = mail
  BY DEF InfoFrame
<1> QED BY <1>2, <1>3 DEF Frames, Confirms

\* The module takes its requests in order; a confirm is worth its request.
LEMMA ModuleTakesInv == ASSUME AppInv, ModuleTakes PROVE AppInv'
<1>1. to_module # << >> /\ to_module' = Tail(to_module)
      /\ UNCHANGED <<program_vars, resent>>
  BY DEF ModuleTakes, bounds
<1>2. IInv' /\ UNCHANGED <<tx_fifo, tx_seq_l, answering, reset_ind, acked>>
  BY <1>1, ModuleLeaves
<1>3. WireOK
  BY DEF AppInv
<1>4. /\ Pending' = Tail(Pending) /\ Head(to_module) = Head(Pending)
      /\ Pending # << >> /\ Pending \in Seq(Requests)
      /\ to_module' \in Seq(Requests) /\ tx_fifo' \in Seq(Requests)
  <2>1. to_module \in Seq(Requests) /\ tx_fifo \in Seq(Requests) /\ to_module # << >>
    BY <1>1, <1>3 DEF WireOK
  <2>2. to_module' = Tail(to_module) /\ tx_fifo' = tx_fifo
    BY <1>1, <1>2
  <2> DEFINE all == to_module \o tx_fifo
             rest == Tail(to_module)
  <2>3. /\ rest \o tx_fifo = Tail(all) /\ Head(to_module) = Head(all)
        /\ all # << >> /\ all \in Seq(Requests) /\ rest \in Seq(Requests)
    BY <2>1, TakeHead, Zenon
  <2>4. Pending = all /\ Pending' = rest \o tx_fifo
    BY <2>2 DEF Pending
  <2> HIDE DEF all, rest
  <2>5. to_module' = rest /\ tx_fifo' = tx_fifo
    BY <2>2 DEF rest
  <2> QED BY <2>1, <2>3, <2>4, <2>5
<1>5. /\ Len(Pending') = Len(Pending) - 1
      /\ Asked = Asked' + (IF Head(to_module) \in VersionRequest THEN 1 ELSE 0)
  BY <1>4, CountTail DEF Asked
<1>6. /\ Owed \in Nat /\ Load \in Nat /\ Confirmed \in Nat /\ Asked \in Nat
      /\ Asked' \in Nat /\ Len(Pending) \in Nat /\ Len(tx_fifo) \in Nat
      /\ Count(from_module, InformationFrames) \in Nat
      /\ tx_seq_l \in Nat /\ resent \in Nat /\ acked \in Nat /\ m_sent \in Nat
      /\ Taken \in 0 .. 2 /\ reset_ind \in {0, 1}
      /\ Worth /\ Room /\ Accounted
  <2>1. Asked' \in Nat
    <3>1. Tail(Pending) \in Seq(Requests)
      BY <1>4
    <3> QED BY <1>4, <3>1, CountType DEF Asked
  <2>2. tx_seq_l \in Nat
    BY DEF AppInv, IInv, TypeOK
  <2> QED BY <1>3, <2>1, <2>2, Counts DEF AppInv, WireOK
<1> DEFINE asked == Asked'
           pending == Len(Pending')
<1>7. Owed' = Len(tx_fifo) + 2 * asked + 3 * (1 - reset_ind)
      /\ Load' = pending + asked + 2 * (1 - reset_ind)
  BY <1>2 DEF Owed, Load
<1>8. asked \in Nat /\ pending = Len(Pending) - 1
      /\ Asked = asked + (IF Head(to_module) \in VersionRequest THEN 1 ELSE 0)
  BY <1>5, <1>6
<1> HIDE DEF asked, pending
<1> DEFINE owed == Len(tx_fifo) + 2 * asked + 3 * (1 - reset_ind)
           load == pending + asked + 2 * (1 - reset_ind)
<1>12. /\ Asked \in Nat /\ Len(Pending) \in Nat /\ Len(tx_fifo) \in Nat
       /\ reset_ind \in {0, 1} /\ asked \in Nat /\ pending = Len(Pending) - 1
  BY <1>6, <1>8
<1>9. CASE Head(to_module) = "GET_FW_VERSION_REQ"
  <2>1. UNCHANGED <<protocol, registration>> /\ ModuleSends("FW_VERSION_CFM")
    BY <1>9 DEF ModuleTakes
  <2> DEFINE f == InfoFrame(m_sent, "FW_VERSION_CFM")
  <2>2. f \in Frames /\ f \in InformationFrames /\ f \in Confirms
    BY <1>6, FrameMade
  <2>3. from_module' = Append(from_module, f) /\ m_sent' = m_sent + 1 /\ m_last' = f
    BY <2>1 DEF ModuleSends
  <2> HIDE DEF f
  <2>4. /\ from_module' \in Seq(Frames) /\ Confirmed' = Confirmed + 1
        /\ Count(from_module', InformationFrames) =
              Count(from_module, InformationFrames) + 1
    BY <1>3, <2>2, <2>3, Sends
  <2>5. WireOK'
    BY <1>1, <1>2, <1>3, <1>4, <1>6, <2>1, <2>2, <2>3, <2>4 DEF WireOK
  <2>6. Owed' = Owed - 2 /\ Load' = Load - 2
    <3>1. Asked = asked + 1
      BY <1>8, <1>9 DEF VersionRequest
    <3>2. owed = Owed - 2 /\ load = Load - 2
      BY <1>12, <3>1 DEF Owed, Load
    <3> QED BY <1>7, <3>2
  <2>7. Worth' /\ Room'
    <3>1. Taken' = Taken
      BY <2>1 DEF Taken
    <3>2. tx_seq_l + (Owed - 2) + 2 * (Confirmed + 1) <= 3 + 2 * resent
          /\ (Load - 2) + Taken + 2 * (Confirmed + 1) <= 2 + 2 * resent
      BY <1>6 DEF Worth, Room
    <3> QED BY <1>1, <1>2, <2>4, <2>6, <3>1, <3>2 DEF Worth, Room
  <2>8. Accounted'
    <3>1. Accounted
      BY <1>6
    <3>2. (acked + (IF answering THEN 1 ELSE 0)
             + (Count(from_module, InformationFrames) + 1) = (m_sent + 1) + resent)
      BY <1>6, <3>1 DEF Accounted
    <3> QED BY <1>1, <1>2, <2>3, <2>4, <3>2 DEF Accounted
  <2>9. InOrder' /\ RegistersStarted'
    <3>1. InOrder /\ RegistersStarted
      BY DEF AppInv
    <3>2. InOrder'
      BY <1>4, <1>9, <2>1, <3>1, TailInOrder DEF InOrder
    <3> QED BY <2>1, <3>1, <3>2 DEF RegistersStarted
  <2> QED BY <1>2, <2>5, <2>7, <2>8, <2>9 DEF AppInv
<1>10. CASE Head(to_module) = "START_PROTOCOL_REQ"
  <2>1. protocol' = TRUE /\ UNCHANGED <<registration, from_module, m_sent, m_last>>
    BY <1>10 DEF ModuleTakes
  <2>2. WireOK'
    BY <1>1, <1>2, <1>3, <1>4, <2>1 DEF WireOK
  <2>3. Owed' = Owed /\ Load' = Load - 1 /\ Confirmed' = Confirmed
    <3>1. Asked = asked
      BY <1>6, <1>8, <1>10 DEF VersionRequest
    <3>2. owed = Owed /\ load = Load - 1
      BY <1>12, <3>1 DEF Owed, Load
    <3> QED BY <1>7, <2>1, <3>2 DEF Confirmed
  <2>4. Worth' /\ Room'
    <3>1. Taken' = Taken \/ Taken' = Taken + 1
      BY <2>1 DEF Taken
    <3>2. (Load - 1) + Taken + 2 * Confirmed <= 2 + 2 * resent
          /\ (Load - 1) + (Taken + 1) + 2 * Confirmed <= 2 + 2 * resent
      BY <1>6 DEF Room
    <3> QED BY <1>1, <1>2, <1>6, <2>3, <3>1, <3>2 DEF Worth, Room
  <2>5. Accounted'
    BY <1>1, <1>2, <1>6, <2>1 DEF Accounted
  <2>6. (InOrder /\ RegistersStarted)'
    BY <2>1 DEF InOrder, RegistersStarted
  <2> QED BY <1>2, <2>2, <2>4, <2>5, <2>6 DEF AppInv
<1>11. CASE Head(to_module) = "SET_REGISTRATION_MODE_REQ"
  <2>1. protocol' = protocol /\ registration' = TRUE
        /\ ModuleSends("SET_REGISTRATION_MODE_CFM")
    BY <1>11 DEF ModuleTakes
  <2>2. protocol = TRUE
    BY <1>3, <1>4, <1>11, TailInOrder DEF AppInv, WireOK, InOrder
  <2> DEFINE f == InfoFrame(m_sent, "SET_REGISTRATION_MODE_CFM")
  <2>3. f \in Frames /\ f \in InformationFrames /\ f \notin Confirms
    BY <1>6, FrameMade
  <2>4. from_module' = Append(from_module, f) /\ m_sent' = m_sent + 1 /\ m_last' = f
    BY <2>1 DEF ModuleSends
  <2> HIDE DEF f
  <2>5. /\ from_module' \in Seq(Frames) /\ Confirmed' = Confirmed
        /\ Count(from_module', InformationFrames) =
              Count(from_module, InformationFrames) + 1
    BY <1>3, <1>6, <2>3, <2>4, Sends
  <2>6. WireOK'
    BY <1>1, <1>2, <1>3, <1>4, <1>6, <2>1, <2>3, <2>4, <2>5 DEF WireOK
  <2>7. Owed' = Owed /\ Load' = Load - 1
    <3>1. Asked = asked
      BY <1>6, <1>8, <1>11 DEF VersionRequest
    <3>2. owed = Owed /\ load = Load - 1
      BY <1>12, <3>1 DEF Owed, Load
    <3> QED BY <1>7, <3>2
  <2>8. Worth' /\ Room'
    <3>1. Taken' = Taken \/ Taken' = Taken + 1
      BY <2>1 DEF Taken
    <3>2. (Load - 1) + Taken + 2 * Confirmed <= 2 + 2 * resent
          /\ (Load - 1) + (Taken + 1) + 2 * Confirmed <= 2 + 2 * resent
      BY <1>6 DEF Room
    <3> QED BY <1>1, <1>2, <1>6, <2>5, <2>7, <3>1, <3>2 DEF Worth, Room
  <2>9. Accounted'
    <3>1. acked + (IF answering THEN 1 ELSE 0)
             + (Count(from_module, InformationFrames) + 1) = (m_sent + 1) + resent
      <4> DEFINE counted == Count(from_module, InformationFrames)
                 one == IF answering THEN 1 ELSE 0
      <4>1. /\ acked + one + counted = m_sent + resent /\ counted \in Nat
            /\ acked \in Nat /\ m_sent \in Nat /\ resent \in Nat /\ one \in Nat
        BY <1>6 DEF Accounted
      <4> HIDE DEF counted, one
      <4>2. acked + one + (counted + 1) = (m_sent + 1) + resent
        BY <4>1
      <4> QED BY <4>2 DEF counted, one
    <3> QED BY <1>1, <1>2, <2>4, <2>5, <3>1 DEF Accounted
  <2>10. (InOrder /\ RegistersStarted)'
    BY <2>1, <2>2 DEF InOrder, RegistersStarted
  <2> QED BY <1>2, <2>6, <2>8, <2>9, <2>10 DEF AppInv
<1> QED BY <1>9, <1>10, <1>11 DEF ModuleTakes

\* An indication is no confirm.
LEMMA ModuleIndicatesInv == ASSUME AppInv, ModuleIndicates PROVE AppInv'
<1>1. UNCHANGED <<program_vars, to_module, protocol, registration, resent>>
  BY DEF ModuleIndicates
<1>2. IInv' /\ UNCHANGED <<tx_fifo, tx_seq_l, answering, reset_ind, acked>>
  BY <1>1, ModuleLeaves
<1>3. WireOK /\ m_sent \in Nat /\ resent \in Nat /\ acked \in Nat
      /\ Confirmed \in Nat /\ Count(from_module, InformationFrames) \in Nat
  BY Counts DEF AppInv, WireOK
<1>4. PICK f \in Frames :
          /\ from_module' = Append(from_module, f) /\ f \notin Confirms
          /\ \/ f \in InformationFrames /\ m_sent' = m_sent + 1 /\ m_last' = f
             \/ f \notin InformationFrames /\ UNCHANGED <<m_sent, m_last>>
  <2>1. ASSUME NEW mail \in Indications, ModuleSends(mail)
        PROVE  LET f == InfoFrame(m_sent, mail)
               IN  /\ f \in Frames /\ f \in InformationFrames /\ f \notin Confirms
                   /\ from_module' = Append(from_module, f)
                   /\ m_sent' = m_sent + 1 /\ m_last' = f
    BY <1>3, <2>1, FrameMade DEF ModuleSends, Indications
  <2>2. ReceiverReady \in Frames /\ ReceiverReady \notin Confirms
        /\ ReceiverReady \notin InformationFrames
    BY DEF Frames, Confirms, InformationFrames, ReceiverReady
  <2> QED BY <2>1, <2>2 DEF ModuleIndicates
<1>5. /\ from_module' \in Seq(Frames) /\ Confirmed' = Confirmed
      /\ Count(from_module', InformationFrames) =
            Count(from_module, InformationFrames)
                + (IF f \in InformationFrames THEN 1 ELSE 0)
  BY <1>3, <1>4, Sends
<1>6. WireOK'
  BY <1>1, <1>2, <1>3, <1>4, <1>5 DEF WireOK
<1>7. /\ Pending' = Pending /\ Asked' = Asked /\ Taken' = Taken
      /\ Owed' = Owed /\ Load' = Load
  BY <1>1, <1>2 DEF Pending, Asked, Taken, Owed, Load
<1>8. (Worth /\ Room /\ RegistersStarted /\ InOrder)'
  BY <1>1, <1>2, <1>5, <1>7 DEF AppInv, Worth, Room, RegistersStarted, InOrder
<1>9. Accounted'
  <2>1. Accounted
    BY DEF AppInv
  <2>2. CASE f \in InformationFrames
    <3>1. acked + (IF answering THEN 1 ELSE 0)
             + (Count(from_module, InformationFrames) + 1) = (m_sent + 1) + resent
      BY <1>3, <2>1 DEF Accounted
    <3> QED BY <1>1, <1>2, <1>4, <1>5, <2>2, <3>1 DEF Accounted
  <2>3. CASE f \notin InformationFrames
    BY <1>1, <1>2, <1>3, <1>4, <1>5, <2>1, <2>3 DEF Accounted
  <2> QED BY <2>2, <2>3
<1> QED BY <1>2, <1>6, <1>8, <1>9 DEF AppInv

\* A frame sent again may be a confirm, and is worth one.
LEMMA ModuleResendsInv == ASSUME AppInv, ModuleResends PROVE AppInv'
<1>1. /\ UNCHANGED <<program_vars, to_module, protocol, registration, m_sent, m_last>>
      /\ from_module' = Append(from_module, m_last) /\ resent' = resent + 1
  BY DEF ModuleResends
<1>2. IInv' /\ UNCHANGED <<tx_fifo, tx_seq_l, answering, reset_ind, acked>>
  BY <1>1, ModuleLeaves
<1>3. /\ WireOK /\ m_sent \in Nat /\ resent \in Nat /\ acked \in Nat
      /\ Confirmed \in Nat /\ Count(from_module, InformationFrames) \in Nat
      /\ Owed \in Nat /\ Load \in Nat /\ Taken \in Nat /\ tx_seq_l \in Nat
      /\ m_last \in InformationFrames /\ m_last \in Frames
  <2>1. WireOK /\ tx_seq_l \in Nat
    BY DEF AppInv, IInv, TypeOK
  <2>2. /\ m_sent \in Nat /\ resent \in Nat /\ acked \in Nat
        /\ m_last \in InformationFrames
    BY <2>1 DEF WireOK
  <2>3. /\ Confirmed \in Nat /\ Count(from_module, InformationFrames) \in Nat
        /\ Owed \in Nat /\ Load \in Nat /\ Taken \in Nat
    BY <2>1, Counts
  <2> QED BY <2>1, <2>2, <2>3 DEF Frames
<1>4. /\ from_module' \in Seq(Frames)
      /\ Confirmed' = Confirmed \/ Confirmed' = Confirmed + 1
      /\ Count(from_module', InformationFrames) =
            Count(from_module, InformationFrames) + 1
  BY <1>1, <1>3, Sends
<1>5. WireOK'
  BY <1>1, <1>2, <1>3, <1>4 DEF WireOK
<1>6. /\ Pending' = Pending /\ Asked' = Asked /\ Taken' = Taken
      /\ Owed' = Owed /\ Load' = Load
  BY <1>1, <1>2 DEF Pending, Asked, Taken, Owed, Load
<1>7. ASSUME NEW c \in {Confirmed, Confirmed + 1}
      PROVE  /\ tx_seq_l + Owed + 2 * c <= 3 + 2 * (resent + 1)
             /\ Load + Taken + 2 * c <= 2 + 2 * (resent + 1)
  BY <1>3 DEF AppInv, Worth, Room
<1>8. Worth' /\ Room'
  BY <1>1, <1>2, <1>4, <1>6, <1>7 DEF Worth, Room
<1>9. Accounted'
  <2>1. acked + (IF answering THEN 1 ELSE 0)
           + (Count(from_module, InformationFrames) + 1) = m_sent + (resent + 1)
    BY <1>3 DEF AppInv, Accounted
  <2> QED BY <1>1, <1>2, <1>4, <2>1 DEF Accounted
<1>10. (RegistersStarted /\ InOrder)'
  BY <1>1, <1>6 DEF AppInv, RegistersStarted, InOrder
<1> QED BY <1>2, <1>5, <1>8, <1>9, <1>10 DEF AppInv
-----------------------------------------------------------------------------
\* The invariant holds in every state of every behaviour.
THEOREM AppInvariance == AppSpec => []AppInv
<1>1. AppInv /\ [AppNext]_vars => AppInv'
  <2> SUFFICES ASSUME AppInv, [AppNext]_vars PROVE AppInv'
    OBVIOUS
  <2>1. CASE UNCHANGED vars
    <3>1. UNCHANGED <<program_vars, to_module, from_module, protocol, registration,
                      m_sent, m_last, resent>>
      BY <2>1 DEF vars, module_vars, bounds
    <3>2. IInv' /\ UNCHANGED <<tx_fifo, tx_seq_l, answering, reset_ind, acked>>
      BY <3>1, ModuleLeaves
    <3>3. (WireOK /\ RegistersStarted /\ Accounted)'
      BY <3>1, <3>2 DEF AppInv, WireOK, RegistersStarted, Accounted
    <3>4. (InOrder /\ Worth /\ Room)'
      BY <3>1, <3>2
      DEF AppInv, InOrder, Worth, Room, Owed, Load, Pending, Asked, Confirmed, Taken
    <3> QED BY <3>2, <3>3, <3>4 DEF AppInv
  <2> QED BY <2>1, ReceiveInv, SendInv, AnsweredInv, ModuleTakesInv,
             ModuleIndicatesInv, ModuleResendsInv DEF AppNext, Program
<1> QED BY <1>1, InitInv, PTL DEF AppSpec

\* The module is opened for registration only when its protocol runs, for any
\* number of indications and of frames sent again.
THEOREM RegistrationAfterStart == AppSpec => []RegistersStarted
<1>1. AppInv => RegistersStarted
  BY DEF AppInv
<1> QED BY <1>1, AppInvariance, PTL

\* The start-up sequence runs once, and once more for each confirm sent again:
\* what is queued, on its way and taken, and what was sent at all, stay below the
\* worth of the announcement and of the frames sent again.
THEOREM StartUpOnce == AppSpec => []StartsOnce
<1>1. AppInv => StartsOnce
  <2> SUFFICES ASSUME AppInv PROVE StartsOnce
    OBVIOUS
  <2>1. WireOK
    BY DEF AppInv
  <2>2. /\ Owed \in Nat /\ Load \in Nat /\ Confirmed \in Nat /\ Asked \in Nat
        /\ Taken \in Nat /\ resent \in Nat /\ tx_seq_l \in Nat
        /\ Len(Pending) = Len(to_module) + Len(tx_fifo)
        /\ Len(to_module) \in Nat /\ Len(tx_fifo) \in Nat /\ reset_ind \in {0, 1}
    <3>1. /\ Owed \in Nat /\ Load \in Nat /\ Confirmed \in Nat /\ Asked \in Nat
          /\ Taken \in Nat /\ Len(Pending) = Len(to_module) + Len(tx_fifo)
      BY <2>1, Counts
    <3>2. /\ resent \in Nat /\ reset_ind \in {0, 1}
          /\ to_module \in Seq(Requests) /\ tx_fifo \in Seq(Requests)
      BY <2>1 DEF WireOK
    <3>3. tx_seq_l \in Nat
      BY DEF AppInv, IInv, TypeOK
    <3> QED BY <3>1, <3>2, <3>3
  <2>3. tx_seq_l <= 3 + 2 * resent
    BY <2>2 DEF AppInv, Worth
  <2>4. Len(tx_fifo) + Len(to_module) <= Load
    BY <2>2 DEF Load
  <2>5. Len(tx_fifo) + Len(to_module) + Taken <= 2 + 2 * resent
    BY <2>2, <2>4 DEF AppInv, Room
  <2> QED BY <2>3, <2>5 DEF StartsOnce, Taken
<1> QED BY <1>1, AppInvariance, PTL

\* No information frame of the module is lost by the program: the safety half of
\* AllAnswered.
THEOREM EveryFrameAccounted == AppSpec => []Accounted
<1>1. AppInv => Accounted
  BY DEF AppInv
<1> QED BY <1>1, AppInvariance, PTL

\* In the app mode, too, each frame is answered by its packets or by one ack.
THEOREM AppAnswersOnce == AppSpec => []AnsweredOnce
<1>1. AppInv => AnsweredOnce
  BY DEF AppInv, IInv
<1> QED BY <1>1, AppInvariance, PTL
=============================================================================
