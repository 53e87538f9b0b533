------------------------------- MODULE NvsProofs ------------------------------
(***************************************************************************)
(* The nvs mode exits only with the identity in the module's storage, or   *)
(* with the defaults when the module refused the identity, and goes in     *)
(* lockstep with the module, for any number of restarts, of refusals, of   *)
(* other frames and of frames sent again.  With at most one of the last    *)
(* every packet it sends is an information frame.                          *)
(*                                                                         *)
(* The sequence has four rounds of a request and its confirm.  The confirms*)
(* on their way to the program, the module and the requests on their way   *)
(* to it form a ring: the program takes a confirm at one end and enqueues  *)
(* the request of the next round at the other.  Whatever is lost or sent   *)
(* again, what comes later in the ring is of the same round as what comes  *)
(* before it, or of the next (InRing).  So at the last confirm no defaults *)
(* can be left on their way, although a confirm sent again or a restart    *)
(* may have two sequences under way.                                       *)
(***************************************************************************)
EXTENDS Nvs, BusmailProofs

\* Requests not yet taken by the module, oldest first.
Pending == to_module \o tx_fifo

\* The frames of the module.
Mails == {"RESET_IND", "FW_VERSION_CFM", "NVS_DEFAULT_OK", "NVS_DEFAULT_PENDING",
          "NVS_DEFAULT_FAIL", "GET_NVS_CFM", "SCL_STATUS_IND"} \cup SetNvsConfirms
InformationFrames == [header : 0 .. 112, program_id : {API_PROG_ID}, mail : Mails]
Frames == InformationFrames \cup {ForeignFrame, SambFrame}
Finals == {f \in Frames : IsFinalConfirm(f)}

\* The frame that is taken next.
Frame == Head(from_module)

WireOK == /\ to_module \in Seq(Requests) /\ tx_fifo \in Seq(Requests)
          /\ from_module \in Seq(Frames)
          /\ m_last \in InformationFrames
          /\ m_seq \in 0 .. 7
          /\ resent \in Nat
          /\ reset_ind \in {0, 1}
          /\ erasing \in BOOLEAN
          /\ exited \in BOOLEAN

\* What is outstanding, the announcement included.
Outstanding == (1 - reset_ind) + Len(Pending) + (IF erasing THEN 1 ELSE 0)
                   + Count(from_module, Finals)

\* The round of a request, and of a confirm that ends one: none for other frames.
RequestRound(r) == IF r = "GET_FW_VERSION_REQ" THEN {0}
                   ELSE IF r = "NVS_DEFAULT" THEN {1}
                   ELSE IF r = "SET_NVS" THEN {2} ELSE {3}
ConfirmRound(f) == IF f.mail = "FW_VERSION_CFM" THEN {0}
                   ELSE IF f.mail = "NVS_DEFAULT_OK" THEN {1}
                   ELSE IF f.mail \in SetNvsConfirms THEN {2}
                   ELSE IF f.mail = "GET_NVS_CFM" THEN {3} ELSE {}
ErasingRound == IF erasing THEN {1} ELSE {}

\* What comes later in the ring is of the same round, or of the next.
Apart(earlier, later) == \A r \in earlier, s \in later : s \in {r, r + 1}

FramesOrdered(frames) ==
    \A i, j \in 1 .. Len(frames) :
        i < j => Apart(ConfirmRound(frames[i]), ConfirmRound(frames[j]))
RequestsOrdered(requests) ==
    \A i, j \in 1 .. Len(requests) :
        i < j => Apart(RequestRound(requests[i]), RequestRound(requests[j]))
FramesBefore(frames, requests) ==
    \A i \in 1 .. Len(frames), j \in 1 .. Len(requests) :
        Apart(ConfirmRound(frames[i]), RequestRound(requests[j]))
Ordered(frames, requests) ==
    FramesOrdered(frames) /\ RequestsOrdered(requests) /\ FramesBefore(frames, requests)

\* Something of this round at the module is between the frames and the requests.
Fits(frames, requests, round) ==
    /\ \A i \in 1 .. Len(frames) : Apart(ConfirmRound(frames[i]), round)
    /\ \A j \in 1 .. Len(requests) : Apart(round, RequestRound(requests[j]))

InRing == /\ Ordered(from_module, Pending)
          /\ Fits(from_module, Pending, ConfirmRound(m_last))
          /\ Fits(from_module, Pending, ErasingRound)
          /\ erasing => ConfirmRound(m_last) = {}

\* Before the announcement is seen there is no sequence.
Fresh == reset_ind = 0 =>
             /\ Pending = << >> /\ ~erasing /\ ConfirmRound(m_last) = {}
             /\ \A i \in 1 .. Len(from_module) : ConfirmRound(from_module[i]) = {}

\* A round is done when its confirm, or something of a later round, is in the ring.
AtLeast(round, rounds) == \E r \in rounds : r >= round
Done(round, frames, requests, last) ==
    \/ \E i \in 1 .. Len(frames) : AtLeast(round, ConfirmRound(frames[i]))
    \/ \E j \in 1 .. Len(requests) : AtLeast(round + 1, RequestRound(requests[j]))
    \/ AtLeast(round, ConfirmRound(last))

\* What the round of the defaults leaves, and what the round of the identity leaves.
Stored(round) == IF round = 1 THEN storage # "old" ELSE storage = "set" \/ refused

Written == /\ storage \in {"old", "default", "set"}
           /\ \A round \in {1, 2} :
                 Done(round, from_module, Pending, m_last) => Stored(round)

\* After the exit only requests to read the storage are on their way.
Exited == exited => /\ Stored(1) /\ Stored(2) /\ ~erasing
                    /\ \A j \in 1 .. Len(Pending) : Pending[j] = "GET_NVS"
                    /\ resent = 0 => to_module = << >>

NvsInv == /\ IInv
          /\ WireOK
          /\ Outstanding <= 1 + resent
          /\ InRing
          /\ Fresh
          /\ Written
          /\ Exited
-----------------------------------------------------------------------------
(* The ring.                                                               *)

\* Rounds are sets of at most one number.
LEMMA Rounds ==
  /\ \A r : RequestRound(r) \in {{0}, {1}, {2}, {3}}
  /\ \A f : ConfirmRound(f) \in {{}, {0}, {1}, {2}, {3}}
BY DEF RequestRound, ConfirmRound

\* What follows round r in the ring comes before round r + 1.
LEMMA ApartNext ==
  ASSUME NEW r \in 0 .. 2, NEW round, Apart({r}, round)
  PROVE  Apart(round, {r + 1})
BY DEF Apart

\* The program takes a frame.
LEMMA FrameTaken ==
  ASSUME NEW fs \in Seq(Frames), NEW ps \in Seq(Requests), fs # << >>, Ordered(fs, ps)
  PROVE  /\ Ordered(Tail(fs), ps)
         /\ \A i \in 1 .. Len(Tail(fs)) :
               Apart(ConfirmRound(Head(fs)), ConfirmRound(Tail(fs)[i]))
         /\ \A j \in 1 .. Len(ps) :
               Apart(ConfirmRound(Head(fs)), RequestRound(ps[j]))
         /\ \A round : Fits(fs, ps, round) =>
               Fits(Tail(fs), ps, round) /\ Apart(ConfirmRound(Head(fs)), round)
<1>1. /\ Len(fs) \in Nat \ {0} /\ Len(Tail(fs)) = Len(fs) - 1 /\ Head(fs) = fs[1]
      /\ \A i \in 1 .. Len(fs) - 1 :
            i + 1 \in 1 .. Len(fs) /\ 1 < i + 1 /\ Tail(fs)[i] = fs[i + 1]
      /\ 1 \in 1 .. Len(fs)
  BY EmptySeq, HeadTailProperties
<1>2. FramesOrdered(Tail(fs))
  BY <1>1 DEF Ordered, FramesOrdered
<1>3. FramesBefore(Tail(fs), ps)
  BY <1>1 DEF Ordered, FramesBefore
<1>4. ASSUME NEW i \in 1 .. Len(Tail(fs))
      PROVE  Apart(ConfirmRound(Head(fs)), ConfirmRound(Tail(fs)[i]))
  BY <1>1, <1>4 DEF Ordered, FramesOrdered
<1>5. ASSUME NEW j \in 1 .. Len(ps)
      PROVE  Apart(ConfirmRound(Head(fs)), RequestRound(ps[j]))
  BY <1>1, <1>5 DEF Ordered, FramesBefore
<1>6. ASSUME NEW round, Fits(fs, ps, round)
      PROVE  Fits(Tail(fs), ps, round) /\ Apart(ConfirmRound(Head(fs)), round)
  BY <1>1, <1>6 DEF Fits
<1> QED BY <1>2, <1>3, <1>4, <1>5, <1>6 DEF Ordered

\* The program takes a frame and enqueues the request of the next round.
LEMMA NextRound ==
  ASSUME NEW fs \in Seq(Frames), NEW ps \in Seq(Requests), fs # << >>, Ordered(fs, ps),
         NEW q \in Requests, NEW r \in 0 .. 2,
         ConfirmRound(Head(fs)) = {r}, RequestRound(q) = {r + 1}
  PROVE  /\ Ordered(Tail(fs), Append(ps, q))
         /\ \A round : Fits(fs, ps, round) => Fits(Tail(fs), Append(ps, q), round)
<1> DEFINE longer == Append(ps, q)
<1>1. /\ Len(ps) \in Nat /\ Len(longer) = Len(ps) + 1 /\ longer[Len(ps) + 1] = q
      /\ \A i \in 1 .. Len(ps) : longer[i] = ps[i]
  OBVIOUS
<1>2. \A j \in 1 .. Len(longer) : j \in 1 .. Len(ps) \/ longer[j] = q
  BY <1>1
<1>3. \A i, j \in 1 .. Len(longer) : i < j => i \in 1 .. Len(ps)
  BY <1>1
<1> HIDE DEF longer
<1>4. ASSUME NEW i \in 1 .. Len(Tail(fs))
      PROVE  Apart(ConfirmRound(Tail(fs)[i]), {r + 1})
  <2>1. Apart({r}, ConfirmRound(Tail(fs)[i]))
    BY FrameTaken
  <2> QED BY <2>1, ApartNext
<1>5. ASSUME NEW j \in 1 .. Len(ps)
      PROVE  Apart(RequestRound(ps[j]), {r + 1})
  <2>1. Apart({r}, RequestRound(ps[j]))
    BY FrameTaken
  <2> QED BY <2>1, ApartNext
<1>6. FramesOrdered(Tail(fs)) /\ FramesBefore(Tail(fs), ps)
  BY FrameTaken DEF Ordered
<1>7. FramesBefore(Tail(fs), longer)
  BY <1>1, <1>2, <1>4, <1>6 DEF FramesBefore
<1>8. RequestsOrdered(longer)
  <2> SUFFICES ASSUME NEW i \in 1 .. Len(longer), NEW j \in 1 .. Len(longer), i < j
               PROVE  Apart(RequestRound(longer[i]), RequestRound(longer[j]))
    BY DEF RequestsOrdered
  <2>1. i \in 1 .. Len(ps) /\ longer[i] = ps[i]
    BY <1>1, <1>3
  <2>2. CASE j \in 1 .. Len(ps)
    BY <1>1, <2>1, <2>2 DEF Ordered, RequestsOrdered
  <2>3. CASE longer[j] = q
    BY <1>5, <2>1, <2>3
  <2> QED BY <1>2, <2>2, <2>3
<1>9. ASSUME NEW round, Fits(fs, ps, round) PROVE Fits(Tail(fs), longer, round)
  <2>1. Fits(Tail(fs), ps, round) /\ Apart({r}, round)
    BY <1>9, FrameTaken
  <2>2. Apart(round, {r + 1})
    BY <2>1, ApartNext
  <2> QED BY <1>1, <1>2, <2>1, <2>2 DEF Fits
<1> QED BY <1>6, <1>7, <1>8, <1>9 DEF longer, Ordered

\* The module takes a request: its round is then at the module.
LEMMA RequestTaken ==
  ASSUME NEW fs \in Seq(Frames), NEW ps \in Seq(Requests), ps # << >>, Ordered(fs, ps)
  PROVE  /\ Ordered(fs, Tail(ps))
         /\ Fits(fs, Tail(ps), RequestRound(Head(ps)))
         /\ \A round : Fits(fs, ps, round) =>
               Fits(fs, Tail(ps), round) /\ Apart(round, RequestRound(Head(ps)))
<1>1. /\ Len(ps) \in Nat \ {0} /\ Len(Tail(ps)) = Len(ps) - 1 /\ Head(ps) = ps[1]
      /\ \A i \in 1 .. Len(ps) - 1 :
            i + 1 \in 1 .. Len(ps) /\ 1 < i + 1 /\ Tail(ps)[i] = ps[i + 1]
      /\ 1 \in 1 .. Len(ps)
  BY EmptySeq, HeadTailProperties
<1>2. RequestsOrdered(Tail(ps))
  BY <1>1 DEF Ordered, RequestsOrdered
<1>3. FramesBefore(fs, Tail(ps))
  BY <1>1 DEF Ordered, FramesBefore
<1>4. ASSUME NEW j \in 1 .. Len(Tail(ps))
      PROVE  Apart(RequestRound(Head(ps)), RequestRound(Tail(ps)[j]))
  BY <1>1, <1>4 DEF Ordered, RequestsOrdered
<1>5. ASSUME NEW i \in 1 .. Len(fs)
      PROVE  Apart(ConfirmRound(fs[i]), RequestRound(Head(ps)))
  BY <1>1, <1>5 DEF Ordered, FramesBefore
<1>6. ASSUME NEW round, Fits(fs, ps, round)
      PROVE  Fits(fs, Tail(ps), round) /\ Apart(round, RequestRound(Head(ps)))
  BY <1>1, <1>6 DEF Fits
<1> QED BY <1>2, <1>3, <1>4, <1>5, <1>6 DEF Ordered, Fits

\* The module sends a frame of a round that is at the module.
LEMMA FrameSent ==
  ASSUME NEW fs \in Seq(Frames), NEW ps \in Seq(Requests), NEW f \in Frames,
         Ordered(fs, ps), Fits(fs, ps, ConfirmRound(f))
  PROVE  /\ Ordered(Append(fs, f), ps)
         /\ \A round : Fits(fs, ps, round) /\ Apart(ConfirmRound(f), round) =>
               Fits(Append(fs, f), ps, round)
<1> DEFINE longer == Append(fs, f)
<1>1. /\ Len(fs) \in Nat /\ Len(longer) = Len(fs) + 1 /\ longer[Len(fs) + 1] = f
      /\ \A i \in 1 .. Len(fs) : longer[i] = fs[i]
  OBVIOUS
<1>2. \A j \in 1 .. Len(longer) : j \in 1 .. Len(fs) \/ longer[j] = f
  BY <1>1
<1>3. \A i, j \in 1 .. Len(longer) : i < j => i \in 1 .. Len(fs)
  BY <1>1
<1> HIDE DEF longer
<1>4. FramesOrdered(longer)
  BY <1>1, <1>2, <1>3 DEF Ordered, FramesOrdered, Fits
<1>5. FramesBefore(longer, ps)
  BY <1>1, <1>2 DEF Ordered, FramesBefore, Fits
<1>6. ASSUME NEW round, Fits(fs, ps, round), Apart(ConfirmRound(f), round)
      PROVE  Fits(longer, ps, round)
  BY <1>1, <1>2, <1>6 DEF Fits
<1> QED BY <1>4, <1>5, <1>6 DEF longer, Ordered

\* Nothing is nowhere.
LEMMA NothingFits ==
  ASSUME NEW fs, NEW ps
  PROVE  Fits(fs, ps, {})
BY DEF Fits, Apart

\* An empty ring is in order, whatever frames of no round are on their way.
LEMMA EmptyRing ==
  ASSUME NEW fs, \A i \in 1 .. Len(fs) : ConfirmRound(fs[i]) = {},
         NEW ps, ps = << >> \/ \E q : ps = <<q>>
  PROVE  Ordered(fs, ps)
<1>1. Len(ps) \in {0, 1}
  OBVIOUS
<1>2. \A later : Apart({}, later)
  BY DEF Apart
<1>3. FramesOrdered(fs) /\ FramesBefore(fs, ps)
  BY <1>2 DEF FramesOrdered, FramesBefore
<1>4. RequestsOrdered(ps)
  BY <1>1 DEF RequestsOrdered
<1> QED BY <1>3, <1>4 DEF Ordered
-----------------------------------------------------------------------------
(* The frames.                                                             *)

\* Every frame of the module that is an information frame is well-formed.
LEMMA FrameMade ==
  ASSUME NEW seq \in 0 .. 7, NEW mail \in Mails
  PROVE  /\ InfoFrame(seq, mail) \in InformationFrames
         /\ InfoFrame(seq, mail) \in Frames
         /\ InfoFrame(seq, mail).mail = mail
<1>1. seq * 16 \in 0 .. 112
  BY SMT
<1> QED BY <1>1 DEF InfoFrame, InformationFrames, Frames

\* A frame ends a round if and only if it is a final confirm.
LEMMA FinalHasRound ==
  ASSUME NEW f \in Frames
  PROVE  f \in Finals <=> ConfirmRound(f) # {}
BY DEF Finals, IsFinalConfirm, ConfirmRound, SetNvsConfirms

\* The frames of the announcement end no round.
LEMMA AnnouncementFrames ==
  /\ SambFrame \in Frames /\ ConfirmRound(SambFrame) = {}
  /\ InfoFrame(0, "RESET_IND") \in InformationFrames
  /\ InfoFrame(0, "RESET_IND") \in Frames
  /\ ConfirmRound(InfoFrame(0, "RESET_IND")) = {}
<1>1. SambFrame \in Frames /\ ConfirmRound(SambFrame) = {}
  BY DEF SambFrame, Frames, ConfirmRound, SetNvsConfirms
<1>2. "RESET_IND" \in Mails
  BY DEF Mails
<1> QED BY <1>1, <1>2, FrameMade DEF ConfirmRound, SetNvsConfirms

\* A received frame that ends a round is an information frame; the program enqueues
\* the request of the next round for it.
LEMMA Enqueued ==
  ASSUME NEW f \in Frames, reset_ind \in {0, 1}, f.mail # "GET_NVS_CFM"
  PROVE  LET queue == application_frame(f.mail)
         IN  \/ /\ f.mail = "RESET_IND" /\ reset_ind = 0
                /\ f \in InformationFrames
                /\ queue = <<"GET_FW_VERSION_REQ">> /\ f \notin Finals
             \/ /\ f \in Finals /\ f \in InformationFrames /\ f.mail # "RESET_IND"
                /\ \E r \in 0 .. 2, q \in Requests :
                      /\ queue = <<q>>
                      /\ ConfirmRound(f) = {r} /\ RequestRound(q) = {r + 1}
             \/ /\ f \notin Finals /\ queue = << >>
                /\ ~(f.mail = "RESET_IND" /\ reset_ind = 0)
<1>1. CASE f.mail = "RESET_IND" /\ reset_ind = 0
  <2>1. f \in InformationFrames
    BY <1>1 DEF Frames, SambFrame, ForeignFrame
  <2> QED BY <1>1, <2>1 DEF application_frame, Finals, IsFinalConfirm, SetNvsConfirms
<1>2. CASE f.mail \in {"FW_VERSION_CFM", "NVS_DEFAULT_OK"} \cup SetNvsConfirms
  <2>1. f \in InformationFrames /\ f \in Finals
    BY <1>2 DEF Frames, SambFrame, ForeignFrame, Finals, IsFinalConfirm, SetNvsConfirms
  <2>2. CASE f.mail = "FW_VERSION_CFM"
    <3>1. application_frame(f.mail) = <<"NVS_DEFAULT">>
      BY <2>2 DEF application_frame
    <3>2. ConfirmRound(f) = {0} /\ RequestRound("NVS_DEFAULT") = {0 + 1}
          /\ "NVS_DEFAULT" \in Requests
      BY <2>2 DEF ConfirmRound, RequestRound, Requests
    <3> QED BY <2>1, <2>2, <3>1, <3>2
  <2>3. CASE f.mail = "NVS_DEFAULT_OK"
    <3>1. application_frame(f.mail) = <<"SET_NVS">>
      BY <2>3 DEF application_frame, rtx_eap_hw_test_cfm
    <3>2. ConfirmRound(f) = {1} /\ RequestRound("SET_NVS") = {1 + 1}
          /\ "SET_NVS" \in Requests
      BY <2>3 DEF ConfirmRound, RequestRound, Requests
    <3> QED BY <2>1, <2>3, <3>1, <3>2
  <2>4. CASE f.mail \in SetNvsConfirms
    <3>1. application_frame(f.mail) = <<"GET_NVS">>
      BY <2>4 DEF application_frame, rtx_eap_hw_test_cfm, SetNvsConfirms
    <3>2. ConfirmRound(f) = {2} /\ RequestRound("GET_NVS") = {2 + 1}
          /\ "GET_NVS" \in Requests
      BY <2>4 DEF ConfirmRound, RequestRound, Requests, SetNvsConfirms
    <3>3. f.mail # "RESET_IND"
      BY <2>4 DEF SetNvsConfirms
    <3> QED BY <2>1, <3>1, <3>2, <3>3
  <2> QED BY <1>2, <2>2, <2>3, <2>4
<1>3. CASE /\ ~(f.mail = "RESET_IND" /\ reset_ind = 0)
           /\ f.mail \notin {"FW_VERSION_CFM", "NVS_DEFAULT_OK"} \cup SetNvsConfirms
  BY <1>3 DEF application_frame, rtx_eap_hw_test_cfm, Finals, IsFinalConfirm
<1> QED BY <1>1, <1>2, <1>3
-----------------------------------------------------------------------------
(* When the storage must be written.                                       *)

\* Taking a frame demands nothing new.
LEMMA DoneTaken ==
  ASSUME NEW fs \in Seq(Frames), fs # << >>, NEW ps, NEW last,
         NEW round \in {1, 2}, Done(round, Tail(fs), ps, last)
  PROVE  Done(round, fs, ps, last)
<1>1. /\ Len(fs) \in Nat \ {0} /\ Len(Tail(fs)) = Len(fs) - 1
      /\ \A i \in 1 .. Len(fs) - 1 : i + 1 \in 1 .. Len(fs) /\ Tail(fs)[i] = fs[i + 1]
  BY EmptySeq, HeadTailProperties
<1> QED BY <1>1 DEF Done

\* Nor does the request that it causes.
LEMMA DoneNext ==
  ASSUME NEW fs \in Seq(Frames), fs # << >>, NEW ps \in Seq(Requests), NEW last,
         NEW q \in Requests, NEW r \in 0 .. 2,
         ConfirmRound(Head(fs)) = {r}, RequestRound(q) = {r + 1},
         NEW round \in {1, 2}, Done(round, Tail(fs), Append(ps, q), last)
  PROVE  Done(round, fs, ps, last)
<1>1. CASE r >= round
  <2>1. Len(fs) \in Nat \ {0} /\ Head(fs) = fs[1] /\ 1 \in 1 .. Len(fs)
    BY EmptySeq, HeadTailProperties
  <2>2. AtLeast(round, ConfirmRound(fs[1]))
    BY <1>1, <2>1 DEF AtLeast
  <2> QED BY <2>1, <2>2 DEF Done
<1>2. CASE ~(r >= round)
  <2>1. ~AtLeast(round + 1, RequestRound(q))
    BY <1>2 DEF AtLeast
  <2>2. \A j \in 1 .. Len(Append(ps, q)) :
            \/ j \in 1 .. Len(ps) /\ Append(ps, q)[j] = ps[j]
            \/ Append(ps, q)[j] = q
    OBVIOUS
  <2>3. Done(round, Tail(fs), ps, last)
    BY <2>1, <2>2 DEF Done
  <2> QED BY <2>3, DoneTaken
<1> QED BY <1>1, <1>2

\* A frame sent demands no more than its own round, also when it becomes the last.
LEMMA DoneSent ==
  ASSUME NEW fs \in Seq(Frames), NEW f \in Frames, NEW ps, NEW last, NEW later,
         later = last \/ later = f,
         NEW round \in {1, 2}, Done(round, Append(fs, f), ps, later)
  PROVE  Done(round, fs, ps, last) \/ AtLeast(round, ConfirmRound(f))
<1>1. \A i \in 1 .. Len(Append(fs, f)) :
          \/ i \in 1 .. Len(fs) /\ Append(fs, f)[i] = fs[i]
          \/ Append(fs, f)[i] = f
  OBVIOUS
<1> QED BY <1>1 DEF Done

\* A request taken demands nothing, and is there because the round before it is done.
LEMMA DoneRequest ==
  ASSUME NEW fs, NEW ps \in Seq(Requests), ps # << >>, NEW last, NEW round \in {1, 2}
  PROVE  /\ Done(round, fs, Tail(ps), last) => Done(round, fs, ps, last)
         /\ Head(ps) = "GET_NVS" => Done(round, fs, ps, last)
         /\ Head(ps) = "SET_NVS" => Done(1, fs, ps, last)
<1>1. /\ Len(ps) \in Nat \ {0} /\ Len(Tail(ps)) = Len(ps) - 1 /\ Head(ps) = ps[1]
      /\ \A i \in 1 .. Len(ps) - 1 : i + 1 \in 1 .. Len(ps) /\ Tail(ps)[i] = ps[i + 1]
      /\ 1 \in 1 .. Len(ps)
  BY EmptySeq, HeadTailProperties
<1>2. Done(round, fs, Tail(ps), last) => Done(round, fs, ps, last)
  BY <1>1 DEF Done
<1>3. /\ AtLeast(round + 1, RequestRound("GET_NVS"))
      /\ AtLeast(1 + 1, RequestRound("SET_NVS"))
  BY DEF RequestRound, AtLeast
<1> QED BY <1>1, <1>2, <1>3 DEF Done

\* As long as the defaults are at the module, the round of the identity is not done.
LEMMA NotDoneYet ==
  ASSUME NEW fs, NEW ps, NEW last, Fits(fs, ps, {1}), ~AtLeast(2, ConfirmRound(last))
  PROVE  ~Done(2, fs, ps, last)
<1>1. ASSUME NEW i \in 1 .. Len(fs) PROVE ~AtLeast(2, ConfirmRound(fs[i]))
  <2>1. Apart(ConfirmRound(fs[i]), {1})
    BY DEF Fits
  <2>2. ConfirmRound(fs[i]) \in {{}, {0}, {1}, {2}, {3}}
    BY Rounds
  <2> QED BY <2>1, <2>2 DEF Apart, AtLeast
<1>2. ASSUME NEW j \in 1 .. Len(ps) PROVE ~AtLeast(3, RequestRound(ps[j]))
  <2>1. Apart({1}, RequestRound(ps[j]))
    BY DEF Fits
  <2> QED BY <2>1 DEF Apart, AtLeast
<1> QED BY <1>1, <1>2 DEF Done
-----------------------------------------------------------------------------
(* The steps of the program.                                               *)

\* Only the announcement is on its way at first.
LEMMA InitInv == NvsInit => NvsInv
<1> SUFFICES ASSUME NvsInit PROVE NvsInv
  OBVIOUS
<1> DEFINE first == InfoFrame(0, "RESET_IND")
<1>1. IInv
  BY InitInvariant DEF NvsInit
<1>2. /\ to_module = << >> /\ tx_fifo = << >>
      /\ from_module = <<SambFrame, first>> /\ m_last = first /\ m_seq = 1
      /\ reset_ind = 0 /\ resent = 0 /\ erasing = FALSE /\ exited = FALSE
  BY DEF NvsInit, Init, Announcement
<1>3. /\ first \in InformationFrames /\ first \in Frames /\ ConfirmRound(first) = {}
      /\ SambFrame \in Frames /\ ConfirmRound(SambFrame) = {}
  BY AnnouncementFrames
<1> HIDE DEF first
<1>4. WireOK
  <2>1. from_module \in Seq(Frames) /\ m_last \in InformationFrames
    BY <1>2, <1>3
  <2>2. to_module \in Seq(Requests) /\ tx_fifo \in Seq(Requests)
    BY <1>2
  <2>3. m_seq \in 0 .. 7 /\ resent \in Nat /\ reset_ind \in {0, 1}
    BY <1>2
  <2>4. erasing \in BOOLEAN /\ exited \in BOOLEAN
    BY <1>2
  <2> QED BY <2>1, <2>2, <2>3, <2>4 DEF WireOK
<1>5. Pending = << >>
  BY <1>2 DEF Pending
<1>6. \A i \in 1 .. Len(from_module) : ConfirmRound(from_module[i]) = {}
  BY <1>2, <1>3
<1>7. Count(from_module, Finals) = 0
  <2>1. \A i \in 1 .. Len(from_module) : from_module[i] \notin Finals
    BY <1>2, <1>3, FinalHasRound
  <2> QED BY <1>4, <2>1, CountZero DEF WireOK
<1>8. Outstanding <= 1 + resent
  BY <1>2, <1>5, <1>7 DEF Outstanding
<1>9. InRing
  BY <1>2, <1>3, <1>5, <1>6, EmptyRing, NothingFits DEF InRing, ErasingRound
<1>10. Fresh
  BY <1>2, <1>3, <1>5, <1>6 DEF Fresh
<1>11. Written
  <2>1. storage = "old" /\ ~AtLeast(1, {}) /\ ~AtLeast(2, {})
    BY DEF NvsInit, AtLeast
  <2>2. ASSUME NEW round \in {1, 2} PROVE ~Done(round, from_module, Pending, m_last)
    <3>1. ~AtLeast(round, {})
      BY <2>1
    <3>2. Len(Pending) = 0 /\ ConfirmRound(m_last) = {}
      BY <1>2, <1>3, <1>5
    <3>3. ASSUME NEW i \in 1 .. Len(from_module)
          PROVE  ~AtLeast(round, ConfirmRound(from_module[i]))
      <4>1. ConfirmRound(from_module[i]) = {}
        BY <1>6
      <4> QED BY <3>1, <4>1
    <3>4. ~AtLeast(round, ConfirmRound(m_last))
      BY <3>1, <3>2
    <3>5. ~(\E j \in 1 .. Len(Pending) : AtLeast(round + 1, RequestRound(Pending[j])))
      BY <3>2
    <3> QED BY <3>3, <3>4, <3>5 DEF Done
  <2>3. storage \in {"old", "default", "set"}
    BY <2>1
  <2> QED BY <2>2, <2>3 DEF Written
<1>12. Exited
  BY <1>2 DEF Exited
<1> QED BY <1>1, <1>4, <1>8, <1>9, <1>10, <1>11, <1>12 DEF NvsInv

\* The counts are numbers.
LEMMA Counts ==
  ASSUME WireOK
  PROVE  /\ Pending \in Seq(Requests) /\ Len(Pending) = Len(to_module) + Len(tx_fifo)
         /\ Len(Pending) \in Nat /\ Len(to_module) \in Nat /\ Len(tx_fifo) \in Nat
         /\ Count(from_module, Finals) \in Nat
<1>1. /\ Pending \in Seq(Requests) /\ Len(Pending) = Len(to_module) + Len(tx_fifo)
      /\ Len(Pending) \in Nat /\ Len(to_module) \in Nat /\ Len(tx_fifo) \in Nat
  BY ConcatProperties DEF WireOK, Pending
<1> QED BY <1>1, CountType DEF WireOK

\* What a received frame does to the program.
LEMMA Received ==
  ASSUME NvsInv, Receive
  PROVE  /\ Frame \in Frames /\ Frame.mail # "GET_NVS_CFM"
         /\ from_module # << >> /\ from_module' = Tail(from_module)
         /\ from_module' \in Seq(Frames)
         /\ Count(from_module, Finals) =
               Count(from_module', Finals) + (IF Frame \in Finals THEN 1 ELSE 0)
         /\ tx_fifo = << >> /\ ~exited
         /\ reset_ind' = IF Frame.mail = "RESET_IND" THEN 1 ELSE reset_ind
         /\ UNCHANGED <<to_module, storage, refused, erasing, m_seq, m_last, resent, exited>>
         /\ \/ Frame \in InformationFrames /\ tx_fifo' = application_frame(Frame.mail)
            \/ Frame \notin InformationFrames /\ tx_fifo' = << >>
         /\ IInv'
<1>1. /\ from_module # << >> /\ from_module' = Tail(from_module)
      /\ Frame.mail # "GET_NVS_CFM" /\ ~exited
      /\ busmail_dispatch(Frame.header, Frame.program_id, application_frame(Frame.mail))
      /\ reset_ind' = IF Frame.mail = "RESET_IND" THEN 1 ELSE reset_ind
      /\ UNCHANGED <<to_module, storage, refused, erasing, m_seq, m_last, resent, exited>>
  BY DEF Receive, Frame, module_vars, bounds
<1>2. from_module \in Seq(Frames) /\ reset_ind \in {0, 1}
  BY DEF NvsInv, WireOK
<1>3. Frame \in Frames /\ from_module' \in Seq(Frames)
  BY <1>1, <1>2 DEF Frame
<1>4. Count(from_module, Finals) =
          Count(from_module', Finals) + (IF Frame \in Finals THEN 1 ELSE 0)
  BY <1>1, <1>2, CountTail DEF Frame
<1>5. ~answering /\ tx_fifo = << >>
  BY <1>1 DEF busmail_dispatch, NvsInv, IInv, IdleDrained
<1>6. application_frame(Frame.mail) \in Seq(Requests)
      /\ application_frame(Frame.mail) \in Seq(Data)
  <2>1. application_frame(Frame.mail) \in Seq(Requests)
    <3>1. "GET_FW_VERSION_REQ" \in Requests
      BY DEF Requests
    <3>2. \/ application_frame(Frame.mail) = << >>
          \/ \E q \in Requests : application_frame(Frame.mail) = <<q>>
      BY <1>1, <1>2, <1>3, <3>1, Enqueued
    <3>3. ASSUME NEW q \in Requests, application_frame(Frame.mail) = <<q>>
          PROVE  application_frame(Frame.mail) \in Seq(Requests)
      BY <3>3
    <3>4. << >> \in Seq(Requests)
      OBVIOUS
    <3> QED BY <3>2, <3>3, <3>4
  <2> QED BY <2>1, DataAssumption
<1>7. Frame.header \in 0 .. 255
  <2>1. ForeignFrame.header = 0 /\ SambFrame.header = 200
    BY DEF ForeignFrame, SambFrame, SAMB_POLL_SET
  <2>2. Frame \in InformationFrames => Frame.header \in 0 .. 112
    BY DEF InformationFrames
  <2> QED BY <1>3, <2>1, <2>2 DEF Frames
<1>8. IInv'
  <2>1. IInv
    BY DEF NvsInv
  <2> QED BY <1>1, <1>6, <1>7, <2>1, DispatchStep
<1>9. CASE Frame \in InformationFrames
  <2>1. Frame.header \in 0 .. 112 /\ Frame.program_id = API_PROG_ID
    BY <1>9 DEF InformationFrames
  <2>2. ~IsControl(Frame.header) /\ ~IsUnnumbered(Frame.header)
    BY <2>1 DEF IsControl, IsUnnumbered
  <2>3. information_frame(Frame.header, Frame.program_id, application_frame(Frame.mail))
    BY <1>1, <2>1, <2>2
    DEF busmail_dispatch, information_frame_dropped, supervisory_control_frame,
        unnumbered_control_frame
  <2>4. tx_fifo' = tx_fifo \o application_frame(Frame.mail)
    BY <2>3 DEF information_frame
  <2>5. tx_fifo' = application_frame(Frame.mail)
    BY <1>5, <1>6, <2>4
  <2> QED BY <1>1, <1>3, <1>4, <1>5, <1>8, <1>9, <2>5
<1>10. CASE Frame \notin InformationFrames
  <2>1. Frame = ForeignFrame \/ Frame = SambFrame
    BY <1>3, <1>10 DEF Frames
  <2>2. ~information_frame(Frame.header, Frame.program_id, application_frame(Frame.mail))
    BY <2>1 DEF information_frame, ForeignFrame, SambFrame, IsControl, SAMB_POLL_SET,
                API_PROG_ID
  <2>3. tx_fifo' = tx_fifo
    BY <1>1, <2>2
    DEF busmail_dispatch, information_frame_dropped, supervisory_control_frame,
        unnumbered_control_frame, link_vars
  <2> QED BY <1>1, <1>3, <1>4, <1>5, <1>8, <1>10, <2>3
<1> QED BY <1>9, <1>10

\* The program takes a frame that it answers with no request, with the first one,
\* or with that of the next round.
LEMMA ReceiveInv == ASSUME NvsInv, Receive PROVE NvsInv'
<1> DEFINE queue == application_frame(Frame.mail)
<1>1. /\ Frame \in Frames /\ Frame.mail # "GET_NVS_CFM"
      /\ from_module # << >> /\ from_module' = Tail(from_module)
      /\ from_module' \in Seq(Frames)
      /\ Count(from_module, Finals) =
            Count(from_module', Finals) + (IF Frame \in Finals THEN 1 ELSE 0)
      /\ tx_fifo = << >> /\ ~exited
      /\ reset_ind' = IF Frame.mail = "RESET_IND" THEN 1 ELSE reset_ind
      /\ UNCHANGED <<to_module, storage, refused, erasing, m_seq, m_last, resent, exited>>
      /\ \/ Frame \in InformationFrames /\ tx_fifo' = queue
         \/ Frame \notin InformationFrames /\ tx_fifo' = << >>
      /\ IInv'
  BY Received
<1>2. /\ WireOK /\ Outstanding <= 1 + resent /\ InRing /\ Fresh /\ Written
      /\ reset_ind \in {0, 1} /\ resent \in Nat
      /\ from_module \in Seq(Frames) /\ to_module \in Seq(Requests)
  BY DEF NvsInv, WireOK
<1>3. Pending = to_module /\ Pending \in Seq(Requests) /\ Len(Pending) \in Nat
  BY <1>1, <1>2 DEF Pending
<1>4. Count(from_module, Finals) \in Nat /\ Count(from_module', Finals) \in Nat
  BY <1>1, <1>2, CountType
<1>5. \/ /\ Frame.mail = "RESET_IND" /\ reset_ind = 0
         /\ Frame \in InformationFrames
         /\ queue = <<"GET_FW_VERSION_REQ">> /\ Frame \notin Finals
      \/ /\ Frame \in Finals /\ Frame \in InformationFrames
         /\ Frame.mail # "RESET_IND"
         /\ \E r \in 0 .. 2, q \in Requests :
               /\ queue = <<q>>
               /\ ConfirmRound(Frame) = {r} /\ RequestRound(q) = {r + 1}
      \/ /\ Frame \notin Finals /\ queue = << >>
         /\ ~(Frame.mail = "RESET_IND" /\ reset_ind = 0)
  BY <1>1, <1>2, Enqueued
<1>6. Exited'
  BY <1>1 DEF Exited
<1>7. ASSUME tx_fifo' \in Seq(Requests) PROVE WireOK'
  BY <1>1, <1>2, <1>7 DEF WireOK
<1>8. Ordered(from_module, Pending) /\ ErasingRound' = ErasingRound
  BY <1>1, <1>2 DEF InRing, ErasingRound
<1>9. Len(from_module) \in Nat \ {0} /\ from_module[1] = Frame
      /\ \A i \in 1 .. Len(from_module') :
            i + 1 \in 1 .. Len(from_module) /\ from_module'[i] = from_module[i + 1]
  BY <1>1, <1>2, EmptySeq, HeadTailProperties DEF Frame
<1> HIDE DEF queue
<1>10. CASE /\ Frame.mail = "RESET_IND" /\ reset_ind = 0
            /\ Frame \in InformationFrames
            /\ queue = <<"GET_FW_VERSION_REQ">> /\ Frame \notin Finals
  <2>1. /\ Pending = << >> /\ ~erasing /\ ConfirmRound(m_last) = {}
        /\ \A i \in 1 .. Len(from_module) : ConfirmRound(from_module[i]) = {}
    BY <1>2, <1>10 DEF Fresh
  <2>2. tx_fifo' = <<"GET_FW_VERSION_REQ">> /\ reset_ind' = 1
    BY <1>1, <1>10
  <2>3. "GET_FW_VERSION_REQ" \in Requests
        /\ RequestRound("GET_FW_VERSION_REQ") = {0}
    BY DEF Requests, RequestRound
  <2>4. WireOK'
    BY <1>7, <2>2, <2>3
  <2>5. Pending' = <<"GET_FW_VERSION_REQ">>
    BY <1>1, <1>2, <1>3, <2>1, <2>2 DEF Pending
  <2>6. \A i \in 1 .. Len(from_module') : ConfirmRound(from_module'[i]) = {}
    BY <1>9, <2>1
  <2>7. InRing'
    <3>1. Ordered(from_module', Pending')
      BY <2>5, <2>6, EmptyRing
    <3>2. ErasingRound' = {} /\ ~erasing' /\ ConfirmRound(m_last') = {}
      BY <1>1, <2>1 DEF ErasingRound
    <3> QED BY <3>1, <3>2, NothingFits DEF InRing
  <2>8. (Outstanding <= 1 + resent)'
    <3>1. Count(from_module', Finals) = Count(from_module, Finals)
      BY <1>1, <1>4, <1>10
    <3>2. Outstanding = 1 + Count(from_module, Finals)
      BY <1>4, <1>10, <2>1 DEF Outstanding
    <3>3. Outstanding' = 1 + Count(from_module, Finals)
      BY <1>1, <1>4, <2>1, <2>2, <2>5, <3>1 DEF Outstanding
    <3> QED BY <1>1, <1>2, <3>2, <3>3
  <2>9. Fresh'
    BY <2>2 DEF Fresh
  <2>10. Written'
    <3>1. storage' = storage /\ storage \in {"old", "default", "set"}
      BY <1>1, <1>2 DEF Written
    <3>2. \A round \in {1, 2} : ~AtLeast(round, {}) /\ ~AtLeast(round + 1, {0})
      BY DEF AtLeast
    <3>3. ConfirmRound(m_last') = {}
      BY <1>1, <2>1
    <3>4. \A j \in 1 .. Len(Pending') : RequestRound(Pending'[j]) = {0}
      BY <2>3, <2>5
    <3>5. \A round \in {1, 2} : ~Done(round, from_module', Pending', m_last')
      BY <2>6, <3>2, <3>3, <3>4 DEF Done
    <3> QED BY <3>1, <3>5 DEF Written
  <2> QED BY <1>1, <1>6, <2>4, <2>7, <2>8, <2>9, <2>10 DEF NvsInv
<1>11. ASSUME Frame \in Finals, Frame \in InformationFrames, Frame.mail # "RESET_IND",
              NEW r \in 0 .. 2, NEW q \in Requests, queue = <<q>>,
              ConfirmRound(Frame) = {r}, RequestRound(q) = {r + 1}
       PROVE  NvsInv'
  <2>1. tx_fifo' = <<q>> /\ reset_ind' = reset_ind
    BY <1>1, <1>11
  <2>2. WireOK'
    BY <1>7, <1>11, <2>1
  <2>3. Pending' = Append(Pending, q)
    BY <1>1, <1>2, <1>3, <2>1 DEF Pending
  <2>4. ConfirmRound(Head(from_module)) = {r}
    BY <1>11 DEF Frame
  <2>5. /\ Ordered(from_module', Pending')
        /\ \A round : Fits(from_module, Pending, round) =>
              Fits(from_module', Pending', round)
    BY <1>1, <1>2, <1>3, <1>8, <1>11, <2>3, <2>4, NextRound
  <2>6. InRing'
    BY <1>1, <1>2, <1>8, <2>5 DEF InRing
  <2>7. (Outstanding <= 1 + resent)'
    <3>1. Count(from_module, Finals) = Count(from_module', Finals) + 1
      BY <1>1, <1>11
    <3>2. Len(Pending') = Len(Pending) + 1
      BY <1>3, <2>3
    <3> DEFINE finals == Count(from_module', Finals)
               pending == Len(Pending')
    <3>3. /\ finals \in Nat /\ Count(from_module, Finals) = finals + 1
          /\ pending = Len(Pending) + 1
      BY <1>4, <3>1, <3>2
    <3>4. Outstanding' = (1 - reset_ind) + pending + (IF erasing THEN 1 ELSE 0) + finals
      BY <1>1, <2>1 DEF Outstanding
    <3> HIDE DEF finals, pending
    <3>5. Outstanding = (1 - reset_ind) + pending + (IF erasing THEN 1 ELSE 0) + finals
      BY <1>2, <1>3, <3>3 DEF Outstanding
    <3> QED BY <1>1, <1>2, <3>4, <3>5
  <2>8. Fresh'
    <3>1. 1 \in 1 .. Len(from_module) /\ ConfirmRound(from_module[1]) # {}
      BY <1>9, <1>11
    <3>2. reset_ind = 1
      BY <1>2, <3>1 DEF Fresh
    <3> QED BY <2>1, <3>2 DEF Fresh
  <2>9. Written'
    <3>1. ASSUME NEW round \in {1, 2}, Done(round, from_module', Pending', m_last')
          PROVE  Stored(round)
      <4>1. Done(round, Tail(from_module), Append(Pending, q), m_last)
        BY <1>1, <2>3, <3>1
      <4>2. Done(round, from_module, Pending, m_last)
        BY <1>1, <1>2, <1>3, <1>11, <2>4, <4>1, DoneNext
      <4> QED BY <1>2, <4>2 DEF Written
    <3> QED BY <1>1, <1>2, <3>1 DEF Written, Stored
  <2> QED BY <1>1, <1>6, <2>2, <2>6, <2>7, <2>8, <2>9 DEF NvsInv
<1>12. CASE /\ Frame \notin Finals /\ tx_fifo' = << >>
            /\ ~(Frame.mail = "RESET_IND" /\ reset_ind = 0)
  <2>1. Pending' = Pending /\ reset_ind' = reset_ind
    <3>1. Pending' = Pending
      BY <1>1, <1>12 DEF Pending
    <3>2. reset_ind' = reset_ind
      BY <1>1, <1>2, <1>12
    <3> QED BY <3>1, <3>2
  <2>2. WireOK'
    BY <1>7, <1>12
  <2>3. /\ Ordered(from_module', Pending')
        /\ \A round : Fits(from_module, Pending, round) =>
              Fits(from_module', Pending', round)
    BY <1>1, <1>2, <1>3, <1>8, <2>1, FrameTaken
  <2>4. InRing'
    BY <1>1, <1>2, <1>8, <2>3 DEF InRing
  <2>5. Outstanding' = Outstanding
    <3>1. Count(from_module', Finals) = Count(from_module, Finals)
      BY <1>1, <1>4, <1>12
    <3> QED BY <1>1, <2>1, <3>1 DEF Outstanding
  <2>6. Fresh'
    BY <1>1, <1>2, <1>9, <2>1 DEF Fresh
  <2>7. Written'
    BY <1>1, <1>2, <2>1, DoneTaken DEF Written, Stored
  <2>8. (Outstanding <= 1 + resent)'
    BY <1>1, <1>2, <2>5
  <2> QED BY <1>1, <1>6, <2>2, <2>4, <2>6, <2>7, <2>8 DEF NvsInv
<1>13. CASE Frame \notin InformationFrames
  <2>1. Frame \notin Finals /\ Frame.mail # "RESET_IND"
    BY <1>1, <1>13 DEF Frames, Finals, IsFinalConfirm, ForeignFrame, SambFrame,
                      SetNvsConfirms
  <2> QED BY <1>1, <1>12, <1>13, <2>1
<1> QED BY <1>1, <1>5, <1>10, <1>11, <1>12, <1>13

\* GET_NVS is confirmed: what is ordered behind this frame is of its round.
LEMMA ReceiveStorageInv == ASSUME NvsInv, ReceiveStorage PROVE NvsInv'
<1> DEFINE rr == HeaderByte(SUID_RR, NO_PF, rx_seq_l')
<1>1. /\ Frame.mail = "GET_NVS_CFM" /\ TakeNumbers(Frame.header)
      /\ answer' = [NoAnswer EXCEPT !.number = TxSeq(Frame.header), !.acks = <<rr>>]
      /\ ~answering /\ exited' = TRUE
      /\ from_module # << >> /\ from_module' = Tail(from_module)
      /\ UNCHANGED <<tx_fifo, answering, ack, last_tx, reset_ind, to_module,
                     storage, refused, erasing, m_seq, m_last, resent>>
  BY DEF ReceiveStorage, Frame, module_vars, bounds
<1>2. /\ WireOK /\ IInv /\ Outstanding <= 1 + resent /\ InRing /\ Fresh /\ Written
      /\ reset_ind \in {0, 1} /\ resent \in Nat /\ erasing \in BOOLEAN
      /\ from_module \in Seq(Frames)
  BY DEF NvsInv, WireOK
<1>3. Frame \in Frames /\ from_module' \in Seq(Frames)
  BY <1>1, <1>2 DEF Frame
<1>4. Frame \in Finals /\ ConfirmRound(Frame) = {3} /\ Frame \in InformationFrames
  BY <1>1, <1>3 DEF Finals, IsFinalConfirm, ConfirmRound, Frames, ForeignFrame, SambFrame,
                    SetNvsConfirms
<1>5. /\ Pending' = Pending /\ Pending \in Seq(Requests) /\ Len(Pending) \in Nat
      /\ Len(to_module) \in Nat /\ Len(Pending) = Len(to_module) + Len(tx_fifo)
      /\ Len(tx_fifo) \in Nat /\ ErasingRound' = ErasingRound
  BY <1>1, <1>2, Counts DEF Pending, ErasingRound
<1>6. IInv'
  <2>1. TxSeq(Frame.header) \in 0 .. 7 /\ RxSeq(Frame.header) \in 0 .. 7
        /\ NextExpected(TxSeq(Frame.header)) \in 0 .. 8
    <3>1. Frame.header \in 0 .. 255
      BY <1>4 DEF InformationFrames
    <3> QED BY <3>1, FieldsFit, NextExpectedFits
  <2>2. /\ rx_seq_l' \in 0 .. 8 /\ tx_seq_l' = tx_seq_l
        /\ tx_seq_r' \in 0 .. 7 /\ rx_seq_r' \in 0 .. 7
    BY <1>1, <2>1 DEF TakeNumbers
  <2>3. rr \in 0 .. 255
    <3>1. SUID_RR \in 0 .. 255
      BY DEF SUID_RR
    <3> QED BY <2>2, <3>1, HeaderIsByte
  <2> HIDE DEF rr
  <2>4. answer' = [number |-> TxSeq(Frame.header), queued |-> << >>, infos |-> << >>,
                   acks |-> <<rr>>]
    BY <1>1 DEF NoAnswer
  <2>5. answer' \in [number : (-1) .. 7, queued : Seq(Data),
                     infos : Seq(Info), acks : Seq(0 .. 255)]
    BY <2>1, <2>3, <2>4
  <2>6. TypeOK'
    BY <1>1, <1>2, <2>2, <2>5 DEF IInv, TypeOK
  <2>7. tx_fifo' = << >> /\ ~answering'
    BY <1>1, <1>2 DEF IInv, IdleDrained
  <2>8. AnswerInOrder'
    <3>1. Sent(answer'.infos) = << >>
      BY <2>4 DEF Sent
    <3> QED BY <2>4, <2>7, <3>1 DEF AnswerInOrder, Sent
  <2>9. AnsweredOnce'
    <3>1. answer'.queued = << >> /\ answer'.acks = <<rr>> /\ Len(<<rr>>) = 1
      BY <2>4
    <3> QED BY <3>1 DEF AnsweredOnce
  <2>10. (IdleDrained /\ AckTellsSent)'
    BY <2>7 DEF IdleDrained, AckTellsSent
  <2> QED BY <2>6, <2>8, <2>9, <2>10 DEF IInv
<1>7. WireOK'
  BY <1>1, <1>2, <1>3 DEF WireOK
<1>8. /\ Ordered(from_module, Pending) /\ Fits(from_module, Pending, ErasingRound)
      /\ Fits(from_module, Pending, ConfirmRound(m_last))
  BY <1>2 DEF InRing
<1>9. /\ Ordered(from_module', Pending')
      /\ \A j \in 1 .. Len(Pending) : Apart({3}, RequestRound(Pending[j]))
      /\ \A round : Fits(from_module, Pending, round) =>
            Fits(from_module', Pending', round) /\ Apart({3}, round)
  BY <1>1, <1>2, <1>4, <1>5, <1>8, FrameTaken DEF Frame
<1>10. InRing'
  BY <1>1, <1>2, <1>5, <1>8, <1>9 DEF InRing
<1>11. Count(from_module, Finals) = Count(from_module', Finals) + 1
       /\ Count(from_module', Finals) \in Nat /\ Count(from_module, Finals) \in Nat
  BY <1>1, <1>2, <1>3, <1>4, CountTail, CountType DEF Frame
<1> DEFINE finals == Count(from_module', Finals)
<1>12. (Outstanding <= 1 + resent)'
  <2>1. finals \in Nat /\ Count(from_module, Finals) = finals + 1
    BY <1>11
  <2>2. Outstanding' = (1 - reset_ind) + Len(Pending) + (IF erasing THEN 1 ELSE 0) + finals
    BY <1>1, <1>5 DEF Outstanding
  <2> HIDE DEF finals
  <2>3. (1 - reset_ind) + Len(Pending) + (IF erasing THEN 1 ELSE 0) + finals <= 1 + resent
    BY <1>2, <1>5, <2>1 DEF Outstanding
  <2> QED BY <1>1, <2>2, <2>3
<1>13. 1 \in 1 .. Len(from_module) /\ from_module[1] = Frame
  BY <1>1, <1>2, EmptySeq, HeadTailProperties DEF Frame
<1>14. Fresh'
  <2>1. reset_ind = 1
    BY <1>2, <1>4, <1>13 DEF Fresh
  <2> QED BY <1>1, <2>1 DEF Fresh
<1>15. Stored(1) /\ Stored(2)
  <2>1. AtLeast(1, {3}) /\ AtLeast(2, {3})
    BY DEF AtLeast
  <2>2. Done(1, from_module, Pending, m_last) /\ Done(2, from_module, Pending, m_last)
    BY <1>4, <1>13, <2>1 DEF Done
  <2> QED BY <1>2, <2>2 DEF Written
<1>16. Written'
  BY <1>1, <1>2, <1>15 DEF Written, Stored
<1>17. ~erasing
  <2>1. Apart({3}, ErasingRound)
    BY <1>8, <1>9
  <2>2. ErasingRound # {1}
    BY <2>1 DEF Apart
  <2> QED BY <2>2 DEF ErasingRound
<1>18. ASSUME NEW j \in 1 .. Len(Pending) PROVE Pending[j] = "GET_NVS"
  <2>1. Apart({3}, RequestRound(Pending[j])) /\ Pending[j] \in Requests
    BY <1>5, <1>9
  <2>2. 3 \in RequestRound(Pending[j])
    <3>1. \A s \in RequestRound(Pending[j]) : s \in {3, 4}
      BY <2>1 DEF Apart
    <3>2. PICK n \in 0 .. 3 : RequestRound(Pending[j]) = {n}
      <4>1. RequestRound(Pending[j]) \in {{0}, {1}, {2}, {3}}
        BY Rounds
      <4> QED BY <4>1
    <3>3. n \in {3, 4}
      BY <3>1, <3>2
    <3> QED BY <3>2, <3>3
  <2>3. /\ RequestRound("GET_FW_VERSION_REQ") = {0} /\ RequestRound("NVS_DEFAULT") = {1}
        /\ RequestRound("SET_NVS") = {2}
    BY DEF RequestRound
  <2>4. /\ Pending[j] # "GET_FW_VERSION_REQ" /\ Pending[j] # "NVS_DEFAULT"
        /\ Pending[j] # "SET_NVS"
    BY <2>2, <2>3
  <2> QED BY <2>1, <2>4 DEF Requests
<1>19. resent = 0 => to_module = << >>
  <2>1. ASSUME resent = 0 PROVE Len(to_module) = 0
    BY <1>2, <1>5, <1>11, <2>1 DEF Outstanding
  <2> QED BY <1>2, <2>1, EmptySeq DEF WireOK
<1>20. Exited'
  BY <1>1, <1>5, <1>15, <1>17, <1>18, <1>19 DEF Exited, Stored
<1> QED BY <1>6, <1>7, <1>10, <1>12, <1>14, <1>16, <1>20 DEF NvsInv

\* What is pending stays as it is.
LEMMA SendInv == ASSUME NvsInv, Send PROVE NvsInv'
<1>1. /\ tx_fifo # << >> /\ tx_fifo' = Tail(tx_fifo)
      /\ to_module' = Append(to_module, Head(tx_fifo)) /\ ~exited
      /\ UNCHANGED <<from_module, reset_ind, exited, storage, refused, erasing, m_seq, m_last,
                     resent>>
      /\ Transmit
  BY DEF Send, Transmit, module_vars, bounds
<1>2. IInv'
  BY <1>1, TransmitStep DEF NvsInv
<1>3. WireOK
  BY DEF NvsInv
<1>4. Pending' = Pending /\ to_module' \in Seq(Requests) /\ tx_fifo' \in Seq(Requests)
  BY <1>1, <1>3, SendKeeps DEF WireOK, Pending
<1>5. WireOK'
  BY <1>1, <1>3, <1>4 DEF WireOK
<1>6. (Outstanding <= 1 + resent)'
  BY <1>1, <1>4 DEF NvsInv, Outstanding
<1>7. (InRing /\ Fresh /\ Written)'
  BY <1>1, <1>4 DEF NvsInv, InRing, ErasingRound, Fresh, Written, Stored
<1>8. Exited'
  BY <1>1 DEF Exited, Stored
<1> QED BY <1>2, <1>5, <1>6, <1>7, <1>8 DEF NvsInv

\* The frame is answered.
LEMMA AnsweredInv == ASSUME NvsInv, Answered PROVE NvsInv'
<1>1. /\ UNCHANGED <<tx_fifo, to_module, from_module, reset_ind, exited, storage,
                     refused, erasing, m_seq, m_last, resent>>
      /\ Finish
  BY DEF Answered, Finish, module_vars, bounds
<1>2. IInv'
  BY <1>1, FinishStep DEF NvsInv
<1>3. Pending' = Pending
  BY <1>1 DEF Pending
<1>4. (WireOK /\ Outstanding <= 1 + resent)'
  BY <1>1, <1>3 DEF NvsInv, WireOK, Outstanding
<1>5. (InRing /\ Fresh /\ Written /\ Exited)'
  BY <1>1, <1>3 DEF NvsInv, InRing, ErasingRound, Fresh, Written, Exited, Stored
<1> QED BY <1>2, <1>4, <1>5 DEF NvsInv
-----------------------------------------------------------------------------
(* The steps of the module.                                                *)

\* The program stands still.
LEMMA ModuleLeaves ==
  ASSUME NvsInv, UNCHANGED host_vars
  PROVE  /\ IInv'
         /\ tx_fifo' = tx_fifo /\ reset_ind' = reset_ind /\ exited' = exited
<1>1. UNCHANGED link_vars /\ reset_ind' = reset_ind /\ exited' = exited
  BY DEF host_vars
<1>2. tx_fifo' = tx_fifo
  BY <1>1 DEF link_vars
<1>3. IInv'
  BY <1>1 DEF NvsInv, IInv, TypeOK, IdleDrained, AnswerInOrder, AckTellsSent,
              AnsweredOnce, link_vars, counters
<1> QED BY <1>1, <1>2, <1>3

\* What the parts of the invariant that concern the ring ask of a frame sent.
LEMMA ModuleSent ==
  ASSUME NvsInv, NEW f \in Frames, from_module' = Append(from_module, f),
         Pending' \in Seq(Requests), reset_ind' = reset_ind,
         Ordered(from_module, Pending'),
         Fits(from_module, Pending', ConfirmRound(f)),
         Fits(from_module, Pending', ConfirmRound(m_last')),
         Fits(from_module, Pending', ErasingRound'),
         Apart(ConfirmRound(f), ConfirmRound(m_last')),
         Apart(ConfirmRound(f), ErasingRound'),
         erasing' => ConfirmRound(m_last') = {},
         reset_ind = 0 => /\ Pending' = << >> /\ ~erasing'
                          /\ ConfirmRound(f) = {} /\ ConfirmRound(m_last') = {}
  PROVE  /\ from_module' \in Seq(Frames)
         /\ InRing' /\ Fresh'
         /\ Count(from_module', Finals) =
               Count(from_module, Finals) + (IF f \in Finals THEN 1 ELSE 0)
<1>1. from_module \in Seq(Frames)
  BY DEF NvsInv, WireOK
<1>2. /\ Ordered(from_module', Pending')
      /\ \A round : Fits(from_module, Pending', round) /\ Apart(ConfirmRound(f), round) =>
            Fits(from_module', Pending', round)
  BY <1>1, FrameSent
<1>3. InRing'
  BY <1>2 DEF InRing
<1>4. Fresh'
  <2> SUFFICES ASSUME reset_ind = 0
               PROVE  \A i \in 1 .. Len(from_module') : ConfirmRound(from_module'[i]) = {}
    BY DEF Fresh
  <2>1. \A i \in 1 .. Len(from_module') :
            \/ i \in 1 .. Len(from_module) /\ from_module'[i] = from_module[i]
            \/ from_module'[i] = f
    BY <1>1
  <2> QED BY <2>1 DEF NvsInv, Fresh
<1>5. from_module' \in Seq(Frames)
  BY <1>1
<1> QED BY <1>1, <1>3, <1>4, <1>5, CountAppend

\* Rounds that are the same are apart, and so is anything from none.
LEMMA ApartSame ==
  /\ \A r \in 0 .. 3 : Apart({r}, {r})
  /\ \A round : Apart({}, round) /\ Apart(round, {})
  /\ \A f : Apart(ConfirmRound(f), ConfirmRound(f))
<1>1. \A r \in 0 .. 3 : Apart({r}, {r})
  BY DEF Apart
<1>2. \A round : Apart({}, round) /\ Apart(round, {})
  BY DEF Apart
<1>3. ASSUME NEW f PROVE Apart(ConfirmRound(f), ConfirmRound(f))
  <2>1. ConfirmRound(f) = {} \/ \E r \in 0 .. 3 : ConfirmRound(f) = {r}
    BY Rounds
  <2> QED BY <1>1, <1>2, <2>1
<1> QED BY <1>1, <1>2, <1>3

\* A frame of no round, with the requests as they were or fewer.
LEMMA NoRoundSent ==
  ASSUME NvsInv, NEW f \in Frames, ConfirmRound(f) = {},
         from_module' = Append(from_module, f),
         reset_ind' = reset_ind, resent' = resent, erasing' = erasing, Pending' = Pending,
         m_last' = m_last \/ m_last' = f, storage' = storage, refused' = refused
  PROVE  /\ from_module' \in Seq(Frames)
         /\ InRing' /\ Fresh' /\ Written' /\ (Outstanding <= 1 + resent)'
<1>1. /\ WireOK /\ InRing /\ Fresh /\ Written /\ Outstanding <= 1 + resent
      /\ Pending \in Seq(Requests) /\ from_module \in Seq(Frames)
      /\ Len(Pending) \in Nat /\ Count(from_module, Finals) \in Nat
  BY Counts DEF NvsInv, WireOK
<1>2. ErasingRound' = ErasingRound
  BY DEF ErasingRound
<1>3. /\ Ordered(from_module, Pending) /\ Fits(from_module, Pending, {})
      /\ Fits(from_module, Pending, ErasingRound)
      /\ Fits(from_module, Pending, ConfirmRound(m_last))
      /\ erasing => ConfirmRound(m_last) = {}
  BY <1>1, NothingFits DEF InRing
<1>4. /\ Apart(ConfirmRound(f), ConfirmRound(m_last'))
      /\ Apart(ConfirmRound(f), ErasingRound')
  BY ApartSame
<1>5. Fits(from_module, Pending, ConfirmRound(m_last'))
  BY <1>3
<1>6. reset_ind = 0 => /\ Pending = << >> /\ ~erasing
                       /\ ConfirmRound(f) = {} /\ ConfirmRound(m_last') = {}
  BY <1>1 DEF Fresh
<1>7. /\ from_module' \in Seq(Frames) /\ InRing' /\ Fresh'
      /\ Count(from_module', Finals) =
            Count(from_module, Finals) + (IF f \in Finals THEN 1 ELSE 0)
  BY <1>1, <1>2, <1>3, <1>4, <1>5, <1>6, ModuleSent
<1>8. Count(from_module', Finals) = Count(from_module, Finals)
  BY <1>1, <1>7, FinalHasRound
<1>9. Outstanding' = Outstanding
  BY <1>8 DEF Outstanding
<1>10. Written'
  <2>1. ASSUME NEW round \in {1, 2}, Done(round, from_module', Pending', m_last')
        PROVE  Stored(round)
    <3>1. \/ Done(round, from_module, Pending, m_last)
          \/ AtLeast(round, ConfirmRound(f))
      BY <1>1, <2>1, DoneSent
    <3> QED BY <1>1, <3>1 DEF Written, AtLeast
  <2> QED BY <1>1, <2>1 DEF Written, Stored
<1> QED BY <1>1, <1>7, <1>9, <1>10

\* The module takes a request.
LEMMA RequestGone ==
  ASSUME NvsInv, UNCHANGED host_vars, to_module # << >>, to_module' = Tail(to_module)
  PROVE  /\ Pending \in Seq(Requests) /\ Pending # << >>
         /\ Head(Pending) = Head(to_module) /\ Head(to_module) \in Requests
         /\ Pending' = Tail(Pending) /\ Pending' \in Seq(Requests)
         /\ to_module' \in Seq(Requests)
         /\ Len(Pending') \in Nat /\ Len(Pending) = Len(Pending') + 1
         /\ reset_ind = 1
         /\ Ordered(from_module, Pending')
         /\ Fits(from_module, Pending', RequestRound(Head(to_module)))
         /\ exited => /\ Head(to_module) = "GET_NVS" /\ resent # 0
                      /\ \A j \in 1 .. Len(Pending') : Pending'[j] = "GET_NVS"
<1>1. /\ to_module \in Seq(Requests) /\ tx_fifo \in Seq(Requests) /\ tx_fifo' = tx_fifo
      /\ from_module \in Seq(Frames) /\ reset_ind \in {0, 1}
      /\ Ordered(from_module, Pending)
  BY ModuleLeaves DEF NvsInv, WireOK, InRing
<1>2. /\ Pending \in Seq(Requests) /\ Pending # << >> /\ Head(Pending) = Head(to_module)
      /\ Pending' = Tail(Pending) /\ to_module' \in Seq(Requests)
  BY <1>1, TakeHead DEF Pending
<1>3. /\ Len(Pending) \in Nat \ {0} /\ Len(Pending') = Len(Pending) - 1
      /\ Pending' \in Seq(Requests) /\ Head(Pending) = Pending[1]
      /\ \A j \in 1 .. Len(Pending) - 1 :
            j + 1 \in 1 .. Len(Pending) /\ Pending'[j] = Pending[j + 1]
      /\ 1 \in 1 .. Len(Pending)
  BY <1>2, EmptySeq, HeadTailProperties
<1>4. /\ Ordered(from_module, Pending')
      /\ Fits(from_module, Pending', RequestRound(Head(to_module)))
  BY <1>1, <1>2, RequestTaken
<1>5. reset_ind = 1
  BY <1>1, <1>2 DEF NvsInv, Fresh
<1>6. Head(to_module) \in Requests
  BY <1>1
<1>7. ASSUME exited
      PROVE  /\ Head(to_module) = "GET_NVS" /\ resent # 0
             /\ \A j \in 1 .. Len(Pending') : Pending'[j] = "GET_NVS"
  <2>1. /\ \A j \in 1 .. Len(Pending) : Pending[j] = "GET_NVS"
        /\ resent = 0 => to_module = << >>
    BY <1>7 DEF NvsInv, Exited
  <2>2. Head(to_module) = "GET_NVS"
    BY <1>2, <1>3, <2>1
  <2>3. \A j \in 1 .. Len(Pending') : Pending'[j] = "GET_NVS"
    BY <1>3, <2>1
  <2> QED BY <2>1, <2>2, <2>3
<1>8. Len(Pending') \in Nat /\ Len(Pending) = Len(Pending') + 1
  BY <1>3
<1> QED BY <1>2, <1>3, <1>4, <1>5, <1>6, <1>7, <1>8

\* The module answers a request with a frame of its round or of none; in the second
\* case it may be erasing from then on.
LEMMA RequestAnswered ==
  ASSUME NvsInv, UNCHANGED host_vars, to_module # << >>, to_module' = Tail(to_module),
         NEW mail \in Mails, ModuleSends(mail), ~erasing, resent' = resent,
         \/ /\ ConfirmRound(InfoFrame(m_seq, mail)) = RequestRound(Head(to_module))
            /\ erasing' = FALSE
         \/ /\ ConfirmRound(InfoFrame(m_seq, mail)) = {}
            /\ erasing' = FALSE
         \/ /\ ConfirmRound(InfoFrame(m_seq, mail)) = {}
            /\ erasing' = TRUE /\ Head(to_module) = "NVS_DEFAULT",
         Written', exited => UNCHANGED <<storage, refused>>
  PROVE  NvsInv'
<1> DEFINE f == InfoFrame(m_seq, mail)
<1>1. /\ WireOK /\ Outstanding <= 1 + resent /\ Exited
      /\ from_module \in Seq(Frames) /\ m_seq \in 0 .. 7 /\ resent \in Nat
      /\ reset_ind \in {0, 1} /\ exited \in BOOLEAN
  BY DEF NvsInv, WireOK
<1>2. /\ IInv' /\ tx_fifo' = tx_fifo /\ reset_ind' = reset_ind /\ exited' = exited
  BY ModuleLeaves
<1>3. f \in InformationFrames /\ f \in Frames /\ f.mail = mail
  BY <1>1, FrameMade
<1>4. from_module' = Append(from_module, f) /\ m_last' = f /\ m_seq' = (m_seq + 1) % 8
  BY DEF ModuleSends
<1>5. /\ Pending' \in Seq(Requests) /\ to_module' \in Seq(Requests)
      /\ Len(Pending') \in Nat /\ Len(Pending) = Len(Pending') + 1
      /\ reset_ind = 1
      /\ Ordered(from_module, Pending')
      /\ Fits(from_module, Pending', RequestRound(Head(to_module)))
      /\ exited => /\ Head(to_module) = "GET_NVS" /\ resent # 0
                   /\ \A j \in 1 .. Len(Pending') : Pending'[j] = "GET_NVS"
  BY RequestGone
<1> HIDE DEF f
<1>6. /\ Fits(from_module, Pending', ConfirmRound(f))
      /\ Fits(from_module, Pending', ErasingRound')
      /\ Apart(ConfirmRound(f), ErasingRound')
      /\ erasing' => ConfirmRound(f) = {}
  <2>1. ConfirmRound(f) = RequestRound(Head(to_module)) \/ ConfirmRound(f) = {}
    BY DEF f
  <2>2. Fits(from_module, Pending', ConfirmRound(f))
    BY <1>5, <2>1, NothingFits
  <2>3. CASE erasing' = FALSE
    <3>1. ErasingRound' = {}
      BY <2>3 DEF ErasingRound
    <3> QED BY <2>2, <2>3, <3>1, NothingFits, ApartSame
  <2>4. CASE erasing' = TRUE
    <3>1. ErasingRound' = {1} /\ RequestRound("NVS_DEFAULT") = {1}
      BY <2>4 DEF ErasingRound, RequestRound
    <3>2. ConfirmRound(f) = {} /\ Head(to_module) = "NVS_DEFAULT"
      BY <2>4 DEF f
    <3> QED BY <1>5, <2>2, <3>1, <3>2, ApartSame
  <2> QED BY <2>3, <2>4
<1>7. /\ from_module' \in Seq(Frames) /\ InRing' /\ Fresh'
      /\ Count(from_module', Finals) =
            Count(from_module, Finals) + (IF f \in Finals THEN 1 ELSE 0)
  <2>1. Apart(ConfirmRound(f), ConfirmRound(m_last'))
    BY <1>4, ApartSame
  <2> QED BY <1>2, <1>3, <1>4, <1>5, <1>6, <2>1, ModuleSent
<1>8. WireOK'
  <2>1. m_seq' \in 0 .. 7
    BY <1>1, <1>4
  <2>2. erasing' \in BOOLEAN
    OBVIOUS
  <2>3. tx_fifo \in Seq(Requests)
    BY <1>1 DEF WireOK
  <2> QED BY <1>1, <1>2, <1>3, <1>4, <1>5, <1>7, <2>1, <2>2, <2>3 DEF WireOK
<1>9. (Outstanding <= 1 + resent)'
  <2> DEFINE pending == Len(Pending')
             finals == Count(from_module, Finals)
             erased == IF erasing' THEN 1 ELSE 0
             final == IF f \in Finals THEN 1 ELSE 0
  <2>1. pending \in Nat /\ Len(Pending) = pending + 1 /\ finals \in Nat
    BY <1>1, <1>5, CountType
  <2>2. Outstanding' = (1 - reset_ind) + pending + erased + (finals + final)
    BY <1>2, <1>7 DEF Outstanding
  <2>3. Outstanding = (1 - reset_ind) + Len(Pending) + 0 + finals
    BY DEF Outstanding
  <2>4. erased \in {0, 1} /\ final \in {0, 1} /\ (erased = 0 \/ final = 0)
    <3>1. erased \in {0, 1} /\ final \in {0, 1}
      OBVIOUS
    <3>2. ASSUME erasing' PROVE f \notin Finals
      BY <1>3, <1>6, <3>2, FinalHasRound
    <3> QED BY <3>1, <3>2
  <2> HIDE DEF pending, finals, erased, final
  <2>5. (1 - reset_ind) + pending + erased + (finals + final) <= 1 + resent
    BY <1>1, <1>5, <2>1, <2>3, <2>4
  <2> QED BY <2>2, <2>5
<1>10. Exited'
  <2> SUFFICES ASSUME exited
               PROVE  /\ Stored(1) /\ Stored(2) /\ ~erasing'
                      /\ \A j \in 1 .. Len(Pending') : Pending'[j] = "GET_NVS"
                      /\ resent # 0
    BY <1>2 DEF Exited, Stored
  <2>1. Head(to_module) = "GET_NVS" /\ resent # 0
        /\ \A j \in 1 .. Len(Pending') : Pending'[j] = "GET_NVS"
    BY <1>5
  <2> QED BY <1>1, <2>1 DEF Exited
<1> QED BY <1>2, <1>7, <1>8, <1>9, <1>10 DEF NvsInv

\* A request answered with a frame that does not confirm the identity.
LEMMA WrittenStill ==
  ASSUME NvsInv, UNCHANGED host_vars, to_module # << >>, to_module' = Tail(to_module),
         NEW mail \in Mails, ModuleSends(mail), storage' = storage,
         refused' = refused,
         \/ ~AtLeast(1, ConfirmRound(InfoFrame(m_seq, mail)))
         \/ Head(to_module) = "GET_NVS"
  PROVE  Written'
<1> DEFINE f == InfoFrame(m_seq, mail)
<1>1. /\ Written /\ from_module \in Seq(Frames) /\ m_seq \in 0 .. 7
  BY DEF NvsInv, WireOK
<1>2. /\ Pending \in Seq(Requests) /\ Pending # << >> /\ Head(Pending) = Head(to_module)
      /\ Pending' = Tail(Pending)
  BY RequestGone
<1>3. f \in Frames
  BY <1>1, FrameMade
<1>4. from_module' = Append(from_module, f) /\ m_last' = f
  BY DEF ModuleSends
<1> HIDE DEF f
<1>5. ASSUME NEW round \in {1, 2}, Done(round, from_module', Pending', m_last')
      PROVE  Stored(round)
  <2>1. \/ Done(round, from_module, Tail(Pending), m_last)
        \/ AtLeast(round, ConfirmRound(f))
    BY <1>1, <1>2, <1>3, <1>4, <1>5, DoneSent
  <2>2. ~AtLeast(1, ConfirmRound(f)) => ~AtLeast(round, ConfirmRound(f))
    <3>1. ConfirmRound(f) \in {{}, {0}, {1}, {2}, {3}}
      BY Rounds
    <3> QED BY <3>1 DEF AtLeast
  <2>3. \/ Done(round, from_module, Tail(Pending), m_last)
        \/ Head(Pending) = "GET_NVS"
    BY <1>2, <2>1, <2>2 DEF f
  <2>4. Done(round, from_module, Pending, m_last)
    BY <1>2, <2>3, DoneRequest
  <2> QED BY <1>1, <2>4 DEF Written
<1> QED BY <1>1, <1>5 DEF Written, Stored

\* The module replies to a request.
LEMMA ModuleRepliesInv == ASSUME NvsInv, ModuleReplies PROVE NvsInv'
<1>1. /\ UNCHANGED host_vars /\ to_module # << >> /\ to_module' = Tail(to_module)
      /\ ~erasing /\ resent' = resent
  BY DEF ModuleReplies, bounds
<1>2. /\ m_seq \in 0 .. 7 /\ erasing \in BOOLEAN /\ from_module \in Seq(Frames)
  BY DEF NvsInv, WireOK
<1>3. exited => Head(to_module) = "GET_NVS"
  BY <1>1, RequestGone DEF NvsInv, Exited
<1>4. \A mail \in Mails : InfoFrame(m_seq, mail).mail = mail
  BY <1>2, FrameMade
<1>5. CASE /\ Head(to_module) = "GET_FW_VERSION_REQ"
           /\ ModuleSends("FW_VERSION_CFM")
           /\ UNCHANGED <<storage, erasing, refused>>
  <2>1. "FW_VERSION_CFM" \in Mails
    BY DEF Mails
  <2>2. /\ ConfirmRound(InfoFrame(m_seq, "FW_VERSION_CFM")) = {0}
        /\ RequestRound("GET_FW_VERSION_REQ") = {0} /\ ~AtLeast(1, {0})
    BY <1>4, <2>1 DEF ConfirmRound, RequestRound, AtLeast
  <2>3. Written'
    BY <1>1, <1>5, <2>1, <2>2, WrittenStill
  <2> QED BY <1>1, <1>2, <1>5, <2>1, <2>2, <2>3, RequestAnswered
<1>6. CASE /\ Head(to_module) = "NVS_DEFAULT"
           /\ ModuleSends("NVS_DEFAULT_OK") /\ storage' = "default"
           /\ UNCHANGED <<erasing, refused>>
  <2> DEFINE f == InfoFrame(m_seq, "NVS_DEFAULT_OK")
  <2>1. "NVS_DEFAULT_OK" \in Mails
    BY DEF Mails
  <2>2. ConfirmRound(f) = {1} /\ RequestRound("NVS_DEFAULT") = {1}
        /\ ~AtLeast(2, {1})
    BY <1>4, <2>1 DEF ConfirmRound, RequestRound, AtLeast
  <2>3. Written'
    <3>1. /\ Ordered(from_module, Pending') /\ Fits(from_module, Pending', {1})
          /\ Pending' \in Seq(Requests)
      BY <1>1, <1>6, <2>2, RequestGone
    <3>2. f \in Frames
      BY <1>2, <2>1, FrameMade
    <3>3. Fits(Append(from_module, f), Pending', {1})
      BY <1>2, <2>2, <3>1, <3>2, ApartSame, FrameSent
    <3>4. from_module' = Append(from_module, f) /\ m_last' = f
      BY <1>6 DEF ModuleSends
    <3>5. ~Done(2, from_module', Pending', m_last')
      BY <2>2, <3>3, <3>4, NotDoneYet
    <3> QED BY <1>6, <3>5 DEF Written, Stored
  <2> QED BY <1>1, <1>2, <1>3, <1>6, <2>1, <2>2, <2>3, RequestAnswered
<1>7. CASE /\ Head(to_module) = "NVS_DEFAULT"
           /\ ModuleSends("NVS_DEFAULT_PENDING") /\ erasing' = TRUE
           /\ UNCHANGED <<storage, refused>>
  <2>1. "NVS_DEFAULT_PENDING" \in Mails
    BY DEF Mails
  <2>2. ConfirmRound(InfoFrame(m_seq, "NVS_DEFAULT_PENDING")) = {}
        /\ ~AtLeast(1, {})
    BY <1>4, <2>1 DEF ConfirmRound, AtLeast, SetNvsConfirms
  <2>3. Written'
    BY <1>1, <1>7, <2>1, <2>2, WrittenStill
  <2> QED BY <1>1, <1>2, <1>7, <2>1, <2>2, <2>3, RequestAnswered
<1>8. CASE /\ Head(to_module) = "SET_NVS"
           /\ ModuleSends("SET_NVS_OK") /\ storage' = "set"
           /\ refused' = FALSE /\ UNCHANGED erasing
  <2>1. "SET_NVS_OK" \in Mails
    BY DEF Mails, SetNvsConfirms
  <2>2. /\ ConfirmRound(InfoFrame(m_seq, "SET_NVS_OK")) = {2}
        /\ RequestRound("SET_NVS") = {2}
    BY <1>4, <2>1 DEF ConfirmRound, RequestRound, SetNvsConfirms
  <2>3. Written'
    BY <1>8 DEF Written, Stored
  <2> QED BY <1>1, <1>2, <1>3, <1>8, <2>1, <2>2, <2>3, RequestAnswered
<1>9. CASE /\ Head(to_module) = "GET_NVS"
           /\ ModuleSends("GET_NVS_CFM")
           /\ UNCHANGED <<storage, erasing, refused>>
  <2>1. "GET_NVS_CFM" \in Mails
    BY DEF Mails
  <2>2. /\ ConfirmRound(InfoFrame(m_seq, "GET_NVS_CFM")) = {3}
        /\ RequestRound("GET_NVS") = {3}
    BY <1>4, <2>1 DEF ConfirmRound, RequestRound, SetNvsConfirms
  <2>3. Written'
    BY <1>1, <1>9, <2>1, WrittenStill
  <2> QED BY <1>1, <1>2, <1>9, <2>1, <2>2, <2>3, RequestAnswered
<1> QED BY <1>5, <1>6, <1>7, <1>8, <1>9 DEF ModuleReplies

\* The module cannot write its defaults, or refuses the identity: the defaults are
\* written then.
LEMMA ModuleFailsInv == ASSUME NvsInv, ModuleFails PROVE NvsInv'
<1>1. /\ UNCHANGED host_vars /\ to_module # << >> /\ to_module' = Tail(to_module)
      /\ ~erasing /\ erasing' = erasing /\ storage' = storage /\ resent' = resent
  BY DEF ModuleFails, bounds
<1>2. m_seq \in 0 .. 7 /\ erasing \in BOOLEAN
  BY DEF NvsInv, WireOK
<1>3. CASE /\ Head(to_module) = "NVS_DEFAULT"
           /\ ModuleSends("NVS_DEFAULT_FAIL") /\ refused' = refused
  <2>1. "NVS_DEFAULT_FAIL" \in Mails
    BY DEF Mails
  <2>2. /\ ConfirmRound(InfoFrame(m_seq, "NVS_DEFAULT_FAIL")) = {}
        /\ ~AtLeast(1, {})
    BY <1>2, <2>1, FrameMade DEF ConfirmRound, AtLeast, SetNvsConfirms
  <2>3. Written'
    BY <1>1, <1>3, <2>1, <2>2, WrittenStill
  <2> QED BY <1>1, <1>2, <1>3, <2>1, <2>2, <2>3, RequestAnswered
<1>4. CASE /\ Head(to_module) = "SET_NVS"
           /\ ModuleSends("SET_NVS_FAIL") /\ refused' = TRUE
  <2>1. "SET_NVS_FAIL" \in Mails
    BY DEF Mails, SetNvsConfirms
  <2>2. /\ ConfirmRound(InfoFrame(m_seq, "SET_NVS_FAIL")) = {2}
        /\ RequestRound("SET_NVS") = {2}
    BY <1>2, <2>1, FrameMade DEF ConfirmRound, RequestRound, SetNvsConfirms
  <2>3. Written'
    <3>1. /\ Pending \in Seq(Requests) /\ Pending # << >>
          /\ Head(Pending) = "SET_NVS"
      BY <1>1, <1>4, RequestGone
    <3>2. Done(1, from_module, Pending, m_last)
      BY <3>1, DoneRequest
    <3>3. Stored(1) /\ storage \in {"old", "default", "set"}
      BY <3>2 DEF NvsInv, Written
    <3> QED BY <1>1, <1>4, <3>3 DEF Written, Stored
  <2>4. ~exited
    BY <1>1, <1>4, RequestGone
  <2> QED BY <1>1, <1>2, <1>4, <2>1, <2>2, <2>3, <2>4, RequestAnswered
<1> QED BY <1>3, <1>4 DEF ModuleFails

\* The erasure that was pending is done.
LEMMA ModuleErasedInv == ASSUME NvsInv, ModuleErased PROVE NvsInv'
<1> DEFINE f == InfoFrame(m_seq, "NVS_DEFAULT_OK")
<1>1. /\ UNCHANGED host_vars /\ to_module' = to_module /\ resent' = resent
      /\ erasing = TRUE /\ erasing' = FALSE /\ storage' = "default"
      /\ from_module' = Append(from_module, f)
      /\ m_seq' = (m_seq + 1) % 8 /\ m_last' = f
  BY DEF ModuleErased, ModuleSends, bounds, NvsInv, WireOK
<1>2. /\ WireOK /\ InRing /\ Fresh /\ Exited /\ Outstanding <= 1 + resent
      /\ from_module \in Seq(Frames) /\ m_seq \in 0 .. 7 /\ resent \in Nat
      /\ reset_ind \in {0, 1} /\ exited \in BOOLEAN
      /\ to_module \in Seq(Requests) /\ tx_fifo \in Seq(Requests)
  BY DEF NvsInv, WireOK
<1>3. /\ IInv' /\ tx_fifo' = tx_fifo /\ reset_ind' = reset_ind /\ exited' = exited
  BY <1>1, ModuleLeaves
<1>4. "NVS_DEFAULT_OK" \in Mails
  BY DEF Mails
<1>5. /\ f \in InformationFrames /\ f \in Frames /\ f.mail = "NVS_DEFAULT_OK"
  BY <1>2, <1>4, FrameMade
<1>6. ConfirmRound(f) = {1} /\ ErasingRound = {1} /\ ErasingRound' = {}
  BY <1>1, <1>5 DEF ConfirmRound, ErasingRound
<1> HIDE DEF f
<1>7. /\ Pending' = Pending /\ Pending \in Seq(Requests) /\ Len(Pending) \in Nat
      /\ Count(from_module, Finals) \in Nat
  BY <1>1, <1>2, <1>3, Counts DEF Pending
<1>8. Ordered(from_module, Pending) /\ Fits(from_module, Pending, {1})
  BY <1>2, <1>6 DEF InRing
<1>9. reset_ind = 1 /\ ~exited
  BY <1>1, <1>2 DEF Fresh, Exited
<1>10. /\ from_module' \in Seq(Frames) /\ InRing' /\ Fresh'
       /\ Count(from_module', Finals) =
             Count(from_module, Finals) + (IF f \in Finals THEN 1 ELSE 0)
  <2>1. /\ Fits(from_module, Pending', ConfirmRound(f))
        /\ Fits(from_module, Pending', ConfirmRound(m_last'))
        /\ Fits(from_module, Pending', ErasingRound')
    BY <1>1, <1>6, <1>7, <1>8, NothingFits
  <2>2. /\ Apart(ConfirmRound(f), ConfirmRound(m_last'))
        /\ Apart(ConfirmRound(f), ErasingRound')
    BY <1>1, <1>6, ApartSame
  <2> QED BY <1>1, <1>3, <1>5, <1>7, <1>8, <1>9, <2>1, <2>2, ModuleSent
<1>11. (Outstanding <= 1 + resent)'
  <2>1. f \in Finals
    BY <1>5, <1>6, FinalHasRound
  <2>2. Count(from_module', Finals) = Count(from_module, Finals) + 1
    BY <1>10, <2>1
  <2>3. Outstanding' = (1 - reset_ind) + Len(Pending) + 0 + (Count(from_module, Finals) + 1)
    BY <1>1, <1>3, <1>7, <2>2 DEF Outstanding
  <2>4. Outstanding = (1 - reset_ind) + Len(Pending) + 1 + Count(from_module, Finals)
    BY <1>1 DEF Outstanding
  <2>5. Outstanding' = Outstanding
    BY <1>2, <1>7, <2>3, <2>4
  <2> QED BY <1>1, <1>2, <2>5
<1>12. WireOK'
  <2>1. m_seq' \in 0 .. 7
    BY <1>1, <1>2
  <2> QED BY <1>1, <1>2, <1>3, <1>5, <1>10, <2>1 DEF WireOK
<1>13. Written'
  <2>1. Fits(Append(from_module, f), Pending, {1})
    BY <1>2, <1>5, <1>6, <1>7, <1>8, ApartSame, FrameSent
  <2>2. ~AtLeast(2, ConfirmRound(f))
    BY <1>6 DEF AtLeast
  <2>3. ~Done(2, from_module', Pending', m_last')
    BY <1>1, <1>7, <2>1, <2>2, NotDoneYet
  <2> QED BY <1>1, <2>3 DEF Written, Stored
<1>14. Exited'
  BY <1>3, <1>9 DEF Exited
<1> QED BY <1>3, <1>10, <1>11, <1>12, <1>13, <1>14 DEF NvsInv

\* The module sends a frame that concerns no request.
LEMMA ModuleSendsOtherInv == ASSUME NvsInv, ModuleSendsOther PROVE NvsInv'
<1>1. /\ UNCHANGED host_vars /\ to_module' = to_module /\ resent' = resent
      /\ storage' = storage /\ refused' = refused /\ erasing' = erasing
      /\ \/ ModuleSends("SCL_STATUS_IND")
         \/ /\ from_module' = Append(from_module, ForeignFrame)
            /\ UNCHANGED <<m_seq, m_last>>
  BY DEF ModuleSendsOther
<1>2. /\ WireOK /\ Exited
      /\ m_seq \in 0 .. 7 /\ m_last \in InformationFrames
  BY DEF NvsInv, WireOK
<1>3. /\ IInv' /\ tx_fifo' = tx_fifo /\ reset_ind' = reset_ind /\ exited' = exited
  BY <1>1, ModuleLeaves
<1>4. Pending' = Pending
  BY <1>1, <1>3 DEF Pending
<1>5. PICK f \in Frames : /\ ConfirmRound(f) = {} /\ from_module' = Append(from_module, f)
                          /\ m_last' = m_last \/ m_last' = f
                          /\ m_last' \in InformationFrames /\ m_seq' \in 0 .. 7
  <2>1. CASE ModuleSends("SCL_STATUS_IND")
    <3> DEFINE f == InfoFrame(m_seq, "SCL_STATUS_IND")
    <3>1. "SCL_STATUS_IND" \in Mails
      BY DEF Mails
    <3>2. f \in InformationFrames /\ f \in Frames /\ f.mail = "SCL_STATUS_IND"
      BY <1>2, <3>1, FrameMade
    <3>3. ConfirmRound(f) = {}
      BY <3>2 DEF ConfirmRound, SetNvsConfirms
    <3>4. from_module' = Append(from_module, f) /\ m_last' = f /\ m_seq' = (m_seq + 1) % 8
      BY <2>1 DEF ModuleSends
    <3> HIDE DEF f
    <3>5. m_seq' \in 0 .. 7
      BY <1>2, <3>4
    <3> QED BY <3>2, <3>3, <3>4, <3>5
  <2>2. CASE from_module' = Append(from_module, ForeignFrame)
             /\ UNCHANGED <<m_seq, m_last>>
    <3>1. ForeignFrame \in Frames /\ ConfirmRound(ForeignFrame) = {}
      BY DEF Frames, ForeignFrame, ConfirmRound, SetNvsConfirms
    <3> QED BY <1>2, <2>2, <3>1
  <2> QED BY <1>1, <2>1, <2>2
<1>6. /\ from_module' \in Seq(Frames)
      /\ InRing' /\ Fresh' /\ Written' /\ (Outstanding <= 1 + resent)'
  BY <1>1, <1>3, <1>4, <1>5, NoRoundSent
<1>7. WireOK'
  BY <1>1, <1>2, <1>3, <1>5, <1>6 DEF WireOK
<1>8. Exited'
  BY <1>1, <1>2, <1>3, <1>4 DEF Exited, Stored
<1> QED BY <1>3, <1>6, <1>7, <1>8 DEF NvsInv

\* The module sends its last frame again: of what is outstanding, one more.
LEMMA ModuleResendsInv == ASSUME NvsInv, ModuleResends PROVE NvsInv'
<1>1. /\ UNCHANGED host_vars /\ to_module' = to_module /\ resent' = resent + 1
      /\ from_module' = Append(from_module, m_last)
      /\ UNCHANGED <<storage, refused, erasing, m_seq, m_last>>
  BY DEF ModuleResends
<1>2. /\ WireOK /\ InRing /\ Fresh /\ Written /\ Exited /\ Outstanding <= 1 + resent
      /\ from_module \in Seq(Frames) /\ m_last \in InformationFrames /\ resent \in Nat
      /\ reset_ind \in {0, 1} /\ m_last \in Frames
  BY DEF NvsInv, WireOK, Frames
<1>3. /\ IInv' /\ tx_fifo' = tx_fifo /\ reset_ind' = reset_ind /\ exited' = exited
  BY <1>1, ModuleLeaves
<1>4. /\ Pending' = Pending /\ Pending \in Seq(Requests) /\ Len(Pending) \in Nat
      /\ Count(from_module, Finals) \in Nat /\ ErasingRound' = ErasingRound
  BY <1>1, <1>2, <1>3, Counts DEF Pending, ErasingRound
<1>5. /\ Ordered(from_module, Pending) /\ Fits(from_module, Pending, ErasingRound)
      /\ Fits(from_module, Pending, ConfirmRound(m_last))
      /\ erasing => ConfirmRound(m_last) = {}
  BY <1>2 DEF InRing
<1>6. Apart(ConfirmRound(m_last), ErasingRound)
  <2>1. ConfirmRound(m_last) = {} \/ ErasingRound = {}
    BY <1>5 DEF ErasingRound
  <2> QED BY <2>1, ApartSame
<1>7. /\ from_module' \in Seq(Frames) /\ InRing' /\ Fresh'
      /\ Count(from_module', Finals) =
            Count(from_module, Finals) + (IF m_last \in Finals THEN 1 ELSE 0)
  <2>1. reset_ind = 0 => Pending = << >> /\ ~erasing /\ ConfirmRound(m_last) = {}
    BY <1>2 DEF Fresh
  <2>2. Apart(ConfirmRound(m_last), ConfirmRound(m_last'))
    BY <1>1, ApartSame
  <2>3. /\ m_last' = m_last /\ erasing' = erasing
    BY <1>1
  <2> QED BY <1>1, <1>2, <1>3, <1>4, <1>5, <1>6, <2>1, <2>2, <2>3, ModuleSent
<1>8. (Outstanding <= 1 + resent)'
  <2> DEFINE final == IF m_last \in Finals THEN 1 ELSE 0
             erased == IF erasing THEN 1 ELSE 0
             finals == Count(from_module, Finals)
  <2>1. Outstanding' = (1 - reset_ind) + Len(Pending) + erased + (finals + final)
    BY <1>1, <1>3, <1>4, <1>7 DEF Outstanding
  <2>2. Outstanding = (1 - reset_ind) + Len(Pending) + erased + finals
    BY DEF Outstanding
  <2>3. final \in {0, 1} /\ erased \in {0, 1} /\ finals \in Nat
    BY <1>4
  <2> HIDE DEF final, erased, finals
  <2>4. (1 - reset_ind) + Len(Pending) + erased + (finals + final) <= 1 + (resent + 1)
    BY <1>2, <1>4, <2>2, <2>3
  <2> QED BY <1>1, <2>1, <2>4
<1>9. WireOK'
  BY <1>1, <1>2, <1>3, <1>7 DEF WireOK
<1>10. Written'
  <2>1. ASSUME NEW round \in {1, 2}, Done(round, from_module', Pending', m_last')
        PROVE  Stored(round)
    <3>1. \/ Done(round, from_module, Pending, m_last)
          \/ AtLeast(round, ConfirmRound(m_last))
      BY <1>1, <1>2, <1>4, <2>1, DoneSent
    <3>2. Done(round, from_module, Pending, m_last)
      BY <3>1 DEF Done
    <3> QED BY <1>2, <3>2 DEF Written
  <2> QED BY <1>1, <1>2, <2>1 DEF Written, Stored
<1>11. Exited'
  <2>1. resent' # 0
    BY <1>1, <1>2
  <2> QED BY <1>1, <1>2, <1>3, <1>4, <2>1 DEF Exited, Stored
<1> QED BY <1>3, <1>7, <1>8, <1>9, <1>10, <1>11 DEF NvsInv

\* The requests on their way to the module are lost: what stays is in the ring.
LEMMA RequestsLost ==
  ASSUME NEW fs, NEW s \in Seq(Requests), NEW t \in Seq(Requests), Ordered(fs, s \o t)
  PROVE  /\ Ordered(fs, t)
         /\ \A last : \A round \in {1, 2} :
               Done(round, fs, t, last) => Done(round, fs, s \o t, last)
<1>1. /\ Len(s) \in Nat /\ Len(t) \in Nat /\ Len(s \o t) = Len(s) + Len(t)
      /\ \A j \in 1 .. Len(t) : (s \o t)[Len(s) + j] = t[j]
  BY ConcatProperties
<1>2. \A j \in 1 .. Len(t) : Len(s) + j \in 1 .. Len(s \o t)
  BY <1>1
<1>3. \A i, j \in 1 .. Len(t) : i < j => Len(s) + i < Len(s) + j
  BY <1>1
<1>4. RequestsOrdered(t)
  <2> SUFFICES ASSUME NEW i \in 1 .. Len(t), NEW j \in 1 .. Len(t), i < j
               PROVE  Apart(RequestRound(t[i]), RequestRound(t[j]))
    BY DEF RequestsOrdered
  <2>1. Apart(RequestRound((s \o t)[Len(s) + i]), RequestRound((s \o t)[Len(s) + j]))
    BY <1>2, <1>3 DEF Ordered, RequestsOrdered
  <2> QED BY <1>1, <2>1
<1>5. FramesBefore(fs, t)
  <2> SUFFICES ASSUME NEW i \in 1 .. Len(fs), NEW j \in 1 .. Len(t)
               PROVE  Apart(ConfirmRound(fs[i]), RequestRound(t[j]))
    BY DEF FramesBefore
  <2>1. Apart(ConfirmRound(fs[i]), RequestRound((s \o t)[Len(s) + j]))
    BY <1>2 DEF Ordered, FramesBefore
  <2> QED BY <1>1, <2>1
<1>6. ASSUME NEW last, NEW round \in {1, 2}, Done(round, fs, t, last)
      PROVE  Done(round, fs, s \o t, last)
  <2>1. ASSUME NEW j \in 1 .. Len(t), AtLeast(round + 1, RequestRound(t[j]))
        PROVE  \E k \in 1 .. Len(s \o t) : AtLeast(round + 1, RequestRound((s \o t)[k]))
    <3>1. Len(s) + j \in 1 .. Len(s \o t) /\ (s \o t)[Len(s) + j] = t[j]
      BY <1>1, <1>2
    <3> QED BY <2>1, <3>1
  <2> QED BY <1>6, <2>1 DEF Done
<1> QED BY <1>4, <1>5, <1>6 DEF Ordered

\* The module restarts: what is on its way to it is lost, and it announces itself.
LEMMA ModuleRestartsInv == ASSUME NvsInv, ModuleRestarts PROVE NvsInv'
<1> DEFINE first == InfoFrame(0, "RESET_IND")
           once == Append(from_module, SambFrame)
<1>1. /\ UNCHANGED host_vars /\ to_module' = << >> /\ erasing' = FALSE
      /\ from_module' = from_module \o <<SambFrame, first>>
      /\ m_seq' = 1 /\ m_last' = first /\ resent' = resent
      /\ storage' = storage /\ refused' = refused
  BY DEF ModuleRestarts, Announcement
<1>2. /\ WireOK /\ InRing /\ Fresh /\ Written /\ Exited /\ Outstanding <= 1 + resent
      /\ from_module \in Seq(Frames) /\ resent \in Nat /\ reset_ind \in {0, 1}
      /\ to_module \in Seq(Requests) /\ tx_fifo \in Seq(Requests)
      /\ exited \in BOOLEAN
  BY DEF NvsInv, WireOK
<1>3. /\ IInv' /\ tx_fifo' = tx_fifo /\ reset_ind' = reset_ind /\ exited' = exited
  BY <1>1, ModuleLeaves
<1>4. /\ first \in InformationFrames /\ first \in Frames /\ ConfirmRound(first) = {}
      /\ SambFrame \in Frames /\ ConfirmRound(SambFrame) = {}
  BY AnnouncementFrames
<1> HIDE DEF first
<1>5. from_module' = Append(once, first) /\ once \in Seq(Frames)
      /\ from_module' \in Seq(Frames)
  BY <1>1, <1>2, <1>4
<1>6. Pending' = tx_fifo /\ Pending = to_module \o tx_fifo
  BY <1>1, <1>2, <1>3 DEF Pending
<1>7. Ordered(from_module, Pending)
  BY <1>2 DEF InRing
<1>8. Ordered(from_module, tx_fifo)
  BY <1>2, <1>6, <1>7, RequestsLost
<1>9. Ordered(once, tx_fifo)
  BY <1>2, <1>4, <1>8, NothingFits, FrameSent
<1> HIDE DEF once
<1>10. Ordered(from_module', Pending')
  BY <1>2, <1>4, <1>5, <1>6, <1>9, NothingFits, FrameSent
<1>11. InRing'
  <2>1. ConfirmRound(m_last') = {} /\ ErasingRound' = {}
    BY <1>1, <1>4 DEF ErasingRound
  <2> QED BY <1>10, <2>1, NothingFits DEF InRing
<1>12. \A i \in 1 .. Len(from_module') :
           \/ i \in 1 .. Len(from_module) /\ from_module'[i] = from_module[i]
           \/ ConfirmRound(from_module'[i]) = {}
  <2>1. \A i \in 1 .. Len(once) :
            \/ i \in 1 .. Len(from_module) /\ once[i] = from_module[i]
            \/ once[i] = SambFrame
    BY <1>2 DEF once
  <2>2. \A i \in 1 .. Len(from_module') :
            \/ i \in 1 .. Len(once) /\ from_module'[i] = once[i]
            \/ from_module'[i] = first
    BY <1>5
  <2> QED BY <1>4, <2>1, <2>2
<1>13. Fresh'
  <2> SUFFICES ASSUME reset_ind = 0
               PROVE  /\ tx_fifo = << >>
                      /\ \A i \in 1 .. Len(from_module') :
                            ConfirmRound(from_module'[i]) = {}
    <3>1. ~erasing' /\ ConfirmRound(m_last') = {} /\ Pending' = tx_fifo
          /\ reset_ind' = reset_ind
      BY <1>1, <1>3, <1>4, <1>6
    <3> QED BY <3>1 DEF Fresh
  <2>1. Len(Pending) = 0 /\ \A i \in 1 .. Len(from_module) : ConfirmRound(from_module[i]) = {}
    BY <1>2 DEF Fresh
  <2>2. Len(tx_fifo) = 0
    BY <1>2, <2>1, Counts
  <2>3. tx_fifo = << >>
    BY <1>2, <2>2, EmptySeq
  <2> QED BY <1>12, <2>1, <2>3
<1>14. Count(from_module', Finals) = Count(from_module, Finals)
  <2>1. first \notin Finals /\ SambFrame \notin Finals
    BY <1>4, FinalHasRound
  <2>2. Count(once, Finals) = Count(from_module, Finals)
    BY <1>2, <1>4, <2>1, CountAppend, CountType DEF once
  <2>3. Count(from_module', Finals) = Count(once, Finals)
    BY <1>4, <1>5, <2>1, CountAppend, CountType
  <2> QED BY <2>2, <2>3
<1>15. (Outstanding <= 1 + resent)'
  <2> DEFINE finals == Count(from_module, Finals)
             erased == IF erasing THEN 1 ELSE 0
  <2>1. /\ Len(Pending) = Len(to_module) + Len(tx_fifo) /\ Len(to_module) \in Nat
        /\ Len(tx_fifo) \in Nat /\ finals \in Nat /\ erased \in {0, 1}
    BY <1>2, Counts
  <2>2. Outstanding' = (1 - reset_ind) + Len(tx_fifo) + 0 + finals
    BY <1>1, <1>3, <1>6, <1>14 DEF Outstanding
  <2>3. Outstanding = (1 - reset_ind) + Len(Pending) + erased + finals
    BY DEF Outstanding
  <2> HIDE DEF finals, erased
  <2>4. (1 - reset_ind) + Len(tx_fifo) + 0 + finals <= 1 + resent
    BY <1>2, <2>1, <2>3
  <2> QED BY <1>1, <2>2, <2>4
<1>16. WireOK'
  <2>1. to_module' \in Seq(Requests)
    BY <1>1
  <2>2. m_seq' \in 0 .. 7 /\ erasing' \in BOOLEAN
    <3>1. m_seq' = 1
      BY <1>1
    <3>2. m_seq' \in 0 .. 7
      BY <3>1
    <3>3. erasing' = FALSE
      BY <1>1
    <3>4. erasing' \in BOOLEAN
      BY <3>3
    <3> QED BY <3>2, <3>4
  <2>3. tx_fifo' \in Seq(Requests) /\ m_last' \in InformationFrames
    BY <1>1, <1>2, <1>3, <1>4
  <2>4. resent' \in Nat /\ reset_ind' \in {0, 1} /\ exited' \in BOOLEAN
    BY <1>1, <1>2, <1>3
  <2> QED BY <1>5, <2>1, <2>2, <2>3, <2>4 DEF WireOK
<1>17. Written'
  <2>1. ASSUME NEW round \in {1, 2}, Done(round, from_module', Pending', m_last')
        PROVE  Stored(round)
    <3>1. ~AtLeast(round, {})
      BY DEF AtLeast
    <3>2. \/ \E i \in 1 .. Len(from_module) : AtLeast(round, ConfirmRound(from_module[i]))
          \/ \E j \in 1 .. Len(tx_fifo) : AtLeast(round + 1, RequestRound(tx_fifo[j]))
      BY <1>1, <1>4, <1>6, <1>12, <2>1, <3>1 DEF Done
    <3>3. Done(round, from_module, tx_fifo, m_last)
      BY <3>2 DEF Done
    <3>4. Done(round, from_module, Pending, m_last)
      BY <1>2, <1>6, <1>7, <3>3, RequestsLost
    <3> QED BY <1>2, <3>4 DEF Written
  <2> QED BY <1>1, <1>2, <2>1 DEF Written, Stored
<1>18. Exited'
  <2> SUFFICES ASSUME exited
               PROVE  /\ Stored(1) /\ Stored(2)
                      /\ \A j \in 1 .. Len(tx_fifo) : tx_fifo[j] = "GET_NVS"
    BY <1>1, <1>3, <1>6 DEF Exited, Stored
  <2>1. Stored(1) /\ Stored(2) /\ \A j \in 1 .. Len(Pending) : Pending[j] = "GET_NVS"
    BY <1>2 DEF Exited
  <2>2. /\ Len(to_module) \in Nat /\ Len(tx_fifo) \in Nat
        /\ Len(Pending) = Len(to_module) + Len(tx_fifo)
        /\ \A j \in 1 .. Len(tx_fifo) : Pending[Len(to_module) + j] = tx_fifo[j]
    BY <1>2, <1>6, ConcatProperties
  <2>3. \A j \in 1 .. Len(tx_fifo) : Len(to_module) + j \in 1 .. Len(Pending)
    BY <2>2
  <2> QED BY <2>1, <2>2, <2>3
<1> QED BY <1>3, <1>11, <1>13, <1>15, <1>16, <1>17, <1>18 DEF NvsInv
-----------------------------------------------------------------------------
(* The theorems.                                                           *)

\* Every step keeps the invariant.
LEMMA NvsNextInv == ASSUME NvsInv, [NvsNext]_vars PROVE NvsInv'
<1>1. CASE Program
  BY <1>1, ReceiveInv, ReceiveStorageInv, SendInv, AnsweredInv DEF Program
<1>2. CASE ModuleReplies \/ ModuleErased \/ ModuleFails
  BY <1>2, ModuleRepliesInv, ModuleErasedInv, ModuleFailsInv
<1>3. CASE ModuleRestarts \/ ModuleSendsOther \/ ModuleResends
  BY <1>3, ModuleRestartsInv, ModuleSendsOtherInv, ModuleResendsInv
<1>4. CASE UNCHANGED vars
  <2>1. /\ UNCHANGED host_vars
        /\ UNCHANGED <<storage, refused, erasing, m_seq, m_last, resent>>
        /\ UNCHANGED <<to_module, from_module>>
    BY <1>4 DEF vars, module_vars, bounds
  <2>2. IInv' /\ tx_fifo' = tx_fifo /\ reset_ind' = reset_ind /\ exited' = exited
    BY <2>1, ModuleLeaves
  <2>3. Pending' = Pending
    BY <2>1, <2>2 DEF Pending
  <2>4. (WireOK /\ Outstanding <= 1 + resent)'
    BY <2>1, <2>2, <2>3 DEF NvsInv, WireOK, Outstanding
  <2>5. (InRing /\ Fresh /\ Written /\ Exited)'
    BY <2>1, <2>2, <2>3 DEF NvsInv, InRing, ErasingRound, Fresh, Written, Exited, Stored
  <2> QED BY <2>2, <2>4, <2>5 DEF NvsInv
<1> QED BY <1>1, <1>2, <1>3, <1>4 DEF NvsNext

\* The sequence of nvs.c and what is under way between it and the module are a ring
\* in which every round comes after the one before it.
THEOREM NvsInvariance == NvsSpec => []NvsInv
<1> QED BY InitInv, NvsNextInv, PTL DEF NvsSpec

\* nvs.c exits only when the module holds the identity, or has refused it and holds
\* the defaults, is not erasing, and has no request on its way that would change the
\* storage: whatever was sent again and however often the module restarted.  The
\* status of the confirm of SET_NVS is not looked at, so no more can be said of it.
THEOREM ExitedSettled == NvsSpec => []ExitsSettled
<1>1. NvsInv => ExitsSettled
  <2> SUFFICES ASSUME NvsInv, exited
               PROVE  /\ storage \in IF refused THEN {"set", "default"} ELSE {"set"}
                      /\ ~erasing
                      /\ \A i \in 1 .. Len(to_module) : to_module[i] # "NVS_DEFAULT"
                      /\ resent = 0 => to_module = << >>
    BY DEF ExitsSettled
  <2>1. /\ Stored(1) /\ Stored(2) /\ ~erasing
        /\ \A j \in 1 .. Len(Pending) : Pending[j] = "GET_NVS"
        /\ resent = 0 => to_module = << >>
        /\ storage \in {"old", "default", "set"}
    BY DEF NvsInv, Exited, Written
  <2>4. storage \in IF refused THEN {"set", "default"} ELSE {"set"}
    BY <2>1 DEF Stored
  <2>2. /\ Len(to_module) \in Nat /\ Len(tx_fifo) \in Nat
        /\ Len(Pending) = Len(to_module) + Len(tx_fifo)
        /\ \A i \in 1 .. Len(to_module) : Pending[i] = to_module[i]
    BY ConcatProperties DEF NvsInv, WireOK, Pending
  <2>3. \A i \in 1 .. Len(to_module) : i \in 1 .. Len(Pending)
    BY <2>2
  <2> QED BY <2>1, <2>2, <2>3, <2>4
<1> QED BY <1>1, NvsInvariance, PTL

\* Program and module go in lockstep: one request, erasure or confirm is outstanding
\* at most, and one more for each frame sent again, for any number of restarts.
THEOREM InLockstep == NvsSpec => []Lockstep
<1>1. NvsInv => Lockstep
  <2> SUFFICES ASSUME NvsInv PROVE Lockstep
    OBVIOUS
  <2> DEFINE confirms == {i \in 1 .. Len(from_module) : IsFinalConfirm(from_module[i])}
             erased == IF erasing THEN 1 ELSE 0
             finals == Count(from_module, Finals)
  <2>1. /\ from_module \in Seq(Frames) /\ reset_ind \in {0, 1} /\ resent \in Nat
        /\ Outstanding <= 1 + resent
        /\ Len(Pending) = Len(to_module) + Len(tx_fifo) /\ Len(to_module) \in Nat
        /\ Len(tx_fifo) \in Nat /\ finals \in Nat /\ erased \in {0, 1}
    BY Counts DEF NvsInv, WireOK
  <2>2. \A i \in 1 .. Len(from_module) :
            from_module[i] \in Finals <=> IsFinalConfirm(from_module[i])
    BY <2>1 DEF Finals
  <2>3. confirms = Places(from_module, Finals)
    BY <2>2 DEF Places
  <2>4. Cardinality(confirms) = finals
    BY <2>3 DEF Count
  <2>5. Outstanding = (1 - reset_ind) + Len(Pending) + erased + finals
    BY DEF Outstanding
  <2>6. Lockstep <=> Len(tx_fifo) + Len(to_module) + erased + finals <= 1 + resent
    BY <2>4 DEF Lockstep
  <2> HIDE DEF erased, finals
  <2>7. Len(tx_fifo) + Len(to_module) + erased + finals <= 1 + resent
    BY <2>1, <2>5
  <2> QED BY <2>6, <2>7
<1> QED BY <1>1, NvsInvariance, PTL

\* In the nvs mode, too, every information frame is answered once, the last one by
\* the callback that exits.
THEOREM NvsAnswersOnce == NvsSpec => []AnsweredOnce
<1>1. NvsInv => AnsweredOnce
  BY DEF NvsInv, IInv
<1> QED BY <1>1, NvsInvariance, PTL
-----------------------------------------------------------------------------
(* How many packets are still to come.  A confirm of round r brings the    *)
(* requests of the rounds after it, a request what its confirm will bring, *)
(* so that each is worth the rounds up to the third, counted once for each *)
(* kind it belongs to.                                                     *)

FrameKinds == [k \in 1 .. 3 |-> {f \in Frames : \E r \in ConfirmRound(f) : r + k <= 3}]
RequestKinds == [k \in 1 .. 3 |-> {q \in Requests : \E r \in RequestRound(q) : r + k <= 3}]

One(x, kind) == IF x \in kind THEN 1 ELSE 0
Of(x, kinds) == One(x, kinds[1]) + One(x, kinds[2]) + One(x, kinds[3])
Worth(q, kinds) == Count(q, kinds[1]) + Count(q, kinds[2]) + Count(q, kinds[3])

\* Packets that will follow, those queued included.
Erasure == IF erasing THEN 2 ELSE 0
AtModule == Worth(from_module, FrameKinds) + Worth(to_module, RequestKinds) + Erasure
Queued == Worth(tx_fifo, RequestKinds) + Len(tx_fifo)
ToCome == AtModule + Queued + 4 * (1 - reset_ind)

FewPackets == tx_seq_l + ToCome <= 4 + 3 * resent

PacketInv == FewPackets /\ PacketsAreInformation

\* What a sequence is worth is the sum of what its members are.
LEMMA WorthOf ==
  ASSUME NEW T, NEW q \in Seq(T), NEW kinds
  PROVE  /\ Worth(q, kinds) \in Nat
         /\ \A x \in T : Worth(Append(q, x), kinds) = Worth(q, kinds) + Of(x, kinds)
         /\ q # << >> => Worth(q, kinds) = Worth(Tail(q), kinds) + Of(Head(q), kinds)
<1> DEFINE a == kinds[1]
           b == kinds[2]
           c == kinds[3]
<1>1. Count(q, a) \in Nat /\ Count(q, b) \in Nat /\ Count(q, c) \in Nat
  BY CountType
<1>2. \A x : One(x, a) \in {0, 1} /\ One(x, b) \in {0, 1} /\ One(x, c) \in {0, 1}
  BY DEF One
<1>3. Worth(q, kinds) \in Nat
  BY <1>1 DEF Worth
<1>4. ASSUME NEW x \in T
      PROVE  Worth(Append(q, x), kinds) = Worth(q, kinds) + Of(x, kinds)
  <2>1. /\ Count(Append(q, x), a) = Count(q, a) + One(x, a)
        /\ Count(Append(q, x), b) = Count(q, b) + One(x, b)
        /\ Count(Append(q, x), c) = Count(q, c) + One(x, c)
    BY CountAppend DEF One
  <2> QED BY <1>1, <1>2, <2>1 DEF Worth, Of
<1>5. ASSUME q # << >>
      PROVE  Worth(q, kinds) = Worth(Tail(q), kinds) + Of(Head(q), kinds)
  <2> DEFINE rest == Tail(q)
             x == Head(q)
  <2>1. /\ Count(q, a) = Count(rest, a) + One(x, a)
        /\ Count(q, b) = Count(rest, b) + One(x, b)
        /\ Count(q, c) = Count(rest, c) + One(x, c)
    BY <1>5, CountTail DEF One
  <2>2. rest \in Seq(T)
    BY <1>5
  <2>3. Count(rest, a) \in Nat /\ Count(rest, b) \in Nat /\ Count(rest, c) \in Nat
    BY <2>2, CountType
  <2> HIDE DEF rest, x
  <2>4. Worth(q, kinds) = Worth(rest, kinds) + Of(x, kinds)
    BY <1>2, <2>1, <2>3 DEF Worth, Of
  <2> QED BY <2>4 DEF rest, x
<1> QED BY <1>3, <1>4, <1>5

LEMMA WorthEmpty ==
  ASSUME NEW kinds
  PROVE  Worth(<< >>, kinds) = 0
BY CountEmpty DEF Worth

LEMMA WorthOne ==
  ASSUME NEW T, NEW x \in T, NEW kinds
  PROVE  Worth(<<x>>, kinds) = Of(x, kinds)
<1> DEFINE none == << >>
<1>1. none \in Seq(T) /\ <<x>> = Append(none, x) /\ Worth(none, kinds) = 0
  BY WorthEmpty
<1> HIDE DEF none
<1>2. Worth(Append(none, x), kinds) = Worth(none, kinds) + Of(x, kinds)
  BY <1>1, WorthOf
<1>3. Of(x, kinds) \in Int
  BY DEF Of, One
<1> DEFINE worth == Worth(Append(none, x), kinds)
           of == Of(x, kinds)
<1>4. worth = 0 + of /\ of \in Int
  BY <1>1, <1>2, <1>3
<1> HIDE DEF worth, of
<1>5. worth = of
  BY <1>4
<1> QED BY <1>1, <1>5 DEF worth, of

\* A frame or request of round r is worth the rounds from there to the third.
LEMMA FrameWorth ==
  ASSUME NEW f \in Frames
  PROVE  /\ ConfirmRound(f) = {} => Of(f, FrameKinds) = 0
         /\ \A r \in 0 .. 3 : ConfirmRound(f) = {r} => Of(f, FrameKinds) = 3 - r
         /\ Of(f, FrameKinds) \in 0 .. 3
<1>1. \A k \in 1 .. 3 : f \in FrameKinds[k] <=> \E r \in ConfirmRound(f) : r + k <= 3
  BY DEF FrameKinds
<1>2. ASSUME ConfirmRound(f) = {} PROVE Of(f, FrameKinds) = 0
  BY <1>1, <1>2 DEF Of, One
<1>3. ASSUME NEW r \in 0 .. 3, ConfirmRound(f) = {r} PROVE Of(f, FrameKinds) = 3 - r
  <2>1. \A k \in 1 .. 3 : f \in FrameKinds[k] <=> r + k <= 3
    BY <1>1, <1>3
  <2> QED BY <2>1 DEF Of, One
<1>4. Of(f, FrameKinds) \in 0 .. 3
  <2>1. ConfirmRound(f) \in {{}, {0}, {1}, {2}, {3}}
    BY Rounds
  <2> QED BY <1>2, <1>3, <2>1
<1> QED BY <1>2, <1>3, <1>4

LEMMA RequestWorth ==
  ASSUME NEW q \in Requests
  PROVE  /\ \A r \in 0 .. 3 : RequestRound(q) = {r} => Of(q, RequestKinds) = 3 - r
         /\ Of(q, RequestKinds) \in 0 .. 3
<1>1. \A k \in 1 .. 3 : q \in RequestKinds[k] <=> \E r \in RequestRound(q) : r + k <= 3
  BY DEF RequestKinds
<1>2. ASSUME NEW r \in 0 .. 3, RequestRound(q) = {r} PROVE Of(q, RequestKinds) = 3 - r
  <2>1. \A k \in 1 .. 3 : q \in RequestKinds[k] <=> r + k <= 3
    BY <1>1, <1>2
  <2> QED BY <2>1 DEF Of, One
<1>3. RequestRound(q) \in {{0}, {1}, {2}, {3}}
  BY Rounds
<1>4. Of(q, RequestKinds) \in 0 .. 3
  BY <1>2, <1>3
<1> QED BY <1>2, <1>4

\* The summands are numbers.
LEMMA Summands ==
  ASSUME NvsInv
  PROVE  /\ from_module \in Seq(Frames) /\ to_module \in Seq(Requests)
         /\ tx_fifo \in Seq(Requests)
         /\ Worth(from_module, FrameKinds) \in Nat /\ Worth(to_module, RequestKinds) \in Nat
         /\ Worth(tx_fifo, RequestKinds) \in Nat /\ Len(tx_fifo) \in Nat
         /\ Erasure \in {0, 2} /\ AtModule \in Nat /\ Queued \in Nat
         /\ reset_ind \in {0, 1} /\ resent \in Nat /\ tx_seq_l \in Nat
<1>1. /\ from_module \in Seq(Frames) /\ to_module \in Seq(Requests)
      /\ tx_fifo \in Seq(Requests) /\ reset_ind \in {0, 1} /\ resent \in Nat
      /\ tx_seq_l \in 0 .. 255
  BY DEF NvsInv, WireOK, IInv, TypeOK
<1>2. /\ Worth(from_module, FrameKinds) \in Nat /\ Worth(to_module, RequestKinds) \in Nat
      /\ Worth(tx_fifo, RequestKinds) \in Nat
  BY <1>1, WorthOf
<1>3. Len(tx_fifo) \in Nat /\ tx_seq_l \in Nat
  BY <1>1
<1>4. Erasure \in {0, 2}
  BY DEF Erasure
<1>5. AtModule \in Nat /\ Queued \in Nat
  BY <1>2, <1>3, <1>4 DEF AtModule, Queued
<1> QED BY <1>1, <1>2, <1>3, <1>4, <1>5

\* At first the four packets of one sequence are to come.
LEMMA FewAtFirst == NvsInit => PacketInv
<1> SUFFICES ASSUME NvsInit PROVE PacketInv
  OBVIOUS
<1> DEFINE first == InfoFrame(0, "RESET_IND")
           samb == <<SambFrame>>
<1>1. /\ to_module = << >> /\ tx_fifo = << >> /\ from_module = <<SambFrame, first>>
      /\ reset_ind = 0 /\ resent = 0 /\ erasing = FALSE /\ tx_seq_l = 0
      /\ answer.infos = << >>
  BY DEF NvsInit, Init, Announcement, NoAnswer
<1>2. /\ first \in Frames /\ ConfirmRound(first) = {}
      /\ SambFrame \in Frames /\ ConfirmRound(SambFrame) = {}
  BY AnnouncementFrames
<1>3. Of(first, FrameKinds) = 0 /\ Of(SambFrame, FrameKinds) = 0
  BY <1>2, FrameWorth
<1> HIDE DEF first
<1>4. from_module = Append(samb, first) /\ samb = <<SambFrame>>
      /\ samb \in Seq(Frames)
  BY <1>1, <1>2
<1> HIDE DEF samb
<1>5. Worth(from_module, FrameKinds) = 0
  <2>1. Worth(samb, FrameKinds) = 0
    BY <1>2, <1>3, <1>4, WorthOne
  <2>2. ASSUME NEW frames \in Seq(Frames)
        PROVE  Worth(Append(frames, first), FrameKinds)
                   = Worth(frames, FrameKinds) + Of(first, FrameKinds)
    BY <1>2, WorthOf
  <2>3. Worth(from_module, FrameKinds) = Worth(samb, FrameKinds) + Of(first, FrameKinds)
    BY <1>2, <1>4, <2>2
  <2> QED BY <1>3, <2>1, <2>3
<1>6. /\ Worth(to_module, RequestKinds) = 0 /\ Worth(tx_fifo, RequestKinds) = 0
      /\ Len(tx_fifo) = 0 /\ Erasure = 0
  BY <1>1, WorthEmpty DEF Erasure
<1>7. FewPackets
  BY <1>1, <1>5, <1>6 DEF FewPackets, ToCome, AtModule, Queued
<1>8. PacketsAreInformation
  <2>1. Len(answer.infos) = 0
    BY <1>1
  <2> QED BY <2>1 DEF PacketsAreInformation
<1> QED BY <1>7, <1>8 DEF PacketInv

\* Taking a frame leaves the transmit counter or clears it, and the answer begins
\* without packets or is the one before.
LEMMA TakenQuietly ==
  ASSUME NEW h, NEW id, NEW queue, busmail_dispatch(h, id, queue), tx_seq_l \in Nat
  PROVE  /\ tx_seq_l' \in Nat /\ tx_seq_l' <= tx_seq_l
         /\ answer'.infos = << >> \/ answer' = answer
<1>1. CASE information_frame(h, id, queue)
  BY <1>1 DEF information_frame, TakeNumbers, NoAnswer
<1>2. CASE information_frame_dropped(h, id)
  BY <1>2 DEF information_frame_dropped, link_vars, counters
<1>3. CASE supervisory_control_frame(h)
  BY <1>3 DEF supervisory_control_frame
<1>4. CASE unnumbered_control_frame(h)
  BY <1>4 DEF unnumbered_control_frame, NoAnswer, counters
<1> QED BY <1>1, <1>2, <1>3, <1>4 DEF busmail_dispatch

\* No packet is added to the answer.
LEMMA StillInformation ==
  ASSUME PacketsAreInformation, answer'.infos = << >> \/ answer'.infos = answer.infos,
         resent \in Nat, resent' = resent \/ resent' = resent + 1
  PROVE  PacketsAreInformation'
<1> SUFFICES ASSUME resent' <= 1, NEW i \in 1 .. Len(answer'.infos)
             PROVE  ~IsControl(answer'.infos[i].header)
  BY DEF PacketsAreInformation
<1>1. answer'.infos = answer.infos
  <2>1. Len(<< >>) = 0
    OBVIOUS
  <2> QED BY <2>1
<1>2. resent <= 1
  OBVIOUS
<1> QED BY <1>1, <1>2 DEF PacketsAreInformation

\* A frame is taken: its request, if any, is worth what the frame was.
LEMMA FewReceived == ASSUME NvsInv, NvsInv', PacketInv, Receive PROVE PacketInv'
<1> DEFINE queue == application_frame(Frame.mail)
<1>1. /\ Frame \in Frames /\ Frame.mail # "GET_NVS_CFM"
      /\ from_module # << >> /\ from_module' = Tail(from_module)
      /\ tx_fifo = << >>
      /\ reset_ind' = IF Frame.mail = "RESET_IND" THEN 1 ELSE reset_ind
      /\ UNCHANGED <<to_module, erasing, resent>>
      /\ \/ Frame \in InformationFrames /\ tx_fifo' = queue
         \/ Frame \notin InformationFrames /\ tx_fifo' = << >>
  BY Received
<1>2. /\ tx_seq_l' \in Nat /\ tx_seq_l' <= tx_seq_l
      /\ answer'.infos = << >> \/ answer' = answer
  <2>1. busmail_dispatch(Frame.header, Frame.program_id, queue)
    BY DEF Receive, Frame
  <2>2. tx_seq_l \in Nat
    BY Summands
  <2> HIDE DEF queue
  <2> QED BY <2>1, <2>2, TakenQuietly
<1>3. PacketsAreInformation'
  BY <1>1, <1>2, Summands, StillInformation DEF PacketInv
<1>4. \/ /\ Frame.mail = "RESET_IND" /\ reset_ind = 0
         /\ Frame \in InformationFrames
         /\ queue = <<"GET_FW_VERSION_REQ">> /\ Frame \notin Finals
      \/ /\ Frame \in Finals /\ Frame \in InformationFrames
         /\ Frame.mail # "RESET_IND"
         /\ \E r \in 0 .. 2, q \in Requests :
               /\ queue = <<q>>
               /\ ConfirmRound(Frame) = {r} /\ RequestRound(q) = {r + 1}
      \/ /\ Frame \notin Finals /\ queue = << >>
         /\ ~(Frame.mail = "RESET_IND" /\ reset_ind = 0)
  BY <1>1, Summands, Enqueued
<1> HIDE DEF queue
<1> DEFINE before == Worth(from_module, FrameKinds)
           after == Worth(from_module', FrameKinds)
           there == Worth(to_module, RequestKinds)
           fresh == Worth(tx_fifo', RequestKinds)
           length == Len(tx_fifo')
           erased == Erasure
           one == Of(Frame, FrameKinds)
<1>5. /\ before \in Nat /\ after \in Nat /\ there \in Nat /\ fresh \in Nat
      /\ erased \in {0, 2} /\ one \in 0 .. 3 /\ before = after + one
      /\ length \in Nat /\ tx_seq_l \in Nat /\ reset_ind \in {0, 1} /\ resent \in Nat
  <2>1. /\ before \in Nat /\ there \in Nat /\ erased \in {0, 2} /\ tx_seq_l \in Nat
        /\ reset_ind \in {0, 1} /\ resent \in Nat /\ from_module \in Seq(Frames)
    BY Summands
  <2>2. from_module' \in Seq(Frames) /\ tx_fifo' \in Seq(Requests)
    BY DEF NvsInv, WireOK
  <2>3. after \in Nat /\ fresh \in Nat /\ length \in Nat
    BY <2>2, WorthOf
  <2>4. one \in 0 .. 3
    BY <1>1, FrameWorth
  <2>5. before = after + one
    BY <1>1, <2>1, WorthOf DEF Frame
  <2> QED BY <2>1, <2>3, <2>4, <2>5
<1>6. /\ Erasure' = erased
      /\ AtModule' = after + there + erased
      /\ Queued' = fresh + length
  BY <1>1 DEF Erasure, AtModule, Queued
<1>7. AtModule = before + there + erased /\ Queued = 0
  <2>1. Worth(tx_fifo, RequestKinds) = 0 /\ Len(tx_fifo) = 0
    BY <1>1, WorthEmpty
  <2> QED BY <2>1 DEF AtModule, Queued
<1>8. tx_seq_l + before + there + erased + 4 * (1 - reset_ind) <= 4 + 3 * resent
  <2>1. tx_seq_l + (before + there + erased + 0 + 4 * (1 - reset_ind)) <= 4 + 3 * resent
    BY <1>7 DEF PacketInv, FewPackets, ToCome
  <2> HIDE DEF before, there, erased
  <2> QED BY <1>5, <2>1
<1>9. ASSUME tx_seq_l' + (after + there + erased + (fresh + length) + 4 * (1 - reset_ind'))
                 <= 4 + 3 * resent
      PROVE  FewPackets'
  BY <1>1, <1>6, <1>9 DEF FewPackets, ToCome
<1>10. fresh + length + 4 * (1 - reset_ind') <= one + 4 * (1 - reset_ind)
       /\ reset_ind' \in {0, 1}
  <2>1. << >> \in Seq(Requests) /\ Worth(<< >>, RequestKinds) = 0
    BY WorthEmpty
  <2>2. ASSUME NEW q \in Requests, NEW r \in 0 .. 3, RequestRound(q) = {r}, tx_fifo' = <<q>>
        PROVE  fresh = 3 - r /\ length = 1
    <3>1. length = 1
      BY <2>2
    <3>2. fresh = Of(q, RequestKinds)
      BY <2>2, WorthOne
    <3>3. Of(q, RequestKinds) = 3 - r
      BY <2>2, RequestWorth
    <3> QED BY <3>1, <3>2, <3>3
  <2>3. CASE /\ Frame.mail = "RESET_IND" /\ reset_ind = 0
             /\ Frame \in InformationFrames
             /\ queue = <<"GET_FW_VERSION_REQ">>
    <3>1. "GET_FW_VERSION_REQ" \in Requests /\ RequestRound("GET_FW_VERSION_REQ") = {0}
      BY DEF Requests, RequestRound
    <3>2. fresh = 3 - 0 /\ length = 1
      BY <1>1, <2>2, <2>3, <3>1
    <3>3. reset_ind' = 1
      BY <1>1, <2>3
    <3> HIDE DEF fresh, length, one
    <3> QED BY <1>5, <2>3, <3>2, <3>3
  <2>4. ASSUME Frame \in InformationFrames, Frame.mail # "RESET_IND",
               NEW r \in 0 .. 2, NEW q \in Requests, queue = <<q>>,
               ConfirmRound(Frame) = {r}, RequestRound(q) = {r + 1}
        PROVE  fresh + length + 4 * (1 - reset_ind') <= one + 4 * (1 - reset_ind)
               /\ reset_ind' \in {0, 1}
    <3>1. r + 1 \in 0 .. 3 /\ r \in 0 .. 3
      OBVIOUS
    <3>2. fresh = 3 - (r + 1) /\ length = 1
      BY <1>1, <2>2, <2>4, <3>1
    <3>3. one = 3 - r
      BY <1>1, <2>4, <3>1, FrameWorth
    <3>4. reset_ind' = reset_ind
      BY <1>1, <2>4
    <3> HIDE DEF fresh, length, one
    <3> QED BY <1>5, <3>2, <3>3, <3>4
  <2>5. CASE tx_fifo' = << >> /\ ~(Frame.mail = "RESET_IND" /\ reset_ind = 0)
    <3>1. fresh = 0 /\ length = 0
      BY <2>1, <2>5
    <3>2. reset_ind' = reset_ind
      BY <1>1, <1>5, <2>5
    <3> HIDE DEF fresh, length, one
    <3> QED BY <1>5, <3>1, <3>2
  <2>6. CASE Frame \notin InformationFrames
    <3>1. Frame.mail # "RESET_IND"
      BY <1>1, <2>6 DEF Frames, ForeignFrame, SambFrame
    <3> QED BY <1>1, <2>5, <2>6, <3>1
  <2> QED BY <1>1, <1>4, <2>3, <2>4, <2>5, <2>6
<1>11. FewPackets'
  <2> HIDE DEF before, after, there, fresh, length, erased, one
  <2> DEFINE t == 4 * (1 - reset_ind)
             seen == reset_ind'
             u == 4 * (1 - seen)
             number == tx_seq_l'
             limit == 4 + 3 * resent
  <2>1. t \in Nat /\ u \in Nat /\ limit \in Nat
    <3>1. reset_ind \in {0, 1} /\ seen \in {0, 1} /\ resent \in Nat
      BY <1>5, <1>10
    <3> HIDE DEF seen
    <3> QED BY <3>1
  <2>2. fresh + length + u <= one + t /\ tx_seq_l + before + there + erased + t <= limit
    BY <1>8, <1>10
  <2>3. number \in Nat /\ number <= tx_seq_l
    BY <1>2
  <2> HIDE DEF t, u, limit, number, seen
  <2>4. /\ before \in Nat /\ after \in Nat /\ there \in Nat /\ fresh \in Nat
        /\ erased \in Nat /\ one \in Nat /\ length \in Nat /\ tx_seq_l \in Nat
        /\ before = after + one
    BY <1>5
  <2>5. number + (after + there + erased + (fresh + length) + u) <= limit
    BY <2>1, <2>2, <2>3, <2>4
  <2> QED BY <1>9, <2>5 DEF u, limit, number, seen
<1> QED BY <1>3, <1>11 DEF PacketInv

\* The last confirm is worth nothing, and its answer has no packets.
LEMMA FewStored == ASSUME NvsInv, NvsInv', PacketInv, ReceiveStorage PROVE PacketInv'
<1>1. /\ Frame.mail = "GET_NVS_CFM" /\ from_module # << >>
      /\ from_module' = Tail(from_module) /\ answer'.infos = << >>
      /\ UNCHANGED <<to_module, tx_fifo, tx_seq_l, erasing, reset_ind, resent>>
  BY DEF ReceiveStorage, Frame, module_vars, bounds, TakeNumbers, NoAnswer
<1>2. PacketsAreInformation'
  BY <1>1, Summands, StillInformation DEF PacketInv
<1>3. Frame \in Frames /\ from_module \in Seq(Frames)
  BY <1>1, Summands DEF Frame
<1>4. ConfirmRound(Frame) = {3}
  BY <1>1 DEF ConfirmRound, SetNvsConfirms
<1>5. Of(Frame, FrameKinds) = 3 - 3
  BY <1>3, <1>4, FrameWorth
<1> DEFINE before == Worth(from_module, FrameKinds)
           after == Worth(from_module', FrameKinds)
<1>6. before = after
  <2>1. before = after + Of(Frame, FrameKinds)
    BY <1>1, <1>3, WorthOf DEF Frame
  <2>2. after \in Nat
    BY WorthOf DEF NvsInv, WireOK
  <2> HIDE DEF before, after
  <2> QED BY <1>5, <2>1, <2>2
<1>7. FewPackets'
  BY <1>1, <1>6 DEF PacketInv, FewPackets, ToCome, AtModule, Queued, Erasure
<1> QED BY <1>2, <1>7 DEF PacketInv

\* A header with a number below 8 has no type bit.
LEMMA LowNumber ==
  ASSUME NEW l \in 0 .. 7, NEW rx \in 0 .. 8
  PROVE  ~IsControl(HeaderByte(l, PF, rx))
<1>1. (l * 16) % 256 <= 112 /\ (l * 16) % 256 \in Nat
  BY SMT
<1>2. rx % 8 \in 0 .. 7
  BY SMT
<1> QED BY <1>1, <1>2, SMT DEF IsControl, HeaderByte

\* A packet goes out: it is on the line instead of in the queue, and counted.
LEMMA FewSent == ASSUME NvsInv, NvsInv', PacketInv, Send PROVE PacketInv'
<1> DEFINE x == Head(tx_fifo)
           packet == [header |-> make_info_frame(PF), data |-> x]
<1>1. /\ tx_fifo # << >> /\ tx_fifo' = Tail(tx_fifo)
      /\ to_module' = Append(to_module, x)
      /\ answer' = [answer EXCEPT !.infos = Append(@, packet)]
      /\ tx_seq_l' = (tx_seq_l + 1) % 256
      /\ UNCHANGED <<from_module, reset_ind, erasing, resent>>
  BY DEF Send, Transmit, module_vars, bounds
<1>2. /\ to_module \in Seq(Requests) /\ tx_fifo \in Seq(Requests) /\ x \in Requests
      /\ tx_seq_l \in 0 .. 255 /\ rx_seq_l \in 0 .. 8
      /\ answer.infos \in Seq(Info)
      /\ answer \in [number : (-1) .. 7, queued : Seq(Data), infos : Seq(Info),
                     acks : Seq(0 .. 255)]
  <2>1. to_module \in Seq(Requests) /\ tx_fifo \in Seq(Requests)
    BY Summands
  <2>2. x \in Requests
    BY <1>1, <2>1
  <2>3. /\ tx_seq_l \in 0 .. 255 /\ rx_seq_l \in 0 .. 8
        /\ answer \in [number : (-1) .. 7, queued : Seq(Data), infos : Seq(Info),
                       acks : Seq(0 .. 255)]
    BY DEF NvsInv, IInv, TypeOK
  <2>4. answer.infos \in Seq(Info)
    BY <2>3
  <2> QED BY <2>1, <2>2, <2>3, <2>4
<1> DEFINE frames == Worth(from_module, FrameKinds)
           there == Worth(to_module, RequestKinds)
           here == Worth(tx_fifo, RequestKinds)
           length == Len(tx_fifo)
           one == Of(x, RequestKinds)
           left == Worth(tx_fifo', RequestKinds)
           limit == 4 + 3 * resent
           unseen == 4 * (1 - reset_ind)
           number == tx_seq_l'
<1>3. /\ frames \in Nat /\ there \in Nat /\ here \in Nat /\ length \in Nat
      /\ Erasure \in {0, 2} /\ unseen \in Nat /\ limit \in Nat
      /\ one \in 0 .. 3 /\ left \in Nat
  <2>1. one \in 0 .. 3
    BY <1>2, RequestWorth
  <2>2. left \in Nat
    BY WorthOf DEF NvsInv, WireOK
  <2>3. reset_ind \in {0, 1} /\ resent \in Nat
    BY Summands
  <2>4. unseen \in Nat /\ limit \in Nat
    BY <2>3
  <2> QED BY <2>1, <2>2, <2>4, Summands
<1>4. /\ Worth(to_module', RequestKinds) = there + one
      /\ here = left + one
      /\ Len(tx_fifo') = length - 1 /\ length >= 1
  <2>1. Worth(to_module', RequestKinds) = there + one
    BY <1>1, <1>2, WorthOf
  <2>2. here = left + one
    BY <1>1, <1>2, WorthOf
  <2>3. Len(tx_fifo') = length - 1 /\ length >= 1
    BY <1>1, <1>2
  <2> QED BY <2>1, <2>2, <2>3
<1>5. tx_seq_l + (frames + there + Erasure + (here + length) + unseen) <= limit
  BY DEF PacketInv, FewPackets, ToCome, AtModule, Queued
<1>6. ASSUME number + (frames + (there + one) + Erasure + (left + (length - 1)) + unseen)
                 <= limit
      PROVE  FewPackets'
  BY <1>1, <1>4, <1>6 DEF FewPackets, ToCome, AtModule, Queued, Erasure
<1>7. number \in Nat /\ number <= tx_seq_l + 1
  <2>1. tx_seq_l \in 0 .. 255
    BY <1>2
  <2>2. \A l \in 0 .. 255 : (l + 1) % 256 \in Nat /\ (l + 1) % 256 <= l + 1
    BY SMT
  <2>3. (tx_seq_l + 1) % 256 \in Nat /\ (tx_seq_l + 1) % 256 <= tx_seq_l + 1
    BY <2>1, <2>2
  <2> QED BY <1>1, <2>3
<1>8. resent <= 1 => tx_seq_l \in 0 .. 7
  <2>1. resent <= 1 => limit <= 7
    BY Summands
  <2>2. tx_seq_l \in Nat
    BY Summands
  <2>3. length \in Nat /\ length >= 1
    BY <1>3, <1>4
  <2> HIDE DEF frames, there, here, length, unseen, limit
  <2>4. tx_seq_l + 1 <= limit
    BY <1>3, <1>5, <2>2, <2>3
  <2> QED BY <1>3, <2>1, <2>2, <2>4
<1>9. FewPackets'
  <2> HIDE DEF frames, there, here, length, unseen, limit, number, one, left
  <2>1. here = left + one
    BY <1>4
  <2>2. tx_seq_l \in Nat
    BY Summands
  <2>3. number + (frames + (there + one) + Erasure + (left + (length - 1)) + unseen) <= limit
    BY <1>3, <1>5, <1>7, <2>1, <2>2
  <2> QED BY <1>6, <2>3
<1>10. PacketsAreInformation'
  <2> SUFFICES ASSUME resent <= 1, NEW i \in 1 .. Len(answer'.infos)
               PROVE  ~IsControl(answer'.infos[i].header)
    BY <1>1 DEF PacketsAreInformation
  <2>1. ~IsControl(packet.header)
    <3>1. packet.header = HeaderByte(tx_seq_l, PF, rx_seq_l)
      BY DEF make_info_frame
    <3> QED BY <1>2, <1>8, <3>1, LowNumber
  <2> HIDE DEF packet, x
  <2>2. answer'.infos = Append(answer.infos, packet)
    BY <1>1, <1>2
  <2>3. \/ i \in 1 .. Len(answer.infos) /\ answer'.infos[i] = answer.infos[i]
        \/ answer'.infos[i] = packet
    BY <1>2, <2>2
  <2> QED BY <2>1, <2>3 DEF PacketInv, PacketsAreInformation
<1> QED BY <1>9, <1>10 DEF PacketInv

\* Nothing is sent or taken when the loop ends.
LEMMA FewAnswered == ASSUME NvsInv, PacketInv, Answered PROVE PacketInv'
<1>1. /\ UNCHANGED <<tx_fifo, to_module, from_module, reset_ind, erasing, resent, tx_seq_l>>
      /\ answer' = IF ack
                   THEN [answer EXCEPT !.acks =
                           Append(@, make_supervisory_frame(SUID_RR, NO_PF))]
                   ELSE answer
  BY DEF Answered, Finish, module_vars, bounds, counters
<1>2. answer'.infos = answer.infos
  <2>1. answer \in [number : (-1) .. 7, queued : Seq(Data), infos : Seq(Info),
                    acks : Seq(0 .. 255)]
    BY DEF NvsInv, IInv, TypeOK
  <2> QED BY <1>1, <2>1
<1>3. PacketsAreInformation'
  BY <1>1, <1>2 DEF PacketInv, PacketsAreInformation
<1>4. FewPackets'
  BY <1>1 DEF PacketInv, FewPackets, ToCome, AtModule, Queued, Erasure
<1> QED BY <1>3, <1>4 DEF PacketInv

\* The module makes no more of what it has, but for a frame sent again.
LEMMA ModuleStill ==
  ASSUME NvsInv, NvsInv', PacketInv, UNCHANGED host_vars,
         \/ resent' = resent /\ AtModule' <= AtModule
         \/ resent' = resent + 1 /\ AtModule' <= AtModule + 3
  PROVE  PacketInv'
<1>1. UNCHANGED <<tx_fifo, reset_ind, tx_seq_l, answer>>
  BY DEF host_vars, link_vars, counters
<1>2. PacketsAreInformation'
  BY <1>1, Summands, StillInformation DEF PacketInv
<1>3. /\ AtModule \in Nat /\ Queued \in Nat /\ reset_ind \in {0, 1} /\ resent \in Nat
      /\ tx_seq_l \in Nat
  BY Summands
<1>4. Queued' = Queued
  BY <1>1 DEF Queued
<1> DEFINE now == AtModule'
           again == resent'
           unseen == 4 * (1 - reset_ind)
<1>5. unseen \in Nat
  <2>1. reset_ind \in {0, 1}
    BY <1>3
  <2> QED BY <2>1
<1>6. tx_seq_l + (AtModule + Queued + unseen) <= 4 + 3 * resent
  BY DEF PacketInv, FewPackets, ToCome
<1>7. now \in Nat
  <2>1. /\ from_module' \in Seq(Frames) /\ to_module' \in Seq(Requests)
    BY DEF NvsInv, WireOK
  <2>2. Worth(from_module', FrameKinds) \in Nat /\ Worth(to_module', RequestKinds) \in Nat
    BY <2>1, WorthOf
  <2>3. Erasure' \in {0, 2}
    BY DEF Erasure
  <2> DEFINE a == Worth(from_module', FrameKinds)
             b == Worth(to_module', RequestKinds)
             e == Erasure'
  <2>4. now = a + b + e
    BY DEF AtModule
  <2>5. a \in Nat /\ b \in Nat /\ e \in {0, 2}
    BY <2>2, <2>3
  <2> HIDE DEF now, a, b, e
  <2> QED BY <2>4, <2>5
<1>8. \/ again = resent /\ now <= AtModule
      \/ again = resent + 1 /\ now <= AtModule + 3
  OBVIOUS
<1>9. ASSUME tx_seq_l + (now + Queued + unseen) <= 4 + 3 * again
      PROVE  FewPackets'
  BY <1>1, <1>4, <1>9 DEF FewPackets, ToCome
<1> HIDE DEF now, again, unseen
<1>10. tx_seq_l + (now + Queued + unseen) <= 4 + 3 * again
  BY <1>3, <1>5, <1>6, <1>7, <1>8
<1> QED BY <1>2, <1>9, <1>10 DEF PacketInv

\* A request is answered by a frame of its round, or by one of none and perhaps an
\* erasure.
LEMMA FewReplied ==
  ASSUME NvsInv, NvsInv', PacketInv, UNCHANGED host_vars, to_module # << >>,
         to_module' = Tail(to_module), ~erasing, resent' = resent,
         NEW f \in Frames, from_module' = Append(from_module, f),
         \/ ~erasing' /\ ConfirmRound(f) = RequestRound(Head(to_module))
         \/ ConfirmRound(f) = {} /\ ~erasing'
         \/ ConfirmRound(f) = {} /\ RequestRound(Head(to_module)) = {1}
  PROVE  PacketInv'
<1> DEFINE x == Head(to_module)
           frames == Worth(from_module, FrameKinds)
           requests == Worth(to_module, RequestKinds)
           left == Worth(to_module', RequestKinds)
           one == Of(x, RequestKinds)
           sent == Of(f, FrameKinds)
           now == Erasure'
<1>1. x \in Requests
  BY Summands
<1>2. /\ frames \in Nat /\ requests \in Nat /\ left \in Nat /\ requests = left + one
      /\ Worth(from_module', FrameKinds) = frames + sent
  <2>1. frames \in Nat /\ requests \in Nat
    BY Summands
  <2>2. left \in Nat
    BY WorthOf DEF NvsInv, WireOK
  <2>3. requests = left + one
    BY Summands, WorthOf
  <2>4. Worth(from_module', FrameKinds) = frames + sent
    BY Summands, WorthOf
  <2> QED BY <2>1, <2>2, <2>3, <2>4
<1>3. PICK r \in 0 .. 3 : RequestRound(x) = {r}
  BY Rounds
<1>4. one = 3 - r
  BY <1>1, <1>3, RequestWorth
<1>5. ConfirmRound(f) = {} => sent = 0
  BY FrameWorth
<1>6. ConfirmRound(f) = {r} => sent = 3 - r
  BY FrameWorth
<1>7. sent + now <= one /\ now \in {0, 2} /\ sent \in Nat
  <2>1. ~erasing' => now = 0
    BY DEF Erasure
  <2>2. now \in {0, 2}
    BY DEF Erasure
  <2>3. CASE ~erasing' /\ ConfirmRound(f) = RequestRound(x)
    BY <1>3, <1>4, <1>6, <2>1, <2>2, <2>3
  <2>4. CASE ConfirmRound(f) = {} /\ ~erasing'
    BY <1>3, <1>4, <1>5, <2>1, <2>2, <2>4
  <2>5. CASE ConfirmRound(f) = {} /\ RequestRound(x) = {1}
    <3>1. r = 1
      BY <1>3, <2>5
    <3>2. sent = 0 /\ one = 2
      BY <1>4, <1>5, <2>5, <3>1
    <3> HIDE DEF now, sent, one
    <3> QED BY <2>2, <3>2
  <2> QED BY <2>3, <2>4, <2>5
<1>8. AtModule' = (frames + sent) + left + now
  BY <1>2 DEF AtModule
<1>9. AtModule = frames + requests + 0
  BY DEF AtModule, Erasure
<1> DEFINE total == AtModule'
<1>10. total = (frames + sent) + left + now
  BY <1>8
<1>11. total <= AtModule
  <2>1. one \in Nat
    BY <1>3, <1>4
  <2> HIDE DEF total, frames, requests, left, one, sent, now
  <2> QED BY <1>2, <1>7, <1>9, <1>10, <2>1
<1> QED BY <1>11, ModuleStill

LEMMA FewRepliedOrFailed ==
  ASSUME NvsInv, NvsInv', PacketInv, ModuleReplies \/ ModuleFails
  PROVE  PacketInv'
<1>1. /\ UNCHANGED host_vars /\ to_module # << >> /\ to_module' = Tail(to_module)
      /\ ~erasing /\ resent' = resent
  BY DEF ModuleReplies, ModuleFails, bounds
<1>2. m_seq \in 0 .. 7
  BY DEF NvsInv, WireOK
<1>3. ASSUME NEW mail \in Mails, ModuleSends(mail),
             \A f \in Frames : f.mail = mail =>
                 \/ ~erasing' /\ ConfirmRound(f) = RequestRound(Head(to_module))
                 \/ ConfirmRound(f) = {} /\ ~erasing'
                 \/ ConfirmRound(f) = {} /\ RequestRound(Head(to_module)) = {1}
      PROVE  PacketInv'
  <2> DEFINE f == InfoFrame(m_seq, mail)
  <2>1. f \in Frames /\ f.mail = mail
    BY <1>2, FrameMade
  <2>2. from_module' = Append(from_module, f)
    BY <1>3 DEF ModuleSends
  <2>3. \/ ~erasing' /\ ConfirmRound(f) = RequestRound(Head(to_module))
        \/ ConfirmRound(f) = {} /\ ~erasing'
        \/ ConfirmRound(f) = {} /\ RequestRound(Head(to_module)) = {1}
    BY <1>3, <2>1
  <2> HIDE DEF f
  <2> QED BY <1>1, <2>1, <2>2, <2>3, FewReplied
<1>4. CASE Head(to_module) = "GET_FW_VERSION_REQ" /\ ModuleSends("FW_VERSION_CFM")
           /\ UNCHANGED erasing
  <2>1. "FW_VERSION_CFM" \in Mails
    BY DEF Mails
  <2> QED BY <1>1, <1>3, <1>4, <2>1 DEF ConfirmRound, RequestRound
<1>5. CASE Head(to_module) = "NVS_DEFAULT" /\ ModuleSends("NVS_DEFAULT_OK")
           /\ UNCHANGED erasing
  <2>1. "NVS_DEFAULT_OK" \in Mails
    BY DEF Mails
  <2> QED BY <1>1, <1>3, <1>5, <2>1 DEF ConfirmRound, RequestRound
<1>6. CASE Head(to_module) = "NVS_DEFAULT" /\ ModuleSends("NVS_DEFAULT_PENDING")
  <2>1. "NVS_DEFAULT_PENDING" \in Mails
    BY DEF Mails
  <2> QED BY <1>3, <1>6, <2>1 DEF ConfirmRound, RequestRound, SetNvsConfirms
<1>7. CASE Head(to_module) = "SET_NVS" /\ UNCHANGED erasing
           /\ (ModuleSends("SET_NVS_OK") \/ ModuleSends("SET_NVS_FAIL"))
  <2>1. "SET_NVS_OK" \in Mails /\ "SET_NVS_FAIL" \in Mails
    BY DEF Mails, SetNvsConfirms
  <2> QED BY <1>1, <1>3, <1>7, <2>1 DEF ConfirmRound, RequestRound, SetNvsConfirms
<1>8. CASE Head(to_module) = "GET_NVS" /\ ModuleSends("GET_NVS_CFM") /\ UNCHANGED erasing
  <2>1. "GET_NVS_CFM" \in Mails
    BY DEF Mails
  <2> QED BY <1>1, <1>3, <1>8, <2>1 DEF ConfirmRound, RequestRound, SetNvsConfirms
<1>9. CASE Head(to_module) = "NVS_DEFAULT" /\ ModuleSends("NVS_DEFAULT_FAIL")
           /\ UNCHANGED erasing
  <2>1. "NVS_DEFAULT_FAIL" \in Mails
    BY DEF Mails
  <2> QED BY <1>1, <1>3, <1>9, <2>1 DEF ConfirmRound, RequestRound, SetNvsConfirms
<1>10. CASE ModuleReplies
  BY <1>4, <1>5, <1>6, <1>7, <1>8, <1>10 DEF ModuleReplies
<1>11. CASE ModuleFails
  BY <1>7, <1>9, <1>11 DEF ModuleFails
<1> QED BY <1>10, <1>11

\* A frame is sent that is worth no more than what makes room for it.
LEMMA FewMore ==
  ASSUME NvsInv, NvsInv', PacketInv, UNCHANGED host_vars, to_module' = to_module,
         NEW f \in Frames, from_module' = Append(from_module, f),
         \/ resent' = resent /\ erasing' = erasing /\ ConfirmRound(f) = {}
         \/ resent' = resent /\ erasing /\ ~erasing' /\ ConfirmRound(f) = {1}
         \/ resent' = resent + 1 /\ erasing' = erasing
  PROVE  PacketInv'
<1> DEFINE frames == Worth(from_module, FrameKinds)
           requests == Worth(to_module, RequestKinds)
           sent == Of(f, FrameKinds)
           now == Erasure'
           total == AtModule'
           again == resent'
<1>1. /\ frames \in Nat /\ requests \in Nat /\ Erasure \in {0, 2} /\ resent \in Nat
      /\ AtModule = frames + requests + Erasure
  BY Summands DEF AtModule
<1>2. Worth(from_module', FrameKinds) = frames + sent
  BY Summands, WorthOf
<1>3. total = (frames + sent) + requests + now
  BY <1>2 DEF AtModule
<1>4. /\ ConfirmRound(f) = {} => sent = 0
      /\ ConfirmRound(f) = {1} => sent = 3 - 1
      /\ sent \in 0 .. 3
  BY FrameWorth
<1>5. now \in {0, 2} /\ (erasing' = erasing => now = Erasure)
      /\ (erasing /\ ~erasing' => now = 0 /\ Erasure = 2)
  BY DEF Erasure
<1>6. \/ again = resent /\ sent + now <= Erasure
      \/ again = resent + 1 /\ sent + now <= Erasure + 3
  <2>1. CASE resent' = resent /\ erasing' = erasing /\ ConfirmRound(f) = {}
    BY <1>1, <1>4, <1>5, <2>1
  <2>2. CASE resent' = resent /\ erasing /\ ~erasing' /\ ConfirmRound(f) = {1}
    BY <1>1, <1>4, <1>5, <2>2
  <2>3. CASE resent' = resent + 1 /\ erasing' = erasing
    <3>1. now = Erasure /\ again = resent + 1
      BY <1>5, <2>3
    <3> HIDE DEF now, again, sent
    <3> QED BY <1>1, <1>4, <3>1
  <2> QED BY <2>1, <2>2, <2>3
<1>7. \/ again = resent /\ total <= AtModule
      \/ again = resent + 1 /\ total <= AtModule + 3
  <2> HIDE DEF frames, requests, sent, now, total, again
  <2> QED BY <1>1, <1>3, <1>4, <1>5, <1>6
<1> QED BY <1>7, ModuleStill

\* The other steps of the module.
LEMMA FewElsewhere ==
  ASSUME NvsInv, NvsInv', PacketInv, ModuleErased \/ ModuleSendsOther \/ ModuleResends
  PROVE  PacketInv'
<1>1. UNCHANGED host_vars /\ to_module' = to_module
  BY DEF ModuleErased, ModuleSendsOther, ModuleResends
<1>2. m_seq \in 0 .. 7 /\ m_last \in Frames /\ erasing \in BOOLEAN
  BY DEF NvsInv, WireOK, Frames
<1>3. CASE ModuleErased
  <2> DEFINE f == InfoFrame(m_seq, "NVS_DEFAULT_OK")
  <2>1. "NVS_DEFAULT_OK" \in Mails
    BY DEF Mails
  <2>2. f \in Frames /\ f.mail = "NVS_DEFAULT_OK"
    BY <1>2, <2>1, FrameMade
  <2>3. ConfirmRound(f) = {1}
    BY <2>2 DEF ConfirmRound
  <2>4. from_module' = Append(from_module, f) /\ resent' = resent /\ erasing /\ ~erasing'
    BY <1>3 DEF ModuleErased, ModuleSends, bounds
  <2> HIDE DEF f
  <2> QED BY <1>1, <2>2, <2>3, <2>4, FewMore
<1>4. CASE ModuleSendsOther
  <2>1. resent' = resent /\ erasing' = erasing
    BY <1>4 DEF ModuleSendsOther
  <2>2. CASE ModuleSends("SCL_STATUS_IND")
    <3> DEFINE f == InfoFrame(m_seq, "SCL_STATUS_IND")
    <3>1. "SCL_STATUS_IND" \in Mails
      BY DEF Mails
    <3>2. f \in Frames /\ f.mail = "SCL_STATUS_IND"
      BY <1>2, <3>1, FrameMade
    <3>3. ConfirmRound(f) = {}
      BY <3>2 DEF ConfirmRound, SetNvsConfirms
    <3>4. from_module' = Append(from_module, f)
      BY <2>2 DEF ModuleSends
    <3> HIDE DEF f
    <3> QED BY <1>1, <2>1, <3>2, <3>3, <3>4, FewMore
  <2>3. CASE from_module' = Append(from_module, ForeignFrame)
    <3>1. ForeignFrame \in Frames /\ ConfirmRound(ForeignFrame) = {}
      BY DEF Frames, ForeignFrame, ConfirmRound, SetNvsConfirms
    <3> QED BY <1>1, <2>1, <2>3, <3>1, FewMore
  <2> QED BY <1>4, <2>2, <2>3 DEF ModuleSendsOther
<1>5. CASE ModuleResends
  <2>1. /\ from_module' = Append(from_module, m_last) /\ resent' = resent + 1
        /\ erasing' = erasing
    BY <1>5 DEF ModuleResends
  <2> QED BY <1>1, <1>2, <2>1, FewMore
<1> QED BY <1>3, <1>4, <1>5

\* A restart loses what was on its way to the module, and brings nothing.
LEMMA FewRestarted ==
  ASSUME NvsInv, NvsInv', PacketInv, ModuleRestarts
  PROVE  PacketInv'
<1> DEFINE first == InfoFrame(0, "RESET_IND")
           once == Append(from_module, SambFrame)
<1>1. /\ UNCHANGED host_vars /\ to_module' = << >> /\ erasing' = FALSE
      /\ from_module' = from_module \o <<SambFrame, first>> /\ resent' = resent
  BY DEF ModuleRestarts, Announcement
<1>2. /\ first \in Frames /\ ConfirmRound(first) = {}
      /\ SambFrame \in Frames /\ ConfirmRound(SambFrame) = {}
  BY AnnouncementFrames
<1> HIDE DEF first
<1>3. from_module \in Seq(Frames)
  BY Summands
<1>4. from_module' = Append(once, first) /\ once \in Seq(Frames)
  BY <1>1, <1>2, <1>3
<1> DEFINE frames == Worth(from_module, FrameKinds)
           requests == Worth(to_module, RequestKinds)
           total == AtModule'
<1>5. /\ frames \in Nat /\ requests \in Nat /\ Erasure \in {0, 2}
      /\ AtModule = frames + requests + Erasure
  BY Summands DEF AtModule
<1>6. Of(first, FrameKinds) = 0 /\ Of(SambFrame, FrameKinds) = 0
  BY <1>2, FrameWorth
<1>7. Worth(once, FrameKinds) = frames
  <2>1. Worth(once, FrameKinds) = frames + Of(SambFrame, FrameKinds)
    BY <1>2, <1>3, WorthOf
  <2> QED BY <1>5, <1>6, <2>1
<1> HIDE DEF once
<1>8. Worth(from_module', FrameKinds) = frames
  <2>1. Worth(from_module', FrameKinds) = Worth(once, FrameKinds) + Of(first, FrameKinds)
    BY <1>2, <1>4, WorthOf
  <2> QED BY <1>5, <1>6, <1>7, <2>1
<1>9. total = frames + 0 + 0
  <2>1. Worth(to_module', RequestKinds) = 0
    BY <1>1, WorthEmpty
  <2>2. Erasure' = 0
    BY <1>1 DEF Erasure
  <2> QED BY <1>8, <2>1, <2>2 DEF AtModule
<1>10. total <= AtModule
  <2> HIDE DEF total, frames, requests
  <2> QED BY <1>5, <1>9
<1> QED BY <1>1, <1>10, ModuleStill

\* As long as no more than one frame was sent again, every packet of the nvs mode goes
\* out as an information frame, although tx_seq_l is never cut to its three bits: for
\* any number of restarts, refusals and other frames.
THEOREM PacketHeaders == NvsSpec => []PacketsAreInformation
<1>1. NvsInv /\ NvsInv' /\ PacketInv /\ [NvsNext]_vars => PacketInv'
  <2> SUFFICES ASSUME NvsInv, NvsInv', PacketInv, [NvsNext]_vars PROVE PacketInv'
    OBVIOUS
  <2>1. CASE Program
    BY <2>1, FewReceived, FewStored, FewSent, FewAnswered DEF Program
  <2>2. CASE ModuleReplies \/ ModuleFails
    BY <2>2, FewRepliedOrFailed
  <2>3. CASE ModuleErased \/ ModuleSendsOther \/ ModuleResends
    BY <2>3, FewElsewhere
  <2>4. CASE ModuleRestarts
    BY <2>4, FewRestarted
  <2>5. CASE UNCHANGED vars
    <3>1. /\ UNCHANGED <<tx_fifo, to_module, from_module, reset_ind, erasing, resent>>
          /\ UNCHANGED <<tx_seq_l, answer>>
      BY <2>5 DEF vars, host_vars, link_vars, counters, module_vars, bounds
    <3>2. FewPackets'
      BY <3>1 DEF PacketInv, FewPackets, ToCome, AtModule, Queued, Erasure
    <3>3. PacketsAreInformation'
      BY <3>1 DEF PacketInv, PacketsAreInformation
    <3> QED BY <3>2, <3>3 DEF PacketInv
  <2> QED BY <2>1, <2>2, <2>3, <2>4, <2>5 DEF NvsNext
<1>2. PacketInv => PacketsAreInformation
  BY DEF PacketInv
<1> QED BY <1>1, <1>2, FewAtFirst, NvsInvariance, PTL DEF NvsSpec
=============================================================================
