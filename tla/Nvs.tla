-------------------------------- MODULE Nvs ---------------------------------
(***************************************************************************)
(* The nvs mode: src/nvs.c on top of Busmail, talking to the DECT module,  *)
(* which writes its non-volatile storage.  The program asks for the        *)
(* firmware version, has the storage set to its defaults, sets the radio   *)
(* identity, reads the storage back and exits.                             *)
(*                                                                         *)
(* The module is external: it replies to the requests in order, may report *)
(* that the defaults are pending before they are written, may fail to      *)
(* write them, may refuse to set the identity, and may restart at any      *)
(* time, which loses the requests on their way to it, or send its last     *)
(* information frame again when it has not seen the acknowledgement in     *)
(* time.                                                                   *)
(***************************************************************************)
EXTENDS Busmail, FiniteSets

CONSTANTS MaxRestarts,   \* bound on the module's restarts
          MaxOther,      \* bound on frames that concern no request
          MaxResent      \* bound on frames sent a second time

ASSUME BoundsAssumption ==
    MaxRestarts \in Nat /\ MaxOther \in Nat /\ MaxResent \in Nat

VARIABLES reset_ind,     \* a RESET_IND has been seen
          exited,        \* the program has exited, with status 0
          to_module,     \* packets written and not yet taken by the module
          from_module,   \* frames the module sent and the program has not taken
          storage,       \* the module's NVS: "old", "default" or "set"
          erasing,       \* the module has reported the defaults as pending
          refused,       \* it has not done what the last SET_NVS asked for
          m_seq,         \* its number for the next information frame
          m_last,        \* its last information frame
          restarts, others, resent   \* counts for the bounds

host_vars == <<link_vars, reset_ind, exited>>
bounds == <<restarts, others, resent>>
module_vars == <<storage, erasing, refused, m_seq, m_last, bounds>>
vars == <<host_vars, module_vars, to_module, from_module>>

Requests == {"GET_FW_VERSION_REQ", "NVS_DEFAULT", "SET_NVS", "GET_NVS"}
ASSUME DataAssumption == Requests \subseteq Data

\* The confirm of SET_NVS, with the status that the program does not look at.
SetNvsConfirms == {"SET_NVS_OK", "SET_NVS_FAIL"}

\* A frame of the module; mail is its primitive with the status it carries.
InfoFrame(seq, mail) ==
    [header |-> seq * 16, program_id |-> API_PROG_ID, mail |-> mail]
ForeignFrame == [header |-> 0, program_id |-> 1, mail |-> "OTHER"]
SambFrame == [header |-> SAMB_POLL_SET, program_id |-> 0, mail |-> "NONE"]

\* After its reset the module resets the counters and announces itself.
Announcement == <<SambFrame, InfoFrame(0, "RESET_IND")>>

NvsInit == /\ Init
           /\ reset_ind = 0
           /\ exited = FALSE
           /\ to_module = << >>
           /\ from_module = Announcement
           /\ storage = "old"
           /\ erasing = FALSE
           /\ refused = FALSE
           /\ m_seq = 1
           /\ m_last = InfoFrame(0, "RESET_IND")
           /\ restarts = 0
           /\ others = 0
           /\ resent = 0
-----------------------------------------------------------------------------
(* The program.                                                            *)

\* What rtx_eap_hw_test_cfm enqueues; the mail names test primitive and status.
\* Mistake: a pending status is taken for success.
rtx_eap_hw_test_cfm_pending(mail) ==
    IF mail \in {"NVS_DEFAULT_OK", "NVS_DEFAULT_PENDING"} THEN <<"SET_NVS">>
    ELSE IF mail \in SetNvsConfirms THEN <<"GET_NVS">>
    ELSE << >>

\* Mistake: the status is not looked at for success either.
rtx_eap_hw_test_cfm_stops(mail) ==
    IF mail \in SetNvsConfirms THEN <<"GET_NVS">> ELSE << >>

rtx_eap_hw_test_cfm(mail) ==
    IF mail = "NVS_DEFAULT_OK" THEN <<"SET_NVS">>
    ELSE IF mail \in SetNvsConfirms THEN <<"GET_NVS">>
    ELSE << >>

\* What the callback enqueues.
\* Mistake: every RESET_IND starts the sequence.
application_frame_restarts(mail) ==
    CASE mail = "RESET_IND" -> <<"GET_FW_VERSION_REQ">>
      [] mail = "FW_VERSION_CFM" -> <<"NVS_DEFAULT">>
      [] OTHER -> rtx_eap_hw_test_cfm(mail)

application_frame(mail) ==
    CASE mail = "RESET_IND" ->
             IF reset_ind = 0 THEN <<"GET_FW_VERSION_REQ">> ELSE << >>
      [] mail = "FW_VERSION_CFM" -> <<"NVS_DEFAULT">>
      [] OTHER -> rtx_eap_hw_test_cfm(mail)

\* The loop of handle_nvs_package takes the next packet out of the stream.
Receive ==
    /\ ~exited
    /\ from_module # << >>
    /\ LET p == Head(from_module)
       IN  /\ p.mail # "GET_NVS_CFM"
           /\ busmail_dispatch(p.header, p.program_id, application_frame(p.mail))
           /\ reset_ind' = IF p.mail = "RESET_IND" THEN 1 ELSE reset_ind
    /\ from_module' = Tail(from_module)
    /\ UNCHANGED <<module_vars, exited, to_module>>

\* Mistake: the program exits without the ack.
ReceiveStorage_no_ack ==
    /\ ~exited /\ ~answering
    /\ from_module # << >>
    /\ LET p == Head(from_module)
       IN  /\ p.mail = "GET_NVS_CFM"
           /\ TakeNumbers(p.header)
           /\ answer' = [NoAnswer EXCEPT !.number = TxSeq(p.header)]
    /\ exited' = TRUE
    /\ from_module' = Tail(from_module)
    /\ UNCHANGED <<module_vars, tx_fifo, answering, ack, last_tx, reset_ind,
                   to_module>>

\* GET_NVS is confirmed: the callback itself acks, then exits.
ReceiveStorage ==
    /\ ~exited /\ ~answering
    /\ from_module # << >>
    /\ LET p == Head(from_module)
       IN  /\ p.mail = "GET_NVS_CFM"
           /\ TakeNumbers(p.header)
           /\ answer' = [NoAnswer EXCEPT !.number = TxSeq(p.header),
                !.acks = <<HeaderByte(SUID_RR, NO_PF, rx_seq_l')>>]
    /\ exited' = TRUE
    /\ from_module' = Tail(from_module)
    /\ UNCHANGED <<module_vars, tx_fifo, answering, ack, last_tx, reset_ind,
                   to_module>>

Send == /\ ~exited
        /\ Transmit
        /\ to_module' = Append(to_module, Head(tx_fifo))
        /\ UNCHANGED <<module_vars, reset_ind, exited, from_module>>

Answered == /\ ~exited
            /\ Finish
            /\ UNCHANGED <<module_vars, reset_ind, exited, to_module, from_module>>

Program == Receive \/ ReceiveStorage \/ Send \/ Answered
-----------------------------------------------------------------------------
(* The module.                                                             *)

ModuleSends(mail) ==
    /\ from_module' = Append(from_module, InfoFrame(m_seq, mail))
    /\ m_seq' = (m_seq + 1) % 8
    /\ m_last' = InfoFrame(m_seq, mail)

ModuleReplies ==
    /\ to_module # << >>
    /\ ~erasing
    /\ \/ /\ Head(to_module) = "GET_FW_VERSION_REQ"
          /\ ModuleSends("FW_VERSION_CFM")
          /\ UNCHANGED <<storage, erasing, refused>>
       \/ /\ Head(to_module) = "NVS_DEFAULT"
          /\ \/ ModuleSends("NVS_DEFAULT_OK") /\ storage' = "default"
                /\ UNCHANGED <<erasing, refused>>
             \/ ModuleSends("NVS_DEFAULT_PENDING") /\ erasing' = TRUE
                /\ UNCHANGED <<storage, refused>>
       \/ /\ Head(to_module) = "SET_NVS"
          /\ ModuleSends("SET_NVS_OK")
          /\ storage' = "set" /\ refused' = FALSE
          /\ UNCHANGED erasing
       \/ /\ Head(to_module) = "GET_NVS"
          /\ ModuleSends("GET_NVS_CFM")
          /\ UNCHANGED <<storage, erasing, refused>>
    /\ to_module' = Tail(to_module)
    /\ UNCHANGED <<host_vars, bounds>>

ModuleErased == /\ erasing
                /\ erasing' = FALSE
                /\ storage' = "default"
                /\ ModuleSends("NVS_DEFAULT_OK")
                /\ UNCHANGED <<host_vars, to_module, refused, bounds>>

\* A request is confirmed with another status and not done.  The other two requests
\* write nothing, and the program asks for no status of theirs.
ModuleFails == /\ to_module # << >>
               /\ ~erasing
               /\ \/ /\ Head(to_module) = "NVS_DEFAULT"
                     /\ ModuleSends("NVS_DEFAULT_FAIL")
                     /\ UNCHANGED refused
                  \/ /\ Head(to_module) = "SET_NVS"
                     /\ ModuleSends("SET_NVS_FAIL")
                     /\ refused' = TRUE
               /\ to_module' = Tail(to_module)
               /\ UNCHANGED <<host_vars, storage, erasing, bounds>>

ModuleRestarts == /\ restarts < MaxRestarts
                  /\ restarts' = restarts + 1
                  /\ to_module' = << >>
                  /\ erasing' = FALSE
                  /\ from_module' = from_module \o Announcement
                  /\ m_seq' = 1
                  /\ m_last' = InfoFrame(0, "RESET_IND")
                  /\ UNCHANGED <<host_vars, storage, refused, others, resent>>

ModuleSendsOther == /\ others < MaxOther
                    /\ others' = others + 1
                    /\ \/ ModuleSends("SCL_STATUS_IND")
                       \/ /\ from_module' = Append(from_module, ForeignFrame)
                          /\ UNCHANGED <<m_seq, m_last>>
                    /\ UNCHANGED <<host_vars, to_module, storage, erasing, refused,
                                   restarts, resent>>

\* The acknowledgement was lost or late.
ModuleResends == /\ resent < MaxResent
                 /\ resent' = resent + 1
                 /\ from_module' = Append(from_module, m_last)
                 /\ UNCHANGED <<host_vars, to_module, storage, erasing, refused,
                                m_seq, m_last, restarts, others>>

NvsNext == \/ Program
           \/ ModuleReplies \/ ModuleErased \/ ModuleFails
           \/ ModuleRestarts \/ ModuleSendsOther \/ ModuleResends

NvsSpec == NvsInit /\ [][NvsNext]_vars

\* The program runs whenever it can, and a module that does not restart replies.
NvsFairSpec == NvsSpec /\ WF_vars(Program)
                       /\ WF_vars(ModuleReplies \/ ModuleFails)
                       /\ WF_vars(ModuleErased)
-----------------------------------------------------------------------------
\* When the program exits, which it does with status 0 whatever the module confirmed,
\* the storage holds the identity, or the last SET_NVS was refused and it holds the
\* defaults; and no request is left on its way that would change it: not the defaults
\* of a sequence started twice by a restart or a confirm sent again, and not an
\* erasure that was only pending.  As long as no confirm was sent again it is no
\* request at all.
ExitsSettled ==
    exited => /\ storage \in IF refused THEN {"set", "default"} ELSE {"set"}
              /\ ~erasing
              /\ \A i \in 1 .. Len(to_module) : to_module[i] # "NVS_DEFAULT"
              /\ resent = 0 => to_module = << >>

IsFinalConfirm(p) ==
    p.mail \in {"FW_VERSION_CFM", "NVS_DEFAULT_OK", "GET_NVS_CFM"} \cup SetNvsConfirms

\* The sequence goes in lockstep: counting requests queued, requests on the way,
\* an erasure in progress and confirms on the way back, never more than one is
\* outstanding for the announcement and for each frame sent again, although the
\* module may restart and announce itself again.
Lockstep ==
    Len(tx_fifo) + Len(to_module) + (IF erasing THEN 1 ELSE 0)
        + Cardinality({i \in 1 .. Len(from_module) : IsFinalConfirm(from_module[i])})
        <= 1 + resent

\* As long as at most one frame was sent again, every packet goes out as an
\* information frame.  tx_seq_l is shifted into the header without a mask, so that the
\* ninth packet since the counters were reset would carry the type bit of a control
\* frame.  The sequence sends four, a frame sent again may bring three more, and a
\* restart none; with two frames sent again there may be ten.
PacketsAreInformation ==
    resent <= 1 =>
        \A i \in 1 .. Len(answer.infos) : ~IsControl(answer.infos[i].header)

\* With a module that neither restarts nor fails to write the defaults the program
\* comes to its exit.
Failed == \E i \in 1 .. Len(from_module) : from_module[i].mail = "NVS_DEFAULT_FAIL"
ExitsInTheEnd == <>exited \/ <>(restarts > 0) \/ <>Failed
=============================================================================
