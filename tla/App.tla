-------------------------------- MODULE App ---------------------------------
(***************************************************************************)
(* The app mode: src/app.c on top of Busmail, talking to the DECT module.  *)
(* The program asks for the firmware version, starts the protocol and      *)
(* opens the module for registration; then it only acknowledges.           *)
(*                                                                         *)
(* The module is external: it takes the packets in order, confirms the     *)
(* firmware version and the registration mode, announces itself again      *)
(* without having restarted, sends indications of its own, and sends its   *)
(* last information frame again when no acknowledgement came in time.  The *)
(* registration request reaches it without its two flags (app.c:102 passes *)
(* the size of another request); that it opens registration all the same   *)
(* is assumed.                                                             *)
(***************************************************************************)
EXTENDS Busmail

CONSTANTS MaxIndications,  \* bound on the frames that confirm no request
          MaxResent        \* bound on frames sent a second time

ASSUME BoundsAssumption == MaxIndications \in Nat /\ MaxResent \in Nat

VARIABLES reset_ind,     \* a RESET_IND has been seen
          to_module,     \* packets written and not yet taken by the module
          from_module,   \* frames the module sent and the program has not taken
          protocol,      \* the module: its protocol is started
          registration,  \* the module: handsets may register
          acked,         \* history: information frames answered
          m_sent,        \* history: information frames the module sent
          m_last,        \* the module: its last information frame
          indications, resent   \* counts for the bounds

program_vars == <<link_vars, reset_ind, acked>>
bounds == <<indications, resent>>
module_vars == <<protocol, registration, m_sent, m_last, bounds>>
vars == <<program_vars, module_vars, to_module, from_module>>

Requests == {"GET_FW_VERSION_REQ", "START_PROTOCOL_REQ",
             "SET_REGISTRATION_MODE_REQ"}
ASSUME DataAssumption == Requests \subseteq Data

Indications == {"RESET_IND", "SCL_STATUS_IND", "HW_TEST_CFM"}

InfoFrame(seq, mail) ==
    [header |-> (seq % 8) * 16, program_id |-> API_PROG_ID, mail |-> mail]
ReceiverReady == [header |-> 128, program_id |-> 0, mail |-> "NONE"]

AppInit == /\ Init
           /\ reset_ind = 0
           /\ to_module = << >>
           /\ from_module = <<InfoFrame(0, "RESET_IND")>>
           /\ protocol = FALSE
           /\ registration = FALSE
           /\ acked = 0
           /\ m_sent = 1
           /\ m_last = InfoFrame(0, "RESET_IND")
           /\ indications = 0
           /\ resent = 0
-----------------------------------------------------------------------------
(* The program.                                                            *)

\* What the callback enqueues.
\* Mistake: every RESET_IND starts the sequence.
application_frame_restarts(mail) ==
    CASE mail = "RESET_IND" -> <<"GET_FW_VERSION_REQ">>
      [] mail = "FW_VERSION_CFM" ->
             <<"START_PROTOCOL_REQ", "SET_REGISTRATION_MODE_REQ">>
      [] OTHER -> << >>

\* Mistake: registration is opened before the protocol is started.
application_frame_swapped(mail) ==
    CASE mail = "RESET_IND" ->
             IF reset_ind = 0 THEN <<"GET_FW_VERSION_REQ">> ELSE << >>
      [] mail = "FW_VERSION_CFM" ->
             <<"SET_REGISTRATION_MODE_REQ", "START_PROTOCOL_REQ">>
      [] OTHER -> << >>

application_frame(mail) ==
    CASE mail = "RESET_IND" ->
             IF reset_ind = 0 THEN <<"GET_FW_VERSION_REQ">> ELSE << >>
      [] mail = "FW_VERSION_CFM" ->
             <<"START_PROTOCOL_REQ", "SET_REGISTRATION_MODE_REQ">>
      [] OTHER -> << >>

\* The loop of handle_app_package takes the next packet out of the stream.
\* Mistake: the flag is cleared by every other frame.
Receive_forgets ==
    /\ from_module # << >>
    /\ LET p == Head(from_module)
       IN  /\ busmail_dispatch(p.header, p.program_id, application_frame(p.mail))
           /\ reset_ind' = IF p.mail = "RESET_IND" THEN 1 ELSE 0
    /\ from_module' = Tail(from_module)
    /\ UNCHANGED <<module_vars, to_module, acked>>

Receive ==
    /\ from_module # << >>
    /\ LET p == Head(from_module)
       IN  /\ busmail_dispatch(p.header, p.program_id, application_frame(p.mail))
           /\ reset_ind' = IF p.mail = "RESET_IND" THEN 1 ELSE reset_ind
    /\ from_module' = Tail(from_module)
    /\ UNCHANGED <<module_vars, to_module, acked>>

Send == /\ Transmit
        /\ to_module' = Append(to_module, Head(tx_fifo))
        /\ UNCHANGED <<module_vars, reset_ind, acked, from_module>>

Answered == /\ Finish
            /\ acked' = acked + 1
            /\ UNCHANGED <<module_vars, reset_ind, to_module, from_module>>

Program == Receive \/ Send \/ Answered
-----------------------------------------------------------------------------
(* The module.                                                             *)

ModuleSends(mail) ==
    /\ from_module' = Append(from_module, InfoFrame(m_sent, mail))
    /\ m_sent' = m_sent + 1
    /\ m_last' = InfoFrame(m_sent, mail)

ModuleTakes ==
    /\ to_module # << >>
    /\ \/ /\ Head(to_module) = "GET_FW_VERSION_REQ"
          /\ ModuleSends("FW_VERSION_CFM")
          /\ UNCHANGED <<protocol, registration>>
       \/ /\ Head(to_module) = "START_PROTOCOL_REQ"
          /\ protocol' = TRUE
          /\ UNCHANGED <<registration, from_module, m_sent, m_last>>
       \/ /\ Head(to_module) = "SET_REGISTRATION_MODE_REQ"
          /\ registration' = TRUE
          /\ ModuleSends("SET_REGISTRATION_MODE_CFM")
          /\ UNCHANGED protocol
    /\ to_module' = Tail(to_module)
    /\ UNCHANGED <<program_vars, bounds>>

ModuleIndicates ==
    /\ indications < MaxIndications
    /\ indications' = indications + 1
    /\ \/ \E mail \in Indications : ModuleSends(mail)
       \/ /\ from_module' = Append(from_module, ReceiverReady)
          /\ UNCHANGED <<m_sent, m_last>>
    /\ UNCHANGED <<program_vars, to_module, protocol, registration, resent>>

\* The acknowledgement was lost or late.
ModuleResends ==
    /\ resent < MaxResent
    /\ resent' = resent + 1
    /\ from_module' = Append(from_module, m_last)
    /\ UNCHANGED <<program_vars, to_module, protocol, registration, m_sent, m_last,
                   indications>>

AppNext == Program \/ ModuleTakes \/ ModuleIndicates \/ ModuleResends

AppSpec == AppInit /\ [][AppNext]_vars

\* The program runs whenever it can, and the module takes what it is sent.
AppFairSpec == AppSpec /\ WF_vars(Program) /\ WF_vars(ModuleTakes)
-----------------------------------------------------------------------------
\* The module is opened for registration only when its protocol runs, also when a
\* confirm sent again starts the protocol a second time.
RegistersStarted == registration => protocol

\* The start-up sequence runs once, whatever announcements come, and once more for
\* each confirm that the module sends again: three packets in all are queued, on
\* their way or taken, and two for each such frame.
StartsOnce ==
    LET taken == (IF protocol THEN 1 ELSE 0) + (IF registration THEN 1 ELSE 0)
    IN  /\ Len(tx_fifo) + Len(to_module) + taken <= 2 + 2 * resent
        /\ tx_seq_l <= 3 + 2 * resent

\* In the end the module is open for registration.
RegistersInTheEnd == <>registration

\* In the end no information frame of the module is left without its answer, sent
\* again or not.
AllAnswered == <>[](acked = m_sent + resent)
=============================================================================
