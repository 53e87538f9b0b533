------------------------------ MODULE BootChain -------------------------------
(***************************************************************************)
(* From main to a running handler: the arguments and the loop of           *)
(* src/main.c, the handler switch of src/state.c, the states of src/boot.c *)
(* and src/preloader.c, the starts of src/nvs.c and src/app.c, and the     *)
(* serial port of src/tty.c.  In prog mode the target is reset into its    *)
(* boot ROM, is given the preloader, is given the flash loader by that,    *)
(* and changes the line's speed twice on the way; in the other modes it is *)
(* reset into its firmware, which announces itself.                        *)
(*                                                                         *)
(* A handler is a sequence of operations on the port, done one at a time:  *)
(* the target goes on meanwhile.  Bytes that carry one meaning are one     *)
(* message, an image too.                                                  *)
(*                                                                         *)
(* The target is external.  The pin set before its reset says where it     *)
(* starts.  The ROM and the loaders wait for the messages of Script in     *)
(* order and overlook others, change speed when they have taken the one    *)
(* that says so, and poll with STX as long as there is no answer.  At any  *)
(* time, also before its reset, the target may send bytes that mean        *)
(* nothing to the program.                                                 *)
(***************************************************************************)
EXTENDS Integers, Sequences

CONSTANTS OutcountValues,  \* what the uninitialised e->outcount may hold
          MaxChatter,      \* bound on the meaningless bytes
          MaxDamaged       \* bound on the images damaged on the line

ASSUME OutcountAssumption == OutcountValues \subseteq Int /\ OutcountValues # {}
ASSUME BoundsAssumption == MaxChatter \in Nat /\ MaxDamaged \in Nat

VARIABLES state,      \* which handler is current
          baud,       \* the speed of the program's port
          rx,         \* bytes received and not read yet
          todo,       \* what the handler at work has still to do
          outcount,   \* e->outcount
          line,       \* written and not transmitted yet
          pulldown,   \* the DECT module's TX is pulled down
          target,     \* what runs on it
          stage,      \* the entry of Script the ROM or a loader waits for
          t_baud,     \* the target's speed
          chatter, damaged,   \* counts for the bounds
          lost,       \* history: what a speed mismatch or a flush has lost
          overlooked, \* history: bytes read behind the one that was looked at
          unexpected, \* history: what the target got and did not wait for
          announced   \* history: RESET_IND was handed to handle_nvs_package or
                      \* handle_app_package

port_vars == <<baud, rx, line>>
target_vars == <<pulldown, target, stage, t_baud, unexpected>>
bounds == <<chatter, damaged>>
history == <<lost, overlooked, announced>>
vars == <<state, port_vars, todo, outcount, target_vars, bounds, history>>

BusmailStates == {"NVS_STATE", "APP_STATE"}
Speeds == {"B9600", "B19200", "B115200", "B230400"}
Nothing == "nothing"
Garbage == "garbage"        \* whatever e->out holds
Chatter == "chatter"        \* SOH, ETX, NACK and bytes without a meaning

Elements(s) == {s[i] : i \in 1 .. Len(s)}

\* What the target takes, says, and sets its speed to, in order.
Entry(takes, says, to) == [takes |-> takes, says |-> says, baud |-> to]
Script ==
    << Entry("SIZE", "ACK", "B19200"),
       Entry("PRELOADER_IMAGE", "PRELOADER_CHECKSUM", "B19200"),
       Entry("ACK", Nothing, "B9600"),
       Entry("PRELOADER_START", "PRELOADER_READY", "B9600"),
       Entry("PRELOADER_BAUD_230400", Nothing, "B230400"),
       Entry("PRELOADER_NEW_BAUDRATE", "PRELOADER_NEW_BAUDRATE_READY", "B230400"),
       Entry("SIZE", Nothing, "B230400"),
       Entry("FLASHLOADER_IMAGE", "FLASHLOADER_CHECKSUM", "B230400"),
       Entry("SW_VERSION_REQ", Nothing, "B230400") >>
Running == Len(Script) + 1

\* Operations of a handler.
Write(what) == [op |-> "write", arg |-> what]
SetBaud(to) == [op |-> "baud", arg |-> to]
SetRaw == [op |-> "raw", arg |-> Nothing]
Pulldown(on) == [op |-> "pulldown", arg |-> on]
ResetDect == [op |-> "reset", arg |-> Nothing]
Become(s) == [op |-> "become", arg |-> s]

\* Mistake: the pin is released before the target samples it.
init_boot_state_releases ==
    <<Pulldown(TRUE), Pulldown(FALSE), ResetDect, SetRaw, SetBaud("B19200")>>

\* The port is set up only after the reset.
init_boot_state ==
    <<Pulldown(TRUE), ResetDect, Pulldown(FALSE), SetRaw, SetBaud("B19200")>>
init_preloader_state == <<SetBaud("B9600"), Write("PRELOADER_START")>>
init_flashloader_state == <<Write("SW_VERSION_REQ")>>

\* init_app_state does the same.  Mistake: the order of init_boot_state.
init_nvs_state_resets_first == <<ResetDect, SetRaw, SetBaud("B115200")>>
init_nvs_state == <<SetRaw, SetBaud("B115200"), ResetDect>>

\* config->mode after check_args: anything when the argument is none of the three.
Modes == {"PROG_MODE", "NVS_MODE", "APP_MODE"}
check_args(arg) ==
    CASE arg = "prog" -> {"PROG_MODE"}
      [] arg = "nvs" -> {"NVS_MODE"}
      [] arg = "app" -> {"APP_MODE"}
      [] OTHER -> Modes \cup {"no known mode"}

Init == /\ state = "START"
        /\ baud \in Speeds
        /\ rx = << >>
        /\ todo = << >>
        /\ outcount \in OutcountValues
        /\ line = << >>
        /\ pulldown \in BOOLEAN
        /\ target = "before reset"
        /\ stage = 1
        /\ t_baud \in Speeds
        /\ chatter = 0
        /\ damaged = 0
        /\ lost = {}
        /\ overlooked = {}
        /\ unexpected = {}
        /\ announced = FALSE
-----------------------------------------------------------------------------
(* The program.                                                            *)

\* What a handler does about the byte in[0].  send_size in boot.c leaves the
\* reply in e->out for main to write.
\* Mistake: the checksum is not compared.
handle_boot_package_trusting(b) ==
    CASE b = "ACK" -> <<Write("PRELOADER_IMAGE")>>
      [] b \in {"STX", Chatter} -> << >>
      [] OTHER -> <<Write("ACK"), Become("PRELOADER_STATE")>> \o init_preloader_state

handle_boot_package(b) ==
    CASE b = "ACK" -> <<Write("PRELOADER_IMAGE")>>
      [] b = "PRELOADER_CHECKSUM" ->
             <<Write("ACK"), Become("PRELOADER_STATE")>> \o init_preloader_state
      [] OTHER -> << >>

set_baudrate == <<Write("PRELOADER_BAUD_230400"), SetBaud("B230400"),
                  Write("PRELOADER_NEW_BAUDRATE")>>

\* Mistake: the image goes out before its size.
handle_preloader_package_swapped(b) ==
    CASE b = "PRELOADER_READY" -> set_baudrate
      [] b = "PRELOADER_NEW_BAUDRATE_READY" ->
             <<Write("FLASHLOADER_IMAGE"), Write("SIZE")>>
      [] b = "FLASHLOADER_CHECKSUM" ->
             <<Become("FLASHLOADER_STATE")>> \o init_flashloader_state
      [] OTHER -> << >>

handle_preloader_package(b) ==
    CASE b = "PRELOADER_READY" -> set_baudrate
      [] b = "PRELOADER_NEW_BAUDRATE_READY" ->
             <<Write("SIZE"), Write("FLASHLOADER_IMAGE")>>
      [] b = "FLASHLOADER_CHECKSUM" ->
             <<Become("FLASHLOADER_STATE")>> \o init_flashloader_state
      [] OTHER -> << >>

Exit == /\ state' = "EXITED"
        /\ todo' = << >>
        /\ UNCHANGED <<port_vars, outcount, target_vars, bounds, history>>

\* main up to its loop; nothing happens in a program that exits.
Start == /\ state = "START"
         /\ \E arg \in {"prog", "nvs", "app", "another"} :
            \E mode \in check_args(arg) :
               CASE mode = "PROG_MODE" ->
                        state' = "BOOT_STATE" /\ todo' = init_boot_state
                 [] mode = "NVS_MODE" ->
                        state' = "NVS_STATE" /\ todo' = init_nvs_state
                 [] mode = "APP_MODE" ->
                        state' = "APP_STATE" /\ todo' = init_nvs_state
                 [] OTHER -> state' = "EXITED" /\ todo' = << >>
         /\ UNCHANGED <<port_vars, outcount, target_vars, bounds, history>>

\* What main writes after the handler when the handler left no reply: what an
\* uninitialised outcount says, at the first event.
Unasked == IF outcount > 0 THEN <<Write(Garbage)>> ELSE << >>

\* One round of main's loop: read() takes all there is, the handler looks at the
\* first byte, and main writes e->out when e->outcount says so.
Read ==
    /\ todo = << >>
    /\ state \in {"BOOT_STATE", "PRELOADER_STATE"}
    /\ rx # << >>
    /\ LET b == Head(rx)
       IN  todo' = IF state = "PRELOADER_STATE"
                   THEN handle_preloader_package(b) \o Unasked
                   ELSE IF b = "STX" THEN <<Write("SIZE")>>
                   ELSE handle_boot_package(b) \o Unasked
    /\ outcount' = 0
    /\ overlooked' = overlooked \cup Elements(Tail(rx))
    /\ rx' = << >>
    /\ UNCHANGED <<state, baud, line, target_vars, bounds, lost, announced>>

\* The handlers of the other modes put all that was read into the buffer.
ReadBusmail ==
    /\ todo = << >>
    /\ state \in BusmailStates
    /\ rx # << >>
    /\ todo' = Unasked
    /\ outcount' = 0
    /\ announced' = (announced \/ "RESET_IND" \in Elements(rx))
    /\ rx' = << >>
    /\ UNCHANGED <<state, baud, line, target_vars, bounds, lost, overlooked>>

Doing(op) == todo # << >> /\ Head(todo).op = op /\ todo' = Tail(todo)

WriteOut ==
    /\ Doing("write")
    /\ line' = Append(line, Head(todo).arg)
    /\ UNCHANGED <<state, baud, rx, outcount, target_vars, bounds, history>>

\* TCSAFLUSH: waits until all is transmitted and discards what was received.
Flush == /\ line = << >>
         /\ lost' = lost \cup Elements(rx)
         /\ rx' = << >>

tty_set_baud ==
    /\ Doing("baud")
    /\ Flush
    /\ baud' = Head(todo).arg
    /\ UNCHANGED <<state, line, outcount, target_vars, bounds, overlooked, announced>>

\* exit_failure in tty_set_baud.
tty_set_baud_fails == todo # << >> /\ Head(todo).op = "baud" /\ Exit

\* Of the raw mode only the flush that comes with it.
tty_set_raw ==
    /\ Doing("raw")
    /\ Flush
    /\ UNCHANGED <<state, baud, line, outcount, target_vars, bounds, overlooked,
                   announced>>

\* brcm_fw_tool.
SetPulldown ==
    /\ Doing("pulldown")
    /\ pulldown' = Head(todo).arg
    /\ UNCHANGED <<state, port_vars, outcount, target, stage, t_baud, unexpected,
                   bounds, history>>

\* dect-reset.
RunDectReset ==
    /\ Doing("reset")
    /\ target' = IF pulldown THEN "ROM" ELSE "firmware starts"
    /\ t_baud' = IF pulldown THEN "B19200" ELSE "B115200"
    /\ UNCHANGED <<state, port_vars, outcount, pulldown, stage, unexpected, bounds,
                   history>>

\* state_add_handler; state_transition's init_state follows in todo.
state_add_handler ==
    /\ Doing("become")
    /\ state' = Head(todo).arg
    /\ UNCHANGED <<port_vars, outcount, target_vars, bounds, history>>

Runs == \/ Start \/ Read \/ ReadBusmail \/ WriteOut \/ tty_set_baud \/ tty_set_raw
        \/ SetPulldown \/ RunDectReset \/ state_add_handler

Program == Runs \/ tty_set_baud_fails
-----------------------------------------------------------------------------
(* The line and the target.                                                *)

\* What the target says at speed at.
Says(what, at) ==
    IF what = Nothing THEN UNCHANGED <<rx, lost>>
    ELSE IF at = baud THEN rx' = Append(rx, what) /\ UNCHANGED lost
    ELSE lost' = lost \cup {what} /\ UNCHANGED rx

\* The oldest message leaves the port and the target takes it.
Taken ==
    /\ line # << >>
    /\ line' = Tail(line)
    /\ IF baud # t_baud
       THEN /\ lost' = lost \cup {Head(line)}
            /\ UNCHANGED <<rx, target_vars>>
       ELSE IF target # "ROM" \/ stage = Running \/ Head(line) # Script[stage].takes
       THEN /\ unexpected' = unexpected \cup {Head(line)}
            /\ UNCHANGED <<rx, lost, pulldown, target, stage, t_baud>>
       ELSE /\ stage' = stage + 1
            /\ t_baud' = Script[stage].baud
            /\ Says(Script[stage].says, t_baud)
            /\ UNCHANGED <<pulldown, target, unexpected>>
    /\ UNCHANGED <<state, baud, todo, outcount, bounds, overlooked, announced>>

\* An image is damaged on the line: the target says another checksum.
TakenDamaged ==
    /\ damaged < MaxDamaged
    /\ line # << >>
    /\ baud = t_baud
    /\ target = "ROM"
    /\ stage # Running
    /\ Head(line) = Script[stage].takes
    /\ Head(line) \in {"PRELOADER_IMAGE", "FLASHLOADER_IMAGE"}
    /\ line' = Tail(line)
    /\ damaged' = damaged + 1
    /\ Says("OTHER_CHECKSUM", t_baud)
    /\ UNCHANGED <<state, baud, todo, outcount, target_vars, chatter, overlooked,
                   announced>>

\* The ROM polls: at first while the port is being set up, again only when no
\* answer has come, which takes longer than the program needs to answer.
Poll ==
    /\ target = "ROM"
    /\ stage = 1
    /\ \A i \in 1 .. Len(todo) : todo[i].op # "write"
    /\ rx = << >> /\ line = << >>
    /\ Says("STX", t_baud)
    /\ UNCHANGED <<state, baud, todo, outcount, line, target_vars, bounds,
                   overlooked, announced>>

\* The firmware is up.
Announce ==
    /\ target = "firmware starts"
    /\ target' = "firmware"
    /\ Says("RESET_IND", t_baud)
    /\ UNCHANGED <<state, baud, todo, outcount, line, pulldown, stage, t_baud,
                   unexpected, bounds, overlooked, announced>>

Chat ==
    /\ chatter < MaxChatter
    /\ chatter' = chatter + 1
    /\ Says(Chatter, t_baud)
    /\ UNCHANGED <<state, baud, todo, outcount, line, target_vars, damaged,
                   overlooked, announced>>

Next == Program \/ Taken \/ TakenDamaged \/ Poll \/ Announce \/ Chat

Spec == Init /\ [][Next]_vars

\* The program runs whenever it can, the line transmits, the ROM polls and the
\* firmware starts.
FairSpec == Spec /\ WF_vars(Program) /\ WF_vars(Taken \/ TakenDamaged)
                 /\ WF_vars(Poll) /\ WF_vars(Announce)
-----------------------------------------------------------------------------
\* The speed changes and the resets lose nothing: whatever is sent while one end
\* has another speed, or discarded by a flush, is a poll, which the ROM repeats, or
\* means nothing.  In the nvs and app modes the module announces itself only once,
\* and its announcement is never among it.
NothingLost == lost \subseteq {"STX", Chatter, Garbage}

\* The target gets no message other than the one it waits for: images follow
\* their sizes, nothing is sent twice and nothing is left out.  Only what an
\* uninitialised outcount sends comes unasked for, and only as the answer to a
\* first byte that is not a poll.
NothingUnexpected ==
    /\ unexpected \subseteq {Garbage}
    /\ unexpected # {} => chatter > 0 \/ state \in BusmailStates

\* The program is not in a state for which the target has not yet said, by the
\* checksum of what it was given, that it is ready.
NotAhead == /\ state = "PRELOADER_STATE" => stage >= 3
            /\ state = "FLASHLOADER_STATE" => stage >= 9

\* The program comes to speak with the flash loader or to hear of the firmware
\* in the end, unless it exits, an image was damaged, a read returned a byte that
\* matters behind another one, or an earlier run that was killed has left the pin
\* down, which only the prog mode sets.
ComesUp ==
    \/ <>(state = "FLASHLOADER_STATE" /\ stage = Running)
    \/ <>announced
    \/ <>(state = "EXITED")
    \/ <>(damaged > 0)
    \/ <>(overlooked \ {"STX", Chatter} # {})
    \/ <>(state \in BusmailStates /\ target = "ROM")
=============================================================================
