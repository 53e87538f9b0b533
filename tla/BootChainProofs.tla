--------------------------- MODULE BootChainProofs ---------------------------
(***************************************************************************)
(* The boot chain gives the target what it waits for and nothing else, and *)
(* loses nothing that matters at its changes of speed, whatever an         *)
(* uninitialised outcount holds and however many meaningless bytes and     *)
(* damaged images there are.                                               *)
(*                                                                         *)
(* The prog mode has a course: what the program has still to do in its     *)
(* handler tells how much of Script it has written, and at what speed; the *)
(* line holds the part of it that the target has not taken, and a reply is *)
(* received only when the line is empty and the handler has returned.      *)
(* That the replies come at the speed of the port, that no flush finds one *)
(* and that no message meets another speed then follows from where the     *)
(* changes of speed stand between the messages.                            *)
(***************************************************************************)
EXTENDS BootChain, SequenceTheorems, TLAPS

\* What is written and received.
Messages == {"SIZE", "ACK", "PRELOADER_IMAGE", "PRELOADER_CHECKSUM", "PRELOADER_START",
             "PRELOADER_READY", "PRELOADER_BAUD_230400", "PRELOADER_NEW_BAUDRATE",
             "PRELOADER_NEW_BAUDRATE_READY", "FLASHLOADER_IMAGE",
             "FLASHLOADER_CHECKSUM", "SW_VERSION_REQ", "OTHER_CHECKSUM",
             "STX", "RESET_IND", Garbage, Chatter, Nothing}

\* Only these and bytes without a meaning have been received.
Hears(what) == Elements(rx) \subseteq what \cup {Chatter}

\* The ROM polls until it is given the size.
Polls == IF target = "ROM" THEN {"STX"} ELSE {}

\* Before the mode is known.
Starting == /\ state = "START" /\ todo = << >>
            /\ line = << >> /\ stage = 1 /\ target = "before reset"
            /\ unexpected = {} /\ Hears({})

\* The nvs and app modes set up the port and reset the target,
Preparing == /\ state \in BusmailStates
             /\ \/ todo = init_nvs_state
                \/ todo = <<SetBaud("B115200"), ResetDect>>
                \/ todo = <<ResetDect>> /\ baud = "B115200"
             /\ line = << >> /\ stage = 1 /\ target = "before reset"
             /\ unexpected = {} /\ Hears({})

\* and then only listen, but for what an uninitialised outcount sends.
Listening == /\ state \in BusmailStates
             /\ todo \in {<< >>, <<Write(Garbage)>>}
             /\ baud = "B115200"
             /\ stage = 1 /\ Elements(line) \subseteq {Garbage}
             /\ \/ target = "ROM"
                \/ target = "firmware starts" /\ t_baud = "B115200"
                \/ target = "firmware"

\* The prog mode resets the target into its ROM and sets up the port.
Resetting == /\ state = "BOOT_STATE"
             /\ \/ todo = init_boot_state /\ target = "before reset"
                \/ /\ todo = <<ResetDect, Pulldown(FALSE), SetRaw, SetBaud("B19200")>>
                   /\ target = "before reset" /\ pulldown = TRUE
                \/ /\ target = "ROM" /\ t_baud = "B19200"
                   /\ todo \in {<<Pulldown(FALSE), SetRaw, SetBaud("B19200")>>,
                                <<SetRaw, SetBaud("B19200")>>, <<SetBaud("B19200")>>}
             /\ line = << >> /\ stage = 1
             /\ unexpected = {} /\ Hears(Polls)

\* The port could not be set up, or the mode was none of the three.
Stopped == /\ state = "EXITED" /\ todo = << >>
           /\ line = << >> /\ stage = 1
           /\ target \in {"before reset", "ROM"}
           /\ Hears(Polls)

\* What main sends unasked at the first byte: only the ROM has sent it, and it was
\* no poll.
Disturbed == /\ state = "BOOT_STATE"
             /\ \/ todo = <<Write(Garbage)>> /\ line = << >>
                \/ todo = << >> /\ line = <<Garbage>>
             /\ stage = 1 /\ target = "ROM"
             /\ baud = "B19200" /\ t_baud = "B19200"
             /\ outcount = 0 /\ chatter > 0
             /\ Hears({})

\* The speed of the target when it waits for an entry, and what it has said.
Speed(s) == IF s = 1 THEN "B19200" ELSE Script[s - 1].baud
Reply(s) == IF s = 1 THEN "STX" ELSE Script[s - 1].says

\* The entries from first to sent can be on the line together: all are sent at
\* this speed, and none but the last is answered, when the handler has returned.
Together(first, sent, speed, rest) ==
    \A s \in first .. sent :
        /\ Speed(s) = speed
        /\ Script[s].says # Nothing => s = sent /\ rest = << >>

\* A place on the course: the program has written the entries up to sent, and the
\* target waits for one of those from first on or for the next one.
At(now, rest, first, sent, speed) ==
    /\ state = now /\ todo = rest /\ baud = speed
    /\ target = "ROM"
    /\ stage \in first .. sent + 1
    /\ t_baud = Speed(stage)
    /\ Len(line) = sent + 1 - stage
    /\ \A i \in 1 .. Len(line) : line[i] = Script[stage + i - 1].takes
    /\ Together(first, sent, speed, rest)
    /\ Hears(IF todo = << >> /\ line = << >> THEN {Reply(stage)} ELSE {})
    /\ sent > 0 \/ rest # << >> => outcount = 0

\* The ends of the boot and the preloader handler.
ConfirmPreloader == <<Write("ACK"), Become("PRELOADER_STATE")>> \o init_preloader_state
EnterPreloader == <<Become("PRELOADER_STATE")>> \o init_preloader_state
EnterFlashloader == <<Become("FLASHLOADER_STATE")>> \o init_flashloader_state

InBoot ==
    \/ At("BOOT_STATE", << >>, 1, 0, "B19200")
    \/ At("BOOT_STATE", <<Write("SIZE")>>, 1, 0, "B19200")
    \/ At("BOOT_STATE", << >>, 1, 1, "B19200")
    \/ At("BOOT_STATE", <<Write("PRELOADER_IMAGE")>>, 2, 1, "B19200")
    \/ At("BOOT_STATE", << >>, 2, 2, "B19200")
    \/ At("BOOT_STATE", ConfirmPreloader, 3, 2, "B19200")
    \/ At("BOOT_STATE", EnterPreloader, 3, 3, "B19200")

InPreloader ==
    \/ At("PRELOADER_STATE", init_preloader_state, 3, 3, "B19200")
    \/ At("PRELOADER_STATE", <<Write("PRELOADER_START")>>, 4, 3, "B9600")
    \/ At("PRELOADER_STATE", << >>, 4, 4, "B9600")
    \/ At("PRELOADER_STATE", set_baudrate, 5, 4, "B9600")
    \/ At("PRELOADER_STATE", <<SetBaud("B230400"), Write("PRELOADER_NEW_BAUDRATE")>>,
          5, 5, "B9600")
    \/ At("PRELOADER_STATE", <<Write("PRELOADER_NEW_BAUDRATE")>>, 6, 5, "B230400")
    \/ At("PRELOADER_STATE", << >>, 6, 6, "B230400")
    \/ At("PRELOADER_STATE", <<Write("SIZE"), Write("FLASHLOADER_IMAGE")>>,
          7, 6, "B230400")
    \/ At("PRELOADER_STATE", <<Write("FLASHLOADER_IMAGE")>>, 7, 7, "B230400")
    \/ At("PRELOADER_STATE", << >>, 7, 8, "B230400")
    \/ At("PRELOADER_STATE", EnterFlashloader, 9, 8, "B230400")

InFlashloader ==
    \/ At("FLASHLOADER_STATE", init_flashloader_state, 9, 8, "B230400")
    \/ At("FLASHLOADER_STATE", << >>, 9, 9, "B230400")

\* A change of speed failed.
Failed == \/ At("EXITED", << >>, 3, 3, "B19200")
          \/ At("EXITED", << >>, 5, 5, "B9600")

\* The target has said another checksum: neither goes on.
Stuck == /\ \/ state = "BOOT_STATE" /\ stage = 2
            \/ state = "PRELOADER_STATE" /\ stage = 8
         /\ todo = << >> /\ line = << >> /\ target = "ROM"
         /\ outcount = 0
         /\ Hears({"OTHER_CHECKSUM"})

\* What holds of the wires at every place.
Wires == /\ line \in Seq(Messages) /\ rx \in Seq(Messages) /\ chatter \in Nat
         /\ Chatter \in Elements(rx) => chatter > 0

\* The inductive invariant.
BootInv == /\ Wires /\ NothingLost /\ NothingUnexpected
           /\ \/ Starting \/ Preparing \/ Listening \/ Resetting \/ Stopped
              \/ Disturbed \/ InBoot \/ InPreloader \/ InFlashloader \/ Failed \/ Stuck
-----------------------------------------------------------------------------
(* Script, and what the handlers have to do.                               *)

\* Script entry by entry.
LEMMA Entries ==
  /\ Len(Script) = 9 /\ Running = 10
  /\ Script[1] = Entry("SIZE", "ACK", "B19200")
  /\ Script[2] = Entry("PRELOADER_IMAGE", "PRELOADER_CHECKSUM", "B19200")
  /\ Script[3] = Entry("ACK", Nothing, "B9600")
  /\ Script[4] = Entry("PRELOADER_START", "PRELOADER_READY", "B9600")
  /\ Script[5] = Entry("PRELOADER_BAUD_230400", Nothing, "B230400")
  /\ Script[6] = Entry("PRELOADER_NEW_BAUDRATE", "PRELOADER_NEW_BAUDRATE_READY", "B230400")
  /\ Script[7] = Entry("SIZE", Nothing, "B230400")
  /\ Script[8] = Entry("FLASHLOADER_IMAGE", "FLASHLOADER_CHECKSUM", "B230400")
  /\ Script[9] = Entry("SW_VERSION_REQ", Nothing, "B230400")
BY DEF Script, Running

\* The speeds at which the target waits for the entries, and what it says.
LEMMA SpeedsInOrder ==
  /\ Speed(1) = "B19200" /\ Speed(2) = "B19200" /\ Speed(3) = "B19200"
  /\ Speed(4) = "B9600" /\ Speed(5) = "B9600" /\ Speed(6) = "B230400"
  /\ Speed(7) = "B230400" /\ Speed(8) = "B230400" /\ Speed(9) = "B230400"
BY Entries DEF Speed, Entry

\* Short tasks joined.
LEMMA OneOne ==
  ASSUME NEW T, NEW a \in T, NEW b \in T
  PROVE  <<a>> \o <<b>> = <<a, b>>
<1> DEFINE u == <<a>> \o <<b>>
           v == <<a, b>>
<1>1. <<a>> \in Seq(T) /\ <<b>> \in Seq(T) /\ v \in Seq(T)
  OBVIOUS
<1>2. u \in Seq(T) /\ Len(u) = 2 /\ Len(v) = 2
  BY <1>1
<1>3. u[1] = a /\ u[2] = b
  BY <1>1
<1>4. v[1] = a /\ v[2] = b
  OBVIOUS
<1>5. \A i \in 1 .. 2 : u[i] = v[i]
  BY <1>3, <1>4
<1> HIDE DEF u, v
<1>6. u = v
  BY <1>1, <1>2, <1>5, SeqEqual
<1> QED BY <1>6 DEF u, v

\* The same, with two operations behind one.
LEMMA OneTwo ==
  ASSUME NEW T, NEW a \in T, NEW b \in T, NEW c \in T
  PROVE  <<a>> \o <<b, c>> = <<a, b, c>>
<1> DEFINE u == <<a>> \o <<b, c>>
           v == <<a, b, c>>
<1>1. <<a>> \in Seq(T) /\ <<b, c>> \in Seq(T) /\ v \in Seq(T)
  OBVIOUS
<1>2. u \in Seq(T) /\ Len(u) = 3 /\ Len(v) = 3
  BY <1>1
<1>3. u[1] = a /\ u[2] = b /\ u[3] = c
  BY <1>1
<1>4. v[1] = a /\ v[2] = b /\ v[3] = c
  OBVIOUS
<1>5. \A i \in 1 .. 3 : u[i] = v[i]
  BY <1>3, <1>4
<1> HIDE DEF u, v
<1>6. u = v
  BY <1>1, <1>2, <1>5, SeqEqual
<1> QED BY <1>6 DEF u, v

\* The same, with two behind two.
LEMMA TwoTwo ==
  ASSUME NEW T, NEW a \in T, NEW b \in T, NEW c \in T, NEW d \in T
  PROVE  <<a, b>> \o <<c, d>> = <<a, b, c, d>>
<1> DEFINE u == <<a, b>> \o <<c, d>>
           v == <<a, b, c, d>>
<1>1. <<a, b>> \in Seq(T) /\ <<c, d>> \in Seq(T) /\ v \in Seq(T)
  OBVIOUS
<1>2. u \in Seq(T) /\ Len(u) = 4 /\ Len(v) = 4
  BY <1>1
<1>3. u[1] = a /\ u[2] = b /\ u[3] = c /\ u[4] = d
  BY <1>1
<1>4. v[1] = a /\ v[2] = b /\ v[3] = c /\ v[4] = d
  OBVIOUS
<1>5. \A i \in 1 .. 4 : u[i] = v[i]
  BY <1>3, <1>4
<1> HIDE DEF u, v
<1>6. u = v
  BY <1>1, <1>2, <1>5, SeqEqual
<1> QED BY <1>6 DEF u, v

\* The tasks of more than one operation.
LEMMA Tasks ==
  /\ ConfirmPreloader =
        <<Write("ACK"), Become("PRELOADER_STATE"), SetBaud("B9600"), Write("PRELOADER_START")>>
  /\ EnterPreloader =
        <<Become("PRELOADER_STATE"), SetBaud("B9600"), Write("PRELOADER_START")>>
  /\ EnterFlashloader =
        <<Become("FLASHLOADER_STATE"), Write("SW_VERSION_REQ")>>
<1> DEFINE a == Write("ACK")
           b == Become("PRELOADER_STATE")
           c == SetBaud("B9600")
           d == Write("PRELOADER_START")
           e == Become("FLASHLOADER_STATE")
           f == Write("SW_VERSION_REQ")
           T == {a, b, c, d, e, f}
<1>1. /\ init_preloader_state = <<c, d>> /\ init_flashloader_state = <<f>>
  BY DEF init_preloader_state, init_flashloader_state
<1>2. a \in T /\ b \in T /\ c \in T /\ d \in T /\ e \in T /\ f \in T
  OBVIOUS
<1> HIDE DEF a, b, c, d, e, f, T
<1>3. <<a, b>> \o <<c, d>> = <<a, b, c, d>>
  BY <1>2, TwoTwo
<1>4. <<b>> \o <<c, d>> = <<b, c, d>>
  BY <1>2, OneTwo
<1>5. <<e>> \o <<f>> = <<e, f>>
  BY <1>2, OneOne
<1>6. <<a, b>> \o init_preloader_state = <<a, b, c, d>>
  BY <1>1, <1>3
<1>7. <<b>> \o init_preloader_state = <<b, c, d>>
  BY <1>1, <1>4
<1>8. <<e>> \o init_flashloader_state = <<e, f>>
  BY <1>1, <1>5
<1> QED BY <1>6, <1>7, <1>8
       DEF ConfirmPreloader, EnterPreloader, EnterFlashloader, a, b, c, d, e, f
-----------------------------------------------------------------------------
(* What has been received and lost.                                        *)

\* The elements of what is appended to, of a rest, and of nothing.
LEMMA ElementsOf ==
  ASSUME NEW T, NEW s \in Seq(T)
  PROVE  /\ \A x \in T : Elements(Append(s, x)) = Elements(s) \cup {x}
         /\ s # << >> => /\ Head(s) \in Elements(s)
                        /\ Elements(Tail(s)) \subseteq Elements(s)
         /\ Elements(<< >>) = {}
<1>1. ASSUME NEW x \in T PROVE Elements(Append(s, x)) = Elements(s) \cup {x}
  <2> DEFINE t == Append(s, x)
  <2>1. /\ Len(s) \in Nat /\ Len(t) = Len(s) + 1 /\ t[Len(s) + 1] = x
        /\ \A i \in 1 .. Len(s) : t[i] = s[i]
    OBVIOUS
  <2>2. \A i \in 1 .. Len(t) : i \in 1 .. Len(s) \/ i = Len(s) + 1
    BY <2>1
  <2>3. Len(s) + 1 \in 1 .. Len(t) /\ \A i \in 1 .. Len(s) : i \in 1 .. Len(t)
    BY <2>1
  <2> HIDE DEF t
  <2>4. Elements(t) = Elements(s) \cup {x}
    BY <2>1, <2>2, <2>3 DEF Elements
  <2> QED BY <2>4 DEF t
<1>2. ASSUME s # << >>
      PROVE  Head(s) \in Elements(s) /\ Elements(Tail(s)) \subseteq Elements(s)
  <2>1. /\ Len(s) \in Nat \ {0} /\ Len(Tail(s)) = Len(s) - 1 /\ Head(s) = s[1]
        /\ \A i \in 1 .. Len(s) - 1 : i + 1 \in 1 .. Len(s) /\ Tail(s)[i] = s[i + 1]
        /\ 1 \in 1 .. Len(s)
    BY <1>2, EmptySeq, HeadTailProperties
  <2> QED BY <2>1 DEF Elements
<1>3. Elements(<< >>) = {}
  BY DEF Elements
<1> QED BY <1>1, <1>2, <1>3

\* What the target says at the speed of the port is received, at another it is lost.
LEMMA Said ==
  ASSUME NEW what \in Messages, NEW at, Says(what, at), rx \in Seq(Messages)
  PROVE  /\ rx' \in Seq(Messages)
         /\ \/ Elements(rx') = Elements(rx) /\ lost' = lost \cup {what} /\ at # baud
            \/ Elements(rx') = Elements(rx) \cup {what} /\ lost' = lost
            \/ Elements(rx') = Elements(rx) /\ lost' = lost /\ what = Nothing
         /\ at = baud => lost' = lost
         /\ what = Nothing => rx' = rx
<1>1. CASE what = Nothing
  BY <1>1 DEF Says
<1>2. CASE what # Nothing /\ at = baud
  <2>1. rx' = Append(rx, what) /\ lost' = lost
    BY <1>2 DEF Says
  <2>2. Elements(Append(rx, what)) = Elements(rx) \cup {what}
    BY ElementsOf
  <2>3. rx' \in Seq(Messages)
    BY <2>1
  <2> QED BY <1>2, <2>1, <2>2, <2>3
<1>3. CASE what # Nothing /\ at # baud
  BY <1>3 DEF Says
<1> QED BY <1>1, <1>2, <1>3
-----------------------------------------------------------------------------
(* Steps along the course.                                                 *)

\* What an entry takes and says are messages.
LEMMA EntryFields ==
  ASSUME NEW s \in 1 .. 9
  PROVE  /\ Script[s].takes \in Messages /\ Script[s].says \in Messages
         /\ Script[s].takes # Garbage
         /\ Speed(s + 1) = Script[s].baud /\ Reply(s + 1) = Script[s].says
<1>1. s \in {1, 2, 3, 4, 5, 6, 7, 8, 9}
  OBVIOUS
<1>2. Script[s].takes \in Messages
  BY <1>1, Entries DEF Entry, Messages
<1>3. Script[s].says \in Messages
  BY <1>1, Entries DEF Entry, Messages
<1>4. Script[s].takes # Garbage
  BY <1>1, Entries DEF Entry, Garbage
<1>5. Speed(s + 1) = Script[s].baud /\ Reply(s + 1) = Script[s].says
  BY DEF Speed, Reply
<1> QED BY <1>2, <1>3, <1>4, <1>5

\* The target takes the entry it waits for.
LEMMA TakenAt ==
  ASSUME NEW now, NEW rest, NEW first \in 1 .. 9, NEW sent \in 0 .. 9, NEW speed,
         Wires, At(now, rest, first, sent, speed), Taken
  PROVE  At(now, rest, first, sent, speed)' /\ UNCHANGED <<lost, unexpected>> /\ Wires'
<1>1. /\ line # << >> /\ line' = Tail(line)
      /\ UNCHANGED <<state, baud, todo, outcount, chatter>>
  BY DEF Taken, bounds
<1>2. /\ state = now /\ todo = rest /\ baud = speed /\ target = "ROM"
      /\ stage \in first .. sent + 1 /\ t_baud = Speed(stage)
      /\ Len(line) = sent + 1 - stage
      /\ \A i \in 1 .. Len(line) : line[i] = Script[stage + i - 1].takes
      /\ Together(first, sent, speed, rest)
      /\ Hears(IF todo = << >> /\ line = << >> THEN {Reply(stage)} ELSE {})
      /\ sent > 0 \/ rest # << >> => outcount = 0
      /\ line \in Seq(Messages) /\ rx \in Seq(Messages) /\ chatter \in Nat
      /\ Chatter \in Elements(rx) => chatter > 0
  BY DEF At, Wires
<1>3. /\ Len(line) \in Nat \ {0} /\ Len(line') = Len(line) - 1 /\ Head(line) = line[1]
      /\ \A i \in 1 .. Len(line) - 1 :
            i + 1 \in 1 .. Len(line) /\ line'[i] = line[i + 1]
      /\ 1 \in 1 .. Len(line) /\ line' \in Seq(Messages)
  BY <1>1, <1>2, EmptySeq, HeadTailProperties
<1>4. stage \in first .. sent /\ stage \in 1 .. 9 /\ stage + 1 - 1 = stage
  <2>1. sent + 1 - stage \in Nat \ {0} /\ stage \in first .. sent + 1
    BY <1>2, <1>3
  <2> QED BY <2>1
<1>5. baud = t_baud /\ Head(line) = Script[stage].takes
  BY <1>2, <1>3, <1>4 DEF Together
<1>6. /\ Speed(stage + 1) = Script[stage].baud /\ Reply(stage + 1) = Script[stage].says
      /\ Script[stage].says \in Messages
  BY <1>4, EntryFields
<1>7. /\ stage' = stage + 1 /\ t_baud' = Script[stage].baud
      /\ Says(Script[stage].says, t_baud)
      /\ UNCHANGED <<target, unexpected>>
  <2>1. stage # Running
    BY <1>4, Entries
  <2> QED BY <1>2, <1>5, <2>1 DEF Taken
<1>8. Elements(rx) \subseteq {Chatter}
  BY <1>1, <1>2 DEF Hears
<1>9. /\ rx' \in Seq(Messages) /\ lost' = lost
      /\ \/ Elements(rx') = Elements(rx) /\ Script[stage].says = Nothing
         \/ Elements(rx') = Elements(rx) \cup {Script[stage].says}
      /\ Script[stage].says = Nothing => rx' = rx
  BY <1>2, <1>5, <1>6, <1>7, Said
<1>10. Script[stage].says # Nothing => stage = sent /\ rest = << >>
  BY <1>2, <1>4 DEF Together
<1>11. stage' \in first .. sent + 1 /\ t_baud' = Speed(stage')
       /\ Len(line') = sent + 1 - stage'
  <2>1. stage' \in first .. sent + 1
    BY <1>4, <1>7
  <2>2. t_baud' = Speed(stage')
    BY <1>6, <1>7
  <2>3. Len(line') = sent + 1 - stage'
    BY <1>2, <1>3, <1>4, <1>7
  <2> QED BY <2>1, <2>2, <2>3
<1>12. \A i \in 1 .. Len(line') : line'[i] = Script[stage' + i - 1].takes
  <2> SUFFICES ASSUME NEW i \in 1 .. Len(line')
               PROVE  line'[i] = Script[stage' + i - 1].takes
    OBVIOUS
  <2>1. i + 1 \in 1 .. Len(line) /\ line'[i] = line[i + 1]
    BY <1>3
  <2>2. line[i + 1] = Script[stage + (i + 1) - 1].takes
    BY <1>2, <2>1
  <2>3. stage + (i + 1) - 1 = (stage + 1) + i - 1
    BY <1>4, <2>1
  <2> QED BY <1>7, <2>1, <2>2, <2>3
<1>13. Hears(IF todo = << >> /\ line = << >> THEN {Reply(stage)} ELSE {})'
  <2>1. CASE Script[stage].says = Nothing
    <3>1. Elements(rx') \subseteq {Chatter}
      BY <1>8, <1>9, <2>1
    <3> QED BY <3>1 DEF Hears
  <2>2. CASE Script[stage].says # Nothing
    <3>1. stage = sent /\ todo' = << >>
      BY <1>1, <1>2, <1>10, <2>2
    <3>2. Len(line') = 0
      BY <1>2, <1>3, <1>4, <3>1
    <3>3. line' = << >>
      BY <1>3, <3>2, EmptySeq
    <3>4. Reply(stage') = Script[stage].says
      BY <1>6, <1>7
    <3>5. Elements(rx') \subseteq {Reply(stage')} \cup {Chatter}
      BY <1>8, <1>9, <2>2, <3>4
    <3> QED BY <3>1, <3>3, <3>5 DEF Hears
  <2> QED BY <2>1, <2>2
<1>14. At(now, rest, first, sent, speed)'
  BY <1>1, <1>2, <1>7, <1>11, <1>12, <1>13 DEF At
<1>15. Wires'
  <2>1. Script[stage].says # Chatter
    <3>1. stage \in {1, 2, 3, 4, 5, 6, 7, 8, 9}
      BY <1>4
    <3> QED BY <3>1, Entries DEF Entry, Chatter, Nothing
  <2> QED BY <1>1, <1>2, <1>3, <1>9, <2>1 DEF Wires
<1> QED BY <1>7, <1>9, <1>14, <1>15

\* What is between the messages of the course does not disturb it.
LEMMA ChatAt ==
  ASSUME NEW now, NEW rest, NEW first \in 1 .. 9, NEW sent \in 0 .. 9, NEW speed,
         At(now, rest, first, sent, speed),
         UNCHANGED <<state, todo, line, baud, target, stage, t_baud, outcount>>,
         Elements(rx') \subseteq Elements(rx) \cup {Chatter}
  PROVE  At(now, rest, first, sent, speed)'
<1>1. Hears(IF todo = << >> /\ line = << >> THEN {Reply(stage)} ELSE {})'
  BY DEF At, Hears
<1> QED BY <1>1 DEF At

\* The ROM polls only at the first place.
LEMMA PollAt ==
  ASSUME NEW now, NEW rest, NEW first \in 1 .. 9, NEW sent \in 0 .. 9, NEW speed,
         At(now, rest, first, sent, speed),
         first > 1 \/ sent > 0 \/ rest = << >>,
         stage = 1, line = << >>,
         UNCHANGED <<state, todo, line, baud, target, stage, t_baud, outcount>>,
         Elements(rx') \subseteq Elements(rx) \cup {"STX"}
  PROVE  At(now, rest, first, sent, speed)'
<1>1. /\ stage \in first .. sent + 1 /\ Len(line) = sent + 1 - stage
      /\ Hears(IF todo = << >> /\ line = << >> THEN {Reply(stage)} ELSE {})
      /\ todo = rest
  BY DEF At
<1>2. Len(line) = 0
  OBVIOUS
<1>3. first = 1 /\ sent = 0
  BY <1>1, <1>2
<1>4. todo = << >> /\ Reply(stage) = "STX"
  BY <1>1, <1>3 DEF Reply
<1>5. Hears(IF todo = << >> /\ line = << >> THEN {Reply(stage)} ELSE {})'
  BY <1>1, <1>4 DEF Hears
<1> QED BY <1>5 DEF At

\* A damaged image is the last thing on the line.
LEMMA DamagedAt ==
  ASSUME NEW now, NEW rest, NEW first \in 1 .. 9, NEW sent \in 0 .. 9, NEW speed,
         Wires, At(now, rest, first, sent, speed), TakenDamaged
  PROVE  /\ rest = << >> /\ sent \in {2, 8} /\ stage' = sent
         /\ line' = << >> /\ outcount' = 0 /\ Hears({"OTHER_CHECKSUM"})'
         /\ Wires' /\ UNCHANGED <<state, todo, target, lost, unexpected>>
<1>1. /\ line # << >> /\ line' = Tail(line) /\ baud = t_baud
      /\ Head(line) = Script[stage].takes
      /\ Head(line) \in {"PRELOADER_IMAGE", "FLASHLOADER_IMAGE"}
      /\ Says("OTHER_CHECKSUM", t_baud)
      /\ UNCHANGED <<state, todo, outcount, chatter, stage, target, unexpected>>
  BY DEF TakenDamaged, target_vars
<1>2. /\ state = now /\ todo = rest
      /\ stage \in first .. sent + 1
      /\ Len(line) = sent + 1 - stage
      /\ Together(first, sent, speed, rest)
      /\ Hears(IF todo = << >> /\ line = << >> THEN {Reply(stage)} ELSE {})
      /\ sent > 0 \/ rest # << >> => outcount = 0
      /\ line \in Seq(Messages) /\ rx \in Seq(Messages) /\ chatter \in Nat
      /\ Chatter \in Elements(rx) => chatter > 0
  BY DEF At, Wires
<1>3. /\ Len(line) \in Nat \ {0} /\ Len(line') = Len(line) - 1 /\ line' \in Seq(Messages)
  BY <1>1, <1>2, EmptySeq, HeadTailProperties
<1>4. stage \in first .. sent /\ stage \in 1 .. 9
  <2>1. sent + 1 - stage \in Nat \ {0} /\ stage \in first .. sent + 1
    BY <1>2, <1>3
  <2> QED BY <2>1
<1>5. stage \in {2, 8} /\ Script[stage].says # Nothing
  <2>1. stage \in {1, 2, 3, 4, 5, 6, 7, 8, 9}
    BY <1>4
  <2> QED BY <1>1, <2>1, Entries DEF Entry, Nothing
<1>6. stage = sent /\ rest = << >>
  BY <1>2, <1>4, <1>5 DEF Together
<1>7. line' = << >>
  <2>1. Len(line') = 0
    BY <1>2, <1>3, <1>4, <1>6
  <2> QED BY <1>3, <2>1, EmptySeq
<1>8. Elements(rx) \subseteq {Chatter}
  BY <1>1, <1>2 DEF Hears
<1>9. "OTHER_CHECKSUM" \in Messages
  BY DEF Messages
<1>10. /\ rx' \in Seq(Messages) /\ lost' = lost
       /\ \/ Elements(rx') = Elements(rx)
          \/ Elements(rx') = Elements(rx) \cup {"OTHER_CHECKSUM"}
  BY <1>1, <1>2, <1>9, Said
<1>11. Hears({"OTHER_CHECKSUM"})'
  BY <1>8, <1>10 DEF Hears
<1>12. Wires'
  BY <1>1, <1>2, <1>3, <1>10 DEF Wires, Chatter
<1>13. outcount' = 0
  <2>1. sent > 0
    BY <1>4, <1>6
  <2> QED BY <1>1, <1>2, <2>1
<1> QED BY <1>1, <1>5, <1>6, <1>7, <1>10, <1>11, <1>12, <1>13

\* What there is to do is this, and then the rest.
Splits(task, operation, rest) ==
    task # << >> /\ Head(task) = operation /\ Tail(task) = rest

\* The entries are written in order.
Follows(next, sent) == next = sent + 1

\* The program writes the next entry.
LEMMA WriteAt ==
  ASSUME NEW now, NEW rest, NEW first \in 1 .. 9, NEW sent \in 0 .. 8, NEW speed,
         Wires, At(now, rest, first, sent, speed), WriteOut,
         NEW next \in 1 .. 9, Follows(next, sent), NEW tail,
         Splits(rest, Write(Script[next].takes), tail),
         Together(first, next, speed, tail)
  PROVE  /\ At(now, tail, first, next, speed)'
         /\ Wires' /\ UNCHANGED <<lost, unexpected>>
<1> USE DEF Splits, Follows
<1> DEFINE m == Script[next].takes
<1>1. /\ line' = Append(line, Head(todo).arg) /\ todo' = Tail(todo)
      /\ UNCHANGED <<state, baud, rx, outcount, target, stage, t_baud, chatter, lost,
                     unexpected>>
  BY DEF WriteOut, Doing, target_vars, bounds, history
<1>2. /\ state = now /\ todo = rest /\ baud = speed /\ target = "ROM"
      /\ stage \in first .. sent + 1 /\ t_baud = Speed(stage)
      /\ Len(line) = sent + 1 - stage
      /\ \A i \in 1 .. Len(line) : line[i] = Script[stage + i - 1].takes
      /\ Hears(IF todo = << >> /\ line = << >> THEN {Reply(stage)} ELSE {})
      /\ sent > 0 \/ rest # << >> => outcount = 0
      /\ line \in Seq(Messages) /\ rx \in Seq(Messages) /\ chatter \in Nat
      /\ Chatter \in Elements(rx) => chatter > 0
  BY DEF At, Wires
<1>3. m \in Messages
  BY EntryFields
<1>4. Head(todo).arg = m
  BY <1>2 DEF Write
<1> HIDE DEF m
<1>5. /\ line' = Append(line, m) /\ line' \in Seq(Messages) /\ Len(line) \in Nat
      /\ Len(line') = Len(line) + 1 /\ line'[Len(line) + 1] = m
      /\ \A i \in 1 .. Len(line) : line'[i] = line[i]
  <2>1. line' = Append(line, m)
    BY <1>1, <1>4
  <2>2. line \in Seq(Messages)
    BY <1>2
  <2> QED BY <1>3, <2>1, <2>2
<1>6. stage' \in first .. next + 1
  BY <1>1, <1>2
<1>7. Len(line') = next + 1 - stage'
  <2>1. stage' = stage /\ stage \in Int
    BY <1>1, <1>2
  <2> QED BY <1>2, <1>5, <2>1
<1>8. \A i \in 1 .. Len(line') : line'[i] = Script[stage' + i - 1].takes
  <2> SUFFICES ASSUME NEW i \in 1 .. Len(line') PROVE line'[i] = Script[stage + i - 1].takes
    BY <1>1
  <2>1. i \in 1 .. Len(line) \/ i = Len(line) + 1
    BY <1>5
  <2>2. CASE i \in 1 .. Len(line)
    BY <1>2, <1>5, <2>2
  <2>3. CASE i = Len(line) + 1
    <3>1. stage + i - 1 = next
      BY <1>2, <2>3
    <3> QED BY <1>5, <2>3, <3>1 DEF m
  <2> QED BY <2>1, <2>2, <2>3
<1>9. Hears(IF todo = << >> /\ line = << >> THEN {Reply(stage)} ELSE {})'
  <2>1. Elements(rx) \subseteq {Chatter}
    BY <1>2 DEF Hears
  <2> QED BY <1>1, <2>1 DEF Hears
<1>10. At(now, tail, first, next, speed)'
  BY <1>1, <1>2, <1>6, <1>7, <1>8, <1>9 DEF At
<1>11. Wires'
  BY <1>1, <1>2, <1>5 DEF Wires
<1> QED BY <1>1, <1>10, <1>11

\* The program changes its speed to that of the next entry: the line is empty, and
\* what the flush discards means nothing.
LEMMA BaudAt ==
  ASSUME NEW now, NEW rest, NEW first \in 1 .. 9, NEW sent \in 0 .. 8, NEW speed,
         Wires, At(now, rest, first, sent, speed), tty_set_baud,
         NEW to, NEW next, Follows(next, sent), NEW tail,
         Splits(rest, SetBaud(to), tail)
  PROVE  /\ At(now, tail, next, sent, to)'
         /\ Wires' /\ UNCHANGED unexpected /\ lost' \subseteq lost \cup {Chatter}
<1> USE DEF Splits, Follows
<1>1. /\ line = << >> /\ lost' = lost \cup Elements(rx) /\ rx' = << >>
      /\ baud' = Head(todo).arg /\ todo' = Tail(todo)
      /\ UNCHANGED <<state, line, outcount, target, stage, t_baud, chatter, unexpected>>
  BY DEF tty_set_baud, Flush, Doing, target_vars, bounds
<1>2. /\ state = now /\ todo = rest /\ target = "ROM"
      /\ stage \in first .. sent + 1 /\ t_baud = Speed(stage)
      /\ Len(line) = sent + 1 - stage
      /\ Hears(IF todo = << >> /\ line = << >> THEN {Reply(stage)} ELSE {})
      /\ sent > 0 \/ rest # << >> => outcount = 0
      /\ line \in Seq(Messages) /\ chatter \in Nat
  BY DEF At, Wires
<1>3. Elements(rx) \subseteq {Chatter}
  BY <1>2 DEF Hears
<1>4. stage = sent + 1
  <2>1. Len(line) = 0
    BY <1>1
  <2> QED BY <1>2, <2>1
<1>5. Elements(rx') = {}
  BY <1>1 DEF Elements
<1>6. baud' = to
  BY <1>1, <1>2 DEF SetBaud
<1>7. Together(next, sent, to, tail)
  BY DEF Together
<1>8. /\ stage' \in next .. sent + 1 /\ Len(line') = sent + 1 - stage'
      /\ t_baud' = Speed(stage') /\ line' = << >>
  BY <1>1, <1>2, <1>4
<1>9. Hears(IF todo = << >> /\ line = << >> THEN {Reply(stage)} ELSE {})'
  BY <1>5 DEF Hears
<1>10. At(now, tail, next, sent, to)'
  <2>1. \A i \in 1 .. Len(line') : line'[i] = Script[stage' + i - 1].takes
    BY <1>8
  <2> QED BY <1>1, <1>2, <1>6, <1>7, <1>8, <1>9, <2>1 DEF At
<1>11. Wires'
  BY <1>1, <1>2, <1>5 DEF Wires
<1> QED BY <1>1, <1>3, <1>10, <1>11

\* The handler becomes another one.
LEMMA BecomeAt ==
  ASSUME NEW now, NEW rest, NEW first \in 1 .. 9, NEW sent \in 0 .. 9, NEW speed,
         Wires, At(now, rest, first, sent, speed), state_add_handler,
         NEW next, NEW tail, Splits(rest, Become(next), tail),
         Together(first, sent, speed, tail)
  PROVE  /\ At(next, tail, first, sent, speed)'
         /\ Wires' /\ UNCHANGED <<lost, unexpected>>
<1> USE DEF Splits
<1>1. /\ state' = Head(todo).arg /\ todo' = Tail(todo)
      /\ UNCHANGED <<rx, baud, line, outcount, target, stage, t_baud, chatter, lost,
                     unexpected>>
  BY DEF state_add_handler, Doing, target_vars, port_vars, bounds, history
<1>2. /\ todo = rest
      /\ Hears(IF todo = << >> /\ line = << >> THEN {Reply(stage)} ELSE {})
      /\ outcount = 0
  BY DEF At
<1>3. Elements(rx) \subseteq {Chatter}
  BY <1>2 DEF Hears
<1>4. Hears(IF todo = << >> /\ line = << >> THEN {Reply(stage)} ELSE {})'
  BY <1>1, <1>3 DEF Hears
<1>5. state' = next /\ todo' = tail
  BY <1>1, <1>2 DEF Become
<1>6. At(next, tail, first, sent, speed)'
  BY <1>1, <1>2, <1>4, <1>5 DEF At
<1>7. Wires'
  BY <1>1 DEF Wires
<1> QED BY <1>1, <1>6, <1>7

\* The program exits; the target goes on with what is on the line.
LEMMA FailAt ==
  ASSUME NEW now, NEW rest, NEW first \in 1 .. 9, NEW sent \in 0 .. 9, NEW speed,
         Wires, At(now, rest, first, sent, speed), Exit,
         NEW operation, NEW tail, Splits(rest, operation, tail)
  PROVE  /\ At("EXITED", << >>, first, sent, speed)'
         /\ Wires' /\ UNCHANGED <<lost, unexpected>>
<1> USE DEF Splits
<1>1. /\ state' = "EXITED" /\ todo' = << >>
      /\ UNCHANGED <<rx, baud, line, outcount, target, stage, t_baud, chatter, lost,
                     unexpected>>
  BY DEF Exit, target_vars, port_vars, bounds, history
<1>2. /\ todo = rest
      /\ Hears(IF todo = << >> /\ line = << >> THEN {Reply(stage)} ELSE {})
      /\ outcount = 0 /\ Together(first, sent, speed, rest)
  BY DEF At
<1>3. Elements(rx) \subseteq {Chatter}
  BY <1>2 DEF Hears
<1>4. Hears(IF todo = << >> /\ line = << >> THEN {Reply(stage)} ELSE {})'
  BY <1>1, <1>3 DEF Hears
<1>5. Together(first, sent, speed, << >>)
  BY <1>2 DEF Together
<1>6. At("EXITED", << >>, first, sent, speed)'
  BY <1>1, <1>2, <1>4, <1>5 DEF At
<1>7. Wires'
  BY <1>1 DEF Wires
<1> QED BY <1>1, <1>6, <1>7

\* What can be read at a place: the reply to what was written, or no meaning.
LEMMA ReadAt ==
  ASSUME NEW now, NEW first \in 1 .. 9, NEW sent \in 0 .. 9, NEW speed,
         NEW next, Follows(next, sent),
         Wires, At(now, << >>, first, sent, speed), Read
  PROVE  /\ \/ Head(rx) = Chatter /\ chatter > 0
            \/ line = << >> /\ Head(rx) = Reply(next)
         /\ todo' = << >> => At(now, << >>, first, sent, speed)'
         /\ line = << >> /\ todo' # << >> =>
               \A rest : todo' = rest => At(now, rest, next, sent, speed)'
         /\ Wires' /\ UNCHANGED <<lost, unexpected>>
<1> USE DEF Follows
<1>1. /\ rx # << >> /\ rx' = << >> /\ outcount' = 0
      /\ UNCHANGED <<state, baud, line, target, stage, t_baud, chatter, lost, unexpected>>
  BY DEF Read, target_vars, bounds
<1>2. /\ state = now /\ target = "ROM" /\ baud = speed
      /\ stage \in first .. sent + 1 /\ t_baud = Speed(stage)
      /\ Len(line) = sent + 1 - stage
      /\ Hears(IF todo = << >> /\ line = << >> THEN {Reply(stage)} ELSE {})
      /\ line \in Seq(Messages) /\ rx \in Seq(Messages) /\ chatter \in Nat
      /\ Chatter \in Elements(rx) => chatter > 0
  BY DEF At, Wires
<1>3. Head(rx) \in Elements(rx)
  BY <1>1, <1>2, ElementsOf
<1>4. line = << >> => stage = sent + 1
  <2>1. ASSUME line = << >> PROVE stage = sent + 1
    <3>1. Len(line) = 0
      BY <2>1
    <3> QED BY <1>2, <3>1
  <2> QED BY <2>1
<1>5. \/ Head(rx) = Chatter /\ chatter > 0
      \/ line = << >> /\ Head(rx) = Reply(next)
  BY <1>2, <1>3, <1>4 DEF Hears
<1>6. Elements(rx') = {}
  BY <1>1 DEF Elements
<1>7. Hears(IF todo = << >> /\ line = << >> THEN {Reply(stage)} ELSE {})'
  BY <1>6 DEF Hears
<1>8. ASSUME todo' = << >> PROVE At(now, << >>, first, sent, speed)'
  BY <1>1, <1>2, <1>7, <1>8 DEF At
<1>9. ASSUME line = << >>, NEW rest, todo' = rest
      PROVE  At(now, rest, next, sent, speed)'
  <2>1. Together(next, sent, speed, rest)
    BY DEF Together
  <2>2. stage' \in next .. sent + 1 /\ Len(line') = sent + 1 - stage'
        /\ line' = << >>
    BY <1>1, <1>2, <1>4, <1>9
  <2>3. \A i \in 1 .. Len(line') : line'[i] = Script[stage' + i - 1].takes
    BY <2>2
  <2> QED BY <1>1, <1>2, <1>7, <1>9, <2>1, <2>2, <2>3 DEF At
<1>10. Wires'
  BY <1>1, <1>2, <1>6 DEF Wires
<1> QED BY <1>1, <1>5, <1>8, <1>9, <1>10

\* The stretches of the course that are on the line together.
LEMMA Stretches ==
  /\ Together(1, 1, "B19200", << >>)
  /\ Together(2, 2, "B19200", << >>)
  /\ \A rest : Together(3, 3, "B19200", rest)
  /\ Together(4, 4, "B9600", << >>)
  /\ \A rest : Together(5, 5, "B9600", rest)
  /\ Together(6, 6, "B230400", << >>)
  /\ \A rest : Together(7, 7, "B230400", rest)
  /\ Together(7, 8, "B230400", << >>)
  /\ Together(9, 9, "B230400", << >>)
  /\ \A rest : Together(9, 8, "B230400", rest)
<1>1. \A n \in 1 .. 9 : \A s \in n .. n : s = n
  OBVIOUS
<1>2. \A s \in 7 .. 8 : s = 7 \/ s = 8
  OBVIOUS
<1>3. \A s \in 9 .. 8 : FALSE
  OBVIOUS
<1>4. \A s \in {3, 5, 7} : Script[s].says = Nothing
  BY Entries DEF Entry
<1>5. Together(1, 1, "B19200", << >>) /\ Together(2, 2, "B19200", << >>)
  BY <1>1, SpeedsInOrder DEF Together
<1>6. \A rest : Together(3, 3, "B19200", rest)
  BY <1>1, <1>4, SpeedsInOrder DEF Together
<1>7. Together(4, 4, "B9600", << >>) /\ \A rest : Together(5, 5, "B9600", rest)
  BY <1>1, <1>4, SpeedsInOrder DEF Together
<1>8. Together(6, 6, "B230400", << >>) /\ \A rest : Together(7, 7, "B230400", rest)
  BY <1>1, <1>4, SpeedsInOrder DEF Together
<1>9. Together(7, 8, "B230400", << >>)
  BY <1>2, <1>4, SpeedsInOrder DEF Together
<1>10. Together(9, 9, "B230400", << >>) /\ \A rest : Together(9, 8, "B230400", rest)
  BY <1>1, <1>3, SpeedsInOrder DEF Together
<1> QED BY <1>5, <1>6, <1>7, <1>8, <1>9, <1>10

\* The operation that is next decides what the program does.
LEMMA Only ==
  ASSUME todo # << >>, state # "START", Program
  PROVE  /\ Head(todo).op = "write" => WriteOut
         /\ Head(todo).op = "baud" => tty_set_baud \/ Exit
         /\ Head(todo).op = "raw" => tty_set_raw
         /\ Head(todo).op = "pulldown" => SetPulldown
         /\ Head(todo).op = "reset" => RunDectReset
         /\ Head(todo).op = "become" => state_add_handler
BY DEF Program, Runs, Start, Read, ReadBusmail, WriteOut, tty_set_baud, tty_set_raw,
       SetPulldown, RunDectReset, state_add_handler, tty_set_baud_fails, Doing

\* A handler that has returned is called with what is read.
LEMMA OnlyReads ==
  ASSUME todo = << >>, state # "START", Program
  PROVE  \/ Read /\ state \in {"BOOT_STATE", "PRELOADER_STATE"}
         \/ ReadBusmail /\ state \in BusmailStates
BY DEF Program, Runs, Start, Read, ReadBusmail, WriteOut, tty_set_baud, tty_set_raw,
       SetPulldown, RunDectReset, state_add_handler, tty_set_baud_fails, Doing

\* The program's own steps.
LEMMA ProgramKeeps ==
  ASSUME Program
  PROVE  UNCHANGED <<chatter, unexpected>>
BY DEF Program, Runs, Start, Read, ReadBusmail, WriteOut, tty_set_baud, tty_set_raw,
       SetPulldown, RunDectReset, state_add_handler, tty_set_baud_fails, Exit,
       target_vars, bounds

\* Everything that is not the program's.
Others == Taken \/ TakenDamaged \/ Poll \/ Announce \/ Chat \/ UNCHANGED vars

\* What they keep everywhere.
Kept == /\ Wires' /\ NothingLost' /\ UNCHANGED <<state, todo>>
        /\ chatter' \in Nat /\ chatter' >= chatter

\* The ROM does not poll here unless it is waited for.
Unpolled(first, sent, rest) ==
    first > 1 \/ sent > 0 \/ rest = << >> \/ rest = <<Write("SIZE")>>

\* An image is the last that was written, and its checksum says it was damaged.
Spoilable(rest, sent) == rest = << >> /\ sent \in {2, 8}
Spoilt(sent) == /\ stage = sent /\ line = << >> /\ target = "ROM" /\ outcount = 0
                /\ Hears({"OTHER_CHECKSUM"})

\* The course is kept by the target, unless an image is damaged.
LEMMA OthersAt ==
  ASSUME NEW now, NEW rest, NEW first \in 1 .. 9, NEW sent \in 0 .. 9, NEW speed,
         Wires, At(now, rest, first, sent, speed), NothingLost, Others,
         Unpolled(first, sent, rest)
  PROVE  /\ \/ At(now, rest, first, sent, speed)'
            \/ Spoilable(rest, sent) /\ Spoilt(sent)'
         /\ Kept /\ UNCHANGED unexpected
<1> USE DEF Kept, Unpolled, Spoilable, Spoilt
<1>1. /\ chatter \in Nat /\ rx \in Seq(Messages) /\ line \in Seq(Messages)
      /\ Chatter \in Elements(rx) => chatter > 0
  BY DEF Wires
<1>2. todo = rest /\ target = "ROM"
  BY DEF At
<1>3. CASE Taken
  <2>1. At(now, rest, first, sent, speed)' /\ UNCHANGED <<lost, unexpected>> /\ Wires'
    BY <1>3, TakenAt
  <2>2. UNCHANGED <<state, todo, chatter>>
    BY <1>3 DEF Taken, bounds
  <2> QED BY <1>1, <2>1, <2>2 DEF NothingLost
<1>4. CASE TakenDamaged
  <2>1. /\ rest = << >> /\ sent \in {2, 8} /\ stage' = sent
        /\ line' = << >> /\ outcount' = 0 /\ Hears({"OTHER_CHECKSUM"})'
        /\ Wires' /\ UNCHANGED <<state, todo, target, lost, unexpected>>
    BY <1>4, DamagedAt
  <2>2. chatter' = chatter
    BY <1>4 DEF TakenDamaged
  <2> QED BY <1>1, <1>2, <2>1, <2>2 DEF NothingLost
<1>5. CASE Poll
  <2>1. /\ stage = 1 /\ rx = << >> /\ line = << >> /\ Says("STX", t_baud)
        /\ \A i \in 1 .. Len(todo) : todo[i].op # "write"
        /\ UNCHANGED <<state, todo, line, baud, target, stage, t_baud, outcount,
                       chatter, unexpected>>
    BY <1>5 DEF Poll, target_vars, bounds
  <2>2. "STX" \in Messages /\ "STX" # Nothing /\ "STX" # Chatter
    BY DEF Messages, Nothing, Chatter
  <2>3. /\ rx' \in Seq(Messages) /\ Elements(rx') \subseteq Elements(rx) \cup {"STX"}
        /\ lost' \subseteq lost \cup {"STX"}
    BY <1>1, <2>1, <2>2, Said
  <2>4. rest # <<Write("SIZE")>>
    <3>1. ASSUME rest = <<Write("SIZE")>> PROVE FALSE
      <4>1. 1 \in 1 .. Len(todo) /\ todo[1].op = "write"
        BY <1>2, <3>1 DEF Write
      <4> QED BY <2>1, <4>1
    <3> QED BY <3>1
  <2>5. At(now, rest, first, sent, speed)'
    BY <2>1, <2>3, <2>4, PollAt
  <2>6. NothingLost'
    BY <2>3 DEF NothingLost
  <2>7. Wires'
    BY <1>1, <2>1, <2>2, <2>3 DEF Wires
  <2> QED BY <1>1, <2>1, <2>5, <2>6, <2>7
<1>6. CASE Announce
  BY <1>2, <1>6 DEF Announce
<1>7. CASE Chat
  <2>1. /\ Says(Chatter, t_baud) /\ chatter' = chatter + 1
        /\ UNCHANGED <<state, todo, line, baud, target, stage, t_baud, outcount,
                       unexpected>>
    BY <1>7 DEF Chat, target_vars
  <2>2. Chatter \in Messages
    BY DEF Messages
  <2>3. /\ rx' \in Seq(Messages) /\ Elements(rx') \subseteq Elements(rx) \cup {Chatter}
        /\ lost' \subseteq lost \cup {Chatter}
    BY <1>1, <2>1, <2>2, Said
  <2>4. At(now, rest, first, sent, speed)'
    BY <2>1, <2>3, ChatAt
  <2>5. chatter' \in Nat /\ chatter' > 0 /\ chatter' >= chatter
    BY <1>1, <2>1
  <2> QED BY <1>1, <2>1, <2>3, <2>4, <2>5 DEF NothingLost, Wires
<1>8. CASE UNCHANGED vars
  <2>1. UNCHANGED <<state, todo, line, baud, target, stage, t_baud, outcount, rx,
                    unexpected, lost, chatter>>
    BY <1>8 DEF vars, port_vars, target_vars, bounds, history
  <2>2. At(now, rest, first, sent, speed)'
    BY <2>1, ChatAt
  <2> QED BY <1>1, <2>1, <2>2 DEF NothingLost, Wires
<1> QED BY <1>3, <1>4, <1>5, <1>6, <1>7, <1>8 DEF Others

\* What the handlers do about what they read.
LEMMA Handled ==
  ASSUME Read
  PROVE  /\ state = "BOOT_STATE" /\ Head(rx) = "STX" => todo' = <<Write("SIZE")>>
         /\ state = "BOOT_STATE" /\ Head(rx) = Chatter =>
               todo' = << >> \/ todo' = <<Write(Garbage)>>
         /\ state = "BOOT_STATE" /\ outcount = 0 =>
               /\ Head(rx) \in {Chatter, "OTHER_CHECKSUM"} => todo' = << >>
               /\ Head(rx) = "ACK" => todo' = <<Write("PRELOADER_IMAGE")>>
               /\ Head(rx) = "PRELOADER_CHECKSUM" => todo' = ConfirmPreloader
         /\ state = "PRELOADER_STATE" /\ outcount = 0 =>
               /\ Head(rx) \in {Chatter, "OTHER_CHECKSUM"} => todo' = << >>
               /\ Head(rx) = "PRELOADER_READY" => todo' = set_baudrate
               /\ Head(rx) = "PRELOADER_NEW_BAUDRATE_READY" =>
                     todo' = <<Write("SIZE"), Write("FLASHLOADER_IMAGE")>>
               /\ Head(rx) = "FLASHLOADER_CHECKSUM" => todo' = EnterFlashloader
<1> DEFINE b == Head(rx)
           T == {Write("ACK"), Write("PRELOADER_IMAGE"), Write("SIZE"), Write(Garbage),
                 Write("PRELOADER_START"), Write("PRELOADER_BAUD_230400"),
                 Write("PRELOADER_NEW_BAUDRATE"), Write("FLASHLOADER_IMAGE"),
                 Write("SW_VERSION_REQ"), SetBaud("B9600"), SetBaud("B230400"),
                 Become("PRELOADER_STATE"), Become("FLASHLOADER_STATE")}
<1>1. /\ state = "BOOT_STATE" /\ b = "STX" => todo' = <<Write("SIZE")>>
      /\ state = "BOOT_STATE" /\ b # "STX" => todo' = handle_boot_package(b) \o Unasked
      /\ state = "PRELOADER_STATE" => todo' = handle_preloader_package(b) \o Unasked
  BY DEF Read
<1>2. Unasked \in {<< >>, <<Write(Garbage)>>} /\ (outcount = 0 => Unasked = << >>)
  BY DEF Unasked
<1>3. ASSUME NEW task \in Seq(T) PROVE task \o << >> = task
  BY ConcatEmptySeq
<1>4. /\ <<Write("PRELOADER_IMAGE")>> \in Seq(T) /\ << >> \in Seq(T)
      /\ <<Write(Garbage)>> \in Seq(T)
  OBVIOUS
<1>5. ConfirmPreloader \in Seq(T)
  <2>1. <<Write("ACK"), Become("PRELOADER_STATE"), SetBaud("B9600"),
          Write("PRELOADER_START")>> \in Seq(T)
    OBVIOUS
  <2> QED BY <2>1, Tasks
<1>6. set_baudrate \in Seq(T)
  BY DEF set_baudrate
<1>7. <<Write("SIZE"), Write("FLASHLOADER_IMAGE")>> \in Seq(T)
  OBVIOUS
<1>8. EnterFlashloader \in Seq(T)
  <2>1. <<Become("FLASHLOADER_STATE"), Write("SW_VERSION_REQ")>> \in Seq(T)
    OBVIOUS
  <2> QED BY <2>1, Tasks
<1>9. << >> \o << >> = << >> /\ << >> \o <<Write(Garbage)>> = <<Write(Garbage)>>
  BY <1>4, ConcatEmptySeq
<1> HIDE DEF T, b
<1>10. /\ b \in {Chatter, "OTHER_CHECKSUM"} =>
             b # "STX" /\ handle_boot_package(b) = << >>
       /\ b = "ACK" => b # "STX" /\ handle_boot_package(b) = <<Write("PRELOADER_IMAGE")>>
       /\ b = "PRELOADER_CHECKSUM" =>
             b # "STX" /\ handle_boot_package(b) =
                 ConfirmPreloader
  BY DEF handle_boot_package, Chatter, ConfirmPreloader
<1>11. /\ b \in {Chatter, "OTHER_CHECKSUM"} => handle_preloader_package(b) = << >>
       /\ b = "PRELOADER_READY" => handle_preloader_package(b) = set_baudrate
       /\ b = "PRELOADER_NEW_BAUDRATE_READY" =>
             handle_preloader_package(b) = <<Write("SIZE"), Write("FLASHLOADER_IMAGE")>>
       /\ b = "FLASHLOADER_CHECKSUM" =>
             handle_preloader_package(b) =
                 EnterFlashloader
  BY DEF handle_preloader_package, Chatter, EnterFlashloader
<1>12. ASSUME state = "BOOT_STATE"
       PROVE  /\ b = Chatter => todo' = << >> \/ todo' = <<Write(Garbage)>>
              /\ outcount = 0 =>
               /\ b \in {Chatter, "OTHER_CHECKSUM"} => todo' = << >>
               /\ b = "ACK" => todo' = <<Write("PRELOADER_IMAGE")>>
               /\ b = "PRELOADER_CHECKSUM" => todo' = ConfirmPreloader
  BY <1>1, <1>2, <1>3, <1>4, <1>5, <1>9, <1>10, <1>12
<1>13. ASSUME state = "PRELOADER_STATE", outcount = 0
       PROVE  /\ b \in {Chatter, "OTHER_CHECKSUM"} => todo' = << >>
              /\ b = "PRELOADER_READY" => todo' = set_baudrate
              /\ b = "PRELOADER_NEW_BAUDRATE_READY" =>
                    todo' = <<Write("SIZE"), Write("FLASHLOADER_IMAGE")>>
              /\ b = "FLASHLOADER_CHECKSUM" =>
                    todo' = EnterFlashloader
  BY <1>1, <1>2, <1>3, <1>6, <1>7, <1>8, <1>9, <1>11, <1>13
<1> QED BY <1>1, <1>12, <1>13 DEF b

\* The program on its way through the boot handler.
LEMMA BootProgram ==
  ASSUME Wires, NothingLost, InBoot, Program
  PROVE  (InBoot \/ InPreloader \/ Disturbed)' /\ Wires' /\ NothingLost'
<1>1. CASE At("BOOT_STATE", << >>, 1, 0, "B19200")
  <2>1. Read
    BY <1>1, OnlyReads DEF At, BusmailStates
  <2>2. 1 \in 1 .. 9 /\ 0 \in 0 .. 9 /\ Follows(1, 0)
    BY DEF Follows
  <2>3. /\ \/ Head(rx) = Chatter /\ chatter > 0
           \/ line = << >> /\ Head(rx) = Reply(1)
        /\ todo' = << >> => At("BOOT_STATE", << >>, 1, 0, "B19200")'
        /\ line = << >> /\ todo' # << >> =>
              \A rest : todo' = rest => At("BOOT_STATE", rest, 1, 0, "B19200")'
        /\ Wires' /\ UNCHANGED <<lost, unexpected>>
    BY <1>1, <2>1, <2>2, ReadAt, Zenon
  <2>4. /\ stage = 1 /\ line = << >> /\ state = "BOOT_STATE" /\ target = "ROM"
        /\ baud = "B19200" /\ t_baud = "B19200"
    <3>1. /\ stage \in 1 .. 0 + 1 /\ Len(line) = 0 + 1 - stage /\ t_baud = Speed(stage)
          /\ state = "BOOT_STATE" /\ target = "ROM" /\ baud = "B19200"
          /\ line \in Seq(Messages)
      BY <1>1 DEF At, Wires
    <3>2. stage = 1 /\ Len(line) = 0
      BY <3>1
    <3> QED BY <3>1, <3>2, SpeedsInOrder, EmptySeq
  <2>5. CASE Head(rx) = "STX"
    <3>1. todo' = <<Write("SIZE")>> /\ todo' # << >>
      BY <2>1, <2>4, <2>5, Handled
    <3>2. At("BOOT_STATE", <<Write("SIZE")>>, 1, 0, "B19200")'
      BY <2>3, <2>4, <3>1, Zenon
    <3> QED BY <2>3, <3>2 DEF InBoot, NothingLost
  <2>6. CASE Head(rx) = Chatter /\ chatter > 0
    <3>1. todo' = << >> \/ todo' = <<Write(Garbage)>>
      BY <2>1, <2>4, <2>6, Handled
    <3>2. CASE todo' = << >>
      <4>1. At("BOOT_STATE", << >>, 1, 0, "B19200")'
        BY <2>3, <3>2, Zenon
      <4> QED BY <2>3, <4>1 DEF InBoot, NothingLost
    <3>3. CASE todo' = <<Write(Garbage)>>
      <4>1. /\ rx' = << >> /\ outcount' = 0
            /\ UNCHANGED <<state, line, baud, target, stage, t_baud, chatter>>
        BY <2>1 DEF Read, target_vars, bounds
      <4>2. Hears({})'
        BY <4>1 DEF Hears, Elements
      <4>3. Disturbed'
        BY <2>4, <2>6, <3>3, <4>1, <4>2 DEF Disturbed
      <4> QED BY <2>3, <4>3 DEF NothingLost
    <3> QED BY <3>1, <3>2, <3>3
  <2>7. Reply(1) = "STX"
    BY DEF Reply
  <2> QED BY <2>3, <2>5, <2>6, <2>7
<1>2. CASE At("BOOT_STATE", <<Write("SIZE")>>, 1, 0, "B19200")
  <2>1. Splits(<<Write("SIZE")>>, Write(Script[1].takes),
               << >>)
    BY Entries DEF Splits, Entry
  <2>2. WriteOut
    BY <1>2, <2>1, Only DEF Splits, At, Write
  <2>3. 1 \in 1 .. 9 /\ 0 \in 0 .. 8 /\ 1 \in 1 .. 9 /\ Follows(1, 0)
    BY DEF Follows
  <2>4. Together(1, 1, "B19200", << >>)
    BY Stretches
  <2>5. /\ At("BOOT_STATE", << >>, 1, 1, "B19200")'
        /\ Wires' /\ UNCHANGED <<lost, unexpected>>
    BY <1>2, <2>1, <2>2, <2>3, <2>4, WriteAt, Zenon
  <2>6. InBoot'
    BY <2>5, Zenon DEF InBoot
  <2> QED BY <2>5, <2>6 DEF NothingLost
<1>3. CASE At("BOOT_STATE", << >>, 1, 1, "B19200")
  <2>1. Read
    BY <1>3, OnlyReads DEF At, BusmailStates
  <2>2. 1 \in 1 .. 9 /\ 1 \in 0 .. 9 /\ Follows(2, 1)
    BY DEF Follows
  <2>3. /\ \/ Head(rx) = Chatter /\ chatter > 0
           \/ line = << >> /\ Head(rx) = Reply(2)
        /\ todo' = << >> => At("BOOT_STATE", << >>, 1, 1, "B19200")'
        /\ line = << >> /\ todo' # << >> =>
              \A rest : todo' = rest => At("BOOT_STATE", rest, 2, 1, "B19200")'
        /\ Wires' /\ UNCHANGED <<lost, unexpected>>
    BY <1>3, <2>1, <2>2, ReadAt, Zenon
  <2>4. state = "BOOT_STATE" /\ outcount = 0
    BY <1>3 DEF At
  <2>5. Reply(2) = "ACK"
    BY Entries DEF Reply, Entry
  <2>6. <<Write("PRELOADER_IMAGE")>> # << >>
    OBVIOUS
  <2>7. CASE Head(rx) = Chatter
    <3>1. todo' = << >>
      BY <2>1, <2>4, <2>7, Handled
    <3>2. At("BOOT_STATE", << >>, 1, 1, "B19200")'
      BY <2>3, <3>1, Zenon
    <3> QED BY <2>3, <3>2 DEF InBoot, NothingLost
  <2>8. CASE line = << >> /\ Head(rx) = "ACK"
    <3>1. todo' = <<Write("PRELOADER_IMAGE")>>
      BY <2>1, <2>4, <2>8, Handled
    <3>2. todo' # << >>
      BY <2>6, <3>1
    <3>3. At("BOOT_STATE", <<Write("PRELOADER_IMAGE")>>, 2, 1, "B19200")'
      BY <2>3, <2>8, <3>1, <3>2, Zenon
    <3> QED BY <2>3, <3>3 DEF InBoot, NothingLost
  <2> QED BY <2>3, <2>5, <2>7, <2>8
<1>4. CASE At("BOOT_STATE", <<Write("PRELOADER_IMAGE")>>, 2, 1, "B19200")
  <2>1. Splits(<<Write("PRELOADER_IMAGE")>>, Write(Script[2].takes),
               << >>)
    BY Entries DEF Splits, Entry
  <2>2. WriteOut
    BY <1>4, <2>1, Only DEF Splits, At, Write
  <2>3. 2 \in 1 .. 9 /\ 1 \in 0 .. 8 /\ 2 \in 1 .. 9 /\ Follows(2, 1)
    BY DEF Follows
  <2>4. Together(2, 2, "B19200", << >>)
    BY Stretches
  <2>5. /\ At("BOOT_STATE", << >>, 2, 2, "B19200")'
        /\ Wires' /\ UNCHANGED <<lost, unexpected>>
    BY <1>4, <2>1, <2>2, <2>3, <2>4, WriteAt, Zenon
  <2>6. InBoot'
    BY <2>5, Zenon DEF InBoot
  <2> QED BY <2>5, <2>6 DEF NothingLost
<1>5. CASE At("BOOT_STATE", << >>, 2, 2, "B19200")
  <2>1. Read
    BY <1>5, OnlyReads DEF At, BusmailStates
  <2>2. 2 \in 1 .. 9 /\ 2 \in 0 .. 9 /\ Follows(3, 2)
    BY DEF Follows
  <2>3. /\ \/ Head(rx) = Chatter /\ chatter > 0
           \/ line = << >> /\ Head(rx) = Reply(3)
        /\ todo' = << >> => At("BOOT_STATE", << >>, 2, 2, "B19200")'
        /\ line = << >> /\ todo' # << >> =>
              \A rest : todo' = rest => At("BOOT_STATE", rest, 3, 2, "B19200")'
        /\ Wires' /\ UNCHANGED <<lost, unexpected>>
    BY <1>5, <2>1, <2>2, ReadAt, Zenon
  <2>4. state = "BOOT_STATE" /\ outcount = 0
    BY <1>5 DEF At
  <2>5. Reply(3) = "PRELOADER_CHECKSUM"
    BY Entries DEF Reply, Entry
  <2>6. ConfirmPreloader # << >>
    BY Tasks
  <2>7. CASE Head(rx) = Chatter
    <3>1. todo' = << >>
      BY <2>1, <2>4, <2>7, Handled
    <3>2. At("BOOT_STATE", << >>, 2, 2, "B19200")'
      BY <2>3, <3>1, Zenon
    <3> QED BY <2>3, <3>2 DEF InBoot, NothingLost
  <2>8. CASE line = << >> /\ Head(rx) = "PRELOADER_CHECKSUM"
    <3>1. todo' = ConfirmPreloader
      BY <2>1, <2>4, <2>8, Handled
    <3>2. todo' # << >>
      BY <2>6, <3>1
    <3>3. At("BOOT_STATE", ConfirmPreloader, 3, 2, "B19200")'
      BY <2>3, <2>8, <3>1, <3>2, Zenon
    <3> QED BY <2>3, <3>3 DEF InBoot, NothingLost
  <2> QED BY <2>3, <2>5, <2>7, <2>8
<1>6. CASE At("BOOT_STATE", ConfirmPreloader, 3, 2, "B19200")
  <2>1. Splits(ConfirmPreloader, Write(Script[3].takes), EnterPreloader)
    BY Entries, Tasks DEF Splits, Entry
  <2>2. WriteOut
    BY <1>6, <2>1, Only DEF Splits, At, Write
  <2>3. 3 \in 1 .. 9 /\ 2 \in 0 .. 8 /\ 3 \in 1 .. 9 /\ Follows(3, 2)
    BY DEF Follows
  <2>4. Together(3, 3, "B19200", EnterPreloader)
    BY Stretches
  <2>5. /\ At("BOOT_STATE", EnterPreloader, 3, 3, "B19200")'
        /\ Wires' /\ UNCHANGED <<lost, unexpected>>
    BY <1>6, <2>1, <2>2, <2>3, <2>4, WriteAt, Zenon
  <2>6. InBoot'
    BY <2>5, Zenon DEF InBoot
  <2> QED BY <2>5, <2>6 DEF NothingLost
<1>7. CASE At("BOOT_STATE", EnterPreloader, 3, 3, "B19200")
  <2>1. Splits(EnterPreloader, Become("PRELOADER_STATE"), init_preloader_state)
    <3>1. init_preloader_state = <<SetBaud("B9600"), Write("PRELOADER_START")>>
      BY DEF init_preloader_state
    <3>2. EnterPreloader =
            <<Become("PRELOADER_STATE"), SetBaud("B9600"), Write("PRELOADER_START")>>
      BY Tasks
    <3>3. Splits(<<Become("PRELOADER_STATE"), SetBaud("B9600"), Write("PRELOADER_START")>>,
               Become("PRELOADER_STATE"), <<SetBaud("B9600"), Write("PRELOADER_START")>>)
      BY DEF Splits
    <3> QED BY <3>1, <3>2, <3>3, Zenon
  <2>2. state_add_handler
    BY <1>7, <2>1, Only DEF Splits, At, Become
  <2>3. 3 \in 1 .. 9 /\ 3 \in 0 .. 9
    OBVIOUS
  <2>4. Together(3, 3, "B19200", init_preloader_state)
    BY Stretches
  <2>5. /\ At("PRELOADER_STATE", init_preloader_state, 3, 3, "B19200")'
        /\ Wires' /\ UNCHANGED <<lost, unexpected>>
    BY <1>7, <2>1, <2>2, <2>3, <2>4, BecomeAt, Zenon
  <2> QED BY <2>5 DEF InPreloader, NothingLost
<1> QED BY <1>1, <1>2, <1>3, <1>4, <1>5, <1>6, <1>7 DEF InBoot

\* The program on its way through the preloader handler.
LEMMA PreloaderProgram ==
  ASSUME Wires, NothingLost, InPreloader, Program
  PROVE  (InPreloader \/ InFlashloader \/ Failed)' /\ Wires' /\ NothingLost'
<1>1. CASE At("PRELOADER_STATE", init_preloader_state, 3, 3, "B19200")
  <2>1. Splits(init_preloader_state, SetBaud("B9600"),
               <<Write("PRELOADER_START")>>)
    BY DEF Splits, init_preloader_state
  <2>2. tty_set_baud \/ Exit
    BY <1>1, <2>1, Only DEF Splits, At, SetBaud
  <2>3. 3 \in 1 .. 9 /\ 3 \in 0 .. 8 /\ 3 \in 0 .. 9 /\ Follows(4, 3)
    BY DEF Follows
  <2>4. CASE tty_set_baud
    <3>1. /\ At("PRELOADER_STATE", <<Write("PRELOADER_START")>>, 4, 3, "B9600")'
          /\ Wires' /\ UNCHANGED unexpected /\ lost' \subseteq lost \cup {Chatter}
      BY <1>1, <2>1, <2>3, <2>4, BaudAt, Zenon
    <3> QED BY <3>1 DEF InPreloader, NothingLost
  <2>5. CASE Exit
    <3>1. /\ At("EXITED", << >>, 3, 3, "B19200")'
          /\ Wires' /\ UNCHANGED <<lost, unexpected>>
      BY <1>1, <2>1, <2>3, <2>5, FailAt, Zenon
    <3> QED BY <3>1 DEF Failed, NothingLost
  <2> QED BY <2>2, <2>4, <2>5
<1>2. CASE At("PRELOADER_STATE", <<Write("PRELOADER_START")>>, 4, 3, "B9600")
  <2>1. Splits(<<Write("PRELOADER_START")>>, Write(Script[4].takes),
               << >>)
    BY Entries DEF Splits, Entry
  <2>2. WriteOut
    BY <1>2, <2>1, Only DEF Splits, At, Write
  <2>3. 4 \in 1 .. 9 /\ 3 \in 0 .. 8 /\ 4 \in 1 .. 9 /\ Follows(4, 3)
    BY DEF Follows
  <2>4. Together(4, 4, "B9600", << >>)
    BY Stretches
  <2>5. /\ At("PRELOADER_STATE", << >>, 4, 4, "B9600")'
        /\ Wires' /\ UNCHANGED <<lost, unexpected>>
    BY <1>2, <2>1, <2>2, <2>3, <2>4, WriteAt, Zenon
  <2>6. InPreloader'
    BY <2>5, Zenon DEF InPreloader
  <2> QED BY <2>5, <2>6 DEF NothingLost
<1>3. CASE At("PRELOADER_STATE", << >>, 4, 4, "B9600")
  <2>1. Read
    BY <1>3, OnlyReads DEF At, BusmailStates
  <2>2. 4 \in 1 .. 9 /\ 4 \in 0 .. 9 /\ Follows(5, 4)
    BY DEF Follows
  <2>3. /\ \/ Head(rx) = Chatter /\ chatter > 0
           \/ line = << >> /\ Head(rx) = Reply(5)
        /\ todo' = << >> => At("PRELOADER_STATE", << >>, 4, 4, "B9600")'
        /\ line = << >> /\ todo' # << >> =>
              \A rest : todo' = rest => At("PRELOADER_STATE", rest, 5, 4, "B9600")'
        /\ Wires' /\ UNCHANGED <<lost, unexpected>>
    BY <1>3, <2>1, <2>2, ReadAt, Zenon
  <2>4. state = "PRELOADER_STATE" /\ outcount = 0
    BY <1>3 DEF At
  <2>5. Reply(5) = "PRELOADER_READY"
    BY Entries DEF Reply, Entry
  <2>6. set_baudrate # << >>
    BY  DEF set_baudrate
  <2>7. CASE Head(rx) = Chatter
    <3>1. todo' = << >>
      BY <2>1, <2>4, <2>7, Handled
    <3>2. At("PRELOADER_STATE", << >>, 4, 4, "B9600")'
      BY <2>3, <3>1, Zenon
    <3> QED BY <2>3, <3>2 DEF InPreloader, NothingLost
  <2>8. CASE line = << >> /\ Head(rx) = "PRELOADER_READY"
    <3>1. todo' = set_baudrate
      BY <2>1, <2>4, <2>8, Handled
    <3>2. todo' # << >>
      BY <2>6, <3>1
    <3>3. At("PRELOADER_STATE", set_baudrate, 5, 4, "B9600")'
      BY <2>3, <2>8, <3>1, <3>2, Zenon
    <3> QED BY <2>3, <3>3 DEF InPreloader, NothingLost
  <2> QED BY <2>3, <2>5, <2>7, <2>8
<1>4. CASE At("PRELOADER_STATE", set_baudrate, 5, 4, "B9600")
  <2>1. Splits(set_baudrate, Write(Script[5].takes),
               <<SetBaud("B230400"), Write("PRELOADER_NEW_BAUDRATE")>>)
    BY Entries DEF Splits, Entry, set_baudrate
  <2>2. WriteOut
    BY <1>4, <2>1, Only DEF Splits, At, Write
  <2>3. 5 \in 1 .. 9 /\ 4 \in 0 .. 8 /\ 5 \in 1 .. 9 /\ Follows(5, 4)
    BY DEF Follows
  <2>4. Together(5, 5, "B9600", <<SetBaud("B230400"), Write("PRELOADER_NEW_BAUDRATE")>>)
    BY Stretches
  <2>5. /\ At("PRELOADER_STATE", <<SetBaud("B230400"), Write("PRELOADER_NEW_BAUDRATE")>>, 5, 5, "B9600")'
        /\ Wires' /\ UNCHANGED <<lost, unexpected>>
    BY <1>4, <2>1, <2>2, <2>3, <2>4, WriteAt, Zenon
  <2>6. InPreloader'
    BY <2>5, Zenon DEF InPreloader
  <2> QED BY <2>5, <2>6 DEF NothingLost
<1>5. CASE At("PRELOADER_STATE", <<SetBaud("B230400"), Write("PRELOADER_NEW_BAUDRATE")>>, 5, 5, "B9600")
  <2>1. Splits(<<SetBaud("B230400"), Write("PRELOADER_NEW_BAUDRATE")>>, SetBaud("B230400"),
               <<Write("PRELOADER_NEW_BAUDRATE")>>)
    BY DEF Splits
  <2>2. tty_set_baud \/ Exit
    BY <1>5, <2>1, Only DEF Splits, At, SetBaud
  <2>3. 5 \in 1 .. 9 /\ 5 \in 0 .. 8 /\ 5 \in 0 .. 9 /\ Follows(6, 5)
    BY DEF Follows
  <2>4. CASE tty_set_baud
    <3>1. /\ At("PRELOADER_STATE", <<Write("PRELOADER_NEW_BAUDRATE")>>, 6, 5, "B230400")'
          /\ Wires' /\ UNCHANGED unexpected /\ lost' \subseteq lost \cup {Chatter}
      BY <1>5, <2>1, <2>3, <2>4, BaudAt, Zenon
    <3> QED BY <3>1 DEF InPreloader, NothingLost
  <2>5. CASE Exit
    <3>1. /\ At("EXITED", << >>, 5, 5, "B9600")'
          /\ Wires' /\ UNCHANGED <<lost, unexpected>>
      BY <1>5, <2>1, <2>3, <2>5, FailAt, Zenon
    <3> QED BY <3>1 DEF Failed, NothingLost
  <2> QED BY <2>2, <2>4, <2>5
<1>6. CASE At("PRELOADER_STATE", <<Write("PRELOADER_NEW_BAUDRATE")>>, 6, 5, "B230400")
  <2>1. Splits(<<Write("PRELOADER_NEW_BAUDRATE")>>, Write(Script[6].takes),
               << >>)
    BY Entries DEF Splits, Entry
  <2>2. WriteOut
    BY <1>6, <2>1, Only DEF Splits, At, Write
  <2>3. 6 \in 1 .. 9 /\ 5 \in 0 .. 8 /\ 6 \in 1 .. 9 /\ Follows(6, 5)
    BY DEF Follows
  <2>4. Together(6, 6, "B230400", << >>)
    BY Stretches
  <2>5. /\ At("PRELOADER_STATE", << >>, 6, 6, "B230400")'
        /\ Wires' /\ UNCHANGED <<lost, unexpected>>
    BY <1>6, <2>1, <2>2, <2>3, <2>4, WriteAt, Zenon
  <2>6. InPreloader'
    BY <2>5, Zenon DEF InPreloader
  <2> QED BY <2>5, <2>6 DEF NothingLost
<1>7. CASE At("PRELOADER_STATE", << >>, 6, 6, "B230400")
  <2>1. Read
    BY <1>7, OnlyReads DEF At, BusmailStates
  <2>2. 6 \in 1 .. 9 /\ 6 \in 0 .. 9 /\ Follows(7, 6)
    BY DEF Follows
  <2>3. /\ \/ Head(rx) = Chatter /\ chatter > 0
           \/ line = << >> /\ Head(rx) = Reply(7)
        /\ todo' = << >> => At("PRELOADER_STATE", << >>, 6, 6, "B230400")'
        /\ line = << >> /\ todo' # << >> =>
              \A rest : todo' = rest => At("PRELOADER_STATE", rest, 7, 6, "B230400")'
        /\ Wires' /\ UNCHANGED <<lost, unexpected>>
    BY <1>7, <2>1, <2>2, ReadAt, Zenon
  <2>4. state = "PRELOADER_STATE" /\ outcount = 0
    BY <1>7 DEF At
  <2>5. Reply(7) = "PRELOADER_NEW_BAUDRATE_READY"
    BY Entries DEF Reply, Entry
  <2>6. <<Write("SIZE"), Write("FLASHLOADER_IMAGE")>> # << >>
    OBVIOUS
  <2>7. CASE Head(rx) = Chatter
    <3>1. todo' = << >>
      BY <2>1, <2>4, <2>7, Handled
    <3>2. At("PRELOADER_STATE", << >>, 6, 6, "B230400")'
      BY <2>3, <3>1, Zenon
    <3> QED BY <2>3, <3>2 DEF InPreloader, NothingLost
  <2>8. CASE line = << >> /\ Head(rx) = "PRELOADER_NEW_BAUDRATE_READY"
    <3>1. todo' = <<Write("SIZE"), Write("FLASHLOADER_IMAGE")>>
      BY <2>1, <2>4, <2>8, Handled
    <3>2. todo' # << >>
      BY <2>6, <3>1
    <3>3. At("PRELOADER_STATE", <<Write("SIZE"), Write("FLASHLOADER_IMAGE")>>, 7, 6, "B230400")'
      BY <2>3, <2>8, <3>1, <3>2, Zenon
    <3> QED BY <2>3, <3>3 DEF InPreloader, NothingLost
  <2> QED BY <2>3, <2>5, <2>7, <2>8
<1>8. CASE At("PRELOADER_STATE", <<Write("SIZE"), Write("FLASHLOADER_IMAGE")>>, 7, 6, "B230400")
  <2>1. Splits(<<Write("SIZE"), Write("FLASHLOADER_IMAGE")>>, Write(Script[7].takes),
               <<Write("FLASHLOADER_IMAGE")>>)
    BY Entries DEF Splits, Entry
  <2>2. WriteOut
    BY <1>8, <2>1, Only DEF Splits, At, Write
  <2>3. 7 \in 1 .. 9 /\ 6 \in 0 .. 8 /\ 7 \in 1 .. 9 /\ Follows(7, 6)
    BY DEF Follows
  <2>4. Together(7, 7, "B230400", <<Write("FLASHLOADER_IMAGE")>>)
    BY Stretches
  <2>5. /\ At("PRELOADER_STATE", <<Write("FLASHLOADER_IMAGE")>>, 7, 7, "B230400")'
        /\ Wires' /\ UNCHANGED <<lost, unexpected>>
    BY <1>8, <2>1, <2>2, <2>3, <2>4, WriteAt, Zenon
  <2>6. InPreloader'
    BY <2>5, Zenon DEF InPreloader
  <2> QED BY <2>5, <2>6 DEF NothingLost
<1>9. CASE At("PRELOADER_STATE", <<Write("FLASHLOADER_IMAGE")>>, 7, 7, "B230400")
  <2>1. Splits(<<Write("FLASHLOADER_IMAGE")>>, Write(Script[8].takes),
               << >>)
    BY Entries DEF Splits, Entry
  <2>2. WriteOut
    BY <1>9, <2>1, Only DEF Splits, At, Write
  <2>3. 7 \in 1 .. 9 /\ 7 \in 0 .. 8 /\ 8 \in 1 .. 9 /\ Follows(8, 7)
    BY DEF Follows
  <2>4. Together(7, 8, "B230400", << >>)
    BY Stretches
  <2>5. /\ At("PRELOADER_STATE", << >>, 7, 8, "B230400")'
        /\ Wires' /\ UNCHANGED <<lost, unexpected>>
    BY <1>9, <2>1, <2>2, <2>3, <2>4, WriteAt, Zenon
  <2>6. InPreloader'
    BY <2>5, Zenon DEF InPreloader
  <2> QED BY <2>5, <2>6 DEF NothingLost
<1>10. CASE At("PRELOADER_STATE", << >>, 7, 8, "B230400")
  <2>1. Read
    BY <1>10, OnlyReads DEF At, BusmailStates
  <2>2. 7 \in 1 .. 9 /\ 8 \in 0 .. 9 /\ Follows(9, 8)
    BY DEF Follows
  <2>3. /\ \/ Head(rx) = Chatter /\ chatter > 0
           \/ line = << >> /\ Head(rx) = Reply(9)
        /\ todo' = << >> => At("PRELOADER_STATE", << >>, 7, 8, "B230400")'
        /\ line = << >> /\ todo' # << >> =>
              \A rest : todo' = rest => At("PRELOADER_STATE", rest, 9, 8, "B230400")'
        /\ Wires' /\ UNCHANGED <<lost, unexpected>>
    BY <1>10, <2>1, <2>2, ReadAt, Zenon
  <2>4. state = "PRELOADER_STATE" /\ outcount = 0
    BY <1>10 DEF At
  <2>5. Reply(9) = "FLASHLOADER_CHECKSUM"
    BY Entries DEF Reply, Entry
  <2>6. EnterFlashloader # << >>
    BY Tasks
  <2>7. CASE Head(rx) = Chatter
    <3>1. todo' = << >>
      BY <2>1, <2>4, <2>7, Handled
    <3>2. At("PRELOADER_STATE", << >>, 7, 8, "B230400")'
      BY <2>3, <3>1, Zenon
    <3> QED BY <2>3, <3>2 DEF InPreloader, NothingLost
  <2>8. CASE line = << >> /\ Head(rx) = "FLASHLOADER_CHECKSUM"
    <3>1. todo' = EnterFlashloader
      BY <2>1, <2>4, <2>8, Handled
    <3>2. todo' # << >>
      BY <2>6, <3>1
    <3>3. At("PRELOADER_STATE", EnterFlashloader, 9, 8, "B230400")'
      BY <2>3, <2>8, <3>1, <3>2, Zenon
    <3> QED BY <2>3, <3>3 DEF InPreloader, NothingLost
  <2> QED BY <2>3, <2>5, <2>7, <2>8
<1>11. CASE At("PRELOADER_STATE", EnterFlashloader, 9, 8, "B230400")
  <2>1. Splits(EnterFlashloader, Become("FLASHLOADER_STATE"), init_flashloader_state)
    <3>1. init_flashloader_state = <<Write("SW_VERSION_REQ")>>
      BY DEF init_flashloader_state
    <3>2. EnterFlashloader =
            <<Become("FLASHLOADER_STATE"), Write("SW_VERSION_REQ")>>
      BY Tasks
    <3>3. Splits(<<Become("FLASHLOADER_STATE"), Write("SW_VERSION_REQ")>>,
               Become("FLASHLOADER_STATE"), <<Write("SW_VERSION_REQ")>>)
      BY DEF Splits
    <3> QED BY <3>1, <3>2, <3>3, Zenon
  <2>2. state_add_handler
    BY <1>11, <2>1, Only DEF Splits, At, Become
  <2>3. 9 \in 1 .. 9 /\ 8 \in 0 .. 9
    OBVIOUS
  <2>4. Together(9, 8, "B230400", init_flashloader_state)
    BY Stretches
  <2>5. /\ At("FLASHLOADER_STATE", init_flashloader_state, 9, 8, "B230400")'
        /\ Wires' /\ UNCHANGED <<lost, unexpected>>
    BY <1>11, <2>1, <2>2, <2>3, <2>4, BecomeAt, Zenon
  <2> QED BY <2>5 DEF InFlashloader, NothingLost
<1> QED BY <1>1, <1>2, <1>3, <1>4, <1>5, <1>6, <1>7, <1>8, <1>9,
       <1>10, <1>11 DEF InPreloader

\* The program in the flash loader handler: the programming itself is not part of
\* this module.
LEMMA FlashloaderProgram ==
  ASSUME Wires, NothingLost, InFlashloader, Program
  PROVE  InFlashloader' /\ Wires' /\ NothingLost'
<1>1. CASE At("FLASHLOADER_STATE", init_flashloader_state, 9, 8, "B230400")
  <2>1. Splits(init_flashloader_state, Write(Script[9].takes), << >>)
    BY Entries DEF Splits, Entry, init_flashloader_state
  <2>2. WriteOut
    BY <1>1, <2>1, Only DEF Splits, At, Write
  <2>3. 9 \in 1 .. 9 /\ 8 \in 0 .. 8 /\ 9 \in 1 .. 9 /\ Follows(9, 8)
    BY DEF Follows
  <2>4. Together(9, 9, "B230400", << >>)
    BY Stretches
  <2>5. /\ At("FLASHLOADER_STATE", << >>, 9, 9, "B230400")'
        /\ Wires' /\ UNCHANGED <<lost, unexpected>>
    BY <1>1, <2>1, <2>2, <2>3, <2>4, WriteAt, Zenon
  <2>6. InFlashloader'
    BY <2>5, Zenon DEF InFlashloader
  <2> QED BY <2>5, <2>6 DEF NothingLost
<1>2. CASE At("FLASHLOADER_STATE", << >>, 9, 9, "B230400")
  <2>1. todo = << >> /\ state = "FLASHLOADER_STATE"
    BY <1>2 DEF At
  <2> QED BY <2>1, OnlyReads DEF BusmailStates
<1> QED BY <1>1, <1>2 DEF InFlashloader

\* The target during the boot handler: a damaged preloader stops both sides.
LEMMA OthersInBoot ==
  ASSUME Wires, NothingLost, InBoot, Others
  PROVE  (InBoot \/ Stuck)' /\ Kept /\ UNCHANGED unexpected
<1>1. CASE At("BOOT_STATE", << >>, 1, 0, "B19200")
  <2>1. /\ 1 \in 1 .. 9 /\ 0 \in 0 .. 9
        /\ Unpolled(1, 0, << >>)
    BY DEF Unpolled
  <2>2. ~ Spoilable(<< >>, 0)
    BY DEF Spoilable
  <2>3. /\ At("BOOT_STATE", << >>, 1, 0, "B19200")'
        /\ Kept /\ UNCHANGED unexpected
    BY <1>1, <2>1, <2>2, OthersAt, Zenon
  <2> QED BY <2>3, Zenon DEF InBoot
<1>2. CASE At("BOOT_STATE", <<Write("SIZE")>>, 1, 0, "B19200")
  <2>1. /\ 1 \in 1 .. 9 /\ 0 \in 0 .. 9
        /\ Unpolled(1, 0, <<Write("SIZE")>>)
    BY DEF Unpolled
  <2>2. ~ Spoilable(<<Write("SIZE")>>, 0)
    BY DEF Spoilable
  <2>3. /\ At("BOOT_STATE", <<Write("SIZE")>>, 1, 0, "B19200")'
        /\ Kept /\ UNCHANGED unexpected
    BY <1>2, <2>1, <2>2, OthersAt, Zenon
  <2> QED BY <2>3, Zenon DEF InBoot
<1>3. CASE At("BOOT_STATE", << >>, 1, 1, "B19200")
  <2>1. /\ 1 \in 1 .. 9 /\ 1 \in 0 .. 9
        /\ Unpolled(1, 1, << >>)
    BY DEF Unpolled
  <2>2. ~ Spoilable(<< >>, 1)
    BY DEF Spoilable
  <2>3. /\ At("BOOT_STATE", << >>, 1, 1, "B19200")'
        /\ Kept /\ UNCHANGED unexpected
    BY <1>3, <2>1, <2>2, OthersAt, Zenon
  <2> QED BY <2>3, Zenon DEF InBoot
<1>4. CASE At("BOOT_STATE", <<Write("PRELOADER_IMAGE")>>, 2, 1, "B19200")
  <2>1. /\ 2 \in 1 .. 9 /\ 1 \in 0 .. 9
        /\ Unpolled(2, 1, <<Write("PRELOADER_IMAGE")>>)
    BY DEF Unpolled
  <2>2. ~ Spoilable(<<Write("PRELOADER_IMAGE")>>, 1)
    BY DEF Spoilable
  <2>3. /\ At("BOOT_STATE", <<Write("PRELOADER_IMAGE")>>, 2, 1, "B19200")'
        /\ Kept /\ UNCHANGED unexpected
    BY <1>4, <2>1, <2>2, OthersAt, Zenon
  <2> QED BY <2>3, Zenon DEF InBoot
<1>5. CASE At("BOOT_STATE", << >>, 2, 2, "B19200")
  <2>1. /\ 2 \in 1 .. 9 /\ 2 \in 0 .. 9
        /\ Unpolled(2, 2, << >>)
    BY DEF Unpolled
  <2>2. /\ \/ At("BOOT_STATE", << >>, 2, 2, "B19200")'
           \/ Spoilable(<< >>, 2) /\ Spoilt(2)'
        /\ Kept /\ UNCHANGED unexpected
    BY <1>5, <2>1, OthersAt, Zenon
  <2>3. state = "BOOT_STATE" /\ todo = << >>
    BY <1>5 DEF At
  <2>4. ASSUME Spoilt(2)' PROVE Stuck'
    BY <2>2, <2>3, <2>4 DEF Spoilt, Stuck, Kept
  <2> QED BY <2>2, <2>4, Zenon DEF InBoot
<1>6. CASE At("BOOT_STATE", ConfirmPreloader, 3, 2, "B19200")
  <2>1. /\ 3 \in 1 .. 9 /\ 2 \in 0 .. 9
        /\ Unpolled(3, 2, ConfirmPreloader)
    BY DEF Unpolled
  <2>2. ~ Spoilable(ConfirmPreloader, 2)
    BY Tasks DEF Spoilable
  <2>3. /\ At("BOOT_STATE", ConfirmPreloader, 3, 2, "B19200")'
        /\ Kept /\ UNCHANGED unexpected
    BY <1>6, <2>1, <2>2, OthersAt, Zenon
  <2> QED BY <2>3, Zenon DEF InBoot
<1>7. CASE At("BOOT_STATE", EnterPreloader, 3, 3, "B19200")
  <2>1. /\ 3 \in 1 .. 9 /\ 3 \in 0 .. 9
        /\ Unpolled(3, 3, EnterPreloader)
    BY DEF Unpolled
  <2>2. ~ Spoilable(EnterPreloader, 3)
    BY DEF Spoilable
  <2>3. /\ At("BOOT_STATE", EnterPreloader, 3, 3, "B19200")'
        /\ Kept /\ UNCHANGED unexpected
    BY <1>7, <2>1, <2>2, OthersAt, Zenon
  <2> QED BY <2>3, Zenon DEF InBoot
<1> QED BY <1>1, <1>2, <1>3, <1>4, <1>5, <1>6, <1>7 DEF InBoot

\* The target during the preloader handler, and a damaged flash loader.
LEMMA OthersInPreloader ==
  ASSUME Wires, NothingLost, InPreloader, Others
  PROVE  (InPreloader \/ Stuck)' /\ Kept /\ UNCHANGED unexpected
<1>1. CASE At("PRELOADER_STATE", init_preloader_state, 3, 3, "B19200")
  <2>1. /\ 3 \in 1 .. 9 /\ 3 \in 0 .. 9
        /\ Unpolled(3, 3, init_preloader_state)
    BY DEF Unpolled
  <2>2. ~ Spoilable(init_preloader_state, 3)
    BY DEF Spoilable, init_preloader_state
  <2>3. /\ At("PRELOADER_STATE", init_preloader_state, 3, 3, "B19200")'
        /\ Kept /\ UNCHANGED unexpected
    BY <1>1, <2>1, <2>2, OthersAt, Zenon
  <2> QED BY <2>3, Zenon DEF InPreloader
<1>2. CASE At("PRELOADER_STATE", <<Write("PRELOADER_START")>>, 4, 3, "B9600")
  <2>1. /\ 4 \in 1 .. 9 /\ 3 \in 0 .. 9
        /\ Unpolled(4, 3, <<Write("PRELOADER_START")>>)
    BY DEF Unpolled
  <2>2. ~ Spoilable(<<Write("PRELOADER_START")>>, 3)
    BY DEF Spoilable
  <2>3. /\ At("PRELOADER_STATE", <<Write("PRELOADER_START")>>, 4, 3, "B9600")'
        /\ Kept /\ UNCHANGED unexpected
    BY <1>2, <2>1, <2>2, OthersAt, Zenon
  <2> QED BY <2>3, Zenon DEF InPreloader
<1>3. CASE At("PRELOADER_STATE", << >>, 4, 4, "B9600")
  <2>1. /\ 4 \in 1 .. 9 /\ 4 \in 0 .. 9
        /\ Unpolled(4, 4, << >>)
    BY DEF Unpolled
  <2>2. ~ Spoilable(<< >>, 4)
    BY DEF Spoilable
  <2>3. /\ At("PRELOADER_STATE", << >>, 4, 4, "B9600")'
        /\ Kept /\ UNCHANGED unexpected
    BY <1>3, <2>1, <2>2, OthersAt, Zenon
  <2> QED BY <2>3, Zenon DEF InPreloader
<1>4. CASE At("PRELOADER_STATE", set_baudrate, 5, 4, "B9600")
  <2>1. /\ 5 \in 1 .. 9 /\ 4 \in 0 .. 9
        /\ Unpolled(5, 4, set_baudrate)
    BY DEF Unpolled
  <2>2. ~ Spoilable(set_baudrate, 4)
    BY DEF Spoilable, set_baudrate
  <2>3. /\ At("PRELOADER_STATE", set_baudrate, 5, 4, "B9600")'
        /\ Kept /\ UNCHANGED unexpected
    BY <1>4, <2>1, <2>2, OthersAt, Zenon
  <2> QED BY <2>3, Zenon DEF InPreloader
<1>5. CASE At("PRELOADER_STATE", <<SetBaud("B230400"), Write("PRELOADER_NEW_BAUDRATE")>>, 5, 5, "B9600")
  <2>1. /\ 5 \in 1 .. 9 /\ 5 \in 0 .. 9
        /\ Unpolled(5, 5, <<SetBaud("B230400"), Write("PRELOADER_NEW_BAUDRATE")>>)
    BY DEF Unpolled
  <2>2. ~ Spoilable(<<SetBaud("B230400"), Write("PRELOADER_NEW_BAUDRATE")>>, 5)
    BY DEF Spoilable
  <2>3. /\ At("PRELOADER_STATE", <<SetBaud("B230400"), Write("PRELOADER_NEW_BAUDRATE")>>, 5, 5, "B9600")'
        /\ Kept /\ UNCHANGED unexpected
    BY <1>5, <2>1, <2>2, OthersAt, Zenon
  <2> QED BY <2>3, Zenon DEF InPreloader
<1>6. CASE At("PRELOADER_STATE", <<Write("PRELOADER_NEW_BAUDRATE")>>, 6, 5, "B230400")
  <2>1. /\ 6 \in 1 .. 9 /\ 5 \in 0 .. 9
        /\ Unpolled(6, 5, <<Write("PRELOADER_NEW_BAUDRATE")>>)
    BY DEF Unpolled
  <2>2. ~ Spoilable(<<Write("PRELOADER_NEW_BAUDRATE")>>, 5)
    BY DEF Spoilable
  <2>3. /\ At("PRELOADER_STATE", <<Write("PRELOADER_NEW_BAUDRATE")>>, 6, 5, "B230400")'
        /\ Kept /\ UNCHANGED unexpected
    BY <1>6, <2>1, <2>2, OthersAt, Zenon
  <2> QED BY <2>3, Zenon DEF InPreloader
<1>7. CASE At("PRELOADER_STATE", << >>, 6, 6, "B230400")
  <2>1. /\ 6 \in 1 .. 9 /\ 6 \in 0 .. 9
        /\ Unpolled(6, 6, << >>)
    BY DEF Unpolled
  <2>2. ~ Spoilable(<< >>, 6)
    BY DEF Spoilable
  <2>3. /\ At("PRELOADER_STATE", << >>, 6, 6, "B230400")'
        /\ Kept /\ UNCHANGED unexpected
    BY <1>7, <2>1, <2>2, OthersAt, Zenon
  <2> QED BY <2>3, Zenon DEF InPreloader
<1>8. CASE At("PRELOADER_STATE", <<Write("SIZE"), Write("FLASHLOADER_IMAGE")>>, 7, 6, "B230400")
  <2>1. /\ 7 \in 1 .. 9 /\ 6 \in 0 .. 9
        /\ Unpolled(7, 6, <<Write("SIZE"), Write("FLASHLOADER_IMAGE")>>)
    BY DEF Unpolled
  <2>2. ~ Spoilable(<<Write("SIZE"), Write("FLASHLOADER_IMAGE")>>, 6)
    BY DEF Spoilable
  <2>3. /\ At("PRELOADER_STATE", <<Write("SIZE"), Write("FLASHLOADER_IMAGE")>>, 7, 6, "B230400")'
        /\ Kept /\ UNCHANGED unexpected
    BY <1>8, <2>1, <2>2, OthersAt, Zenon
  <2> QED BY <2>3, Zenon DEF InPreloader
<1>9. CASE At("PRELOADER_STATE", <<Write("FLASHLOADER_IMAGE")>>, 7, 7, "B230400")
  <2>1. /\ 7 \in 1 .. 9 /\ 7 \in 0 .. 9
        /\ Unpolled(7, 7, <<Write("FLASHLOADER_IMAGE")>>)
    BY DEF Unpolled
  <2>2. ~ Spoilable(<<Write("FLASHLOADER_IMAGE")>>, 7)
    BY DEF Spoilable
  <2>3. /\ At("PRELOADER_STATE", <<Write("FLASHLOADER_IMAGE")>>, 7, 7, "B230400")'
        /\ Kept /\ UNCHANGED unexpected
    BY <1>9, <2>1, <2>2, OthersAt, Zenon
  <2> QED BY <2>3, Zenon DEF InPreloader
<1>10. CASE At("PRELOADER_STATE", << >>, 7, 8, "B230400")
  <2>1. /\ 7 \in 1 .. 9 /\ 8 \in 0 .. 9
        /\ Unpolled(7, 8, << >>)
    BY DEF Unpolled
  <2>2. /\ \/ At("PRELOADER_STATE", << >>, 7, 8, "B230400")'
           \/ Spoilable(<< >>, 8) /\ Spoilt(8)'
        /\ Kept /\ UNCHANGED unexpected
    BY <1>10, <2>1, OthersAt, Zenon
  <2>3. state = "PRELOADER_STATE" /\ todo = << >>
    BY <1>10 DEF At
  <2>4. ASSUME Spoilt(8)' PROVE Stuck'
    BY <2>2, <2>3, <2>4 DEF Spoilt, Stuck, Kept
  <2> QED BY <2>2, <2>4, Zenon DEF InPreloader
<1>11. CASE At("PRELOADER_STATE", EnterFlashloader, 9, 8, "B230400")
  <2>1. /\ 9 \in 1 .. 9 /\ 8 \in 0 .. 9
        /\ Unpolled(9, 8, EnterFlashloader)
    BY DEF Unpolled
  <2>2. ~ Spoilable(EnterFlashloader, 8)
    BY Tasks DEF Spoilable
  <2>3. /\ At("PRELOADER_STATE", EnterFlashloader, 9, 8, "B230400")'
        /\ Kept /\ UNCHANGED unexpected
    BY <1>11, <2>1, <2>2, OthersAt, Zenon
  <2> QED BY <2>3, Zenon DEF InPreloader
<1> QED BY <1>1, <1>2, <1>3, <1>4, <1>5, <1>6, <1>7, <1>8, <1>9,
       <1>10, <1>11 DEF InPreloader

\* The target that runs the flash loader.
LEMMA OthersInFlashloader ==
  ASSUME Wires, NothingLost, InFlashloader, Others
  PROVE  (InFlashloader)' /\ Kept /\ UNCHANGED unexpected
<1>1. CASE At("FLASHLOADER_STATE", init_flashloader_state, 9, 8, "B230400")
  <2>1. /\ 9 \in 1 .. 9 /\ 8 \in 0 .. 9
        /\ Unpolled(9, 8, init_flashloader_state)
    BY DEF Unpolled
  <2>2. ~ Spoilable(init_flashloader_state, 8)
    BY DEF Spoilable, init_flashloader_state
  <2>3. /\ At("FLASHLOADER_STATE", init_flashloader_state, 9, 8, "B230400")'
        /\ Kept /\ UNCHANGED unexpected
    BY <1>1, <2>1, <2>2, OthersAt, Zenon
  <2> QED BY <2>3, Zenon DEF InFlashloader
<1>2. CASE At("FLASHLOADER_STATE", << >>, 9, 9, "B230400")
  <2>1. /\ 9 \in 1 .. 9 /\ 9 \in 0 .. 9
        /\ Unpolled(9, 9, << >>)
    BY DEF Unpolled
  <2>2. ~ Spoilable(<< >>, 9)
    BY DEF Spoilable
  <2>3. /\ At("FLASHLOADER_STATE", << >>, 9, 9, "B230400")'
        /\ Kept /\ UNCHANGED unexpected
    BY <1>2, <2>1, <2>2, OthersAt, Zenon
  <2> QED BY <2>3, Zenon DEF InFlashloader
<1> QED BY <1>1, <1>2 DEF InFlashloader

\* The target after a change of speed has failed.
LEMMA OthersFailed ==
  ASSUME Wires, NothingLost, Failed, Others
  PROVE  (Failed)' /\ Kept /\ UNCHANGED unexpected
<1>1. CASE At("EXITED", << >>, 3, 3, "B19200")
  <2>1. /\ 3 \in 1 .. 9 /\ 3 \in 0 .. 9
        /\ Unpolled(3, 3, << >>)
    BY DEF Unpolled
  <2>2. ~ Spoilable(<< >>, 3)
    BY DEF Spoilable
  <2>3. /\ At("EXITED", << >>, 3, 3, "B19200")'
        /\ Kept /\ UNCHANGED unexpected
    BY <1>1, <2>1, <2>2, OthersAt, Zenon
  <2> QED BY <2>3, Zenon DEF Failed
<1>2. CASE At("EXITED", << >>, 5, 5, "B9600")
  <2>1. /\ 5 \in 1 .. 9 /\ 5 \in 0 .. 9
        /\ Unpolled(5, 5, << >>)
    BY DEF Unpolled
  <2>2. ~ Spoilable(<< >>, 5)
    BY DEF Spoilable
  <2>3. /\ At("EXITED", << >>, 5, 5, "B9600")'
        /\ Kept /\ UNCHANGED unexpected
    BY <1>2, <2>1, <2>2, OthersAt, Zenon
  <2> QED BY <2>3, Zenon DEF Failed
<1> QED BY <1>1, <1>2 DEF Failed
-----------------------------------------------------------------------------
(* Beside the course.                                                      *)

\* Counting.
LEMMA More ==
  ASSUME NEW c \in Nat, NEW d
  PROVE  /\ d = c => d \in Nat /\ d >= c
         /\ d = c + 1 => d \in Nat /\ d > 0 /\ d >= c
OBVIOUS

\* While nothing is on the line the target changes nothing but what is received.
LEMMA QuietOthers ==
  ASSUME Wires, NothingLost, Others, line = << >>, target # "firmware starts",
         NEW what, Hears(what), Poll => "STX" \in what
  PROVE  /\ Kept /\ Hears(what)'
         /\ UNCHANGED <<line, baud, pulldown, target, stage, t_baud, outcount, unexpected>>
<1>1. /\ chatter \in Nat /\ rx \in Seq(Messages) /\ line \in Seq(Messages)
      /\ Chatter \in Elements(rx) => chatter > 0
      /\ Elements(rx) \subseteq what \cup {Chatter}
  BY DEF Wires, Hears
<1>2. CASE Poll
  <2>1. /\ Says("STX", t_baud)
        /\ UNCHANGED <<state, todo, line, baud, pulldown, target, stage, t_baud, outcount,
                       chatter, unexpected>>
    BY <1>2 DEF Poll, target_vars, bounds
  <2>2. "STX" \in Messages /\ "STX" # Nothing /\ "STX" # Chatter
    BY DEF Messages, Nothing, Chatter
  <2>3. /\ rx' \in Seq(Messages) /\ Elements(rx') \subseteq Elements(rx) \cup {"STX"}
        /\ lost' \subseteq lost \cup {"STX"}
    BY <1>1, <2>1, <2>2, Said
  <2>4. Wires'
    BY <1>1, <2>1, <2>2, <2>3 DEF Wires
  <2>5. NothingLost'
    BY <2>3 DEF NothingLost
  <2>6. Hears(what)'
    BY <1>1, <1>2, <2>3 DEF Hears
  <2>7. chatter' \in Nat /\ chatter' >= chatter
    BY <1>1, More, <2>1
  <2> QED BY <2>1, <2>4, <2>5, <2>6, <2>7 DEF Kept
<1>3. CASE Chat
  <2>1. /\ Says(Chatter, t_baud) /\ chatter' = chatter + 1
        /\ UNCHANGED <<state, todo, line, baud, pulldown, target, stage, t_baud, outcount,
                       unexpected>>
    BY <1>3 DEF Chat, target_vars
  <2>2. Chatter \in Messages
    BY DEF Messages
  <2>3. /\ rx' \in Seq(Messages) /\ Elements(rx') \subseteq Elements(rx) \cup {Chatter}
        /\ lost' \subseteq lost \cup {Chatter}
    BY <1>1, <2>1, <2>2, Said
  <2>4. chatter' \in Nat /\ chatter' > 0 /\ chatter' >= chatter
    BY <1>1, More, <2>1
  <2>5. Wires'
    BY <1>1, <2>1, <2>3, <2>4 DEF Wires
  <2>6. NothingLost'
    BY <2>3 DEF NothingLost
  <2>7. Hears(what)'
    BY <1>1, <2>3 DEF Hears
  <2> QED BY <2>1, <2>4, <2>5, <2>6, <2>7 DEF Kept
<1>4. CASE UNCHANGED vars
  <2>1. UNCHANGED <<state, todo, line, baud, pulldown, target, stage, t_baud, outcount,
                    rx, unexpected, lost, chatter>>
    BY <1>4 DEF vars, port_vars, target_vars, bounds, history
  <2>2. Wires' /\ NothingLost' /\ Hears(what)'
    BY <1>1, <2>1 DEF Wires, NothingLost, Hears
  <2>3. chatter' \in Nat /\ chatter' >= chatter
    BY <1>1, More, <2>1
  <2> QED BY <2>1, <2>2, <2>3 DEF Kept
<1>5. ~ Taken /\ ~ TakenDamaged /\ ~ Announce
  BY DEF Taken, TakenDamaged, Announce
<1> QED BY <1>2, <1>3, <1>4, <1>5 DEF Others

\* The setups flush what cannot matter yet.
LEMMA Flushed ==
  ASSUME Wires, NothingLost, Flush, UNCHANGED <<line, chatter>>, Hears({"STX"})
  PROVE  Wires' /\ NothingLost' /\ \A what : Hears(what)'
<1>1. rx' = << >> /\ lost' = lost \cup Elements(rx) /\ Elements(rx) \subseteq {"STX", Chatter}
  BY DEF Flush, Hears
<1>2. Elements(rx') = {}
  BY <1>1 DEF Elements
<1>3. Wires'
  BY <1>1, <1>2 DEF Wires
<1>4. NothingLost'
  BY <1>1 DEF NothingLost
<1> QED BY <1>2, <1>3, <1>4 DEF Hears

\* Where both sides wait nothing moves any more.
LEMMA StuckStep ==
  ASSUME Wires, NothingLost, Stuck, Program \/ Others
  PROVE  Stuck' /\ Wires' /\ NothingLost' /\ UNCHANGED <<state, unexpected>>
         /\ chatter' \in Nat /\ chatter' >= chatter
<1>1. /\ state \in {"BOOT_STATE", "PRELOADER_STATE"} /\ stage # 1
      /\ todo = << >> /\ line = << >> /\ target = "ROM" /\ outcount = 0
      /\ Hears({"OTHER_CHECKSUM"})
  BY DEF Stuck
<1>2. CASE Program
  <2>1. Read
    BY <1>1, <1>2, OnlyReads DEF BusmailStates
  <2>2. /\ rx # << >> /\ rx' = << >> /\ outcount' = 0
        /\ UNCHANGED <<state, line, target, stage, chatter, lost, unexpected>>
    BY <2>1 DEF Read, target_vars, bounds
  <2>3. Head(rx) \in Elements(rx)
    BY <2>2, ElementsOf DEF Wires
  <2>4. todo' = << >>
    BY <1>1, <2>1, <2>3, Handled DEF Hears
  <2>5. Hears({"OTHER_CHECKSUM"})' /\ Wires'
    BY <2>2 DEF Hears, Elements, Wires
  <2>6. NothingLost' /\ chatter' \in Nat /\ chatter' >= chatter
    BY <2>2 DEF NothingLost, Wires
  <2> QED BY <2>2, <2>4, <2>5, <2>6 DEF Stuck
<1>3. CASE Others
  <2>1. ~ Poll /\ target # "firmware starts"
    BY <1>1 DEF Poll
  <2>2. /\ Kept /\ Hears({"OTHER_CHECKSUM"})'
        /\ UNCHANGED <<line, target, stage, outcount, unexpected>>
    BY <1>1, <1>3, <2>1, QuietOthers
  <2> QED BY <2>2 DEF Stuck, Kept
<1> QED BY <1>2, <1>3

\* A program that has exited does nothing.
LEMMA ExitedIdle ==
  ASSUME Stopped \/ Failed, Program
  PROVE  FALSE
<1>1. state = "EXITED" /\ todo = << >>
  BY DEF Stopped, Failed, At
<1> QED BY <1>1, OnlyReads DEF BusmailStates

\* The target outlives the program.
LEMMA StoppedStep ==
  ASSUME Wires, NothingLost, Stopped, Others
  PROVE  Stopped' /\ Kept /\ UNCHANGED unexpected
<1>1. /\ line = << >> /\ target \in {"before reset", "ROM"} /\ Hears(Polls)
      /\ Poll => "STX" \in Polls
  BY DEF Stopped, Poll, Polls
<1>2. target # "firmware starts"
  BY <1>1
<1>3. /\ Kept /\ Hears(Polls)'
      /\ UNCHANGED <<line, target, stage, unexpected>>
  <2>1. ASSUME NEW what, what = Polls
        PROVE  /\ Kept /\ Hears(what)'
               /\ UNCHANGED <<line, target, stage, unexpected>>
    BY <1>1, <1>2, <2>1, QuietOthers
  <2> QED BY <2>1 DEF Hears, Polls
<1> QED BY <1>3 DEF Stopped, Kept

\* The mode is known and its setup begins.
LEMMA StartingStep ==
  ASSUME Wires, NothingLost, Starting, Program \/ Others
  PROVE  (Starting \/ Preparing \/ Resetting \/ Stopped)' /\ Wires' /\ NothingLost'
         /\ unexpected' = {}
<1>1. /\ state = "START" /\ todo = << >> /\ line = << >> /\ stage = 1
      /\ target = "before reset" /\ unexpected = {} /\ Hears({})
  BY DEF Starting
<1>2. CASE Program
  <2>1. Start
    BY <1>1, <1>2 DEF Program, Runs, Start, Read, ReadBusmail, WriteOut, tty_set_baud,
          tty_set_raw, SetPulldown, RunDectReset, state_add_handler,
          tty_set_baud_fails, Doing, BusmailStates
  <2>2. /\ \/ state' = "BOOT_STATE" /\ todo' = init_boot_state
           \/ state' \in BusmailStates /\ todo' = init_nvs_state
           \/ state' = "EXITED" /\ todo' = << >>
        /\ UNCHANGED <<port_vars, outcount, target_vars, bounds, history>>
    <3>1. \E mode \in Modes \cup {"no known mode"} :
               CASE mode = "PROG_MODE" ->
                        state' = "BOOT_STATE" /\ todo' = init_boot_state
                 [] mode = "NVS_MODE" ->
                        state' = "NVS_STATE" /\ todo' = init_nvs_state
                 [] mode = "APP_MODE" ->
                        state' = "APP_STATE" /\ todo' = init_nvs_state
                 [] OTHER -> state' = "EXITED" /\ todo' = << >>
      BY <2>1 DEF Start, check_args, Modes
    <3> QED BY <2>1, <3>1 DEF Start, BusmailStates
  <2>3. UNCHANGED <<rx, line, chatter, lost, unexpected, stage, target>>
    BY <2>2 DEF port_vars, target_vars, bounds, history
  <2>4. Hears({})' /\ Hears(Polls)' /\ Wires' /\ NothingLost'
    BY <1>1, <2>3 DEF Hears, Polls, Wires, NothingLost
  <2> QED BY <1>1, <2>2, <2>3, <2>4 DEF Preparing, Resetting, Stopped
<1>3. CASE Others
  <2>1. ~ Poll /\ target # "firmware starts"
    BY <1>1 DEF Poll
  <2>2. /\ Kept /\ Hears({})'
        /\ UNCHANGED <<line, target, stage, outcount, unexpected>>
    BY <1>1, <1>3, <2>1, QuietOthers
  <2> QED BY <1>1, <2>2 DEF Starting, Kept
<1> QED BY <1>2, <1>3

\* The nvs and app modes: the port is ready before the target is reset.
LEMMA PreparingStep ==
  ASSUME Wires, NothingLost, Preparing, Program \/ Others
  PROVE  (Preparing \/ Listening \/ Stopped)' /\ Wires' /\ NothingLost'
         /\ unexpected' = {}
<1> DEFINE two == <<SetBaud("B115200"), ResetDect>>
<1>1. /\ state \in BusmailStates /\ state # "START" /\ line = << >> /\ stage = 1
      /\ target = "before reset" /\ unexpected = {} /\ Hears({})
  BY DEF Preparing, BusmailStates
<1>8. \/ todo = init_nvs_state
      \/ todo = two
      \/ todo = <<ResetDect>> /\ baud = "B115200"
  BY DEF Preparing
<1>2. Hears({"STX"}) /\ UNCHANGED <<line, chatter>> /\ Flush =>
         Wires' /\ NothingLost' /\ Hears({})'
  BY Flushed
<1>3. Hears({"STX"})
  BY <1>1 DEF Hears
<1>4. CASE Program /\ todo = init_nvs_state
  <2>1. todo # << >> /\ Head(todo) = SetRaw /\ Tail(todo) = two
    BY <1>4 DEF init_nvs_state
  <2>2. tty_set_raw
    <3>1. Head(todo).op = "raw"
      BY <2>1 DEF SetRaw
    <3> QED BY <1>1, <1>4, <2>1, <3>1, Only
  <2>3. /\ todo' = two /\ Flush
        /\ UNCHANGED <<state, line, stage, target, unexpected, chatter>>
    BY <2>1, <2>2 DEF tty_set_raw, Doing, target_vars, bounds
  <2>4. Wires' /\ NothingLost' /\ Hears({})'
    BY <1>2, <1>3, <2>3
  <2> QED BY <1>1, <2>3, <2>4 DEF Preparing
<1>5. CASE Program /\ todo = two
  <2>1. todo # << >> /\ Head(todo) = SetBaud("B115200") /\ Tail(todo) = <<ResetDect>>
    BY <1>5
  <2>2. tty_set_baud \/ Exit
    <3>1. Head(todo).op = "baud"
      BY <2>1 DEF SetBaud
    <3> QED BY <1>1, <1>5, <2>1, <3>1, Only
  <2>3. CASE tty_set_baud
    <3>1. /\ todo' = <<ResetDect>> /\ baud' = "B115200" /\ Flush
          /\ UNCHANGED <<state, line, stage, target, unexpected, chatter>>
      BY <2>1, <2>3 DEF tty_set_baud, Doing, target_vars, bounds, SetBaud
    <3>2. Wires' /\ NothingLost' /\ Hears({})'
      BY <1>2, <1>3, <3>1
    <3> QED BY <1>1, <3>1, <3>2 DEF Preparing
  <2>4. CASE Exit
    <3>1. /\ state' = "EXITED" /\ todo' = << >>
          /\ UNCHANGED <<rx, line, stage, target, unexpected, chatter, lost>>
      BY <2>4 DEF Exit, port_vars, target_vars, bounds, history
    <3>2. Wires' /\ NothingLost' /\ Hears(Polls)'
      BY <1>1, <3>1 DEF Wires, NothingLost, Hears, Polls
    <3> QED BY <1>1, <3>1, <3>2 DEF Stopped
  <2> QED BY <2>2, <2>3, <2>4
<1>6. CASE Program /\ todo = <<ResetDect>> /\ baud = "B115200"
  <2>1. todo # << >> /\ Head(todo) = ResetDect /\ Tail(todo) = << >>
    BY <1>6
  <2>2. RunDectReset
    <3>1. Head(todo).op = "reset"
      BY <2>1 DEF ResetDect
    <3> QED BY <1>1, <1>6, <2>1, <3>1, Only
  <2>3. /\ todo' = << >>
        /\ \/ target' = "ROM"
           \/ target' = "firmware starts" /\ t_baud' = "B115200"
        /\ UNCHANGED <<state, baud, rx, line, stage, unexpected, chatter, lost>>
    BY <2>1, <2>2 DEF RunDectReset, Doing, port_vars, bounds, history
  <2>4. Wires' /\ NothingLost'
    BY <2>3 DEF Wires, NothingLost
  <2>5. Elements(line') = {}
    <3>1. line' = << >>
      BY <1>1, <2>3
    <3> QED BY <3>1 DEF Elements
  <2> QED BY <1>1, <1>6, <2>3, <2>4, <2>5 DEF Listening
<1>7. CASE Others
  <2>1. ~ Poll /\ target # "firmware starts"
    BY <1>1 DEF Poll
  <2>2. /\ Kept /\ Hears({})'
        /\ UNCHANGED <<line, baud, target, stage, outcount, unexpected>>
    BY <1>1, <1>7, <2>1, QuietOthers
  <2> QED BY <1>1, <2>2 DEF Preparing, Kept
<1> QED BY <1>8, <1>4, <1>5, <1>6, <1>7

\* Listening, they only send what an uninitialised outcount says.
LEMMA ListeningStep ==
  ASSUME Wires, NothingLost, NothingUnexpected, Listening, Program \/ Others
  PROVE  Listening' /\ Wires' /\ NothingLost' /\ unexpected' \subseteq {Garbage}
<1>1. /\ state \in BusmailStates /\ state # "START" /\ state # "EXITED"
      /\ todo \in {<< >>, <<Write(Garbage)>>}
      /\ baud = "B115200" /\ stage = 1 /\ Elements(line) \subseteq {Garbage}
      /\ \/ target = "ROM"
         \/ target = "firmware starts" /\ t_baud = "B115200"
         \/ target = "firmware"
      /\ unexpected \subseteq {Garbage}
  BY DEF Listening, BusmailStates, NothingUnexpected
<1>2. /\ line \in Seq(Messages) /\ rx \in Seq(Messages) /\ chatter \in Nat
      /\ Chatter \in Elements(rx) => chatter > 0
  BY DEF Wires
<1>3. CASE Program /\ todo = << >>
  <2>1. ReadBusmail
    BY <1>1, <1>3, OnlyReads DEF BusmailStates
  <2>2. /\ todo' \in {<< >>, <<Write(Garbage)>>} /\ rx' = << >>
        /\ UNCHANGED <<state, baud, line, target, stage, t_baud, chatter, lost,
                       unexpected>>
    BY <2>1 DEF ReadBusmail, Unasked, target_vars, bounds
  <2>3. Elements(rx') = {}
    BY <2>2 DEF Elements
  <2>4. Wires' /\ NothingLost'
    BY <1>2, <2>2, <2>3 DEF Wires, NothingLost
  <2>5. Elements(line') = Elements(line)
    BY <2>2
  <2> QED BY <1>1, <2>2, <2>4, <2>5 DEF Listening
<1>4. CASE Program /\ todo = <<Write(Garbage)>>
  <2>1. /\ todo # << >> /\ Head(todo) = Write(Garbage) /\ Tail(todo) = << >>
    BY <1>4
  <2>2. Head(todo).op = "write" /\ Head(todo).arg = Garbage
    BY <2>1 DEF Write
  <2>3. WriteOut
    BY <1>1, <1>4, <2>1, <2>2, Only
  <2>4. /\ todo' = << >> /\ line' = Append(line, Garbage)
        /\ UNCHANGED <<state, baud, rx, target, stage, t_baud, chatter, lost, unexpected>>
    BY <2>1, <2>2, <2>3 DEF WriteOut, Doing, target_vars, bounds, history
  <2>5. Garbage \in Messages
    BY DEF Messages
  <2>6. Elements(Append(line, Garbage)) = Elements(line) \cup {Garbage}
    BY <1>2, <2>5, ElementsOf
  <2>7. line' \in Seq(Messages) /\ Elements(line') \subseteq {Garbage}
    <3>1. Elements(line') \subseteq {Garbage}
      BY <1>1, <2>4, <2>6, Zenon
    <3>2. line' \in Seq(Messages)
      BY <1>2, <2>4, <2>5
    <3> QED BY <3>1, <3>2
  <2>8. Wires' /\ NothingLost'
    BY <1>2, <2>4, <2>7 DEF Wires, NothingLost
  <2> QED BY <1>1, <2>4, <2>7, <2>8 DEF Listening
<1>5. CASE Taken
  <2>1. /\ line # << >> /\ line' = Tail(line)
        /\ UNCHANGED <<state, baud, todo, chatter>>
    BY <1>5 DEF Taken, bounds
  <2>2. Head(line) \in Elements(line) /\ Elements(Tail(line)) \subseteq Elements(line)
    BY <1>2, <2>1, ElementsOf
  <2>3. Head(line) = Garbage /\ Elements(line') \subseteq {Garbage}
    BY <1>1, <2>1, <2>2
  <2>4. line' \in Seq(Messages)
    BY <1>2, <2>1, HeadTailProperties, EmptySeq
  <2>5. Script[stage].takes = "SIZE" /\ Garbage # "SIZE"
    <3>1. Script[1].takes = "SIZE"
      BY Entries DEF Entry
    <3>2. Garbage # "SIZE"
      BY DEF Garbage
    <3>3. stage = 1
      BY <1>1
    <3> QED BY <3>1, <3>2, <3>3
  <2>6. /\ UNCHANGED <<rx, target, stage, t_baud>>
        /\ \/ lost' = lost \cup {Garbage} /\ unexpected' = unexpected
           \/ lost' = lost /\ unexpected' = unexpected \cup {Garbage}
    BY <1>5, <2>3, <2>5 DEF Taken, target_vars
  <2>7. Wires' /\ NothingLost'
    BY <1>2, <2>1, <2>4, <2>6 DEF Wires, NothingLost
  <2> QED BY <1>1, <2>1, <2>3, <2>6, <2>7 DEF Listening
<1>6. ~ TakenDamaged
  <2>1. ASSUME TakenDamaged PROVE FALSE
    <3>1. line # << >> /\ Head(line) \in {"PRELOADER_IMAGE", "FLASHLOADER_IMAGE"}
      BY <2>1 DEF TakenDamaged
    <3>2. Head(line) \in Elements(line)
      BY <1>2, <3>1, ElementsOf
    <3> QED BY <1>1, <3>1, <3>2 DEF Garbage
  <2> QED BY <2>1
<1>7. ASSUME NEW what \in Messages, what \in {"STX", "RESET_IND", Chatter},
             Says(what, t_baud), what = "RESET_IND" => t_baud = "B115200",
             what = Chatter => chatter' > 0, chatter' \in Nat, chatter' >= chatter,
             line' = line
      PROVE  Wires' /\ NothingLost'
  <2>1. /\ rx' \in Seq(Messages)
        /\ \/ Elements(rx') = Elements(rx) /\ lost' = lost \cup {what} /\ t_baud # baud
           \/ Elements(rx') = Elements(rx) \cup {what} /\ lost' = lost
           \/ Elements(rx') = Elements(rx) /\ lost' = lost /\ what = Nothing
    BY <1>2, <1>7, Said
  <2>2. NothingLost'
    BY <1>1, <1>7, <2>1 DEF NothingLost
  <2>3. Chatter \in Elements(rx') => what = Chatter \/ chatter > 0
    BY <1>2, <2>1
  <2>4. chatter > 0 => chatter' > 0
    BY <1>2, <1>7
  <2> QED BY <1>2, <1>7, <2>1, <2>2, <2>3, <2>4 DEF Wires
<1>8. CASE Poll
  <2>1. /\ Says("STX", t_baud) /\ chatter' = chatter
        /\ UNCHANGED <<state, baud, todo, line, target, stage, t_baud, unexpected>>
    BY <1>8 DEF Poll, target_vars, bounds
  <2>2. "STX" \in Messages /\ "STX" # Chatter
    BY DEF Messages, Chatter
  <2>3. Wires' /\ NothingLost'
    BY <1>2, <1>7, <2>1, <2>2, More
  <2>4. Elements(line') \subseteq {Garbage}
    BY <1>1, <2>1
  <2> QED BY <1>1, <2>1, <2>3, <2>4 DEF Listening
<1>9. CASE Announce
  <2>1. /\ target = "firmware starts" /\ target' = "firmware"
        /\ Says("RESET_IND", t_baud) /\ chatter' = chatter
        /\ UNCHANGED <<state, baud, todo, line, stage, t_baud, unexpected>>
    BY <1>9 DEF Announce, bounds
  <2>2. "RESET_IND" \in Messages /\ "RESET_IND" # Chatter
    BY DEF Messages, Chatter
  <2>3. t_baud = "B115200"
    BY <1>1, <2>1
  <2>4. Wires' /\ NothingLost'
    BY <1>2, <1>7, <2>1, <2>2, <2>3, More
  <2>5. Elements(line') \subseteq {Garbage}
    BY <1>1, <2>1
  <2> QED BY <1>1, <2>1, <2>4, <2>5 DEF Listening
<1>10. CASE Chat
  <2>1. /\ Says(Chatter, t_baud) /\ chatter' = chatter + 1
        /\ UNCHANGED <<state, baud, todo, line, target, stage, t_baud, unexpected>>
    BY <1>10 DEF Chat, target_vars
  <2>2. Chatter \in Messages /\ Chatter # "RESET_IND"
    BY DEF Messages, Chatter
  <2>3. Wires' /\ NothingLost'
    BY <1>2, <1>7, <2>1, <2>2, More
  <2>4. Elements(line') \subseteq {Garbage}
    BY <1>1, <2>1
  <2> QED BY <1>1, <2>1, <2>3, <2>4 DEF Listening
<1>11. CASE UNCHANGED vars
  <2>1. UNCHANGED <<state, todo, line, baud, target, stage, t_baud, rx, unexpected, lost,
                    chatter>>
    BY <1>11 DEF vars, port_vars, target_vars, bounds, history
  <2>2. Wires' /\ NothingLost' /\ Elements(line') \subseteq {Garbage}
    BY <1>1, <1>2, <2>1 DEF Wires, NothingLost
  <2> QED BY <1>1, <2>1, <2>2 DEF Listening
<1> QED BY <1>1, <1>3, <1>4, <1>5, <1>6, <1>8, <1>9, <1>10, <1>11 DEF Others

\* The prog mode brings the target into its ROM with the port at the ROM's speed.
LEMMA ResettingStep ==
  ASSUME Wires, NothingLost, Resetting, Program \/ Others
  PROVE  (Resetting \/ InBoot \/ Stopped)' /\ Wires' /\ NothingLost' /\ unexpected' = {}
<1> DEFINE four == <<ResetDect, Pulldown(FALSE), SetRaw, SetBaud("B19200")>>
           three == <<Pulldown(FALSE), SetRaw, SetBaud("B19200")>>
           two == <<SetRaw, SetBaud("B19200")>>
           one == <<SetBaud("B19200")>>
<1>1. /\ state = "BOOT_STATE" /\ line = << >> /\ stage = 1 /\ unexpected = {}
      /\ target \in {"before reset", "ROM"} /\ Hears(Polls)
  BY DEF Resetting
<1>2. \/ todo = init_boot_state /\ target = "before reset"
      \/ todo = four /\ target = "before reset" /\ pulldown = TRUE
      \/ todo = three /\ target = "ROM" /\ t_baud = "B19200"
      \/ todo = two /\ target = "ROM" /\ t_baud = "B19200"
      \/ todo = one /\ target = "ROM" /\ t_baud = "B19200"
  BY DEF Resetting
<1>3. Hears({"STX"})
  BY <1>1 DEF Hears, Polls
<1>4. Hears({"STX"}) /\ UNCHANGED <<line, chatter>> /\ Flush =>
         Wires' /\ NothingLost' /\ \A what : Hears(what)'
  BY Flushed
<1>5. CASE Program /\ todo = init_boot_state /\ target = "before reset"
  <2>1. todo # << >> /\ Head(todo) = Pulldown(TRUE) /\ Tail(todo) = four
    <3> DEFINE a == Pulldown(TRUE)
               b == ResetDect
               c == Pulldown(FALSE)
               d == SetRaw
               e == SetBaud("B19200")
    <3>1. todo = <<a, b, c, d, e>>
      BY <1>5 DEF init_boot_state
    <3> HIDE DEF a, b, c, d, e
    <3>2. todo # << >> /\ Head(todo) = a /\ Tail(todo) = <<b, c, d, e>>
      BY <3>1
    <3> QED BY <3>2 DEF a, b, c, d, e
  <2>2. Head(todo).op = "pulldown" /\ Head(todo).arg = TRUE
    BY <2>1 DEF Pulldown
  <2>3. SetPulldown
    BY <1>1, <1>5, <2>1, <2>2, Only
  <2>4. /\ todo' = four /\ pulldown' = TRUE
        /\ UNCHANGED <<state, rx, line, stage, target, unexpected, chatter, lost>>
    BY <2>1, <2>2, <2>3 DEF SetPulldown, Doing, port_vars, bounds, history
  <2>5. Wires' /\ NothingLost' /\ Hears(Polls)'
    BY <1>1, <2>4 DEF Wires, NothingLost, Hears, Polls
  <2> QED BY <1>1, <1>5, <2>4, <2>5 DEF Resetting
<1>6. CASE Program /\ todo = four /\ target = "before reset" /\ pulldown = TRUE
  <2>1. todo # << >> /\ Head(todo) = ResetDect /\ Tail(todo) = three
    <3> DEFINE b == ResetDect
               c == Pulldown(FALSE)
               d == SetRaw
               e == SetBaud("B19200")
    <3>1. todo = <<b, c, d, e>>
      BY <1>6
    <3> HIDE DEF b, c, d, e
    <3>2. todo # << >> /\ Head(todo) = b /\ Tail(todo) = <<c, d, e>>
      BY <3>1
    <3> QED BY <3>2 DEF b, c, d, e
  <2>2. Head(todo).op = "reset"
    BY <2>1 DEF ResetDect
  <2>3. RunDectReset
    BY <1>1, <1>6, <2>1, <2>2, Only
  <2>4. /\ todo' = three /\ target' = "ROM" /\ t_baud' = "B19200"
        /\ UNCHANGED <<state, rx, line, stage, unexpected, chatter, lost>>
    BY <1>6, <2>1, <2>3 DEF RunDectReset, Doing, port_vars, bounds, history
  <2>5. Wires' /\ NothingLost' /\ Hears(Polls)'
    BY <1>1, <1>3, <2>4 DEF Wires, NothingLost, Hears, Polls
  <2> QED BY <1>1, <2>4, <2>5 DEF Resetting
<1>7. CASE Program /\ todo = three /\ target = "ROM" /\ t_baud = "B19200"
  <2>1. todo # << >> /\ Head(todo) = Pulldown(FALSE) /\ Tail(todo) = two
    BY <1>7
  <2>2. Head(todo).op = "pulldown"
    BY <2>1 DEF Pulldown
  <2>3. SetPulldown
    BY <1>1, <1>7, <2>1, <2>2, Only
  <2>4. /\ todo' = two
        /\ UNCHANGED <<state, rx, line, stage, target, t_baud, unexpected, chatter, lost>>
    BY <2>1, <2>3 DEF SetPulldown, Doing, port_vars, bounds, history
  <2>5. Wires' /\ NothingLost' /\ Hears(Polls)'
    BY <1>1, <2>4 DEF Wires, NothingLost, Hears, Polls
  <2> QED BY <1>1, <1>7, <2>4, <2>5 DEF Resetting
<1>8. CASE Program /\ todo = two /\ target = "ROM" /\ t_baud = "B19200"
  <2>1. todo # << >> /\ Head(todo) = SetRaw /\ Tail(todo) = one
    BY <1>8
  <2>2. Head(todo).op = "raw"
    BY <2>1 DEF SetRaw
  <2>3. tty_set_raw
    BY <1>1, <1>8, <2>1, <2>2, Only
  <2>4. /\ todo' = one /\ Flush
        /\ UNCHANGED <<state, line, stage, target, t_baud, unexpected, chatter>>
    BY <2>1, <2>3 DEF tty_set_raw, Doing, target_vars, bounds
  <2>5. Wires' /\ NothingLost' /\ rx' = << >>
    BY <1>3, <1>4, <2>4 DEF Flush
  <2>6. Hears(Polls)'
    BY <2>5 DEF Hears, Elements
  <2> QED BY <1>1, <1>8, <2>4, <2>5, <2>6 DEF Resetting
<1>9. CASE Program /\ todo = one /\ target = "ROM" /\ t_baud = "B19200"
  <2>1. todo # << >> /\ Head(todo) = SetBaud("B19200") /\ Tail(todo) = << >>
    BY <1>9
  <2>2. Head(todo).op = "baud" /\ Head(todo).arg = "B19200"
    BY <2>1 DEF SetBaud
  <2>3. tty_set_baud \/ Exit
    BY <1>1, <1>9, <2>1, <2>2, Only
  <2>4. CASE tty_set_baud
    <3>1. /\ todo' = << >> /\ baud' = "B19200" /\ Flush
          /\ UNCHANGED <<state, line, stage, target, t_baud, unexpected, chatter>>
      BY <2>1, <2>2, <2>4 DEF tty_set_baud, Doing, target_vars, bounds
    <3>2. Wires' /\ NothingLost' /\ rx' = << >>
      BY <1>3, <1>4, <3>1 DEF Flush
    <3>3. At("BOOT_STATE", << >>, 1, 0, "B19200")'
      <4>1. /\ state' = "BOOT_STATE" /\ todo' = << >> /\ baud' = "B19200"
            /\ target' = "ROM" /\ stage' = 1 /\ t_baud' = "B19200" /\ line' = << >>
        BY <1>1, <1>9, <3>1
      <4>2. Hears(IF todo = << >> /\ line = << >> THEN {Reply(stage)} ELSE {})'
        BY <3>2 DEF Hears, Elements
      <4>3. stage' \in 1 .. 0 + 1 /\ Len(line') = 0 + 1 - stage'
        BY <4>1
      <4>4. t_baud' = Speed(stage')
        BY <4>1, SpeedsInOrder
      <4>5. \A i \in 1 .. Len(line') : line'[i] = Script[stage' + i - 1].takes
        BY <4>1
      <4>6. Together(1, 0, "B19200", << >>)
        BY DEF Together
      <4>7. 0 > 0 \/ << >> # << >> => outcount' = 0
        OBVIOUS
      <4> QED BY <4>1, <4>2, <4>3, <4>4, <4>5, <4>6, <4>7 DEF At
    <3>4. InBoot'
      BY <3>3, Zenon DEF InBoot
    <3> QED BY <1>1, <3>1, <3>2, <3>4
  <2>5. CASE Exit
    <3>1. /\ state' = "EXITED" /\ todo' = << >>
          /\ UNCHANGED <<rx, line, stage, target, unexpected, chatter, lost>>
      BY <2>5 DEF Exit, port_vars, target_vars, bounds, history
    <3>2. Wires' /\ NothingLost' /\ Hears(Polls)'
      BY <1>1, <3>1 DEF Wires, NothingLost, Hears, Polls
    <3> QED BY <1>1, <3>1, <3>2 DEF Stopped
  <2> QED BY <2>3, <2>4, <2>5
<1>10. CASE Others
  <2>1. (Poll => "STX" \in Polls) /\ target # "firmware starts"
    BY <1>1 DEF Poll, Polls
  <2>2. ASSUME NEW what, what = Polls
        PROVE  /\ Kept /\ Hears(what)'
               /\ UNCHANGED <<line, pulldown, target, stage, t_baud, unexpected>>
    BY <1>1, <1>10, <2>1, <2>2, QuietOthers
  <2>3. /\ Kept /\ UNCHANGED <<line, pulldown, target, stage, t_baud, unexpected>>
        /\ Hears(Polls)'
    BY <2>2 DEF Hears, Polls
  <2> QED BY <1>1, <1>2, <2>3 DEF Resetting, Kept
<1> QED BY <1>2, <1>5, <1>6, <1>7, <1>8, <1>9, <1>10

\* What goes out unasked at the first byte is overlooked by the ROM.
LEMMA DisturbedStep ==
  ASSUME Wires, NothingLost, NothingUnexpected, Disturbed, Program \/ Others
  PROVE  /\ (Disturbed \/ InBoot)' /\ Wires' /\ NothingLost'
         /\ unexpected' \subseteq {Garbage} /\ chatter' > 0
<1>1. /\ state = "BOOT_STATE" /\ stage = 1 /\ target = "ROM"
      /\ baud = "B19200" /\ t_baud = "B19200" /\ outcount = 0 /\ chatter > 0
      /\ Hears({}) /\ unexpected \subseteq {Garbage}
  BY DEF Disturbed, NothingUnexpected
<1>2. \/ todo = <<Write(Garbage)>> /\ line = << >>
      \/ todo = << >> /\ line = <<Garbage>>
  BY DEF Disturbed
<1>3. /\ line \in Seq(Messages) /\ rx \in Seq(Messages) /\ chatter \in Nat
      /\ Chatter \in Elements(rx) => chatter > 0
  BY DEF Wires
<1>4. CASE Program /\ todo = <<Write(Garbage)>> /\ line = << >>
  <2>1. /\ todo # << >> /\ Head(todo) = Write(Garbage) /\ Tail(todo) = << >>
    BY <1>4
  <2>2. Head(todo).op = "write" /\ Head(todo).arg = Garbage
    BY <2>1 DEF Write
  <2>3. WriteOut
    BY <1>1, <1>4, <2>1, <2>2, Only
  <2>4. /\ todo' = << >> /\ line' = Append(line, Garbage)
        /\ UNCHANGED <<state, baud, rx, outcount, target, stage, t_baud, chatter, lost,
                       unexpected>>
    BY <2>1, <2>2, <2>3 DEF WriteOut, Doing, target_vars, bounds, history
  <2>5. line' = <<Garbage>>
    BY <1>4, <2>4
  <2>6. Garbage \in Messages
    BY DEF Messages
  <2>7. line' \in Seq(Messages)
    BY <2>5, <2>6
  <2>8. Wires' /\ NothingLost' /\ Hears({})'
    BY <1>1, <1>3, <2>4, <2>7 DEF Wires, NothingLost, Hears
  <2> QED BY <1>1, <2>4, <2>5, <2>8 DEF Disturbed
<1>5. CASE Program /\ todo = << >> /\ line = <<Garbage>>
  <2>1. Read
    BY <1>1, <1>5, OnlyReads DEF BusmailStates
  <2>2. /\ rx # << >> /\ rx' = << >> /\ outcount' = 0
        /\ UNCHANGED <<state, baud, line, target, stage, t_baud, chatter, lost, unexpected>>
    BY <2>1 DEF Read, target_vars, bounds
  <2>3. Head(rx) \in Elements(rx)
    BY <1>3, <2>2, ElementsOf
  <2>4. Head(rx) = Chatter
    BY <1>1, <2>3 DEF Hears
  <2>5. todo' = << >>
    BY <1>1, <2>1, <2>4, Handled
  <2>6. Elements(rx') = {}
    BY <2>2 DEF Elements
  <2>7. Wires' /\ NothingLost' /\ Hears({})'
    BY <1>3, <2>2, <2>6 DEF Wires, NothingLost, Hears
  <2> QED BY <1>1, <1>5, <2>2, <2>5, <2>7 DEF Disturbed
<1>6. CASE Others /\ todo = <<Write(Garbage)>> /\ line = << >>
  <2>1. ~ Poll
    <3>1. 1 \in 1 .. Len(todo) /\ todo[1].op = "write"
      BY <1>6 DEF Write
    <3> QED BY <3>1 DEF Poll
  <2>2. target # "firmware starts"
    BY <1>1
  <2>3. /\ Kept /\ Hears({})'
        /\ UNCHANGED <<line, baud, target, stage, t_baud, outcount, unexpected>>
    BY <1>1, <1>6, <2>1, <2>2, QuietOthers
  <2>4. chatter' > 0
    <3>1. chatter' \in Nat /\ chatter' >= chatter
      BY <2>3 DEF Kept
    <3> QED BY <1>1, <1>3, <3>1
  <2>5. state' = state /\ todo' = todo /\ Wires' /\ NothingLost'
    BY <2>3 DEF Kept
  <2> QED BY <1>1, <1>6, <2>3, <2>4, <2>5 DEF Disturbed
<1>7. CASE Taken /\ todo = << >> /\ line = <<Garbage>>
  <2>1. Head(line) = Garbage /\ Tail(line) = << >>
    BY <1>7
  <2>2. Script[stage].takes = "SIZE" /\ Garbage # "SIZE"
    <3>1. Script[1].takes = "SIZE"
      BY Entries DEF Entry
    <3>2. Garbage # "SIZE"
      BY DEF Garbage
    <3> QED BY <1>1, <3>1, <3>2
  <2>3. /\ line' = << >> /\ unexpected' = unexpected \cup {Garbage}
        /\ UNCHANGED <<state, baud, todo, outcount, rx, lost, target, stage, t_baud, chatter>>
    BY <1>1, <1>7, <2>1, <2>2 DEF Taken, bounds
  <2>4. At("BOOT_STATE", << >>, 1, 0, "B19200")'
    <3>1. /\ state' = "BOOT_STATE" /\ todo' = << >> /\ baud' = "B19200"
          /\ target' = "ROM" /\ stage' = 1 /\ t_baud' = "B19200" /\ line' = << >>
      BY <1>1, <1>7, <2>3
    <3>2. Hears(IF todo = << >> /\ line = << >> THEN {Reply(stage)} ELSE {})'
      BY <1>1, <2>3 DEF Hears
    <3>3. stage' \in 1 .. 0 + 1 /\ Len(line') = 0 + 1 - stage'
      BY <3>1
    <3>4. t_baud' = Speed(stage')
      BY <3>1, SpeedsInOrder
    <3>5. \A i \in 1 .. Len(line') : line'[i] = Script[stage' + i - 1].takes
      BY <3>1
    <3>6. Together(1, 0, "B19200", << >>)
      BY DEF Together
    <3>7. 0 > 0 \/ << >> # << >> => outcount' = 0
      OBVIOUS
    <3> QED BY <3>1, <3>2, <3>3, <3>4, <3>5, <3>6, <3>7 DEF At
  <2>5. InBoot'
    BY <2>4, Zenon DEF InBoot
  <2>6. line' \in Seq(Messages)
    BY <2>3
  <2>7. Wires' /\ NothingLost'
    BY <1>3, <2>3, <2>6 DEF Wires, NothingLost
  <2> QED BY <1>1, <2>3, <2>5, <2>7
<1>8. CASE Chat /\ todo = << >> /\ line = <<Garbage>>
  <2>1. /\ Says(Chatter, t_baud) /\ chatter' = chatter + 1
        /\ UNCHANGED <<state, todo, line, baud, target, stage, t_baud, outcount, unexpected>>
    BY <1>8 DEF Chat, target_vars
  <2>2. Chatter \in Messages
    BY DEF Messages
  <2>3. /\ rx' \in Seq(Messages) /\ Elements(rx') \subseteq Elements(rx) \cup {Chatter}
        /\ lost' \subseteq lost \cup {Chatter}
    BY <1>3, <2>1, <2>2, Said
  <2>4. chatter' \in Nat /\ chatter' > 0
    BY <1>3, <2>1, More
  <2>5. Wires'
    BY <1>3, <2>1, <2>3, <2>4 DEF Wires
  <2>6. NothingLost' /\ Hears({})'
    BY <1>1, <2>3 DEF NothingLost, Hears
  <2> QED BY <1>1, <1>8, <2>1, <2>4, <2>5, <2>6 DEF Disturbed
<1>9. CASE UNCHANGED vars
  <2>1. UNCHANGED <<state, todo, line, baud, target, stage, t_baud, outcount, rx,
                    unexpected, lost, chatter>>
    BY <1>9 DEF vars, port_vars, target_vars, bounds, history
  <2>2. Wires' /\ NothingLost' /\ Hears({})'
    BY <1>1, <1>3, <2>1 DEF Wires, NothingLost, Hears
  <2> QED BY <1>1, <1>2, <2>1, <2>2 DEF Disturbed
<1>10. line = <<Garbage>> => ~ TakenDamaged /\ ~ Poll
  BY DEF TakenDamaged, Poll, Garbage
<1>11. ~ Announce
  BY <1>1 DEF Announce
<1> QED BY <1>2, <1>4, <1>5, <1>6, <1>7, <1>8, <1>9, <1>10, <1>11 DEF Others
-----------------------------------------------------------------------------
(* The invariant.                                                          *)

\* It holds at first.
LEMMA InvInit == Init => BootInv
<1> SUFFICES ASSUME Init PROVE BootInv
  OBVIOUS
<1>1. Elements(rx) = {}
  <2>1. rx = << >>
    BY DEF Init
  <2> QED BY <2>1 DEF Elements
<1>2. Starting
  BY <1>1 DEF Init, Starting, Hears
<1>3. NothingLost /\ NothingUnexpected
  BY DEF Init, NothingLost, NothingUnexpected
<1>4. line \in Seq(Messages) /\ rx \in Seq(Messages) /\ chatter \in Nat
  <2>1. line = << >> /\ rx = << >> /\ chatter = 0
    BY DEF Init
  <2> QED BY <2>1
<1> QED BY <1>1, <1>2, <1>3, <1>4 DEF BootInv, Wires

\* On the course no busmail handler is current.
LEMMA Elsewhere ==
  ASSUME Stopped \/ Disturbed \/ InBoot \/ InPreloader \/ InFlashloader \/ Failed \/ Stuck
  PROVE  state \notin BusmailStates
<1>1. ASSUME InBoot \/ InPreloader \/ InFlashloader \/ Failed
      PROVE  state \in {"BOOT_STATE", "PRELOADER_STATE", "FLASHLOADER_STATE", "EXITED"}
  BY <1>1 DEF InBoot, InPreloader, InFlashloader, Failed, At
<1>2. ASSUME Stopped \/ Disturbed \/ Stuck
      PROVE  state \in {"BOOT_STATE", "PRELOADER_STATE", "EXITED"}
  BY <1>2 DEF Stopped, Disturbed, Stuck
<1> QED BY <1>1, <1>2 DEF BusmailStates

\* Every step keeps it: one case for each place, and in it one for each side.
LEMMA InvNext == BootInv /\ [Next]_vars => BootInv'
<1> SUFFICES ASSUME BootInv, [Next]_vars PROVE BootInv'
  OBVIOUS
<1>1. Wires /\ NothingLost /\ NothingUnexpected
  BY DEF BootInv
<1>2. Program \/ Others
  BY DEF Next, Others
<1>3. ASSUME Wires', NothingLost', NothingUnexpected',
             (\/ Starting \/ Preparing \/ Listening \/ Resetting \/ Stopped
              \/ Disturbed \/ InBoot \/ InPreloader \/ InFlashloader \/ Failed \/ Stuck)'
      PROVE  BootInv'
  BY <1>3, Zenon DEF BootInv
<1>4. ASSUME unexpected' = {} PROVE NothingUnexpected'
  BY <1>4 DEF NothingUnexpected
<1>5. ASSUME unexpected' = unexpected, state \notin BusmailStates,
             chatter' \in Nat, chatter' >= chatter
      PROVE  NothingUnexpected'
  <2>1. unexpected \subseteq {Garbage} /\ (unexpected # {} => chatter > 0)
    BY <1>1, <1>5 DEF NothingUnexpected
  <2>2. chatter > 0 => chatter' > 0
    BY <1>1, <1>5 DEF Wires
  <2> QED BY <1>5, <2>1, <2>2 DEF NothingUnexpected
<1>6. CASE Starting
  BY <1>1, <1>2, <1>3, <1>4, <1>6, StartingStep, Zenon
<1>7. CASE Preparing
  BY <1>1, <1>2, <1>3, <1>4, <1>7, PreparingStep, Zenon
<1>8. CASE Resetting
  BY <1>1, <1>2, <1>3, <1>4, <1>8, ResettingStep, Zenon
<1>9. CASE Listening
  <2>1. Listening' /\ Wires' /\ NothingLost' /\ unexpected' \subseteq {Garbage}
    BY <1>1, <1>2, <1>9, ListeningStep, Zenon
  <2>2. NothingUnexpected'
    BY <2>1 DEF Listening, NothingUnexpected
  <2> QED BY <1>3, <2>1, <2>2, Zenon
<1>10. CASE Disturbed
  <2>1. /\ (Disturbed \/ InBoot)' /\ Wires' /\ NothingLost'
        /\ unexpected' \subseteq {Garbage} /\ chatter' > 0
    BY <1>1, <1>2, <1>10, DisturbedStep, Zenon
  <2>2. NothingUnexpected'
    BY <2>1 DEF NothingUnexpected
  <2> QED BY <1>3, <2>1, <2>2, Zenon
<1>11. ASSUME Stopped \/ InBoot \/ InPreloader \/ InFlashloader \/ Failed
       PROVE  BootInv'
  <2>1. state \notin BusmailStates
    BY <1>11, Elsewhere, Zenon
  <2>2. CASE Program
    <3>1. NothingUnexpected'
      <4>1. unexpected' = unexpected /\ chatter' = chatter
        BY <2>2, ProgramKeeps
      <4>2. chatter' \in Nat /\ chatter' >= chatter
        BY <1>1, <4>1, More DEF Wires
      <4> QED BY <1>5, <2>1, <4>1, <4>2
    <3>2. ~ Stopped /\ ~ Failed
      BY <2>2, ExitedIdle, Zenon
    <3>3. CASE InBoot
      BY <1>1, <1>3, <2>2, <3>1, <3>3, BootProgram, Zenon
    <3>4. CASE InPreloader
      BY <1>1, <1>3, <2>2, <3>1, <3>4, PreloaderProgram, Zenon
    <3>5. CASE InFlashloader
      BY <1>1, <1>3, <2>2, <3>1, <3>5, FlashloaderProgram, Zenon
    <3> QED BY <1>11, <3>2, <3>3, <3>4, <3>5
  <2>3. CASE Others
    <3>1. /\ (Stopped \/ InBoot \/ InPreloader \/ InFlashloader \/ Failed \/ Stuck)'
          /\ Kept /\ UNCHANGED unexpected
      BY <1>1, <1>11, <2>3, StoppedStep, OthersInBoot, OthersInPreloader,
         OthersInFlashloader, OthersFailed, Zenon
    <3>2. Wires' /\ NothingLost' /\ chatter' \in Nat /\ chatter' >= chatter
      BY <3>1 DEF Kept
    <3>3. NothingUnexpected'
      BY <1>5, <2>1, <3>1, <3>2
    <3> QED BY <1>3, <3>1, <3>2, <3>3, Zenon
  <2> QED BY <1>2, <2>2, <2>3
<1>12. CASE Stuck
  <2>1. /\ Stuck' /\ Wires' /\ NothingLost' /\ UNCHANGED <<state, unexpected>>
        /\ chatter' \in Nat /\ chatter' >= chatter
    BY <1>1, <1>2, <1>12, StuckStep, Zenon
  <2>2. state \notin BusmailStates
    BY <1>12, Elsewhere, Zenon
  <2>3. NothingUnexpected'
    BY <1>5, <2>1, <2>2
  <2> QED BY <1>3, <2>1, <2>3, Zenon
<1> QED BY <1>6, <1>7, <1>8, <1>9, <1>10, <1>11, <1>12, Zenon DEF BootInv

\* In whatever order the program, the line and the target go on, whatever an
\* uninitialised outcount holds and whatever is damaged: the two sides are at one of
\* the places of the setups or of the course.
THEOREM BootInvariance == Spec => []BootInv
<1> QED BY InvInit, InvNext, PTL DEF Spec

\* No change of speed and no flush loses more than a poll or bytes without a meaning.
THEOREM KeepsAll == Spec => []NothingLost
<1>1. BootInv => NothingLost
  BY DEF BootInv
<1> QED BY <1>1, BootInvariance, PTL

\* The target gets every message of Script in its order and nothing else, but for
\* what an uninitialised outcount sends.
THEOREM GivesInOrder == Spec => []NothingUnexpected
<1>1. BootInv => NothingUnexpected
  BY DEF BootInv
<1> QED BY <1>1, BootInvariance, PTL

\* The preloader's and the flash loader's handlers are only current when the target
\* has confirmed what it was given.
THEOREM GoesOnWhenConfirmed == Spec => []NotAhead
<1>1. ASSUME BootInv PROVE NotAhead
  <2>1. CASE Starting \/ Preparing \/ Listening \/ Resetting \/ Stopped \/ Disturbed
    BY <2>1 DEF Starting, Preparing, Listening, Resetting, Stopped, Disturbed,
                BusmailStates, NotAhead
  <2>2. CASE InBoot \/ Failed
    BY <2>2 DEF InBoot, Failed, At, NotAhead
  <2>3. CASE InPreloader
    <3>1. \E first \in 3 .. 9, sent \in 0 .. 9 :
              state = "PRELOADER_STATE" /\ stage \in first .. sent + 1
      BY <2>3 DEF InPreloader, At
    <3> QED BY <3>1 DEF NotAhead
  <2>4. CASE InFlashloader
    <3>1. \E sent \in {8, 9} : state = "FLASHLOADER_STATE" /\ stage \in 9 .. sent + 1
      BY <2>4 DEF InFlashloader, At
    <3> QED BY <3>1 DEF NotAhead
  <2>5. CASE Stuck
    BY <2>5 DEF Stuck, NotAhead
  <2> QED BY <1>1, <2>1, <2>2, <2>3, <2>4, <2>5, Zenon DEF BootInv
<1> QED BY <1>1, BootInvariance, PTL
=============================================================================
