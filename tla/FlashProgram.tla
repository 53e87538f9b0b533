---------------------------- MODULE FlashProgram ----------------------------
(***************************************************************************)
(* Programming the flash: flashloader_dispatch of src/flashloader.c and    *)
(* the flash loader that runs on the target.  Each confirm of the target   *)
(* makes the program send its next request: version, configuration, flash  *)
(* type, erasure, the image in blocks of 2048 bytes, checksum.             *)
(*                                                                         *)
(* Addresses count blocks of 0x800 bytes; the last block of an image may   *)
(* be shorter and, when its size is odd, is padded by one 0xff, which      *)
(* leaves erased flash as it is.  A block's content is one value, FF being *)
(* bytes of 0xff only.  The loop that skips such blocks does not look at   *)
(* the image's size, so what lies behind the image in memory is part of    *)
(* the state.  The CRC-32 of the program and of the target agree exactly   *)
(* when image and flash do.                                                *)
(*                                                                         *)
(* The target is external: it answers requests in order, and its flash     *)
(* takes new content only where it is erased.  Configuring, erasing and    *)
(* programming may fail, which the confirm says, the flash may be reported *)
(* with a sector size of 0, and a confirm damaged on the line is dropped   *)
(* by flashpacket_get.                                                     *)
(***************************************************************************)
EXTENDS Integers, Sequences

CONSTANTS FF,           \* a block of 2048 bytes 0xff
          Contents,     \* the contents of a block other than FF
          Images,       \* the images /etc/dect/target.bin may hold
          MaxBehind,    \* bound on the blocks of 0xff behind the image
          MaxFailures,  \* bound on the failures of the target
          MaxLost       \* bound on the confirms lost

ASSUME ContentAssumption == FF \notin Contents

ASSUME ImageAssumption ==
    \A img \in Images : img \in Seq(Contents \cup {FF}) /\ img # << >>

ASSUME BoundsAssumption == MaxBehind \in Nat /\ MaxFailures \in Nat /\ MaxLost \in Nat

VARIABLES image,        \* pr->img
          behind,       \* the image's end: whether it fills its last block, with
                        \* the byte that pads an odd size, and how many blocks of
                        \* 0xff follow in memory
          exited,       \* "no", the exit code, or the signal that ended it
          to_target,    \* requests written and not yet served
          from_target,  \* confirms sent and not yet dispatched
          flash,        \* the target's flash
          erased,       \* history: the last erasure succeeded
          failures, lost

program_vars == <<image, behind, exited>>
target_vars == <<flash, erased, failures>>
programming_vars == <<program_vars, target_vars, to_target, from_target, lost>>

Size == Len(image)           \* in blocks
Block(of) == image[of + 1]

Old == "old"                 \* what the flash held before
Mixed == "mixed"             \* written over something else
Empty == "empty"             \* no data in a request
Request(primitive) == [primitive |-> primitive, address |-> 0, data |-> Empty]
Crash(signal) == [primitive |-> signal, address |-> 0, data |-> Empty]
Signals == {"SIGFPE", "SIGSEGV"}

\* init_flashloader_state has sent the first request and read the image.
ProgramInit ==
        /\ image \in Images
        /\ behind \in [filled : BOOLEAN, ff : 0 .. MaxBehind]
        /\ exited = "no"
        /\ to_target = <<Request("SW_VERSION")>>
        /\ from_target = << >>
        /\ flash = [i \in 1 .. Size |-> Old]
        /\ erased = FALSE
        /\ failures = 0
        /\ lost = 0
-----------------------------------------------------------------------------
(* The program.                                                            *)

\* 2048 bytes are compared: a last block that is not filled together with what
\* follows it.
is_data_ff(of) ==
    /\ of < Size => Block(of) = FF
    /\ of < Size + behind.ff - (IF behind.filled THEN 0 ELSE 1)

\* The first block from offset on that is not 0xff, in the image or behind it.
SkipFF(offset) == CHOOSE of \in offset .. Size + MaxBehind :
                     /\ ~is_data_ff(of)
                     /\ \A k \in offset .. of - 1 : is_data_ff(k)

\* At the end of a filled image the size is 0, or -1, which is odd and becomes 0.
DataSizeNegative(of) == of > Size \/ (of = Size /\ ~behind.filled)

\* Mistake: the data comes from the block skipped to, the address does not.
Programming_address(offset, of) ==
    IF DataSizeNegative(of) THEN Crash("SIGSEGV")
    ELSE [primitive |-> "PROG_FLASH", address |-> offset,
          data |-> IF of = Size THEN Empty ELSE Block(of)]

\* Mistake: the address of the block's end.
Programming_end(offset, of) ==
    IF DataSizeNegative(of) THEN Crash("SIGSEGV")
    ELSE [primitive |-> "PROG_FLASH", address |-> of + 1,
          data |-> IF of = Size THEN Empty ELSE Block(of)]

\* The request for block of.  At the end of a filled image its data is empty;
\* behind any other end, memcpy with a negative size runs off the memory.
Programming(offset, of) ==
    IF DataSizeNegative(of) THEN Crash("SIGSEGV")
    ELSE [primitive |-> "PROG_FLASH", address |-> of,
          data |-> IF of = Size THEN Empty ELSE Block(of)]

prog_flash_req(offset) == Programming(offset, SkipFF(offset))

calc_crc32_req == Request("CALC_CRC32")

\* Mistake: the last block is left out.
prog_flash_cfm_stops_early(m) ==
    IF m.confirm
    THEN IF m.address + 2 < Size THEN prog_flash_req(m.address + 1)
                                 ELSE calc_crc32_req
    ELSE prog_flash_req(m.address)

\* Mistake: <= at the image's end.
prog_flash_cfm_one_more(m) ==
    IF m.confirm
    THEN IF m.address + 1 <= Size THEN prog_flash_req(m.address + 1)
                                  ELSE calc_crc32_req
    ELSE prog_flash_req(m.address)

prog_flash_cfm(m) ==
    IF m.confirm
    THEN IF m.address + 1 < Size THEN prog_flash_req(m.address + 1)
                                 ELSE calc_crc32_req
    ELSE prog_flash_req(m.address)

\* The number of sectors is computed for output: a division by the sector size.
erase_flash(m) == IF m.confirm THEN Request("FLASH_ERASE") ELSE Crash("SIGFPE")

\* Mistake: the program waits for a confirm that says TRUE.
flashloader_dispatch_waits(m) ==
    CASE m.primitive = "SW_VERSION" -> <<Request("WRITE_CONFIG")>>
      [] m.primitive = "WRITE_CONFIG" -> <<Request("READ_PROPRIETARY_DATA")>>
      [] m.primitive = "READ_PROPRIETARY_DATA" -> <<erase_flash(m)>>
      [] m.primitive = "FLASH_ERASE" ->
             IF m.confirm THEN <<prog_flash_req(0)>> ELSE << >>
      [] m.primitive = "PROG_FLASH" -> <<prog_flash_cfm(m)>>
      [] OTHER -> << >>

\* Mistake: programming is started along with the erasure.
flashloader_dispatch_hasty(m) ==
    CASE m.primitive = "SW_VERSION" -> <<Request("WRITE_CONFIG")>>
      [] m.primitive = "WRITE_CONFIG" -> <<Request("READ_PROPRIETARY_DATA")>>
      [] m.primitive = "READ_PROPRIETARY_DATA" ->
             <<prog_flash_req(0), Request("FLASH_ERASE")>>
      [] m.primitive = "FLASH_ERASE" -> << >>
      [] m.primitive = "PROG_FLASH" -> <<prog_flash_cfm(m)>>
      [] OTHER -> << >>

\* What the program writes in response.  Whether config and erasure succeeded is
\* printed and not acted upon.
flashloader_dispatch(m) ==
    CASE m.primitive = "SW_VERSION" -> <<Request("WRITE_CONFIG")>>
      [] m.primitive = "WRITE_CONFIG" -> <<Request("READ_PROPRIETARY_DATA")>>
      [] m.primitive = "READ_PROPRIETARY_DATA" -> <<erase_flash(m)>>
      [] m.primitive = "FLASH_ERASE" -> <<prog_flash_req(0)>>
      [] m.primitive = "PROG_FLASH" -> <<prog_flash_cfm(m)>>
      [] OTHER -> << >>

\* Mistake: the checksum is printed and not compared.
calc_crc32_cfm_trusting(m) == "0"

\* The exit code.
calc_crc32_cfm(m) == IF m.confirm THEN "0" ELSE "-1"

Dispatch ==
    /\ exited = "no"
    /\ from_target # << >>
    /\ LET m == Head(from_target)
           requests == flashloader_dispatch(m)
       IN  IF \E i \in 1 .. Len(requests) : requests[i].primitive \in Signals
           THEN /\ exited' = requests[Len(requests)].primitive
                /\ UNCHANGED to_target
           ELSE /\ to_target' = to_target \o requests
                /\ exited' = IF m.primitive = "CALC_CRC32" THEN calc_crc32_cfm(m)
                                                           ELSE "no"
    /\ from_target' = Tail(from_target)
    /\ UNCHANGED <<image, behind, target_vars, lost>>
-----------------------------------------------------------------------------
(* The target.                                                             *)

\* The confirm of a request; that of CALC_CRC32 says whether the checksums agree,
\* that of READ_PROPRIETARY_DATA whether the sector size is not 0.
Confirm(r, ok) == [primitive |-> r.primitive, address |-> r.address, confirm |-> ok]

\* What becomes of a block with content old when data is programmed.
Programmed(old, data) == IF old \in {FF, data} THEN data ELSE Mixed

Fallible == {"WRITE_CONFIG", "READ_PROPRIETARY_DATA", "FLASH_ERASE", "PROG_FLASH"}

Serve(ok) ==
    /\ to_target # << >>
    /\ to_target' = Tail(to_target)
    /\ from_target' = Append(from_target, Confirm(Head(to_target), ok))
    /\ UNCHANGED <<program_vars, lost>>

TargetServes ==
    /\ to_target # << >>
    /\ LET r == Head(to_target)
       IN  \/ /\ r.primitive \in {"SW_VERSION", "WRITE_CONFIG",
                                  "READ_PROPRIETARY_DATA"}
              /\ Serve(TRUE)
              /\ UNCHANGED target_vars
           \/ /\ r.primitive = "FLASH_ERASE"
              /\ Serve(TRUE)
              /\ flash' = [i \in 1 .. Size |-> FF]
              /\ erased' = TRUE
              /\ UNCHANGED failures
           \/ /\ r.primitive = "PROG_FLASH"
              /\ Serve(TRUE)
              /\ flash' = [i \in 1 .. Size |-> IF i = r.address + 1
                                              THEN Programmed(flash[i], r.data)
                                              ELSE flash[i]]
              /\ UNCHANGED <<erased, failures>>
           \/ /\ r.primitive = "CALC_CRC32"
              /\ Serve(flash = image)
              /\ UNCHANGED target_vars

\* The target refuses and its flash stays as it is.
TargetFails ==
    /\ failures < MaxFailures
    /\ failures' = failures + 1
    /\ to_target # << >>
    /\ Head(to_target).primitive \in Fallible
    /\ Serve(FALSE)
    /\ UNCHANGED <<flash, erased>>

ConfirmLost == /\ lost < MaxLost
               /\ lost' = lost + 1
               /\ from_target # << >>
               /\ from_target' = Tail(from_target)
               /\ UNCHANGED <<program_vars, target_vars, to_target>>

ProgramNext == Dispatch \/ TargetServes \/ TargetFails \/ ConfirmLost

ProgramSpec == ProgramInit /\ [][ProgramNext]_programming_vars

\* The program runs whenever it can; the target serves what it is asked and its
\* flash does not fail for ever.
ProgramFairSpec ==
    /\ ProgramSpec
    /\ WF_programming_vars(Dispatch)
    /\ WF_programming_vars(TargetServes \/ TargetFails)
-----------------------------------------------------------------------------
Primitives == {"SW_VERSION", "WRITE_CONFIG", "READ_PROPRIETARY_DATA",
               "FLASH_ERASE", "PROG_FLASH", "CALC_CRC32"}

\* Requests name blocks of the image, and the queues hold requests and confirms.
TypeOK ==
    /\ image \in Images
    /\ behind \in [filled : BOOLEAN, ff : 0 .. MaxBehind]
    /\ exited \in {"no", "0", "-1"} \cup Signals
    /\ to_target \in Seq([primitive : Primitives, address : 0 .. Size,
                          data : Contents \cup {FF, Empty}])
    /\ from_target \in Seq([primitive : Primitives, address : 0 .. Size,
                            confirm : BOOLEAN])
    /\ flash \in [1 .. Size -> Contents \cup {FF, Old, Mixed}]
    /\ erased \in BOOLEAN

\* One request or confirm is under way at any time, until the program exits or a
\* confirm is lost: no step of the program starts a second chain of requests.
Lockstep ==
    Len(to_target) + Len(from_target) = IF exited = "no" /\ lost = 0 THEN 1 ELSE 0

\* After a successful erasure every block of the flash is still erased or holds
\* what the image has there, whatever failed and was tried again.
NothingMixed == erased => \A i \in 1 .. Size : flash[i] \in {FF, image[i]}

\* The checksum is asked for only when the flash holds the whole image, blocks
\* of 0xff skipped and a shorter last block included, unless the erasure failed.
CompleteAtChecksum ==
    erased /\ (\E i \in 1 .. Len(to_target) : to_target[i].primitive = "CALC_CRC32")
        => flash = image

\* Exit code 0 means that the flash holds the image, also when the erasure
\* failed and the program went on without noticing.
ExitZeroMeansProgrammed == exited = "0" => flash = image

\* An image that does not end in a block of 0xff is never left: no request for
\* what lies behind it is sent and its end is not run over, whatever the memory
\* behind it holds.
StaysInImage ==
    image[Size] # FF =>
        /\ exited # "SIGSEGV"
        /\ \A i \in 1 .. Len(to_target) : to_target[i].address < Size

\* When no confirm is lost the program ends, by an exit or a signal, however often
\* the flash refused a block.
ExitsInTheEnd == <>(exited # "no") \/ <>(lost > 0)
=============================================================================
