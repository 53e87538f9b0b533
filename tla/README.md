# A verification model of dect-prog

`dect-prog` sets up a DECT module over a serial line. It has three modes:
`prog` loads a preloader and a flash loader into the module's processor (the
target) and programs its flash, `nvs` writes the module's non-volatile storage,
and `app` opens the module for the registration of handsets. It is one process
with one loop: `epoll_wait`, `read`, the current state's handler, `write`.
Paths below are relative to `src/src/`.

## The parts and how they interact

| part | source | state it keeps | operations |
|---|---|---|---|
| main loop and states | `main.c`, `state.c` | mode, current handler, `event_t` | arguments, start of a mode, wait, read, dispatch, write the reply; `state_add_handler`, `state_transition` |
| boot and preloader states | `boot.c`, `preloader.c`, `tty.c`, resets also in `nvs.c`, `app.c` | image and checksum, port speed; outside the process the pin and the reset line | one handler each, on the first byte of a read |
| input buffer | `buffer.c` | ring, two cursors, count, state flag | write, read, rewind, size |
| busmail framing | `busmail.c` `busmail_get`; loops in `app.c`, `nvs.c` | the ring | cut packets out of the stream |
| busmail link layer | the rest of `busmail.c` | four counters, `tx_fifo` | `busmail_dispatch`, `busmail_send`, `busmail_tx`, `busmail_ack` |
| queue | `fifo.c` | linked list | add, get, count |
| nvs mode | `nvs.c` | `reset_ind` | callback of the link layer, exit |
| app mode | `app.c` | `reset_ind` | callback of the link layer |
| flash loader framing | `flashloader.c` `flashpacket_get`, `handle_flashloader_package` | the ring | cut mails out of the stream |
| flash programming | the rest of `flashloader.c` | image, flash type | `flashloader_dispatch`: each confirm sends the next request |
| checksums | `Crc.c` | tables | `UpdateCrc`, `CalculateCRC32` |
| errors, dumps | `util.c`, `error.c` | none | |

Calls go downwards: main calls the handler, the handler writes the ring and
calls `..._get` until it returns -1, each packet goes to the dispatcher, the
dispatcher of busmail calls the mode's callback, the callback enqueues packets,
and the dispatcher sends them or an ack. Nothing runs in parallel inside the
process. What interleaves is the process and the other end of the line.

What is hard here:

* a read ends anywhere in a packet, so both `..._get` functions put bytes back
  on the ring, also across its wrap, and also on an empty ring;
* one bad packet among good ones, a bad length, and bytes of no packet;
* counters shifted into three-bit fields without a mask;
* answers: a frame is to be answered by packets or by an ack, and the callback
  may exit in between;
* the other end restarts, fails, reports a state as pending, repeats itself;
* the pin, the reset and the port are set up in an order that matters while the
  target already sends; the line's speed changes twice, and every set-up and
  change flushes the input;
* an image with blocks of 0xff, which are skipped, also at its end;
* there are no timeouts: what is lost stops the program.

What makes the parts correct: the ring is a tape of bytes; the framing layers
deliver what was sent, once and in order, and leave room for more; the link
layer answers each frame once, in order, with consecutive numbers; the queue is
first in, first out on cells that are allocated and freed once; the nvs mode
exits only when the module has confirmed that it set the storage or refused to,
and nothing will change the storage then; the app mode registers only a
started protocol; the checksums are what they are called and notice damage; exit
code 0 of the prog mode means that the flash holds the image; the boot chain is
in step with the target. `PROJECT.json` lists the hazards line by line.

## Modules

| module | models | state and actions |
|---|---|---|
| `Buffer` | `buffer.c` | operators named after the functions, on a record with the fields of `buffer_t`; pointers are offsets |
| `RingBuffer` | callers of one buffer | `buf`, history `tape`; `Write`, `Read`, `Rewind` |
| `ByteTape` | the promise of `buffer.c` | a tape and a position |
| `BusmailFraming` | `busmail_get` and the handlers' loops | ring, `wire`, `handling`; each call of `busmail_get` is a step, bytes arrive in between; frames with a damaged checksum or length, stray bytes |
| `FlashFraming` | `flashpacket_get` and its loop | as above; `UpdateCrc` is a constant operator |
| `MessageChannel` | the promise of both framings | `sent`, `got` |
| `Busmail` | the link layer | counters, `tx_fifo`, the flag `ack`; `busmail_dispatch`, `Transmit` (one round of the loop), `Finish` |
| `Fifo` | `fifo.c` | head and a heap of cells, `allocated`; `fifo_add`, `fifo_get` |
| `Queue` | the promise of `fifo.c`, as `Busmail` uses it | a sequence; `Add`, `Get` |
| `Nvs` | `nvs.c` | extends `Busmail`, whose callback becomes `application_frame`; the module's replies, failures, refusals, restarts and repetitions are external actions; `refused` remembers a refused `SET_NVS`, whose status the program does not look at |
| `App` | `app.c` | likewise |
| `Crc` | `Crc.c` | `Carried`: a byte goes through the sender's and the receiver's register, and may be damaged on the way |
| `FlashProgram` | `flashloader_dispatch` | queues of requests and confirms, the target's `flash`, the memory `behind` the image; `Dispatch` and external `TargetServes`, `TargetFails`, `ConfirmLost` |
| `BootChain` | `main.c`, `state.c`, `boot.c`, `preloader.c`, `tty.c`, `check_args`, the starts in `nvs.c` and `app.c` | `todo` holds the operations on port and pins that a handler has still to do, so that the target acts between them; `Script` and `Announce` are the external target |
| `BufferProofs` | | lemmas about the operators of `Buffer` and about streams of frames, used by the next three |
| `LeafProofs`, `BusmailFramingProofs`, `FlashProofs` | | theorems about `RingBuffer`, `Fifo` and `Crc`; about `BusmailFraming`; about `FlashFraming` and `FlashProgram` |
| `BusmailProofs`, `AppProofs`, `NvsProofs`, `BootChainProofs` | | theorems about the component of the same name |
| `MC...` | | values for the constants |

Composition: `RingBuffer`, `BusmailFraming` and `FlashFraming` extend `Buffer`;
`Nvs` and `App` extend `Busmail`. `RingBuffer` implements `ByteTape`, `Fifo`
implements `Queue`, and both framings implement `MessageChannel`, with the
refinement stated by `INSTANCE`. Where one proof module is about several
components their specifications have different names (`RingSpec`, `FifoSpec`,
`CrcSpec`, `ProgramSpec`).

What is abstracted: a busmail packet above the framing is its header byte,
program id and mail primitive; header bytes stay numbers because the counters
overflow into them. In the framings a byte is one of two to four values, so
that the start of frame also occurs as length, data and checksum. In `Crc` a
word is the set of the positions of its 1 bits, so that exclusive or is a
symmetric difference and a truncation an intersection. An image is a sequence of
blocks of 2048 bytes, a block one value; of the last block it matters whether it
is filled, with the byte that pads an odd size, because 2048 bytes are compared
whatever its size. In the boot chain a
message, also an image, is one item. Definitions whose name has a suffix and
whose comment begins with "Mistake" are wrong on purpose: each is a plausible
bug of the definition that follows it and shows that a property notices it.

## Runs

| run | configuration | shows |
|---|---|---|
| `ring_buffer` | block of 4, calls up to 5 bytes, a tape of 12 bytes, 4 of them the zeros of the new block | cursors agree; the ring is a tape |
| `busmail_framing` | ring of 9, reads up to 3, three packets of 1 to 3 bytes, one with a wrong checksum, one stray byte | only intact packets, once, in order; all of them in the end when none was damaged; always room for the next read |
| `flash_framing` | ring of 13, reads up to 4, three mails of 1 to 3 bytes, one damaged, CRC high byte never the start of frame | the same for mails |
| `busmail` | seven header bytes (numbers 0, 5, 6, 7, RR, SAMB, another), up to three packets for a frame | answers and numbers |
| `fifo` | four cells, two objects | the list is a queue, no cell is leaked or used after it was freed |
| `nvs` | two restarts, two frames sent again, one frame of no concern; each request may fail | what the storage holds at the exit, `Lockstep`, when a packet's header has the type bit, exit |
| `app` | three indications, two frames sent again | order and number of start-ups, all frames answered |
| `crc` | five byte values, mails of up to four bytes | CRC-16 and CRC-32 are what they are called, damage is noticed |
| `flash_program` | all images of up to four blocks, ending in 0xff or not, with a filled last block or not, one block of 0xff behind them or none, three failures, one lost confirm | exit code 0 means programmed |
| `boot_chain` | three meaningless bytes, one damaged image, any initial speed, pin either way, every mode, `outcount` 0 or 1 | no message that matters is lost in resets and speed changes |

The bounds suffice for the cases that matter. The four-byte block wraps several
times in the eight bytes written, and a call can be longer than the block. The rings of the
framings are little longer than the longest partial packet and one read: packets
wrap around them at every field, and packets of three bytes use both length
bytes. Each framing has one run for clean and damaged lines together: that all
packets are dispatched is stated for behaviours in which `damaged` stays 0, the
order and the integrity for all. The counters of `Busmail` are not bounded:
`tx_seq_l` runs through its 256 values. Four cells let a freed cell be handed
out while others are queued. Four blocks allow a skipped block first, in the
middle, next to the last and last. Two restarts and two repetitions overtake
each other in every order. Three meaningless bytes can come before each flush or
after it. Every passing run takes less than two minutes with two workers.

### Where the code does something else than it says

Two runs show a property that a comment of the code states and the code does
not keep; the counterexample is what TLC prints for them.

| run | what |
|---|---|
| `busmail_wedged` | `busmail.c:397`: a packet whose length arrives as more than the ring can hold is waited for for ever; the ring fills and no packet is dispatched any more |
| `flash_stale_byte` | `flashloader.c:713`: `flashpacket_get` rewinds an empty buffer; if the CRC's last byte was 0x46 the next mail is misread |

The passing runs state what holds nevertheless: `busmail_framing` damages
checksums and no lengths, and `flash_framing` has a CRC whose high byte is not
the start of frame.

More is plain from the lines alone and has no run. The model has the code's
behaviour in each, unless the list says otherwise:

* `busmail.c:404`: the checksum's index uses `start`, which is never assigned
  (`busmail.c:363`). The possible values are a constant, `StartValues`; the runs
  give it 0, and with 1 a packet with a wrong checksum passes.
* `busmail.c:324`: numbers wrap after 6, although the field has room for 7; frame
  6 is acknowledged with 0. `AcksFrameInHand` leaves number 6 out.
* `busmail.c:411`: a bad checksum makes `busmail_get` return -1, which ends the
  handler's loop; whole packets behind it stay in the buffer until the next
  input, though the loop is to "process whole packets in buffer" (`app.c:156`).
* `busmail.c:174`: acks are to be control frames (`busmail.c:351`), but
  `make_supervisory_frame` never sets the type bits.
* `busmail.c:221`: from the ninth packet on `tx_seq_l` reaches into bit 7, and
  the packet has the header of a control frame. `PacketsAreInformation` shows that
  the nvs mode stays below it with one frame sent again; with two it may not.
* `busmail.c:323`: number 7 makes `rx_seq_l` 8, which is the PF bit of the header.
  No property is about PF.
* `busmail.c:346`: the loop frees the packet but not its data. The model has no
  memory besides the cells of the queue.
* `nvs.c:97`: the status of `SET_NVS`'s confirm is not looked at, and `nvs.c:105`
  exits with 0 without comparing what was read. A module that refuses the identity
  leaves the defaults in the storage and the program says that all is well;
  `ExitsSettled` states just what the storage holds.
* `flashloader.c:743`: the payload of a mail is copied into the 500 bytes of
  `packet_t` whatever its size; the ring lets one of up to 4995 bytes through. The
  model's packet is a sequence without a size.
* `main.c:109`: `outcount` is uninitialised at the first event, so that main may
  write what `e->out` holds. `NothingUnexpected` says when this can reach the
  target.
* `main.c:64`: an argument that is no mode leaves the mode uninitialised, so that
  any of them may start.
* `boot.c:115`: a run killed between the commands leaves the pin set, which the
  other modes do not release; `ComesUp` excepts them then.
* `flashloader.c:509`: the comment says zeros are skipped; blocks of 0xff are.
* `flashloader.c:510`: an image that ends in 0xff is left; what follows depends
  on the memory behind it: an empty request behind a filled last block, or a copy
  with a negative size. `StaysInImage` is stated for the other images.
* `app.c:102`: the registration request is sent with the size of another request
  and so without its flags. That it opens registration all the same is assumed.

## Fairness

Weak fairness of the program's own steps: the process is single-threaded, no
handler waits for anything but the line's output, and `epoll_wait` is
level-triggered, so it returns as long as input waits. In the framings the peer
owes nothing. In `Nvs`, `App` and `FlashProgram` the other end answers a request
it has received; the target's failures are bounded by a count, and a lost confirm,
a restart or a failed default excuses the program, as it has no timeout. A refused
`SET_NVS` does not, because the program goes on after it. Only the defaults are
reported as pending, the one case the code knows (`nvs.c:78`); of
`GET_FW_VERSION` and `GET_NVS` the status is left out, as they write nothing and
the program looks at none. In
`BootChain` the line transmits, the ROM polls until it is answered and the
firmware announces itself after its reset. That a second poll comes only when
the program is idle states that the ROM's interval is longer than the program
takes to answer; that ROM and loaders overlook what they do not wait for is
assumed. `ComesUp` excepts the runs in which an image was damaged or a read
returned a byte that matters behind another one: the program looks at the first
byte only and nothing is sent again.

## Proofs

`LeafProofs` on the ring, with the lemmas of `BufferProofs`: for every block size
and byte set, any sequence of calls keeps the cursors in the block and in
agreement with count and flag (`RingTypeCorrect`, `CursorsAlwaysAgree`). The
conjunction (`Good`) is inductive: neither conjunct is on its own, because the
length of a copy is bounded through the agreement and the agreement is kept
because the cursors are in range. One lemma for each helper of `buffer.c`
(`WriteNormalGood`, `WriteWrappedGood`, `ReadNormalGood`, `ReadWrappedGood`,
`StepBackGood`) says in which state it leaves the cursors when it stopped short;
`WriteGood`, `ReadGood` and `RewindGood` put two of them together. They rest on
`BufSizeAssumption` and `ByteAssumption`, and a rewind on the guard that it does
not exceed the free space. That both callers satisfy the guard, as they rewind
what they have just read, or one byte on an empty buffer, is part of `BusmailGet`
and `FlashpacketGet` below.

`RingImplementsTape` is the refinement of `ByteTape`. Its invariant adds to the
shape of the buffer what the block holds (`Holds`): the last `BufSize` bytes of
the tape, ending before the write cursor. The shape alone does not say which
bytes a read will find. `CopyInHolds`, `TurnHolds` and `CopyOutSlice` say what one
copy and the turn at the block's end do to it; `WriteHolds` and `ReadHolds` put
two copies together, with lemmas about sequences (`Joined`, `SlicesJoin`).
`WriteStep`, `ReadStep` and `RewindStep` map each operation to the step of
`ByteTape` with the same name, for any block size, bytes and lengths.

The framings (`BusmailFramingProofs`, first half of `FlashProofs`): for any ring,
bytes, start of frame, payloads and chunks, packets that wrap around the ring at
any field included. `BusmailGet` and `FlashpacketGet` say what the two functions do
to any good buffer, aligned with the packets or not: the search finds the first
start of frame (`Sought`), and then the frame behind it is all there and taken, or
what there is of it is put back; the rewind in `flashpacket_get` on an empty buffer
brings back the byte read last. The properties are not inductive: they say nothing
of where in the ring the next packet begins, and the start of frame also occurs
inside packets. The invariant `Inv` says that there are a tape, which the ring
holds the end of, and the positions of the frames in the stream, the tape and what
is still on the wire, such that outside of the frames no start of frame occurs
(`Packets`), that the handler reads on between two frames and has handed out
exactly the intact ones before that place (`Between`), and that what the loop
leaves behind is no whole packet (`Drained`). The lemmas about streams in
`BufferProofs` (`FoundIsFrame`, `SkipClear`, `PassClear`, `BackClear`, `NewFrame`)
carry it: the first start of frame from a place between frames on is that of the
next frame. In `FlashProofs` the invariant also says that the byte the rewind may
bring back is no start of frame (`Fresh`); this is what `flash_stale_byte` shows to
be necessary. From it follow:

* `RoomKept`: the ring has room for the next read whenever the handler is called;
* `NoPacketLeftBehind`: when the handler has returned and the line is empty, every
  packet sent has been dispatched;
* `IntactChannel` and `ChannelKept`: the handler refines the safety part of
  `MessageChannel`. The first is about behaviours in which nothing is damaged; the
  second allows for frames of a wrong checksum, after which packets stay in the
  ring longer, and supposes instead that every chunk finds room (`ChunkFits`).

What they assume, each time by name:

* `StartValues = {0}`: the uninitialised `start` of `busmail_get` holds 0. With
  another value the checksum is read elsewhere and none of this is true.
* `DamagedLengths = {}` (`ChannelKept` of busmail): damage to the length is what
  `busmail_wedged` refutes. As long as nothing is damaged it need not be assumed.
* `NeverHeader` (flash): no CRC of a mail sent has the start of frame as its high
  byte. The code does not see to this, and without it `flash_stale_byte` is the
  counterexample.
* `Fits`: the longest packet but its last byte and one read fit into the ring
  together. The ring has 500 bytes in `nvs.c` and `app.c` and 5000 in
  `flashloader.c`; main reads as much as the line has (`main.c:101`), so this is a
  statement about the line and the other end, which the code does not check.
* `ChecksumAssumption`, `CrcAssumption`: the checksum of a payload is a byte, its
  CRC 16 bits wide, as their types in C say. Over payloads of any length that is an
  induction over data.

`BusmailProofs`: for any header bytes, programs, packets and callbacks.
`AnsweredOnce` is not inductive: that the answer is right at the end depends on
the flag `ack` and on the queue in every round of the loop. `IInv` adds
`TypeOK`, `IdleDrained` (the loop leaves nothing in `tx_fifo`), `AnswerInOrder`
(sent and queued make up what was enqueued) and `AckTellsSent` (while the loop runs, the flag says whether
something was sent). The lemma `SentGrows` about sequences carries the step that
sends a packet. `NumbersConsecutive` uses `IInv` for the ranges and the lemma
`NumberInHeader`, that the number field is the counter modulo 8. `AcksInHand`
adds that while a frame is answered `rx_seq_l` is what its number makes it
(`AckInv`), and that the low bits of a header are those of `rx_seq_l` even when
it is 8 (`AckInHeader`).

`LeafProofs` on the list: for any objects and any set of cells. `FifoLinking` and
`FifoNoLeak` are inductive only together with the type: a cell handed out must not
be in the list, and the cell freed must be the oldest. `FifoImplementsQueue` proves
that each call of `fifo.c` is one step of `Queue`, from `NULL` not being a cell or
an object (`NullAssumption`); with it the sequence in `Busmail` stands for the list.

`LeafProofs` on the checksums: for mails of any length and any bytes.
`UpdateCrcDivides` computes each bit of `UpdateCrc` as an exclusive or of bits of
the byte and of the register and compares it with the division taken eight times,
with one lemma for any number of steps (`DividedStep`). `Detection` needs the
invariant that just after the first damaged byte the two registers come from
different bytes and one register: the equations for the bits can be solved for the
byte and for the register (`LowHalf`, `HighHalf`), so one more byte cannot make them
equal, and equal bytes keep them apart for ever.

The second half of `FlashProofs`, on `FlashProgram`: for images of any length, any
contents of blocks and of the memory behind the image, and any failures and
losses. `ExitZeroMeansProgrammed`
and `CompleteAtChecksum` rest on what a message under way says about the flash
(`RequestInv`, `ConfirmInv`): when block k is requested after a successful
erasure, the first k blocks hold the image already. Skipped blocks keep this true
because they are 0xff in the image and, by `NothingMixed`, in the flash.
`SkipEnds` finds the end of the loop over them as the least element of a set of
numbers. `Lockstep` is part of the invariant because a second request under way
could program a block the first says nothing of. They rest on `ImageAssumption`
(images are not empty) and `BoundsAssumption`.

`AppProofs`: for any number of indications and of frames sent again. For
`RegistersStarted`, the packets on their way and those still queued are one
sequence in which `START_PROTOCOL_REQ` comes before every
`SET_REGISTRATION_MODE_REQ` as long as the protocol is not started (`InOrder`); a
send leaves the sequence as it is. `StartsOnce` counts: its bound is not inductive
by itself, because what is still to be sent is spread over the announcement not
yet seen, the version request, its confirm and the queue. Each step only trades
one of these for others of the same worth, and a frame sent again adds two
(`Worth` for packets sent, `Room` for those not yet taken). `EveryFrameAccounted`
is the safety half of `AllAnswered`: a frame is answered, in hand or on its way.

`NvsProofs`: for any number of restarts, other frames and frames sent again. The
confirms under way, the module and the requests under way are a ring of the
rounds of the sequence (`InRing`): whatever is lost or doubled, what comes later
in the ring is of the same round as what comes before it, or of the next. Of
`ExitsSettled` that leaves, when the last confirm is taken, only requests of the
last round under way; `Written` adds what a round leaves when it is `Done`: behind
the second the storage is no longer what it was, and behind the third it is set or
the module has refused to (`Stored`). `Lockstep` is the bound on `Outstanding`, which counts the announcement as
long as it has not been seen. Both rest on `Fresh` (no sequence before the
announcement) and on the counting lemmas of `BusmailProofs`. `PacketHeaders`
bounds `tx_seq_l` by what is still to come (`FewPackets`): a confirm or a request
is worth the rounds up to the third (`Worth`), each step trades one for others of
no greater worth, and a frame sent again adds three at most, so that with one such
frame no packet's number reaches 8.

`BootChainProofs`: for any values of an uninitialised `outcount` and any number of
meaningless bytes and damaged images. `NothingLost`, `NothingUnexpected` and
`NotAhead` say nothing of what is still to be done or under way, so none is
inductive. `BootInv` lists the places of the prog mode's course (`At`): what the
handler has still to do says which messages have been written and at what speed,
the line holds those the target has not taken, and a reply is received only when
the line is empty and the handler has returned. Where the changes of speed stand
between the messages (`Together`) then decides that none is on the line during one.
There is a place for each way out: a failed change of speed, a wrong checksum, a
byte sent unasked at the first event.

The theorems about `Nvs` and `App` rest on `DataAssumption`, that the modes'
requests are packets of the link layer, which their instances state as well.
TLC has checked the inductive invariants of the ring, `Inv` of the two framings
(with the tape and the positions as history variables), `AppInv`, `NvsInv` and `BootInv`
on the instances of the runs before they were proved (for `BootInv` with the two
positions of the pin as strings, since TLC compares no Boolean with a string).

Only model-checked:

* liveness, with it the fairness part of `MessageChannel`: out of the prover's
  reach, like `ENABLED`;
* `ImageChecksumIsCrc32`, a fold over the image: the statement for every length is
  an induction over data, which the provers cannot instantiate.

## Not modelled

* `MailDef.h`, `MRtxDef.h`, `dect.h`, the images and the build: types, constants
  and data.
* `util.c` and `error.c` but for `check_args` and the exit: they print.
* `packet_inspect`, `inspect_rx`, `buffer_find`, `send_start`: no caller.
* Failures of `read`, `write`, `malloc` and of the set-up in `main`; partial
  writes; reads longer than the ring; packets without payload.
* The exclusive-or and sum checksums of `boot.c`, `preloader.c` and `busmail.c` as
  algorithms: one loop each; where they matter they are values that agree or not.

## Plan

Done: every component with state, in the order ring, framings, link layer, modes,
flash programming, boot chain, queue, checksums.

Every invariant and action property of the passing runs is proved but
`ImageChecksumIsCrc32`, and so is the safety part of every refinement. What could
come next is a line that damages lengths: which packets are lost until the handler
is between two packets again, with a ring that gives up a packet it cannot hold.
