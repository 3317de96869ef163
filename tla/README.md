# A verification of UDFS, the BBC Micro's USB disk filing system

UDFS lets a BBC Micro use disk images that live on a PC. Three programs run at
the same time on three processors:

    BBC Micro (6502)             AVR on the cable            PC
    udfs_rom/udfs_rom.s          firmware/main.c             server/main.c
      filing system                doMessaging                 request loop
      send_msg        <-- user port -->   <-- USB bulk, IN/OUT -->  executeRequest

The filing system in the ROM turns every disk access into a *message*: six
bytes of header (channel, command, two parameters, a length), up to 65535
bytes of data, and a response of a status, a length and data. `send_msg` moves
a message over eight shared wires and two handshake lines, the firmware moves
it between the wires and two USB endpoints, and the server answers it.

This directory holds TLA+ models of that code, configurations that check them
with TLC, and proofs that TLAPS checks. `PROJECT.json` gives, for each
definition, the lines of the source it models.

## The system's parts

**The link, ROM side** (`send_msg`, udfs_rom.s:3737-3850; the same routine is
uptx_rom.s:158-231). *State*: the parameter block in zero page (channel ..
recv_addr), Y, the page counter, and the VIA's port B (`ddrb`, `drb`, CB2 as
output, CB1's flag). *Operations*: reset pulse, send block, send data, turn
round, receive status, length, data, drop. *Interaction*: polls the CB1 flag
without limit; only Break ends a wait. *Correct when*: the bytes are counted
alike on both sides, at every length; nothing is read before it is there.

**The firmware** (firmware/main.c, usbio.h). *State*: the 13-valued `state`,
the header bytes, `dataLength`, the port directions, the endpoint banks.
*Operations*: `doMessaging` called in a loop with `USB_USBTask`; a case of
`doMessaging` per state; `ackByte`, which also detects the reset pulse.
*Interaction*: waits on USB without polling CB2 or the control endpoint.
*Hard*: a reset in any state, a turn-round of shared lines, packets that do not
end where pages end. *Correct when*: it is in step with `send_msg`, never drives
the lines against it, moves every byte once and in order.

**The server** (server/main.c). *State*: the disk image in memory, one request
and one response. *Operations*: open the device, read header, read body,
execute, write header, write body, for ever. *Hard*: reads are retried after a
timeout, writes are not; every other error ends the program. *Correct when*: it
survives, and answers each request once.

**The filing system** (udfs_rom.s; Acorn DFS 0.90 as changed by MMBEEB, with
its storage routines replaced by `send_msg`). Its parts:

 - *catalogue* (606-660, 745-926, 1059-1288, 2790-2882): the two catalogue
   sectors at &0E00; search, create, delete, rename, access, wipe, destroy,
   title, option, compact. *State*: the entries, sorted by descending start
   sector, and the cycle number. *Correct when*: no two files overlap, none
   leaves the disk, an operation touches the file it names and no other.
 - *open files* (1336-1906): five channels of 32 bytes at &1100 and a sector
   buffer each. *Operations*: OSFIND, OSBGET, OSBPUT, OSARGS, close. *Correct
   when*: what is read is what was written, EXT and the allocation agree with
   the catalogue, a channel that is written is the only one on its file.
 - *OSFILE, OSGBPB and FSC* (2244-2556): whole-file and block calls built on the
   two above.
 - *copying* (2965-3169): COPY, BACKUP and COMPACT's move loop.
 - *disk table and mounting* (3540-3737, 4126-4504, 4779-5856): which image each
   drive holds, sector arithmetic, boot, the *DIN/*DCAT utilities, OSWORD &7F.
 - *service calls, workspace, tube* (1907-2149): claim and release of the
   absolute workspace, the vectors, the language processor.
 - *commands and printing*: parsing and formatting.

**The disassembler** (d6502/main.c). It made the first `udfs_rom.s`: it prints
the MMBEEB ROM as a source for the ACME assembler, with names from a table and
with regions marked as bytes or as text. *State*: the place in the image and,
within a text, whether a string is open. *Hard*: labels in the middle of a
region, the end of the last region, the width of an address. *Correct when*:
what it prints assembles to the image, byte for byte.

**The rest**: `uptx_rom` sends a message typed by the user; `xbm2bbc` converts
a picture; `desc.c` and `LUFAConfig.h` are tables; `mmbeeb/` is an archive of
the original.

The 6502 code is single-threaded and BBC interrupts do not enter it, so the
concurrency of the system is in the link; the filing system's hard cases are
sequences of legal calls, resources at their limit, and Break between a step
that has been written to the disk and one that has not.

At this commit `mmc_write_block` and `mmc_write_cat` are stubs that print a
letter (udfs_rom.s:3728-3737; README: "BBC cannot save data to disk images
yet"), so every change of a catalogue is lost at the next search.

## Modules

| Module | Models | 
|---|---|
| `Bytes` | bytes of `Base` values, words, the types of a request block and a response |
| `UserPort` | the cable: CB2, CB1, the two direction registers, what a read of the data lines can see |
| `SendMsg` | `send_msg`, one action per strobe and per acknowledged byte of each phase |
| `UsbPipes` | the IN and OUT banks and the flags usbio.h uses |
| `Bridge` | the firmware, one action per case of `doMessaging` and per wait inside a case |
| `Server` | the host program, one action per libusb call, with `executeRequest` as an operator |
| `UdfsLink` | the three together: `Next`, fairness, the properties |
| `Rpc` | what the link promises: call, reply, return, abandon |
| `UdfsLinkInv` | the inductive invariants, and the terms the theorems are on |
| `UdfsLink_proofs` | the theorems about the lines and the counting |
| `UdfsLinkData_proofs` | the theorems about the bytes and the call |
| `MCUdfsLink` | instances for TLC; that the terms hold of them is an `ASSUME` |
| `Catalogue` | the catalogue on the disk and the commands that change it, one action per command, and one per step of the commands that write more than once |
| `FileStore` | what those commands promise: named files with a body and a lock |
| `CatalogueProps` | the properties, the refinement mapping to `FileStore`, the inductive invariant |
| `Catalogue_proofs` | the theorems about the entries |
| `CatalogueStore_proofs` | the theorems about the data: the commands implement `FileStore` |
| `MCCatalogue` | instances for TLC |
| `OpenFiles` | the five channels: OSFIND, OSARGS, OSBGET, OSBPUT, one action per call, OSFILE's load, Break; the properties and the mapping to `ByteFiles` |
| `ByteFiles` | what the channels promise: files that are sequences of bytes, and handles on them: a pointer, the right to write, and being alone on the file |
| `OpenFiles_proofs` | the inductive invariant, and the theorems that follow from it |
| `OpenFilesRefinement_proofs` | that the channels implement `ByteFiles` |
| `MCOpenFiles` | an instance for TLC |
| `Opcodes` | the disassembler's table of mnemonics and addressing modes |
| `Acme` | the assembler that reads its output, a token at a time, and resolves the names in it |
| `D6502` | the walk over the image, one action per instruction and per byte of a region; the properties |
| `D6502_proofs` | the theorems |
| `MCD6502` | an instance for TLC |

`OpenFiles` has its own catalogue, reduced to what channels need: it and
`Catalogue` each take the other's commands as far as they meet, `Catalogue`
with channels that only read, `OpenFiles` with creation and deletion.

### How the state corresponds to the code

*Lines.* `cb2` is the level of CB2 with the reason it is low: "held" while
`send_msg` keeps pcr at &C0 (the reset pulse), "strobe" after a write to drb in
handshake mode, until CB1's edge. `cb1` is the VIA's interrupt flag. `Lines` is
what a read of the eight lines can return: the driver's byte, or any byte of
`Noise` when nobody drives or both do.

*The BBC.* `bbc` names the phase of `send_msg`; `waiting` is "in the poll of
ifr"; `y` and `pages` are Y and the page counter; `got` is what the call has
returned so far. `Strobe` is `sta drb`; `...Acked` is everything from the return
of `send_byte` to the next strobe, which includes the read of drb.

*The AVR.* `avr` is the program counter: "poll" in the main loop, "ack" in
ackByte's delay, "spin" in its loop on the reset pulse, and a point for each
wait for USB. `resume` is where ackByte returns to, because the code after it
runs also when ackByte has found a reset. `state`, `hdr` and `dataLength` are
the firmware's variables; `dataLength` is its two bytes and is decremented on
sixteen bits.

*The host.* `host` is the point in the loop. `hbody` is the part of `reqBuffer`
that this request has filled; what older requests left behind it is `junk`, an
arbitrary byte, and so is what lies behind the disk image.

*History.* `served`, `answer` and `breaks` are no part of the program.

*The catalogue.* `saved` is the catalogue in the disk's first two sectors: the
cycle number (&0F04) and the entries (&0E08 and &0F08 on), highest start sector
first. The copy at &0E00 is read again by every command (`mmc_load_cur_drv_cat`),
so it is state only inside a command; WIPE and DESTROY keep it there between
questions, and it is the field `ram` of their `job`. `job` is the command under
way between two steps at which Break can make a difference: SAVE between the
catalogue and the data, WIPE and DESTROY between two files, COMPACT between two
entries and (`move`) between two buffers. `sectors` holds, for each data sector,
which sector of which content was last written there. `channels` are the open
channels, each a copy of the entry as OSFIND made it.

Lengths are in sectors: get_next_block rounds the byte length up (&FF is added
to the low byte) before anything is compared, so a file that ends inside a sector
behaves as one that fills it. Sector numbers have ten bits in an entry
(`Field`), and the room in a gap is a sixteen-bit difference (`Wrap`). Load and
execution addresses and the title are not kept: no property is about them.
`writes` says whether `mmc_write_cat` and `mmc_write_block` reach the disk.

*The open files.* `chan[c]` is a channel's 32 bytes at &1100: `start`, `ptr`
(&1110-2), `ext` (&1114-6), `alloc` (&1119-A, in sectors), the two bits that
forbid writing (&110C and &110E), and the flags of &1117: `valid` (&80), `dirty`
(&40), `grown` (&20), `warned` (&10). `bufsec` is the sector in &111C-D and
`buf[c]` the page it was read into. A call is one step, since no other call can
begin before it ends; what is a step of its own is OSARGS's loop that fills a
file up with zeros (`job`), each turn of which is a whole OSBPUT. Where Break
between two disk writes of a call leaves a disk that Break before or after it
does not, there is an action for that: between the catalogue and the last sector
(`BreakInClose`), and between the catalogue and the byte that needed the
room (`BreakInPut`). `got` is what the call returns.

*The disassembler.* `index` and `map` are the fields of `struct Context`;
`pc` says in which of the three loops it is ("failed": loadFile found no file or
no memory), `inQuotes` is the variable of that
name. needComma is false exactly for the byte behind a label, so that it is not
kept. The bytes of the image are chosen as they are read; `image` collects them. The
length of the file (`fileLen`, main.c:961) and the bound of the loop (`Size`, the 0x4000
of 992) are two things: behind a short file come the zero that loadFile
adds (971) and then anything.

`symbols` is what loadSymbols fills in: a name, or none, for each address. A name is a pair:
`<<w, 0>>` is the symbol w, `<<w, k>>` the sum "w+k" that the table has for the bytes behind
one, and `Forward` and `Backward` are ACME's anonymous labels "+" and "-", which loadSymbols
gives to many addresses. The disassembler only ever prints names; what they
stand for is decided in `acme`, the assembler at the other end. Every printf is one or
several of its tokens, and it stops at a token that does not fit. It gives a
symbol the value of the place where it meets its label, or of the definition
dumpSymbols printed (which leaves names with a "+" out); it counts the anonymous
labels, and takes "+" for the next one and "-" for the last; an operand's name stays a
name in its output until the whole source has been read, and then each is put in or
complained of. Formatting is otherwise left out.

Two expressions mean what the compiler makes of them, and `build` has both
meanings: the order in which the two bytes of an address are
fetched (690, 710, 720, 730), and the sign of the `char` a branch's distance is put in (779).
`overhang` says how many bytes in the memory behind `map` look like its last
region, which the loops of that region read (803, 823). loadSymbols sets the
constant member orgAddr through a cast (473), which the language leaves open;
the model takes the 0x8000 that it asks for (`Org`).

`snags` is history: what was in the image or the build that this way of printing
cannot express, namely

 - "label among bytes": the new line has no `!byte` (806);
 - "quote": a quote mark in a text ends the string early (818, 836);
 - "sum": a place with a label is named by a sum, which cannot be defined;
 - "opcode": one outside the table, or one of the 65C02 that ACME's 6502 lacks;
 - "label inside": a name for a place inside an instruction, which is never defined;
 - "anonymous": the place an operand names is not the nearest of its kind in
   that direction;
 - "short name": a name below 256 where the opcode has a two-byte address and a
   one-byte form besides: ACME takes the one-byte form;
 - "order": the build fetches the high byte first, and the two differ;
 - "sign": the build has an unsigned `char`, and the branch goes back;
 - "wrap": a branch round the end of the address space.

Each is needed: without it TLC finds `Reassembles` or `LabelsInPlace` violated.
`mmbeeb/SUPERMMC.rom` with the tables of `loadSymbols` and `initMap`, built with
the usual order and a signed `char`, has none of them.

### Timing

Four facts of the real system are matters of cycles, and each is a named
predicate in `UdfsLink`:

 - `PulseMayEnd`: the reset pulse is eight nops long. With `Prompt = TRUE` it is
   long enough for the AVR's loop to come round and read CB2 twice, unless the
   AVR is in a wait for USB. `Prompt = FALSE` drops this: an interrupt of
   the AVR may then outlast the pulse.
 - `StrobeMayFollow`: between the acknowledging edge and the BBC's next strobe
   lie more instructions than ackByte's 4 us with interrupts off.
 - `Collecting`: usbBulkWrite's 5 s and 60 s do not pass while the BBC and the
   AVR are in the half of a call that collects the response.
 - `OpenFails`: usbOpenDevice fails when the AVR is in a wait for USB, because
   `USB_USBTask` is not called from there.

## What the runs check

All with `Base = 4` and `EpSize = 8`: a page is four bytes and a packet two
pages, so transfers of 0, 1, 4, 8 and 9 bytes are nothing, part of a page, a
page, exactly a packet, and a packet and a byte. A page boundary, a packet
boundary, their coincidence, and both just missed all occur; nothing in the code
distinguishes more. The hardware's values are 256 and 64.

| Run | Properties | Shows |
|---|---|---|
| `link_clean` | `RequestIntact`, `InStep`, `ServerSurvives`, `ImplementsRpc`, `CallsReturn` | Without Break, every request of every length reaches the server as it was made, its response returns unchanged, and every call returns. |
| `link_break` | `NoContention`, `InStep`, `ImplementsRpc`, `CallsReturn` | Break is pressed twice while the firmware is in a state its reset recovers from (`Recoverable`): the lines are never fought over, the next call is in step and gets its own response. |
| `link_rough` | `TypeOK`, `CounterNeverWraps` | Break in any state, the server started late, a division by zero in the server: the banks are not overrun and the counter does not wrap. Deadlock is not checked here: an abandoned response or a dead server really stops the system. |
| `break_turn` | `NoContention` (violated) | Break in SEND_PREP. |
| `break_answer` | `ResponseIsToThisRequest` (violated) | Break while the response is coming. |
| `late_server` | `ServerSurvives` (violated) | A call before the server has opened the device. |

For the link, `MaxBreaks` is 2 because a second reset may come while the first is still being
recovered from; a third meets no new state, since `Break` forgets everything
but the firmware's and the host's state, which two presses already combine.
`Requests` has one request of each command with lengths around the boundaries
(`link_clean`), or one of each shape (the runs with Break).

`Calls!Spec` (module `Rpc`) is checked under the mapping `phase`, `result` of
`UdfsLink`: `served` separates a call that was executed from one that was not,
so a request executed twice, a response given to another call, or a result
that is changed on the way is not a step of `Rpc`.

The catalogue:

| Run | Properties | Shows |
|---|---|---|
| `catalogue` | `CatalogueSound`, `FilesOnDisk`, `ImplementsStore`, `CommandsDoAsTold`, `SaveReadsBack`, `CompactPacks` | Every sequence of commands, on a disk that stores, with a Break at any step. |
| `open_reads` | `TypeOK`, `OnlyCompactMovesOpenFiles`, `CommandEnds` | A channel open for input, images that come with files, both the storing back end and the stubs, SAVEs larger than the disk. |
| `oversize` | `FilesOnDisk` (violated) | A first file larger than the disk. |

*Bounds.* The disk of `catalogue` has three data sectors and room for three
entries, and there are four names and two contents: a hole can lie above, between
and below files, three files can fill the disk, a fourth meets "Catalogue
full" or "Disk full", and lengths 0 to 2 are an empty file, a file that fits
every hole and one that does not. `Buffer` is 1, so a move of two sectors takes two steps
and may overlap its own source. `Cycles` is 1 in `catalogue`, where no property
reads the cycle number, and 2 where WIPE's comparison matters. Names and contents are only
compared for equality, so `MCSymmetry` is sound in the runs without liveness
properties; `open_reads`, which has one, does not use it. `open_reads` has two
entries, and lengths 0, 2 and 4: the last is one sector more than the disk and
than a transfer can carry (`BlockLimit` 2; the real limit is 255 sectors of a disk of 800).

`FS!Spec` (module `FileStore`) is checked under the mapping `store`, `writing`,
`moving` of `CatalogueProps`. The mapped body of a file is what its sectors hold,
so a command that lets another file's sectors be overwritten, moves a file
without its data, or loses a locked file is not a step of `FileStore`. While COMPACT
moves a file, its body is read from the new place as far as it has
arrived: that this is always the old body is what the order of the chunks
guarantees. Only a Break in the move, or between the two writes of SAVE, may
spoil a file, and only that one. `FileStore` alone would let DELETE remove
another unlocked file than the one it was given; `CommandsDoAsTold` ties each
command's arguments to those of the step of `FileStore` it is.

The open files:

| Run | Properties | Shows |
|---|---|---|
| `open_files` | `TypeOK`, `ChannelsApart`, `OneWriter`, `BufferFits`, `ImplementsByteFiles` | Any mixture of calls on two channels, with deletion, creation, flushes, loss of the workspace and Break, behaves as files of bytes. |
| `ptr_pad` | `SeekKeepsBytes` (violated) | PTR# set beyond the end from a place before the end. |

*Bounds.* A sector has two bytes and the disk two data sectors, there are two channels
and two names: a file of three bytes ends inside a sector, a new file (`NewSize`
1 sector; the ROM asks for 64) grows into the sector above it or finds it taken by the other file
("Can't extend"), both channels are needed for two readers, or a file and its
neighbour. PTR# is set to 0 and to 3: back to the first sector, and past the
end, with one to three bytes to fill up. A locked file of one sector fills its sector: PTR# at
its end is then behind its last sector. One byte value besides the zeros is enough
because no guard looks at a byte. For the same reason `MCView` may leave out the
result of the last call, which nothing reads, and the bytes behind the end of a
file. These come to light in two ways: a write puts them there first, or
Break leaves a catalogue whose length runs ahead of the data (`BreakInPut`), and then
`ByteFiles` allows any bytes. Every step is still checked. Names and
channels are only compared, so the symmetry is sound; there is no liveness. The run has
356310 distinct states.

*What programs must do.* `PadsAtEnd` says that a program that sets PTR# beyond the
end of a file it writes has first set it to the end; `ptr_pad` is what happens
otherwise. `MakesRoom` says that no file is made while another has been flushed
(OSARGS &FF, or another filing system was selected) and may still grow: a
flush writes the length into the catalogue and leaves the channel its sectors,
and `createfile_2` gives those behind the length to the new file. With
`MakesRoom = FALSE` TLC finds `ChannelsApart` violated. `RoomAssumption` says that a new file
fits an empty disk, where `createfile_2` does not ask.

`Bytes!Spec` (module `ByteFiles`) is checked under the mapping in
`OpenFiles`: a file's bytes (`Content`) are those on the disk, with its writer's dirty buffer laid over them and
its writer's length; a channel is a `Handle`, and a fill under way a `Seek`. A byte lost between buffer and disk, a sector read from
another file, a stale buffer used again, a write to a locked file, or a Break that spoils a file
that nobody writes is not a step of `ByteFiles`.

The disassembler:

| Run | Properties | Shows |
|---|---|---|
| `d6502` | `TypeOK`, `NoOverrun`, `Reassembles`, `LabelsInPlace`, `Terminates` | An image of four bytes with every layout of regions, every opcode in front and one of each mode behind, symbols, sums and anonymous labels at its places, a file that is complete or a byte short, nothing or a byte behind the map that looks like its last region, and both builds. |

*Bounds.* Four bytes hold a three-byte instruction in front of a region, two instructions in
front of one, and regions of one to four bytes next to each other.
`OperandBytes` and `DataBytes` give a printable byte, a quote mark and a
control code in texts, and operands that are or are not names, in zero page and
above, and branches forwards and backwards. `MCSymbols` has a symbol and a sum in zero page, a
symbol below the image that a branch reaches, one above it, and in it either a symbol at any place or two
anonymous labels of a kind, so that the wrong one of two is within reach. Every layout ends in a
region of two bytes, as `initMap`'s does (text from &3A3B on). The run has about two million states.

*Fairness.* `FairSpec` has weak fairness of the BBC's steps inside a call, of the AVR's
and of the server's: all three are loops that never stop by themselves, and an
enabled wait stays enabled until its step is taken. Nobody is obliged to make a
call, to press Break or to start the server. The catalogue's `Spec` has weak
fairness of `JobStep`: the commands are loops of one processor, and the only
thing they wait for is the user's answer to WIPE, which `CommandEnds` supposes
to come. The disassembler is one sequential program with weak fairness of its
next step. `OpenFiles` has none: a call is a step, and nobody must make one.

## What the runs found

1. **`break_turn`.** After Break, the next reset pulse can find the firmware in
   SEND_PREP. ackByte then waits for the end of the pulse and returns to
   SEND_PREP's `DDRD = 0xFF` (main.c:290), and the AVR drives the lines while
   `send_msg`, which begins to drive at the end of the pulse, sends its header.
   The comment in line 289 says the opposite.
2. **`break_answer`.** ackByte's reset path does not empty the OUT bank: after
   Break the next call takes the rest of the old response for its own. The
   firmware stays wrong by that packet, and the server exits when it cannot
   write.
3. **`late_server`.** While `doMessaging` waits for a packet, `USB_USBTask` is not
   called: a call made before the server runs keeps the device from being
   configured at all, so the server cannot start until the AVR is reset.
4. **`oversize`.** `createfile_2` asks for no room when the catalogue is empty
   (udfs_rom.s:1166): a first file larger than the disk is entered and the
   catalogue saved, and only the transfer afterwards reports "Block too big" or
   "Disk overflow". The entry stays, past the end of the disk; with a start of 2
   and such a length the sixteen-bit room of the gap above it is computed
   from a negative number, and the search takes it for a large gap.
5. **`ptr_pad`.** PTR# beyond the end of a file first moves PTR to EXT
   (`mmc_set_ptr_to_ext`, the fix of DFS 0.90's "PTR# bug" announced in
   mmbeeb/DUTILS.pdf) but keeps the flag that says that the buffer is PTR's
   sector. If it was an earlier sector, the zeros go into that buffer and
   are saved over bytes of the file.

## What is proved: the link

`UdfsLink_proofs` proves, for every `Base >= 4`, `EpSize >= 6`, every set of
requests and every image:

| Theorem | Statement |
|---|---|
| `TypeCorrect` | `Spec => []TypeOK`, with no assumption on Break or on timing |
| `CounterSafe` | `Spec => []CounterNeverWraps`, likewise |
| `NoContentionSafe` | `Spec => []NoContention` if `Prompt` and `BreakAt \subseteq Recoverable` |
| `InStepSafe` | `Spec => []InStep` on the same terms |

*Types.* `TypeOK` is not inductive: that a byte is fetched from inside the
request needs the ranges of `y` and `pages` in each phase (`LoopInv`). `TypeInv`
is both.

*The counter.* `CounterInv` adds where the AVR can be in each state, in
particular after a reset that was noticed in the middle of a case.

*Lock-step.* `LockStep` is the conjunction of six named parts: when CB2 is low
(`LineInv`), who drives the lines (`DriveInv`), where the firmware is between
calls (`BetweenInv`), which state goes with which byte before and after its
acknowledgement (`StateInv`), where the AVR's program counter can be
(`PointInv`), and that the firmware's 16-bit counter equals what is left by the
BBC's page and byte counters (`CountInv`). The last is the heart of it: two loops
written in two languages count the same bytes. It is preserved by every step,
one lemma per actor, and implies both theorems.

`UdfsLinkData_proofs` goes on from the lock-step to the bytes themselves:

| Theorem | Statement |
|---|---|
| `FlowInvariant` | `Spec => []FlowInv`, where `FlowInv` is the lock-step with `DataInv` |
| `RequestsArrive` | `Spec => []RequestIntact` |
| `ServerLives` | `Spec => []ServerSurvives` |
| `AnswersTheCaller` | `Spec => []ResponseIsToThisRequest` |
| `LinkIsRpc` | `Spec => ImplementsRpc`: the cable, the AVR, the endpoints and the server are a remote call |

*Their terms*, besides those above: `ServerFirst`, the server has the device
before the first call (`late_server` is what happens otherwise; the README of the
repository starts it first); `NoTraps`, no request makes the server divide by
zero, which depends on the disk it has loaded; `NothingStale`, no answer depends on
what older requests left in `reqBuffer` or lies behind the image, true when requests carry the data
their command reads. `MCUdfsLink` has TLC evaluate the last two for the instances it
checks. `AnswersTheCaller` is the property that `break_answer` violates: what makes
the difference is `BreakAt \subseteq Recoverable`, and nothing else.

*The invariant.* `DataInv` has five parts. `HeaderInv`: the firmware's `hdr` is the
block as far as it has been sent, and the request has not been executed. `QuietInv`:
while no data is on its way both banks are empty and the host waits for a
header. `ForwardInv`: the request is in one of three stages, its header in the bank, its
data coming, or complete; while it comes, what the host has read and behind it what
is in the bank are the first `Moved` bytes of the request, and the bank is handed over exactly
when it is full or the last byte is in it (the condition that lets a packet end in the middle of a page).
`AnswerInv` says the same backwards: what is in the bank, and behind it what the
host has yet to write, are the last `Rest` bytes of the answer. `ReturnInv`: what
`send_msg` has stored so far is the beginning of that answer, and the answer
is the one to the request it sent. The three counts (the BBC's, the AVR's and libusb's)
are tied by `CountInv`, `Moved` and `Rest`.

*The argument.* One lemma per action shows that it preserves `DataInv`, for
the BBC's, the AVR's and the host's actions separately; Break is harmless because
`Recoverable` states are `Quiet`. Then each action is a step or a stutter of `Rpc`: only
the host's `executeRequest` is `Rpc`'s reply, and only the return from `send_msg` its return.

A thing the proof brought out: Break in FINISH, in the middle of ackByte, makes the
AVR skip the acknowledgement of the last OUT packet, so that an
empty packet stays in the bank after the call. It does no harm, since the wait for the next response
(SEND_RETCODE's loop) takes an empty packet away; `QuietInv` therefore
promises an empty bank, not an acknowledged one.

*Only model-checked.* `CallsReturn`, which is liveness and out of the prover's reach.

## What is proved: the catalogue

`Catalogue_proofs` proves, for every disk, number of entries, buffer, set of names
and both back ends, under the assumption `Fits`:

| Theorem | Statement |
|---|---|
| `InvariantHolds` | `Spec => []CatalogueInv` |
| `TypeCorrect` | `Spec => []TypeOK` |
| `CatalogueStaysSound` | `Spec => []CatalogueSound` |
| `FilesStayOnDisk` | `Spec => []FilesOnDisk` |
| `OpenFilesStay` | `Spec => OnlyCompactMovesOpenFiles` |

`Fits` says that no SAVE is longer than an empty disk. It is exactly what the code
fails to ask (`oversize`); without it the theorems are false.

*The invariant.* That extents are disjoint is not inductive by itself.
`CatalogueInv` adds three things. `EmptyAtBottom`: an empty file always starts at
the first sector, because the search prefers the lowest gap and every gap has
room for nothing; without it COMPACT, which passes empty files over, would
leave an entry out of order. `PackedTo`: what COMPACT has passed lies below the
sector it has reached, and what it has not looked at lies above, so a moved file
lands in order. `JobSound`: the copy DESTROY works on is a good catalogue and still
has every open file, so saving it is as good as having deleted file by file; the
one WIPE works on is no longer than the one on the disk.

*The argument.* Lemmas on sequences say what removing, inserting, renaming and
restarting one entry do to the order, the names and the bounds (`GoodRemove`,
`GoodInsert` and their like); the gap arithmetic is a lemma of its own, `SlotFacts`, in which
the sixteen-bit room is shown to be the true difference and never a wrapped one.
Then one lemma per command shows that it preserves the invariant.

`CatalogueStore_proofs` follows the data through the sectors:

| Theorem | Statement |
|---|---|
| `StoreInvariant` | `Spec => []StoreInv` |
| `CommandsAreAStore` | `Spec => ImplementsStore` |
| `CommandsTouchWhatTheyName` | `Spec => CommandsDoAsTold` |
| `SavedReadsBack` | `Spec => SaveReadsBack` |
| `CompactedIsPacked` | `Spec => CompactPacks` |

*Their terms* are `Fits` and `Backends \subseteq {TRUE}`: the disk stores what is
written. With the stubs of this commit a SAVE that reports success has changed
nothing, and `SaveReadsBack` is false; they speak of the ROM
with the back end it is written for, as the run `catalogue` does.

*The invariant.* `StoreInv` adds `JobAgrees` to `CatalogueInv`, which says nothing of data: SAVE's entry is in
the catalogue before its data are on the disk; WIPE's copy is the catalogue;
every entry of DESTROY's copy is on the disk, and every file of the disk that is locked or
was not asked for is still in the copy, so that saving it removes none of these although DESTROY
saves only at the end;
a move goes down, stays on the disk and has something left to do; and what COMPACT
has passed lies side by side (`PackedAbove`).

*The argument.* `View` says without CHOOSE what the mapped store is. `Carried` says that one
catalogue has the entries of another but for some names, and `KeepFiles` turns it into `FileStore`'s
`KeepAllBut`. `OwnSectors` says that no sector of a file is another's, which is why SAVE's
transfer and COMPACT's chunks spoil nothing. `MoveBodies` is the heart of it: the buffers of
a move overlap their own source, and that the file reads the same after each rests on
its going down and on the order of the chunks, for every size of buffer. One lemma per command then names the
step of `FileStore` it is. "Disk overflow" is shown never to
come during a move.

*Only model-checked.* `CommandEnds`, which is liveness.

## What is proved: the open files

For a disk and sectors of any size, any number of channels, any names, bytes and
catalogues to start from:

| Theorem | Statement | Terms |
|---|---|---|
| `FilesInvariant` | `Spec => []FilesInv` | `MakesRoom` |
| `TypeCorrect` | `Spec => []TypeOK` | `MakesRoom` |
| `ChannelsStayApart` | `Spec => []ChannelsApart` | `MakesRoom` |
| `OneWriterOnly` | `Spec => []OneWriter` | `MakesRoom` |
| `BuffersFit` | `Spec => []BufferFits` | `MakesRoom`, `PadsAtEnd` |
| `FilesOfBytes` | `Spec => ImplementsByteFiles` | `MakesRoom`, `PadsAtEnd` |
| `SeekKeeps` | `Spec => SeekKeepsBytes` | `MakesRoom`, `PadsAtEnd` |

*The terms* are the two things the code leaves to programs (see the runs). Neither
can be dropped: without `MakesRoom` TLC finds two files in one sector, and
`ptr_pad` is `SeekKeepsBytes` without `PadsAtEnd`. `SeekKeeps` says that the
order of the two PTR#s is all there is to it.

*The invariant.* `FilesInv` adds four things to `TypeOK`, none of which the properties
state. Each channel is `Matches`ed by an entry of the catalogue: same name, start and lock, no
fewer sectors held than the entry's length has, none of them the next
file's, and the same length unless `grown` says that the catalogue is behind; a
channel that does not write has exactly the entry's sectors. A
channel's pointer and length fit the sectors held (`PointersFit`), and its
buffer, if it counts, is one of them (`BufferKept`), the pointer's own where programs pad at
the end. `Exclusive`: two channels on one file are both for input. `BuffersCurrent`: a
buffer that is not dirty is as its sector on the disk, so it may be forgotten. `JobInv`:
a file is filled up at its end. The order of the sectors a growing channel holds
and of those the catalogue gives to new files is the delicate part:
`Above` is what both are measured against.

*The argument.* Lemmas about the catalogue (`Listed` after an entry is
inserted, removed or lengthened) and about one channel's change, then one lemma per call.
For the refinement, `View` says without CHOOSE what the mapped files are, and one
lemma per call names the step of `ByteFiles` it is: OSBGET a read, OSBPUT an append or an
overwrite of one byte, a flush or a reread nothing at all, each turn of the fill an appended zero.

*What the attempt found.* The first statement of the refinement was false: OSFIND
for update on a locked file gives a channel that reads, and the handle of `ByteFiles` had
no place for that. `ByteFiles` now distinguishes being alone on a file from
being allowed to write, a locked file is never written in it, `ChannelsApart`
speaks of the sectors of every channel, and the instance has a locked file that fills its
sector.

*Only model-checked.* Nothing: `OpenFiles` has no liveness.

## What is proved: the disassembler

`D6502_proofs` proves, for an image and a file of any size, any marking of the
regions, any bytes, any names within the assumptions below and every build:

| Theorem | Statement |
|---|---|
| `TypeCorrect` | `Spec => []TypeOK` |
| `NeverOverruns` | `Spec => []NoOverrun`, whatever follows `map` in memory |
| `SourceReassembles` | `Spec => []Reassembles` |
| `LabelsStayInPlace` | `Spec => []LabelsInPlace` |

*Assumptions.* The map ends in a region of at least two bytes
(`LastRegionAssumption`); a symbol is given to one address, a sum lies below the ROM and that far above its
symbol, anonymous labels lie in the ROM and the ROM's names in the image
(`SymbolAssumption`); no word is "+" or "-"; and `OpcodesDiffer`: two opcodes
of the 6502 never print alike. The last speaks of 256 constants, and TLC
evaluates it; all hold of the tables in main.c. Both properties are about images
with no snags.

*The invariant.* That a source assembles when it has been read says nothing of the middle
of a line. `WalkInv` adds `Agrees`: in every state without snags the assembler is `Good`, that is, at
the place of a line which the walk takes it to be (`Place`), inside a string exactly when
`inQuotes` is set, with an item of output for each byte read. `ItemFits` says
what each item will come to: a byte is the image's; a name `Means` the address the
image has there, although ACME may not know it yet. A symbol means its address by the table; an
anonymous name does so if its label has been met and is there (`Known`) or if it
is the next "+" and no nearer one lies ahead (`Coming`). `LabelsFit` says that what is defined is
in place, that nothing passed is missing, and that the last "-" is the nearest.

*The argument.* `Keeps` is what the labels of a later state leave true of
earlier items: defining a label turns `Coming` into `Known` for the names that wait for it and
disturbs no other (`AddsFact`, `SkipFact`). A lemma for each token says where it
takes the assembler (`Becomes`); `TextFact` puts them together for the ways a byte of text can
follow another; `InstructionFact`, `ReferenceFact` and `BranchFact` show that the width ACME
chooses is the one the opcode has, and that a branch's target gives its
operand back. Then one lemma per action, and `ItemExpressed` for the end, when
`Coming` cannot be and every name has its value.

*Only model-checked.* `Terminates`, which is liveness.

## Not modelled

The USB bus and enumeration, LUFA's interrupts, libusb's internals, the serial
debug output, electrical levels. A pulse of the reset that falls into one of the firmware's waits
for USB is missed; the properties of calls after Break are about `Recoverable` states, where there is
none. An interrupt of the AVR between its read of
the data lines and `cli()` is not a step: it can only make the AVR miss the pulse
(`Prompt = FALSE`). Files that are missing on the host, but for d6502's.

Of the filing system: COMPACT or another disk under an open channel (a close then
reports "Disk changed"), EXEC and SPOOL files, OSGBPB (its calls 1-4 are loops of
OSBGET and OSBPUT), COPY and BACKUP, drives and their disk table, service
calls other than Break and the return of the workspace, the command parser and
wildcards (a set of names stands for an ambiguous one). A disk that
is locked refuses every save before anything has changed, and is not
distinguished. SAVE's file and `*TITLE`'s text come from outside.

Of the tools: the tables of `loadSymbols` and `initMap`, which are parameters of
`D6502`, and the comment with the address it prints behind every instruction;
`xbm2bbc`, a single loop without a decision over a picture compiled
into it; the descriptors and configuration of the firmware, which are constants of
the USB library.

## Keeping the proofs

Every leaf is proved within a fifth of the provers' usual time
(`tlapm --cleanfp --stretch 0.2`), so that a slower machine proves them too. What makes
a leaf slow here is a function-valued definition unfolded under a prime
or a long literal interval; for these there are opaque names with a lemma
about what they hold: `Inserted`, `Repointed`, `Stored`, `MovedBody`, `AddressIs`. A leaf
that cites `Zenon` is one the SMT solver would first spend its time on.

## Plan

In this order; each stage adds its module, an MC module, runs, mutants and
theorems.

1. *Link* (done): `Bytes`, `UserPort`, `SendMsg`, `UsbPipes`, `Bridge`, `Server`,
   `UdfsLink`, `Rpc`.
2. *Catalogue* (done): `Catalogue`, `FileStore`, `CatalogueProps`,
   `Catalogue_proofs`, `CatalogueStore_proofs`.
3. *Open files* (done): `OpenFiles`, `ByteFiles`, `OpenFiles_proofs`,
   `OpenFilesRefinement_proofs`.
4. *d6502* (done): `Opcodes`, `Acme`, `D6502`, `D6502_proofs`.
5. *The link's data* (done): `UdfsLinkData_proofs`.
6. *OSGBPB and copying* over the open files and the catalogue.
7. *Disk table*: drives, boot, mount and eject, sector arithmetic on 24 bits against
   a reference definition; the BCD conversion.
8. *Service calls and workspace*: claim and release of the absolute workspace
   with files open.

Bounds foreseen: two drives and three images. All safety properties and
refinements the runs check are proved; theorems foreseen are those of stages 6 to 8: that
COPY carries a file's bytes over, and that the sector arithmetic is division.
