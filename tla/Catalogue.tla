----------------------------- MODULE Catalogue -----------------------------
(***************************************************************************)
(* The catalogue of the ROM's disk filing system and the commands that     *)
(* change it: SAVE, DELETE, RENAME, ACCESS, WIPE, DESTROY, TITLE, *OPT 4,  *)
(* OSFILE and COMPACT. A file is a run of sectors; the catalogue lists the *)
(* runs highest first. Lengths are in sectors: the ROM compares bytes, but *)
(* a length fits a gap exactly when its sectors do.                        *)
(*                                                                         *)
(* Every command starts by loading the catalogue from the disk, so the     *)
(* copy at $0E00 is state only while a command is under way: it is then    *)
(* the ram of the job. Disk writes are the ROM's mmc_write_cat and         *)
(* mmc_write_block, which in this version print a letter and do nothing    *)
(* (writes = FALSE); writes = TRUE is a back end that stores, for which    *)
(* the rest of the ROM is written.                                         *)
(***************************************************************************)
EXTENDS Naturals, FiniteSets, SequencesExt

CONSTANTS
  Names,      \* file names, with directory
  Contents,   \* what a file may be saved from
  Lengths,    \* lengths SAVE is asked for, in sectors
  DiskSize,   \* sectors of the disk, from the catalogue ($0F06-7)
  MediaSize,  \* sectors the back end can address ($320)
  BlockLimit, \* most sectors one block transfer can carry (255)
  MaxFiles,   \* entries the catalogue has room for (31)
  Buffer,     \* sectors of memory COMPACT moves at a time
  Cycles,     \* values of the catalogue's cycle number (100)
  Channels,   \* channels for open files (5)
  Images,     \* catalogues the host's disk image may come with
  Backends,   \* whether disk writes reach the disk: FALSE, TRUE or both
  MaxBreaks   \* bound on presses of Break

FirstSector == 2   \* sectors 0 and 1 are the catalogue itself
Wrap == 65536      \* sector counts are compared in 16 bits
Field == 1024      \* and kept in the catalogue in 10

ASSUME SizeAssumption ==
  /\ DiskSize \in Nat /\ MediaSize \in Nat
  /\ FirstSector <= DiskSize /\ DiskSize <= MediaSize /\ MediaSize < Field
ASSUME LimitAssumption ==
  /\ Lengths \subseteq 0 .. Field - 1 /\ BlockLimit \in Nat /\ MaxBreaks \in Nat
  /\ MaxFiles \in Nat \ {0} /\ Buffer \in Nat \ {0} /\ Cycles \in Nat \ {0}
ASSUME BackendAssumption == Backends \subseteq BOOLEAN

Entry == [name: Names, start: 0 .. Field - 1, len: 0 .. Field - 1,
          locked: BOOLEAN]
End(f) == f.start + f.len

Descending(files) ==
  \A j, k \in DOMAIN files : j < k => End(files[k]) <= files[j].start

Distinct(files) ==
  \A j, k \in DOMAIN files : files[j].name = files[k].name => j = k

OnDisk(files) ==
  \A k \in DOMAIN files :
    FirstSector <= files[k].start /\ End(files[k]) <= DiskSize

EmptyAtBottom(files) ==
  \A k \in DOMAIN files : files[k].len = 0 => files[k].start = FirstSector

Good(files) ==
  /\ files \in Seq(Entry) /\ Len(files) <= MaxFiles
  /\ Descending(files) /\ Distinct(files)
  /\ OnDisk(files) /\ EmptyAtBottom(files)

(* The ROM's own SAVE puts an empty file in the lowest gap.                 *)
ASSUME ImageAssumption == \A files \in Images : Good(files)

VARIABLES
  sectors,   \* the disk's data sectors
  saved,     \* the catalogue on the disk: its cycle number and entries
  job,       \* the command under way between two of its steps
  channels,  \* the entries copied into the open channels (for input)
  writes,    \* disk writes reach the disk; never changes
  report,    \* how the last command that took more than one step ended
  breaks     \* how often Break has been pressed

vars == <<sectors, saved, job, channels, writes, report, breaks>>
-----------------------------------------------------------------------------
Idle == [op |-> "idle"]
Blank == <<>>

Extent(f) == f.start .. End(f) - 1
Found(files, S) == {k \in DOMAIN files : files[k].name \in S}
IsOpen(n) == \E c \in DOMAIN channels : channels[c].name = n

Init ==
  /\ sectors = [s \in FirstSector .. MediaSize - 1 |-> Blank]
  /\ \E files \in Images : saved = [cycle |-> 0, files |-> files]
  /\ job = Idle
  /\ channels = <<>>
  /\ writes \in Backends
  /\ report = "ok"
  /\ breaks = 0

Bump(c, files) == [cycle |-> (c.cycle + 1) % Cycles, files |-> files]

PutCat(c) == saved' = IF writes THEN c ELSE saved

PutSectors(image) ==
  sectors' = IF writes THEN [s \in DOMAIN sectors |->
                               IF s \in DOMAIN image THEN image[s] ELSE sectors[s]]
                       ELSE sectors

(* An error message and nothing else: what was changed in memory only goes  *)
(* with the next load of the catalogue.                                     *)
Refuse(message) == UNCHANGED <<sectors, saved, job, channels, report>>

Abort(why) ==
  /\ job' = Idle
  /\ report' = why
  /\ UNCHANGED <<sectors, saved, channels>>

Commit(files) ==
  /\ job' = Idle
  /\ PutCat(Bump(saved, files))
  /\ report' = "ok"
  /\ UNCHANGED <<sectors, channels>>
-----------------------------------------------------------------------------
(* Gap y lies above entry y + 1 and below entry y; gap 0 ends at the disk's *)
(* end, the last one starts after the catalogue.                            *)
(* Mutant: the last, partly filled sector of a file is not counted.         *)
GapStartUnrounded(files, y) ==
  IF y = Len(files) THEN FirstSector
  ELSE IF files[y + 1].len = 0 THEN End(files[y + 1]) ELSE End(files[y + 1]) - 1

GapStart(files, y) ==
  IF y = Len(files) THEN FirstSector ELSE End(files[y + 1])
GapEnd(files, y) == IF y = 0 THEN DiskSize ELSE files[y].start
Room(files, y) == (GapEnd(files, y) + Wrap - GapStart(files, y)) % Wrap

(* Mutant: the comparison lets one sector too many through.                 *)
SlotsOffByOne(files, len) ==
  IF files = <<>> THEN {0}
  ELSE {y \in 0 .. Len(files) : Room(files, y) + 1 >= len}

(* An empty catalogue is not asked for room.                                *)
Slots(files, len) ==
  IF files = <<>> THEN {0}
  ELSE {y \in 0 .. Len(files) : Room(files, y) >= len}

CreateFile(files, n, len, d) ==
  \/ Len(files) >= MaxFiles /\ Refuse("Catalogue full")
  \/ /\ Len(files) < MaxFiles
     /\ Refuse("Disk full")
     /\ Slots(files, len) = {}
  \/ /\ Len(files) < MaxFiles
     /\ report' = "busy"
     /\ \E y \in Slots(files, len) :
          /\ \A z \in Slots(files, len) : z <= y
          /\ LET new == [name |-> n, start |-> GapStart(files, y) % Field,
                         len |-> len, locked |-> FALSE]
             IN  /\ job' = [op |-> "save", file |-> new, data |-> d]
                 /\ PutCat(Bump(saved, InsertAt(files, y + 1, new)))
     /\ UNCHANGED <<sectors, channels>>

(* A file of that name is deleted first, in memory.                         *)
Save(n, len, d) ==
  \/ Found(saved.files, {n}) = {} /\ CreateFile(saved.files, n, len, d)
  \/ \E k \in Found(saved.files, {n}) :
       \/ saved.files[k].locked /\ Refuse("locked")
       \/ ~saved.files[k].locked /\ IsOpen(n) /\ Refuse("open")
       \/ /\ ~saved.files[k].locked /\ ~IsOpen(n)
          /\ CreateFile(RemoveAt(saved.files, k), n, len, d)

(* Mutant: the sector count of the transfer is not rounded up.              *)
WriteDataUnrounded ==
  /\ job.op = "save"
  /\ \/ job.file.len > BlockLimit /\ Abort("Block too big")
     \/ /\ job.file.len <= BlockLimit
        /\ PutSectors([s \in Extent(job.file) \ {End(job.file) - 1} |->
                         <<job.data, s - job.file.start>>])
        /\ job' = Idle
        /\ report' = "ok"
        /\ UNCHANGED <<saved, channels>>

(* The data follow the catalogue, in one transfer.                          *)
WriteData ==
  /\ job.op = "save"
  /\ \/ job.file.len > BlockLimit /\ Abort("Block too big")
     \/ /\ job.file.len <= BlockLimit
        /\ End(job.file) > MediaSize
        /\ Abort("Disk overflow")
     \/ /\ job.file.len <= BlockLimit
        /\ End(job.file) <= MediaSize
        /\ PutSectors([s \in Extent(job.file) |-> <<job.data, s - job.file.start>>])
        /\ job' = Idle
        /\ report' = "ok"
        /\ UNCHANGED <<saved, channels>>
-----------------------------------------------------------------------------
Unavailable(k) ==
  \/ saved.files[k].locked /\ Refuse("locked")
  \/ /\ ~saved.files[k].locked
     /\ IsOpen(saved.files[k].name)
     /\ Refuse("open")

(* Mutant: DELETE and RENAME ask for the lock only.                         *)
AvailableIfOpen(k) == ~saved.files[k].locked

Available(k) == ~saved.files[k].locked /\ ~IsOpen(saved.files[k].name)

(* DELETE, and OSFILE 6.                                                    *)
Delete(n) ==
  \/ Found(saved.files, {n}) = {} /\ Refuse("not found")
  \/ \E k \in Found(saved.files, {n}) :
       \/ Unavailable(k)
       \/ Available(k) /\ Commit(RemoveAt(saved.files, k))

Rename(a, b) ==
  \/ Found(saved.files, {a}) = {} /\ Refuse("not found")
  \/ \E k \in Found(saved.files, {a}) :
       \/ Unavailable(k)
       \/ /\ Available(k)
          /\ Found(saved.files, {b}) # {}
          /\ Refuse("exists")
       \/ /\ Available(k)
          /\ Found(saved.files, {b}) = {}
          /\ Commit([saved.files EXCEPT ![k].name = b])

(* Mutant: the wildcard is forgotten after the first match.                 *)
RelockAll(files, S, lock) ==
  [k \in DOMAIN files |-> [files[k] EXCEPT !.locked = lock]]

Relock(files, S, lock) ==
  [k \in DOMAIN files |->
     IF files[k].name \in S THEN [files[k] EXCEPT !.locked = lock] ELSE files[k]]

(* ACCESS stops at the first open file, before anything is saved; OSFILE 4  *)
(* is the same for one name.                                                *)
Access(S, lock) ==
  \/ Found(saved.files, S) = {} /\ Refuse("not found")
  \/ /\ \E k \in Found(saved.files, S) : IsOpen(saved.files[k].name)
     /\ Refuse("open")
  \/ /\ Found(saved.files, S) # {}
     /\ \A k \in Found(saved.files, S) : ~IsOpen(saved.files[k].name)
     /\ Commit(Relock(saved.files, S, lock))

(* OSFILE 1 asks whether the file is locked, not whether it is open.        *)
WriteInfo(n, lock) ==
  \/ Found(saved.files, {n}) = {} /\ Refuse("not found")
  \/ \E k \in Found(saved.files, {n}) :
       \/ saved.files[k].locked /\ Refuse("locked")
       \/ ~saved.files[k].locked /\ Commit(Relock(saved.files, {n}, lock))

(* TITLE and *OPT 4 change nothing but the header and the cycle number.     *)
Relabel == Commit(saved.files)
-----------------------------------------------------------------------------
(* The next entry that matches, from where the search stands.               *)
Ahead(files) == {k \in Found(files, job.names) : k >= job.next}
IsNext(k, files) == k \in Ahead(files) /\ \A j \in Ahead(files) : k <= j

Scan(kind, S) ==
  \/ Found(saved.files, S) = {} /\ Refuse("not found")
  \/ /\ Found(saved.files, S) # {}
     /\ job' = [op |-> kind, names |-> S, next |-> 1, ram |-> saved]
     /\ report' = "busy"
     /\ UNCHANGED <<sectors, saved, channels>>

(* Mutants: the search starts again at the same entry, or skips one.        *)
SkipNothing(k) ==
  /\ job' = [job EXCEPT !.next = k]
  /\ UNCHANGED <<sectors, saved, channels, report>>

SkipTwo(k) ==
  /\ job' = [job EXCEPT !.next = k + 2]
  /\ UNCHANGED <<sectors, saved, channels, report>>

SkipEntry(k) ==
  /\ job' = [job EXCEPT !.next = k + 1]
  /\ UNCHANGED <<sectors, saved, channels, report>>

(* WIPE asks file by file, and saves the catalogue after each.              *)
StartWipe(S) == Scan("wipe", S)

WipeFile(k) ==
  /\ ~job.ram.files[k].locked
  /\ \/ job.ram.cycle # saved.cycle /\ Abort("Disk changed")
     \/ /\ job.ram.cycle = saved.cycle
        /\ IsOpen(saved.files[k].name)
        /\ Abort("open")
     \/ /\ job.ram.cycle = saved.cycle
        /\ ~IsOpen(saved.files[k].name)
        /\ LET c == Bump(saved, RemoveAt(saved.files, k))
           IN  PutCat(c) /\ job' = [job EXCEPT !.ram = c, !.next = k]
        /\ UNCHANGED <<sectors, channels, report>>

WipeStep ==
  /\ job.op = "wipe"
  /\ \/ Ahead(job.ram.files) = {} /\ Abort("ok")
     \/ \E k \in DOMAIN job.ram.files :
          IsNext(k, job.ram.files) /\ (SkipEntry(k) \/ WipeFile(k))
     \/ Abort("Escape")

(* DESTROY, once confirmed, deletes in memory and saves once.               *)
StartDestroy(S) == Scan("destroy", S)

DestroyFile(k) ==
  \/ IsOpen(job.ram.files[k].name) /\ Abort("open")
  \/ /\ ~IsOpen(job.ram.files[k].name)
     /\ job' = [job EXCEPT !.ram.files = RemoveAt(@, k), !.next = k]
     /\ UNCHANGED <<sectors, saved, channels, report>>

DestroyStep ==
  /\ job.op = "destroy"
  /\ \/ Ahead(job.ram.files) = {} /\ Commit(job.ram.files)
     \/ \E k \in DOMAIN job.ram.files :
          /\ IsNext(k, job.ram.files)
          /\ IF job.ram.files[k].locked THEN SkipEntry(k) ELSE DestroyFile(k)
-----------------------------------------------------------------------------
(* COMPACT goes through the entries from the last, lowest one, and packs    *)
(* each file that is not empty against the ones below. It asks neither      *)
(* whether a file is locked nor whether it is open.                         *)
StartCompact ==
  /\ job' = [op |-> "compact", next |-> Len(saved.files), to |-> FirstSector]
  /\ report' = "busy"
  /\ UNCHANGED <<sectors, saved, channels>>

CompactDone ==
  /\ job.op = "compact" /\ job.next = 0
  /\ Abort("ok")

(* Mutant: COMPACT leaves locked files where they are.                      *)
CompactKeepLocked ==
  /\ job.op = "compact" /\ job.next > 0
  /\ LET f == saved.files[job.next]
     IN  /\ f.len = 0 \/ f.start = job.to \/ f.locked
         /\ job' = [op |-> "compact", next |-> job.next - 1,
                    to |-> End(f)]
  /\ UNCHANGED <<sectors, saved, channels, report>>

CompactKeep ==
  /\ job.op = "compact" /\ job.next > 0
  /\ LET f == saved.files[job.next]
     IN  /\ f.len = 0 \/ f.start = job.to
         /\ job' = [op |-> "compact", next |-> job.next - 1,
                    to |-> job.to + f.len]
  /\ UNCHANGED <<sectors, saved, channels, report>>

(* The catalogue says where the file will be before its data are there.     *)
CompactLift ==
  /\ job.op = "compact" /\ job.next > 0
  /\ LET f == saved.files[job.next]
     IN  /\ f.len > 0 /\ f.start # job.to
         /\ PutCat(Bump(saved, [saved.files EXCEPT ![job.next].start = job.to]))
         /\ job' = [op |-> "move", next |-> job.next, to |-> job.to,
                    from |-> f.start, len |-> f.len, done |-> 0]
  /\ UNCHANGED <<sectors, channels, report>>

Chunk == LET left == job.len - job.done
         IN  IF left < Buffer THEN left ELSE Buffer

(* Mutant: the loop ends when one buffer is left.                           *)
MoveChunkEndsEarly ==
  /\ job.op = "move"
  /\ LET read  == job.from + job.done
         write == job.to + job.done
         done  == job.done + Chunk
     IN  /\ PutSectors([s \in write .. write + Chunk - 1 |->
                          sectors[s - write + read]])
         /\ job' = IF done + Buffer < job.len THEN [job EXCEPT !.done = done]
                   ELSE [op |-> "compact", next |-> job.next - 1,
                         to |-> job.to + job.len]
         /\ UNCHANGED <<saved, channels, report>>

MoveChunk ==
  /\ job.op = "move"
  /\ LET read  == job.from + job.done
         write == job.to + job.done
         done  == job.done + Chunk
     IN  \/ read + Chunk > MediaSize /\ Abort("Disk overflow")
         \/ /\ read + Chunk <= MediaSize
            /\ PutSectors([s \in write .. write + Chunk - 1 |->
                             sectors[s - write + read]])
            /\ job' = IF done < job.len THEN [job EXCEPT !.done = done]
                      ELSE [op |-> "compact", next |-> job.next - 1,
                            to |-> job.to + job.len]
            /\ UNCHANGED <<saved, channels, report>>
-----------------------------------------------------------------------------
(* OPENIN copies the catalogue's entry into the channel; it need not be     *)
(* unlocked. Closing a channel for input writes nothing.                    *)
OpenIn(n) ==
  \/ Found(saved.files, {n}) = {} /\ Refuse("not found")
  \/ DOMAIN channels = Channels /\ Refuse("Too many open")
  \/ /\ \E k \in Found(saved.files, {n}), c \in Channels \ DOMAIN channels :
          channels' = [x \in DOMAIN channels \cup {c} |->
                         IF x = c THEN saved.files[k] ELSE channels[x]]
     /\ UNCHANGED <<sectors, saved, job, report>>

Close(c) ==
  /\ channels' = [x \in DOMAIN channels \ {c} |-> channels[x]]
  /\ UNCHANGED <<sectors, saved, job, report>>

(* Break ends the command where it is. Whether the channels survive depends *)
(* on the kind of Break and on who owns the workspace.                      *)
Break ==
  /\ job # Idle /\ breaks < MaxBreaks
  /\ breaks' = breaks + 1
  /\ job' = Idle
  /\ report' = "break"
  /\ channels' \in {channels, <<>>}
  /\ UNCHANGED <<sectors, saved, writes>>

Command ==
  \/ \E n \in Names, len \in Lengths, d \in Contents : Save(n, len, d)
  \/ \E n \in Names : Delete(n) \/ OpenIn(n)
  \/ \E a, b \in Names : Rename(a, b)
  \/ \E S \in SUBSET Names : StartWipe(S) \/ StartDestroy(S)
  \/ \E S \in SUBSET Names, lock \in BOOLEAN : Access(S, lock)
  \/ \E n \in Names, lock \in BOOLEAN : WriteInfo(n, lock)
  \/ \E c \in DOMAIN channels : Close(c)
  \/ Relabel \/ StartCompact

JobStep ==
  /\ \/ WriteData \/ WipeStep \/ DestroyStep
     \/ CompactDone \/ CompactKeep \/ CompactLift \/ MoveChunk
  /\ UNCHANGED <<writes, breaks>>

Next ==
  \/ job = Idle /\ Command /\ UNCHANGED <<writes, breaks>>
  \/ JobStep
  \/ Break

Spec == Init /\ [][Next]_vars /\ WF_vars(JobStep)
=============================================================================
