----------------------------- MODULE OpenFiles -----------------------------
(***************************************************************************)
(* The ROM's open files: OSFIND, OSARGS, OSBGET and OSBPUT on channels with *)
(* a buffer of one sector each, and OSFILE's load beside them. A channel    *)
(* keeps its own copy of where its file starts, how long it is and how many *)
(* sectors it may use; the catalogue hears of it when the file is closed,   *)
(* or grows into the room behind it. As in Catalogue, disk writes are those *)
(* of a back end that stores. COMPACT and a change of disks under an open   *)
(* file are left out.                                                       *)
(*                                                                         *)
(* Every call is one step, but for OSARGS's loop that fills a file up with  *)
(* zeros; where Break between two disk writes of a call leaves something    *)
(* that Break before or after it does not, that is an action of its own.    *)
(***************************************************************************)
EXTENDS Integers, FiniteSets, SequencesExt

CONSTANTS
  Names,       \* file names
  Channels,    \* channels (5)
  PutBytes,    \* what programs write
  Places,      \* where programs set PTR#
  SectorSize,  \* bytes of a sector (256)
  DiskSize,    \* sectors of the disk
  MaxFiles,    \* entries of the catalogue (31)
  NewSize,     \* sectors OPENOUT asks for (&40)
  Images,      \* catalogues to start from
  PadsAtEnd,   \* programs set PTR# to EXT# before they set it beyond
  MakesRoom    \* programs make no file while one that may grow into
               \* sectors that are not in the catalogue is open

FirstSector == 2
NoSector == 0      \* never the sector of a file
Byte == PutBytes \cup {0}
Sector == [0 .. SectorSize - 1 -> Byte]
Extent == 0 .. DiskSize * SectorSize

ASSUME SizeAssumption ==
  /\ SectorSize \in Nat \ {0} /\ DiskSize \in Nat /\ FirstSector < DiskSize
  /\ MaxFiles \in Nat \ {0} /\ NewSize \in Nat \ {0}
(* A new file fits an empty disk, where the ROM does not ask for room; what *)
(* becomes of one that does not is the catalogue's Fits.                    *)
ASSUME RoomAssumption == FirstSector + NewSize <= DiskSize
ASSUME ByteAssumption == PutBytes \subseteq 0 .. 255 /\ Places \subseteq Nat
ASSUME ProgramAssumption == PadsAtEnd \in BOOLEAN /\ MakesRoom \in BOOLEAN

Entry == [name : Names, start : FirstSector .. DiskSize - 1, len : Extent,
          locked : BOOLEAN]
SectorsOf(len) == (len + SectorSize - 1) \div SectorSize
End(f) == f.start + SectorsOf(f.len)

Good(files) ==
  /\ files \in Seq(Entry) /\ Len(files) <= MaxFiles
  /\ \A j, k \in DOMAIN files : j < k => End(files[k]) <= files[j].start
  /\ \A k \in DOMAIN files : End(files[k]) <= DiskSize
  /\ \A j, k \in DOMAIN files : files[j].name = files[k].name => j = k

ASSUME ImageAssumption == \A files \in Images : Good(files)

VARIABLES
  files,   \* the catalogue on the disk, highest file first
  disk,    \* the data sectors
  chan,    \* what the ROM keeps of every channel ($1100-111F,y, $10C0)
  buf,     \* the channels' buffers
  job,     \* the OSARGS call that is filling up, or Idle
  got      \* how the last call ended

vars == <<files, disk, chan, buf, job, got>>

Idle == [op |-> "idle"]
Closed == [open |-> FALSE]
Filling == [op : {"fill"}, channel : Channels, to : Places]
OpenChannel ==
  [open : {TRUE}, name : Names, start : FirstSector .. DiskSize - 1,
   ptr : Extent, ext : Extent, alloc : 0 .. DiskSize,
   readOnly : BOOLEAN,  \* $110C bit 7
   locked : BOOLEAN,    \* $110E bit 7
   valid : BOOLEAN,     \* $1117 bit 7: the buffer is the pointer's sector
   dirty : BOOLEAN,     \* bit 6: the buffer is to be written
   grown : BOOLEAN,     \* bit 5: the length is to be written
   warned : BOOLEAN,    \* bit 4: the end has been reported
   bufsec : 0 .. DiskSize - 1]

Result(kind, v) == [kind |-> kind, value |-> v]
Done == Result("done", 0)
Error == Result("error", 0)

Opened == {c \in Channels : chan[c].open}
Using(n) == {c \in Opened : chan[c].name = n}
Exists(n) == \E k \in DOMAIN files : files[k].name = n
At(n) == CHOOSE k \in DOMAIN files : files[k].name = n
CanWrite(c) == ~chan[c].readOnly /\ ~chan[c].locked
SectorAt(c, p) == chan[c].start + p \div SectorSize

Init ==
  /\ files \in Images
  /\ disk = [s \in FirstSector .. DiskSize - 1 |-> [i \in 0 .. SectorSize - 1 |-> 0]]
  /\ chan = [c \in Channels |-> Closed]
  /\ buf = [c \in Channels |-> [i \in 0 .. SectorSize - 1 |-> 0]]
  /\ job = Idle /\ got = Done

Ready(c) == job = Idle /\ chan[c].open

Refuse ==
  /\ got' = Error
  /\ UNCHANGED <<files, disk, chan, buf, job>>
-----------------------------------------------------------------------------
(* file_to_media_y: a dirty buffer is written to the sector it came from.   *)
Flushed(c) == IF chan[c].dirty THEN [disk EXCEPT ![chan[c].bufsec] = buf[c]] ELSE disk

(* The catalogue with the channel's length in it.                           *)
LengthSaved(c) ==
  IF chan[c].grown THEN [files EXCEPT ![At(chan[c].name)].len = chan[c].ext] ELSE files

(* Mutant: the last sector is not written.                                  *)
CloseChannelUnflushed(c) ==
  /\ files' = LengthSaved(c)
  /\ chan' = [chan EXCEPT ![c] = Closed]
  /\ UNCHANGED disk

(* update_catnfile.                                                         *)
CloseChannel(c) ==
  /\ files' = LengthSaved(c)
  /\ disk' = Flushed(c)
  /\ chan' = [chan EXCEPT ![c] = Closed]

Close(c) ==
  /\ Ready(c)
  /\ CloseChannel(c)
  /\ got' = Done
  /\ UNCHANGED <<buf, job>>

(* OSARGS &FF: closes the file and marks it as open again.                  *)
Flush(c) ==
  /\ Ready(c)
  /\ files' = LengthSaved(c)
  /\ disk' = Flushed(c)
  /\ chan' = [chan EXCEPT ![c].dirty = FALSE]
  /\ got' = Done
  /\ UNCHANGED <<buf, job>>

(* The workspace was lent to another filing system, after a flush of every  *)
(* channel; the buffers are lost.                                           *)
Reclaim ==
  /\ job = Idle
  /\ \A c \in Opened : ~chan[c].dirty /\ files = LengthSaved(c)
  /\ chan' = [c \in Channels |->
       IF chan[c].open THEN [chan[c] EXCEPT !.valid = FALSE, !.bufsec = NoSector]
       ELSE Closed]
  /\ got' = Done
  /\ UNCHANGED <<files, disk, buf, job>>
-----------------------------------------------------------------------------
Fresh(f, readOnly, out) ==
  [open |-> TRUE, name |-> f.name, start |-> f.start, ptr |-> 0,
   ext |-> IF out THEN 0 ELSE f.len, alloc |-> SectorsOf(f.len),
   readOnly |-> readOnly, locked |-> f.locked, valid |-> FALSE, dirty |-> FALSE, grown |-> out,
   warned |-> FALSE, bufsec |-> NoSector]

(* Mutant: only the new channel's way of opening counts.                    *)
ConflictIfOutput(n, output) == output /\ Using(n) # {}

(* A second channel is for input only, and only beside channels for input.  *)
Conflict(n, output) == \E c \in Using(n) : output \/ ~chan[c].readOnly

(* Which of the free channels is taken makes no difference.                 *)
TakeChannel(c, f, how) ==
  /\ chan' = [chan EXCEPT ![c] = Fresh(f, how = "in", how = "out")]
  /\ got' = Done

(* "File locked" comes before "File open", and that before "Too many files  *)
(* open"; for input or update a file that is not there is no error but 0.   *)
Find(n, how) ==
  /\ job = Idle
  /\ LET f == files[At(n)]
         refused == \/ how = "out" /\ f.locked
                    \/ Conflict(n, how # "in")
                    \/ Opened = Channels
     IN  \/ ~Exists(n) /\ how # "out" /\ Refuse
         \/ Exists(n) /\ refused /\ Refuse
         \/ /\ Exists(n) /\ ~refused
            /\ \E c \in Channels \ Opened : TakeChannel(c, f, how)
            /\ UNCHANGED <<files, disk, buf, job>>

(* Mutant: the last, partly filled sector of a file is not counted.         *)
GapStartUnrounded(y) ==
  IF y = Len(files) THEN FirstSector
  ELSE files[y + 1].start + files[y + 1].len \div SectorSize

(* Gap y lies above entry y + 1 and below entry y. An empty catalogue is    *)
(* not asked for room (RoomAssumption).                                     *)
GapStart(y) == IF y = Len(files) THEN FirstSector ELSE End(files[y + 1])
GapEnd(y) == IF y = 0 THEN DiskSize ELSE files[y].start
Gaps ==
  IF files = <<>> THEN {0}
  ELSE {y \in 0 .. Len(files) : GapEnd(y) - GapStart(y) >= NewSize}

Unlisted(c) ==
  ~chan[c].readOnly /\ SectorsOf(files[At(chan[c].name)].len) < chan[c].alloc

(* OPENOUT of a new file: it is in the catalogue before it is known whether *)
(* there is a channel for it.                                               *)
FindNew(n) ==
  /\ job = Idle /\ ~Exists(n)
  /\ MakesRoom => \A c \in Opened : ~Unlisted(c)
  /\ \/ (Len(files) >= MaxFiles \/ Gaps = {}) /\ Refuse
     \/ /\ Len(files) < MaxFiles
        /\ \E y \in Gaps :
             /\ \A z \in Gaps : z <= y
             /\ LET f == [name |-> n, start |-> GapStart(y), len |-> NewSize * SectorSize,
                          locked |-> FALSE]
                IN  /\ files' = InsertAt(files, y + 1, f)
                    /\ \/ \E c \in Channels \ Opened : TakeChannel(c, f, "out")
                       \/ Opened = Channels /\ got' = Error /\ UNCHANGED chan
             /\ UNCHANGED <<disk, buf, job>>

Delete(n) ==
  /\ job = Idle /\ Exists(n) /\ ~files[At(n)].locked /\ Using(n) = {}
  /\ files' = RemoveAt(files, At(n))
  /\ got' = Done
  /\ UNCHANGED <<disk, chan, buf, job>>
-----------------------------------------------------------------------------
BytesFrom(f, length, image) ==
  [p \in 1 .. length |->
     image[f.start + (p - 1) \div SectorSize][(p - 1) % SectorSize]]

(* The length the server is asked for: whole sectors, or all but the last   *)
(* and the bytes that are used of it.                                       *)
ReadLength(f) ==
  LET count == SectorsOf(f.len)
      last  == f.len % SectorSize
  IN  IF last = 0 THEN count * SectorSize ELSE (count - 1) * SectorSize + last

(* OSFILE &FF reads the disk, whatever the channels have in their buffers.  *)
Load(n) ==
  /\ job = Idle
  /\ \/ ~Exists(n) /\ Refuse
     \/ /\ Exists(n)
        /\ LET f == files[At(n)]
           IN  got' = Result("file", BytesFrom(f, ReadLength(f), disk))
        /\ UNCHANGED <<files, disk, chan, buf, job>>
-----------------------------------------------------------------------------
(* The buffer is written back, and the pointer's sector read into it.       *)
Loaded(c) == Flushed(c)[SectorAt(c, chan[c].ptr)]

(* Past the last byte of a sector the buffer is no longer the pointer's.    *)
Within(p) == p % SectorSize # 0

Get(c) ==
  /\ Ready(c) /\ chan[c].ptr # chan[c].ext
  /\ LET p == chan[c].ptr
         b == IF chan[c].valid THEN buf[c] ELSE Loaded(c)
     IN  /\ buf' = [buf EXCEPT ![c] = b]
         /\ disk' = IF chan[c].valid THEN disk ELSE Flushed(c)
         /\ chan' = [chan EXCEPT
              ![c].ptr = p + 1, ![c].valid = Within(p + 1),
              ![c].dirty = @ /\ chan[c].valid,
              ![c].bufsec = IF chan[c].valid THEN @ ELSE SectorAt(c, p)]
         /\ got' = Result("byte", b[p % SectorSize])
  /\ UNCHANGED <<files, job>>

(* The end is reported once, then it is an error.                           *)
GetAtEnd(c) ==
  /\ Ready(c) /\ chan[c].ptr = chan[c].ext
  /\ \/ chan[c].warned /\ Refuse
     \/ /\ ~chan[c].warned
        /\ chan' = [chan EXCEPT ![c].warned = TRUE]
        /\ got' = Result("eof", 0)
        /\ UNCHANGED <<files, disk, buf, job>>
-----------------------------------------------------------------------------
(* Mutant: the end of the disk whatever lies above.                         *)
RoomOnDisk(c) == DiskSize - chan[c].start

(* The sectors up to the next file, or the end of the disk.                 *)
RoomFor(c) == GapEnd(At(chan[c].name) - 1) - chan[c].start

Full(c) == chan[c].ptr = chan[c].alloc * SectorSize

(* err_cannot_extend: the channel is closed and the byte is lost.           *)
CannotExtend(c) ==
  /\ Full(c) /\ RoomFor(c) = chan[c].alloc
  /\ CloseChannel(c)
  /\ got' = Error
  /\ job' = Idle
  /\ UNCHANGED buf

(* The file gets all the room there is before the byte is stored.           *)
Extended(c) ==
  IF Full(c) THEN [files EXCEPT ![At(chan[c].name)].len = RoomFor(c) * SectorSize]
  ELSE files

(* At the end of the file, on a sector boundary, there is nothing to read.  *)
Store(c, v) ==
  LET p     == chan[c].ptr
      fresh == chan[c].ext % SectorSize = 0 /\ p = chan[c].ext
      b     == IF chan[c].valid \/ fresh THEN buf[c] ELSE Loaded(c)
      grows == p + 1 >= chan[c].ext
  IN  /\ Full(c) => RoomFor(c) # chan[c].alloc
      /\ files' = Extended(c)
      /\ disk' = IF chan[c].valid THEN disk ELSE Flushed(c)
      /\ buf' = [buf EXCEPT ![c] = [b EXCEPT ![p % SectorSize] = v]]
      /\ chan' = [chan EXCEPT
           ![c].ptr = p + 1, ![c].valid = Within(p + 1), ![c].dirty = TRUE,
           ![c].bufsec = IF chan[c].valid THEN @ ELSE SectorAt(c, p),
           ![c].alloc = IF Full(c) THEN RoomFor(c) ELSE @,
           ![c].ext = IF grows THEN p + 1 ELSE @,
           ![c].grown = @ \/ grows]

Put(c, v) ==
  /\ Ready(c)
  /\ \/ ~CanWrite(c) /\ Refuse
     \/ CanWrite(c) /\ CannotExtend(c)
     \/ CanWrite(c) /\ Store(c, v) /\ got' = Done /\ UNCHANGED job
-----------------------------------------------------------------------------
(* OSARGS 1. PTR# goes to EXT# first; $80 is not cleared.                   *)
PtrToExt(c) == [chan EXCEPT ![c].ptr = chan[c].ext]

(* Mutant: the buffer is believed to be the new pointer's.                  *)
SetToKeepsBuffer(c, to) == [chan EXCEPT ![c].ptr = to, ![c].warned = FALSE]

SetTo(c, to) ==
  [chan EXCEPT ![c].ptr = to, ![c].warned = FALSE,
               ![c].valid = SectorAt(c, to) = chan[c].bufsec]

SetPtr(c, to) ==
  /\ Ready(c)
  /\ \/ to <= chan[c].ext /\ chan' = SetTo(c, to) /\ UNCHANGED job
     \/ /\ to > chan[c].ext
        /\ PadsAtEnd /\ CanWrite(c) => chan[c].ptr = chan[c].ext
        /\ chan' = PtrToExt(c)
        /\ job' = [op |-> "fill", channel |-> c, to |-> to]
  /\ got' = Done
  /\ UNCHANGED <<files, disk, buf>>

(* Bytes of zero are put until the file is long enough.                     *)
Fill ==
  /\ job # Idle
  /\ LET c == job.channel
     IN  /\ chan[c].ext < job.to
         /\ \/ /\ ~CanWrite(c)
               /\ job' = Idle /\ got' = Error
               /\ UNCHANGED <<files, disk, chan, buf>>
            \/ CanWrite(c) /\ CannotExtend(c)
            \/ CanWrite(c) /\ Store(c, 0) /\ UNCHANGED <<job, got>>

FillEnds ==
  /\ job # Idle
  /\ chan[job.channel].ext >= job.to
  /\ chan' = SetTo(job.channel, job.to)
  /\ job' = Idle
  /\ UNCHANGED <<files, disk, buf, got>>
-----------------------------------------------------------------------------
(* Break: service call 2 forgets the workspace, and with it the channels.   *)
Forget ==
  /\ chan' = [c \in Channels |-> Closed]
  /\ job' = Idle /\ got' = Done
  /\ UNCHANGED <<disk, buf>>

Break == Forget /\ UNCHANGED files

(* Between the catalogue and the last sector, in a close or a flush.        *)
BreakInClose(c) ==
  /\ chan[c].open /\ chan[c].grown
  /\ job # Idle => job.channel = c /\ Full(c) /\ RoomFor(c) = chan[c].alloc
  /\ Forget /\ files' = LengthSaved(c)

(* Between the catalogue and the byte that needed the room.                 *)
BreakInPut(c) ==
  /\ chan[c].open /\ CanWrite(c) /\ Full(c) /\ RoomFor(c) # chan[c].alloc
  /\ job # Idle => job.channel = c
  /\ Forget /\ files' = Extended(c)
-----------------------------------------------------------------------------
Next ==
  \/ \E n \in Names, how \in {"in", "up", "out"} : Find(n, how)
  \/ \E n \in Names : FindNew(n) \/ Delete(n) \/ Load(n)
  \/ \E c \in Channels : Close(c) \/ Flush(c) \/ Get(c) \/ GetAtEnd(c)
  \/ \E c \in Channels, v \in PutBytes : Put(c, v)
  \/ \E c \in Channels, to \in Places : SetPtr(c, to)
  \/ Fill \/ FillEnds \/ Reclaim
  \/ Break \/ \E c \in Channels : BreakInClose(c) \/ BreakInPut(c)

Spec == Init /\ [][Next]_vars
-----------------------------------------------------------------------------
(* Every variable has its type, and the catalogue stays in order.           *)
TypeOK ==
  /\ Good(files)
  /\ disk \in [FirstSector .. DiskSize - 1 -> Sector]
  /\ chan \in [Channels -> OpenChannel \cup {Closed}]
  /\ buf \in [Channels -> Sector]
  /\ job \in Filling \cup {Idle}

(* The sectors a channel may write into, whether or not the catalogue knows *)
(* of them, are no other file's (OSBPUT takes the room behind a file only   *)
(* once; 91c7-9234).                                                        *)
ChannelsApart ==
  \A c \in Opened : \A k \in DOMAIN files :
    files[k].name # chan[c].name =>
      \/ End(files[k]) <= chan[c].start
      \/ chan[c].start + chan[c].alloc <= files[k].start

(* A channel has its file in the catalogue, where it thinks it is; and a    *)
(* file that is being written has that one channel (8ed2-8ee5).             *)
OneWriter ==
  \A c \in Opened :
    /\ Exists(chan[c].name) /\ files[At(chan[c].name)].start = chan[c].start
    /\ ~chan[c].readOnly => Using(chan[c].name) = {c}

(* A buffer that is used without being read again is the pointer's sector,  *)
(* after any mixture of reads, writes, moves of PTR# and flushes; a buffer  *)
(* that will be written belongs to the file.                                *)
BufferFits ==
  \A c \in Opened :
    /\ chan[c].valid =>
         \/ chan[c].bufsec = SectorAt(c, chan[c].ptr)
         \/ ~CanWrite(c) /\ chan[c].ptr = chan[c].ext
    /\ chan[c].dirty =>
         chan[c].bufsec \in chan[c].start .. chan[c].start + chan[c].alloc - 1

(* The bytes of a file, as its writer sees them.                            *)
BytesOf(n) ==
  LET f == files[At(n)]
      W == {c \in Using(n) : ~chan[c].readOnly}
  IN  IF W = {} THEN BytesFrom(f, f.len, disk)
      ELSE LET c == CHOOSE d \in W : TRUE
           IN  BytesFrom(f, chan[c].ext, Flushed(c))

(* What a program can know of the state: the bytes of every file, where its *)
(* channels are, and the pointer that is being set.                         *)
Content == [n \in {m \in Names : Exists(m)} |-> BytesOf(n)]
Handle ==
  [c \in Opened |-> [name |-> chan[c].name, ptr |-> chan[c].ptr,
                     alone |-> ~chan[c].readOnly, writes |-> CanWrite(c)]]
Seek == IF job = Idle THEN {} ELSE {[channel |-> job.channel, to |-> job.to]}

(* Sectors, buffers and lengths that the catalogue hears of late implement  *)
(* files of bytes: what is read is what was written, closing loses nothing, *)
(* a locked file is never written, Break spoils only what was being         *)
(* written, and no channel reaches into another file.                       *)
Bytes ==
  INSTANCE ByteFiles WITH content <- Content, handle <- Handle, seek <- Seek
ImplementsByteFiles == Bytes!Spec

(* Setting PTR# leaves the bytes a file has alone (mmbeeb/DUTILS.pdf: "The  *)
(* PTR# bug is fixed").                                                     *)
SeekKeepsBytes ==
  [][job # Idle =>
       \A n \in Names : Exists(n) /\ Using(n) # {} /\ Using(n)' = Using(n) =>
         IsPrefix(BytesOf(n), BytesOf(n)')]_vars
=============================================================================
