---------------------- MODULE OpenFilesRefinement_proofs ----------------------
(***************************************************************************)
(* OpenFiles implements ByteFiles, for sectors and disks of any size, any   *)
(* number of channels and any catalogue to start from: every step is one of *)
(* ByteFiles on what a program can know of the state.                       *)
(***************************************************************************)
EXTENDS OpenFiles_proofs

(* The bytes of len places from the beginning of a sector.                  *)
Stretch(start, len, d) ==
  [p \in 1 .. len |-> d[start + (p - 1) \div SectorSize][(p - 1) % SectorSize]]

(* Two images of the disk are the same in a number of sectors.              *)
Agree(d, e, start, count) == \A s \in start .. start + count - 1 : d[s] = e[s]

(* An image of the disk has a number of sectors.                            *)
Holds(d, start, count) == \A s \in start .. start + count - 1 : d[s] \in Sector

NotWritten(n) == \A c \in Opened : chan[c].name = n => ~CanWrite(c)

(* Content, without a choice of channel: whoever has the file open sees it, *)
(* and so does the disk if nobody may write it.                             *)
View ==
  /\ Content = [n \in DOMAIN Content |-> Content[n]]
  /\ \A n : n \in DOMAIN Content <=> \E k \in DOMAIN files : files[k].name = n
  /\ \A c \in Opened :
       /\ chan[c].name \in DOMAIN Content
       /\ Content[chan[c].name] = Stretch(chan[c].start, chan[c].ext, Flushed(c))
  /\ \A k \in DOMAIN files :
       NotWritten(files[k].name) =>
         Content[files[k].name] = Stretch(files[k].start, files[k].len, disk)
-----------------------------------------------------------------------------
LEMMA PlaceOf ==
  ASSUME NEW len \in Nat, NEW a \in Nat, len <= a * SectorSize, NEW p \in 1 .. len
  PROVE  /\ p - 1 \in Nat /\ p - 1 < len /\ (p - 1) \div SectorSize \in 0 .. a - 1
         /\ (p - 1) % SectorSize \in 0 .. SectorSize - 1
<1>1. p - 1 \in Nat /\ p - 1 < len
  OBVIOUS
<1>2. a * SectorSize \in Nat
  BY SizeAssumption
<1>3. p - 1 < a * SectorSize
  BY <1>1, <1>2
<1>4. (p - 1) \div SectorSize < a /\ (p - 1) \div SectorSize \in Nat
      /\ (p - 1) % SectorSize \in 0 .. SectorSize - 1
  BY <1>1, <1>3, PlaceFact, DivideFact
<1>. QED  BY <1>1, <1>4

LEMMA StretchSame ==
  ASSUME NEW start \in Nat, NEW len \in Nat, NEW a \in Nat, len <= a * SectorSize,
         NEW d, NEW e, Agree(d, e, start, a)
  PROVE  Stretch(start, len, d) = Stretch(start, len, e)
<1>1. ASSUME NEW p \in 1 .. len
      PROVE  d[start + (p - 1) \div SectorSize] = e[start + (p - 1) \div SectorSize]
  <2>1. (p - 1) \div SectorSize \in 0 .. a - 1
    BY PlaceOf
  <2>2. start + (p - 1) \div SectorSize \in start .. start + a - 1
    BY <2>1
  <2>. QED  BY <2>2 DEF Agree
<1>. QED  BY <1>1 DEF Stretch

LEMMA StretchSeq ==
  ASSUME NEW start \in Nat, NEW len \in Nat, NEW a \in Nat, len <= a * SectorSize,
         NEW d, Holds(d, start, a)
  PROVE  /\ Stretch(start, len, d) \in Seq(Byte) /\ Len(Stretch(start, len, d)) = len
         /\ Stretch(start, len, d) \in [1 .. len -> Byte]
         /\ \A p \in 1 .. len :
              Stretch(start, len, d)[p] =
                d[start + (p - 1) \div SectorSize][(p - 1) % SectorSize]
<1> DEFINE f == Stretch(start, len, d)
<1>1. ASSUME NEW p \in 1 .. len
      PROVE  d[start + (p - 1) \div SectorSize][(p - 1) % SectorSize] \in Byte
  <2>1. (p - 1) \div SectorSize \in 0 .. a - 1 /\ (p - 1) % SectorSize \in 0 .. SectorSize - 1
    BY PlaceOf
  <2>2. start + (p - 1) \div SectorSize \in start .. start + a - 1
    BY <2>1
  <2>. QED  BY <2>1, <2>2 DEF Sector, Holds
<1>2. /\ f \in [1 .. len -> Byte]
      /\ \A p \in 1 .. len : f[p] = d[start + (p - 1) \div SectorSize][(p - 1) % SectorSize]
  BY <1>1 DEF Stretch
<1> HIDE DEF f
<1>3. f \in Seq(Byte)
  BY <1>2
<1>4. Len(f) = len
  BY <1>2, <1>3
<1>. QED  BY <1>2, <1>3, <1>4 DEF f

(* The sectors that hold a channel's bytes are its own, and on the disk.    *)
LEMMA BytesHeld ==
  ASSUME FilesInv, NEW c \in Opened
  PROVE  /\ chan[c].start \in Nat /\ chan[c].ext \in Nat /\ chan[c].alloc \in Nat
         /\ chan[c].ext <= chan[c].alloc * SectorSize
         /\ \A s \in chan[c].start .. chan[c].start + chan[c].alloc - 1 :
              s \in SectorsHeld(chan[c]) /\ s \in FirstSector .. DiskSize - 1
BY PointerFact, OpenFact, HeldOnDisk DEF SectorsHeld

LEMMA ViewHolds == FilesInv => View
<1> SUFFICES ASSUME FilesInv
             PROVE  View
  OBVIOUS
<1>1. Good(files) /\ \A k \in DOMAIN files : files[k].name \in Names
  BY EntryFact DEF FilesInv, TypeOK, Entry
<1>2. Content = [n \in DOMAIN Content |-> Content[n]]
  BY DEF Content
<1>3. \A n : n \in DOMAIN Content <=> \E k \in DOMAIN files : files[k].name = n
  BY <1>1 DEF Content, Exists
<1>4. \A n \in DOMAIN Content : Content[n] = BytesOf(n)
  BY DEF Content
<1>5. ASSUME NEW c \in Opened
      PROVE  \E k \in DOMAIN files :
               /\ Matches(files, chan[c], k) /\ At(chan[c].name) = k
               /\ chan[c].name \in DOMAIN Content
               /\ ~CanWrite(c) =>
                    chan[c].ext = files[k].len /\ Flushed(c) = disk
               /\ Content[chan[c].name] = Stretch(chan[c].start, chan[c].ext, Flushed(c))
  <2> DEFINE n == chan[c].name
             W == {d \in Using(n) : ~chan[d].readOnly}
  <2>1. PICK k \in DOMAIN files : Matches(files, chan[c], k) /\ At(n) = k
    BY EntryOf
  <2>2. files[k].name = n /\ files[k].start = chan[c].start
    BY <2>1 DEF Matches
  <2>3. n \in DOMAIN Content
    BY <1>3, <2>2
  <2>4. ~CanWrite(c) => chan[c].ext = files[k].len /\ Flushed(c) = disk
    BY <2>1 DEF Matches, CanWrite, Writable, Flushed
  <2>5. CASE ~chan[c].readOnly
    <3>1. W = {c}
      BY <2>5, InvOneWriter DEF OneWriter, Using
    <3>2. (CHOOSE d \in W : TRUE) = c
      BY <3>1
    <3>3. BytesOf(n) = BytesFrom(files[k], chan[c].ext, Flushed(c))
      BY <2>1, <3>1, <3>2 DEF BytesOf
    <3>4. BytesOf(n) = Stretch(chan[c].start, chan[c].ext, Flushed(c))
      BY <2>2, <3>3 DEF BytesFrom, Stretch
    <3>. QED  BY <1>4, <2>1, <2>3, <2>4, <3>4
  <2>6. CASE chan[c].readOnly
    <3>1. W = {}
      BY <2>6 DEF FilesInv, Exclusive, Using
    <3>2. BytesOf(n) = BytesFrom(files[k], files[k].len, disk)
      BY <2>1, <3>1 DEF BytesOf
    <3>3. BytesOf(n) = Stretch(chan[c].start, files[k].len, disk)
      BY <2>2, <3>2 DEF BytesFrom, Stretch
    <3>4. chan[c].ext = files[k].len /\ Flushed(c) = disk
      BY <2>4, <2>6 DEF CanWrite
    <3>. QED  BY <1>4, <2>1, <2>3, <2>4, <3>3, <3>4
  <2>. QED  BY <2>5, <2>6
<1>6. ASSUME NEW k \in DOMAIN files, NotWritten(files[k].name)
      PROVE  Content[files[k].name] = Stretch(files[k].start, files[k].len, disk)
  <2> DEFINE n == files[k].name
  <2>1. At(n) = k /\ n \in DOMAIN Content
    BY <1>1, <1>3, AtFact
  <2>2. CASE \E c \in Opened : chan[c].name = n
    <3>1. PICK c \in Opened : chan[c].name = n
      BY <2>2
    <3>2. /\ Matches(files, chan[c], k)
          /\ ~CanWrite(c) => chan[c].ext = files[k].len /\ Flushed(c) = disk
          /\ Content[n] = Stretch(chan[c].start, chan[c].ext, Flushed(c))
      BY <1>5, <2>1, <3>1
    <3>. QED  BY <1>6, <3>1, <3>2 DEF NotWritten, Matches
  <2>3. CASE ~\E c \in Opened : chan[c].name = n
    <3>1. Using(n) = {}
      BY <2>3 DEF Using
    <3>2. BytesOf(n) = BytesFrom(files[k], files[k].len, disk)
      BY <2>1, <3>1 DEF BytesOf
    <3>. QED  BY <1>4, <2>1, <3>2 DEF BytesFrom, Stretch
  <2>. QED  BY <2>2, <2>3
<1>. QED  BY <1>2, <1>3, <1>5, <1>6 DEF View

LEMMA ViewNext == FilesInv' => View'
BY ViewHolds, PTL
-----------------------------------------------------------------------------
(* What a step leaves of the content.                                       *)
LEMMA SameContent ==
  ASSUME View, View',
         \A n : n \in DOMAIN Content' <=> n \in DOMAIN Content,
         \A n \in DOMAIN Content : Content'[n] = Content[n]
  PROVE  Content' = Content
<1>1. Content = [n \in DOMAIN Content |-> Content[n]]
  BY DEF View
<1>2. Content' = [n \in DOMAIN Content' |-> Content'[n]]
  BY DEF View
<1>. QED  BY <1>1, <1>2

LEMMA SameNames ==
  ASSUME View, View', DOMAIN files' = DOMAIN files,
         \A k \in DOMAIN files : files'[k].name = files[k].name
  PROVE  \A n : n \in DOMAIN Content' <=> n \in DOMAIN Content
BY DEF View

(* A file that an open channel sees.                                        *)
LEMMA KeptByChannel ==
  ASSUME FilesInv, View, View', NEW d \in Opened, d \in Opened',
         chan'[d].name = chan[d].name, chan'[d].start = chan[d].start,
         chan'[d].ext = chan[d].ext,
         \A s \in SectorsHeld(chan[d]) : Flushed(d)'[s] = Flushed(d)[s]
  PROVE  Content'[chan[d].name] = Content[chan[d].name]
<1>1. Content[chan[d].name] = Stretch(chan[d].start, chan[d].ext, Flushed(d))
  BY DEF View
<1>2. Content'[chan[d].name] = Stretch(chan[d].start, chan[d].ext, Flushed(d)')
  BY DEF View
<1>3. Stretch(chan[d].start, chan[d].ext, Flushed(d)') =
      Stretch(chan[d].start, chan[d].ext, Flushed(d))
  <2>1. Agree(Flushed(d)', Flushed(d), chan[d].start, chan[d].alloc)
    BY DEF Agree, SectorsHeld
  <2>. QED  BY <2>1, BytesHeld, StretchSame
<1>. QED  BY <1>1, <1>2, <1>3

(* A file that nobody may write.                                            *)
LEMMA KeptOnDisk ==
  ASSUME FilesInv, View, View', NEW n, NEW k \in DOMAIN files, NEW j \in DOMAIN files',
         files[k].name = n, files'[j].name = n, files'[j].start = files[k].start,
         files'[j].len = files[k].len, NotWritten(n), NotWritten(n)',
         \A s \in files[k].start .. End(files[k]) - 1 : disk'[s] = disk[s]
  PROVE  Content'[n] = Content[n]
<1> DEFINE f == files[k]
<1>1. Content[n] = Stretch(f.start, f.len, disk)
  BY DEF View
<1>2. Content'[n] = Stretch(f.start, f.len, disk')
  BY DEF View, NotWritten
<1>3. f.start \in Nat /\ f.len \in Nat /\ SectorsOf(f.len) \in Nat
      /\ End(f) = f.start + SectorsOf(f.len)
  BY EntryFact DEF FilesInv, TypeOK
<1>4. f.len <= SectorsOf(f.len) * SectorSize
  BY <1>3, SectorsFact
<1>5. Agree(disk', disk, f.start, SectorsOf(f.len))
  BY <1>3 DEF Agree
<1> HIDE DEF f
<1>6. Stretch(f.start, f.len, disk') = Stretch(f.start, f.len, disk)
  BY <1>3, <1>4, <1>5, StretchSame
<1>. QED  BY <1>1, <1>2, <1>6

(* The files other than that of the one channel that takes the step.        *)
LEMMA OthersKept ==
  ASSUME FilesInv, FilesInv', View, View', NEW c \in Opened,
         \A d \in Channels : d # c => chan'[d] = chan[d] /\ buf'[d] = buf[d],
         c \in Opened' => chan'[c].name = chan[c].name,
         \A s \in FirstSector .. DiskSize - 1 : s \notin SectorsHeld(chan[c]) => disk'[s] = disk[s],
         DOMAIN files' = DOMAIN files,
         \A k \in DOMAIN files : files[k].name # chan[c].name => files'[k] = files[k],
         NEW n \in DOMAIN Content, n # chan[c].name
  PROVE  Content'[n] = Content[n]
<1>1. \A d \in Channels : d # c => (d \in Opened' <=> d \in Opened)
  BY DEF Opened
<1>2. \A d \in Opened : d \in Channels
  BY DEF Opened
<1>3. \A d \in Opened' : d \in Channels
  BY DEF Opened
<1>4. CASE \E d \in Opened : chan[d].name = n
  <2>1. PICK d \in Opened : chan[d].name = n
    BY <1>4
  <2>2. d # c /\ d \in Opened' /\ chan'[d] = chan[d] /\ buf'[d] = buf[d]
    BY <1>1, <1>2, <2>1
  <2>3. ASSUME NEW s \in SectorsHeld(chan[d])
        PROVE  Flushed(d)'[s] = Flushed(d)[s]
    <3>1. s \in FirstSector .. DiskSize - 1 /\ s \notin SectorsHeld(chan[c])
      BY <2>1, HeldOnDisk, HeldApart
    <3>2. disk'[s] = disk[s]
      BY <3>1
    <3>3. /\ disk \in [FirstSector .. DiskSize - 1 -> Sector]
          /\ disk' \in [FirstSector .. DiskSize - 1 -> Sector]
      BY DEF FilesInv, TypeOK
    <3>4. CASE chan[d].dirty
      <4>1. Flushed(d) = [disk EXCEPT ![chan[d].bufsec] = buf[d]]
        BY <3>4 DEF Flushed
      <4>2. Flushed(d)' = [disk' EXCEPT ![chan[d].bufsec] = buf[d]]
        BY <2>2, <3>4 DEF Flushed
      <4>. QED  BY <3>1, <3>2, <3>3, <4>1, <4>2
    <3>5. CASE ~chan[d].dirty
      BY <2>2, <3>2, <3>5 DEF Flushed
    <3>. QED  BY <3>4, <3>5
  <2>. QED  BY <2>1, <2>2, <2>3, KeptByChannel
<1>5. CASE ~\E d \in Opened : chan[d].name = n
  <2>1. PICK k \in DOMAIN files : files[k].name = n
    BY DEF View
  <2>2. NotWritten(n) /\ NotWritten(n)'
    BY <1>1, <1>3, <1>5 DEF NotWritten
  <2>3. files'[k] = files[k] /\ k \in DOMAIN files'
    BY <2>1
  <2>4. Good(files) /\ chan[c].start \in Nat /\ chan[c].alloc \in Nat
    BY BytesHeld DEF FilesInv, TypeOK
  <2>5. /\ files[k].start \in Nat /\ End(files[k]) \in Nat /\ FirstSector <= files[k].start
        /\ End(files[k]) <= DiskSize /\ End(files[k]) = files[k].start + SectorsOf(files[k].len)
        /\ SectorsOf(files[k].len) \in Nat
    BY <2>4, EntryFact
  <2>6. \/ End(files[k]) <= chan[c].start
        \/ chan[c].start + chan[c].alloc <= files[k].start
        \/ SectorsOf(files[k].len) = 0
    BY <2>1, InvApart DEF ChannelsApart
  <2>7. ASSUME NEW s \in files[k].start .. End(files[k]) - 1
        PROVE  disk'[s] = disk[s]
    <3>1. s \in FirstSector .. DiskSize - 1
      BY <2>5, SizeAssumption DEF FirstSector
    <3>2. s \notin SectorsHeld(chan[c])
      BY <2>4, <2>5, <2>6 DEF SectorsHeld
    <3>. QED  BY <3>1, <3>2
  <2>. QED  BY <2>1, <2>2, <2>3, <2>7, KeptOnDisk
<1>. QED  BY <1>4, <1>5

(* A step that only a result shows.                                         *)
LEMMA QuietStep ==
  ASSUME FilesInv, View, View', UNCHANGED <<files, disk, chan, buf>>
  PROVE  Content' = Content /\ Handle' = Handle
<1>1. Opened' = Opened
  BY DEF Opened
<1>2. Handle' = Handle
  BY <1>1 DEF Handle, CanWrite
<1>3. ASSUME NEW n \in DOMAIN Content
      PROVE  Content'[n] = Content[n]
  <2>1. CASE \E d \in Opened : chan[d].name = n
    BY <1>1, <2>1, KeptByChannel DEF Flushed
  <2>2. CASE ~\E d \in Opened : chan[d].name = n
    <3>1. PICK k \in DOMAIN files : files[k].name = n
      BY DEF View
    <3>2. NotWritten(n) /\ NotWritten(n)'
      BY <1>1, <2>2 DEF NotWritten
    <3>. QED  BY <3>1, <3>2, KeptOnDisk
  <2>. QED  BY <2>1, <2>2
<1>. QED  BY <1>2, <1>3, SameNames, SameContent
-----------------------------------------------------------------------------
(* What a program knows of a channel.                                       *)
Hold(h) == [name |-> h.name, ptr |-> h.ptr, alone |-> ~h.readOnly, writes |-> Writable(h)]

LEMMA HandleFact == Handle = [c \in Opened |-> Hold(chan[c])]
BY DEF Handle, Hold, CanWrite, Writable

LEMMA HandleNext == Handle' = [c \in Opened' |-> Hold(chan'[c])]
BY DEF Handle, Hold, CanWrite, Writable

LEMMA SeekFact ==
  /\ job = Idle => Seek = {}
  /\ job' = Idle => Seek' = {}
  /\ job' = job => Seek' = Seek
BY DEF Seek

(* A step that changes one channel's handle, or closes it.                  *)
LEMMA OneHandle ==
  ASSUME NEW c \in Opened, Opened' = Opened, NEW r, Hold(chan'[c]) = r,
         \A d \in Channels : d # c => chan'[d] = chan[d]
  PROVE  Handle' = [Handle EXCEPT ![c] = r]
<1>1. \A d \in Opened : d \in Channels
  BY DEF Opened
<1>. QED  BY <1>1, HandleFact, HandleNext

LEMMA HandleGone ==
  ASSUME NEW c \in Channels, chan' = [chan EXCEPT ![c] = Closed],
         chan \in [Channels -> OpenChannel \cup {Closed}]
  PROVE  Opened' = Opened \ {c} /\ Handle' = Bytes!Without(Handle, {c})
<1>1. \A d \in Channels : chan'[d] = IF d = c THEN Closed ELSE chan[d]
  OBVIOUS
<1>2. Opened' = Opened \ {c}
  BY <1>1 DEF Opened, Closed
<1>3. \A d \in Opened' : d \in Channels /\ d # c /\ d \in Opened
  BY <1>2 DEF Opened
<1>4. Handle' = [d \in Opened \ {c} |-> Hold(chan[d])]
  BY <1>1, <1>2, <1>3, HandleNext
<1>. QED  BY <1>2, <1>4, HandleFact DEF Bytes!Without

LEMMA SavedFact ==
  ASSUME FilesInv, NEW c \in Opened
  PROVE  \E k \in DOMAIN files :
           /\ Matches(files, chan[c], k)
           /\ DOMAIN LengthSaved(c) = DOMAIN files
           /\ \A j \in DOMAIN files :
                /\ LengthSaved(c)[j].name = files[j].name
                /\ LengthSaved(c)[j].start = files[j].start
                /\ (j # k \/ ~chan[c].grown) => LengthSaved(c)[j] = files[j]
           /\ LengthSaved(c)[k].len = chan[c].ext
<1>1. PICK k \in DOMAIN files : Matches(files, chan[c], k) /\ At(chan[c].name) = k
  BY EntryOf
<1>2. CASE ~chan[c].grown
  BY <1>1, <1>2 DEF LengthSaved, Matches
<1>3. CASE chan[c].grown
  <2>1. LengthSaved(c) = SetLen(files, k, chan[c].ext)
    BY <1>1, <1>3 DEF LengthSaved, SetLen
  <2>2. chan[c].ext \in Extent /\ Good(files)
    BY PointerFact DEF OpenChannel, FilesInv, TypeOK
  <2>. QED  BY <1>1, <1>3, <2>1, <2>2, SetLenFact
<1>. QED  BY <1>2, <1>3

(* Flushing writes only to the sectors that the channel holds.              *)
LEMMA FlushKeeps ==
  ASSUME FilesInv, NEW c \in Opened
  PROVE  \A s \in FirstSector .. DiskSize - 1 :
           s \notin SectorsHeld(chan[c]) => Flushed(c)[s] = disk[s]
BY FlushedFact

LEMMA CloseRefines ==
  ASSUME FilesInv, FilesInv', View, View', NEW c \in Opened, CloseChannel(c), UNCHANGED buf
  PROVE  Content' = Content /\ Handle' = Bytes!Without(Handle, {c})
<1>0. PICK n : n = chan[c].name
  OBVIOUS
<1>1. /\ files' = LengthSaved(c) /\ disk' = Flushed(c) /\ chan' = [chan EXCEPT ![c] = Closed]
      /\ c \in Channels /\ chan \in [Channels -> OpenChannel \cup {Closed}]
  BY DEF CloseChannel, FilesInv, TypeOK, Opened
<1>2. Opened' = Opened \ {c} /\ Handle' = Bytes!Without(Handle, {c})
  BY <1>1, HandleGone
<1>3. PICK k \in DOMAIN files :
        /\ Matches(files, chan[c], k)
        /\ DOMAIN files' = DOMAIN files
        /\ \A j \in DOMAIN files :
             /\ files'[j].name = files[j].name /\ files'[j].start = files[j].start
             /\ j # k => files'[j] = files[j]
        /\ files'[k].len = chan[c].ext
  BY <1>1, SavedFact
<1>4. files[k].name = n /\ files[k].start = chan[c].start
  BY <1>0, <1>3 DEF Matches
<1>5. \A d \in Channels : d # c => chan'[d] = chan[d] /\ buf'[d] = buf[d]
  BY <1>1
<1>6. \A s \in FirstSector .. DiskSize - 1 : s \notin SectorsHeld(chan[c]) => disk'[s] = disk[s]
  BY <1>1, FlushKeeps
<1>7. \A j \in DOMAIN files : files[j].name # n => files'[j] = files[j]
  BY <1>3, <1>4
<1>8. ASSUME NEW m \in DOMAIN Content, m # n
      PROVE  Content'[m] = Content[m]
  BY <1>2, <1>3, <1>5, <1>6, <1>0, <1>7, <1>8, OthersKept
<1>9. NotWritten(n)'
  <2> SUFFICES ASSUME NEW d \in Opened', chan'[d].name = n
               PROVE  ~CanWrite(d)'
    BY DEF NotWritten
  <2>1. d \in Opened /\ d # c /\ chan'[d] = chan[d]
    BY <1>2, <1>5 DEF Opened
  <2>2. chan[d].readOnly
    BY <1>0, <2>1 DEF FilesInv, Exclusive
  <2>. QED  BY <2>1, <2>2 DEF CanWrite
<1>10. Content'[n] = Content[n]
  <2>1. Content[n] = Stretch(chan[c].start, chan[c].ext, Flushed(c))
    BY <1>0 DEF View
  <2>2. Content'[n] = Stretch(files'[k].start, files'[k].len, disk')
    BY <1>3, <1>4, <1>9 DEF View, NotWritten
  <2>. QED  BY <1>1, <1>3, <1>4, <2>1, <2>2
<1>11. \A m : m \in DOMAIN Content' <=> m \in DOMAIN Content
  BY <1>3, SameNames
<1>12. Content' = Content
  BY <1>8, <1>10, <1>11, SameContent
<1>. QED  BY <1>2, <1>12

LEMMA FlushRefines ==
  ASSUME FilesInv, FilesInv', View, View', NEW c \in Channels, Flush(c)
  PROVE  Content' = Content /\ Handle' = Handle
<1> DEFINE n == chan[c].name
<1>1. /\ c \in Opened /\ files' = LengthSaved(c) /\ disk' = Flushed(c)
      /\ chan' = [chan EXCEPT ![c].dirty = FALSE] /\ buf' = buf
      /\ chan \in [Channels -> OpenChannel \cup {Closed}]
  BY DEF Flush, Ready, Opened, FilesInv, TypeOK
<1>2. chan[c] \in OpenChannel
  BY <1>1, ChannelFact DEF FilesInv
<1>3. /\ chan'[c] = [chan[c] EXCEPT !.dirty = FALSE]
      /\ \A d \in Channels : d # c => chan'[d] = chan[d] /\ buf'[d] = buf[d]
  BY <1>1
<1>4. /\ chan'[c].name = n /\ chan'[c].start = chan[c].start /\ chan'[c].ext = chan[c].ext
      /\ chan'[c].open /\ ~chan'[c].dirty /\ Hold(chan'[c]) = Hold(chan[c])
  <2>1. /\ chan'[c].name = chan[c].name /\ chan'[c].start = chan[c].start
        /\ chan'[c].ext = chan[c].ext /\ chan'[c].ptr = chan[c].ptr
        /\ chan'[c].readOnly = chan[c].readOnly /\ chan'[c].locked = chan[c].locked
        /\ chan'[c].dirty = FALSE
    BY <1>2, <1>3 DEF OpenChannel
  <2>2. chan'[c].open = chan[c].open
    BY <1>2, <1>3 DEF OpenChannel
  <2>3. chan[c].open /\ chan[c].name = n
    BY <1>1 DEF Opened
  <2>4. Hold(chan'[c]) = Hold(chan[c])
    BY <2>1 DEF Hold, Writable
  <2>. QED  BY <2>1, <2>2, <2>3, <2>4
<1>5. Opened' = Opened
  BY <1>1, <1>3, <1>4 DEF Opened
<1>6. Handle' = Handle
  <2>1. Handle' = [Handle EXCEPT ![c] = Hold(chan[c])]
    BY <1>1, <1>3, <1>4, <1>5, OneHandle
  <2>. QED  BY <1>1, <2>1, HandleFact
<1>7. PICK k \in DOMAIN files :
        /\ Matches(files, chan[c], k)
        /\ DOMAIN files' = DOMAIN files
        /\ \A j \in DOMAIN files :
             files'[j].name = files[j].name /\ (j # k => files'[j] = files[j])
  BY <1>1, SavedFact
<1>8. \A j \in DOMAIN files : files[j].name # n => files'[j] = files[j]
  BY <1>7 DEF Matches
<1>9. \A s \in FirstSector .. DiskSize - 1 : s \notin SectorsHeld(chan[c]) => disk'[s] = disk[s]
  BY <1>1, FlushKeeps
<1>10. ASSUME NEW m \in DOMAIN Content, m # n
       PROVE  Content'[m] = Content[m]
  BY <1>1, <1>3, <1>4, <1>7, <1>8, <1>9, <1>10, OthersKept
<1>11. Flushed(c)' = Flushed(c)
  BY <1>1, <1>4 DEF Flushed
<1>12. Content'[n] = Content[n]
  BY <1>1, <1>4, <1>5, <1>11, KeptByChannel
<1>13. Content' = Content
  BY <1>7, <1>10, <1>12, SameNames, SameContent
<1>. QED  BY <1>6, <1>13

LEMMA ReclaimRefines ==
  ASSUME FilesInv, FilesInv', View, View', Reclaim
  PROVE  Content' = Content /\ Handle' = Handle
<1> DEFINE Lost(h) == [h EXCEPT !.valid = FALSE, !.bufsec = NoSector]
<1>1. /\ chan' = [c \in Channels |-> IF chan[c].open THEN Lost(chan[c]) ELSE Closed]
      /\ UNCHANGED <<files, disk, buf>> /\ \A c \in Opened : ~chan[c].dirty
  BY Zenon DEF Reclaim
<1>2. ASSUME NEW c \in Opened
      PROVE  /\ c \in Channels /\ chan[c].open
             /\ Hold(Lost(chan[c])) = Hold(chan[c]) /\ Lost(chan[c]).open
             /\ Lost(chan[c]).name = chan[c].name /\ Lost(chan[c]).start = chan[c].start
             /\ Lost(chan[c]).ext = chan[c].ext /\ ~Lost(chan[c]).dirty
  <2>1. chan[c] \in OpenChannel /\ ~chan[c].dirty /\ c \in Channels /\ chan[c].open
    BY <1>1, ChannelFact, Zenon DEF FilesInv
  <2>. QED  BY <2>1 DEF OpenChannel, Hold, Writable
<1> HIDE DEF Lost
<1>3. Opened' = Opened /\ \A c \in Opened : chan'[c] = Lost(chan[c])
  <2>1. \A c \in Channels : c \in Opened => chan'[c] = Lost(chan[c]) /\ chan'[c].open
    BY <1>1, <1>2
  <2>2. \A c \in Channels : c \notin Opened => chan'[c] = Closed /\ ~Closed.open
    BY <1>1 DEF Opened, Closed
  <2>. QED  BY <2>1, <2>2 DEF Opened
<1>4. Handle' = Handle
  BY <1>2, <1>3, HandleFact, HandleNext
<1>5. ASSUME NEW m \in DOMAIN Content
      PROVE  Content'[m] = Content[m]
  <2>1. CASE \E d \in Opened : chan[d].name = m
    <3>1. PICK d \in Opened : chan[d].name = m
      BY <2>1
    <3>2. Flushed(d)' = Flushed(d)
      BY <1>1, <1>2, <1>3 DEF Flushed
    <3>. QED  BY <1>2, <1>3, <3>1, <3>2, KeptByChannel
  <2>2. CASE ~\E d \in Opened : chan[d].name = m
    <3>1. PICK k \in DOMAIN files : files[k].name = m
      BY DEF View
    <3>2. NotWritten(m) /\ NotWritten(m)'
      BY <1>2, <1>3, <2>2 DEF NotWritten
    <3>. QED  BY <1>1, <3>1, <3>2, KeptOnDisk
  <2>. QED  BY <2>1, <2>2
<1>. QED  BY <1>1, <1>4, <1>5, SameNames, SameContent
-----------------------------------------------------------------------------
(* Break.                                                                   *)
LEMMA WrittenFact ==
  ASSUME NEW n
  PROVE  n \notin Bytes!Written <=> NotWritten(n)
<1>1. /\ DOMAIN Handle = Opened
      /\ \A c \in Opened : Handle[c].writes = CanWrite(c) /\ Handle[c].name = chan[c].name
  BY DEF Handle
<1>. QED  BY <1>1 DEF Bytes!Written, NotWritten

LEMMA ForgetRefines ==
  ASSUME FilesInv, FilesInv', View, View', Forget, DOMAIN files' = DOMAIN files,
         \A k \in DOMAIN files : files'[k].name = files[k].name,
         \A k \in DOMAIN files : NotWritten(files[k].name) => files'[k] = files[k]
  PROVE  Bytes!Break
<1>1. Opened' = {} /\ job' = Idle /\ disk' = disk /\ got' = Done
  BY DEF Forget, Opened, Closed
<1>2. Handle' = [c \in {} |-> 0]
  BY <1>1, HandleNext
<1>3. \A n : n \in DOMAIN Content' <=> n \in DOMAIN Content
  BY SameNames
<1>4. DOMAIN Content' = DOMAIN Content
  BY <1>3
<1>5. ASSUME NEW n \in DOMAIN Content, n \notin Bytes!Written
      PROVE  Content'[n] = Content[n]
  <2>1. NotWritten(n) /\ NotWritten(n)'
    BY <1>1, <1>5, WrittenFact DEF NotWritten
  <2>2. PICK k \in DOMAIN files : files[k].name = n
    BY DEF View
  <2>3. files'[k] = files[k]
    BY <2>1, <2>2
  <2>. QED  BY <1>1, <2>1, <2>2, <2>3, KeptOnDisk
<1>6. Seek' = {} /\ got' = Bytes!Done
  BY <1>1, SeekFact DEF Done, Result, Bytes!Done
<1>. QED  BY <1>2, <1>4, <1>5, <1>6 DEF Bytes!Break

LEMMA BreakRefines ==
  ASSUME FilesInv, FilesInv', View, View', Break
  PROVE  Bytes!Break
BY ForgetRefines DEF Break

LEMMA BreakInCloseRefines ==
  ASSUME FilesInv, FilesInv', View, View', NEW c \in Channels, BreakInClose(c)
  PROVE  Bytes!Break
<1>1. c \in Opened /\ chan[c].grown /\ Forget /\ files' = LengthSaved(c)
  BY DEF BreakInClose, Opened
<1>2. PICK k \in DOMAIN files :
        /\ Matches(files, chan[c], k)
        /\ DOMAIN files' = DOMAIN files
        /\ \A j \in DOMAIN files :
             files'[j].name = files[j].name /\ (j # k => files'[j] = files[j])
  BY <1>1, SavedFact
<1>3. files[k].name = chan[c].name /\ CanWrite(c)
  BY <1>1, <1>2 DEF Matches, Writable, CanWrite
<1>4. ~NotWritten(files[k].name)
  BY <1>1, <1>3 DEF NotWritten
<1>. QED  BY <1>1, <1>2, <1>4, ForgetRefines

(* Extended, entry by entry.                                                *)
LEMMA LengthenedFact ==
  ASSUME FilesInv, NEW c \in Opened, CanWrite(c), Full(c) => RoomFor(c) # chan[c].alloc
  PROVE  \E k \in DOMAIN files :
           /\ Matches(files, chan[c], k)
           /\ DOMAIN Extended(c) = DOMAIN files
           /\ \A j \in DOMAIN files :
                /\ Extended(c)[j].name = files[j].name
                /\ j # k => Extended(c)[j] = files[j]
<1>1. PICK k \in DOMAIN files : Matches(files, chan[c], k) /\ At(chan[c].name) = k
  BY EntryOf
<1>2. CASE ~Full(c)
  BY <1>1, <1>2 DEF Extended
<1>3. CASE Full(c)
  <2> DEFINE len == RoomFor(c) * SectorSize
  <2>1. Good(files)
    BY DEF FilesInv, TypeOK
  <2>2. /\ RoomTaken(c) = RoomFor(c) /\ RoomTaken(c) \in Nat /\ RoomTaken(c) <= DiskSize
    BY <1>3, ExtendedFact DEF RoomTaken
  <2>3. len \in Nat /\ len <= RoomFor(c) * SectorSize
    BY <2>2, SizeAssumption
  <2>4. Extended(c) = SetLen(files, k, len)
    BY <1>1, <1>3 DEF Extended, SetLen
  <2> HIDE DEF len
  <2>5. len \in Extent
    BY <2>2, <2>3, ExtentFact
  <2>. QED  BY <1>1, <2>1, <2>4, <2>5, SetLenFact
<1>. QED  BY <1>2, <1>3

LEMMA BreakInPutRefines ==
  ASSUME FilesInv, FilesInv', View, View', NEW c \in Channels, BreakInPut(c)
  PROVE  Bytes!Break
<1>1. /\ c \in Opened /\ CanWrite(c) /\ Forget /\ files' = Extended(c)
      /\ RoomFor(c) # chan[c].alloc
  BY DEF BreakInPut, Opened
<1>2. PICK k \in DOMAIN files :
        /\ Matches(files, chan[c], k)
        /\ DOMAIN files' = DOMAIN files
        /\ \A j \in DOMAIN files :
             files'[j].name = files[j].name /\ (j # k => files'[j] = files[j])
  BY <1>1, LengthenedFact
<1>3. ~NotWritten(files[k].name)
  BY <1>1, <1>2 DEF NotWritten, Matches
<1>. QED  BY <1>1, <1>2, <1>3, ForgetRefines
-----------------------------------------------------------------------------
(* Opening, making, deleting and loading files.                             *)

(* A file whose entry, sectors and channels a step leaves alone.            *)
LEMMA KeptWith ==
  ASSUME FilesInv, View, View', NEW m \in DOMAIN Content, disk' = disk,
         \A d \in Opened : d \in Opened' /\ chan'[d] = chan[d] /\ buf'[d] = buf[d],
         \A d \in Opened' : d \notin Opened => chan'[d].name # m,
         \A k \in DOMAIN files : files[k].name = m => \E j \in DOMAIN files' : files'[j] = files[k]
  PROVE  Content'[m] = Content[m]
<1>1. CASE \E d \in Opened : chan[d].name = m
  BY <1>1, KeptByChannel DEF Flushed
<1>2. CASE ~\E d \in Opened : chan[d].name = m
  <2>1. PICK k \in DOMAIN files : files[k].name = m
    BY DEF View
  <2>2. PICK j \in DOMAIN files' : files'[j] = files[k]
    BY <2>1
  <2>3. NotWritten(m) /\ NotWritten(m)'
    BY <1>2 DEF NotWritten
  <2>. QED  BY <2>1, <2>2, <2>3, KeptOnDisk
<1>. QED  BY <1>1, <1>2

(* A channel is taken for entry k, as it is in the catalogue afterwards.    *)
LEMMA TakeRefines ==
  ASSUME FilesInv, FilesInv', View, View', NEW c \in Channels \ Opened,
         NEW how \in {"in", "up", "out"}, NEW k \in DOMAIN files',
         TakeChannel(c, files'[k], how), UNCHANGED <<disk, buf>>,
         \A i \in DOMAIN files : \E j \in DOMAIN files' : files'[j] = files[i]
  PROVE  /\ got' = Bytes!Done
         /\ \A m \in DOMAIN Content : m # files'[k].name => Content'[m] = Content[m]
         /\ Content'[files'[k].name] =
              Stretch(files'[k].start, IF how = "out" THEN 0 ELSE files'[k].len, disk)
         /\ Handle' = Bytes!With(Handle, c,
              [name |-> files'[k].name, ptr |-> 0, alone |-> how # "in",
               writes |-> how # "in" /\ ~files'[k].locked])
<1> DEFINE f == files'[k]
           h == Fresh(f, how = "in", how = "out")
<1>1. chan \in [Channels -> OpenChannel \cup {Closed}] /\ chan' = [chan EXCEPT ![c] = h]
  BY DEF TakeChannel, FilesInv, TypeOK
<1>2. /\ h.open /\ h.name = f.name /\ h.start = f.start
      /\ h.ext = (IF how = "out" THEN 0 ELSE f.len) /\ ~h.dirty
      /\ Hold(h) = [name |-> f.name, ptr |-> 0, alone |-> how # "in",
                    writes |-> how # "in" /\ ~f.locked]
  BY DEF Fresh, Hold, Writable
<1> HIDE DEF h
<1>3. chan'[c] = h /\ \A d \in Channels : d # c => chan'[d] = chan[d]
  BY <1>1
<1>4. Opened' = Opened \cup {c} /\ c \notin Opened
  BY <1>2, <1>3 DEF Opened
<1>5. \A d \in Opened : d \in Channels /\ d # c
  BY <1>4 DEF Opened
<1>6. Handle' = Bytes!With(Handle, c, Hold(h))
  <2>1. Handle' = [d \in Opened \cup {c} |-> IF d = c THEN Hold(h) ELSE Hold(chan[d])]
    BY <1>3, <1>4, <1>5, HandleNext
  <2>. QED  BY <1>4, <2>1, HandleFact DEF Bytes!With
<1>7. ASSUME NEW m \in DOMAIN Content, m # f.name
      PROVE  Content'[m] = Content[m]
  <2>1. \A d \in Opened : d \in Opened' /\ chan'[d] = chan[d] /\ buf'[d] = buf[d]
    BY <1>3, <1>4, <1>5
  <2>2. \A d \in Opened' : d \notin Opened => chan'[d].name # m
    BY <1>2, <1>3, <1>4, <1>7
  <2>. QED  BY <2>1, <2>2, KeptWith
<1>8. Content'[f.name] = Stretch(f.start, IF how = "out" THEN 0 ELSE f.len, disk)
  <2>1. Flushed(c)' = disk
    BY <1>2, <1>3 DEF Flushed
  <2>2. c \in Opened'
    BY <1>4
  <2>3. Content'[chan'[c].name] = Stretch(chan'[c].start, chan'[c].ext, Flushed(c)')
    BY <2>2 DEF View
  <2>. QED  BY <1>2, <1>3, <2>1, <2>3
<1>9. got' = Bytes!Done
  BY DEF TakeChannel, Done, Result, Bytes!Done
<1>. QED  BY <1>2, <1>6, <1>7, <1>8, <1>9

LEMMA NoBytes ==
  ASSUME NEW start, NEW d
  PROVE  Stretch(start, 0, d) = <<>>
BY DEF Stretch

(* The channels of a file, as a program knows them.                         *)
LEMMA HoldersFact ==
  ASSUME NEW n
  PROVE  Bytes!Holders(n) = Using(n) /\ \A d \in Using(n) : Handle[d].alone = ~chan[d].readOnly
BY DEF Handle, Using, Bytes!Holders

LEMMA FindRefines ==
  ASSUME FilesInv, FilesInv', View, View', NEW n \in Names, NEW how \in {"in", "up", "out"},
         Find(n, how), ~Refuse
  PROVE  \E c \in Channels :
           \/ Bytes!OpenOut(c, n)
           \/ \E alone, writes \in BOOLEAN : Bytes!Open(c, n, alone, writes)
<1>1. PICK c \in Channels \ Opened : TakeChannel(c, files[At(n)], how)
  BY DEF Find
<1>2. /\ job = Idle /\ Exists(n) /\ UNCHANGED <<files, disk, buf, job>>
      /\ ~(how = "out" /\ files[At(n)].locked) /\ ~Conflict(n, how # "in")
  BY DEF Find
<1>3. PICK k \in DOMAIN files : files[k].name = n
  BY <1>2 DEF Exists
<1>4. At(n) = k
  BY <1>3, AtFact DEF FilesInv, TypeOK
<1> DEFINE f == files[k]
           writes == how # "in" /\ ~f.locked
<1>5. /\ got' = Bytes!Done
      /\ \A m \in DOMAIN Content : m # n => Content'[m] = Content[m]
      /\ Content'[n] = Stretch(f.start, IF how = "out" THEN 0 ELSE f.len, disk)
      /\ Handle' = Bytes!With(Handle, c,
           [name |-> n, ptr |-> 0, alone |-> how # "in", writes |-> writes])
  <2>1. TakeChannel(c, files'[k], how) /\ k \in DOMAIN files'
    BY <1>1, <1>2, <1>4
  <2>2. \A i \in DOMAIN files : \E j \in DOMAIN files' : files'[j] = files[i]
    BY <1>2
  <2>3. files'[k] = f /\ f.name = n
    BY <1>2, <1>3
  <2> HIDE DEF f
  <2>4. /\ got' = Bytes!Done
        /\ \A m \in DOMAIN Content : m # files'[k].name => Content'[m] = Content[m]
        /\ Content'[files'[k].name] =
             Stretch(files'[k].start, IF how = "out" THEN 0 ELSE files'[k].len, disk)
        /\ Handle' = Bytes!With(Handle, c,
             [name |-> files'[k].name, ptr |-> 0, alone |-> how # "in",
              writes |-> how # "in" /\ ~files'[k].locked])
    BY <1>2, <2>1, <2>2, TakeRefines
  <2>. QED  BY <2>3, <2>4
<1>6. \A m : m \in DOMAIN Content' <=> m \in DOMAIN Content
  BY <1>2, SameNames
<1>7. /\ Seek = {} /\ Seek' = Seek /\ n \in DOMAIN Content /\ c \in Channels
      /\ DOMAIN Handle = Opened
  BY <1>2, <1>3, SeekFact DEF View, Handle
<1>8. CASE how = "out"
  <2>1. Using(n) = {} /\ ~f.locked
    BY <1>2, <1>4, <1>8 DEF Conflict
  <2>2. Content'[n] = <<>>
    BY <1>5, <1>8, NoBytes
  <2>3. Content' = Bytes!With(Content, n, <<>>)
    <3>1. Content' = [m \in DOMAIN Content' |-> Content'[m]]
      BY DEF View
    <3>2. DOMAIN Content' = DOMAIN Content \cup {n}
      BY <1>6, <1>7
    <3>. QED  BY <1>5, <2>2, <3>1, <3>2 DEF Bytes!With
  <2>4. Bytes!Holders(n) = {}
    BY <2>1, HoldersFact
  <2>5. Handle' = Bytes!With(Handle, c,
          [name |-> n, ptr |-> 0, alone |-> TRUE, writes |-> TRUE])
    BY <1>5, <1>8, <2>1
  <2>6. Bytes!OpenOut(c, n)
    BY <1>1, <1>5, <1>7, <2>3, <2>4, <2>5 DEF Bytes!OpenOut
  <2>. QED  BY <1>7, <2>6
<1>9. CASE how # "out"
  <2>1. Content'[n] = Stretch(f.start, f.len, disk)
    BY <1>5, <1>9
  <2>2. Content[n] = Stretch(f.start, f.len, disk)
    <3>1. NotWritten(n)
      BY <1>2 DEF Conflict, NotWritten, Using, CanWrite
    <3>. QED  BY <1>3, <3>1 DEF View
  <2>3. Content' = Content
    BY <1>5, <1>6, <2>1, <2>2, SameContent
  <2>4. \A d \in Bytes!Holders(n) : ~(how # "in") /\ ~Handle[d].alone
    BY <1>2, HoldersFact DEF Conflict
  <2>5. (how # "in") \in BOOLEAN /\ writes \in BOOLEAN /\ (writes => how # "in")
    OBVIOUS
  <2> HIDE DEF writes
  <2>6. Bytes!Open(c, n, how # "in", writes)
    BY <1>1, <1>5, <1>7, <2>3, <2>4, <2>5 DEF Bytes!Open
  <2>. QED  BY <1>7, <2>5, <2>6
<1>. QED  BY <1>8, <1>9

LEMMA InsertedFact ==
  ASSUME NEW fs, Good(fs), NEW x \in 1 .. Len(fs) + 1, NEW f \in Entry,
         NEW g, g = InsertAt(fs, x, f)
  PROVE  /\ x \in DOMAIN g /\ g[x] = f
         /\ \A i \in DOMAIN fs : \E j \in DOMAIN g : g[j] = fs[i]
         /\ \A j \in DOMAIN g : g[j] = f \/ \E i \in DOMAIN fs : g[j] = fs[i]
<1>1. fs \in Seq(Entry) /\ Len(fs) \in Nat /\ DOMAIN fs = 1 .. Len(fs) /\ x \in Nat
  BY DEF Good
<1>2. /\ DOMAIN g = 1 .. Len(fs) + 1
      /\ \A j \in 1 .. Len(fs) + 1 :
           g[j] = IF j < x THEN fs[j] ELSE IF j = x THEN f ELSE fs[j - 1]
  <2>1. Inserted(g, fs, x, f)
    BY <1>1, InsertFact
  <2>. QED  BY <2>1, Zenon DEF Inserted
<1>3. ASSUME NEW i \in DOMAIN fs
      PROVE  \E j \in DOMAIN g : g[j] = fs[i]
  <2> DEFINE j == IF i < x THEN i ELSE i + 1
  <2>1. j \in DOMAIN g /\ g[j] = fs[i]
    BY <1>1, <1>2
  <2>. QED  BY <2>1
<1>4. ASSUME NEW j \in DOMAIN g, j # x
      PROVE  \E i \in DOMAIN fs : g[j] = fs[i]
  <2> DEFINE i == IF j < x THEN j ELSE j - 1
  <2>1. i \in DOMAIN fs /\ g[j] = fs[i]
    BY <1>1, <1>2, <1>4
  <2>. QED  BY <2>1
<1>5. x \in DOMAIN g /\ g[x] = f
  BY <1>1, <1>2
<1>. QED  BY <1>3, <1>4, <1>5

LEMMA FindNewRefines ==
  ASSUME FilesInv, FilesInv', View, View', NEW n \in Names, FindNew(n), ~Refuse
  PROVE  Bytes!Appear(n) \/ \E c \in Channels : Bytes!OpenOut(c, n)
<1>1. PICK y \in Gaps :
        /\ files' = InsertAt(files, y + 1, NewEntry(n, y))
        /\ \/ \E c \in Channels \ Opened : TakeChannel(c, NewEntry(n, y), "out")
           \/ got' = Error /\ UNCHANGED chan
  BY DEF FindNew, NewEntry
<1>2. job = Idle /\ ~Exists(n) /\ UNCHANGED <<disk, buf, job>>
  BY DEF FindNew
<1> DEFINE f == NewEntry(n, y)
<1>3. Good(files) /\ y + 1 \in 1 .. Len(files) + 1 /\ f \in Entry /\ f.name = n /\ f.locked = FALSE
  BY GapFact DEF FilesInv, TypeOK, NewEntry
<1> HIDE DEF f
<1>4. /\ y + 1 \in DOMAIN files' /\ files'[y + 1] = f
      /\ \A i \in DOMAIN files : \E j \in DOMAIN files' : files'[j] = files[i]
      /\ \A j \in DOMAIN files' : files'[j] = f \/ \E i \in DOMAIN files : files'[j] = files[i]
  BY <1>1, <1>3, InsertedFact DEF f
<1>5. \A m : m \in DOMAIN Content' <=> m \in DOMAIN Content \/ m = n
  <2>1. ASSUME NEW m, m \in DOMAIN Content
        PROVE  m \in DOMAIN Content'
    BY <1>4, <2>1 DEF View
  <2>2. n \in DOMAIN Content'
    BY <1>3, <1>4 DEF View
  <2>3. ASSUME NEW m, m \in DOMAIN Content', m # n
        PROVE  m \in DOMAIN Content
    <3>1. PICK j \in DOMAIN files' : files'[j].name = m
      BY <2>3 DEF View
    <3>2. PICK i \in DOMAIN files : files'[j] = files[i]
      BY <1>3, <1>4, <2>3, <3>1
    <3>. QED  BY <3>1, <3>2 DEF View
  <2>. QED  BY <2>1, <2>2, <2>3
<1>6. n \notin DOMAIN Content
  BY <1>2 DEF View, Exists
<1>7. Seek = {} /\ Seek' = Seek /\ DOMAIN Handle = Opened
  BY <1>2, SeekFact DEF Handle
<1>8. /\ Content = [m \in DOMAIN Content |-> Content[m]]
      /\ Content' = [m \in DOMAIN Content' |-> Content'[m]]
      /\ DOMAIN Content' = DOMAIN Content \cup {n}
  BY <1>5 DEF View
<1>9. ASSUME NEW c \in Channels \ Opened, TakeChannel(c, f, "out")
      PROVE  Bytes!OpenOut(c, n)
  <2>1. TakeChannel(c, files'[y + 1], "out")
    BY <1>4, <1>9
  <2>2. /\ got' = Bytes!Done
        /\ \A m \in DOMAIN Content : m # files'[y + 1].name => Content'[m] = Content[m]
        /\ Content'[files'[y + 1].name] =
             Stretch(files'[y + 1].start, IF "out" = "out" THEN 0 ELSE files'[y + 1].len, disk)
        /\ Handle' = Bytes!With(Handle, c,
             [name |-> files'[y + 1].name, ptr |-> 0, alone |-> "out" # "in",
              writes |-> "out" # "in" /\ ~files'[y + 1].locked])
    BY <1>2, <1>4, <2>1, TakeRefines
  <2>3. Content'[n] = <<>>
    BY <1>3, <1>4, <2>2, NoBytes
  <2>4. Content' = Bytes!With(Content, n, <<>>)
    BY <1>3, <1>4, <1>8, <2>2, <2>3 DEF Bytes!With
  <2>5. Handle' = Bytes!With(Handle, c,
          [name |-> n, ptr |-> 0, alone |-> TRUE, writes |-> TRUE])
    BY <1>3, <1>4, <2>2
  <2>6. Bytes!Holders(n) = {}
    <3>1. \A d \in Opened : chan[d].name # n
      BY <1>2, EntryOf
    <3>. QED  BY <3>1, HoldersFact DEF Using
  <2>. QED  BY <1>7, <1>9, <2>2, <2>4, <2>5, <2>6 DEF Bytes!OpenOut
<1>10. ASSUME got' = Error, UNCHANGED chan
       PROVE  Bytes!Appear(n)
  <2>1. Opened' = Opened
    BY <1>10 DEF Opened
  <2>2. Handle' = Handle
    BY <1>10, <2>1, HandleFact, HandleNext
  <2>3. ASSUME NEW m \in DOMAIN Content
        PROVE  Content'[m] = Content[m]
    BY <1>2, <1>4, <1>10, <2>1, KeptWith
  <2>4. Bytes!Without(Content', {n}) = Content
    BY <1>6, <1>8, <2>3 DEF Bytes!Without
  <2>5. got' = Bytes!Error
    BY <1>10 DEF Error, Result, Bytes!Error
  <2>. QED  BY <1>5, <1>6, <1>7, <2>2, <2>4, <2>5 DEF Bytes!Appear
<1>. QED  BY <1>1, <1>9, <1>10 DEF f

LEMMA DeleteRefines ==
  ASSUME FilesInv, FilesInv', View, View', NEW n \in Names, Delete(n)
  PROVE  Bytes!Remove(n)
<1>1. /\ job = Idle /\ Exists(n) /\ Using(n) = {} /\ files' = RemoveAt(files, At(n))
      /\ got' = Done /\ UNCHANGED <<disk, chan, buf, job>>
  BY DEF Delete
<1>2. PICK k \in DOMAIN files : files[k].name = n
  BY <1>1 DEF Exists
<1>3. Good(files) /\ At(n) = k
  BY <1>2, AtFact DEF FilesInv, TypeOK
<1>4. /\ DOMAIN files' = 1 .. Len(files) - 1
      /\ \A j \in DOMAIN files' : files'[j] = IF j < k THEN files[j] ELSE files[j + 1]
  BY <1>1, <1>3, RemoveFact
<1>5. DOMAIN files = 1 .. Len(files) /\ Len(files) \in Nat /\ k \in Nat
  BY <1>3, EntryFact
<1>6. ASSUME NEW i \in DOMAIN files, i # k
      PROVE  \E j \in DOMAIN files' : files'[j] = files[i]
  <2> DEFINE j == IF i < k THEN i ELSE i - 1
  <2>1. j \in DOMAIN files' /\ files'[j] = files[i]
    BY <1>4, <1>5, <1>6
  <2>. QED  BY <2>1
<1>7. ASSUME NEW j \in DOMAIN files'
      PROVE  \E i \in DOMAIN files : i # k /\ files'[j] = files[i]
  <2> DEFINE i == IF j < k THEN j ELSE j + 1
  <2>1. i \in DOMAIN files /\ i # k /\ files'[j] = files[i]
    BY <1>4, <1>5
  <2>. QED  BY <2>1
<1>8. \A i \in DOMAIN files : files[i].name = n => i = k
  BY <1>2, <1>3 DEF Good
<1>9. \A m : m \in DOMAIN Content' <=> m \in DOMAIN Content /\ m # n
  BY <1>2, <1>6, <1>7, <1>8 DEF View
<1>10. Opened' = Opened
  BY <1>1 DEF Opened
<1>11. Handle' = Handle
  BY <1>1, <1>10, HandleFact, HandleNext
<1>12. ASSUME NEW m \in DOMAIN Content, m # n
       PROVE  Content'[m] = Content[m]
  <2>1. \A i \in DOMAIN files : files[i].name = m => \E j \in DOMAIN files' : files'[j] = files[i]
    BY <1>2, <1>6, <1>12
  <2>. QED  BY <1>1, <1>10, <2>1, KeptWith
<1>13. Content' = Bytes!Without(Content, {n})
  <2>1. Content' = [m \in DOMAIN Content' |-> Content'[m]]
    BY DEF View
  <2>2. DOMAIN Content' = DOMAIN Content \ {n}
    BY <1>9
  <2>. QED  BY <1>12, <2>1, <2>2 DEF Bytes!Without
<1>14. Bytes!Holders(n) = {} /\ got' = Bytes!Done /\ n \in DOMAIN Content
  BY <1>1, <1>2, HoldersFact DEF View, Done, Result, Bytes!Done
<1>15. Seek = {} /\ Seek' = Seek
  BY <1>1, SeekFact
<1>. QED  BY <1>11, <1>13, <1>14, <1>15 DEF Bytes!Remove

LEMMA SectorCount ==
  ASSUME NEW len \in Nat
  PROVE  SectorsOf(len) =
           IF len % SectorSize = 0 THEN len \div SectorSize ELSE (len \div SectorSize) + 1
BY SizeAssumption DEF SectorsOf

(* What the server is asked for is the file.                                *)
LEMMA ReadLengthFact ==
  ASSUME NEW f, f.len \in Nat
  PROVE  ReadLength(f) = f.len
<1> DEFINE q == f.len \div SectorSize
           last == f.len % SectorSize
           count == SectorsOf(f.len)
<1>1. /\ q \in Nat /\ last \in 0 .. SectorSize - 1 /\ f.len = SectorSize * q + last
      /\ count = (IF last = 0 THEN q ELSE q + 1) /\ SectorSize \in Nat
  BY DivideFact, SectorCount, SizeAssumption
<1>2. ReadLength(f) = IF last = 0 THEN count * SectorSize ELSE (count - 1) * SectorSize + last
  BY DEF ReadLength
<1> HIDE DEF q, last, count
<1>3. CASE last = 0
  BY <1>1, <1>2, <1>3
<1>4. CASE last # 0
  <2>1. count - 1 = q
    BY <1>1, <1>4
  <2>. QED  BY <1>1, <1>2, <1>4, <2>1
<1>. QED  BY <1>3, <1>4

LEMMA LoadRefines ==
  ASSUME FilesInv, FilesInv', View, View', NEW n \in Names, Load(n), ~Refuse
  PROVE  Bytes!Load(n)
<1>1. /\ job = Idle /\ Exists(n) /\ UNCHANGED <<files, disk, chan, buf, job>>
      /\ got' = Result("file", BytesFrom(files[At(n)], ReadLength(files[At(n)]), disk))
  BY DEF Load
<1>2. PICK k \in DOMAIN files : files[k].name = n
  BY <1>1 DEF Exists
<1>3. Good(files) /\ At(n) = k
  BY <1>2, AtFact DEF FilesInv, TypeOK
<1>4. ReadLength(files[k]) = files[k].len
  BY <1>3, EntryFact, ReadLengthFact
<1>5. got'.kind = "file" /\ got'.value = Stretch(files[k].start, files[k].len, disk)
  BY <1>1, <1>3, <1>4 DEF Result, BytesFrom, Stretch
<1>6. n \notin Bytes!Written => got'.value = Content[n]
  BY <1>2, <1>5, WrittenFact DEF View
<1>7. Content' = Content /\ Handle' = Handle
  BY <1>1, QuietStep
<1>8. Seek = {} /\ Seek' = Seek /\ n \in DOMAIN Content
  BY <1>1, <1>2, SeekFact DEF View
<1>. QED  BY <1>5, <1>6, <1>7, <1>8 DEF Bytes!Load
-----------------------------------------------------------------------------
(* Reading, and moving the pointer.                                         *)

(* A channel's place in its file, as a program knows it.                    *)
LEMMA SizeFact ==
  ASSUME FilesInv, View, NEW c \in Opened
  PROVE  /\ DOMAIN Handle = Opened /\ Handle[c] = Hold(chan[c])
         /\ Handle[c].name = chan[c].name /\ Handle[c].ptr = chan[c].ptr
         /\ Handle[c].writes = CanWrite(c)
         /\ chan[c].name \in DOMAIN Content
         /\ Content[chan[c].name] = Stretch(chan[c].start, chan[c].ext, Flushed(c))
         /\ Content[chan[c].name] \in Seq(Byte)
         /\ Bytes!Size(c) = chan[c].ext
         /\ \A p \in 0 .. chan[c].ext - 1 :
              Content[chan[c].name][p + 1] = Flushed(c)[SectorAt(c, p)][p % SectorSize]
<1>1. /\ DOMAIN Handle = Opened /\ Handle[c] = Hold(chan[c])
      /\ Handle[c].name = chan[c].name /\ Handle[c].ptr = chan[c].ptr
      /\ Handle[c].writes = CanWrite(c)
  BY HandleFact DEF Hold, CanWrite, Writable
<1>2. /\ chan[c].name \in DOMAIN Content
      /\ Content[chan[c].name] = Stretch(chan[c].start, chan[c].ext, Flushed(c))
  BY DEF View
<1>3. Holds(Flushed(c), chan[c].start, chan[c].alloc)
  BY BytesHeld, FlushedFact DEF Holds
<1> DEFINE start == chan[c].start
           len == chan[c].ext
           a == chan[c].alloc
           d == Flushed(c)
           b == Stretch(start, len, d)
<1>4. /\ b \in Seq(Byte) /\ Len(b) = len
      /\ \A p \in 1 .. len : b[p] = d[start + (p - 1) \div SectorSize][(p - 1) % SectorSize]
  <2>1. /\ start \in Nat /\ len \in Nat /\ a \in Nat /\ len <= a * SectorSize
        /\ Holds(d, start, a)
    BY <1>3, BytesHeld
  <2> HIDE DEF start, len, a, d
  <2>. QED  BY <2>1, StretchSeq
<1> HIDE DEF b
<1>5. ASSUME NEW p \in 0 .. chan[c].ext - 1
      PROVE  b[p + 1] = Flushed(c)[SectorAt(c, p)][p % SectorSize]
  <2>1. p + 1 \in 1 .. chan[c].ext /\ (p + 1) - 1 = p
    BY BytesHeld
  <2>2. b[p + 1] = Flushed(c)[chan[c].start + ((p + 1) - 1) \div SectorSize][((p + 1) - 1) % SectorSize]
    BY <1>4, <2>1
  <2>. QED  BY <2>1, <2>2 DEF SectorAt
<1>6. Content[chan[c].name] = b
  BY <1>2 DEF b
<1>. QED  BY <1>1, <1>2, <1>4, <1>5, <1>6 DEF Bytes!Size

(* A channel moves, and may write back what it has to write.                *)
LEMMA SameBytes ==
  ASSUME FilesInv, FilesInv', View, View', NEW c \in Opened, NEW h,
         chan' = [chan EXCEPT ![c] = h], h.open, h.name = chan[c].name,
         h.start = chan[c].start, h.ext = chan[c].ext, files' = files,
         \A d \in Channels : d # c => buf'[d] = buf[d],
         \A s \in FirstSector .. DiskSize - 1 : s \notin SectorsHeld(chan[c]) => disk'[s] = disk[s],
         Flushed(c)' = Flushed(c)
  PROVE  Content' = Content /\ Handle' = [Handle EXCEPT ![c] = Hold(h)]
<1>1. c \in Channels /\ chan \in [Channels -> OpenChannel \cup {Closed}]
  BY DEF Opened, FilesInv, TypeOK
<1>2. chan'[c] = h /\ \A d \in Channels : d # c => chan'[d] = chan[d]
  BY <1>1
<1>3. Opened' = Opened
  BY <1>1, <1>2 DEF Opened
<1>4. Handle' = [Handle EXCEPT ![c] = Hold(h)]
  BY <1>2, <1>3, OneHandle
<1>5. ASSUME NEW m \in DOMAIN Content, m # chan[c].name
      PROVE  Content'[m] = Content[m]
  BY <1>2, <1>5, OthersKept
<1>6. Content'[chan[c].name] = Content[chan[c].name]
  BY <1>2, <1>3, KeptByChannel
<1>. QED  BY <1>4, <1>5, <1>6, SameNames, SameContent

LEMMA GetRefines ==
  ASSUME PadsAtEnd, FilesInv, FilesInv', View, View', NEW c \in Channels, Get(c)
  PROVE  Bytes!Get(c)
<1> DEFINE p == chan[c].ptr
           old == chan[c]
           b == IF old.valid THEN buf[c] ELSE Loaded(c)
           h == [old EXCEPT !.ptr = p + 1, !.valid = Within(p + 1),
                            !.dirty = old.dirty /\ old.valid,
                            !.bufsec = IF old.valid THEN @ ELSE SectorAt(c, p)]
<1>1. /\ c \in Opened /\ job = Idle /\ p # old.ext /\ files' = files /\ job' = job
      /\ buf' = [buf EXCEPT ![c] = b] /\ disk' = (IF old.valid THEN disk ELSE Flushed(c))
      /\ got' = Result("byte", b[p % SectorSize])
  BY DEF Get, Ready, Opened
<1>2. /\ old \in OpenChannel /\ p \in 0 .. old.ext - 1
      /\ old.valid => old.bufsec = SectorAt(c, p) /\ old.bufsec # NoSector
  BY <1>1, PointerFact
<1>3. chan' = [chan EXCEPT ![c] = h] /\ buf \in [Channels -> Sector]
      /\ chan \in [Channels -> OpenChannel \cup {Closed}]
  <2>1. chan \in [Channels -> OpenChannel \cup {Closed}] /\ buf \in [Channels -> Sector]
    BY DEF FilesInv, TypeOK
  <2>. QED  BY <1>2, <2>1 DEF Get, OpenChannel
<1>4. /\ h.open /\ h.name = old.name /\ h.start = old.start /\ h.ext = old.ext
      /\ h.dirty = (old.dirty /\ old.valid) /\ (old.valid => h.bufsec = old.bufsec)
      /\ h.readOnly = old.readOnly /\ h.locked = old.locked /\ h.ptr = p + 1
  BY <1>2 DEF OpenChannel
<1> HIDE DEF h
<1>5. Flushed(c)' = Flushed(c)
  <2>1. chan'[c] = h
    BY <1>3
  <2>2. CASE old.valid
    <3>1. buf' = buf /\ disk' = disk
      BY <1>1, <1>3, <2>2
    <3>. QED  BY <1>4, <2>1, <2>2, <3>1 DEF Flushed
  <2>3. CASE ~old.valid
    BY <1>1, <1>4, <2>1, <2>3 DEF Flushed
  <2>. QED  BY <2>2, <2>3
<1>6. b = Flushed(c)[SectorAt(c, p)]
  BY <1>1, <1>2, FlushedFact DEF Loaded
<1>7. Content[old.name][p + 1] = Flushed(c)[SectorAt(c, p)][p % SectorSize]
  BY <1>1, <1>2, SizeFact
<1> HIDE DEF b
<1>8. /\ \A d \in Channels : d # c => buf'[d] = buf[d]
      /\ \A s \in FirstSector .. DiskSize - 1 : s \notin SectorsHeld(old) => disk'[s] = disk[s]
  BY <1>1, <1>3, FlushKeeps
<1>9. Content' = Content /\ Handle' = [Handle EXCEPT ![c] = Hold(h)]
  BY <1>1, <1>3, <1>4, <1>5, <1>8, SameBytes
<1>10. /\ DOMAIN Handle = Opened /\ Handle[c] = Hold(old) /\ Handle[c].name = old.name
       /\ Handle[c].ptr = p /\ Bytes!Size(c) = old.ext
  BY <1>1, SizeFact
<1>11. Handle' = [Handle EXCEPT ![c].ptr = @ + 1]
  <2>1. Hold(h) = [Hold(old) EXCEPT !.ptr = p + 1]
    BY <1>4 DEF Hold, Writable
  <2>. QED  BY <1>9, <1>10, <2>1
<1>12. got'.kind = "byte" /\ got'.value = Content[Handle[c].name][Handle[c].ptr + 1]
  BY <1>1, <1>6, <1>7, <1>10 DEF Result
<1>13. Seek = {} /\ Seek' = Seek
  BY <1>1, SeekFact
<1>14. Handle[c].ptr < Bytes!Size(c)
  BY <1>1, <1>2, <1>10, BytesHeld
<1>. QED  BY <1>1, <1>9, <1>10, <1>11, <1>12, <1>13, <1>14 DEF Bytes!Get

LEMMA GetAtEndRefines ==
  ASSUME FilesInv, FilesInv', View, View', NEW c \in Channels, GetAtEnd(c), ~Refuse
  PROVE  Bytes!GetAtEnd(c)
<1> DEFINE h == [chan[c] EXCEPT !.warned = TRUE]
<1>1. /\ c \in Opened /\ job = Idle /\ chan[c].ptr = chan[c].ext
      /\ UNCHANGED <<files, disk, buf, job>> /\ got' = Result("eof", 0)
  BY DEF GetAtEnd, Ready, Opened
<1>2. chan[c] \in OpenChannel /\ chan \in [Channels -> OpenChannel \cup {Closed}]
  BY <1>1, PointerFact DEF FilesInv, TypeOK
<1>3. chan' = [chan EXCEPT ![c] = h]
  BY <1>2 DEF GetAtEnd, OpenChannel
<1>4. /\ h.open /\ h.name = chan[c].name /\ h.start = chan[c].start /\ h.ext = chan[c].ext
      /\ h.ptr = chan[c].ptr /\ h.readOnly = chan[c].readOnly /\ h.locked = chan[c].locked
      /\ h.dirty = chan[c].dirty /\ h.bufsec = chan[c].bufsec
  BY <1>2 DEF OpenChannel
<1> HIDE DEF h
<1>5. Flushed(c)' = Flushed(c)
  BY <1>1, <1>2, <1>3, <1>4 DEF Flushed
<1>6. Content' = Content /\ Handle' = [Handle EXCEPT ![c] = Hold(h)]
  BY <1>1, <1>3, <1>4, <1>5, SameBytes
<1>7. Hold(h) = Hold(chan[c])
  BY <1>4 DEF Hold, Writable
<1>8. Handle' = Handle
  BY <1>1, <1>6, <1>7, HandleFact
<1>9. Seek = {} /\ Seek' = Seek /\ got' = [kind |-> "eof", value |-> 0]
  BY <1>1, SeekFact DEF Result
<1>. QED  BY <1>1, <1>6, <1>8, <1>9, SizeFact DEF Bytes!GetAtEnd

(* A channel of which only the pointer, $80 and $10 change.                 *)
Repointed(h, old, to) ==
  /\ h.open /\ h.name = old.name /\ h.start = old.start /\ h.ext = old.ext
  /\ h.ptr = to /\ h.readOnly = old.readOnly /\ h.locked = old.locked
  /\ h.dirty = old.dirty /\ h.bufsec = old.bufsec

LEMMA PointerRefines ==
  ASSUME FilesInv, FilesInv', View, View', NEW c \in Opened, NEW to,
         NEW h, Repointed(h, chan[c], to), chan' = [chan EXCEPT ![c] = h],
         UNCHANGED <<files, disk, buf>>
  PROVE  Content' = Content /\ Handle' = [Handle EXCEPT ![c].ptr = to]
<1>1. /\ chan[c] \in OpenChannel /\ c \in Channels
      /\ chan \in [Channels -> OpenChannel \cup {Closed}]
  BY PointerFact DEF FilesInv, TypeOK
<1>2. /\ h.open /\ h.name = chan[c].name /\ h.start = chan[c].start /\ h.ext = chan[c].ext
      /\ h.ptr = to /\ h.readOnly = chan[c].readOnly /\ h.locked = chan[c].locked
      /\ h.dirty = chan[c].dirty /\ h.bufsec = chan[c].bufsec
  BY DEF Repointed
<1>3. chan' = [chan EXCEPT ![c] = h]
  OBVIOUS
<1>4. Flushed(c)' = Flushed(c)
  BY <1>1, <1>2, <1>3 DEF Flushed
<1>5. Content' = Content /\ Handle' = [Handle EXCEPT ![c] = Hold(h)]
  BY <1>2, <1>3, <1>4, SameBytes
<1>6. Hold(h) = [Hold(chan[c]) EXCEPT !.ptr = to]
  BY <1>2 DEF Hold, Writable
<1>. QED  BY <1>5, <1>6, HandleFact

LEMMA SetToRefines ==
  ASSUME FilesInv, FilesInv', View, View', NEW c \in Opened, NEW to, chan' = SetTo(c, to),
         UNCHANGED <<files, disk, buf>>
  PROVE  Content' = Content /\ Handle' = [Handle EXCEPT ![c].ptr = to]
<1> DEFINE h == [chan[c] EXCEPT !.ptr = to, !.warned = FALSE,
                                !.valid = SectorAt(c, to) = chan[c].bufsec]
<1>1. chan[c] \in OpenChannel /\ c \in Channels /\ chan \in [Channels -> OpenChannel \cup {Closed}]
  BY PointerFact DEF FilesInv, TypeOK
<1>2. chan' = [chan EXCEPT ![c] = h]
  BY <1>1 DEF SetTo, OpenChannel
<1>3. Repointed(h, chan[c], to)
  BY <1>1 DEF Repointed, OpenChannel
<1> HIDE DEF h
<1>. QED  BY <1>2, <1>3, PointerRefines

LEMMA SetPtrRefines ==
  ASSUME FilesInv, FilesInv', View, View', NEW c \in Channels, NEW to \in Places, SetPtr(c, to)
  PROVE  Bytes!Seek(c, to)
<1>1. c \in Opened /\ job = Idle /\ UNCHANGED <<files, disk, buf>> /\ to \in Nat /\ got' = Done
  BY ByteAssumption DEF SetPtr, Ready, Opened
<1>2. /\ DOMAIN Handle = Opened /\ Bytes!Size(c) = chan[c].ext /\ chan[c].ext \in Nat
      /\ Seek = {} /\ got' = Bytes!Done
  BY <1>1, SizeFact, PointerFact, SeekFact DEF Done, Result, Bytes!Done
<1>3. CASE to <= chan[c].ext /\ chan' = SetTo(c, to) /\ UNCHANGED job
  <2>1. Content' = Content /\ Handle' = [Handle EXCEPT ![c].ptr = to]
    BY <1>1, <1>3, SetToRefines
  <2>2. Seek' = Seek
    BY <1>3, SeekFact
  <2>. QED  BY <1>1, <1>2, <1>3, <2>1, <2>2 DEF Bytes!Seek
<1>4. CASE /\ to > chan[c].ext /\ chan' = PtrToExt(c)
           /\ job' = [op |-> "fill", channel |-> c, to |-> to]
  <2> DEFINE e == chan[c].ext
             h == [chan[c] EXCEPT !.ptr = e]
  <2>1. chan' = [chan EXCEPT ![c] = h] /\ Repointed(h, chan[c], e)
    <3>1. chan[c] \in OpenChannel /\ chan \in [Channels -> OpenChannel \cup {Closed}]
      BY <1>1, PointerFact DEF FilesInv, TypeOK
    <3>2. chan' = [chan EXCEPT ![c] = h]
      BY <1>4, <3>1 DEF PtrToExt
    <3>3. Repointed(h, chan[c], e)
      BY <3>1 DEF Repointed, OpenChannel
    <3>. QED  BY <3>2, <3>3
  <2> HIDE DEF e, h
  <2>2. Content' = Content /\ Handle' = [Handle EXCEPT ![c].ptr = e]
    BY <1>1, <2>1, PointerRefines
  <2>3. Seek' = {[channel |-> c, to |-> to]}
    <3>1. job' # Idle /\ job'.channel = c /\ job'.to = to
      BY <1>4 DEF Idle
    <3>. QED  BY <3>1 DEF Seek
  <2>4. ~(to <= Bytes!Size(c)) /\ e = Bytes!Size(c)
    BY <1>1, <1>2, <1>4 DEF e
  <2>. QED  BY <1>1, <1>2, <2>2, <2>3, <2>4 DEF Bytes!Seek
<1>. QED  BY <1>3, <1>4 DEF SetPtr

(* What a call that fills a file up has answered so far.                    *)
NoErrorYet == job # Idle => got = Done

LEMMA FillingFact ==
  ASSUME FilesInv, job # Idle
  PROVE  /\ job.channel \in Opened /\ job.to \in Nat
         /\ chan[job.channel].ptr = chan[job.channel].ext
         /\ chan[job.channel].ext <= job.to
         /\ Seek = {[channel |-> job.channel, to |-> job.to]}
BY ByteAssumption DEF FilesInv, TypeOK, JobInv, Filling, Opened, Seek

LEMMA FillEndsRefines ==
  ASSUME FilesInv, FilesInv', View, View', NoErrorYet, FillEnds
  PROVE  Bytes!SeekEnds
<1>1. PICK c : c = job.channel
  OBVIOUS
<1>2. PICK to : to = job.to
  OBVIOUS
<1>3. /\ job # Idle /\ chan[c].ext >= to /\ chan' = SetTo(c, to) /\ job' = Idle
      /\ UNCHANGED <<files, disk, buf, got>>
  BY <1>1, <1>2 DEF FillEnds
<1>4. /\ c \in Opened /\ to \in Nat /\ chan[c].ptr = chan[c].ext /\ chan[c].ext <= to
      /\ Seek = {[channel |-> c, to |-> to]}
  BY <1>1, <1>2, <1>3, FillingFact
<1>5. chan[c].ext = to /\ chan[c].ptr = to
  BY <1>3, <1>4, PointerFact
<1>6. Content' = Content /\ Handle' = [Handle EXCEPT ![c].ptr = to]
  BY <1>3, <1>4, SetToRefines
<1>7. Handle' = Handle
  BY <1>4, <1>5, <1>6, HandleFact DEF Hold
<1>8. got' = Bytes!Done
  BY <1>3 DEF NoErrorYet, Done, Result, Bytes!Done
<1>9. Bytes!Size(c) = to
  BY <1>4, <1>5, SizeFact
<1>10. Seek' = {}
  BY <1>3, SeekFact
<1>. QED  BY <1>4, <1>6, <1>7, <1>8, <1>9, <1>10 DEF Bytes!SeekEnds

(* A locked file that was opened for update is not filled up.               *)
LEMMA FillRefused ==
  ASSUME FilesInv, FilesInv', View, View', job # Idle, ~CanWrite(job.channel),
         job' = Idle, got' = Error, UNCHANGED <<files, disk, chan, buf>>
  PROVE  Bytes!SeekEnds
<1>1. PICK c : c = job.channel
  OBVIOUS
<1>2. PICK to : to = job.to
  OBVIOUS
<1>3. c \in Opened /\ Seek = {[channel |-> c, to |-> to]}
  BY <1>1, <1>2, FillingFact
<1>4. ~Handle[c].writes
  BY <1>1, <1>3, SizeFact
<1>5. Content' = Content /\ Handle' = Handle
  BY QuietStep
<1>6. Seek' = {} /\ got' = Bytes!Error
  BY SeekFact DEF Error, Result, Bytes!Error
<1>. QED  BY <1>3, <1>4, <1>5, <1>6 DEF Bytes!SeekEnds

LEMMA CannotExtendRefines ==
  ASSUME FilesInv, FilesInv', View, View', NEW c \in Opened, CanWrite(c), CannotExtend(c)
  PROVE  Bytes!CannotExtend(c)
<1>1. Full(c) /\ CloseChannel(c) /\ got' = Error /\ job' = Idle /\ UNCHANGED buf
  BY DEF CannotExtend
<1>2. Content' = Content /\ Handle' = Bytes!Without(Handle, {c})
  BY <1>1, CloseRefines
<1>3. Handle[c].writes /\ Handle[c].ptr = Bytes!Size(c) /\ c \in DOMAIN Handle
  BY <1>1, SizeFact, PointerFact
<1>4. Seek' = {} /\ got' = Bytes!Error
  BY <1>1, SeekFact DEF Error, Result, Bytes!Error
<1>. QED  BY <1>2, <1>3, <1>4 DEF Bytes!CannotExtend
-----------------------------------------------------------------------------
(* Writing.                                                                 *)

(* G is the disk F with the byte at place p of a file set to v. What a new  *)
(* sector holds besides does not matter: the file ends with that byte.      *)
ByteSet(F, G, start, len, p, v) ==
  /\ G[start + p \div SectorSize][p % SectorSize] = v
  /\ \A q \in 0 .. len - 1 :
       q # p => G[start + q \div SectorSize][q % SectorSize] =
                F[start + q \div SectorSize][q % SectorSize]

LEMMA OneByte ==
  ASSUME NEW start \in Nat, NEW len \in Nat, NEW a \in Nat, len <= a * SectorSize,
         NEW p \in Nat, p <= len, p < a * SectorSize, NEW v \in Byte,
         NEW F, NEW G, NEW b, NEW g,
         b = Stretch(start, len, F), g = Stretch(start, IF p < len THEN len ELSE p + 1, G),
         b \in Seq(Byte), Len(b) = len, Holds(G, start, a), ByteSet(F, G, start, len, p, v)
  PROVE  g = IF p + 1 <= Len(b) THEN [b EXCEPT ![p + 1] = v] ELSE Append(b, v)
<1> DEFINE new == IF p < len THEN len ELSE p + 1
<1>1. /\ new \in Nat /\ new <= a * SectorSize
      /\ new = IF p < len THEN len ELSE len + 1
  <2>1. a * SectorSize \in Nat
    BY SizeAssumption
  <2>. QED  BY <2>1
<1>2. /\ g \in Seq(Byte) /\ Len(g) = new
      /\ \A q \in 1 .. new : g[q] = G[start + (q - 1) \div SectorSize][(q - 1) % SectorSize]
  <2>1. g = Stretch(start, new, G)
    OBVIOUS
  <2> HIDE DEF new
  <2>2. /\ Stretch(start, new, G) \in Seq(Byte) /\ Len(Stretch(start, new, G)) = new
        /\ \A q \in 1 .. new :
             Stretch(start, new, G)[q] =
               G[start + (q - 1) \div SectorSize][(q - 1) % SectorSize]
    BY <1>1, StretchSeq
  <2>. QED  BY <2>1, <2>2, Zenon
<1>3. \A q \in 1 .. len : b[q] = F[start + (q - 1) \div SectorSize][(q - 1) % SectorSize]
  BY DEF Stretch
<1>4. p + 1 \in 1 .. new /\ g[p + 1] = v
  <2>1. p + 1 \in 1 .. new /\ (p + 1) - 1 = p
    OBVIOUS
  <2> HIDE DEF new
  <2>2. g[p + 1] = G[start + ((p + 1) - 1) \div SectorSize][((p + 1) - 1) % SectorSize]
    BY <1>2, <2>1
  <2>. QED  BY <2>1, <2>2 DEF ByteSet
<1>5. ASSUME NEW q \in 1 .. len, q # p + 1
      PROVE  g[q] = b[q]
  <2>1. q \in 1 .. new /\ q - 1 \in 0 .. len - 1 /\ q - 1 # p
    BY <1>5
  <2> HIDE DEF new
  <2> DEFINE r == q - 1
  <2>2. /\ g[q] = G[start + r \div SectorSize][r % SectorSize]
        /\ b[q] = F[start + r \div SectorSize][r % SectorSize]
    BY <1>2, <1>3, <2>1
  <2>3. r \in 0 .. len - 1 /\ r # p
    BY <2>1
  <2> HIDE DEF r
  <2>. QED  BY <2>2, <2>3 DEF ByteSet
<1>6. CASE p < len
  <2> DEFINE e == [b EXCEPT ![p + 1] = v]
  <2>1. /\ e \in Seq(Byte) /\ Len(e) = len /\ p + 1 <= Len(b)
        /\ \A q \in 1 .. len : e[q] = IF q = p + 1 THEN v ELSE b[q]
    BY <1>6
  <2> HIDE DEF e
  <2>2. \A q \in 1 .. len : g[q] = e[q]
    BY <1>4, <1>5, <2>1
  <2>3. Len(g) = len
    BY <1>1, <1>2, <1>6
  <2>4. g = e
    BY <1>2, <2>1, <2>2, <2>3, SeqEqual
  <2>. QED  BY <2>1, <2>4 DEF e
<1>7. CASE ~(p < len)
  <2> DEFINE e == Append(b, v)
  <2>1. p = len /\ ~(p + 1 <= Len(b)) /\ Len(g) = len + 1
    BY <1>1, <1>2, <1>7
  <2>2. /\ e \in Seq(Byte) /\ Len(e) = len + 1 /\ e[len + 1] = v
        /\ \A q \in 1 .. len : e[q] = b[q]
    BY AppendProperties
  <2> HIDE DEF e
  <2>3. \A q \in 1 .. len + 1 : g[q] = e[q]
    BY <1>4, <1>5, <2>1, <2>2
  <2>4. g = e
    BY <1>2, <2>1, <2>2, <2>3, SeqEqual
  <2>. QED  BY <2>1, <2>4 DEF e
<1>. QED  BY <1>6, <1>7

(* Two places of a file in one sector are different bytes of it.            *)
LEMMA OtherByte ==
  ASSUME NEW p \in Nat, NEW q \in Nat, p # q, p \div SectorSize = q \div SectorSize
  PROVE  p % SectorSize # q % SectorSize
<1> DEFINE m == p \div SectorSize
           i == p % SectorSize
           n == q \div SectorSize
           j == q % SectorSize
<1>1. p = SectorSize * m + i /\ q = SectorSize * n + j /\ m = n
  BY DivideFact
<1> HIDE DEF m, n, i, j
<1>2. i # j
  BY <1>1
<1>. QED  BY <1>2 DEF i, j

(* Bytes before one on a sector boundary are in sectors before its own.     *)
LEMMA EarlierSector ==
  ASSUME NEW p \in Nat, p % SectorSize = 0, NEW q \in 0 .. p - 1
  PROVE  p \div SectorSize # q \div SectorSize
<1>1. p # q /\ q \in Nat
  OBVIOUS
<1>2. CASE p \div SectorSize = q \div SectorSize
  <2> DEFINE m == p \div SectorSize
             i == q % SectorSize
  <2>1. p = SectorSize * m + 0 /\ q = SectorSize * m + i /\ i \in Nat
    BY <1>1, <1>2, DivideFact
  <2>2. m \in Nat /\ SectorSize * m \in Nat
    BY DivideFact, SizeAssumption
  <2> HIDE DEF m, i
  <2>3. q >= p
    BY <2>1, <2>2
  <2>. QED  BY <2>3
<1>. QED  BY <1>2

LEMMA StoreRefines ==
  ASSUME PadsAtEnd, FilesInv, FilesInv', View, View', NEW c \in Opened, CanWrite(c),
         NEW v \in Byte, Store(c, v)
  PROVE  Bytes!Write(c, v)
<1> DEFINE p == chan[c].ptr
           old == chan[c]
           a == RoomTaken(c)
           grows == p + 1 >= old.ext
           fresh == old.ext % SectorSize = 0 /\ p = old.ext
           b == IF old.valid \/ fresh THEN buf[c] ELSE Loaded(c)
           s == SectorAt(c, p)
           len == IF grows THEN p + 1 ELSE old.ext
           h == [old EXCEPT !.ptr = p + 1, !.valid = Within(p + 1), !.dirty = TRUE,
                            !.bufsec = IF old.valid THEN old.bufsec ELSE s, !.alloc = a,
                            !.ext = len, !.grown = old.grown \/ grows]
<1>1. /\ old \in OpenChannel /\ c \in Channels /\ p \in Nat /\ old.ext \in Nat
      /\ old.alloc \in Nat /\ p <= old.ext /\ old.ext <= old.alloc * SectorSize
      /\ old.valid => old.bufsec = s /\ old.bufsec # NoSector
  BY PointerFact DEF CanWrite, Writable
<1>2. Full(c) => RoomFor(c) # old.alloc
  BY DEF Store
<1>3. a \in Nat /\ old.alloc <= a /\ p < a * SectorSize
  BY <1>2, ExtendedFact
<1>4. /\ files' = Extended(c) /\ disk' = (IF old.valid THEN disk ELSE Flushed(c))
      /\ buf' = [buf EXCEPT ![c] = [b EXCEPT ![p % SectorSize] = v]]
  BY DEF Store
<1>0. h = Stored(c) /\ a = RoomTaken(c) /\ h.bufsec = s
  <2>1. Stored(c).bufsec = s
    BY <1>1, StoredFields
  <2>2. [old EXCEPT !.ptr = p + 1, !.valid = Within(p + 1), !.dirty = TRUE,
                    !.bufsec = IF old.valid THEN old.bufsec ELSE s, !.alloc = a,
                    !.ext = len, !.grown = old.grown \/ grows] = Stored(c)
    BY DEF Stored
  <2>. QED  BY <2>1, <2>2
<1> HIDE DEF h, a
<1>5. /\ chan' = [chan EXCEPT ![c] = h] /\ buf \in [Channels -> Sector]
      /\ chan \in [Channels -> OpenChannel \cup {Closed}]
      /\ disk \in [FirstSector .. DiskSize - 1 -> Sector]
      /\ disk' \in [FirstSector .. DiskSize - 1 -> Sector]
  <2>1. /\ chan \in [Channels -> OpenChannel \cup {Closed}] /\ buf \in [Channels -> Sector]
        /\ disk \in [FirstSector .. DiskSize - 1 -> Sector]
        /\ disk' \in [FirstSector .. DiskSize - 1 -> Sector]
    BY DEF FilesInv, TypeOK
  <2>2. chan' = [chan EXCEPT ![c] = Stored(c)]
    BY <1>1, <2>1, StoredChannel
  <2>. QED  BY <1>0, <2>1, <2>2
<1>6. /\ h.open = TRUE /\ h.name = old.name /\ h.start = old.start /\ h.ptr = p + 1
      /\ h.ext = len /\ h.alloc = a /\ h.readOnly = old.readOnly /\ h.locked = old.locked
      /\ h.dirty = TRUE /\ h.bufsec = s
  BY <1>0, <1>1, StoredFields
<1> HIDE DEF len
<1>7. chan'[c] = h /\ \A d \in Channels : d # c => chan'[d] = chan[d] /\ buf'[d] = buf[d]
  BY <1>1, <1>4, <1>5
<1>8. Opened' = Opened
  BY <1>1, <1>6, <1>7 DEF Opened
<1>9. Flushed(c)' = [disk' EXCEPT ![s] = buf'[c]]
  BY <1>6, <1>7 DEF Flushed
<1>10. /\ s \in FirstSector .. DiskSize - 1 /\ a <= DiskSize /\ old.start + a <= DiskSize
       /\ old.start \in Nat /\ FirstSector <= old.start
  <2>1. Good(files') /\ ChannelGood(files', chan'[c])
    BY <1>8 DEF FilesInv, TypeOK
  <2>2. PICK k \in DOMAIN files' : Matches(files', chan'[c], k)
    BY <2>1 DEF ChannelGood, Listed
  <2>3. old.start + a <= Above(files', k) /\ Above(files', k) <= DiskSize /\ Above(files', k) \in Nat
    BY <1>6, <1>7, <2>1, <2>2, AboveFact DEF Matches
  <2>4. old.start \in Nat /\ FirstSector <= old.start
    BY <1>1, OpenFact
  <2>5. s \in old.start .. old.start + a - 1 /\ s \in Nat
    BY <1>1, <1>3, PlaceHeld DEF SectorAt
  <2>6. DiskSize \in Nat /\ FirstSector \in Nat
    BY SizeAssumption DEF FirstSector
  <2> HIDE DEF s
  <2>. QED  BY <1>3, <2>3, <2>4, <2>5, <2>6
<1>11. Holds(Flushed(c)', old.start, a)
  <2>1. buf'[c] \in Sector
    BY <1>1 DEF FilesInv, TypeOK
  <2>2. Flushed(c)' \in [FirstSector .. DiskSize - 1 -> Sector]
    BY <1>5, <1>9, <2>1
  <2>3. \A t \in old.start .. old.start + a - 1 : t \in FirstSector .. DiskSize - 1
    BY <1>3, <1>10, SizeAssumption DEF FirstSector
  <2>. QED  BY <2>2, <2>3 DEF Holds
<1>12. b \in Sector /\ (old.valid \/ ~fresh => b = Flushed(c)[s])
  <2>1. buf[c] \in Sector /\ Flushed(c)[s] \in Sector
    BY <1>1, <1>5, <1>10, FlushedFact
  <2>2. CASE old.valid
    BY <1>1, <2>1, <2>2, FlushedFact
  <2>3. CASE ~old.valid
    BY <2>1, <2>3 DEF Loaded
  <2>. QED  BY <2>2, <2>3
<1> HIDE DEF b
<1>13. /\ Flushed(c)'[s] = [b EXCEPT ![p % SectorSize] = v]
       /\ \A t \in FirstSector .. DiskSize - 1 : t # s => Flushed(c)'[t] = Flushed(c)[t]
  <2>1. buf'[c] = [b EXCEPT ![p % SectorSize] = v]
    BY <1>1, <1>4, <1>5
  <2>2. \A t \in FirstSector .. DiskSize - 1 : t # s => Flushed(c)'[t] = disk'[t]
    BY <1>5, <1>9
  <2>3. \A t \in FirstSector .. DiskSize - 1 : t # s => disk'[t] = Flushed(c)[t]
    <3>1. CASE ~old.valid
      BY <1>4, <3>1
    <3>2. CASE old.valid
      BY <1>1, <1>4, <1>5, <3>2 DEF Flushed
    <3>. QED  BY <3>1, <3>2
  <2>. QED  BY <1>5, <1>9, <1>10, <2>1, <2>2, <2>3
<1>14. ByteSet(Flushed(c), Flushed(c)', old.start, old.ext, p, v)
  <2>1. p % SectorSize \in 0 .. SectorSize - 1
    BY <1>1, DivideFact
  <2>2. Flushed(c)'[s][p % SectorSize] = v
    BY <1>12, <1>13, <2>1 DEF Sector
  <2>3. ASSUME NEW q \in 0 .. old.ext - 1, q # p
        PROVE  Flushed(c)'[SectorAt(c, q)][q % SectorSize] = Flushed(c)[SectorAt(c, q)][q % SectorSize]
    <3>1. q \in Nat /\ q < old.alloc * SectorSize
      <4>1. old.alloc * SectorSize \in Nat
        BY <1>1, PointerFact
      <4>. QED  BY <1>1, <4>1
    <3>2. q % SectorSize \in 0 .. SectorSize - 1
      BY <3>1, DivideFact
    <3>3. SectorAt(c, q) \in FirstSector .. DiskSize - 1
      <4>1. SectorAt(c, q) \in SectorsHeld(old)
        BY <1>1, <3>1, PlaceHeld DEF SectorAt, SectorsHeld
      <4>. QED  BY <4>1, HeldOnDisk
    <3>4. CASE SectorAt(c, q) # s
      BY <1>13, <3>3, <3>4
    <3>5. CASE SectorAt(c, q) = s
      <4>1. q \div SectorSize = p \div SectorSize
        <5> DEFINE m == q \div SectorSize
                   n == p \div SectorSize
        <5>1. old.start + m = old.start + n /\ m \in Nat /\ n \in Nat
          BY <1>1, <3>1, <3>5, DivideFact DEF SectorAt
        <5> HIDE DEF m, n
        <5>2. m = n
          BY <1>10, <5>1
        <5>. QED  BY <5>2 DEF m, n
      <4>2. p % SectorSize # q % SectorSize
        BY <1>1, <2>3, <3>1, <4>1, OtherByte
      <4>3. ~fresh
        BY <1>1, <2>3, <4>1, EarlierSector
      <4>4. b = Flushed(c)[s]
        BY <1>12, <4>3
      <4>. QED  BY <1>12, <1>13, <3>2, <3>5, <4>2, <4>4 DEF Sector
    <3>. QED  BY <3>4, <3>5
  <2>. QED  BY <2>2, <2>3 DEF ByteSet, SectorAt
<1>15. PICK n : n = old.name
  OBVIOUS
<1>16. /\ n \in DOMAIN Content /\ Content[n] = Stretch(old.start, old.ext, Flushed(c))
       /\ Content[n] \in Seq(Byte) /\ Len(Content[n]) = old.ext
       /\ DOMAIN Handle = Opened /\ Handle[c] = Hold(old) /\ Handle[c].name = n
       /\ Handle[c].ptr = p /\ Handle[c].writes
  BY <1>15, SizeFact DEF Bytes!Size
<1>17. Content'[n] = Stretch(old.start, len, Flushed(c)')
  <2>1. Content'[chan'[c].name] = Stretch(chan'[c].start, chan'[c].ext, Flushed(c)')
    BY <1>8 DEF View
  <2>. QED  BY <1>6, <1>7, <1>15, <2>1
<1>18. len = IF p < old.ext THEN old.ext ELSE p + 1
  BY <1>1 DEF len
<1>19. old.ext <= a * SectorSize
  <2>1. old.alloc * SectorSize <= a * SectorSize /\ a * SectorSize \in Nat
        /\ old.alloc * SectorSize \in Nat
    BY <1>1, <1>3, SizeAssumption
  <2>. QED  BY <1>1, <2>1
<1>20. Content'[n] =
         IF p + 1 <= Len(Content[n]) THEN [Content[n] EXCEPT ![p + 1] = v] ELSE Append(Content[n], v)
  <2> DEFINE F == Flushed(c)
             G == Flushed(c)'
             start == old.start
             ext == old.ext
             x == Content[n]
             y == Content'[n]
  <2>1. /\ start \in Nat /\ ext \in Nat /\ a \in Nat /\ ext <= a * SectorSize
        /\ p \in Nat /\ p <= ext /\ p < a * SectorSize
        /\ x = Stretch(start, ext, F) /\ y = Stretch(start, IF p < ext THEN ext ELSE p + 1, G)
        /\ x \in Seq(Byte) /\ Len(x) = ext /\ Holds(G, start, a)
        /\ ByteSet(F, G, start, ext, p, v)
    BY <1>1, <1>3, <1>10, <1>11, <1>14, <1>16, <1>17, <1>18, <1>19
  <2> HIDE DEF F, G, start, ext, x, y, p
  <2>2. y = IF p + 1 <= Len(x) THEN [x EXCEPT ![p + 1] = v] ELSE Append(x, v)
    BY <2>1, OneByte
  <2>. QED  BY <2>2 DEF x, y
<1>21. PICK k \in DOMAIN files :
         /\ Matches(files, old, k) /\ DOMAIN files' = DOMAIN files
         /\ \A j \in DOMAIN files :
              files'[j].name = files[j].name /\ (j # k => files'[j] = files[j])
  BY <1>2, <1>4, LengthenedFact
<1>22. \A j \in DOMAIN files : files[j].name # n => files'[j] = files[j]
  BY <1>15, <1>21 DEF Matches
<1>23. \A t \in FirstSector .. DiskSize - 1 : t \notin SectorsHeld(old) => disk'[t] = disk[t]
  BY <1>4, FlushKeeps
<1>24. ASSUME NEW m \in DOMAIN Content, m # n
       PROVE  Content'[m] = Content[m]
  BY <1>6, <1>7, <1>15, <1>21, <1>22, <1>23, <1>24, OthersKept
<1>25. Content' = [Content EXCEPT ![n] =
                     IF p + 1 <= Len(@) THEN [@ EXCEPT ![p + 1] = v] ELSE Append(@, v)]
  <2>1. /\ Content = [m \in DOMAIN Content |-> Content[m]]
        /\ Content' = [m \in DOMAIN Content' |-> Content'[m]]
    BY DEF View
  <2>2. DOMAIN Content' = DOMAIN Content
    <3>1. \A m : m \in DOMAIN Content' <=> m \in DOMAIN Content
      BY <1>21, SameNames
    <3>. QED  BY <3>1
  <2>. QED  BY <1>16, <1>20, <1>24, <2>1, <2>2
<1>26. Handle' = [Handle EXCEPT ![c].ptr = p + 1]
  <2>1. Hold(h) = [Hold(old) EXCEPT !.ptr = p + 1]
    BY <1>6 DEF Hold, Writable
  <2>2. Handle' = [Handle EXCEPT ![c] = Hold(h)]
    BY <1>7, <1>8, OneHandle
  <2>. QED  BY <1>16, <2>1, <2>2
<1>. QED  BY <1>16, <1>25, <1>26 DEF Bytes!Write

LEMMA PutRefines ==
  ASSUME PadsAtEnd, FilesInv, FilesInv', View, View', NEW c \in Channels, NEW v \in PutBytes,
         Put(c, v), ~Refuse
  PROVE  Bytes!CannotExtend(c) \/ \E w \in Byte : Bytes!Put(c, w)
<1>1. c \in Opened /\ job = Idle
  BY DEF Put, Ready, Opened
<1>2. CASE CanWrite(c) /\ CannotExtend(c)
  BY <1>1, <1>2, CannotExtendRefines
<1>3. CASE CanWrite(c) /\ Store(c, v) /\ got' = Done /\ UNCHANGED job
  <2>1. v \in Byte
    BY DEF Byte
  <2>2. Bytes!Write(c, v)
    BY <1>1, <1>3, <2>1, StoreRefines
  <2>3. Seek = {} /\ Seek' = Seek /\ got' = Bytes!Done /\ c \in DOMAIN Handle
    BY <1>1, <1>3, SeekFact, SizeFact DEF Done, Result, Bytes!Done
  <2>. QED  BY <2>1, <2>2, <2>3 DEF Bytes!Put
<1>. QED  BY <1>2, <1>3 DEF Put

LEMMA FillRefines ==
  ASSUME PadsAtEnd, FilesInv, FilesInv', View, View', Fill
  PROVE  \/ Bytes!SeekEnds \/ \E s \in Seek : Bytes!Pad(s)
         \/ \E c \in Channels : Bytes!CannotExtend(c)
<1>1. PICK c : c = job.channel
  OBVIOUS
<1>2. PICK to : to = job.to
  OBVIOUS
<1>3. job # Idle /\ chan[c].ext < to
  BY <1>1, <1>2 DEF Fill
<1>4. c \in Opened /\ c \in Channels /\ Seek = {[channel |-> c, to |-> to]}
  BY <1>1, <1>2, <1>3, FillingFact DEF Opened
<1>5. CASE ~CanWrite(c) /\ job' = Idle /\ got' = Error /\ UNCHANGED <<files, disk, chan, buf>>
  BY <1>1, <1>3, <1>5, FillRefused
<1>6. CASE CanWrite(c) /\ CannotExtend(c)
  BY <1>4, <1>6, CannotExtendRefines
<1>7. CASE CanWrite(c) /\ Store(c, 0) /\ UNCHANGED <<job, got>>
  <2>1. 0 \in Byte
    BY DEF Byte
  <2>2. Bytes!Write(c, 0)
    BY <1>4, <1>7, <2>1, StoreRefines
  <2>3. Seek' = Seek /\ Bytes!Size(c) = chan[c].ext
    BY <1>4, <1>7, SeekFact, SizeFact
  <2> DEFINE s == [channel |-> c, to |-> to]
  <2>4. Bytes!Pad(s)
    BY <1>3, <1>4, <1>7, <2>2, <2>3 DEF Bytes!Pad
  <2>. QED  BY <1>4, <2>4
<1>. QED  BY <1>1, <1>5, <1>6, <1>7 DEF Fill
-----------------------------------------------------------------------------
(* Every step is one of ByteFiles.                                          *)
LEMMA BytesInit == Init => Bytes!Init
<1> SUFFICES ASSUME Init
             PROVE  Bytes!Init
  OBVIOUS
<1>1. Opened = {} /\ job = Idle /\ got = Done
  BY DEF Init, Opened, Closed
<1>2. DOMAIN Content \subseteq Names
  BY DEF Content
<1>3. Handle = [c \in {} |-> 0]
  BY <1>1, HandleFact
<1>. QED  BY <1>1, <1>2, <1>3, SeekFact DEF Bytes!Init, Done, Result, Bytes!Done

LEMMA NoErrorStep ==
  ASSUME NoErrorYet, [Next]_vars
  PROVE  NoErrorYet'
<1>1. CASE UNCHANGED vars
  BY <1>1 DEF NoErrorYet, vars
<1>2. CASE Fill \/ FillEnds \/ Reclaim
  BY <1>2, Zenon DEF NoErrorYet, Fill, CannotExtend, FillEnds, Reclaim
<1>3. ASSUME NEW c \in Channels, NEW to \in Places, SetPtr(c, to)
      PROVE  NoErrorYet'
  BY <1>3 DEF NoErrorYet, SetPtr
<1>4. ASSUME NEW n \in Names, NEW how \in {"in", "up", "out"}, Find(n, how)
      PROVE  job' = Idle
  BY <1>4 DEF Find, Refuse
<1>5. ASSUME NEW n \in Names, FindNew(n) \/ Delete(n) \/ Load(n)
      PROVE  job' = Idle
  BY <1>5 DEF FindNew, Delete, Load, Refuse
<1>6. ASSUME NEW c \in Channels, Close(c) \/ Flush(c) \/ Get(c) \/ GetAtEnd(c)
      PROVE  job' = Idle
  BY <1>6 DEF Close, Flush, Get, GetAtEnd, Ready, Refuse
<1>7. ASSUME NEW c \in Channels, NEW v \in PutBytes, Put(c, v)
      PROVE  job' = Idle
  BY <1>7 DEF Put, Ready, Refuse, CannotExtend
<1>8. ASSUME Break \/ \E c \in Channels : BreakInClose(c) \/ BreakInPut(c)
      PROVE  job' = Idle
  BY <1>8 DEF Break, BreakInClose, BreakInPut, Forget
<1>. QED  BY <1>1, <1>2, <1>3, <1>4, <1>5, <1>6, <1>7, <1>8 DEF Next, NoErrorYet

LEMMA QuietRefines ==
  ASSUME Content' = Content, Handle' = Handle, job' = job, got' \in {Done, Error}
  PROVE  Bytes!NoEffect
BY SeekFact DEF Bytes!NoEffect, Bytes!Done, Bytes!Error, Done, Error, Result

LEMMA BytesStep ==
  ASSUME PadsAtEnd, FilesInv, FilesInv', NoErrorYet, [Next]_vars
  PROVE  [Bytes!Next]_Bytes!vars
<1>1. View /\ View'
  BY ViewHolds, ViewNext
<1>2. CASE UNCHANGED vars
  <2>1. Content' = Content /\ Handle' = Handle
    BY <1>1, <1>2, QuietStep DEF vars
  <2>. QED  BY <1>2, <2>1, SeekFact DEF vars, Bytes!vars
<1>3. CASE Refuse
  <2>1. Content' = Content /\ Handle' = Handle
    BY <1>1, <1>3, QuietStep DEF Refuse
  <2>. QED  BY <1>3, <2>1, QuietRefines DEF Refuse, Bytes!Next
<1>4. ASSUME NEW n \in Names, NEW how \in {"in", "up", "out"}, Find(n, how), ~Refuse
      PROVE  Bytes!Next
  BY <1>1, <1>4, FindRefines DEF Bytes!Next
<1>5. ASSUME NEW n \in Names, FindNew(n) \/ Delete(n) \/ Load(n), ~Refuse
      PROVE  Bytes!Next
  BY <1>1, <1>5, FindNewRefines, DeleteRefines, LoadRefines DEF Bytes!Next
<1>6. ASSUME NEW c \in Channels, Close(c)
      PROVE  Bytes!Next
  <2>1. c \in Opened /\ job = Idle /\ CloseChannel(c) /\ got' = Done /\ UNCHANGED <<buf, job>>
    BY <1>6 DEF Close, Ready, Opened
  <2>2. Content' = Content /\ Handle' = Bytes!Without(Handle, {c})
    BY <1>1, <2>1, CloseRefines
  <2>3. Seek = {} /\ Seek' = Seek /\ got' = Bytes!Done /\ c \in DOMAIN Handle
    BY <1>1, <2>1, SeekFact, SizeFact DEF Done, Result, Bytes!Done
  <2>4. Bytes!Close(c)
    BY <2>2, <2>3 DEF Bytes!Close
  <2>. QED  BY <2>4 DEF Bytes!Next
<1>7. ASSUME NEW c \in Channels, Flush(c)
      PROVE  Bytes!Next
  <2>1. Content' = Content /\ Handle' = Handle
    BY <1>1, <1>7, FlushRefines
  <2>. QED  BY <1>7, <2>1, QuietRefines DEF Flush, Bytes!Next
<1>8. CASE Reclaim
  <2>1. Content' = Content /\ Handle' = Handle
    BY <1>1, <1>8, ReclaimRefines
  <2>. QED  BY <1>8, <2>1, QuietRefines, Zenon DEF Reclaim, Bytes!Next
<1>9. ASSUME NEW c \in Channels, Get(c) \/ GetAtEnd(c), ~Refuse
      PROVE  Bytes!Next
  BY <1>1, <1>9, GetRefines, GetAtEndRefines DEF Bytes!Next
<1>10. ASSUME NEW c \in Channels, NEW v \in PutBytes, Put(c, v), ~Refuse
       PROVE  Bytes!Next
  BY <1>1, <1>10, PutRefines DEF Bytes!Next
<1>11. ASSUME NEW c \in Channels, NEW to \in Places, SetPtr(c, to)
       PROVE  Bytes!Next
  BY <1>1, <1>11, SetPtrRefines DEF Bytes!Next
<1>12. CASE Fill \/ FillEnds
  BY <1>1, <1>12, FillRefines, FillEndsRefines DEF Bytes!Next
<1>13. CASE Break \/ \E c \in Channels : BreakInClose(c) \/ BreakInPut(c)
  BY <1>1, <1>13, BreakRefines, BreakInCloseRefines, BreakInPutRefines DEF Bytes!Next
<1>. QED  BY <1>2, <1>3, <1>4, <1>5, <1>6, <1>7, <1>8, <1>9, <1>10, <1>11, <1>12, <1>13 DEF Next

(* OSFIND, OSBGET, OSBPUT, OSARGS and OSFILE's load are files of bytes:     *)
(* whatever is flushed, forgotten or moved in between, a program reads what *)
(* was written, and Break spoils only what was being written.               *)
THEOREM FilesOfBytes ==
  ASSUME MakesRoom, PadsAtEnd
  PROVE  Spec => ImplementsByteFiles
<1>1. Init => FilesInv /\ NoErrorYet
  BY FilesInit DEF Init, NoErrorYet
<1>2. FilesInv /\ NoErrorYet /\ [Next]_vars => FilesInv' /\ NoErrorYet'
  BY FilesStep, NoErrorStep
<1>3. Init => Bytes!Init
  BY BytesInit
<1>4. FilesInv /\ NoErrorYet /\ FilesInv' /\ [Next]_vars => [Bytes!Next]_Bytes!vars
  BY BytesStep
<1>. QED  BY <1>1, <1>2, <1>3, <1>4, PTL DEF Spec, ImplementsByteFiles, Bytes!Spec

LEMMA PrefixFact ==
  ASSUME NEW s \in Seq(Byte), NEW v \in Byte
  PROVE  IsPrefix(s, s) /\ IsPrefix(s, Append(s, v))
<1>1. Len(s) \in Nat /\ Len(Append(s, v)) = Len(s) + 1
  BY AppendProperties
<1>2. SubSeq(s, 1, Len(s)) = SubSeq(Append(s, v), 1, Len(s))
  <2> DEFINE x == SubSeq(s, 1, Len(s))
             t == Append(s, v)
             y == SubSeq(t, 1, Len(s))
  <2>1. x \in Seq(Byte) /\ Len(x) = Len(s) /\ \A i \in 1 .. Len(s) : x[i] = s[i]
    BY <1>1, SubSeqProperties
  <2>2. t \in Seq(Byte) /\ Len(t) = Len(s) + 1 /\ \A i \in 1 .. Len(s) : t[i] = s[i]
    BY AppendProperties
  <2> HIDE DEF t
  <2>3. y \in Seq(Byte) /\ Len(y) = Len(s) /\ \A i \in 1 .. Len(s) : y[i] = t[i]
    BY <1>1, <2>2, SubSeqProperties
  <2> HIDE DEF x, y
  <2>4. x = y
    BY <2>1, <2>2, <2>3, SeqEqual
  <2>. QED  BY <2>4 DEF x, y, t
<1>. QED  BY <1>1, <1>2 DEF IsPrefix

LEMMA BytesOfFact ==
  ASSUME NEW n \in Names
  PROVE  /\ Exists(n) <=> n \in DOMAIN Content
         /\ Exists(n) => BytesOf(n) = Content[n]
         /\ (Exists(n) => BytesOf(n) = Content[n])'
BY DEF Content

(* While PTR# is being set, a file that stays open only grows.              *)
LEMMA FillGrows ==
  ASSUME PadsAtEnd, FilesInv, FilesInv', View, View', Fill, NEW n \in DOMAIN Content
  PROVE  Content'[n] = Content[n] \/ \E v \in Byte : Content'[n] = Append(Content[n], v)
<1>1. PICK c : c = job.channel
  OBVIOUS
<1>2. job # Idle
  BY DEF Fill
<1>3. c \in Opened /\ chan[c].ptr = chan[c].ext
  BY <1>1, <1>2, FillingFact
<1>4. CASE UNCHANGED <<files, disk, chan, buf>>
  BY <1>4, QuietStep
<1>5. CASE CannotExtend(c)
  BY <1>3, <1>5, CloseRefines DEF CannotExtend
<1>6. CASE CanWrite(c) /\ Store(c, 0)
  <2>1. 0 \in Byte
    BY DEF Byte
  <2>2. Bytes!Write(c, 0)
    BY <1>3, <1>6, <2>1, StoreRefines
  <2> DEFINE m == Handle[c].name
             p == Handle[c].ptr + 1
  <2>3. m \in DOMAIN Content /\ ~(p <= Len(Content[m]))
    BY <1>3, SizeFact, PointerFact DEF Bytes!Size
  <2>4. Content' = [Content EXCEPT ![m] =
          IF p <= Len(Content[m]) THEN [Content[m] EXCEPT ![p] = 0] ELSE Append(Content[m], 0)]
    BY <2>2 DEF Bytes!Write
  <2> HIDE DEF m, p
  <2>5. Content' = [Content EXCEPT ![m] = Append(Content[m], 0)]
    BY <2>3, <2>4, Zenon
  <2>. QED  BY <2>1, <2>3, <2>5
<1>. QED  BY <1>1, <1>4, <1>5, <1>6 DEF Fill

LEMMA SeekStep ==
  ASSUME PadsAtEnd, FilesInv, FilesInv', [Next]_vars, job # Idle, NEW n \in Names,
         Exists(n), Using(n) # {}, Using(n)' = Using(n)
  PROVE  IsPrefix(BytesOf(n), BytesOf(n)')
<1>1. View /\ View'
  BY ViewHolds, ViewNext
<1>2. PICK d \in Opened : chan[d].name = n
  BY DEF Using
<1>3. n \in DOMAIN Content /\ BytesOf(n) = Content[n] /\ Content[n] \in Seq(Byte)
  BY <1>1, <1>2, SizeFact, BytesOfFact
<1>4. d \in Opened' /\ chan'[d].name = n
  BY <1>2 DEF Using
<1>5. Exists(n)' /\ BytesOf(n)' = Content'[n]
  <2>1. n \in DOMAIN Content'
    BY <1>1, <1>4 DEF View
  <2>2. Exists(n)'
    BY <1>1, <2>1 DEF View, Exists
  <2>. QED  BY <2>2, BytesOfFact
<1>6. Content'[n] = Content[n] \/ \E v \in Byte : Content'[n] = Append(Content[n], v)
  <2>1. CASE UNCHANGED vars
    BY <1>1, <2>1, QuietStep DEF vars
  <2>2. CASE Fill
    BY <1>1, <1>3, <2>2, FillGrows
  <2>3. CASE FillEnds
    <3>1. job.channel \in Opened /\ chan' = SetTo(job.channel, job.to) /\ UNCHANGED <<files, disk, buf>>
      BY <2>3, FillingFact DEF FillEnds
    <3>. QED  BY <1>1, <3>1, SetToRefines
  <2>4. CASE Break \/ \E c \in Channels : BreakInClose(c) \/ BreakInPut(c)
    <3>1. Forget
      BY <2>4 DEF Break, BreakInClose, BreakInPut
    <3>2. Opened' = {}
      BY <3>1 DEF Forget, Opened, Closed
    <3>. QED  BY <1>4, <3>2
  <2>5. ASSUME NEW m \in Names, NEW how \in {"in", "up", "out"}
        PROVE  ~Find(m, how)
    BY DEF Find
  <2>6. ASSUME NEW m \in Names
        PROVE  ~FindNew(m) /\ ~Delete(m) /\ ~Load(m)
    BY DEF FindNew, Delete, Load
  <2>7. ASSUME NEW c \in Channels
        PROVE  /\ ~Close(c) /\ ~Flush(c) /\ ~Get(c) /\ ~GetAtEnd(c)
               /\ \A v \in PutBytes : ~Put(c, v)
               /\ \A to \in Places : ~SetPtr(c, to)
    BY DEF Close, Flush, Get, GetAtEnd, Put, SetPtr, Ready
  <2>. QED  BY <2>1, <2>2, <2>3, <2>4, <2>5, <2>6, <2>7, Zenon DEF Next, Reclaim
<1> DEFINE x == Content[n]
           y == Content'[n]
<1>7. IsPrefix(x, y)
  <2>1. x \in Seq(Byte) /\ (y = x \/ \E v \in Byte : y = Append(x, v))
    BY <1>3, <1>6
  <2> HIDE DEF x, y
  <2>2. 0 \in Byte
    BY DEF Byte
  <2>3. CASE y = x
    <3>1. IsPrefix(x, x)
      BY <2>1, <2>2, PrefixFact
    <3>. QED  BY <2>3, <3>1, Zenon
  <2>4. CASE \E v \in Byte : y = Append(x, v)
    <3>1. PICK v \in Byte : y = Append(x, v)
      BY <2>4
    <3>2. IsPrefix(x, Append(x, v))
      BY <2>1, PrefixFact
    <3>. QED  BY <3>1, <3>2, Zenon
  <2>. QED  BY <2>1, <2>3, <2>4
<1>. QED  BY <1>3, <1>5, <1>7

(* Setting PTR# leaves the bytes a file has alone, for programs that set it *)
(* to EXT# before they set it beyond. Others lose bytes: see ptr_pad.       *)
THEOREM SeekKeeps ==
  ASSUME MakesRoom, PadsAtEnd
  PROVE  Spec => SeekKeepsBytes
<1>1. ASSUME FilesInv, FilesInv', [Next]_vars
      PROVE  [job # Idle =>
                \A n \in Names : Exists(n) /\ Using(n) # {} /\ Using(n)' = Using(n) =>
                  IsPrefix(BytesOf(n), BytesOf(n)')]_vars
  BY <1>1, SeekStep
<1>. QED  BY <1>1, FilesInvariant, PTL DEF Spec, SeekKeepsBytes
=============================================================================
