--------------------------- MODULE CatalogueProps ---------------------------
(***************************************************************************)
(* What the catalogue commands keep true, and that they implement          *)
(* FileStore.                                                              *)
(***************************************************************************)
EXTENDS Catalogue

Files == saved.files

Catalogues == [cycle: Nat, files: Seq(Entry)]

Jobs ==
  [op: {"idle"}] \cup [op: {"save"}, file: Entry, data: Contents] \cup
  [op: {"wipe", "destroy"}, names: SUBSET Names, next: Nat, ram: Catalogues] \cup
  [op: {"compact"}, next: Nat, to: Nat] \cup
  [op: {"move"}, next: Nat, to: Nat, from: Nat, len: Nat, done: Nat]

(* Every variable has its type; a job's search and move stay inside the    *)
(* catalogue (8296-82cf, 9afb-9bba).                                       *)
TypeOK ==
  /\ DOMAIN sectors = FirstSector .. MediaSize - 1
  /\ saved \in Catalogues /\ job \in Jobs
  /\ job.op \in {"wipe", "destroy"} => job.next \in 1 .. Len(job.ram.files) + 1
  /\ job.op = "compact" => job.next \in 0 .. Len(Files)
  /\ job.op = "move" => job.next \in 1 .. Len(Files)
  /\ DOMAIN channels \subseteq Channels
  /\ \A c \in DOMAIN channels : channels[c] \in Entry
  /\ writes \in BOOLEAN
  /\ breaks \in 0 .. MaxBreaks

(* The catalogue on the disk, which Break may leave there at any moment,   *)
(* lists distinct names in descending order of start sector without any    *)
(* overlap (createfile_2 relies on it to find a gap, 899d-89d5), and has   *)
(* no more entries than fit its sector.                                    *)
CatalogueSound == Descending(Files) /\ Distinct(Files) /\ Len(Files) <= MaxFiles

(* Every file lies between the catalogue and the end of the disk.          *)
FilesOnDisk == OnDisk(Files)

-----------------------------------------------------------------------------
(* What reading a file gives. While it is moved, the part that has arrived  *)
(* is at its new place and the rest still at the old one.                   *)
Body(k) ==
  [i \in 0 .. Files[k].len - 1 |->
     IF job.op = "move" /\ job.next = k
       THEN IF i < job.done THEN sectors[job.to + i] ELSE sectors[job.from + i]
       ELSE sectors[Files[k].start + i]]

Position(n) == CHOOSE k \in DOMAIN Files : Files[k].name = n

Store == [n \in {Files[k].name : k \in DOMAIN Files} |->
            [locked |-> Files[Position(n)].locked, body |-> Body(Position(n))]]

FS == INSTANCE FileStore WITH
        store   <- Store,
        writing <- IF job.op = "save" THEN {job.file.name} ELSE {},
        moving  <- IF job.op = "move" THEN {Files[job.next].name} ELSE {}

(* The commands implement FileStore: creating, deleting, renaming, packing  *)
(* and Break leave every file they do not name as it was, byte for byte,    *)
(* and no locked file is overwritten, renamed or removed.                   *)
ImplementsStore == FS!Spec

(* A command does what it is told to the files its arguments name, or, when *)
(* it refuses, nothing: what SAVE, DELETE, RENAME and ACCESS change is the  *)
(* file they are given, WIPE and DESTROY remove only files of the names     *)
(* they were started with, from a catalogue that shrinks under the search,  *)
(* and COMPACT and the rest change none.                                    *)
StartsAsTold ==
  /\ \A n \in Names :
       /\ Delete(n) => FS!Remove({n})
       /\ \A len \in Lengths, d \in Contents : Save(n, len, d) => FS!Create(n)
       /\ \A lock \in BOOLEAN : WriteInfo(n, lock) => FS!SetLocks({n}, lock)
  /\ \A a, b \in Names : Rename(a, b) => FS!Rename(a, b)
  /\ \A S \in SUBSET Names, lock \in BOOLEAN :
       Access(S, lock) => FS!SetLocks(S, lock)
  /\ ~Relabel /\ ~StartCompact

GoesOnAsTold ==
  /\ WipeStep \/ DestroyStep =>
       \E S \in SUBSET (job.names \cap DOMAIN Store) : FS!Remove(S)
  /\ CompactDone \/ CompactKeep \/ CompactLift \/ MoveChunk => Store' = Store

CommandsDoAsTold ==
  [][ \/ UNCHANGED FS!vars
      \/ Break
      \/ (job = Idle => StartsAsTold) /\ GoesOnAsTold ]_vars

(* A SAVE that ends well can be read back through the catalogue.            *)
SaveReadsBack ==
  [][ job.op = "save" /\ report' = "ok" =>
        Store'[job.file.name].body =
          [i \in 0 .. job.file.len - 1 |-> <<job.data, i>>] ]_vars

(* When COMPACT ends, the files that are not empty lie side by side from    *)
(* the first sector (9b16-9b3d report all the rest as free).                *)
Packed(files) ==
  \A k \in DOMAIN files : files[k].len > 0 =>
    \/ files[k].start = FirstSector
    \/ \E j \in DOMAIN files : files[j].len > 0 /\ End(files[j]) = files[k].start

CompactPacks ==
  [][ job.op = "compact" /\ job' = Idle /\ report' = "ok" => Packed(Files') ]_vars

(* A file that a channel reads stays where the channel found it, whatever   *)
(* commands come while it is open; only COMPACT, which does not ask, moves  *)
(* it (9ae3-9ae5).                                                          *)
HoldsIn(files, c) ==
  \E k \in DOMAIN files : /\ files[k].name = channels[c].name
                         /\ files[k].start = channels[c].start
                         /\ files[k].len = channels[c].len

Holds(c) == HoldsIn(Files, c)

OnlyCompactMovesOpenFiles ==
  [][ \A c \in DOMAIN channels \cap DOMAIN channels' :
        Holds(c) /\ job.op \notin {"compact", "move"} => Holds(c)' ]_vars

(* Every command ends.                                                      *)
CommandEnds == job # Idle ~> job = Idle
-----------------------------------------------------------------------------
(* The inductive invariant behind the safety properties. It needs SAVEs     *)
(* that fit an empty disk, since that is where the ROM does not ask.        *)
Fits == \A len \in Lengths : FirstSector + len <= DiskSize

(* The entries COMPACT has passed lie below the sector it has reached, and  *)
(* the files it has yet to look at above it.                                *)
PackedTo(next, to) ==
  /\ FirstSector <= to
  /\ \A k \in DOMAIN Files :
       /\ k > next => End(Files[k]) <= to
       /\ k <= next /\ Files[k].len > 0 => to <= Files[k].start

(* What a command knows between two steps, when its writes reach the disk.  *)
JobSound ==
  /\ job.op = "wipe" => Len(job.ram.files) <= Len(Files)
  /\ job.op = "destroy" =>
       /\ Good(job.ram.files)
       /\ \A c \in DOMAIN channels : Holds(c) => HoldsIn(job.ram.files, c)
  /\ job.op = "compact" /\ writes => PackedTo(job.next, job.to)
  /\ job.op = "move" /\ writes =>
       /\ PackedTo(job.next, job.to)
       /\ Files[job.next].start = job.to /\ Files[job.next].len = job.len

CatalogueInv == TypeOK /\ Good(Files) /\ JobSound
-----------------------------------------------------------------------------
(* What data need, besides, on a disk that stores (writes).                 *)

(* The files COMPACT has passed lie side by side from the first sector.     *)
Passed(next) == {k \in DOMAIN Files : k > next /\ Files[k].len > 0}

Reached(next, s) == s = FirstSector \/ \E j \in Passed(next) : End(Files[j]) = s

PackedAbove(next, to) ==
  /\ Reached(next, to)
  /\ \A k \in Passed(next) : Reached(next, Files[k].start)

(* A command and the disk agree between two steps about which files there   *)
(* are. WIPE and DESTROY work on a copy; only DESTROY's has fewer entries,  *)
(* and it still has the locked ones. A move goes down, and stays on the     *)
(* disk.                                                                    *)
JobAgrees ==
  /\ job.op = "save" => \E k \in DOMAIN Files : Files[k] = job.file
  /\ job.op = "wipe" => job.ram = saved
  /\ job.op = "destroy" =>
       LET ram == job.ram.files
       IN  /\ \A i \in DOMAIN ram : \E k \in DOMAIN Files : Files[k] = ram[i]
           /\ \A k \in DOMAIN Files :
                Files[k].locked \/ Files[k].name \notin job.names =>
                  \E i \in DOMAIN ram : ram[i] = Files[k]
  /\ job.op \in {"compact", "move"} => PackedAbove(job.next, job.to)
  /\ job.op = "move" =>
       /\ job.to < job.from /\ job.from + job.len <= DiskSize
       /\ job.done < job.len

StoreInv == CatalogueInv /\ writes /\ JobAgrees
=============================================================================
