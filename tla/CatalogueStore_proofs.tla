----------------------- MODULE CatalogueStore_proofs ------------------------
(***************************************************************************)
(* Theorems about the data the catalogue commands move, for every disk,    *)
(* buffer and set of names, on a disk that stores: the commands implement  *)
(* FileStore, a SAVE can be read back, and COMPACT packs.                  *)
(***************************************************************************)
EXTENDS Catalogue_proofs

Plain(s, f) == [i \in 0 .. f.len - 1 |-> s[f.start + i]]

(* What the mapped store is, without CHOOSE.                                *)
View ==
  /\ DOMAIN Store = {Files[k].name : k \in DOMAIN Files}
  /\ \A k \in DOMAIN Files :
       Store[Files[k].name] = [locked |-> Files[k].locked, body |-> Body(k)]

LEMMA ViewHolds == CatalogueInv => View
<1> SUFFICES ASSUME CatalogueInv PROVE View
  OBVIOUS
<1>1. Distinct(Files)
  BY DEF CatalogueInv, Good
<1>2. ASSUME NEW k \in DOMAIN Files
      PROVE  Position(Files[k].name) = k
  <2>1. Position(Files[k].name) \in DOMAIN Files
        /\ Files[Position(Files[k].name)].name = Files[k].name
    BY DEF Position
  <2>. QED  BY <1>1, <2>1 DEF Distinct
<1>3. DOMAIN Store = {Files[k].name : k \in DOMAIN Files}
  BY DEF Store
<1>4. ASSUME NEW k \in DOMAIN Files
      PROVE  Store[Files[k].name] = [locked |-> Files[k].locked, body |-> Body(k)]
  <2>1. Store[Files[k].name] =
          [locked |-> Files[Position(Files[k].name)].locked,
           body |-> Body(Position(Files[k].name))]
    BY DEF Store
  <2>. QED  BY <1>2, <2>1
<1>. QED  BY <1>3, <1>4 DEF View

LEMMA ViewNext == CatalogueInv' => View'
  BY ViewHolds, PTL

(* Every file of a catalogue outside S is in another one, as it is.         *)
Carried(files, gs, S) ==
  \A k \in DOMAIN files : files[k].name \notin S => \E j \in DOMAIN gs : gs[j] = files[k]

LEMMA PlainBody ==
  ASSUME NEW k, job.op # "move"
  PROVE  Body(k) = Plain(sectors, Files[k])
  BY DEF Body, Plain

LEMMA PlainBodyNext ==
  ASSUME NEW k, job'.op # "move"
  PROVE  Body(k)' = Plain(sectors', Files'[k])
  BY DEF Body, Plain

(* The file a move is about, read while the move is on its way.             *)
LEMMA MovedBody ==
  ASSUME NEW k, NEW to, NEW from, NEW done, NEW len,
         job.op = "move", job.next = k, job.to = to, job.from = from, job.done = done,
         Files[k].len = len
  PROVE  Body(k) = [i \in 0 .. len - 1 |->
                      IF i < done THEN sectors[to + i] ELSE sectors[from + i]]
  BY DEF Body

LEMMA MovedBodyNext ==
  ASSUME NEW k, NEW to, NEW from, NEW done, NEW len,
         job'.op = "move", job'.next = k, job'.to = to, job'.from = from, job'.done = done,
         Files'[k].len = len
  PROVE  Body(k)' = [i \in 0 .. len - 1 |->
                       IF i < done THEN sectors'[to + i] ELSE sectors'[from + i]]
  BY DEF Body

(* Any other file is read plainly.                                          *)
LEMMA OtherBody ==
  ASSUME NEW k, job.op = "move" => job.next # k
  PROVE  Body(k) = Plain(sectors, Files[k])
  BY DEF Body, Plain

LEMMA OtherBodyNext ==
  ASSUME NEW k, job'.op = "move" => job'.next # k
  PROVE  Body(k)' = Plain(sectors', Files'[k])
  BY DEF Body, Plain

LEMMA KeepFiles ==
  ASSUME View, View', NEW S, job.op # "move", job'.op # "move",
         Carried(Files, Files', S), Carried(Files', Files, S),
         \A k \in DOMAIN Files :
           Files[k].name \notin S => Plain(sectors', Files[k]) = Plain(sectors, Files[k])
  PROVE  FS!KeepAllBut(S)
<1>1. ASSUME NEW m \in DOMAIN Store, m \notin S
      PROVE  m \in DOMAIN Store' /\ Store'[m] = Store[m]
  <2>1. PICK k \in DOMAIN Files : Files[k].name = m
    BY <1>1 DEF View
  <2>2. PICK j \in DOMAIN Files' : Files'[j] = Files[k]
    BY <1>1, <2>1 DEF Carried
  <2>3. Store[m] = [locked |-> Files[k].locked, body |-> Plain(sectors, Files[k])]
    BY <2>1, PlainBody DEF View
  <2>4. /\ m \in DOMAIN Store'
        /\ Store'[m] = [locked |-> Files'[j].locked, body |-> Plain(sectors', Files'[j])]
    BY <2>1, <2>2, PlainBodyNext DEF View
  <2>. QED  BY <1>1, <2>1, <2>2, <2>3, <2>4
<1>2. ASSUME NEW m \in DOMAIN Store', m \notin S
      PROVE  m \in DOMAIN Store
  <2>1. PICK j \in DOMAIN Files' : Files'[j].name = m
    BY <1>2 DEF View
  <2>2. PICK k \in DOMAIN Files : Files[k] = Files'[j]
    BY <1>2, <2>1 DEF Carried
  <2>. QED  BY <2>1, <2>2 DEF View
<1>. QED  BY <1>1, <1>2 DEF FS!KeepAllBut

LEMMA CarriedSelf ==
  ASSUME NEW files, NEW S
  PROVE  Carried(files, files, S)
BY DEF Carried

LEMMA CarriedMore ==
  ASSUME NEW files, NEW gs, NEW S, NEW T, S \subseteq T, Carried(files, gs, S)
  PROVE  Carried(files, gs, T)
BY DEF Carried

LEMMA CarriedOn ==
  ASSUME NEW files, NEW gs, NEW hs, NEW S, Carried(files, gs, S), Carried(gs, hs, S)
  PROVE  Carried(files, hs, S)
<1> SUFFICES ASSUME NEW k \in DOMAIN files, files[k].name \notin S
             PROVE  \E j \in DOMAIN hs : hs[j] = files[k]
  BY DEF Carried
<1>1. PICK i \in DOMAIN gs : gs[i] = files[k]
  BY DEF Carried
<1>2. PICK j \in DOMAIN hs : hs[j] = gs[i]
  BY <1>1 DEF Carried
<1>. QED  BY <1>1, <1>2

LEMMA RemoveCarries ==
  ASSUME NEW files \in Seq(Entry), NEW k \in DOMAIN files
  PROVE  /\ \A j \in DOMAIN files :
              j # k => \E i \in DOMAIN RemoveAt(files, k) : RemoveAt(files, k)[i] = files[j]
         /\ \A i \in DOMAIN RemoveAt(files, k) :
              \E j \in DOMAIN files : RemoveAt(files, k)[i] = files[j]
         /\ Carried(files, RemoveAt(files, k), {files[k].name})
         /\ Carried(RemoveAt(files, k), files, {})
<1> DEFINE r == RemoveAt(files, k)
<1>1. /\ Len(files) \in Nat /\ DOMAIN files = 1 .. Len(files) /\ k \in 1 .. Len(files)
  OBVIOUS
<1>2. /\ r \in Seq(Entry) /\ Len(r) = Len(files) - 1
      /\ \A j \in 1 .. Len(files) - 1 : r[j] = IF j < k THEN files[j] ELSE files[j + 1]
  BY <1>1, RemoveAtFacts, Zenon
<1> HIDE DEF r
<1>3. DOMAIN r = 1 .. Len(files) - 1
  BY <1>1, <1>2
<1>4. ASSUME NEW j \in DOMAIN files, j # k
      PROVE  \E i \in DOMAIN r : r[i] = files[j]
  <2>1. CASE j < k
    <3>1. j \in DOMAIN r
      BY <1>1, <1>3, <2>1
    <3>. QED  BY <1>2, <1>3, <2>1, <3>1
  <2>2. CASE ~(j < k)
    <3>1. j - 1 \in DOMAIN r /\ ~(j - 1 < k) /\ (j - 1) + 1 = j
      BY <1>1, <1>3, <1>4, <2>2
    <3>2. r[j - 1] = files[(j - 1) + 1]
      BY <1>2, <1>3, <3>1
    <3>. QED  BY <3>1, <3>2
  <2>. QED  BY <2>1, <2>2
<1>5. ASSUME NEW i \in DOMAIN r
      PROVE  \E j \in DOMAIN files : r[i] = files[j]
  <2>1. i \in DOMAIN files /\ i + 1 \in DOMAIN files
    BY <1>1, <1>3
  <2>. QED  BY <1>2, <1>3, <2>1
<1>6. Carried(files, r, {files[k].name})
  BY <1>4 DEF Carried
<1>7. Carried(r, files, {})
  BY <1>5 DEF Carried
<1>. QED  BY <1>4, <1>5, <1>6, <1>7 DEF r

LEMMA InsertCarries ==
  ASSUME NEW files \in Seq(Entry), NEW i \in 1 .. Len(files) + 1, NEW e \in Entry
  PROVE  /\ \E j \in DOMAIN InsertAt(files, i, e) : InsertAt(files, i, e)[j] = e
         /\ Carried(files, InsertAt(files, i, e), {})
         /\ Carried(InsertAt(files, i, e), files, {e.name})
<1> DEFINE r == InsertAt(files, i, e)
<1>1. Len(files) \in Nat /\ DOMAIN files = 1 .. Len(files)
  OBVIOUS
<1>2. /\ r \in Seq(Entry) /\ Len(r) = Len(files) + 1
      /\ \A j \in 1 .. Len(files) + 1 :
           r[j] = IF j < i THEN files[j] ELSE IF j = i THEN e ELSE files[j - 1]
  <2>1. Inserted(r, files, i, e)
    BY InsertEntry
  <2>. QED  BY <2>1, Zenon DEF Inserted
<1> HIDE DEF r
<1>3. DOMAIN r = 1 .. Len(files) + 1
  BY <1>1, <1>2
<1>4. \E j \in DOMAIN r : r[j] = e
  <2>1. i \in DOMAIN r /\ ~(i < i)
    BY <1>1, <1>3
  <2>. QED  BY <1>2, <1>3, <2>1
<1>5. Carried(files, r, {})
  <2> SUFFICES ASSUME NEW k \in DOMAIN files PROVE \E j \in DOMAIN r : r[j] = files[k]
    BY DEF Carried
  <2>1. CASE k < i
    <3>1. k \in DOMAIN r
      BY <1>1, <1>3
    <3>. QED  BY <1>2, <1>3, <2>1, <3>1
  <2>2. CASE ~(k < i)
    <3>1. k + 1 \in DOMAIN r /\ ~(k + 1 < i) /\ k + 1 # i /\ (k + 1) - 1 = k
      BY <1>1, <1>3, <2>2
    <3>2. r[k + 1] = files[(k + 1) - 1]
      BY <1>2, <1>3, <3>1
    <3>. QED  BY <3>1, <3>2
  <2>. QED  BY <2>1, <2>2
<1>6. Carried(r, files, {e.name})
  <2> SUFFICES ASSUME NEW k \in DOMAIN r, r[k].name # e.name
               PROVE  \E j \in DOMAIN files : files[j] = r[k]
    BY DEF Carried
  <2>1. CASE k < i
    <3>1. k \in DOMAIN files
      BY <1>1, <1>3, <2>1
    <3>. QED  BY <1>2, <1>3, <2>1, <3>1
  <2>2. CASE ~(k < i)
    <3>1. k # i
      BY <1>2, <1>3
    <3>2. k - 1 \in DOMAIN files
      BY <1>1, <1>3, <2>2, <3>1
    <3>. QED  BY <1>2, <1>3, <2>2, <3>1, <3>2
  <2>. QED  BY <2>1, <2>2
<1>. QED  BY <1>4, <1>5, <1>6 DEF r

-----------------------------------------------------------------------------
(* The command and the disk agree between two steps.                        *)

LEMMA AgreesStays ==
  ASSUME JobAgrees, UNCHANGED <<saved, job>>
  PROVE  JobAgrees'
BY DEF JobAgrees, PackedAbove, Reached, Passed, Files

LEMMA AgreesIdle ==
  ASSUME job' = Idle
  PROVE  JobAgrees'
BY DEF JobAgrees, Idle

LEMMA CreateAgrees ==
  ASSUME Fits, StoreInv, NEW files, Good(files),
         NEW n \in Names, Found(files, {n}) = {},
         NEW len \in Lengths, NEW d \in Contents, CreateFile(files, n, len, d)
  PROVE  JobAgrees'
<1>1. CASE Refuse("Catalogue full") \/ Refuse("Disk full")
  BY <1>1, AgreesStays DEF Refuse, StoreInv
<1>2. ASSUME Len(files) < MaxFiles,
             NEW y \in Slots(files, len), \A z \in Slots(files, len) : z <= y,
             NEW new, new = [name |-> n, start |-> GapStart(files, y) % Field,
                             len |-> len, locked |-> FALSE],
             PutCat(Bump(saved, InsertAt(files, y + 1, new))),
             job' = [op |-> "save", file |-> new, data |-> d]
      PROVE  JobAgrees'
  <2>1. y \in 0 .. Len(files) /\ files \in Seq(Entry) /\ Len(files) \in Nat
    BY <1>2, SlotFacts DEF Good
  <2>2. y + 1 \in 1 .. Len(files) + 1
    BY <2>1
  <2>3. new \in Entry /\ Good(InsertAt(files, y + 1, new))
    BY <1>2, GoodInsert
  <2>4. Files' = InsertAt(files, y + 1, new)
    BY <1>2, <2>3, PutCatGood DEF StoreInv, Files
  <2>5. \E k \in DOMAIN Files' : Files'[k] = new
    <3>1. \E k \in DOMAIN InsertAt(files, y + 1, new) : InsertAt(files, y + 1, new)[k] = new
      BY <2>1, <2>2, <2>3, InsertCarries
    <3>. QED  BY <2>4, <3>1
  <2>6. job'.op = "save" /\ job'.file = new
    BY <1>2
  <2>. QED  BY <2>5, <2>6 DEF JobAgrees
<1>. QED  BY <1>1, <1>2, Zenon DEF CreateFile

LEMMA SaveAgrees ==
  ASSUME Fits, StoreInv,
         NEW n \in Names, NEW len \in Lengths, NEW d \in Contents, Save(n, len, d)
  PROVE  JobAgrees'
<1>1. Good(saved.files)
  BY DEF StoreInv, CatalogueInv, Files
<1>2. CASE Found(saved.files, {n}) = {} /\ CreateFile(saved.files, n, len, d)
  BY <1>1, <1>2, CreateAgrees
<1>3. CASE \E k \in Found(saved.files, {n}) : CreateFile(RemoveAt(saved.files, k), n, len, d)
  <2>1. PICK k \in Found(saved.files, {n}) : CreateFile(RemoveAt(saved.files, k), n, len, d)
    BY <1>3
  <2>2. k \in DOMAIN saved.files /\ saved.files[k].name = n
    BY DEF Found
  <2>3. Good(RemoveAt(saved.files, k)) /\ Found(RemoveAt(saved.files, k), {n}) = {}
    BY <1>1, <2>2, GoodRemove, RemovedIsGone
  <2>. QED  BY <2>1, <2>3, CreateAgrees
<1>4. CASE Refuse("locked") \/ Refuse("open")
  BY <1>4, AgreesStays DEF Refuse, StoreInv
<1>. QED  BY <1>2, <1>3, <1>4 DEF Save

LEMMA ScanAgrees ==
  ASSUME StoreInv, NEW kind \in {"wipe", "destroy"}, NEW S \in SUBSET Names, Scan(kind, S)
  PROVE  JobAgrees'
<1>1. CASE Refuse("not found")
  BY <1>1, AgreesStays DEF Refuse, StoreInv
<1>2. CASE /\ job' = [op |-> kind, names |-> S, next |-> 1, ram |-> saved]
           /\ UNCHANGED saved
  <2>1. job'.op = kind /\ job'.ram = saved /\ Files' = Files
    BY <1>2 DEF Files
  <2>. QED  BY <1>2, <2>1 DEF JobAgrees, Files
<1>. QED  BY <1>1, <1>2, Zenon DEF Scan

LEMMA StartCompactAgrees ==
  ASSUME StoreInv, StartCompact
  PROVE  JobAgrees'
<1>1. job' = [op |-> "compact", next |-> Len(Files), to |-> FirstSector] /\ saved' = saved
  BY DEF StartCompact, Files
<1>2. Passed(job.next)' = {}
  <2>1. DOMAIN Files = 1 .. Len(Files) /\ Len(Files) \in Nat
    BY DEF StoreInv, CatalogueInv, Good
  <2>2. Files' = Files /\ job'.next = Len(Files)
    BY <1>1 DEF Files
  <2>. QED  BY <2>1, <2>2 DEF Passed
<1>3. PackedAbove(job.next, job.to)'
  BY <1>1, <1>2 DEF PackedAbove, Reached
<1>. QED  BY <1>1, <1>3 DEF JobAgrees

LEMMA WipeAgrees ==
  ASSUME StoreInv, WipeStep
  PROVE  JobAgrees'
<1>1. /\ job.op = "wipe" /\ job.ram = saved
      /\ job \in [op: {"wipe", "destroy"}, names: SUBSET Names,
                  next: Nat, ram: Catalogues]
      /\ saved \in Catalogues /\ Good(saved.files)
  BY JobKinds DEF WipeStep, StoreInv, CatalogueInv, TypeOK, JobAgrees, Files
<1>2. CASE job' = Idle
  BY <1>2, AgreesIdle
<1>3. CASE \E k \in DOMAIN job.ram.files : SkipEntry(k)
  <2>1. PICK k \in DOMAIN job.ram.files : SkipEntry(k)
    BY <1>3
  <2>2. job' = [job EXCEPT !.next = k + 1] /\ saved' = saved
    BY <2>1 DEF SkipEntry
  <2>3. job'.op = "wipe" /\ job'.ram = saved'
    BY <1>1, <2>2
  <2>. QED  BY <2>3 DEF JobAgrees
<1>4. CASE \E k \in DOMAIN job.ram.files :
             LET c == Bump(saved, RemoveAt(saved.files, k))
             IN  PutCat(c) /\ job' = [job EXCEPT !.ram = c, !.next = k]
  <2>1. PICK k \in DOMAIN job.ram.files :
          /\ PutCat(Bump(saved, RemoveAt(saved.files, k)))
          /\ job' = [job EXCEPT !.ram = Bump(saved, RemoveAt(saved.files, k)), !.next = k]
    BY <1>4, Zenon
  <2>2. saved' = Bump(saved, RemoveAt(saved.files, k))
    BY <2>1 DEF PutCat, StoreInv
  <2>3. job'.op = "wipe" /\ job'.ram = saved'
    BY <1>1, <2>1, <2>2
  <2>. QED  BY <2>3 DEF JobAgrees
<1>. QED  BY <1>2, <1>3, <1>4, Zenon DEF WipeStep, WipeFile, Abort

LEMMA DestroyAgrees ==
  ASSUME StoreInv, DestroyStep
  PROVE  JobAgrees'
<1> DEFINE ram == job.ram.files
<1>1. /\ job.op = "destroy"
      /\ job \in [op: {"wipe", "destroy"}, names: SUBSET Names,
                  next: Nat, ram: Catalogues]
      /\ ram \in Seq(Entry)
      /\ \A i \in DOMAIN ram : \E j \in DOMAIN Files : Files[j] = ram[i]
      /\ \A j \in DOMAIN Files :
           Files[j].locked \/ Files[j].name \notin job.names =>
             \E i \in DOMAIN ram : ram[i] = Files[j]
  BY JobKinds DEF DestroyStep, StoreInv, CatalogueInv, TypeOK, JobAgrees, JobSound, Good
<1>2. CASE job' = Idle
  BY <1>2, AgreesIdle
<1>3. CASE \E k \in DOMAIN ram : SkipEntry(k)
  <2>1. PICK k \in DOMAIN ram : SkipEntry(k)
    BY <1>3
  <2>2. job' = [job EXCEPT !.next = k + 1] /\ saved' = saved
    BY <2>1 DEF SkipEntry
  <2>3. /\ job'.op = "destroy" /\ job'.ram = job.ram /\ job'.names = job.names
        /\ Files' = Files
    BY <1>1, <2>2 DEF Files
  <2>. QED  BY <1>1, <2>3 DEF JobAgrees
<1>4. CASE \E k \in DOMAIN ram :
             ~ram[k].locked /\ ram[k].name \in job.names /\ DestroyFile(k)
  <2>1. PICK k \in DOMAIN ram :
          ~ram[k].locked /\ ram[k].name \in job.names /\ DestroyFile(k)
    BY <1>4
  <2>2. CASE Abort("open")
    BY <2>2, AgreesIdle DEF Abort
  <2>3. CASE /\ job' = [job EXCEPT !.ram.files = RemoveAt(@, k), !.next = k]
             /\ UNCHANGED saved
    <3> DEFINE r == RemoveAt(ram, k)
    <3>1. /\ \A j \in DOMAIN ram : j # k => \E i \in DOMAIN r : r[i] = ram[j]
          /\ \A i \in DOMAIN r : \E j \in DOMAIN ram : r[i] = ram[j]
      BY <1>1, <2>1, RemoveCarries
    <3> HIDE DEF r
    <3>2. job' = [job EXCEPT !.ram.files = r, !.next = k]
      BY <2>3 DEF r
    <3>3. /\ job'.op = "destroy" /\ job'.ram.files = r /\ job'.names = job.names
          /\ Files' = Files
      BY <1>1, <2>3, <3>2 DEF Catalogues, Files
    <3>4. \A i \in DOMAIN r : \E j \in DOMAIN Files : Files[j] = r[i]
      BY <1>1, <3>1
    <3>5. \A j \in DOMAIN Files :
            Files[j].locked \/ Files[j].name \notin job.names =>
              \E i \in DOMAIN r : r[i] = Files[j]
      <4> SUFFICES ASSUME NEW j \in DOMAIN Files,
                          Files[j].locked \/ Files[j].name \notin job.names
                   PROVE  \E i \in DOMAIN r : r[i] = Files[j]
        OBVIOUS
      <4>1. PICK h \in DOMAIN ram : ram[h] = Files[j]
        BY <1>1
      <4>2. h # k
        BY <2>1, <4>1
      <4>. QED  BY <3>1, <4>1, <4>2
    <3>. QED  BY <3>3, <3>4, <3>5 DEF JobAgrees
  <2>. QED  BY <2>1, <2>2, <2>3 DEF DestroyFile
<1>. QED  BY <1>2, <1>3, <1>4 DEF DestroyStep, Commit, IsNext, Ahead, Found

LEMMA CompactKeepAgrees ==
  ASSUME StoreInv, CompactKeep
  PROVE  JobAgrees'
<1> DEFINE n == job.next
           f == Files[n]
<1>1. /\ job \in [op: {"compact"}, next: Nat, to: Nat]
      /\ n \in 0 .. Len(Files) /\ n > 0
      /\ Files \in Seq(Entry) /\ Len(Files) \in Nat
      /\ PackedAbove(n, job.to)
  BY JobKinds DEF CompactKeep, StoreInv, CatalogueInv, TypeOK, JobAgrees, Good
<1>2. n \in DOMAIN Files /\ f \in Entry /\ f.len \in Nat /\ f.start \in Nat
  BY <1>1, EntryType
<1>3. /\ f.len = 0 \/ f.start = job.to
      /\ job' = [op |-> "compact", next |-> n - 1, to |-> job.to + f.len]
      /\ Files' = Files
  BY DEF CompactKeep, Files
<1>4. Passed(n - 1) = IF f.len > 0 THEN Passed(n) \cup {n} ELSE Passed(n)
  <2>1. \A k \in DOMAIN Files : k > n - 1 <=> k > n \/ k = n
    BY <1>1
  <2>2. ASSUME NEW k \in DOMAIN Files
        PROVE  k \in Passed(n - 1) <=> k \in Passed(n) \/ (k = n /\ f.len > 0)
    BY <2>1, <1>2 DEF Passed
  <2>. QED  BY <1>2, <2>2 DEF Passed
<1>5. PackedAbove(n - 1, job.to + f.len)
  <2>1. CASE f.len = 0
    <3>1. Passed(n - 1) = Passed(n) /\ job.to + f.len = job.to
      BY <1>1, <1>4, <2>1
    <3>. QED  BY <1>1, <3>1 DEF PackedAbove, Reached
  <2>2. CASE f.len > 0
    <3>1. Passed(n - 1) = Passed(n) \cup {n} /\ f.start = job.to
      BY <1>2, <1>3, <1>4, <2>2
    <3>2. End(f) = job.to + f.len
      BY <3>1 DEF End
    <3>. QED  BY <1>1, <3>1, <3>2 DEF PackedAbove, Reached
  <2>. QED  BY <1>2, <2>1, <2>2
<1>6. PackedAbove(job.next, job.to)'
  BY <1>3, <1>5 DEF PackedAbove, Reached, Passed
<1>7. job'.op = "compact"
  BY <1>3
<1>. QED  BY <1>6, <1>7 DEF JobAgrees

LEMMA CompactLiftAgrees ==
  ASSUME StoreInv, CompactLift
  PROVE  /\ JobAgrees'
         /\ Files' = [Files EXCEPT ![job.next].start = job.to]
<1> DEFINE n == job.next
           f == Files[n]
           r == [Files EXCEPT ![n].start = job.to]
<1>1. /\ job \in [op: {"compact"}, next: Nat, to: Nat]
      /\ n \in 0 .. Len(Files) /\ n > 0
      /\ Files \in Seq(Entry) /\ Len(Files) \in Nat /\ Good(Files)
      /\ PackedAbove(n, job.to) /\ PackedTo(n, job.to) /\ writes
  BY JobKinds DEF CompactLift, StoreInv, CatalogueInv, TypeOK, JobAgrees, JobSound, Good
<1>2. n \in DOMAIN Files /\ f \in Entry /\ f.len \in Nat /\ f.start \in Nat /\ job.to \in Nat
  BY <1>1, EntryType
<1>3. /\ f.len > 0 /\ f.start # job.to
      /\ PutCat(Bump(saved, r))
      /\ job' = [op |-> "move", next |-> n, to |-> job.to,
                 from |-> f.start, len |-> f.len, done |-> 0]
  BY DEF CompactLift, Files
<1>4. Files' = r
  BY <1>1, <1>3 DEF PutCat, Bump, Files
<1>5. job.to < f.start
  <2>1. job.to <= f.start
    BY <1>1, <1>2, <1>3 DEF PackedTo
  <2>. QED  BY <1>2, <1>3, <2>1
<1>6. f.start + f.len <= DiskSize
  BY <1>1, <1>2 DEF Good, OnDisk, End
<1>7. DOMAIN r = DOMAIN Files /\ \A k \in DOMAIN Files : k # n => r[k] = Files[k]
  BY <1>1
<1>8. job'.op = "move" /\ job'.next = n /\ job'.to = job.to /\ job'.from = f.start
      /\ job'.len = f.len /\ job'.done = 0
  BY <1>3
<1>9. PackedAbove(job.next, job.to)'
  <2> HIDE DEF r
  <2>1. \A k \in DOMAIN Files : k > n => r[k] = Files[k]
    BY <1>1, <1>7
  <2>2. Passed(job.next)' = Passed(n) /\ \A k \in Passed(n) : r[k] = Files[k]
    BY <1>4, <1>7, <1>8, <2>1 DEF Passed
  <2>3. \A s : Reached(n, s) <=> s = FirstSector \/ \E j \in Passed(n) : End(r[j]) = s
    BY <2>2 DEF Reached
  <2>. QED  BY <1>1, <1>4, <1>8, <2>2, <2>3 DEF PackedAbove, Reached
<1>10. /\ job'.to < job'.from /\ job'.from + job'.len <= DiskSize
       /\ job'.done < job'.len
  BY <1>2, <1>3, <1>5, <1>6, <1>8
<1>11. JobAgrees'
  BY <1>8, <1>9, <1>10 DEF JobAgrees
<1>. QED  BY <1>4, <1>11

(* A move never leaves the disk, so that the transfer cannot be refused.    *)
LEMMA MoveFacts ==
  ASSUME StoreInv, MoveChunk
  PROVE  /\ job.op = "move" /\ job.next \in DOMAIN Files
         /\ job \in [op: {"move"}, next: Nat, to: Nat, from: Nat, len: Nat, done: Nat]
         /\ Files[job.next] \in Entry
         /\ Files[job.next].start = job.to /\ Files[job.next].len = job.len
         /\ job.to < job.from /\ job.from + job.len <= DiskSize
         /\ Chunk \in Nat \ {0} /\ job.done + Chunk <= job.len
         /\ FirstSector <= job.to /\ PackedAbove(job.next, job.to)
         /\ sectors' = [s \in DOMAIN sectors |->
                          IF s \in job.to + job.done .. job.to + job.done + Chunk - 1
                            THEN sectors[s - (job.to + job.done) + (job.from + job.done)]
                          ELSE sectors[s]]
         /\ saved' = saved
         /\ job' = IF job.done + Chunk < job.len THEN [job EXCEPT !.done = job.done + Chunk]
                   ELSE [op |-> "compact", next |-> job.next - 1, to |-> job.to + job.len]
         /\ report' = report
<1>1. /\ job \in [op: {"move"}, next: Nat, to: Nat, from: Nat, len: Nat, done: Nat]
      /\ job.op = "move" /\ job.next \in 1 .. Len(Files)
      /\ Files \in Seq(Entry) /\ Len(Files) \in Nat
      /\ Files[job.next].start = job.to /\ Files[job.next].len = job.len
      /\ PackedTo(job.next, job.to) /\ PackedAbove(job.next, job.to)
      /\ job.to < job.from /\ job.from + job.len <= DiskSize /\ job.done < job.len
      /\ writes
  <2>1. job.op = "move" /\ job \in Jobs /\ job.next \in 1 .. Len(Files) /\ writes
    BY Zenon DEF MoveChunk, StoreInv, CatalogueInv, TypeOK
  <2>2. job \in [op: {"move"}, next: Nat, to: Nat, from: Nat, len: Nat, done: Nat]
    BY <2>1, JobKinds
  <2>3. /\ Files[job.next].start = job.to /\ Files[job.next].len = job.len
        /\ PackedTo(job.next, job.to)
    BY <2>1 DEF StoreInv, CatalogueInv, JobSound
  <2>4. /\ PackedAbove(job.next, job.to)
        /\ job.to < job.from /\ job.from + job.len <= DiskSize /\ job.done < job.len
    BY <2>1 DEF StoreInv, JobAgrees
  <2>5. Files \in Seq(Entry) /\ Len(Files) \in Nat
    BY DEF StoreInv, CatalogueInv, Good
  <2>. QED  BY <2>1, <2>2, <2>3, <2>4, <2>5
<1>2. job.next \in DOMAIN Files /\ Files[job.next] \in Entry /\ FirstSector <= job.to
  BY <1>1 DEF PackedTo
<1>3. job.to \in Nat /\ job.from \in Nat /\ job.len \in Nat /\ job.done \in Nat
  BY <1>1
<1>4. Chunk \in Nat \ {0} /\ job.done + Chunk <= job.len
  BY <1>1, <1>3, LimitAssumption DEF Chunk
<1>5. ~(job.from + job.done + Chunk > MediaSize)
  BY <1>1, <1>3, <1>4, SizeAssumption
<1>6. /\ PutSectors([s \in job.to + job.done .. job.to + job.done + Chunk - 1 |->
                       sectors[s - (job.to + job.done) + (job.from + job.done)]])
      /\ job' = IF job.done + Chunk < job.len THEN [job EXCEPT !.done = job.done + Chunk]
                ELSE [op |-> "compact", next |-> job.next - 1, to |-> job.to + job.len]
      /\ UNCHANGED <<saved, channels, report>>
  BY <1>5, Zenon DEF MoveChunk
<1>7. sectors' = [s \in DOMAIN sectors |->
                    IF s \in job.to + job.done .. job.to + job.done + Chunk - 1
                      THEN sectors[s - (job.to + job.done) + (job.from + job.done)]
                    ELSE sectors[s]]
  BY <1>1, <1>6 DEF PutSectors
<1>. QED  BY <1>1, <1>2, <1>4, <1>6, <1>7

LEMMA MoveAgrees ==
  ASSUME StoreInv, MoveChunk
  PROVE  JobAgrees'
<1> DEFINE n == job.next
           f == Files[n]
<1>1. /\ job \in [op: {"move"}, next: Nat, to: Nat, from: Nat, len: Nat, done: Nat]
      /\ n \in DOMAIN Files /\ f \in Entry
      /\ f.start = job.to /\ f.len = job.len
      /\ job.to < job.from /\ job.from + job.len <= DiskSize
      /\ Chunk \in Nat \ {0} /\ job.done + Chunk <= job.len
      /\ PackedAbove(n, job.to)
      /\ saved' = saved
      /\ job' = IF job.done + Chunk < job.len THEN [job EXCEPT !.done = job.done + Chunk]
                ELSE [op |-> "compact", next |-> n - 1, to |-> job.to + job.len]
  BY MoveFacts
<1>2. Files' = Files /\ DOMAIN Files \subseteq Nat
  BY <1>1 DEF Files, StoreInv, CatalogueInv, Good
<1>3. CASE job.done + Chunk < job.len
  <2>1. job' = [job EXCEPT !.done = job.done + Chunk]
    BY <1>1, <1>3
  <2>2. /\ job'.op = "move" /\ job'.next = n /\ job'.to = job.to /\ job'.from = job.from
        /\ job'.len = job.len /\ job'.done = job.done + Chunk
    BY <1>1, <2>1
  <2>3. PackedAbove(job.next, job.to)'
    BY <1>1, <1>2, <2>2 DEF PackedAbove, Reached, Passed
  <2>. QED  BY <1>1, <1>3, <2>2, <2>3 DEF JobAgrees
<1>4. CASE ~(job.done + Chunk < job.len)
  <2>1. job' = [op |-> "compact", next |-> n - 1, to |-> job.to + job.len]
    BY <1>1, <1>4
  <2>2. f.len > 0 /\ n \in Nat
    BY <1>1, <1>2
  <2>3. ASSUME NEW k \in DOMAIN Files
        PROVE  k \in Passed(n - 1) <=> k \in Passed(n) \/ k = n
    <3>1. k \in Nat
      BY <1>2
    <3>2. k > n - 1 <=> k > n \/ k = n
      BY <2>2, <3>1
    <3>. QED  BY <2>2, <3>2 DEF Passed
  <2>4. Passed(n - 1) = Passed(n) \cup {n}
    BY <1>1, <2>3 DEF Passed
  <2>5. End(f) = job.to + job.len
    BY <1>1 DEF End
  <2>6. PackedAbove(n - 1, job.to + job.len)
    BY <1>1, <2>4, <2>5 DEF PackedAbove, Reached
  <2>7. PackedAbove(job.next, job.to)'
    BY <1>2, <2>1, <2>6 DEF PackedAbove, Reached, Passed
  <2>8. job'.op = "compact"
    BY <2>1
  <2>. QED  BY <2>7, <2>8 DEF JobAgrees
<1>. QED  BY <1>3, <1>4

LEMMA CommandAgrees ==
  ASSUME Fits, StoreInv, job = Idle, Command
  PROVE  JobAgrees'
<1>1. CASE \E n \in Names, len \in Lengths, d \in Contents : Save(n, len, d)
  BY <1>1, SaveAgrees
<1>2. CASE \E S \in SUBSET Names : StartWipe(S) \/ StartDestroy(S)
  BY <1>2, ScanAgrees DEF StartWipe, StartDestroy
<1>3. CASE StartCompact
  BY <1>3, StartCompactAgrees
<1>4. CASE job' = Idle
  BY <1>4, AgreesIdle
<1>5. ASSUME NEW n \in Names, Delete(n) PROVE job' = Idle
  BY <1>5 DEF Delete, Unavailable, Refuse, Commit
<1>6. ASSUME NEW n \in Names, OpenIn(n) PROVE job' = Idle
  BY <1>6 DEF OpenIn, Refuse
<1>7. ASSUME NEW a \in Names, NEW b \in Names, Rename(a, b) PROVE job' = Idle
  BY <1>7 DEF Rename, Unavailable, Refuse, Commit
<1>8. ASSUME NEW S \in SUBSET Names, NEW lock \in BOOLEAN, Access(S, lock) PROVE job' = Idle
  BY <1>8 DEF Access, Refuse, Commit
<1>9. ASSUME NEW n \in Names, NEW lock \in BOOLEAN, WriteInfo(n, lock) PROVE job' = Idle
  BY <1>9 DEF WriteInfo, Refuse, Commit
<1>10. ASSUME NEW c \in DOMAIN channels, Close(c) PROVE job' = Idle
  BY <1>10 DEF Close
<1>11. CASE Relabel
  BY <1>11, AgreesIdle DEF Relabel, Commit
<1>. QED  BY <1>1, <1>2, <1>3, <1>4, <1>5, <1>6, <1>7, <1>8, <1>9, <1>10, <1>11 DEF Command

LEMMA StoreStep ==
  ASSUME Fits, StoreInv, [Next]_vars
  PROVE  StoreInv'
<1>1. CatalogueInv'
  BY NextInv DEF StoreInv
<1>2. writes'
  BY DEF StoreInv, Next, JobStep, Break, vars
<1>3. JobAgrees'
  <2>1. CASE UNCHANGED vars
    BY <2>1, AgreesStays DEF vars, StoreInv
  <2>2. CASE job = Idle /\ Command
    BY <2>2, CommandAgrees
  <2>3. CASE WriteData \/ CompactDone \/ Break
    BY <2>3, AgreesIdle, Zenon DEF WriteData, CompactDone, Break, Abort
  <2>4. CASE WipeStep \/ DestroyStep
    BY <2>4, WipeAgrees, DestroyAgrees
  <2>5. CASE CompactKeep \/ CompactLift \/ MoveChunk
    BY <2>5, CompactKeepAgrees, CompactLiftAgrees, MoveAgrees
  <2>. QED  BY <2>1, <2>2, <2>3, <2>4, <2>5 DEF Next, JobStep
<1>. QED  BY <1>1, <1>2, <1>3 DEF StoreInv

LEMMA StoreInit ==
  ASSUME Backends \subseteq {TRUE}, Init
  PROVE  StoreInv
<1>1. CatalogueInv
  BY InitInv
<1>2. writes
  BY DEF Init
<1>3. JobAgrees
  BY DEF Init, Idle, JobAgrees
<1>. QED  BY <1>1, <1>2, <1>3 DEF StoreInv

(* On a disk that stores, a command under way and the disk agree about      *)
(* which files there are, and what COMPACT has passed is packed.            *)
THEOREM StoreInvariant ==
  ASSUME Fits, Backends \subseteq {TRUE}
  PROVE  Spec => []StoreInv
<1>1. Init => StoreInv
  BY StoreInit
<1>2. StoreInv /\ [Next]_vars => StoreInv'
  BY StoreStep
<1>. QED  BY <1>1, <1>2, PTL DEF Spec

(* When COMPACT ends, the files that are not empty lie side by side from    *)
(* the first sector, whatever the order of their lengths (9ae3-9bba).       *)
THEOREM CompactedIsPacked ==
  ASSUME Fits, Backends \subseteq {TRUE}
  PROVE  Spec => CompactPacks
<1>1. ASSUME StoreInv, [Next]_vars
      PROVE  [job.op = "compact" /\ job' = Idle /\ report' = "ok" => Packed(Files')]_vars
  <2> SUFFICES ASSUME job.op = "compact", job' = Idle, report' = "ok", Next
               PROVE  Packed(Files')
    BY <1>1
  <2>1. job # Idle /\ job'.op = "idle"
    BY DEF Idle
  <2>2. CompactDone
    BY <2>1 DEF Next, JobStep, WriteData, WipeStep, DestroyStep, CompactKeep, CompactLift,
                MoveChunk, Break
  <2>3. /\ DOMAIN Files \subseteq 1 .. Len(Files) /\ Len(Files) \in Nat
        /\ PackedAbove(0, job.to) /\ Files' = Files
    BY <1>1, <2>2 DEF StoreInv, CatalogueInv, Good, JobAgrees, CompactDone, Abort, Files
  <2>4. Passed(0) = {k \in DOMAIN Files : Files[k].len > 0}
    BY <2>3 DEF Passed
  <2>. QED  BY <2>3, <2>4 DEF PackedAbove, Reached, Packed
<1>. QED  BY <1>1, StoreInvariant, PTL DEF Spec, CompactPacks

-----------------------------------------------------------------------------
(* Each step of a command is a step of FileStore, or none.                  *)

Resting == job.op \notin {"save", "move"}

LEMMA RestingQuiet ==
  /\ Resting => FS!Quiet
  /\ Resting /\ Resting' /\ breaks' = breaks =>
       UNCHANGED <<IF job.op = "save" THEN {job.file.name} ELSE {},
                   IF job.op = "move" THEN {Files[job.next].name} ELSE {}, breaks>>
BY DEF Resting, FS!Quiet

LEMMA SameStore ==
  ASSUME FS!KeepAllBut({})
  PROVE  Store' = Store
<1>1. Store = [m \in DOMAIN Store |-> Store[m]]
  BY DEF Store
<1>2. Store' = [m \in DOMAIN Store' |-> Store'[m]]
  BY DEF Store
<1>. QED  BY <1>1, <1>2 DEF FS!KeepAllBut

LEMMA ViewOf ==
  ASSUME View, NEW k \in DOMAIN Files
  PROVE  /\ Files[k].name \in DOMAIN Store
         /\ Store[Files[k].name].locked = Files[k].locked
         /\ Store[Files[k].name].body = Body(k)
<1>1. /\ Files[k].name \in DOMAIN Store
      /\ Store[Files[k].name] = [locked |-> Files[k].locked, body |-> Body(k)]
  BY DEF View
<1>. QED  BY <1>1

LEMMA ViewOfNext ==
  ASSUME View', NEW k \in DOMAIN Files'
  PROVE  /\ Files'[k].name \in DOMAIN Store'
         /\ Store'[Files'[k].name].locked = Files'[k].locked
         /\ Store'[Files'[k].name].body = Body(k)'
<1>1. /\ Files'[k].name \in DOMAIN Store'
      /\ Store'[Files'[k].name] = [locked |-> Files'[k].locked, body |-> Body(k)']
  BY DEF View
<1>. QED  BY <1>1

LEMMA RestStutters ==
  ASSUME View, View', Resting, Resting', Files' = Files, sectors' = sectors, breaks' = breaks
  PROVE  UNCHANGED FS!vars
<1>1. job.op # "move" /\ job'.op # "move"
  BY DEF Resting
<1>2. Carried(Files, Files', {}) /\ Carried(Files', Files, {})
  BY CarriedSelf
<1>3. FS!KeepAllBut({})
  BY <1>1, <1>2, KeepFiles
<1>. QED  BY <1>3, SameStore, RestingQuiet DEF FS!vars

LEMMA RemoveRefines ==
  ASSUME View, View', Resting, Resting', sectors' = sectors, breaks' = breaks,
         NEW S, Carried(Files, Files', S), Carried(Files', Files, {}),
         \A j \in DOMAIN Files' : Files'[j].name \notin S,
         \A k \in DOMAIN Files : Files[k].name \in S => ~Files[k].locked,
         S \in SUBSET DOMAIN Store
  PROVE  FS!Remove(S)
<1>1. job.op # "move" /\ job'.op # "move" /\ FS!Quiet
  BY RestingQuiet DEF Resting
<1>2. FS!KeepAllBut(S)
  <2>1. Carried(Files', Files, S)
    BY CarriedMore
  <2>. QED  BY <1>1, <2>1, KeepFiles
<1>3. \A m \in S : ~Store[m].locked
  <2> SUFFICES ASSUME NEW m \in S PROVE ~Store[m].locked
    OBVIOUS
  <2>1. PICK k \in DOMAIN Files : Files[k].name = m
    BY DEF View
  <2>2. ~Files[k].locked /\ Store[m].locked = Files[k].locked
    BY <2>1, ViewOf
  <2>. QED  BY <2>2
<1>4. \A m \in S : m \notin DOMAIN Store'
  BY DEF View
<1>5. DOMAIN Store' = DOMAIN Store \ S
  BY <1>2, <1>4 DEF FS!KeepAllBut
<1>. QED  BY <1>1, <1>2, <1>3, <1>5, RestingQuiet DEF FS!Remove

LEMMA LocksRefine ==
  ASSUME View, View', Resting, Resting', sectors' = sectors, breaks' = breaks,
         NEW S, NEW lock \in BOOLEAN,
         DOMAIN Files' = DOMAIN Files,
         \A k \in DOMAIN Files :
           /\ Files'[k].name = Files[k].name
           /\ Files'[k].start = Files[k].start
           /\ Files'[k].len = Files[k].len
           /\ Files'[k].locked = IF Files[k].name \in S THEN lock ELSE Files[k].locked
  PROVE  FS!SetLocks(S, lock)
<1>1. job.op # "move" /\ job'.op # "move" /\ FS!Quiet
  BY RestingQuiet DEF Resting
<1>2. ASSUME NEW k \in DOMAIN Files
      PROVE  Body(k)' = Body(k)
  <2>1. Body(k) = Plain(sectors, Files[k]) /\ Body(k)' = Plain(sectors', Files'[k])
    BY <1>1, PlainBody, PlainBodyNext
  <2>2. Plain(sectors', Files'[k]) = Plain(sectors, Files[k])
    BY DEF Plain
  <2>. QED  BY <2>1, <2>2
<1>3. DOMAIN Store' = DOMAIN Store
  BY DEF View
<1>4. ASSUME NEW m \in DOMAIN Store
      PROVE  /\ m \in S => Store'[m] = [locked |-> lock, body |-> Store[m].body]
             /\ m \notin S => Store'[m] = Store[m]
  <2>1. PICK k \in DOMAIN Files : Files[k].name = m
    BY DEF View
  <2>2. /\ Store[m] = [locked |-> Files[k].locked, body |-> Body(k)]
        /\ Store'[m] = [locked |-> Files'[k].locked, body |-> Body(k)']
    BY <2>1 DEF View
  <2>3. Body(k)' = Body(k)
    BY <1>2
  <2>. QED  BY <2>1, <2>2, <2>3
<1>5. FS!KeepAllBut(S)
  BY <1>3, <1>4 DEF FS!KeepAllBut
<1>. QED  BY <1>1, <1>3, <1>4, <1>5, RestingQuiet DEF FS!SetLocks

LEMMA SpoilsOnly ==
  ASSUME View, View', Files' = Files, NEW S,
         \A k \in DOMAIN Files : Files[k].name \notin S => Body(k)' = Body(k)
  PROVE  FS!MaySpoil(S)
<1>1. DOMAIN Store' = DOMAIN Store
  BY DEF View
<1>2. ASSUME NEW m \in DOMAIN Store
      PROVE  /\ Store'[m].locked = Store[m].locked
             /\ m \notin S => Store'[m] = Store[m]
  <2>1. PICK k \in DOMAIN Files : Files[k].name = m
    BY DEF View
  <2>2. /\ Store[m] = [locked |-> Files[k].locked, body |-> Body(k)]
        /\ Store'[m] = [locked |-> Files[k].locked, body |-> Body(k)']
    BY <2>1 DEF View
  <2>3. Store'[m].locked = Store[m].locked
    BY <2>2
  <2>4. ASSUME m \notin S PROVE Store'[m] = Store[m]
    <3>1. Body(k)' = Body(k)
      BY <2>1, <2>4
    <3>. QED  BY <2>2, <3>1
  <2>. QED  BY <2>3, <2>4
<1>. QED  BY <1>1, <1>2 DEF FS!MaySpoil, FS!KeepAllBut

LEMMA SameBodies ==
  ASSUME View, View', DOMAIN Files' = DOMAIN Files,
         \A k \in DOMAIN Files : /\ Files'[k].name = Files[k].name
                                 /\ Files'[k].locked = Files[k].locked
                                 /\ Body(k)' = Body(k)
  PROVE  Store' = Store
<1>1. DOMAIN Store' = DOMAIN Store
  BY DEF View
<1>2. ASSUME NEW m \in DOMAIN Store
      PROVE  Store'[m] = Store[m]
  <2>1. PICK k \in DOMAIN Files : Files[k].name = m
    BY DEF View
  <2>2. /\ Store[m] = [locked |-> Files[k].locked, body |-> Body(k)]
        /\ Store'[m] = [locked |-> Files'[k].locked, body |-> Body(k)']
    BY <2>1 DEF View
  <2>3. Files'[k].locked = Files[k].locked /\ Body(k)' = Body(k)
    BY <2>1
  <2>. QED  BY <2>2, <2>3
<1>3. FS!KeepAllBut({})
  BY <1>1, <1>2 DEF FS!KeepAllBut
<1>. QED  BY <1>3, SameStore

(* The sectors of a file are on the disk, and none is another file's.       *)
LEMMA OwnSectors ==
  ASSUME CatalogueInv, NEW k \in DOMAIN Files, NEW i \in 0 .. Files[k].len - 1
  PROVE  /\ Files[k] \in Entry /\ Files[k].start \in Nat /\ Files[k].len \in Nat
         /\ i \in Nat
         /\ Files[k].start + i \in DOMAIN sectors
         /\ \A h \in DOMAIN Files : h # k => Files[k].start + i \notin Extent(Files[h])
<1>1. Good(Files) /\ DOMAIN Files = 1 .. Len(Files) /\ Len(Files) \in Nat
      /\ DOMAIN sectors = FirstSector .. MediaSize - 1
  BY DEF CatalogueInv, TypeOK, Good
<1>2. \A h \in DOMAIN Files :
        Files[h] \in Entry /\ Files[h].start \in Nat /\ Files[h].len \in Nat
  BY <1>1, EntryType DEF Good
<1>3. i \in Nat /\ i < Files[k].len
  BY <1>2
<1>4. FirstSector <= Files[k].start /\ Files[k].start + Files[k].len <= DiskSize
  BY <1>1 DEF Good, OnDisk, End
<1>5. Files[k].start + i \in DOMAIN sectors
  <2>1. FirstSector \in Nat /\ MediaSize \in Nat /\ DiskSize \in Nat /\ DiskSize <= MediaSize
    BY SizeAssumption DEF FirstSector
  <2>2. Files[k].start \in Nat /\ Files[k].len \in Nat
    BY <1>2
  <2>3. Files[k].start + i \in FirstSector .. MediaSize - 1
    BY <1>3, <1>4, <2>1, <2>2
  <2>. QED  BY <1>1, <2>3
<1>6. ASSUME NEW h \in DOMAIN Files, h # k
      PROVE  Files[k].start + i \notin Extent(Files[h])
  <2>1. h < k \/ k < h
    BY <1>1, <1>6
  <2>2. \/ Files[k].start + Files[k].len <= Files[h].start
        \/ Files[h].start + Files[h].len <= Files[k].start
    BY <1>1, <2>1 DEF Good, Descending, End
  <2>. QED  BY <1>2, <1>3, <2>2 DEF Extent, End
<1>. QED  BY <1>2, <1>3, <1>5, <1>6

LEMMA CreateRefines ==
  ASSUME Fits, StoreInv, View, View', job = Idle, breaks' = breaks,
         NEW files, Good(files), NEW n \in Names, Found(files, {n}) = {},
         Carried(Files, files, {n}), Carried(files, Files, {}),
         n \in DOMAIN Store => ~Store[n].locked,
         NEW len \in Lengths, NEW d \in Contents, CreateFile(files, n, len, d)
  PROVE  FS!Create(n) \/ UNCHANGED FS!vars
<1>0. Resting
  BY DEF Resting, Idle
<1>1. CASE Refuse("Catalogue full") \/ Refuse("Disk full")
  <2>1. Resting' /\ Files' = Files /\ sectors' = sectors
    BY <1>0, <1>1 DEF Refuse, Resting, Files
  <2>. QED  BY <1>0, <2>1, RestStutters
<1>2. ASSUME Len(files) < MaxFiles,
             NEW y \in Slots(files, len), \A z \in Slots(files, len) : z <= y,
             NEW new, new = [name |-> n, start |-> GapStart(files, y) % Field,
                             len |-> len, locked |-> FALSE],
             PutCat(Bump(saved, InsertAt(files, y + 1, new))),
             job' = [op |-> "save", file |-> new, data |-> d],
             UNCHANGED sectors
      PROVE  FS!Create(n)
  <2>1. y \in 0 .. Len(files) /\ files \in Seq(Entry) /\ Len(files) \in Nat
    BY <1>2, SlotFacts DEF Good
  <2>2. y + 1 \in 1 .. Len(files) + 1
    BY <2>1
  <2>3. new \in Entry /\ Good(InsertAt(files, y + 1, new))
    BY <1>2, GoodInsert
  <2>4. Files' = InsertAt(files, y + 1, new)
    BY <1>2, <2>3, PutCatGood DEF StoreInv, Files
  <2>5. /\ \E k \in DOMAIN Files' : Files'[k] = new
        /\ Carried(files, Files', {})
        /\ Carried(Files', files, {n})
    <3>1. new.name = n
      BY <1>2
    <3>. QED  BY <2>1, <2>2, <2>3, <2>4, <3>1, InsertCarries
  <2>6. Carried(Files, Files', {n}) /\ Carried(Files', Files, {n})
    <3>1. Carried(files, Files', {n}) /\ Carried(files, Files, {n})
      BY <2>5, CarriedMore
    <3>. QED  BY <2>5, <3>1, CarriedOn
  <2>7. job.op # "move" /\ job'.op = "save" /\ job'.file = new
    BY <1>0, <1>2 DEF Resting
  <2>8. FS!KeepAllBut({n})
    BY <1>2, <2>6, <2>7, KeepFiles
  <2>9. n \in DOMAIN Store' /\ ~Store'[n].locked
    <3>1. PICK k \in DOMAIN Files' : Files'[k] = new
      BY <2>5
    <3>2. new.name = n /\ new.locked = FALSE
      BY <1>2
    <3>. QED  BY <3>1, <3>2, ViewOfNext
  <2>10. (IF job'.op = "save" THEN {job'.file.name} ELSE {}) = {n}
    BY <1>2, <2>7
  <2>11. (IF job'.op = "move" THEN {Files'[job'.next].name} ELSE {}) =
         (IF job.op = "move" THEN {Files[job.next].name} ELSE {})
    BY <2>7
  <2>. QED
    BY <1>0, <2>8, <2>9, <2>10, <2>11, RestingQuiet DEF FS!Create
<1>. QED  BY <1>1, <1>2, Zenon DEF CreateFile

LEMMA FoundView ==
  ASSUME View, NEW n
  PROVE  n \in DOMAIN Store <=> Found(Files, {n}) # {}
BY DEF View, Found

LEMMA SaveRefines ==
  ASSUME Fits, StoreInv, View, View', job = Idle, breaks' = breaks,
         NEW n \in Names, NEW len \in Lengths, NEW d \in Contents, Save(n, len, d)
  PROVE  FS!Create(n) \/ UNCHANGED FS!vars
<1>0. Good(Files) /\ Files \in Seq(Entry) /\ Files = saved.files
  BY DEF StoreInv, CatalogueInv, Good, Files
<1>1. CASE Found(Files, {n}) = {} /\ CreateFile(Files, n, len, d)
  <2>1. Carried(Files, Files, {n}) /\ Carried(Files, Files, {})
    BY CarriedSelf
  <2>2. n \notin DOMAIN Store
    BY <1>1, FoundView
  <2>. QED  BY <1>0, <1>1, <2>1, <2>2, CreateRefines
<1>2. CASE \E k \in Found(Files, {n}) :
             ~Files[k].locked /\ CreateFile(RemoveAt(Files, k), n, len, d)
  <2>1. PICK k \in Found(Files, {n}) :
          ~Files[k].locked /\ CreateFile(RemoveAt(Files, k), n, len, d)
    BY <1>2
  <2>2. k \in DOMAIN Files /\ Files[k].name = n
    BY DEF Found
  <2>3. Good(RemoveAt(Files, k)) /\ Found(RemoveAt(Files, k), {n}) = {}
    BY <1>0, <2>2, GoodRemove, RemovedIsGone
  <2>4. Carried(Files, RemoveAt(Files, k), {n}) /\ Carried(RemoveAt(Files, k), Files, {})
    BY <1>0, <2>2, RemoveCarries
  <2>5. ~Store[n].locked
    BY <2>1, <2>2, ViewOf
  <2>. QED  BY <2>1, <2>3, <2>4, <2>5, CreateRefines
<1>3. CASE Refuse("locked") \/ Refuse("open")
  <2>1. Resting /\ Resting' /\ Files' = Files /\ sectors' = sectors
    BY <1>3 DEF Refuse, Resting, Files, Idle
  <2>. QED  BY <2>1, RestStutters
<1>. QED  BY <1>0, <1>1, <1>2, <1>3 DEF Save

LEMMA WriteDataRefines ==
  ASSUME StoreInv, View, View', WriteData, breaks' = breaks
  PROVE  FS!Next
<1>1. /\ job.op = "save" /\ job' = Idle /\ Files' = Files
      /\ CatalogueInv /\ writes
  BY Zenon DEF WriteData, Abort, StoreInv, Files
<1>2. PICK h \in DOMAIN Files : Files[h] = job.file
  BY <1>1 DEF StoreInv, JobAgrees
<1>3. job.op # "move" /\ job'.op \notin {"save", "move"}
  BY <1>1 DEF Idle
<1>4. ASSUME NEW k \in DOMAIN Files, Files[k].name \notin {job.file.name}
      PROVE  Body(k)' = Body(k)
  <2>1. k # h
    BY <1>2, <1>4
  <2>2. Body(k) = Plain(sectors, Files[k]) /\ Body(k)' = Plain(sectors', Files[k])
    BY <1>1, <1>3, PlainBody, PlainBodyNext
  <2>3. CASE sectors' = sectors
    BY <2>2, <2>3
  <2>4. CASE PutSectors([s \in Extent(job.file) |-> <<job.data, s - job.file.start>>])
    <3>1. \A s \in DOMAIN sectors : s \notin Extent(job.file) => sectors'[s] = sectors[s]
      BY <1>1, <2>4 DEF PutSectors
    <3>2. ASSUME NEW i \in 0 .. Files[k].len - 1
          PROVE  sectors'[Files[k].start + i] = sectors[Files[k].start + i]
      BY <1>1, <1>2, <2>1, <3>1, OwnSectors
    <3>. QED  BY <2>2, <3>2 DEF Plain
  <2>. QED  BY <2>3, <2>4, Zenon DEF WriteData, Abort
<1>5. FS!MaySpoil({job.file.name})
  BY <1>1, <1>4, SpoilsOnly
<1>6. FS!Finish
  BY <1>1, <1>3, <1>5 DEF FS!Finish
<1>. QED  BY <1>6 DEF FS!Next

LEMMA Committed ==
  ASSUME StoreInv, NEW files, Commit(files)
  PROVE  Files' = files /\ sectors' = sectors /\ job' = Idle /\ Resting'
BY DEF StoreInv, Commit, PutCat, Bump, Files, Resting, Idle

LEMMA RefusedStutters ==
  ASSUME View, View', job = Idle, breaks' = breaks, NEW why, Refuse(why)
  PROVE  UNCHANGED FS!vars
<1>1. Resting /\ Resting' /\ Files' = Files /\ sectors' = sectors
  BY DEF Refuse, Resting, Idle, Files
<1>. QED  BY <1>1, RestStutters

(* Taking out the entry of a file that is not locked is removing the file.  *)
LEMMA RemoveEntryRefines ==
  ASSUME StoreInv, View, View', Resting, Resting', breaks' = breaks, sectors' = sectors,
         NEW k \in DOMAIN Files, ~Files[k].locked, Files' = RemoveAt(Files, k)
  PROVE  FS!Remove({Files[k].name})
<1> DEFINE S == {Files[k].name}
<1>1. Good(Files) /\ Files \in Seq(Entry)
  BY DEF StoreInv, CatalogueInv, Good
<1>2. Carried(Files, Files', S) /\ Carried(Files', Files, {})
  BY <1>1, RemoveCarries
<1>3. \A j \in DOMAIN Files' : Files'[j].name \notin S
  BY <1>1, RemovedIsGone DEF Found
<1>4. \A j \in DOMAIN Files : Files[j].name \in S => ~Files[j].locked
  BY <1>1 DEF Good, Distinct
<1>5. S \in SUBSET DOMAIN Store
  BY DEF View
<1> HIDE DEF S
<1>6. FS!Remove(S)
  BY <1>2, <1>3, <1>4, <1>5, RemoveRefines
<1>. QED  BY <1>6 DEF S

LEMMA DeleteRefines ==
  ASSUME StoreInv, View, View', job = Idle, breaks' = breaks, NEW n \in Names, Delete(n)
  PROVE  FS!Remove({n}) \/ UNCHANGED FS!vars
<1>1. CASE Refuse("not found") \/ Refuse("locked") \/ Refuse("open")
  BY <1>1, RefusedStutters, Zenon
<1>2. CASE \E k \in Found(Files, {n}) : ~Files[k].locked /\ Commit(RemoveAt(Files, k))
  <2>1. PICK k \in Found(Files, {n}) : ~Files[k].locked /\ Commit(RemoveAt(Files, k))
    BY <1>2
  <2>2. k \in DOMAIN Files /\ Files[k].name = n
    BY DEF Found
  <2>3. Resting
    BY DEF Resting, Idle
  <2>4. FS!Remove({Files[k].name})
    BY <2>1, <2>2, <2>3, Committed, RemoveEntryRefines
  <2>. QED  BY <2>2, <2>4
<1>. QED  BY <1>1, <1>2, Zenon DEF Delete, Unavailable, Available, Files

LEMMA RenameRefines ==
  ASSUME StoreInv, View, View', job = Idle, breaks' = breaks,
         NEW a \in Names, NEW b \in Names, Rename(a, b)
  PROVE  FS!Rename(a, b) \/ UNCHANGED FS!vars
<1>0. Resting /\ Good(Files) /\ Files \in Seq(Entry)
  BY DEF StoreInv, CatalogueInv, Good, Resting, Idle
<1>1. CASE \/ Refuse("not found") \/ Refuse("locked")
           \/ Refuse("open") \/ Refuse("exists")
  BY <1>1, RefusedStutters, Zenon
<1>2. CASE \E k \in Found(Files, {a}) :
             /\ ~Files[k].locked /\ Found(Files, {b}) = {}
             /\ Commit([Files EXCEPT ![k].name = b])
  <2>1. PICK k \in Found(Files, {a}) :
          /\ ~Files[k].locked /\ Found(Files, {b}) = {}
          /\ Commit([Files EXCEPT ![k].name = b])
    BY <1>2
  <2>2. k \in DOMAIN Files /\ Files[k].name = a
    BY DEF Found
  <2>3. Files' = [Files EXCEPT ![k].name = b] /\ sectors' = sectors /\ Resting'
    BY <2>1, Committed
  <2>4. Files[k] \in Entry
    BY <1>0, <2>2
  <2>5. /\ DOMAIN Files' = DOMAIN Files
        /\ Files'[k].name = b /\ Files'[k].start = Files[k].start
        /\ Files'[k].len = Files[k].len /\ Files'[k].locked = Files[k].locked
        /\ \A j \in DOMAIN Files : j # k => Files'[j] = Files[j]
    BY <2>2, <2>3, <2>4 DEF Entry
  <2>6. a \in DOMAIN Store /\ b \notin DOMAIN Store /\ ~Store[a].locked
    BY <2>1, <2>2, ViewOf, FoundView
  <2>7. \A j \in DOMAIN Files : Files[j].name = a => j = k
    BY <1>0, <2>2 DEF Good, Distinct
  <2>8. Carried(Files, Files', {a, b}) /\ Carried(Files', Files, {a, b})
    BY <2>2, <2>5 DEF Carried
  <2>9. job.op # "move" /\ job'.op # "move"
    BY <1>0, <2>3 DEF Resting
  <2>10. FS!KeepAllBut({a, b})
    BY <2>3, <2>8, <2>9, KeepFiles
  <2>11. a # b
    BY <2>6
  <2>12. a \notin DOMAIN Store'
    <3>1. \A j \in DOMAIN Files' : Files'[j].name # a
      BY <2>5, <2>7, <2>11
    <3>. QED  BY <3>1 DEF View
  <2>13. b \in DOMAIN Store' /\ Store'[b] = Store[a]
    <3>1. Store[a] = [locked |-> Files[k].locked, body |-> Body(k)]
      BY <2>2 DEF View
    <3>2. b \in DOMAIN Store' /\ Store'[b] = [locked |-> Files'[k].locked, body |-> Body(k)']
      BY <2>2, <2>5 DEF View
    <3>3. Body(k) = Plain(sectors, Files[k]) /\ Body(k)' = Plain(sectors', Files'[k])
      BY <2>9, PlainBody, PlainBodyNext
    <3>4. Body(k)' = Body(k)
      BY <2>3, <2>5, <3>3 DEF Plain
    <3>. QED  BY <2>5, <3>1, <3>2, <3>4
  <2>14. FS!Rename(a, b)
    BY <1>0, <2>3, <2>6, <2>10, <2>12, <2>13, RestingQuiet DEF FS!Rename
  <2>. QED  BY <2>14
<1>. QED  BY <1>1, <1>2, Zenon DEF Rename, Unavailable, Available, Files

LEMMA RelockFacts ==
  ASSUME NEW files, Good(files), NEW S, NEW lock \in BOOLEAN
  PROVE  /\ DOMAIN Relock(files, S, lock) = DOMAIN files
         /\ \A k \in DOMAIN files :
              /\ Relock(files, S, lock)[k].name = files[k].name
              /\ Relock(files, S, lock)[k].start = files[k].start
              /\ Relock(files, S, lock)[k].len = files[k].len
              /\ Relock(files, S, lock)[k].locked =
                   IF files[k].name \in S THEN lock ELSE files[k].locked
<1>1. \A k \in DOMAIN files : files[k] \in Entry
  BY DEF Good
<1>. QED  BY <1>1 DEF Relock, Entry

LEMMA RelockRefines ==
  ASSUME StoreInv, View, View', job = Idle, breaks' = breaks,
         NEW S, NEW lock \in BOOLEAN, Commit(Relock(Files, S, lock))
  PROVE  FS!SetLocks(S, lock)
<1>1. Good(Files)
  BY DEF StoreInv, CatalogueInv
<1>2. Files' = Relock(Files, S, lock) /\ sectors' = sectors /\ Resting /\ Resting'
  BY Committed DEF Resting, Idle
<1>. QED  BY <1>1, <1>2, RelockFacts, LocksRefine

LEMMA AccessRefines ==
  ASSUME StoreInv, View, View', job = Idle, breaks' = breaks,
         NEW S \in SUBSET Names, NEW lock \in BOOLEAN, Access(S, lock)
  PROVE  FS!SetLocks(S, lock) \/ UNCHANGED FS!vars
<1>1. saved.files = Files
  BY DEF Files
<1>. QED  BY <1>1, RelockRefines, RefusedStutters, Zenon DEF Access

LEMMA WriteInfoRefines ==
  ASSUME StoreInv, View, View', job = Idle, breaks' = breaks,
         NEW n \in Names, NEW lock \in BOOLEAN, WriteInfo(n, lock)
  PROVE  FS!SetLocks({n}, lock) \/ UNCHANGED FS!vars
<1>1. saved.files = Files
  BY DEF Files
<1>. QED  BY <1>1, RelockRefines, RefusedStutters, Zenon DEF WriteInfo

LEMMA RelabelRefines ==
  ASSUME StoreInv, View, View', job = Idle, breaks' = breaks, Relabel \/ StartCompact
  PROVE  UNCHANGED FS!vars
<1>0. Resting /\ saved.files = Files
  BY DEF Resting, Idle, Files
<1>1. CASE Relabel
  <2>1. Files' = Files /\ sectors' = sectors /\ Resting'
    BY <1>0, <1>1, Committed DEF Relabel
  <2>. QED  BY <1>0, <2>1, RestStutters
<1>2. CASE StartCompact
  <2>1. Resting' /\ Files' = Files /\ sectors' = sectors
    BY <1>2 DEF StartCompact, Resting, Files
  <2>. QED  BY <1>0, <2>1, RestStutters
<1>. QED  BY <1>1, <1>2

(* Whatever a command's arguments are, its step is the store's step for     *)
(* them.                                                                    *)
LEMMA StoreSteps ==
  /\ \A n \in Names : FS!Create(n) => FS!Next
  /\ \A a \in Names, b \in Names : FS!Rename(a, b) => FS!Next
  /\ \A S \in SUBSET DOMAIN Store : FS!Remove(S) => FS!Next
  /\ \A S : \A lock \in BOOLEAN : FS!SetLocks(S, lock) => FS!Next
<1>1. ASSUME NEW S, NEW lock \in BOOLEAN, FS!SetLocks(S, lock)
      PROVE  FS!SetLocks(S \cap DOMAIN Store, lock)
  BY <1>1 DEF FS!SetLocks, FS!KeepAllBut
<1>. QED  BY <1>1 DEF FS!Next

LEMMA CommandRefines ==
  ASSUME Fits, StoreInv, View, View', job = Idle, breaks' = breaks, Command
  PROVE  [FS!Next]_FS!vars
<1>0. Resting /\ saved.files = Files
  BY DEF Resting, Idle, Files
<1>1. CASE \E n \in Names, len \in Lengths, d \in Contents : Save(n, len, d)
  BY <1>1, SaveRefines, StoreSteps
<1>2. ASSUME NEW n \in Names, Delete(n) PROVE [FS!Next]_FS!vars
  <2>1. n \notin DOMAIN Store => ~FS!Remove({n})
    BY DEF FS!Remove
  <2>. QED  BY <1>2, <2>1, DeleteRefines, StoreSteps
<1>3. ASSUME NEW a \in Names, NEW b \in Names, Rename(a, b) PROVE [FS!Next]_FS!vars
  BY <1>3, RenameRefines, StoreSteps
<1>4. ASSUME NEW S \in SUBSET Names, NEW lock \in BOOLEAN, Access(S, lock)
      PROVE  [FS!Next]_FS!vars
  BY <1>4, AccessRefines, StoreSteps
<1>5. ASSUME NEW n \in Names, NEW lock \in BOOLEAN, WriteInfo(n, lock)
      PROVE  [FS!Next]_FS!vars
  BY <1>5, WriteInfoRefines, StoreSteps
<1>6. CASE Relabel \/ StartCompact
  BY <1>6, RelabelRefines
<1>7. ASSUME NEW S \in SUBSET Names, StartWipe(S) \/ StartDestroy(S)
      PROVE  [FS!Next]_FS!vars
  <2>1. CASE Refuse("not found")
    BY <2>1, RefusedStutters, Zenon
  <2>2. CASE /\ job'.op \in {"wipe", "destroy"}
             /\ UNCHANGED <<sectors, saved>>
    <3>1. Resting' /\ Files' = Files /\ sectors' = sectors
      BY <2>2 DEF Resting, Files
    <3>. QED  BY <1>0, <3>1, RestStutters
  <2>3. PICK kind \in {"wipe", "destroy"} : Scan(kind, S)
    BY <1>7 DEF StartWipe, StartDestroy
  <2>4. \/ Refuse("not found")
        \/ /\ job' = [op |-> kind, names |-> S, next |-> 1, ram |-> saved]
           /\ UNCHANGED <<sectors, saved>>
    BY <2>3, Zenon DEF Scan
  <2>5. job' = [op |-> kind, names |-> S, next |-> 1, ram |-> saved] => job'.op = kind
    OBVIOUS
  <2>. QED  BY <2>1, <2>2, <2>4, <2>5, Zenon
<1>8. CASE UNCHANGED <<sectors, saved, job>>
  <2>1. Resting' /\ Files' = Files /\ sectors' = sectors
    BY <1>0, <1>8 DEF Resting, Files
  <2>. QED  BY <1>0, <2>1, RestStutters
<1>9. ASSUME NEW n \in Names, OpenIn(n) PROVE UNCHANGED <<sectors, saved, job>>
  BY <1>9 DEF OpenIn, Refuse
<1>10. ASSUME NEW c \in DOMAIN channels, Close(c) PROVE UNCHANGED <<sectors, saved, job>>
  BY <1>10 DEF Close
<1>. QED  BY <1>1, <1>2, <1>3, <1>4, <1>5, <1>6, <1>7, <1>8, <1>9, <1>10 DEF Command

LEMMA WipeRefines ==
  ASSUME StoreInv, View, View', WipeStep, breaks' = breaks
  PROVE  \/ \E S \in SUBSET (job.names \cap DOMAIN Store) : FS!Remove(S)
         \/ UNCHANGED FS!vars
<1>1. /\ job.op = "wipe" /\ job.ram = saved /\ job.ram.files = Files
      /\ job \in [op: {"wipe", "destroy"}, names: SUBSET Names,
                  next: Nat, ram: Catalogues]
      /\ Resting /\ writes
  BY JobKinds DEF WipeStep, StoreInv, CatalogueInv, TypeOK, JobAgrees, Files, Resting
<1>2. CASE job' = Idle /\ UNCHANGED <<sectors, saved>>
  <2>1. Resting' /\ Files' = Files /\ sectors' = sectors
    BY <1>2 DEF Resting, Files, Idle
  <2>. QED  BY <1>1, <2>1, RestStutters
<1>3. CASE \E k \in DOMAIN Files : SkipEntry(k)
  <2>1. PICK k \in DOMAIN Files : SkipEntry(k)
    BY <1>3
  <2>2. job' = [job EXCEPT !.next = k + 1] /\ UNCHANGED <<sectors, saved>>
    BY <2>1 DEF SkipEntry
  <2>3. Resting' /\ Files' = Files /\ sectors' = sectors
    BY <1>1, <2>2 DEF Resting, Files
  <2>. QED  BY <1>1, <2>3, RestStutters
<1>4. CASE \E k \in DOMAIN Files :
             /\ ~Files[k].locked /\ Files[k].name \in job.names
             /\ PutCat(Bump(saved, RemoveAt(Files, k)))
             /\ job' = [job EXCEPT !.ram = Bump(saved, RemoveAt(Files, k)), !.next = k]
             /\ UNCHANGED sectors
  <2>1. PICK k \in DOMAIN Files :
          /\ ~Files[k].locked /\ Files[k].name \in job.names
          /\ PutCat(Bump(saved, RemoveAt(Files, k)))
          /\ job' = [job EXCEPT !.ram = Bump(saved, RemoveAt(Files, k)), !.next = k]
          /\ UNCHANGED sectors
    BY <1>4, Zenon
  <2>2. Files' = RemoveAt(Files, k)
    BY <1>1, <2>1 DEF PutCat, Bump, Files
  <2>3. Resting'
    BY <1>1, <2>1 DEF Resting
  <2>4. FS!Remove({Files[k].name})
    BY <1>1, <2>1, <2>2, <2>3, RemoveEntryRefines
  <2>5. {Files[k].name} \in SUBSET (job.names \cap DOMAIN Store)
    BY <2>1, ViewOf
  <2>. QED  BY <2>4, <2>5
<1>5. \A k : IsNext(k, Files) => k \in DOMAIN Files /\ Files[k].name \in job.names
  BY DEF IsNext, Ahead, Found
<1>. QED  BY <1>1, <1>2, <1>3, <1>4, <1>5, Zenon DEF WipeStep, WipeFile, Abort, Files

LEMMA DestroyRefines ==
  ASSUME StoreInv, View, View', DestroyStep, breaks' = breaks
  PROVE  \/ \E S \in SUBSET (job.names \cap DOMAIN Store) : FS!Remove(S)
         \/ UNCHANGED FS!vars
<1> DEFINE ram == job.ram.files
<1>1. /\ job.op = "destroy"
      /\ job \in [op: {"wipe", "destroy"}, names: SUBSET Names,
                  next: Nat, ram: Catalogues]
      /\ \A i \in DOMAIN ram : \E j \in DOMAIN Files : Files[j] = ram[i]
      /\ \A j \in DOMAIN Files :
           Files[j].locked \/ Files[j].name \notin job.names =>
             \E i \in DOMAIN ram : ram[i] = Files[j]
      /\ Resting /\ Good(Files)
  BY JobKinds DEF DestroyStep, StoreInv, CatalogueInv, TypeOK, JobAgrees, Resting
<1>2. CASE job' = Idle /\ UNCHANGED <<sectors, saved>>
  <2>1. Resting' /\ Files' = Files /\ sectors' = sectors
    BY <1>2 DEF Resting, Files, Idle
  <2>. QED  BY <1>1, <2>1, RestStutters
<1>3. CASE \E k \in DOMAIN ram : SkipEntry(k)
  <2>1. PICK k \in DOMAIN ram : SkipEntry(k)
    BY <1>3
  <2>2. job' = [job EXCEPT !.next = k + 1] /\ UNCHANGED <<sectors, saved>>
    BY <2>1 DEF SkipEntry
  <2>3. Resting' /\ Files' = Files /\ sectors' = sectors
    BY <1>1, <2>2 DEF Resting, Files
  <2>. QED  BY <1>1, <2>3, RestStutters
<1>4. CASE \E k \in DOMAIN ram :
             /\ job' = [job EXCEPT !.ram.files = RemoveAt(@, k), !.next = k]
             /\ UNCHANGED <<sectors, saved>>
  <2>1. PICK k \in DOMAIN ram :
             /\ job' = [job EXCEPT !.ram.files = RemoveAt(@, k), !.next = k]
             /\ UNCHANGED <<sectors, saved>>
    BY <1>4, Zenon
  <2>2. Resting' /\ Files' = Files /\ sectors' = sectors
    BY <1>1, <2>1 DEF Resting, Files
  <2>. QED  BY <1>1, <2>2, RestStutters
<1>5. CASE Commit(ram)
  <2> DEFINE S == {m \in DOMAIN Store : \A i \in DOMAIN ram : ram[i].name # m}
  <2>1. Files' = ram /\ sectors' = sectors /\ Resting'
    BY <1>5, Committed
  <2> HIDE DEF ram
  <2>2. Carried(Files', Files, {})
    BY <1>1, <2>1 DEF Carried
  <2>3. \A k \in DOMAIN Files : Files[k].name \notin S => \E i \in DOMAIN ram : ram[i] = Files[k]
    <3> SUFFICES ASSUME NEW k \in DOMAIN Files, Files[k].name \notin S
                 PROVE  \E i \in DOMAIN ram : ram[i] = Files[k]
      OBVIOUS
    <3>1. PICK i \in DOMAIN ram : ram[i].name = Files[k].name
      BY ViewOf
    <3>2. PICK j \in DOMAIN Files : Files[j] = ram[i]
      BY <1>1
    <3>3. j = k
      BY <1>1, <3>1, <3>2 DEF Good, Distinct
    <3>. QED  BY <3>2, <3>3
  <2>4. Carried(Files, Files', S)
    BY <2>1, <2>3 DEF Carried
  <2>5. \A j \in DOMAIN Files' : Files'[j].name \notin S
    BY <2>1
  <2>6. \A k \in DOMAIN Files : Files[k].name \in S => ~Files[k].locked
    BY <1>1
  <2>7. S \in SUBSET DOMAIN Store
    OBVIOUS
  <2>8. S \subseteq job.names
    <3> SUFFICES ASSUME NEW m \in S PROVE m \in job.names
      OBVIOUS
    <3>1. PICK k \in DOMAIN Files : Files[k].name = m
      BY DEF View
    <3>. QED  BY <1>1, <3>1
  <2> HIDE DEF S
  <2>9. FS!Remove(S)
    BY <1>1, <2>1, <2>2, <2>4, <2>5, <2>6, <2>7, RemoveRefines
  <2>. QED  BY <2>7, <2>8, <2>9
<1>. QED  BY <1>2, <1>3, <1>4, <1>5, Zenon DEF DestroyStep, DestroyFile, Abort

LEMMA LiftLifts ==
  ASSUME StoreInv, View, View', CompactLift, breaks' = breaks
  PROVE  FS!Lift(Files[job.next].name) /\ Files[job.next].name \in Names
<1> DEFINE n == job.next
           f == Files[n]
<1>1. /\ job.op = "compact" /\ n \in DOMAIN Files /\ f \in Entry
      /\ Files' = [Files EXCEPT ![n].start = job.to]
      /\ job' = [op |-> "move", next |-> n, to |-> job.to,
                 from |-> f.start, len |-> f.len, done |-> 0]
      /\ sectors' = sectors
  <2>1. job.op = "compact" /\ n \in 0 .. Len(Files) /\ n > 0
    BY DEF CompactLift, StoreInv, CatalogueInv, TypeOK
  <2>2. Files \in Seq(Entry)
    BY DEF StoreInv, CatalogueInv, Good
  <2>3. n \in DOMAIN Files /\ f \in Entry
    BY <2>1, <2>2
  <2>. QED  BY <2>1, <2>3, CompactLiftAgrees DEF CompactLift, Files
<1>2. /\ DOMAIN Files' = DOMAIN Files
      /\ Files'[n].name = f.name /\ Files'[n].len = f.len /\ Files'[n].locked = f.locked
      /\ \A k \in DOMAIN Files : k # n => Files'[k] = Files[k]
  BY <1>1 DEF Entry
<1>3. /\ job'.op = "move" /\ job'.next = n /\ job'.from = f.start /\ job'.done = 0
  BY <1>1
<1>4. ASSUME NEW k \in DOMAIN Files
      PROVE  Body(k)' = Body(k)
  <2>1. Body(k) = Plain(sectors, Files[k])
    BY <1>1, PlainBody
  <2>2. CASE k # n
    <3>1. job'.next # k /\ Files'[k] = Files[k] /\ sectors' = sectors
      BY <1>1, <1>2, <1>3, <2>2
    <3>2. Body(k)' = Plain(sectors', Files'[k])
      BY <3>1, OtherBodyNext
    <3>. QED  BY <2>1, <3>1, <3>2
  <2>3. CASE k = n
    <3>1. f.len \in Nat
      BY <1>1, EntryType
    <3>2. \A i \in 0 .. f.len - 1 : ~(i < 0)
      BY <3>1
    <3>3. /\ job'.op = "move" /\ job'.next = k /\ job'.to = job.to
          /\ job'.from = f.start /\ job'.done = 0
      BY <1>1, <2>3
    <3>4. Files'[k].len = f.len /\ sectors' = sectors
      BY <1>1, <1>2, <2>3
    <3>5. Body(k)' = [i \in 0 .. f.len - 1 |->
                        IF i < 0 THEN sectors'[job.to + i] ELSE sectors'[f.start + i]]
      BY <3>3, <3>4, MovedBodyNext
    <3>. QED  BY <2>1, <2>3, <3>2, <3>4, <3>5 DEF Plain
  <2>. QED  BY <2>2, <2>3
<1>5. Store' = Store
  BY <1>2, <1>4, SameBodies
<1>6. FS!Lift(f.name)
  BY <1>1, <1>2, <1>3, <1>5, ViewOf DEF FS!Lift, FS!Quiet
<1>7. f.name \in Names
  BY <1>1 DEF Entry
<1>. QED  BY <1>6, <1>7

LEMMA LiftRefines ==
  ASSUME StoreInv, View, View', CompactLift, breaks' = breaks
  PROVE  FS!Next /\ Store' = Store
<1>1. FS!Lift(Files[job.next].name) /\ Files[job.next].name \in Names
  BY LiftLifts
<1>. QED  BY <1>1 DEF FS!Next, FS!Lift

(* The sectors of an entry, from its two fields. *)
LEMMA ExtentIs ==
  ASSUME NEW e, NEW a \in Nat, NEW b \in Nat, e.start = a, e.len = b
  PROVE  Extent(e) = a .. a + b - 1
  BY DEF Extent, End

(* The chunks of a move: what has arrived is at the new place, and what has *)
(* not is still at the old one, since the file only ever moves down.        *)
LEMMA MoveBodies ==
  ASSUME StoreInv, MoveChunk, NEW k \in DOMAIN Files
  PROVE  Body(k)' = Body(k)
<1> DEFINE n == job.next
           f == Files[n]
           to == job.to
           from == job.from
           done == job.done
           c == Chunk
<1>1. /\ job.op = "move" /\ n \in DOMAIN Files
      /\ to \in Nat /\ from \in Nat /\ done \in Nat /\ job.len \in Nat
      /\ f.start = to /\ f.len = job.len
      /\ to < from /\ from + job.len <= DiskSize
      /\ c \in Nat \ {0} /\ done + c <= job.len
      /\ FirstSector <= to
      /\ sectors' = [s \in DOMAIN sectors |->
                       IF s \in to + done .. to + done + c - 1
                         THEN sectors[s - (to + done) + (from + done)]
                       ELSE sectors[s]]
      /\ Files' = Files
      /\ job' = IF done + c < job.len THEN [job EXCEPT !.done = done + c]
                ELSE [op |-> "compact", next |-> n - 1, to |-> to + job.len]
  BY MoveFacts DEF Files
<1>2. CatalogueInv /\ DOMAIN sectors = FirstSector .. MediaSize - 1
  BY DEF StoreInv, CatalogueInv, TypeOK
<1>3. /\ done + c < job.len =>
           job'.op = "move" /\ job'.next = n /\ job'.to = to /\ job'.from = from
           /\ job'.done = done + c
      /\ ~(done + c < job.len) => job'.op = "compact"
  <2>1. job \in [op: {"move"}, next: Nat, to: Nat, from: Nat, len: Nat, done: Nat]
    BY MoveFacts
  <2>. QED  BY <1>1, <2>1
<1>0. /\ to \in Nat /\ from \in Nat /\ done \in Nat /\ c \in Nat \ {0} /\ job.len \in Nat
      /\ to < from /\ from + job.len <= DiskSize /\ done + c <= job.len /\ FirstSector <= to
  BY <1>1
<1> HIDE DEF to, from, done, c, n
<1>4. CASE k # n
  <2>1. Body(k) = Plain(sectors, Files[k])
    <3>1. job.next # k
      BY <1>4 DEF n
    <3>. QED  BY <3>1, OtherBody
  <2>2. Body(k)' = Plain(sectors', Files[k])
    <3>1. job'.op = "move" => job'.next # k
      BY <1>3, <1>4
    <3>2. Files' = Files
      BY <1>1
    <3>. QED  BY <3>1, <3>2, OtherBodyNext
  <2>3. ASSUME NEW i \in 0 .. Files[k].len - 1
        PROVE  sectors'[Files[k].start + i] = sectors[Files[k].start + i]
    <3>1. Files[k].start + i \in DOMAIN sectors /\ Files[k].start + i \notin Extent(f)
          /\ Files[k].start + i \in Nat
      <4>1. n \in DOMAIN Files /\ f = Files[n]
        BY <1>1
      <4>2. /\ Files[k].start \in Nat /\ i \in Nat /\ Files[k].start + i \in DOMAIN sectors
            /\ \A h \in DOMAIN Files : h # k => Files[k].start + i \notin Extent(Files[h])
        BY <1>2, OwnSectors
      <4>3. Files[k].start + i \notin Extent(Files[n])
        BY <4>1, <4>2, <1>4, Zenon
      <4>4. Files[k].start + i \notin Extent(f)
        BY <4>1, <4>3, Zenon
      <4>5. Files[k].start + i \in Nat
        BY <4>2
      <4>. QED  BY <4>2, <4>4, <4>5, Zenon
    <3>2. Extent(f) = to .. to + job.len - 1
      <4>1. f.start = to /\ f.len = job.len
        BY <1>1
      <4>2. to \in Nat /\ job.len \in Nat
        BY <1>0
      <4> HIDE DEF f
      <4>. QED  BY <4>1, <4>2, ExtentIs
    <3> HIDE DEF f
    <3>3. Files[k].start + i \notin to + done .. to + done + c - 1
      <4>1. \A s \in to + done .. to + done + c - 1 : s \in to .. to + job.len - 1
        BY <1>0
      <4>. QED  BY <3>1, <3>2, <4>1
    <3>. QED  BY <1>1, <3>1, <3>3
  <2>. QED  BY <2>1, <2>2, <2>3 DEF Plain
<1>5. CASE k = n
  <2>1. Body(k) = [i \in 0 .. job.len - 1 |->
                     IF i < done THEN sectors[to + i] ELSE sectors[from + i]]
    <3>1. job.op = "move" /\ Files[k].len = job.len
      BY <1>1, <1>5
    <3>2. job.next = k /\ job.to = to /\ job.from = from /\ job.done = done
      BY <1>5 DEF n, to, from, done
    <3>. QED  BY <3>1, <3>2, MovedBody
  <2>2. ASSUME NEW i \in 0 .. job.len - 1
        PROVE  /\ i < done => sectors'[to + i] = sectors[to + i]
               /\ ~(i < done) /\ i < done + c => sectors'[to + i] = sectors[from + i]
               /\ ~(i < done + c) => sectors'[from + i] = sectors[from + i]
    <3>1. i \in Nat /\ i < job.len /\ MediaSize \in Nat /\ DiskSize <= MediaSize
          /\ DiskSize \in Nat
      BY <1>0, SizeAssumption
    <3>2. to + i \in DOMAIN sectors /\ from + i \in DOMAIN sectors
      <4>1. FirstSector \in Nat
        BY DEF FirstSector
      <4>2. to + i \in FirstSector .. MediaSize - 1 /\ from + i \in FirstSector .. MediaSize - 1
        BY <1>0, <3>1, <4>1
      <4>. QED  BY <1>2, <4>2
    <3>3. i < done => to + i \notin to + done .. to + done + c - 1
      BY <1>0, <3>1
    <3>4. ~(i < done) /\ i < done + c =>
            /\ to + i \in to + done .. to + done + c - 1
            /\ (to + i) - (to + done) + (from + done) = from + i
      BY <1>0, <3>1
    <3>5. ~(i < done + c) => from + i \notin to + done .. to + done + c - 1
      BY <1>0, <3>1
    <3>. QED  BY <1>1, <3>2, <3>3, <3>4, <3>5
  <2>3. Body(k)' = [i \in 0 .. job.len - 1 |->
                      IF i < done + c THEN sectors'[to + i] ELSE sectors'[from + i]]
    <3>1. CASE done + c < job.len
      <4>1. /\ job'.op = "move" /\ job'.next = k /\ job'.to = to /\ job'.from = from
            /\ job'.done = done + c
        BY <1>3, <1>5, <3>1
      <4>2. Files'[k].len = job.len
        BY <1>1, <1>5
      <4>. QED  BY <4>1, <4>2, MovedBodyNext
    <3>2. CASE ~(done + c < job.len)
      <4>1. \A i \in 0 .. job.len - 1 : i < done + c
        BY <1>1, <3>2
      <4>2. job'.op # "move"
        BY <1>3, <3>2
      <4>3. Body(k)' = Plain(sectors', Files'[k])
        BY <4>2, PlainBodyNext
      <4>4. Body(k)' = [i \in 0 .. job.len - 1 |-> sectors'[to + i]]
        BY <1>1, <1>5, <4>3 DEF Plain
      <4>. QED  BY <4>1, <4>4
    <3>. QED  BY <3>1, <3>2
  <2>4. \A i \in 0 .. job.len - 1 :
          (IF i < done + c THEN sectors'[to + i] ELSE sectors'[from + i]) =
          (IF i < done THEN sectors[to + i] ELSE sectors[from + i])
    <3> SUFFICES ASSUME NEW i \in 0 .. job.len - 1
                 PROVE (IF i < done + c THEN sectors'[to + i] ELSE sectors'[from + i]) =
                       (IF i < done THEN sectors[to + i] ELSE sectors[from + i])
      OBVIOUS
    <3>1. i < done => i < done + c
      BY <1>1
    <3>. QED  BY <2>2, <3>1
  <2>. QED  BY <2>1, <2>3, <2>4
<1>. QED  BY <1>4, <1>5

LEMMA MoveKeeps ==
  ASSUME StoreInv, View, View', MoveChunk
  PROVE  Store' = Store
<1>1. Files' = Files
  BY MoveFacts DEF Files
<1>. QED  BY <1>1, MoveBodies, SameBodies

LEMMA MoveRefines ==
  ASSUME StoreInv, View, View', MoveChunk, breaks' = breaks
  PROVE  [FS!Next]_FS!vars
<1>1. /\ job.op = "move" /\ Files' = Files
      /\ job \in [op: {"move"}, next: Nat, to: Nat, from: Nat, len: Nat, done: Nat]
      /\ job' = IF job.done + Chunk < job.len THEN [job EXCEPT !.done = job.done + Chunk]
                ELSE [op |-> "compact", next |-> job.next - 1, to |-> job.to + job.len]
  BY MoveFacts DEF Files
<1>2. Store' = Store
  BY MoveKeeps
<1>3. CASE job.done + Chunk < job.len
  <2>1. job'.op = "move" /\ job'.next = job.next
    BY <1>1, <1>3
  <2>. QED  BY <1>1, <1>2, <2>1 DEF FS!vars
<1>4. CASE ~(job.done + Chunk < job.len)
  <2>1. job'.op = "compact"
    BY <1>1, <1>4
  <2>2. FS!Land
    BY <1>1, <1>2, <2>1 DEF FS!Land
  <2>. QED  BY <2>2 DEF FS!Next
<1>. QED  BY <1>3, <1>4

LEMMA BreakRefines ==
  ASSUME StoreInv, View, View', Break
  PROVE  FS!Next
<1> DEFINE W == IF job.op = "save" THEN {job.file.name} ELSE {}
           M == IF job.op = "move" THEN {Files[job.next].name} ELSE {}
<1>1. job' = Idle /\ Files' = Files /\ sectors' = sectors /\ breaks' = breaks + 1
  BY DEF Break, Files
<1>2. job'.op \notin {"save", "move"}
  BY <1>1 DEF Idle
<1>3. ASSUME NEW k \in DOMAIN Files, Files[k].name \notin W \cup M
      PROVE  Body(k)' = Body(k)
  <2>1. ~(job.op = "move" /\ job.next = k)
    BY <1>3
  <2>2. Body(k) = Plain(sectors, Files[k])
    BY <2>1 DEF Body, Plain
  <2>3. Body(k)' = Plain(sectors', Files'[k])
    BY <1>2, PlainBodyNext
  <2>. QED  BY <1>1, <2>2, <2>3
<1>4. FS!MaySpoil(W \cup M)
  <2> HIDE DEF W, M
  <2>. QED  BY <1>1, <1>3, SpoilsOnly
<1>5. FS!Crash
  BY <1>1, <1>2, <1>4 DEF FS!Crash
<1>. QED  BY <1>5 DEF FS!Next

LEMMA CompactKeepRefines ==
  ASSUME StoreInv, View, View', CompactKeep \/ CompactDone, breaks' = breaks
  PROVE  UNCHANGED FS!vars
<1>1. Resting /\ Files' = Files /\ sectors' = sectors
  BY DEF CompactKeep, CompactDone, Abort, Resting, Files
<1>2. Resting'
  <2>1. CASE CompactKeep
    <3>1. job' = [op |-> "compact", next |-> job.next - 1,
                  to |-> job.to + saved.files[job.next].len]
      BY <2>1 DEF CompactKeep
    <3>2. job'.op = "compact"
      BY <3>1
    <3>. QED  BY <3>2 DEF Resting
  <2>2. CASE CompactDone
    BY <2>2 DEF CompactDone, Abort, Idle, Resting
  <2>. QED  BY <2>1, <2>2
<1>. QED  BY <1>1, <1>2, RestStutters

LEMMA StoreRefines ==
  ASSUME Fits, StoreInv, StoreInv', [Next]_vars
  PROVE  [FS!Next]_FS!vars
<1>1. View /\ View'
  BY ViewHolds, ViewNext DEF StoreInv
<1>2. CASE UNCHANGED vars
  <2>1. UNCHANGED <<sectors, saved, job, breaks>>
    BY <1>2 DEF vars
  <2>. QED  BY <2>1 DEF FS!vars, Store, Position, Body, Files
<1>3. CASE job = Idle /\ Command /\ UNCHANGED <<writes, breaks>>
  BY <1>1, <1>3, CommandRefines
<1>4. CASE JobStep
  <2>1. breaks' = breaks
    BY <1>4 DEF JobStep
  <2>2. CASE WriteData \/ WipeStep \/ DestroyStep
    BY <1>1, <2>1, <2>2, WriteDataRefines, WipeRefines, DestroyRefines, StoreSteps
  <2>3. CASE CompactDone \/ CompactKeep
    BY <1>1, <2>1, <2>3, CompactKeepRefines
  <2>4. CASE CompactLift \/ MoveChunk
    BY <1>1, <2>1, <2>4, LiftRefines, MoveRefines
  <2>. QED  BY <1>4, <2>2, <2>3, <2>4 DEF JobStep
<1>5. CASE Break
  BY <1>1, <1>5, BreakRefines
<1>. QED  BY <1>2, <1>3, <1>4, <1>5 DEF Next

LEMMA FirstStore ==
  ASSUME StoreInv, Init
  PROVE  FS!Init
<1>1. View
  BY ViewHolds DEF StoreInv
<1>2. job.op = "idle" /\ breaks = 0
  BY DEF Init, Idle
<1>3. \A k \in DOMAIN Files : Files[k].name \in Names
  BY EntryType DEF StoreInv, CatalogueInv, Good
<1>4. DOMAIN Store \subseteq Names
  BY <1>1, <1>3 DEF View
<1>. QED  BY <1>2, <1>4 DEF FS!Init

(* On a disk that stores, the commands are operations on named files:       *)
(* creating, deleting, renaming, packing and Break leave every file they do *)
(* not name as it was, byte for byte, and no locked file is overwritten,    *)
(* renamed or removed; for any disk, buffer and number of files.            *)
THEOREM CommandsAreAStore ==
  ASSUME Fits, Backends \subseteq {TRUE}
  PROVE  Spec => ImplementsStore
<1>1. Init => FS!Init
  BY StoreInit, FirstStore
<1>2. StoreInv /\ StoreInv' /\ [Next]_vars => [FS!Next]_FS!vars
  BY StoreRefines
<1>. QED  BY <1>1, <1>2, StoreInvariant, PTL DEF Spec, ImplementsStore, FS!Spec

LEMMA StepAsTold ==
  ASSUME Fits, StoreInv, StoreInv', Next, ~Break, ~UNCHANGED FS!vars
  PROVE  (job = Idle => StartsAsTold) /\ GoesOnAsTold
<1>1. View /\ View' /\ breaks' = breaks
  BY ViewHolds, ViewNext DEF StoreInv, Next, JobStep
<1>2. ASSUME job = Idle PROVE StartsAsTold
  <2>1. \A n \in Names, len \in Lengths, d \in Contents : Save(n, len, d) => FS!Create(n)
    BY <1>1, <1>2, SaveRefines
  <2>2. \A n \in Names : Delete(n) => FS!Remove({n})
    BY <1>1, <1>2, DeleteRefines
  <2>3. \A n \in Names, lock \in BOOLEAN : WriteInfo(n, lock) => FS!SetLocks({n}, lock)
    BY <1>1, <1>2, WriteInfoRefines
  <2>4. \A a, b \in Names : Rename(a, b) => FS!Rename(a, b)
    BY <1>1, <1>2, RenameRefines
  <2>5. \A S \in SUBSET Names, lock \in BOOLEAN : Access(S, lock) => FS!SetLocks(S, lock)
    BY <1>1, <1>2, AccessRefines
  <2>6. ~Relabel /\ ~StartCompact
    BY <1>1, <1>2, RelabelRefines
  <2>. QED  BY <2>1, <2>2, <2>3, <2>4, <2>5, <2>6, Zenon DEF StartsAsTold
<1>3. WipeStep \/ DestroyStep =>
        \E S \in SUBSET (job.names \cap DOMAIN Store) : FS!Remove(S)
  BY <1>1, WipeRefines, DestroyRefines, Zenon
<1>4. CompactDone \/ CompactKeep => Store' = Store
  BY <1>1, CompactKeepRefines DEF FS!vars
<1>5. CompactLift => Store' = Store
  BY <1>1, LiftRefines
<1>6. MoveChunk => Store' = Store
  BY <1>1, MoveKeeps
<1>. QED  BY <1>2, <1>3, <1>4, <1>5, <1>6 DEF GoesOnAsTold

(* Each command changes the files its arguments name, as FileStore says     *)
(* for those arguments, or nothing; WIPE and DESTROY remove only files of   *)
(* the names they were started with, and COMPACT and the rest change none.  *)
THEOREM CommandsTouchWhatTheyName ==
  ASSUME Fits, Backends \subseteq {TRUE}
  PROVE  Spec => CommandsDoAsTold
<1>1. ASSUME StoreInv, StoreInv', [Next]_vars
      PROVE  [ \/ UNCHANGED FS!vars
               \/ Break
               \/ (job = Idle => StartsAsTold) /\ GoesOnAsTold ]_vars
  BY <1>1, StepAsTold, Zenon
<1>. QED  BY <1>1, StoreInvariant, PTL DEF Spec, CommandsDoAsTold

(* A SAVE that ends well can be read back through the catalogue: the entry  *)
(* that was made for it names the sectors its data went to.                 *)
THEOREM SavedReadsBack ==
  ASSUME Fits, Backends \subseteq {TRUE}
  PROVE  Spec => SaveReadsBack
<1>1. ASSUME StoreInv, StoreInv', [Next]_vars
      PROVE  [job.op = "save" /\ report' = "ok" =>
                Store'[job.file.name].body =
                  [i \in 0 .. job.file.len - 1 |-> <<job.data, i>>]]_vars
  <2> SUFFICES ASSUME job.op = "save", report' = "ok", Next
               PROVE  Store'[job.file.name].body =
                        [i \in 0 .. job.file.len - 1 |-> <<job.data, i>>]
    BY <1>1
  <2> DEFINE f == job.file
  <2>1. WriteData
    BY DEF Next, JobStep, WipeStep, DestroyStep, CompactKeep, CompactLift, CompactDone,
           MoveChunk, Break, Idle
  <2>2. /\ sectors' = [s \in DOMAIN sectors |->
                         IF s \in Extent(f) THEN <<job.data, s - f.start>> ELSE sectors[s]]
        /\ job' = Idle /\ Files' = Files
    BY <1>1, <2>1 DEF WriteData, Abort, PutSectors, StoreInv, Files
  <2>3. PICK k \in DOMAIN Files : Files[k] = f
    BY <1>1 DEF StoreInv, JobAgrees
  <2>4. View'
    BY <1>1, ViewNext DEF StoreInv
  <2>5. Store'[f.name].body = Plain(sectors', f)
    <3>1. job'.op # "move"
      BY <2>2 DEF Idle
    <3>2. Store'[Files'[k].name].body = Body(k)'
      BY <2>2, <2>4, ViewOfNext
    <3>. QED  BY <2>2, <2>3, <3>1, <3>2, PlainBodyNext
  <2>6. ASSUME NEW i \in 0 .. f.len - 1
        PROVE  sectors'[f.start + i] = <<job.data, i>>
    <3>1. /\ f.start \in Nat /\ f.len \in Nat /\ i \in Nat
          /\ f.start + i \in DOMAIN sectors
      BY <1>1, <2>3, OwnSectors DEF StoreInv
    <3>2. i < f.len
      BY <3>1
    <3>3. f.start + i \in Extent(f) /\ (f.start + i) - f.start = i
      BY <3>1, <3>2 DEF Extent, End
    <3>. QED  BY <2>2, <3>1, <3>3
  <2>. QED  BY <2>5, <2>6 DEF Plain
<1>. QED  BY <1>1, StoreInvariant, PTL DEF Spec, SaveReadsBack
=============================================================================
