-------------------------- MODULE OpenFiles_proofs --------------------------
(***************************************************************************)
(* Theorems about OpenFiles, for sectors and disks of any size, any number  *)
(* of channels and any catalogue to start from: the inductive invariant,    *)
(* and what follows from it.                                                *)
(***************************************************************************)
EXTENDS OpenFiles, SequenceTheorems, TLAPS

(* Where the file above entry k starts, or the disk ends.                   *)
Above(fs, k) == IF k = 1 THEN DiskSize ELSE fs[k - 1].start

SetLen(fs, k, len) == [fs EXCEPT ![k].len = len]

Writable(h) == ~h.readOnly /\ ~h.locked
SectorsHeld(h) == h.start .. h.start + h.alloc - 1

(* Entry k is the one channel h was opened on. A channel that writes may    *)
(* hold sectors the catalogue has not heard of, but none of the next file.  *)
Matches(fs, h, k) ==
  /\ fs[k].name = h.name /\ fs[k].start = h.start /\ fs[k].locked = h.locked
  /\ SectorsOf(fs[k].len) <= h.alloc
  /\ h.start + h.alloc <= Above(fs, k)
  /\ h.grown \/ h.ext = fs[k].len
  /\ Writable(h) \/ (h.alloc = SectorsOf(fs[k].len) /\ ~h.grown /\ ~h.dirty)

Listed(fs, h) == \E k \in DOMAIN fs : Matches(fs, h, k)

PointersFit(h) == h.ptr <= h.ext /\ h.ext <= h.alloc * SectorSize

(* A buffer that counts was read from, or made for, a sector of the file:   *)
(* the pointer's, where programs pad at the end.                            *)
BufferKept(h) ==
  /\ h.dirty \/ h.valid => h.bufsec # NoSector
  /\ h.bufsec # NoSector => h.bufsec \in SectorsHeld(h)
  /\ PadsAtEnd /\ h.valid =>
       \/ h.bufsec = h.start + h.ptr \div SectorSize
       \/ ~Writable(h) /\ h.ptr = h.ext

ChannelGood(fs, h) == Listed(fs, h) /\ PointersFit(h) /\ BufferKept(h)

Exclusive ==
  \A c, d \in Opened :
    c # d /\ chan[c].name = chan[d].name => chan[c].readOnly /\ chan[d].readOnly

(* A buffer that need not be written is as its sector is on the disk.       *)
BuffersCurrent ==
  \A c \in Opened :
    chan[c].bufsec # NoSector /\ ~chan[c].dirty => buf[c] = disk[chan[c].bufsec]

(* The file that is being filled up is filled up at its end.                *)
JobInv ==
  job # Idle =>
    LET c == job.channel
    IN  chan[c].open /\ chan[c].ptr = chan[c].ext /\ chan[c].ext <= job.to

FilesInv ==
  /\ TypeOK
  /\ \A c \in Opened : ChannelGood(files, chan[c])
  /\ Exclusive
  /\ BuffersCurrent
  /\ JobInv
-----------------------------------------------------------------------------
(* Bytes and sectors.                                                       *)
LEMMA DivideFact ==
  ASSUME NEW p \in Nat
  PROVE  /\ p \div SectorSize \in Nat /\ p % SectorSize \in 0 .. SectorSize - 1
         /\ p = SectorSize * (p \div SectorSize) + (p % SectorSize)
BY SizeAssumption

LEMMA PlaceFact ==
  ASSUME NEW p \in Nat, NEW a \in Nat
  PROVE  p \div SectorSize < a <=> p < a * SectorSize
BY SizeAssumption

LEMMA SameSector ==
  ASSUME NEW p \in Nat, Within(p + 1)
  PROVE  (p + 1) \div SectorSize = p \div SectorSize
BY SizeAssumption DEF Within

LEMMA SectorsFact ==
  ASSUME NEW len \in Nat
  PROVE  /\ SectorsOf(len) \in Nat
         /\ \A a \in Nat : SectorsOf(len) <= a <=> len <= a * SectorSize
BY SizeAssumption DEF SectorsOf

LEMMA WholeSectors ==
  ASSUME NEW a \in Nat
  PROVE  SectorsOf(a * SectorSize) = a /\ a * SectorSize \in Nat
BY SizeAssumption DEF SectorsOf

LEMMA ExtentFact ==
  ASSUME NEW a \in Nat, a <= DiskSize, NEW len \in Nat, len <= a * SectorSize
  PROVE  len \in Extent
<1>1. a * SectorSize <= DiskSize * SectorSize /\ a * SectorSize \in Nat
      /\ DiskSize * SectorSize \in Nat
  BY SizeAssumption
<1>. QED  BY <1>1 DEF Extent

LEMMA ExtentNat == \A x \in Extent : x \in Nat
BY SizeAssumption DEF Extent
-----------------------------------------------------------------------------
(* The catalogue.                                                           *)
LEMMA EntryFact ==
  ASSUME NEW fs, Good(fs), NEW k \in DOMAIN fs
  PROVE  /\ DOMAIN fs = 1 .. Len(fs) /\ Len(fs) \in Nat /\ k \in Nat
         /\ fs[k] \in Entry
         /\ fs[k].start \in Nat /\ FirstSector <= fs[k].start
         /\ fs[k].len \in Nat /\ SectorsOf(fs[k].len) \in Nat
         /\ End(fs[k]) = fs[k].start + SectorsOf(fs[k].len)
         /\ End(fs[k]) <= DiskSize
<1>1. fs \in Seq(Entry) /\ DOMAIN fs = 1 .. Len(fs) /\ Len(fs) \in Nat
  BY DEF Good
<1>2. fs[k] \in Entry
  BY <1>1
<1>3. fs[k].start \in FirstSector .. DiskSize - 1 /\ fs[k].len \in Extent
  BY <1>2 DEF Entry
<1>4. fs[k].start \in Nat /\ FirstSector <= fs[k].start
  BY <1>3, SizeAssumption DEF FirstSector
<1>5. fs[k].len \in Nat /\ SectorsOf(fs[k].len) \in Nat
  BY <1>3, ExtentNat, SectorsFact
<1>. QED  BY <1>1, <1>2, <1>4, <1>5 DEF Good, End

(* The room above an entry ends where every higher entry has not begun.     *)
LEMMA AboveFact ==
  ASSUME NEW fs, Good(fs), NEW k \in DOMAIN fs
  PROVE  /\ Above(fs, k) \in Nat
         /\ End(fs[k]) <= Above(fs, k) /\ Above(fs, k) <= DiskSize
         /\ \A j \in DOMAIN fs : j < k => Above(fs, k) <= fs[j].start
<1>1. CASE k = 1
  BY <1>1, EntryFact, SizeAssumption DEF Above
<1>2. CASE k # 1
  <2>1. k - 1 \in DOMAIN fs /\ k - 1 < k
    BY <1>2, EntryFact
  <2>2. End(fs[k]) <= fs[k - 1].start
    BY <2>1 DEF Good
  <2>3. fs[k - 1].start \in Nat /\ fs[k - 1].start <= End(fs[k - 1]) /\ End(fs[k - 1]) <= DiskSize
        /\ End(fs[k - 1]) \in Nat
    BY <2>1, EntryFact
  <2>4. ASSUME NEW j \in DOMAIN fs, j < k
        PROVE  fs[k - 1].start <= fs[j].start
    <3>1. j \in Nat /\ k \in Nat /\ fs[j].start \in Nat
      BY EntryFact
    <3>2. CASE j = k - 1
      BY <3>1, <3>2
    <3>3. CASE j # k - 1
      <4>1. End(fs[k - 1]) <= fs[j].start
        BY <3>1, <3>3, <2>1, <2>4 DEF Good
      <4>. QED  BY <4>1, <2>3, <3>1
    <3>. QED  BY <3>2, <3>3
  <2>. QED  BY <1>2, <2>2, <2>3, <2>4, EntryFact, SizeAssumption DEF Above
<1>. QED  BY <1>1, <1>2

LEMMA AtFact ==
  ASSUME Good(files), NEW k \in DOMAIN files
  PROVE  /\ Exists(files[k].name) /\ At(files[k].name) = k
         /\ GapEnd(k - 1) = Above(files, k)
<1>1. \A j \in DOMAIN files : files[j].name = files[k].name => j = k
  BY DEF Good
<1>2. At(files[k].name) = k
  BY <1>1 DEF At
<1>. QED  BY <1>2, EntryFact DEF Exists, GapEnd, Above
-----------------------------------------------------------------------------
(* Changes of the catalogue that keep it good, and keep the entries of the  *)
(* channels they do not concern.                                            *)

(* The length of a file that has the room for it.                           *)
LEMMA GoodSetLen ==
  ASSUME NEW fs, Good(fs), NEW k \in DOMAIN fs, NEW len \in Extent,
         fs[k].start + SectorsOf(len) <= Above(fs, k)
  PROVE  Good(SetLen(fs, k, len))
<1> DEFINE g == SetLen(fs, k, len)
<1>1. fs \in Seq(Entry) /\ DOMAIN fs = 1 .. Len(fs) /\ Len(fs) \in Nat /\ fs[k] \in Entry
  BY EntryFact DEF Good
<1>2. [fs[k] EXCEPT !.len = len] \in Entry
  BY <1>1 DEF Entry
<1>3. g \in Seq(Entry) /\ Len(g) = Len(fs) /\ DOMAIN g = DOMAIN fs
  BY <1>1, <1>2 DEF SetLen
<1>4. \A j \in DOMAIN fs : g[j] = IF j = k THEN [fs[k] EXCEPT !.len = len] ELSE fs[j]
  BY <1>1 DEF SetLen
<1> HIDE DEF g
<1>5. \A j \in DOMAIN fs : g[j].start = fs[j].start /\ g[j].name = fs[j].name
  BY <1>1, <1>4 DEF Entry
<1>6. \A j \in DOMAIN fs : j # k => End(g[j]) = End(fs[j])
  BY <1>4
<1>7. End(g[k]) = fs[k].start + SectorsOf(len)
  BY <1>1, <1>4 DEF Entry, End
<1>8. End(g[k]) <= Above(fs, k) /\ Above(fs, k) <= DiskSize /\ Above(fs, k) \in Nat
      /\ End(g[k]) \in Nat
  <2>1. len \in Nat /\ SectorsOf(len) \in Nat
    BY ExtentNat, SectorsFact
  <2>2. Above(fs, k) <= DiskSize /\ Above(fs, k) \in Nat
    BY AboveFact
  <2>3. fs[k].start \in Nat
    BY EntryFact
  <2>. QED  BY <1>7, <2>1, <2>2, <2>3
<1>9. \A j \in DOMAIN g : End(g[j]) <= DiskSize
  BY <1>3, <1>6, <1>8, EntryFact, SizeAssumption
<1>10. ASSUME NEW i \in DOMAIN fs, NEW j \in DOMAIN fs, i < j
       PROVE  End(g[j]) <= g[i].start
  <2>1. CASE j = k
    <3>1. Above(fs, k) <= fs[i].start /\ fs[i].start \in Nat
      BY <2>1, <1>10, AboveFact, EntryFact
    <3>. QED  BY <2>1, <3>1, <1>5, <1>8
  <2>2. CASE j # k
    <3>1. End(fs[j]) <= fs[i].start
      BY <1>10 DEF Good
    <3>. QED  BY <2>2, <3>1, <1>5, <1>6
  <2>. QED  BY <2>1, <2>2
<1>11. \A i, j \in DOMAIN g : g[i].name = g[j].name => i = j
  BY <1>3, <1>5 DEF Good
<1>12. Len(g) <= MaxFiles
  BY <1>3 DEF Good
<1>13. Good(g)
  BY <1>3, <1>9, <1>10, <1>11, <1>12 DEF Good
<1>. QED  BY <1>13 DEF g

LEMMA SetLenFact ==
  ASSUME NEW fs, Good(fs), NEW k \in DOMAIN fs, NEW len \in Extent,
         NEW g, g = SetLen(fs, k, len)
  PROVE  /\ DOMAIN g = DOMAIN fs
         /\ \A j \in DOMAIN fs :
              /\ j # k => g[j] = fs[j]
              /\ g[j].name = fs[j].name /\ g[j].start = fs[j].start
              /\ g[j].locked = fs[j].locked
              /\ Above(g, j) = Above(fs, j)
         /\ g[k].len = len
<1>1. fs \in Seq(Entry) /\ DOMAIN fs = 1 .. Len(fs) /\ Len(fs) \in Nat
      /\ \A j \in DOMAIN fs : fs[j] \in Entry
  BY EntryFact DEF Good
<1>2. DOMAIN g = DOMAIN fs
      /\ \A j \in DOMAIN fs : g[j] = IF j = k THEN [fs[k] EXCEPT !.len = len] ELSE fs[j]
  BY <1>1 DEF SetLen
<1>3. \A j \in DOMAIN fs : g[j].name = fs[j].name /\ g[j].start = fs[j].start
                          /\ g[j].locked = fs[j].locked
  BY <1>1, <1>2 DEF Entry
<1>4. g[k].len = len
  BY <1>1, <1>2 DEF Entry
<1>5. \A j \in DOMAIN fs : j = 1 \/ j - 1 \in DOMAIN fs
  BY <1>1
<1>6. \A j \in DOMAIN fs : Above(g, j) = Above(fs, j)
  BY <1>3, <1>5 DEF Above
<1>. QED  BY <1>2, <1>3, <1>4, <1>6

LEMMA ListedSetLen ==
  ASSUME NEW fs, Good(fs), NEW k \in DOMAIN fs, NEW len \in Extent,
         NEW h, Listed(fs, h), h.name # fs[k].name
  PROVE  Listed(SetLen(fs, k, len), h)
<1>1. PICK j \in DOMAIN fs : Matches(fs, h, j)
  BY DEF Listed
<1>2. j # k
  BY <1>1 DEF Matches
<1> DEFINE g == SetLen(fs, k, len)
<1>3. /\ DOMAIN g = DOMAIN fs /\ g[j] = fs[j] /\ Above(g, j) = Above(fs, j)
  BY <1>2, SetLenFact
<1> HIDE DEF g
<1>4. Matches(g, h, j)
  BY <1>1, <1>3 DEF Matches
<1>5. Listed(g, h)
  BY <1>3, <1>4 DEF Listed
<1>. QED  BY <1>5 DEF g

LEMMA RemoveFact ==
  ASSUME NEW fs, Good(fs), NEW k \in DOMAIN fs, NEW g, g = RemoveAt(fs, k)
  PROVE  /\ g \in Seq(Entry) /\ Len(g) = Len(fs) - 1 /\ DOMAIN g = 1 .. Len(fs) - 1
         /\ \A j \in DOMAIN g : g[j] = IF j < k THEN fs[j] ELSE fs[j + 1]
<1> DEFINE a == SubSeq(fs, 1, k - 1)
           b == SubSeq(fs, k + 1, Len(fs))
<1>1. fs \in Seq(Entry) /\ k \in 1 .. Len(fs) /\ Len(fs) \in Nat
  BY EntryFact DEF Good
<1>2. /\ a \in Seq(Entry) /\ Len(a) = k - 1
      /\ \A j \in 1 .. k - 1 : a[j] = fs[j]
  BY <1>1, SubSeqProperties
<1>3. /\ b \in Seq(Entry) /\ Len(b) = Len(fs) - k
      /\ \A j \in 1 .. Len(fs) - k : b[j] = fs[k + j]
  BY <1>1, SubSeqProperties
<1> HIDE DEF a, b
<1>4. /\ a \o b \in Seq(Entry) /\ Len(a \o b) = Len(a) + Len(b)
      /\ \A j \in 1 .. Len(a) + Len(b) :
           (a \o b)[j] = IF j <= Len(a) THEN a[j] ELSE b[j - Len(a)]
  BY <1>2, <1>3, ConcatProperties
<1>5. Len(a) + Len(b) = Len(fs) - 1
  BY <1>1, <1>2, <1>3
<1>6. \A j \in 1 .. Len(fs) - 1 : (a \o b)[j] = IF j < k THEN fs[j] ELSE fs[j + 1]
  <2> TAKE j \in 1 .. Len(fs) - 1
  <2>1. (a \o b)[j] = IF j <= k - 1 THEN a[j] ELSE b[j - (k - 1)]
    BY <1>2, <1>4, <1>5
  <2>2. CASE j < k
    BY <1>1, <1>2, <2>1, <2>2
  <2>3. CASE ~(j < k)
    <3>1. j - (k - 1) \in 1 .. Len(fs) - k /\ k + (j - (k - 1)) = j + 1
      BY <1>1, <2>3
    <3>2. b[j - (k - 1)] = fs[j + 1]
      BY <1>3, <3>1
    <3>3. ~(j <= k - 1)
      BY <1>1, <2>3
    <3>. QED  BY <2>1, <2>3, <3>2, <3>3, Zenon
  <2>. QED  BY <2>2, <2>3
<1>7. g = a \o b
  BY DEF RemoveAt, a, b
<1>8. DOMAIN (a \o b) = 1 .. Len(fs) - 1
  BY <1>4, <1>5
<1>. QED  BY <1>4, <1>5, <1>6, <1>7, <1>8

LEMMA GoodRemove ==
  ASSUME NEW fs, Good(fs), NEW k \in DOMAIN fs
  PROVE  Good(RemoveAt(fs, k))
<1> DEFINE g == RemoveAt(fs, k)
           Old(j) == IF j < k THEN j ELSE j + 1
<1>1. /\ g \in Seq(Entry) /\ Len(g) = Len(fs) - 1 /\ DOMAIN g = 1 .. Len(fs) - 1
      /\ \A j \in DOMAIN g : g[j] = fs[Old(j)]
  BY RemoveFact
<1>2. Len(fs) \in Nat /\ DOMAIN fs = 1 .. Len(fs) /\ Len(fs) <= MaxFiles
  BY EntryFact DEF Good
<1> HIDE DEF g
<1>3. /\ \A j \in DOMAIN g : Old(j) \in DOMAIN fs
      /\ \A i, j \in DOMAIN g : /\ i < j => Old(i) < Old(j)
                                /\ Old(i) = Old(j) => i = j
  BY <1>1, <1>2
<1> HIDE DEF Old
<1>4. Len(g) <= MaxFiles
  BY <1>1, <1>2, SizeAssumption
<1>5. /\ \A i, j \in DOMAIN g : i < j => End(g[j]) <= g[i].start
      /\ \A j \in DOMAIN g : End(g[j]) <= DiskSize
      /\ \A i, j \in DOMAIN g : g[i].name = g[j].name => i = j
  BY <1>1, <1>3 DEF Good
<1>6. Good(g)
  BY <1>1, <1>4, <1>5 DEF Good
<1>. QED  BY <1>6 DEF g

LEMMA ListedRemove ==
  ASSUME NEW fs, Good(fs), NEW k \in DOMAIN fs,
         NEW h \in OpenChannel, Listed(fs, h), h.name # fs[k].name
  PROVE  Listed(RemoveAt(fs, k), h)
<1> DEFINE g == RemoveAt(fs, k)
<1>1. PICK j \in DOMAIN fs : Matches(fs, h, j)
  BY DEF Listed
<1>2. j # k
  BY <1>1 DEF Matches
<1>3. DOMAIN fs = 1 .. Len(fs) /\ Len(fs) \in Nat /\ k \in Nat /\ j \in Nat
  BY EntryFact
<1>4. /\ DOMAIN g = 1 .. Len(fs) - 1
      /\ \A i \in DOMAIN g : g[i] = IF i < k THEN fs[i] ELSE fs[i + 1]
  BY RemoveFact
<1> HIDE DEF g
<1> DEFINE i == IF j < k THEN j ELSE j - 1
<1>5. i \in DOMAIN g /\ g[i] = fs[j]
  BY <1>2, <1>3, <1>4
<1>6. Above(fs, j) <= Above(g, i) /\ Above(fs, j) \in Nat /\ Above(g, i) \in Nat
  <2>1. CASE i = 1
    BY <2>1, AboveFact, SizeAssumption DEF Above
  <2>2. CASE i # 1
    <3>1. i - 1 \in DOMAIN g
      BY <1>3, <1>4, <1>5, <2>2
    <3> DEFINE o == IF i - 1 < k THEN i - 1 ELSE i
    <3>2. o \in DOMAIN fs /\ o < j /\ g[i - 1] = fs[o]
      BY <1>2, <1>3, <1>4, <3>1
    <3>3. Above(g, i) = fs[o].start
      BY <2>2, <3>2 DEF Above
    <3>. QED  BY <3>2, <3>3, AboveFact, EntryFact
  <2>. QED  BY <2>1, <2>2
<1>7. h.start + h.alloc \in Nat
  BY SizeAssumption DEF OpenChannel, FirstSector
<1>8. Matches(g, h, i)
  BY <1>1, <1>5, <1>6, <1>7 DEF Matches
<1>9. Listed(g, h)
  BY <1>5, <1>8 DEF Listed
<1>. QED  BY <1>9 DEF g

(* g is fs with f put before place i.                                       *)
Inserted(g, fs, i, f) ==
  /\ g \in Seq(Entry) /\ Len(g) = Len(fs) + 1 /\ DOMAIN g = 1 .. Len(fs) + 1
  /\ \A j \in 1 .. Len(fs) + 1 :
       g[j] = IF j < i THEN fs[j] ELSE IF j = i THEN f ELSE fs[j - 1]

LEMMA InsertFact ==
  ASSUME NEW fs \in Seq(Entry), NEW i \in 1 .. Len(fs) + 1, NEW f \in Entry
  PROVE  Inserted(InsertAt(fs, i, f), fs, i, f)
<1> DEFINE a == SubSeq(fs, 1, i - 1)
           b == SubSeq(fs, i, Len(fs))
           m == a \o <<f>>
<1>1. /\ a \in Seq(Entry) /\ Len(a) = i - 1
      /\ \A j \in 1 .. i - 1 : a[j] = fs[j]
  BY SubSeqProperties
<1>2. /\ b \in Seq(Entry) /\ Len(b) = Len(fs) - i + 1
      /\ \A j \in 1 .. Len(fs) - i + 1 : b[j] = fs[i + j - 1]
  BY SubSeqProperties
<1>3. <<f>> \in Seq(Entry) /\ Len(<<f>>) = 1 /\ <<f>>[1] = f
  OBVIOUS
<1>4. m \in Seq(Entry) /\ Len(m) = Len(a) + 1
      /\ \A j \in 1 .. Len(a) + 1 : m[j] = IF j <= Len(a) THEN a[j] ELSE f
  BY <1>1, <1>3, ConcatProperties
<1>5. InsertAt(fs, i, f) = m \o b
  BY DEF InsertAt
<1> HIDE DEF a, b, m
<1>6. /\ m \o b \in Seq(Entry) /\ Len(m \o b) = Len(m) + Len(b)
      /\ \A j \in 1 .. Len(m) + Len(b) :
           (m \o b)[j] = IF j <= Len(m) THEN m[j] ELSE b[j - Len(m)]
  BY <1>2, <1>4, ConcatProperties
<1>7. \A j \in 1 .. Len(fs) + 1 :
        (m \o b)[j] = IF j < i THEN fs[j] ELSE IF j = i THEN f ELSE fs[j - 1]
  BY <1>1, <1>2, <1>4, <1>6
<1>8. Len(m) + Len(b) = Len(fs) + 1
  BY <1>1, <1>2, <1>4
<1>9. DOMAIN (m \o b) = 1 .. Len(fs) + 1
  BY <1>6, <1>8
<1>. QED  BY <1>5, <1>6, <1>7, <1>8, <1>9, Zenon DEF Inserted

(* There is room for f as the new entry x: above entry x and below the one  *)
(* before it.                                                               *)
Fits(fs, x, f) ==
  /\ End(f) <= DiskSize
  /\ x \in DOMAIN fs => End(fs[x]) <= f.start
  /\ x # 1 => End(f) <= fs[x - 1].start

LEMMA GoodInsert ==
  ASSUME NEW fs, Good(fs), NEW x \in 1 .. Len(fs) + 1, NEW f \in Entry, Fits(fs, x, f),
         \A j \in DOMAIN fs : fs[j].name # f.name, Len(fs) < MaxFiles
  PROVE  Good(InsertAt(fs, x, f))
<1> DEFINE g == InsertAt(fs, x, f)
           Old(j) == IF j < x THEN j ELSE j - 1
<1>1. fs \in Seq(Entry) /\ Len(fs) \in Nat /\ DOMAIN fs = 1 .. Len(fs) /\ x \in Nat
  BY DEF Good
<1>2. /\ g \in Seq(Entry) /\ Len(g) = Len(fs) + 1 /\ DOMAIN g = 1 .. Len(fs) + 1
      /\ \A j \in 1 .. Len(fs) + 1 :
           g[j] = IF j < x THEN fs[j] ELSE IF j = x THEN f ELSE fs[j - 1]
  <2>1. Inserted(g, fs, x, f)
    BY <1>1, InsertFact
  <2>. QED  BY <2>1, Zenon DEF Inserted
<1> HIDE DEF g
<1>3. \A j \in DOMAIN g : j # x => g[j] = fs[Old(j)] /\ Old(j) \in DOMAIN fs
  BY <1>1, <1>2
<1>4. g[x] = f /\ x \in DOMAIN g
  BY <1>1, <1>2
<1>5. \A i, j \in DOMAIN g : i # x /\ j # x =>
        /\ i < j => Old(i) < Old(j)
        /\ Old(i) = Old(j) => i = j
  BY <1>1, <1>2
<1>6. \A j \in DOMAIN g : j # x => (j < x => Old(j) <= x - 1) /\ (x < j => x <= Old(j))
  BY <1>1, <1>2
<1> HIDE DEF Old
<1>7. \A i, j \in DOMAIN g : g[i].name = g[j].name => i = j
  BY <1>3, <1>4, <1>5 DEF Good
<1>8. \A j \in DOMAIN g : End(g[j]) <= DiskSize
  BY <1>3, <1>4 DEF Good, Fits
<1>9. f.start \in Nat /\ End(f) \in Nat /\ f.start <= End(f)
  <2>1. f.start \in FirstSector .. DiskSize - 1 /\ f.len \in Extent
    BY DEF Entry
  <2>2. f.start \in Nat
    BY <2>1, SizeAssumption DEF FirstSector
  <2>3. SectorsOf(f.len) \in Nat
    BY <2>1, ExtentNat, SectorsFact
  <2>. QED  BY <2>2, <2>3 DEF End
<1>10. ASSUME NEW i \in DOMAIN g, NEW j \in DOMAIN g, i < j
       PROVE  End(g[j]) <= g[i].start
  <2>1. CASE i # x /\ j # x
    BY <1>3, <1>5, <1>10, <2>1 DEF Good
  <2>2. CASE i = x
    <3>1. j # x /\ x < j
      BY <1>1, <1>2, <1>10, <2>2
    <3>2. x <= Old(j) /\ Old(j) \in DOMAIN fs /\ g[j] = fs[Old(j)]
      BY <1>3, <1>6, <3>1
    <3>3. x \in DOMAIN fs /\ Old(j) \in Nat
      BY <1>1, <3>2
    <3>4. End(fs[Old(j)]) <= End(fs[x]) /\ End(fs[Old(j)]) \in Nat /\ End(fs[x]) \in Nat
      <4>1. CASE Old(j) = x
        BY <4>1, <3>3, EntryFact
      <4>2. CASE Old(j) # x
        <5>1. x < Old(j)
          BY <1>1, <3>2, <3>3, <4>2
        <5>2. End(fs[Old(j)]) <= fs[x].start
          BY <3>2, <3>3, <5>1 DEF Good
        <5>. QED  BY <3>2, <3>3, <5>2, EntryFact
      <4>. QED  BY <4>1, <4>2
    <3>. QED  BY <1>4, <1>9, <2>2, <3>2, <3>3, <3>4 DEF Fits
  <2>3. CASE j = x
    <3>1. i # x /\ i < x
      BY <1>1, <1>2, <1>10, <2>3
    <3>2. Old(i) <= x - 1 /\ Old(i) \in DOMAIN fs /\ g[i] = fs[Old(i)]
      BY <1>3, <1>6, <3>1
    <3>3. x - 1 \in DOMAIN fs /\ x # 1 /\ Old(i) \in Nat
      BY <1>1, <3>2
    <3>4. fs[x - 1].start <= fs[Old(i)].start /\ fs[x - 1].start \in Nat /\ fs[Old(i)].start \in Nat
      <4>1. CASE Old(i) = x - 1
        BY <4>1, <3>3, EntryFact
      <4>2. CASE Old(i) # x - 1
        <5>1. Old(i) < x - 1
          BY <1>1, <3>2, <3>3, <4>2
        <5>2. End(fs[x - 1]) <= fs[Old(i)].start
          BY <3>2, <3>3, <5>1 DEF Good
        <5>. QED  BY <3>2, <3>3, <5>2, EntryFact
      <4>. QED  BY <4>1, <4>2
    <3>. QED  BY <1>4, <1>9, <2>3, <3>2, <3>3, <3>4 DEF Fits
  <2>. QED  BY <2>1, <2>2, <2>3
<1>11. Len(g) <= MaxFiles
  BY <1>1, <1>2, SizeAssumption
<1>12. Good(g)
  BY <1>2, <1>7, <1>8, <1>10, <1>11 DEF Good
<1>. QED  BY <1>12 DEF g

(* A new file takes nothing from a channel with no sectors in hand that the *)
(* catalogue has not heard of.                                              *)
LEMMA ListedInsert ==
  ASSUME NEW fs, Good(fs), NEW x \in 1 .. Len(fs) + 1, NEW f \in Entry, Fits(fs, x, f),
         NEW h \in OpenChannel, Listed(fs, h),
         \A j \in DOMAIN fs : fs[j].name = h.name => h.alloc <= SectorsOf(fs[j].len)
  PROVE  Listed(InsertAt(fs, x, f), h)
<1> DEFINE g == InsertAt(fs, x, f)
<1>1. PICK j \in DOMAIN fs : Matches(fs, h, j)
  BY DEF Listed
<1>2. fs \in Seq(Entry) /\ Len(fs) \in Nat /\ DOMAIN fs = 1 .. Len(fs) /\ x \in Nat
  BY DEF Good
<1>3. /\ DOMAIN g = 1 .. Len(fs) + 1
      /\ \A i \in 1 .. Len(fs) + 1 :
           g[i] = IF i < x THEN fs[i] ELSE IF i = x THEN f ELSE fs[i - 1]
  <2>1. Inserted(g, fs, x, f)
    BY <1>2, InsertFact
  <2>. QED  BY <2>1, Zenon DEF Inserted
<1> HIDE DEF g
<1> DEFINE i == IF j < x THEN j ELSE j + 1
<1>4. i \in DOMAIN g /\ g[i] = fs[j]
  BY <1>2, <1>3
<1>5. h.start + h.alloc <= Above(g, i)
  <2>1. CASE j = x
    <3>1. i # 1 /\ g[i - 1] = f
      BY <1>2, <1>3, <2>1
    <3>2. Above(g, i) = f.start /\ End(fs[j]) <= f.start
      BY <2>1, <3>1 DEF Above, Fits
    <3>3. h.start = fs[j].start /\ h.alloc <= SectorsOf(fs[j].len) /\ h.start \in Nat
          /\ h.alloc \in Nat
      BY <1>1, SizeAssumption DEF Matches, OpenChannel, FirstSector
    <3>4. f.start \in Nat
      BY SizeAssumption DEF Entry, FirstSector
    <3>. QED  BY <3>2, <3>3, <3>4, EntryFact
  <2>2. CASE j # x
    <3>1. Above(g, i) = Above(fs, j)
      <4>1. CASE j = 1
        <5>1. i = 1
          BY <4>1, <2>2, <1>2
        <5>. QED  BY <4>1, <5>1 DEF Above
      <4>2. CASE j # 1
        <5>1. i # 1 /\ i - 1 \in DOMAIN g /\ g[i - 1] = fs[j - 1]
          BY <4>2, <2>2, <1>2, <1>3
        <5>. QED  BY <4>2, <5>1 DEF Above
      <4>. QED  BY <4>1, <4>2
    <3>. QED  BY <3>1, <1>1 DEF Matches
  <2>. QED  BY <2>1, <2>2
<1>6. Matches(g, h, i)
  BY <1>1, <1>4, <1>5 DEF Matches
<1>7. Listed(g, h)
  BY <1>4, <1>6 DEF Listed
<1>. QED  BY <1>7 DEF g
-----------------------------------------------------------------------------
(* The channels.                                                            *)
LEMMA OpenFact ==
  ASSUME NEW h \in OpenChannel
  PROVE  /\ h.start \in Nat /\ FirstSector <= h.start /\ h.start < DiskSize
         /\ h.ptr \in Nat /\ h.ext \in Nat /\ h.alloc \in Nat /\ h.alloc <= DiskSize
         /\ h.bufsec \in Nat /\ h.name \in Names /\ h.open = TRUE
         /\ h.readOnly \in BOOLEAN /\ h.locked \in BOOLEAN /\ h.valid \in BOOLEAN
         /\ h.dirty \in BOOLEAN /\ h.grown \in BOOLEAN /\ h.warned \in BOOLEAN
<1>1. /\ h.start \in FirstSector .. DiskSize - 1 /\ h.ptr \in Extent /\ h.ext \in Extent
      /\ h.alloc \in 0 .. DiskSize /\ h.bufsec \in 0 .. DiskSize - 1 /\ h.name \in Names
      /\ h.open = TRUE
  BY DEF OpenChannel
<1>2. /\ h.readOnly \in BOOLEAN /\ h.locked \in BOOLEAN /\ h.valid \in BOOLEAN
      /\ h.dirty \in BOOLEAN /\ h.grown \in BOOLEAN /\ h.warned \in BOOLEAN
  BY DEF OpenChannel
<1>3. h.ptr \in Nat /\ h.ext \in Nat
  BY <1>1, ExtentNat
<1>4. /\ h.start \in Nat /\ FirstSector <= h.start /\ h.start < DiskSize
      /\ h.alloc \in Nat /\ h.alloc <= DiskSize /\ h.bufsec \in Nat
  BY <1>1, SizeAssumption DEF FirstSector
<1>. QED  BY <1>1, <1>2, <1>3, <1>4

LEMMA ChannelFact ==
  ASSUME TypeOK, NEW c \in Opened
  PROVE  c \in Channels /\ chan[c] \in OpenChannel /\ chan[c].open
<1>1. c \in Channels /\ chan[c].open
  BY DEF Opened
<1>2. chan[c] \in OpenChannel \cup {Closed}
  BY <1>1 DEF TypeOK
<1>3. chan[c] # Closed
  BY <1>1 DEF Closed
<1>. QED  BY <1>1, <1>2, <1>3

(* Where a channel's file is in the catalogue, and its room.                *)
LEMMA EntryOf ==
  ASSUME FilesInv, NEW c \in Opened
  PROVE  \E k \in DOMAIN files :
           /\ Matches(files, chan[c], k)
           /\ Exists(chan[c].name) /\ At(chan[c].name) = k
           /\ RoomFor(c) = Above(files, k) - chan[c].start
           /\ RoomFor(c) \in Nat /\ chan[c].alloc <= RoomFor(c)
           /\ chan[c].start + RoomFor(c) <= DiskSize
<1>1. Good(files) /\ chan[c] \in OpenChannel
  BY ChannelFact DEF FilesInv, TypeOK
<1>2. PICK k \in DOMAIN files : Matches(files, chan[c], k)
  BY DEF FilesInv, ChannelGood, Listed
<1>3. files[k].name = chan[c].name
  BY <1>2 DEF Matches
<1>4. Exists(chan[c].name) /\ At(chan[c].name) = k /\ GapEnd(k - 1) = Above(files, k)
  BY <1>1, <1>3, AtFact
<1>5. RoomFor(c) = Above(files, k) - chan[c].start
  BY <1>4 DEF RoomFor
<1>6. Above(files, k) \in Nat /\ Above(files, k) <= DiskSize
  BY <1>1, AboveFact
<1>7. chan[c].start + chan[c].alloc <= Above(files, k)
  BY <1>2 DEF Matches
<1>8. chan[c].start \in Nat /\ chan[c].alloc \in Nat
  BY <1>1, OpenFact
<1>9. RoomFor(c) \in Nat /\ chan[c].alloc <= RoomFor(c) /\ chan[c].start + RoomFor(c) <= DiskSize
  BY <1>5, <1>6, <1>7, <1>8, SizeAssumption
<1>. QED  BY <1>2, <1>4, <1>5, <1>9

(* Sectors held by channels on different files are different.               *)
LEMMA HeldApart ==
  ASSUME FilesInv, NEW c \in Opened, NEW d \in Opened, chan[c].name # chan[d].name,
         NEW s \in SectorsHeld(chan[c])
  PROVE  s \notin SectorsHeld(chan[d])
<1>1. PICK j \in DOMAIN files : Matches(files, chan[c], j)
  BY EntryOf
<1>2. PICK k \in DOMAIN files : Matches(files, chan[d], k)
  BY EntryOf
<1>3. Good(files) /\ chan[c] \in OpenChannel /\ chan[d] \in OpenChannel
  BY ChannelFact DEF FilesInv, TypeOK
<1>4. j # k /\ j \in Nat /\ k \in Nat
  BY <1>1, <1>2, <1>3, EntryFact DEF Matches
<1>5. /\ chan[c].start \in Nat /\ chan[c].alloc \in Nat
      /\ chan[d].start \in Nat /\ chan[d].alloc \in Nat
  BY <1>3, OpenFact
<1>6. /\ chan[c].start = files[j].start /\ chan[c].start + chan[c].alloc <= Above(files, j)
      /\ chan[d].start = files[k].start /\ chan[d].start + chan[d].alloc <= Above(files, k)
  BY <1>1, <1>2 DEF Matches
<1>7. Above(files, j) \in Nat /\ Above(files, k) \in Nat
  BY <1>3, AboveFact
<1>8. CASE j < k
  <2>1. Above(files, k) <= files[j].start
    BY <1>3, <1>8, AboveFact
  <2>. QED  BY <1>5, <1>6, <1>7, <2>1 DEF SectorsHeld
<1>9. CASE k < j
  <2>1. Above(files, j) <= files[k].start
    BY <1>3, <1>9, AboveFact
  <2>. QED  BY <1>5, <1>6, <1>7, <2>1 DEF SectorsHeld
<1>. QED  BY <1>4, <1>8, <1>9

LEMMA HeldOnDisk ==
  ASSUME FilesInv, NEW c \in Opened, NEW s \in SectorsHeld(chan[c])
  PROVE  s \in FirstSector .. DiskSize - 1
<1>1. PICK k \in DOMAIN files : Matches(files, chan[c], k)
  BY EntryOf
<1>2. chan[c].start + chan[c].alloc <= Above(files, k) /\ Above(files, k) <= DiskSize
      /\ Above(files, k) \in Nat
  BY <1>1, AboveFact DEF Matches, FilesInv, TypeOK
<1>3. chan[c].start \in Nat /\ FirstSector <= chan[c].start /\ chan[c].alloc \in Nat
  BY ChannelFact, OpenFact DEF FilesInv
<1>. QED  BY <1>2, <1>3, SizeAssumption DEF SectorsHeld, FirstSector

(* A channel that has something to write is the only one on its file.       *)
LEMMA WriterAlone ==
  ASSUME FilesInv, NEW c \in Opened, chan[c].dirty \/ chan[c].grown \/ Writable(chan[c]),
         NEW d \in Opened, d # c
  PROVE  chan[d].name # chan[c].name
<1>1. PICK k \in DOMAIN files : Matches(files, chan[c], k)
  BY EntryOf
<1>2. ~chan[c].readOnly
  BY <1>1 DEF Matches, Writable
<1>. QED  BY <1>2 DEF FilesInv, Exclusive

(* Writing a buffer back changes no sector another channel has read.        *)
LEMMA FlushedFact ==
  ASSUME FilesInv, NEW c \in Opened
  PROVE  /\ Flushed(c) \in [FirstSector .. DiskSize - 1 -> Sector]
         /\ chan[c].bufsec # NoSector => buf[c] = Flushed(c)[chan[c].bufsec]
         /\ \A s \in FirstSector .. DiskSize - 1 :
              s \notin SectorsHeld(chan[c]) => Flushed(c)[s] = disk[s]
         /\ \A d \in Opened :
              d # c /\ chan[d].bufsec # NoSector /\ ~chan[d].dirty =>
                buf[d] = Flushed(c)[chan[d].bufsec]
<1>1. /\ disk \in [FirstSector .. DiskSize - 1 -> Sector] /\ buf[c] \in Sector
      /\ chan[c] \in OpenChannel
  BY ChannelFact DEF FilesInv, TypeOK
<1>2. chan[c].dirty => chan[c].bufsec # NoSector
  BY DEF FilesInv, ChannelGood, BufferKept
<1>3. chan[c].bufsec # NoSector =>
        chan[c].bufsec \in SectorsHeld(chan[c]) /\ chan[c].bufsec \in FirstSector .. DiskSize - 1
  BY HeldOnDisk DEF FilesInv, ChannelGood, BufferKept
<1>4. CASE ~chan[c].dirty
  BY <1>1, <1>4 DEF Flushed, FilesInv, BuffersCurrent
<1>5. CASE chan[c].dirty
  <2>1. Flushed(c) = [disk EXCEPT ![chan[c].bufsec] = buf[c]]
    BY <1>5 DEF Flushed
  <2>2. ASSUME NEW d \in Opened, d # c, chan[d].bufsec # NoSector, ~chan[d].dirty
        PROVE  buf[d] = Flushed(c)[chan[d].bufsec]
    <3>1. chan[d].bufsec \in SectorsHeld(chan[d])
      BY <2>2 DEF FilesInv, ChannelGood, BufferKept
    <3>2. chan[d].name # chan[c].name
      BY <1>5, <2>2, WriterAlone
    <3>3. chan[d].bufsec # chan[c].bufsec
      BY <1>2, <1>3, <1>5, <3>1, <3>2, HeldApart
    <3>4. chan[d].bufsec \in FirstSector .. DiskSize - 1 /\ buf[d] = disk[chan[d].bufsec]
      BY <2>2, <3>1, HeldOnDisk DEF FilesInv, BuffersCurrent
    <3>. QED  BY <1>1, <2>1, <3>3, <3>4
  <2>. QED  BY <1>1, <1>2, <1>3, <1>5, <2>1, <2>2
<1>. QED  BY <1>4, <1>5

(* Saving the length of a file disturbs no other channel, if the channel    *)
(* has the sectors.                                                         *)
LEMMA LengthStep ==
  ASSUME FilesInv, NEW c \in Opened, Writable(chan[c]) \/ chan[c].grown,
         NEW k \in DOMAIN files, files[k].name = chan[c].name,
         NEW len \in Extent, SectorsOf(len) <= RoomFor(c)
  PROVE  /\ Good(SetLen(files, k, len))
         /\ \A d \in Opened : d # c => ChannelGood(SetLen(files, k, len), chan[d])
<1>1. Good(files) /\ At(chan[c].name) = k /\ chan[c] \in OpenChannel
  BY AtFact, ChannelFact DEF FilesInv, TypeOK
<1>2. /\ RoomFor(c) = Above(files, k) - chan[c].start
      /\ RoomFor(c) \in Nat /\ chan[c].start = files[k].start
  BY <1>1, EntryOf DEF Matches
<1>3. Above(files, k) \in Nat /\ chan[c].start \in Nat /\ SectorsOf(len) \in Nat
  BY <1>1, AboveFact, OpenFact, ExtentNat, SectorsFact
<1>4. files[k].start + SectorsOf(len) <= Above(files, k)
  BY <1>2, <1>3
<1>5. Good(SetLen(files, k, len))
  BY <1>1, <1>4, GoodSetLen
<1>6. ASSUME NEW d \in Opened, d # c
      PROVE  ChannelGood(SetLen(files, k, len), chan[d])
  <2>1. chan[d].name # files[k].name
    BY <1>6, WriterAlone
  <2>2. Listed(SetLen(files, k, len), chan[d])
    BY <1>1, <2>1, ListedSetLen DEF FilesInv, ChannelGood
  <2>. QED  BY <2>2 DEF FilesInv, ChannelGood
<1>. QED  BY <1>5, <1>6

LEMMA LengthSavedFact ==
  ASSUME FilesInv, NEW c \in Opened
  PROVE  /\ Good(LengthSaved(c))
         /\ \A d \in Opened : d # c => ChannelGood(LengthSaved(c), chan[d])
         /\ Listed(LengthSaved(c), [chan[c] EXCEPT !.dirty = FALSE])
         /\ \E k \in DOMAIN files :
              /\ files[k].name = chan[c].name
              /\ LengthSaved(c) = IF chan[c].grown THEN SetLen(files, k, chan[c].ext) ELSE files
<1>1. PICK k \in DOMAIN files : /\ Matches(files, chan[c], k) /\ At(chan[c].name) = k
                                /\ RoomFor(c) \in Nat /\ chan[c].alloc <= RoomFor(c)
  BY EntryOf
<1>2. chan[c] \in OpenChannel /\ files[k].name = chan[c].name /\ Good(files)
  BY <1>1, ChannelFact DEF FilesInv, TypeOK, Matches
<1> DEFINE h == [chan[c] EXCEPT !.dirty = FALSE]
<1>3. /\ h.name = chan[c].name /\ h.start = chan[c].start /\ h.locked = chan[c].locked
      /\ h.alloc = chan[c].alloc /\ h.ext = chan[c].ext /\ h.readOnly = chan[c].readOnly
      /\ h.grown = chan[c].grown /\ h.dirty = FALSE
  BY <1>2 DEF OpenChannel
<1> HIDE DEF h
<1>4. CASE ~chan[c].grown
  <2>1. LengthSaved(c) = files
    BY <1>4 DEF LengthSaved
  <2>2. Matches(files, h, k)
    BY <1>1, <1>3 DEF Matches, Writable
  <2>3. Listed(files, h)
    BY <2>2 DEF Listed
  <2>. QED  BY <1>2, <1>4, <2>1, <2>3 DEF FilesInv, h
<1>5. CASE chan[c].grown
  <2>1. LengthSaved(c) = SetLen(files, k, chan[c].ext)
    BY <1>1, <1>5 DEF LengthSaved, SetLen
  <2>2. chan[c].ext \in Extent /\ chan[c].ext \in Nat /\ chan[c].alloc \in Nat
    BY <1>2, OpenFact DEF OpenChannel
  <2>3. SectorsOf(chan[c].ext) <= chan[c].alloc /\ SectorsOf(chan[c].ext) \in Nat
    BY <2>2, SectorsFact DEF FilesInv, ChannelGood, PointersFit
  <2>4. /\ Good(SetLen(files, k, chan[c].ext))
        /\ \A d \in Opened : d # c => ChannelGood(SetLen(files, k, chan[c].ext), chan[d])
    <3>1. SectorsOf(chan[c].ext) <= RoomFor(c)
      BY <1>1, <2>2, <2>3
    <3>. QED  BY <1>2, <1>5, <2>2, <3>1, LengthStep
  <2> DEFINE g == SetLen(files, k, chan[c].ext)
  <2>5. /\ DOMAIN g = DOMAIN files /\ g[k].name = files[k].name /\ g[k].start = files[k].start
        /\ g[k].locked = files[k].locked /\ Above(g, k) = Above(files, k)
        /\ g[k].len = chan[c].ext
    BY <1>2, <2>2, SetLenFact
  <2> HIDE DEF g
  <2>6. Matches(g, h, k)
    BY <1>1, <1>3, <1>5, <2>3, <2>5 DEF Matches, Writable
  <2>7. Listed(g, h)
    BY <2>5, <2>6 DEF Listed
  <2>. QED  BY <1>2, <1>5, <2>1, <2>4, <2>7 DEF g, h
<1>. QED  BY <1>4, <1>5

-----------------------------------------------------------------------------
(* Steps.                                                                   *)
DiskOK(d) == d \in [FirstSector .. DiskSize - 1 -> Sector]

(* A step that changes no channel and no sector.                            *)
LEMMA CatalogueStep ==
  ASSUME FilesInv, UNCHANGED <<disk, chan, buf>>, job' = job \/ job' = Idle,
         Good(files'), \A d \in Opened : ChannelGood(files', chan[d])
  PROVE  FilesInv'
<1>1. Opened' = Opened
  BY DEF Opened
<1>2. TypeOK'
  BY DEF FilesInv, TypeOK
<1>3. \A d \in Opened' : ChannelGood(files', chan'[d])
  BY <1>1
<1>4. Exclusive' /\ BuffersCurrent'
  BY <1>1 DEF FilesInv, Exclusive, BuffersCurrent
<1>5. JobInv'
  BY DEF FilesInv, JobInv
<1>. QED  BY <1>2, <1>3, <1>4, <1>5 DEF FilesInv

(* A step of one channel, which it may open or close.                       *)
LEMMA ChannelStep ==
  ASSUME FilesInv, NEW c \in Channels, NEW h \in OpenChannel \cup {Closed},
         chan' = [chan EXCEPT ![c] = h],
         Good(files'), DiskOK(disk'), buf' \in [Channels -> Sector],
         \A d \in Opened : d # c => ChannelGood(files', chan[d]),
         \A d \in Channels : d # c => buf'[d] = buf[d],
         \A d \in Opened :
           d # c /\ chan[d].bufsec # NoSector /\ ~chan[d].dirty =>
             buf[d] = disk'[chan[d].bufsec],
         h.open =>
           /\ ChannelGood(files', h)
           /\ h.bufsec # NoSector /\ ~h.dirty => buf'[c] = disk'[h.bufsec]
           /\ \A d \in Opened : d # c /\ chan[d].name = h.name => chan[d].readOnly /\ h.readOnly,
         job' \in Filling \cup {Idle},
         job' # Idle => job'.channel = c /\ h.open /\ h.ptr = h.ext /\ h.ext <= job'.to
  PROVE  FilesInv'
<1>1. chan \in [Channels -> OpenChannel \cup {Closed}]
  BY DEF FilesInv, TypeOK
<1>2. /\ chan' \in [Channels -> OpenChannel \cup {Closed}] /\ chan'[c] = h
      /\ \A d \in Channels : d # c => chan'[d] = chan[d]
  BY <1>1
<1>3. TypeOK'
  BY <1>2 DEF TypeOK, DiskOK
<1>4. \A d \in Channels : d # c => (d \in Opened' <=> d \in Opened)
  BY <1>2 DEF Opened
<1>5. c \in Opened' <=> h.open
  BY <1>2 DEF Opened
<1>6. \A d \in Opened' : d \in Channels
  BY DEF Opened
<1>7. \A d \in Opened' : ChannelGood(files', chan'[d])
  <2> TAKE d \in Opened'
  <2>1. CASE d = c
    BY <2>1, <1>2, <1>5
  <2>2. CASE d # c
    BY <2>2, <1>2, <1>4, <1>6
  <2>. QED  BY <2>1, <2>2
<1>8. BuffersCurrent'
  <2> SUFFICES ASSUME NEW d \in Opened', chan'[d].bufsec # NoSector, ~chan'[d].dirty
               PROVE  buf'[d] = disk'[chan'[d].bufsec]
    BY DEF BuffersCurrent
  <2>1. CASE d = c
    BY <2>1, <1>2, <1>5
  <2>2. CASE d # c
    BY <2>2, <1>2, <1>4, <1>6
  <2>. QED  BY <2>1, <2>2
<1>9. Exclusive'
  <2> SUFFICES ASSUME NEW a \in Opened', NEW b \in Opened', a # b,
                      chan'[a].name = chan'[b].name
               PROVE  chan'[a].readOnly /\ chan'[b].readOnly
    BY DEF Exclusive
  <2>1. CASE a # c /\ b # c
    <3>1. a \in Opened /\ b \in Opened /\ chan'[a] = chan[a] /\ chan'[b] = chan[b]
      BY <2>1, <1>2, <1>4, <1>6
    <3>. QED  BY <3>1 DEF FilesInv, Exclusive
  <2>2. CASE a = c
    <3>1. b \in Opened /\ chan'[b] = chan[b] /\ chan'[a] = h /\ h.open
      BY <2>2, <1>2, <1>4, <1>5, <1>6
    <3>. QED  BY <2>2, <3>1
  <2>3. CASE b = c
    <3>1. a \in Opened /\ chan'[a] = chan[a] /\ chan'[b] = h /\ h.open
      BY <2>3, <1>2, <1>4, <1>5, <1>6
    <3>. QED  BY <2>3, <3>1
  <2>. QED  BY <2>1, <2>2, <2>3
<1>10. JobInv'
  BY <1>2 DEF JobInv
<1>. QED  BY <1>3, <1>7, <1>8, <1>9, <1>10 DEF FilesInv

LEMMA ForgetStep ==
  ASSUME FilesInv, Forget, Good(files')
  PROVE  FilesInv'
<1>1. TypeOK'
  BY DEF FilesInv, TypeOK, Forget
<1>2. Opened' = {}
  BY DEF Forget, Opened, Closed
<1>3. job' = Idle
  BY DEF Forget
<1>. QED  BY <1>1, <1>2, <1>3 DEF FilesInv, Exclusive, BuffersCurrent, JobInv
-----------------------------------------------------------------------------
(* Closing and flushing.                                                    *)
LEMMA CloseStep ==
  ASSUME FilesInv, NEW c \in Opened, CloseChannel(c), job' = Idle, UNCHANGED buf
  PROVE  FilesInv'
<1>1. c \in Channels /\ ~Closed.open
  BY DEF Opened, Closed
<1>2. files' = LengthSaved(c) /\ disk' = Flushed(c) /\ chan' = [chan EXCEPT ![c] = Closed]
  BY DEF CloseChannel
<1>3. Good(files') /\ \A d \in Opened : d # c => ChannelGood(files', chan[d])
  BY <1>2, LengthSavedFact
<1>4. DiskOK(disk')
      /\ \A d \in Opened : d # c /\ chan[d].bufsec # NoSector /\ ~chan[d].dirty =>
           buf[d] = disk'[chan[d].bufsec]
  BY <1>2, FlushedFact DEF DiskOK
<1>5. buf' \in [Channels -> Sector] /\ \A d \in Channels : d # c => buf'[d] = buf[d]
  BY DEF FilesInv, TypeOK
<1>. QED  BY <1>1, <1>2, <1>3, <1>4, <1>5, ChannelStep

LEMMA FlushStep ==
  ASSUME FilesInv, NEW c \in Channels, Flush(c)
  PROVE  FilesInv'
<1> DEFINE h == [chan[c] EXCEPT !.dirty = FALSE]
<1>1. c \in Opened /\ job = Idle
  BY DEF Flush, Ready, Opened
<1>2. chan[c] \in OpenChannel
  BY <1>1, ChannelFact DEF FilesInv
<1>3. /\ files' = LengthSaved(c) /\ disk' = Flushed(c) /\ chan' = [chan EXCEPT ![c] = h]
      /\ buf' = buf /\ job' = Idle
  BY <1>1, <1>2 DEF Flush
<1>4. /\ h \in OpenChannel /\ h.name = chan[c].name /\ h.readOnly = chan[c].readOnly
      /\ h.ptr = chan[c].ptr /\ h.ext = chan[c].ext /\ h.alloc = chan[c].alloc
      /\ h.start = chan[c].start /\ h.valid = chan[c].valid /\ h.bufsec = chan[c].bufsec
      /\ h.locked = chan[c].locked /\ ~h.dirty
  BY <1>2 DEF OpenChannel
<1>5. Listed(files', h) /\ Good(files')
      /\ \A d \in Opened : d # c => ChannelGood(files', chan[d])
  BY <1>1, <1>3, LengthSavedFact
<1> HIDE DEF h
<1>6. PointersFit(h) /\ BufferKept(h)
  BY <1>1, <1>4 DEF FilesInv, ChannelGood, PointersFit, BufferKept, SectorsHeld, Writable
<1>7. DiskOK(disk') /\ (h.bufsec # NoSector => buf'[c] = disk'[h.bufsec])
      /\ \A d \in Opened : d # c /\ chan[d].bufsec # NoSector /\ ~chan[d].dirty =>
           buf[d] = disk'[chan[d].bufsec]
  BY <1>1, <1>3, <1>4, FlushedFact DEF DiskOK
<1>8. buf' \in [Channels -> Sector] /\ \A d \in Channels : d # c => buf'[d] = buf[d]
  BY <1>3 DEF FilesInv, TypeOK
<1>9. \A d \in Opened : d # c /\ chan[d].name = h.name => chan[d].readOnly /\ h.readOnly
  BY <1>1, <1>4 DEF FilesInv, Exclusive
<1>. QED  BY <1>3, <1>4, <1>5, <1>6, <1>7, <1>8, <1>9, ChannelStep DEF ChannelGood

LEMMA ReclaimStep ==
  ASSUME FilesInv, Reclaim
  PROVE  FilesInv'
<1> DEFINE Lost(h) == [h EXCEPT !.valid = FALSE, !.bufsec = NoSector]
<1>1. /\ chan' = [c \in Channels |-> IF chan[c].open THEN Lost(chan[c]) ELSE Closed]
      /\ UNCHANGED <<files, disk, buf, job>> /\ job = Idle
      /\ \A c \in Opened : ~chan[c].dirty
  BY Zenon DEF Reclaim
<1>2. ASSUME NEW c \in Opened
      PROVE  /\ Lost(chan[c]) \in OpenChannel /\ ~Lost(chan[c]).dirty
             /\ ChannelGood(files, Lost(chan[c]))
             /\ Lost(chan[c]).name = chan[c].name /\ Lost(chan[c]).bufsec = NoSector
             /\ Lost(chan[c]).readOnly = chan[c].readOnly
  <2>1. chan[c] \in OpenChannel /\ ~chan[c].dirty
    BY <1>1, ChannelFact, Zenon DEF FilesInv
  <2> DEFINE h == Lost(chan[c])
  <2>2. NoSector \in 0 .. DiskSize - 1
    BY SizeAssumption DEF NoSector, FirstSector
  <2>3. /\ h \in OpenChannel /\ h.name = chan[c].name /\ h.readOnly = chan[c].readOnly
        /\ h.ptr = chan[c].ptr /\ h.ext = chan[c].ext /\ h.alloc = chan[c].alloc
        /\ h.start = chan[c].start /\ ~h.valid /\ h.bufsec = NoSector
        /\ h.locked = chan[c].locked /\ ~h.dirty /\ h.grown = chan[c].grown
    BY <2>1, <2>2 DEF OpenChannel
  <2> HIDE DEF h
  <2>4. PICK k \in DOMAIN files : Matches(files, chan[c], k)
    BY EntryOf
  <2>5. Matches(files, h, k)
    BY <2>3, <2>4 DEF Matches, Writable
  <2>6. PointersFit(h) /\ BufferKept(h)
    BY <2>3 DEF FilesInv, ChannelGood, PointersFit, BufferKept
  <2>7. ChannelGood(files, h)
    BY <2>5, <2>6 DEF ChannelGood, Listed
  <2>. QED  BY <2>3, <2>7 DEF h
<1> HIDE DEF Lost
<1>3. Opened' = Opened /\ \A c \in Opened : chan'[c] = Lost(chan[c])
  <2>1. \A c \in Channels : c \in Opened => chan'[c] = Lost(chan[c]) /\ Lost(chan[c]).open
    BY <1>1, <1>2, OpenFact DEF Opened
  <2>2. \A c \in Channels : c \notin Opened => chan'[c] = Closed /\ ~Closed.open
    BY <1>1 DEF Opened, Closed
  <2>. QED  BY <2>1, <2>2 DEF Opened
<1>4. TypeOK'
  <2>1. chan' \in [Channels -> OpenChannel \cup {Closed}]
    BY <1>1, <1>2 DEF Opened
  <2>. QED  BY <1>1, <2>1 DEF FilesInv, TypeOK
<1>5. \A c \in Opened' : ChannelGood(files', chan'[c])
  BY <1>1, <1>2, <1>3
<1>6. Exclusive' /\ BuffersCurrent' /\ JobInv'
  BY <1>1, <1>2, <1>3 DEF FilesInv, Exclusive, BuffersCurrent, JobInv
<1>. QED  BY <1>4, <1>5, <1>6 DEF FilesInv
-----------------------------------------------------------------------------
(* Opening, making and deleting files.                                      *)
LEMMA FreshFact ==
  ASSUME NEW fs, Good(fs), NEW k \in DOMAIN fs, NEW readOnly \in BOOLEAN, NEW out \in BOOLEAN,
         out => ~readOnly /\ ~fs[k].locked, NEW h, h = Fresh(fs[k], readOnly, out)
  PROVE  /\ h \in OpenChannel /\ ChannelGood(fs, h)
         /\ h.name = fs[k].name /\ h.readOnly = readOnly /\ h.bufsec = NoSector
<1> DEFINE f == fs[k]
<1>1. /\ f \in Entry /\ SectorsOf(f.len) \in Nat /\ End(f) <= DiskSize /\ f.len \in Nat
      /\ f.start \in Nat /\ End(f) = f.start + SectorsOf(f.len)
      /\ End(f) <= Above(fs, k) /\ Above(fs, k) \in Nat
  BY EntryFact, AboveFact
<1>2. /\ f.name \in Names /\ f.start \in FirstSector .. DiskSize - 1 /\ f.len \in Extent
      /\ f.locked \in BOOLEAN
  BY <1>1 DEF Entry
<1>3. SectorsOf(f.len) \in 0 .. DiskSize /\ 0 \in Extent /\ NoSector \in 0 .. DiskSize - 1
  <2>1. DiskSize * SectorSize \in Nat
    BY SizeAssumption
  <2>. QED  BY <1>1, <2>1, SizeAssumption DEF Extent, NoSector, FirstSector
<1> HIDE DEF f
<1>4. /\ h.open = TRUE /\ h.name = f.name /\ h.start = f.start /\ h.ptr = 0
      /\ h.ext = (IF out THEN 0 ELSE f.len) /\ h.alloc = SectorsOf(f.len)
      /\ h.readOnly = readOnly /\ h.locked = f.locked /\ h.valid = FALSE /\ h.dirty = FALSE
      /\ h.grown = out /\ h.warned = FALSE /\ h.bufsec = NoSector
  BY DEF Fresh, f
<1>5. h \in OpenChannel
  BY <1>2, <1>3 DEF Fresh, OpenChannel, f
<1>6. PointersFit(h)
  <2>1. f.len <= SectorsOf(f.len) * SectorSize
    BY <1>1, SectorsFact
  <2>2. 0 <= SectorsOf(f.len) * SectorSize
    BY <1>1, SizeAssumption
  <2>. QED  BY <1>1, <1>4, <2>1, <2>2 DEF PointersFit
<1>7. BufferKept(h)
  BY <1>4 DEF BufferKept
<1>8. Matches(fs, h, k)
  BY <1>1, <1>4 DEF Matches, Writable, f
<1>. QED  BY <1>4, <1>5, <1>6, <1>7, <1>8 DEF ChannelGood, Listed, f

LEMMA TakeStep ==
  ASSUME FilesInv, Good(files'), NEW k \in DOMAIN files', NEW c \in Channels \ Opened,
         NEW how \in {"in", "up", "out"}, TakeChannel(c, files'[k], how),
         how = "out" => ~files'[k].locked,
         \A d \in Opened : chan[d].name = files'[k].name => how = "in" /\ chan[d].readOnly,
         \A d \in Opened : ChannelGood(files', chan[d]),
         job = Idle, UNCHANGED <<disk, buf, job>>
  PROVE  FilesInv'
<1> DEFINE in == how = "in"
           out == how = "out"
           h == Fresh(files'[k], in, out)
<1>0. in \in BOOLEAN /\ out \in BOOLEAN /\ (out => ~in /\ ~files'[k].locked)
  OBVIOUS
<1> HIDE DEF in, out
<1>1. /\ h \in OpenChannel /\ ChannelGood(files', h)
      /\ h.name = files'[k].name /\ h.readOnly = in /\ h.bufsec = NoSector
  BY <1>0, FreshFact
<1>2. chan' = [chan EXCEPT ![c] = h]
  BY DEF TakeChannel, in, out
<1> HIDE DEF h
<1>3. \A d \in Opened : d # c /\ chan[d].name = h.name => chan[d].readOnly /\ h.readOnly
  BY <1>1 DEF in
<1>4. DiskOK(disk') /\ buf' \in [Channels -> Sector] /\ job' = Idle
      /\ \A d \in Opened : d # c /\ chan[d].bufsec # NoSector /\ ~chan[d].dirty =>
           buf[d] = disk'[chan[d].bufsec]
  BY DEF FilesInv, TypeOK, DiskOK, BuffersCurrent
<1>. QED  BY <1>1, <1>2, <1>3, <1>4, ChannelStep

LEMMA FindStep ==
  ASSUME FilesInv, NEW n \in Names, NEW how \in {"in", "up", "out"}, Find(n, how)
  PROVE  FilesInv'
<1>1. CASE Refuse
  BY <1>1, CatalogueStep DEF Refuse, FilesInv, TypeOK
<1>2. CASE ~Refuse
  <2>1. PICK c \in Channels \ Opened : TakeChannel(c, files[At(n)], how)
    BY <1>2 DEF Find
  <2>2. /\ Exists(n) /\ job = Idle /\ UNCHANGED <<files, disk, buf, job>>
        /\ ~(how = "out" /\ files[At(n)].locked) /\ ~Conflict(n, how # "in")
    BY <1>2 DEF Find
  <2>3. PICK k \in DOMAIN files : files[k].name = n
    BY <2>2 DEF Exists
  <2>4. At(n) = k /\ Good(files)
    BY <2>3, AtFact DEF FilesInv, TypeOK
  <2>5. \A d \in Opened : chan[d].name = n => how = "in" /\ chan[d].readOnly
    BY <2>2 DEF Conflict, Using
  <2>6. \A d \in Opened : ChannelGood(files', chan[d])
    BY <2>2 DEF FilesInv
  <2>. QED  BY <2>1, <2>2, <2>3, <2>4, <2>5, <2>6, TakeStep
<1>. QED  BY <1>1, <1>2

(* A gap that is large enough has room for the new file.                    *)
NewEntry(n, y) ==
  [name |-> n, start |-> GapStart(y), len |-> NewSize * SectorSize, locked |-> FALSE]

LEMMA GapFact ==
  ASSUME Good(files), NEW n \in Names, NEW y \in Gaps
  PROVE  /\ y + 1 \in 1 .. Len(files) + 1
         /\ NewEntry(n, y) \in Entry /\ Fits(files, y + 1, NewEntry(n, y))
<1> DEFINE f == NewEntry(n, y)
<1>1. /\ files \in Seq(Entry) /\ Len(files) \in Nat /\ DOMAIN files = 1 .. Len(files)
      /\ y \in 0 .. Len(files) /\ GapEnd(y) - GapStart(y) >= NewSize
  <2>1. /\ files \in Seq(Entry) /\ Len(files) \in Nat /\ DOMAIN files = 1 .. Len(files)
    BY DEF Good
  <2>2. CASE files = <<>>
    <3>1. y = 0 /\ Len(files) = 0
      BY <2>2 DEF Gaps
    <3>2. GapEnd(y) - GapStart(y) >= NewSize
      BY <3>1, RoomAssumption, SizeAssumption DEF GapEnd, GapStart, FirstSector
    <3>. QED  BY <2>1, <3>1, <3>2
  <2>3. CASE files # <<>>
    BY <2>1, <2>3 DEF Gaps
  <2>. QED  BY <2>1, <2>2, <2>3
<1>2. /\ y + 1 \in 1 .. Len(files) + 1
      /\ y + 1 \in DOMAIN files <=> y # Len(files)
  <2>1. DOMAIN files = 1 .. Len(files)
    BY <1>1
  <2>2. \A m \in Nat : \A z \in 0 .. m :
          z + 1 \in 1 .. m + 1 /\ (z + 1 \in 1 .. m <=> z # m)
    OBVIOUS
  <2>3. Len(files) \in Nat /\ y \in 0 .. Len(files)
    BY <1>1
  <2>. QED  BY <2>1, <2>2, <2>3, Zenon
<1>3. GapStart(y) \in Nat /\ FirstSector <= GapStart(y)
  <2>1. CASE y = Len(files)
    BY <2>1 DEF GapStart, FirstSector
  <2>2. CASE y # Len(files)
    <3>1. y + 1 \in DOMAIN files
      BY <1>2, <2>2
    <3>2. files[y + 1].start \in Nat /\ FirstSector <= files[y + 1].start
          /\ SectorsOf(files[y + 1].len) \in Nat
          /\ End(files[y + 1]) = files[y + 1].start + SectorsOf(files[y + 1].len)
      BY <3>1, EntryFact
    <3>3. GapStart(y) = End(files[y + 1])
      BY <2>2 DEF GapStart
    <3>. QED  BY <3>2, <3>3 DEF FirstSector
  <2>. QED  BY <2>1, <2>2
<1>4. GapEnd(y) \in Nat /\ GapEnd(y) <= DiskSize /\ (y # 0 => GapEnd(y) = files[y].start)
  <2>1. CASE y = 0
    BY <2>1, SizeAssumption DEF GapEnd
  <2>2. CASE y # 0
    <3>1. y \in DOMAIN files
      BY <1>1, <2>2
    <3>2. files[y].start \in Nat /\ SectorsOf(files[y].len) \in Nat /\ End(files[y]) <= DiskSize
          /\ End(files[y]) = files[y].start + SectorsOf(files[y].len)
      BY <1>1, <3>1, EntryFact
    <3>. QED  BY <2>2, <3>2, SizeAssumption DEF GapEnd
  <2>. QED  BY <2>1, <2>2
<1>5. /\ f.name = n /\ f.start = GapStart(y) /\ f.len = NewSize * SectorSize
      /\ f.locked = FALSE
  BY DEF NewEntry
<1>6. NewSize \in Nat \ {0} /\ SectorsOf(f.len) = NewSize /\ f.len \in Nat
  BY <1>5, WholeSectors, SizeAssumption
<1>7. End(f) = GapStart(y) + NewSize
  BY <1>5, <1>6 DEF End
<1>8. End(f) <= GapEnd(y) /\ NewSize <= DiskSize /\ GapStart(y) <= DiskSize - 1
  BY <1>1, <1>3, <1>4, <1>6, <1>7, SizeAssumption DEF FirstSector
<1>9. f.len \in Extent
  <2>1. f.len <= NewSize * SectorSize
    BY <1>5, <1>6
  <2>. QED  BY <1>6, <1>8, <2>1, ExtentFact
<1>10. f.start \in FirstSector .. DiskSize - 1
  BY <1>3, <1>5, <1>8, SizeAssumption DEF FirstSector
<1>11. f \in Entry
  <2>1. /\ GapStart(y) \in FirstSector .. DiskSize - 1
        /\ NewSize * SectorSize \in Extent
    BY <1>5, <1>9, <1>10
  <2>. QED  BY <2>1 DEF NewEntry, Entry
<1> HIDE DEF f
<1>12. End(f) <= DiskSize
  BY <1>3, <1>4, <1>6, <1>7, <1>8, SizeAssumption
<1>13. y + 1 \in DOMAIN files => End(files[y + 1]) <= f.start
  <2>1. ASSUME y + 1 \in DOMAIN files
        PROVE  End(files[y + 1]) <= f.start
    <3>1. y # Len(files)
      BY <1>2, <2>1
    <3>2. GapStart(y) = End(files[y + 1])
      BY <3>1 DEF GapStart
    <3>. QED  BY <1>3, <1>5, <3>2
  <2>. QED  BY <2>1
<1>14. y + 1 # 1 => End(f) <= files[(y + 1) - 1].start
  <2>1. (y + 1) - 1 = y
    BY <1>1
  <2>. QED  BY <1>1, <1>4, <1>8, <2>1
<1>15. Fits(files, y + 1, f)
  BY <1>12, <1>13, <1>14, Zenon DEF Fits
<1>. QED  BY <1>2, <1>11, <1>15 DEF f

LEMMA FindNewStep ==
  ASSUME MakesRoom, FilesInv, NEW n \in Names, FindNew(n)
  PROVE  FilesInv'
<1>1. CASE Refuse
  BY <1>1, CatalogueStep DEF Refuse, FilesInv, TypeOK
<1>2. CASE ~Refuse
  <2>1. PICK y \in Gaps :
          /\ files' = InsertAt(files, y + 1, NewEntry(n, y))
          /\ \/ \E c \in Channels \ Opened : TakeChannel(c, NewEntry(n, y), "out")
             \/ UNCHANGED chan
    BY <1>2 DEF FindNew, NewEntry
  <2>2. /\ job = Idle /\ ~Exists(n) /\ Len(files) < MaxFiles
        /\ UNCHANGED <<disk, buf, job>> /\ \A c \in Opened : ~Unlisted(c)
    BY <1>2 DEF FindNew
  <2> DEFINE x == y + 1
             f == NewEntry(n, y)
  <2>3. Good(files)
    BY DEF FilesInv, TypeOK
  <2>4. x \in 1 .. Len(files) + 1 /\ f \in Entry /\ Fits(files, x, f) /\ f.name = n
        /\ f.locked = FALSE /\ files' = InsertAt(files, x, f)
    <3>1. f.name = n /\ f.locked = FALSE
      BY DEF NewEntry
    <3>. QED  BY <2>1, <2>3, <3>1, GapFact
  <2>5. \/ \E c \in Channels \ Opened : TakeChannel(c, f, "out")
        \/ UNCHANGED chan
    BY <2>1
  <2> HIDE DEF x, f
  <2>6. Good(files')
    <3>1. \A j \in DOMAIN files : files[j].name # f.name
      BY <2>2, <2>4 DEF Exists
    <3>. QED  BY <2>2, <2>3, <2>4, <3>1, GoodInsert
  <2>7. x \in DOMAIN files' /\ files'[x] = f
    <3>1. files \in Seq(Entry) /\ Len(files) \in Nat
      BY <2>3 DEF Good
    <3>2. /\ DOMAIN InsertAt(files, x, f) = 1 .. Len(files) + 1
          /\ InsertAt(files, x, f)[x] = IF x < x THEN files[x] ELSE IF x = x THEN f ELSE files[x - 1]
      <4>1. Inserted(InsertAt(files, x, f), files, x, f)
        BY <2>4, <3>1, InsertFact
      <4>. QED  BY <2>4, <4>1 DEF Inserted
    <3>. QED  BY <2>4, <3>1, <3>2
  <2>8. ASSUME NEW d \in Opened
        PROVE  ChannelGood(files', chan[d]) /\ chan[d].name # n
    <3>1. PICK k \in DOMAIN files : /\ Matches(files, chan[d], k)
                                    /\ Exists(chan[d].name) /\ At(chan[d].name) = k
      BY EntryOf
    <3>2. chan[d] \in OpenChannel /\ Listed(files, chan[d])
      BY ChannelFact DEF FilesInv, ChannelGood
    <3>3. chan[d].alloc <= SectorsOf(files[k].len)
      <4>1. chan[d].alloc \in Nat /\ SectorsOf(files[k].len) \in Nat
        BY <2>3, <3>2, OpenFact, EntryFact
      <4>2. chan[d].readOnly \/ ~(SectorsOf(files[k].len) < chan[d].alloc)
        BY <2>2, <3>1 DEF Unlisted
      <4>3. chan[d].readOnly => chan[d].alloc = SectorsOf(files[k].len)
        BY <3>1 DEF Matches, Writable
      <4>. QED  BY <4>1, <4>2, <4>3
    <3>4. \A j \in DOMAIN files : files[j].name = chan[d].name => j = k
      BY <2>3, <3>1 DEF Good, Matches
    <3>5. Listed(InsertAt(files, x, f), chan[d])
      BY <2>3, <2>4, <3>2, <3>3, <3>4, ListedInsert
    <3>. QED  BY <2>2, <2>4, <3>1, <3>5 DEF FilesInv, ChannelGood
  <2>9. CASE UNCHANGED chan
    BY <2>2, <2>6, <2>8, <2>9, CatalogueStep
  <2>10. CASE \E c \in Channels \ Opened : TakeChannel(c, f, "out")
    <3>1. PICK c \in Channels \ Opened : TakeChannel(c, files'[x], "out")
      BY <2>7, <2>10
    <3>2. ~files'[x].locked /\ files'[x].name = n
      BY <2>4, <2>7
    <3>. QED  BY <2>2, <2>6, <2>7, <2>8, <3>1, <3>2, TakeStep
  <2>. QED  BY <2>5, <2>9, <2>10
<1>. QED  BY <1>1, <1>2

LEMMA DeleteStep ==
  ASSUME FilesInv, NEW n \in Names, Delete(n)
  PROVE  FilesInv'
<1>1. /\ Exists(n) /\ Using(n) = {} /\ files' = RemoveAt(files, At(n))
      /\ UNCHANGED <<disk, chan, buf, job>>
  BY DEF Delete
<1>2. PICK k \in DOMAIN files : files[k].name = n
  BY <1>1 DEF Exists
<1>3. Good(files) /\ At(n) = k
  BY <1>2, AtFact DEF FilesInv, TypeOK
<1>4. Good(files')
  BY <1>1, <1>3, GoodRemove
<1>5. ASSUME NEW d \in Opened
      PROVE  ChannelGood(files', chan[d])
  <2>1. chan[d].name # files[k].name
    BY <1>1, <1>2 DEF Using
  <2>2. chan[d] \in OpenChannel /\ Listed(files, chan[d])
    BY ChannelFact DEF FilesInv, ChannelGood
  <2>3. Listed(RemoveAt(files, k), chan[d])
    BY <1>3, <2>1, <2>2, ListedRemove
  <2>. QED  BY <1>1, <1>3, <2>3 DEF FilesInv, ChannelGood
<1>. QED  BY <1>1, <1>4, <1>5, CatalogueStep
-----------------------------------------------------------------------------
(* Reading.                                                                 *)

(* The sector of a place in a channel's file is one that the channel holds. *)
LEMMA PlaceHeld ==
  ASSUME NEW h \in OpenChannel, NEW p \in Nat, NEW a \in Nat, p < a * SectorSize
  PROVE  /\ h.start + p \div SectorSize \in h.start .. h.start + a - 1
         /\ h.start + p \div SectorSize \in Nat
         /\ h.start + p \div SectorSize # NoSector
<1>1. h.start \in Nat /\ FirstSector <= h.start
  BY OpenFact
<1>2. p \div SectorSize \in Nat /\ p \div SectorSize < a
  BY DivideFact, PlaceFact
<1>. QED  BY <1>1, <1>2 DEF NoSector, FirstSector

(* The pointer is within the sectors held, unless the next byte would need  *)
(* another.                                                                 *)
LEMMA PointerFact ==
  ASSUME FilesInv, NEW c \in Opened
  PROVE  /\ chan[c] \in OpenChannel /\ c \in Channels
         /\ chan[c].ptr \in Nat /\ chan[c].ext \in Nat /\ chan[c].alloc \in Nat
         /\ chan[c].ptr <= chan[c].ext /\ chan[c].ext <= chan[c].alloc * SectorSize
         /\ chan[c].alloc * SectorSize \in Nat
         /\ Full(c) => chan[c].ptr = chan[c].ext
         /\ ~Full(c) => chan[c].ptr < chan[c].alloc * SectorSize
         /\ chan[c].valid => chan[c].bufsec # NoSector
         /\ chan[c].bufsec # NoSector => chan[c].bufsec \in SectorsHeld(chan[c])
         /\ PadsAtEnd /\ chan[c].valid /\ (Writable(chan[c]) \/ chan[c].ptr # chan[c].ext) =>
              chan[c].bufsec = SectorAt(c, chan[c].ptr)
<1>1. chan[c] \in OpenChannel /\ c \in Channels /\ PointersFit(chan[c]) /\ BufferKept(chan[c])
  BY ChannelFact DEF FilesInv, ChannelGood
<1>2. chan[c].ptr \in Nat /\ chan[c].ext \in Nat /\ chan[c].alloc \in Nat
  BY <1>1, OpenFact
<1>3. chan[c].alloc * SectorSize \in Nat
  BY <1>2, SizeAssumption
<1>4. chan[c].ptr <= chan[c].ext /\ chan[c].ext <= chan[c].alloc * SectorSize
  BY <1>1 DEF PointersFit
<1>5. /\ Full(c) => chan[c].ptr = chan[c].ext
      /\ ~Full(c) => chan[c].ptr < chan[c].alloc * SectorSize
  BY <1>2, <1>3, <1>4 DEF Full
<1>6. /\ PadsAtEnd /\ chan[c].valid /\ (Writable(chan[c]) \/ chan[c].ptr # chan[c].ext) =>
           chan[c].bufsec = SectorAt(c, chan[c].ptr)
      /\ chan[c].valid => chan[c].bufsec # NoSector
      /\ chan[c].bufsec # NoSector => chan[c].bufsec \in SectorsHeld(chan[c])
  BY <1>1 DEF BufferKept, SectorAt
<1>. QED  BY <1>1, <1>2, <1>3, <1>4, <1>5, <1>6

(* The disk after the buffer has been written back, if it had to be: for    *)
(* the other channels it is as it was.                                      *)
LEMMA WrittenBack ==
  ASSUME FilesInv, NEW c \in Opened, NEW d, d = (IF chan[c].valid THEN disk ELSE Flushed(c))
  PROVE  /\ DiskOK(d)
         /\ \A e \in Opened : e # c /\ chan[e].bufsec # NoSector /\ ~chan[e].dirty =>
              buf[e] = d[chan[e].bufsec]
<1>1. CASE chan[c].valid
  BY <1>1 DEF FilesInv, TypeOK, DiskOK, BuffersCurrent
<1>2. CASE ~chan[c].valid
  BY <1>2, FlushedFact DEF DiskOK
<1>. QED  BY <1>1, <1>2

LEMMA GetStep ==
  ASSUME FilesInv, NEW c \in Channels, Get(c)
  PROVE  FilesInv'
<1> DEFINE p == chan[c].ptr
           old == chan[c]
           b == IF old.valid THEN buf[c] ELSE Loaded(c)
           s == IF old.valid THEN old.bufsec ELSE SectorAt(c, p)
           h == [old EXCEPT !.ptr = p + 1, !.valid = Within(p + 1),
                            !.dirty = old.dirty /\ old.valid, !.bufsec = s]
<1>1. c \in Opened /\ job = Idle /\ p # old.ext
  BY DEF Get, Ready, Opened
<1>2. /\ old \in OpenChannel /\ p \in Nat /\ old.ext \in Nat /\ old.alloc \in Nat
      /\ p < old.ext /\ old.ext <= old.alloc * SectorSize /\ old.alloc * SectorSize \in Nat
      /\ PadsAtEnd /\ old.valid => old.bufsec = SectorAt(c, p)
  BY <1>1, PointerFact
<1>3. p < old.alloc * SectorSize
  BY <1>2
<1>4. s \in SectorsHeld(old) /\ s # NoSector /\ (PadsAtEnd => s = SectorAt(c, p))
  <2>1. SectorAt(c, p) \in SectorsHeld(old) /\ SectorAt(c, p) # NoSector
    BY <1>2, <1>3, PlaceHeld DEF SectorAt, SectorsHeld
  <2>. QED  BY <1>1, <1>2, <2>1, PointerFact
<1>5. s \in FirstSector .. DiskSize - 1 /\ s \in 0 .. DiskSize - 1
  <2>1. s \in FirstSector .. DiskSize - 1
    BY <1>1, <1>4, HeldOnDisk
  <2>. QED  BY <2>1 DEF FirstSector
<1>6. /\ files' = files /\ job' = Idle /\ buf' = [buf EXCEPT ![c] = b]
      /\ disk' = (IF old.valid THEN disk ELSE Flushed(c))
  BY <1>1 DEF Get
<1>7. chan' = [chan EXCEPT ![c] = h]
  <2>1. chan \in [Channels -> OpenChannel \cup {Closed}]
    BY DEF FilesInv, TypeOK
  <2>. QED  BY <1>2, <2>1 DEF Get, OpenChannel
<1>8. p + 1 \in Extent
  <2>1. old.ext \in Extent
    BY <1>2 DEF OpenChannel
  <2>2. DiskSize * SectorSize \in Nat
    BY SizeAssumption
  <2>. QED  BY <1>2, <2>1, <2>2 DEF Extent
<1>9. h \in OpenChannel
  <2>1. Within(p + 1) \in BOOLEAN /\ (old.dirty /\ old.valid) \in BOOLEAN
    BY DEF Within
  <2> HIDE DEF s
  <2>. QED  BY <1>2, <1>5, <1>8, <2>1 DEF OpenChannel
<1>10. /\ h.name = old.name /\ h.readOnly = old.readOnly /\ h.locked = old.locked
       /\ h.start = old.start /\ h.ptr = p + 1 /\ h.ext = old.ext /\ h.alloc = old.alloc
       /\ h.grown = old.grown /\ h.valid = Within(p + 1) /\ h.open = TRUE
       /\ h.dirty = (old.dirty /\ old.valid) /\ h.bufsec = s
  BY <1>2 DEF OpenChannel
<1> HIDE DEF h
<1>11. Listed(files, h)
  <2>1. PICK k \in DOMAIN files : Matches(files, old, k)
    BY <1>1, EntryOf
  <2>2. Matches(files, h, k)
    BY <1>10, <2>1 DEF Matches, Writable
  <2>. QED  BY <2>2 DEF Listed
<1>12. PointersFit(h)
  BY <1>2, <1>10 DEF PointersFit
<1>13. BufferKept(h)
  <2>1. h.bufsec # NoSector /\ h.bufsec \in SectorsHeld(h)
    BY <1>4, <1>10 DEF SectorsHeld
  <2>2. PadsAtEnd /\ h.valid => h.bufsec = h.start + h.ptr \div SectorSize
    BY <1>2, <1>4, <1>10, SameSector DEF SectorAt
  <2>. QED  BY <2>1, <2>2 DEF BufferKept
<1>14. b \in Sector /\ (~h.dirty => b = disk'[h.bufsec])
  <2>1. CASE old.valid
    <3>1. ~h.dirty => b = disk[old.bufsec]
      BY <1>1, <1>2, <1>4, <1>10, <2>1 DEF FilesInv, BuffersCurrent
    <3>. QED  BY <1>1, <1>2, <1>6, <1>10, <2>1, <3>1 DEF FilesInv, TypeOK
  <2>2. CASE ~old.valid
    <3>1. Flushed(c) \in [FirstSector .. DiskSize - 1 -> Sector]
      BY <1>1, FlushedFact
    <3>2. b = Flushed(c)[SectorAt(c, p)]
      BY <2>2 DEF Loaded
    <3>. QED  BY <1>5, <1>6, <1>10, <2>2, <3>1, <3>2
  <2>. QED  BY <2>1, <2>2
<1> HIDE DEF b
<1>15. buf' \in [Channels -> Sector] /\ buf'[c] = b
       /\ \A d \in Channels : d # c => buf'[d] = buf[d]
  BY <1>6, <1>14 DEF FilesInv, TypeOK
<1>16. DiskOK(disk') /\ \A d \in Opened :
         d # c /\ chan[d].bufsec # NoSector /\ ~chan[d].dirty => buf[d] = disk'[chan[d].bufsec]
  BY <1>1, <1>6, WrittenBack
<1>17. Good(files') /\ \A d \in Opened : ChannelGood(files', chan[d])
  BY <1>6 DEF FilesInv, TypeOK
<1>18. \A d \in Opened : d # c /\ chan[d].name = h.name => chan[d].readOnly /\ h.readOnly
  BY <1>1, <1>10 DEF FilesInv, Exclusive
<1>19. ChannelGood(files', h)
  BY <1>6, <1>11, <1>12, <1>13 DEF ChannelGood
<1>. QED  BY <1>6, <1>7, <1>9, <1>14, <1>15, <1>16, <1>17, <1>18, <1>19, ChannelStep

LEMMA GetAtEndStep ==
  ASSUME FilesInv, NEW c \in Channels, GetAtEnd(c)
  PROVE  FilesInv'
<1>1. CASE Refuse
  BY <1>1, CatalogueStep DEF Refuse, FilesInv, TypeOK
<1>2. CASE ~Refuse
  <2> DEFINE h == [chan[c] EXCEPT !.warned = TRUE]
  <2>1. c \in Opened /\ job = Idle /\ UNCHANGED <<files, disk, buf, job>>
    BY <1>2 DEF GetAtEnd, Ready, Opened
  <2>2. chan[c] \in OpenChannel
    BY <2>1, PointerFact
  <2>3. chan' = [chan EXCEPT ![c] = h]
    BY <1>2, <2>2 DEF GetAtEnd, OpenChannel
  <2>4. /\ h \in OpenChannel /\ h.name = chan[c].name /\ h.readOnly = chan[c].readOnly
        /\ h.ptr = chan[c].ptr /\ h.ext = chan[c].ext /\ h.alloc = chan[c].alloc
        /\ h.start = chan[c].start /\ h.valid = chan[c].valid /\ h.bufsec = chan[c].bufsec
        /\ h.locked = chan[c].locked /\ h.dirty = chan[c].dirty /\ h.grown = chan[c].grown
    BY <2>2 DEF OpenChannel
  <2> HIDE DEF h
  <2>5. PICK k \in DOMAIN files : Matches(files, chan[c], k)
    BY <2>1, EntryOf
  <2>6. Matches(files, h, k)
    BY <2>4, <2>5 DEF Matches, Writable
  <2>7. PointersFit(h) /\ BufferKept(h)
    BY <2>1, <2>4 DEF FilesInv, ChannelGood, PointersFit, BufferKept, SectorsHeld, Writable
  <2>8. ChannelGood(files', h)
    BY <2>1, <2>6, <2>7 DEF ChannelGood, Listed
  <2>9. Good(files') /\ DiskOK(disk') /\ buf' \in [Channels -> Sector] /\ job' = Idle
        /\ \A d \in Opened : ChannelGood(files', chan[d])
    BY <2>1 DEF FilesInv, TypeOK, DiskOK
  <2>10. /\ h.bufsec # NoSector /\ ~h.dirty => buf'[c] = disk'[h.bufsec]
         /\ \A d \in Opened : d # c /\ chan[d].bufsec # NoSector /\ ~chan[d].dirty =>
              buf[d] = disk'[chan[d].bufsec]
    BY <2>1, <2>4 DEF FilesInv, BuffersCurrent
  <2>11. \A d \in Opened : d # c /\ chan[d].name = h.name => chan[d].readOnly /\ h.readOnly
    BY <2>1, <2>4 DEF FilesInv, Exclusive
  <2>. QED  BY <2>1, <2>3, <2>4, <2>8, <2>9, <2>10, <2>11, ChannelStep
<1>. QED  BY <1>1, <1>2
-----------------------------------------------------------------------------
(* Moving the pointer.                                                      *)

(* A channel of which only the pointer, $80 and $10 change.                 *)
LEMMA PointerStep ==
  ASSUME FilesInv, NEW c \in Opened, NEW to \in Nat, to <= chan[c].ext,
         NEW valid \in BOOLEAN, NEW warned \in BOOLEAN,
         PadsAtEnd /\ valid =>
           \/ SectorAt(c, to) = chan[c].bufsec
           \/ ~Writable(chan[c]) /\ to = chan[c].ext,
         valid => chan[c].bufsec # NoSector,
         chan' = [chan EXCEPT ![c] = [chan[c] EXCEPT !.ptr = to, !.valid = valid, !.warned = warned]],
         UNCHANGED <<files, disk, buf>>, job' \in Filling \cup {Idle},
         job' # Idle => job'.channel = c /\ to = chan[c].ext /\ to <= job'.to
  PROVE  FilesInv'
<1> DEFINE h == [chan[c] EXCEPT !.ptr = to, !.valid = valid, !.warned = warned]
<1>1. /\ chan[c] \in OpenChannel /\ chan[c].ext \in Nat /\ c \in Channels
  BY PointerFact
<1>2. to \in Extent
  <2>1. chan[c].ext \in Extent
    BY <1>1 DEF OpenChannel
  <2>2. DiskSize * SectorSize \in Nat
    BY SizeAssumption
  <2>. QED  BY <1>1, <2>1, <2>2 DEF Extent
<1>3. h \in OpenChannel
  BY <1>1, <1>2 DEF OpenChannel
<1>4. /\ h.name = chan[c].name /\ h.readOnly = chan[c].readOnly /\ h.open = TRUE
      /\ h.ptr = to /\ h.ext = chan[c].ext /\ h.alloc = chan[c].alloc
      /\ h.start = chan[c].start /\ h.valid = valid /\ h.bufsec = chan[c].bufsec
      /\ h.locked = chan[c].locked /\ h.dirty = chan[c].dirty /\ h.grown = chan[c].grown
  BY <1>1 DEF OpenChannel
<1>5. chan' = [chan EXCEPT ![c] = h]
  OBVIOUS
<1> HIDE DEF h
<1>6. PICK k \in DOMAIN files : Matches(files, chan[c], k)
  BY EntryOf
<1>7. Matches(files, h, k)
  BY <1>4, <1>6 DEF Matches, Writable
<1>8. PointersFit(h)
  BY <1>4 DEF FilesInv, ChannelGood, PointersFit
<1>9. BufferKept(h)
  <2>1. /\ chan[c].dirty => chan[c].bufsec # NoSector
        /\ chan[c].bufsec # NoSector => chan[c].bufsec \in SectorsHeld(chan[c])
    BY DEF FilesInv, ChannelGood, BufferKept
  <2>2. /\ h.dirty => h.bufsec # NoSector
        /\ h.valid => h.bufsec # NoSector
        /\ h.bufsec # NoSector => h.bufsec \in SectorsHeld(h)
    BY <1>4, <2>1 DEF SectorsHeld
  <2>3. PadsAtEnd /\ h.valid => \/ h.bufsec = h.start + h.ptr \div SectorSize
                                \/ ~Writable(h) /\ h.ptr = h.ext
    BY <1>4 DEF SectorAt, Writable
  <2>. QED  BY <2>2, <2>3 DEF BufferKept
<1>10. ChannelGood(files', h)
  BY <1>7, <1>8, <1>9 DEF ChannelGood, Listed
<1>11. Good(files') /\ DiskOK(disk') /\ buf' \in [Channels -> Sector]
       /\ \A d \in Opened : ChannelGood(files', chan[d])
  BY DEF FilesInv, TypeOK, DiskOK
<1>12. /\ h.bufsec # NoSector /\ ~h.dirty => buf'[c] = disk'[h.bufsec]
       /\ \A d \in Opened : d # c /\ chan[d].bufsec # NoSector /\ ~chan[d].dirty =>
            buf[d] = disk'[chan[d].bufsec]
  BY <1>4 DEF FilesInv, BuffersCurrent
<1>13. \A d \in Opened : d # c /\ chan[d].name = h.name => chan[d].readOnly /\ h.readOnly
  BY <1>4 DEF FilesInv, Exclusive
<1>14. job' # Idle => job'.channel = c /\ h.open /\ h.ptr = h.ext /\ h.ext <= job'.to
  BY <1>4
<1>. QED  BY <1>1, <1>3, <1>5, <1>10, <1>11, <1>12, <1>13, <1>14, ChannelStep

LEMMA SetToStep ==
  ASSUME FilesInv, NEW c \in Opened, NEW to \in Nat, to <= chan[c].ext,
         chan' = SetTo(c, to), UNCHANGED <<files, disk, buf>>, job' = Idle
  PROVE  FilesInv'
<1> DEFINE valid == SectorAt(c, to) = chan[c].bufsec
<1>1. chan[c] \in OpenChannel /\ c \in Channels /\ chan \in [Channels -> OpenChannel \cup {Closed}]
  BY PointerFact DEF FilesInv, TypeOK
<1>2. chan' = [chan EXCEPT ![c] =
        [chan[c] EXCEPT !.ptr = to, !.valid = valid, !.warned = FALSE]]
  BY <1>1 DEF SetTo, OpenChannel
<1>3. SectorAt(c, to) # NoSector
  <2>1. chan[c].start \in Nat /\ FirstSector <= chan[c].start /\ to \div SectorSize \in Nat
    BY <1>1, OpenFact, DivideFact
  <2>. QED  BY <2>1 DEF SectorAt, NoSector, FirstSector
<1>4. valid \in BOOLEAN /\ (valid => chan[c].bufsec # NoSector)
  BY <1>3
<1>5. valid => SectorAt(c, to) = chan[c].bufsec
  OBVIOUS
<1> HIDE DEF valid
<1>. QED  BY <1>2, <1>4, <1>5, PointerStep, Zenon

LEMMA SetPtrStep ==
  ASSUME FilesInv, NEW c \in Channels, NEW to \in Places, SetPtr(c, to)
  PROVE  FilesInv'
<1>1. c \in Opened /\ job = Idle /\ UNCHANGED <<files, disk, buf>> /\ to \in Nat
  BY ByteAssumption DEF SetPtr, Ready, Opened
<1>2. CASE to <= chan[c].ext /\ chan' = SetTo(c, to) /\ UNCHANGED job
  BY <1>1, <1>2, SetToStep
<1>3. CASE /\ to > chan[c].ext /\ chan' = PtrToExt(c)
           /\ PadsAtEnd /\ CanWrite(c) => chan[c].ptr = chan[c].ext
           /\ job' = [op |-> "fill", channel |-> c, to |-> to]
  <2>1. /\ chan[c] \in OpenChannel /\ chan[c].ext \in Nat /\ chan[c].ptr \in Nat
        /\ chan[c].valid \in BOOLEAN /\ chan[c].warned \in BOOLEAN
        /\ chan \in [Channels -> OpenChannel \cup {Closed}]
    BY <1>1, PointerFact, OpenFact DEF FilesInv, TypeOK
  <2>2. chan' = [chan EXCEPT ![c] =
          [chan[c] EXCEPT !.ptr = chan[c].ext, !.valid = chan[c].valid,
                          !.warned = chan[c].warned]]
    BY <1>3, <2>1 DEF PtrToExt, OpenChannel
  <2>3. PadsAtEnd /\ chan[c].valid =>
          \/ SectorAt(c, chan[c].ext) = chan[c].bufsec
          \/ ~Writable(chan[c]) /\ chan[c].ext = chan[c].ext
    <3>1. CASE CanWrite(c)
      <4>1. PadsAtEnd /\ chan[c].valid => chan[c].bufsec = SectorAt(c, chan[c].ext)
        BY <1>1, <1>3, <3>1, PointerFact DEF CanWrite, Writable
      <4>. QED  BY <4>1
    <3>2. CASE ~CanWrite(c)
      BY <3>2 DEF CanWrite, Writable
    <3>. QED  BY <3>1, <3>2
  <2>4. job' \in Filling \cup {Idle} /\ job'.channel = c /\ chan[c].ext <= job'.to
    BY <1>1, <1>3, <2>1 DEF Filling
  <2> DEFINE e == chan[c].ext
             valid == chan[c].valid
             warned == chan[c].warned
  <2>5. /\ e \in Nat /\ e <= chan[c].ext /\ e = chan[c].ext
        /\ valid \in BOOLEAN /\ warned \in BOOLEAN
    BY <2>1
  <2>6. /\ PadsAtEnd /\ valid => \/ SectorAt(c, e) = chan[c].bufsec
                                 \/ ~Writable(chan[c]) /\ e = chan[c].ext
        /\ valid => chan[c].bufsec # NoSector
    BY <1>1, <2>3, PointerFact
  <2>7. /\ chan' = [chan EXCEPT ![c] = [chan[c] EXCEPT !.ptr = e, !.valid = valid, !.warned = warned]]
        /\ e <= job'.to
    BY <2>2, <2>4
  <2> HIDE DEF e, valid, warned
  <2>. QED  BY <1>1, <2>4, <2>5, <2>6, <2>7, PointerStep, Zenon
<1>. QED  BY <1>2, <1>3 DEF SetPtr

LEMMA FillEndsStep ==
  ASSUME FilesInv, FillEnds
  PROVE  FilesInv'
<1> DEFINE c == job.channel
<1>1. job # Idle /\ chan[c].ext >= job.to /\ chan' = SetTo(c, job.to) /\ job' = Idle
      /\ UNCHANGED <<files, disk, buf>>
  BY DEF FillEnds
<1>2. c \in Channels /\ job.to \in Nat
  BY <1>1, ByteAssumption DEF FilesInv, TypeOK, Filling
<1>3. c \in Opened
  BY <1>1, <1>2 DEF FilesInv, JobInv, Opened
<1>4. job.to <= chan[c].ext
  <2>1. chan[c].ext \in Nat
    BY <1>3, PointerFact
  <2>. QED  BY <1>1, <1>2, <2>1
<1> HIDE DEF c
<1>. QED  BY <1>1, <1>2, <1>3, <1>4, SetToStep
-----------------------------------------------------------------------------
(* Writing.                                                                 *)

(* The catalogue and the channel's share of the disk after room has been    *)
(* taken for the byte at the pointer.                                       *)
RoomTaken(c) == IF Full(c) THEN RoomFor(c) ELSE chan[c].alloc

(* The channel after its byte is stored.                                    *)
Stored(c) ==
  LET p == chan[c].ptr
      grows == p + 1 >= chan[c].ext
  IN  [chan[c] EXCEPT !.ptr = p + 1, !.valid = Within(p + 1), !.dirty = TRUE,
                      !.bufsec = IF chan[c].valid THEN chan[c].bufsec ELSE SectorAt(c, p),
                      !.alloc = RoomTaken(c),
                      !.ext = IF grows THEN p + 1 ELSE chan[c].ext,
                      !.grown = chan[c].grown \/ grows]

LEMMA StoredChannel ==
  ASSUME NEW c \in Channels, chan \in [Channels -> OpenChannel \cup {Closed}],
         chan[c] \in OpenChannel, NEW v, Store(c, v)
  PROVE  chan' = [chan EXCEPT ![c] = Stored(c)]
<1>1. DOMAIN chan[c] = {"open", "name", "start", "ptr", "ext", "alloc", "readOnly",
                        "locked", "valid", "dirty", "grown", "warned", "bufsec"}
  BY DEF OpenChannel
<1>2. DOMAIN chan = Channels
  OBVIOUS
<1> DEFINE p == chan[c].ptr
           old == chan[c]
           valid == Within(p + 1)
           grows == p + 1 >= old.ext
           ext == IF grows THEN p + 1 ELSE old.ext
           grown == old.grown \/ grows
           bufsec == IF old.valid THEN old.bufsec ELSE SectorAt(c, p)
           next == p + 1
<1>3. chan' = [chan EXCEPT ![c].ptr = next, ![c].valid = valid, ![c].dirty = TRUE,
                           ![c].bufsec = bufsec, ![c].alloc = RoomTaken(c),
                           ![c].ext = ext, ![c].grown = grown]
  BY <1>1, <1>2 DEF Store, RoomTaken
<1>4. Stored(c) = [chan[c] EXCEPT !.ptr = next, !.valid = valid, !.dirty = TRUE,
                                  !.bufsec = bufsec, !.alloc = RoomTaken(c),
                                  !.ext = ext, !.grown = grown]
  BY DEF Stored
<1> HIDE DEF valid, grows, ext, grown, bufsec, next
<1>. QED  BY <1>1, <1>2, <1>3, <1>4, Zenon

LEMMA StoredFields ==
  ASSUME NEW c \in Channels, chan[c] \in OpenChannel
  PROVE  LET old == chan[c]
             p == old.ptr
             h == Stored(c)
             grows == p + 1 >= old.ext
         IN  /\ h.open = TRUE /\ h.name = old.name /\ h.start = old.start
             /\ h.readOnly = old.readOnly /\ h.locked = old.locked /\ h.warned = old.warned
             /\ h.ptr = p + 1 /\ h.ext = (IF grows THEN p + 1 ELSE old.ext)
             /\ h.alloc = RoomTaken(c) /\ h.grown = (old.grown \/ grows)
             /\ h.valid = Within(p + 1) /\ h.dirty = TRUE
             /\ h.bufsec = (IF old.valid THEN old.bufsec ELSE SectorAt(c, p))
  BY DEF Stored, OpenChannel

LEMMA StoredType ==
  ASSUME NEW c \in Channels, chan[c] \in OpenChannel, chan[c].ptr + 1 \in Extent,
         RoomTaken(c) \in 0 .. DiskSize, Stored(c).bufsec \in 0 .. DiskSize - 1
  PROVE  Stored(c) \in OpenChannel
<1> DEFINE p == chan[c].ptr
           old == chan[c]
           valid == Within(p + 1)
           grown == old.grown \/ p + 1 >= old.ext
           ext == IF p + 1 >= old.ext THEN p + 1 ELSE old.ext
           bufsec == IF old.valid THEN old.bufsec ELSE SectorAt(c, p)
<1>1. valid \in BOOLEAN /\ grown \in BOOLEAN /\ ext \in Extent
  BY DEF Within, OpenChannel
<1>2. Stored(c) = [old EXCEPT !.ptr = p + 1, !.valid = valid, !.dirty = TRUE,
                              !.bufsec = bufsec, !.alloc = RoomTaken(c), !.ext = ext,
                              !.grown = grown]
  BY DEF Stored
<1>3. bufsec \in 0 .. DiskSize - 1
  BY StoredFields
<1>4. [old EXCEPT !.valid = valid, !.dirty = TRUE, !.grown = grown] \in OpenChannel
  <2> HIDE DEF valid, grown
  <2>. QED  BY <1>1, Zenon DEF OpenChannel
<1> DEFINE flagged == [old EXCEPT !.valid = valid, !.dirty = TRUE, !.grown = grown]
<1>5. Stored(c) = [flagged EXCEPT !.ptr = p + 1, !.bufsec = bufsec, !.alloc = RoomTaken(c),
                                  !.ext = ext]
  <2> HIDE DEF valid, grown, ext, bufsec
  <2>. QED  BY <1>2 DEF OpenChannel
<1>6. p + 1 \in Extent /\ RoomTaken(c) \in 0 .. DiskSize
  OBVIOUS
<1> HIDE DEF valid, grown, ext, bufsec, flagged, p
<1>7. flagged \in OpenChannel
  BY <1>4 DEF flagged
<1>8. [flagged EXCEPT !.ptr = p + 1, !.ext = ext] \in OpenChannel
  BY <1>1, <1>6, <1>7, Zenon DEF OpenChannel
<1> DEFINE sized == [flagged EXCEPT !.ptr = p + 1, !.ext = ext]
<1>9. [sized EXCEPT !.bufsec = bufsec, !.alloc = RoomTaken(c)] \in OpenChannel
  <2> HIDE DEF sized
  <2>1. sized \in OpenChannel
    BY <1>8 DEF sized
  <2>. QED  BY <1>3, <1>6, <2>1, Zenon DEF OpenChannel
<1>10. [flagged EXCEPT !.ptr = p + 1, !.bufsec = bufsec, !.alloc = RoomTaken(c), !.ext = ext]
         = [sized EXCEPT !.bufsec = bufsec, !.alloc = RoomTaken(c)]
  BY <1>7 DEF OpenChannel
<1>. QED  BY <1>5, <1>9, <1>10

LEMMA ExtendedFact ==
  ASSUME FilesInv, NEW c \in Opened, CanWrite(c), Full(c) => RoomFor(c) # chan[c].alloc
  PROVE  /\ Good(Extended(c))
         /\ \A d \in Opened : d # c => ChannelGood(Extended(c), chan[d])
         /\ RoomTaken(c) \in Nat /\ chan[c].alloc <= RoomTaken(c) /\ RoomTaken(c) <= DiskSize
         /\ chan[c].ptr < RoomTaken(c) * SectorSize
         /\ \E k \in DOMAIN Extended(c) :
              /\ Extended(c)[k].name = chan[c].name /\ Extended(c)[k].start = chan[c].start
              /\ Extended(c)[k].locked = chan[c].locked
              /\ SectorsOf(Extended(c)[k].len) <= RoomTaken(c)
              /\ chan[c].start + RoomTaken(c) <= Above(Extended(c), k)
              /\ Full(c) \/ chan[c].grown \/ chan[c].ext = Extended(c)[k].len
<1>1. PICK k \in DOMAIN files :
        /\ Matches(files, chan[c], k) /\ At(chan[c].name) = k
        /\ RoomFor(c) = Above(files, k) - chan[c].start
        /\ RoomFor(c) \in Nat /\ chan[c].alloc <= RoomFor(c)
        /\ chan[c].start + RoomFor(c) <= DiskSize
  BY EntryOf
<1>2. /\ chan[c] \in OpenChannel /\ chan[c].ptr \in Nat /\ chan[c].alloc \in Nat
      /\ chan[c].ptr <= chan[c].alloc * SectorSize /\ chan[c].alloc * SectorSize \in Nat
  BY PointerFact
<1>3. chan[c].start \in Nat /\ chan[c].alloc <= DiskSize /\ Above(files, k) \in Nat
  BY <1>2, OpenFact, AboveFact DEF FilesInv, TypeOK
<1>4. CASE ~Full(c)
  <2>1. Extended(c) = files /\ RoomTaken(c) = chan[c].alloc
    BY <1>4 DEF Extended, RoomTaken
  <2>2. chan[c].ptr < chan[c].alloc * SectorSize
    BY <1>4, PointerFact
  <2>3. Good(files) /\ \A d \in Opened : ChannelGood(files, chan[d])
    BY DEF FilesInv, TypeOK
  <2>. QED  BY <1>1, <1>2, <1>3, <2>1, <2>2, <2>3 DEF Matches
<1>5. CASE Full(c)
  <2> DEFINE r == RoomFor(c)
             len == r * SectorSize
  <2>1. r \in Nat /\ chan[c].alloc < r /\ r <= DiskSize
    <3>1. /\ r \in Nat /\ chan[c].alloc <= r /\ chan[c].start + r <= DiskSize
          /\ r # chan[c].alloc
      BY <1>1, <1>5
    <3> HIDE DEF r
    <3>. QED  BY <1>2, <1>3, <3>1, SizeAssumption
  <2>2. Extended(c) = SetLen(files, k, len) /\ RoomTaken(c) = r
    BY <1>1, <1>5 DEF Extended, RoomTaken, SetLen
  <2>3. Good(files) /\ files[k].name = chan[c].name
    BY <1>1 DEF FilesInv, TypeOK, Matches
  <2> HIDE DEF r
  <2>4. SectorsOf(len) = r /\ len \in Nat
    BY <2>1, WholeSectors
  <2>5. len \in Extent
    <3>1. len <= r * SectorSize
      BY <2>4
    <3> HIDE DEF len
    <3>. QED  BY <2>1, <2>4, <3>1, ExtentFact
  <2>6. chan[c].ptr < len
    <3>1. chan[c].ptr = chan[c].alloc * SectorSize
      BY <1>5 DEF Full
    <3>. QED  BY <1>2, <2>1, <3>1, SizeAssumption
  <2> HIDE DEF len
  <2>7. Writable(chan[c])
    BY DEF CanWrite, Writable
  <2>8. /\ Good(SetLen(files, k, len))
        /\ \A d \in Opened : d # c => ChannelGood(SetLen(files, k, len), chan[d])
    <3>1. SectorsOf(len) <= RoomFor(c)
      BY <2>1, <2>4 DEF r
    <3>. QED  BY <2>3, <2>5, <2>7, <3>1, LengthStep
  <2> DEFINE g == SetLen(files, k, len)
  <2>9. /\ DOMAIN g = DOMAIN files /\ g[k].name = files[k].name /\ g[k].start = files[k].start
        /\ g[k].locked = files[k].locked /\ Above(g, k) = Above(files, k)
        /\ g[k].len = len
    BY <2>3, <2>5, SetLenFact
  <2> HIDE DEF g
  <2>10. SectorsOf(g[k].len) <= r /\ chan[c].start + r <= Above(g, k)
    BY <1>1, <1>3, <2>1, <2>4, <2>9 DEF r
  <2>11. g[k].name = chan[c].name /\ g[k].start = chan[c].start /\ g[k].locked = chan[c].locked
    BY <1>1, <2>9 DEF Matches
  <2>12. Extended(c) = g /\ k \in DOMAIN g
    BY <2>2, <2>9 DEF g
  <2>13. chan[c].ptr < RoomTaken(c) * SectorSize
    BY <2>2, <2>6 DEF len
  <2>. QED  BY <1>2, <1>5, <2>1, <2>2, <2>8, <2>10, <2>11, <2>12, <2>13 DEF g
<1>. QED  BY <1>4, <1>5

LEMMA StoreStep ==
  ASSUME FilesInv, NEW c \in Opened, CanWrite(c), NEW v \in Byte, Store(c, v), job' = job,
         job # Idle => job.channel = c /\ chan[c].ext < job.to
  PROVE  FilesInv'
<1> DEFINE p == chan[c].ptr
           old == chan[c]
           a == RoomTaken(c)
           grows == p + 1 >= old.ext
           fresh == old.ext % SectorSize = 0 /\ p = old.ext
           b == IF old.valid \/ fresh THEN buf[c] ELSE Loaded(c)
           s == IF old.valid THEN old.bufsec ELSE SectorAt(c, p)
           h == [old EXCEPT !.ptr = p + 1, !.valid = Within(p + 1), !.dirty = TRUE,
                            !.bufsec = s, !.alloc = a,
                            !.ext = IF grows THEN p + 1 ELSE old.ext,
                            !.grown = old.grown \/ grows]
<1>1. /\ old \in OpenChannel /\ c \in Channels /\ p \in Nat /\ old.ext \in Nat /\ old.alloc \in Nat
      /\ p <= old.ext /\ old.ext <= old.alloc * SectorSize /\ old.alloc * SectorSize \in Nat
      /\ Full(c) => p = old.ext
  BY PointerFact
<1>2. Writable(old)
  BY DEF CanWrite, Writable
<1>3. /\ PadsAtEnd /\ old.valid => old.bufsec = SectorAt(c, p)
      /\ old.valid => old.bufsec # NoSector /\ old.bufsec \in SectorsHeld(old)
  BY <1>2, PointerFact
<1>4. Full(c) => RoomFor(c) # chan[c].alloc
  BY DEF Store
<1>5. /\ Good(Extended(c)) /\ \A d \in Opened : d # c => ChannelGood(Extended(c), chan[d])
      /\ a \in Nat /\ old.alloc <= a /\ a <= DiskSize /\ p < a * SectorSize
  BY <1>4, ExtendedFact
<1>6. PICK k \in DOMAIN Extended(c) :
        /\ Extended(c)[k].name = old.name /\ Extended(c)[k].start = old.start
        /\ Extended(c)[k].locked = old.locked
        /\ SectorsOf(Extended(c)[k].len) <= a
        /\ old.start + a <= Above(Extended(c), k)
        /\ Full(c) \/ old.grown \/ old.ext = Extended(c)[k].len
  BY <1>4, ExtendedFact
<1>7. /\ files' = Extended(c) /\ disk' = (IF old.valid THEN disk ELSE Flushed(c))
      /\ buf' = [buf EXCEPT ![c] = [b EXCEPT ![p % SectorSize] = v]]
  BY DEF Store
<1>0. h = Stored(c) /\ a = RoomTaken(c)
  BY DEF Stored
<1> HIDE DEF h, a
<1>8. chan' = [chan EXCEPT ![c] = h]
  <2>1. chan \in [Channels -> OpenChannel \cup {Closed}]
    BY DEF FilesInv, TypeOK
  <2>2. chan' = [chan EXCEPT ![c] = Stored(c)]
    BY <1>1, <2>1, StoredChannel
  <2>. QED  BY <1>0, <2>2
<1>9. /\ SectorAt(c, p) \in old.start .. old.start + a - 1 /\ SectorAt(c, p) \in Nat
      /\ s \in old.start .. old.start + a - 1 /\ s \in Nat /\ s # NoSector
      /\ PadsAtEnd => s = SectorAt(c, p)
  <2>1. /\ SectorAt(c, p) \in old.start .. old.start + a - 1 /\ SectorAt(c, p) # NoSector
        /\ SectorAt(c, p) \in Nat
    BY <1>1, <1>5, PlaceHeld DEF SectorAt
  <2>2. old.start \in Nat /\ old.bufsec \in Nat
    BY <1>1, OpenFact
  <2>3. old.valid => old.bufsec \in old.start .. old.start + a - 1
    BY <1>1, <1>3, <1>5, <2>2 DEF SectorsHeld
  <2>. QED  BY <1>3, <2>1, <2>2, <2>3
<1>10. Above(Extended(c), k) <= DiskSize /\ Above(Extended(c), k) \in Nat
  BY <1>5, AboveFact
<1>11. SectorAt(c, p) \in FirstSector .. DiskSize - 1 /\ s \in 0 .. DiskSize - 1
  <2>0. s \in Nat /\ s <= old.start + a - 1
    <3> HIDE DEF s
    <3>. QED  BY <1>1, <1>5, <1>9, OpenFact
  <2>1. old.start \in Nat /\ FirstSector <= old.start
    BY <1>1, OpenFact
  <2>2. SectorAt(c, p) <= old.start + a - 1 /\ old.start <= SectorAt(c, p)
    BY <1>5, <1>9, <2>1
  <2> HIDE DEF s
  <2>. QED  BY <1>5, <1>6, <1>9, <1>10, <2>0, <2>1, <2>2, SizeAssumption DEF FirstSector
<1> HIDE DEF s
<1>12. p + 1 <= a * SectorSize /\ a * SectorSize \in Nat
       /\ old.ext <= a * SectorSize
  <2>1. a * SectorSize \in Nat /\ old.alloc * SectorSize <= a * SectorSize
    BY <1>1, <1>5, SizeAssumption
  <2>. QED  BY <1>1, <1>5, <2>1
<1>13. p + 1 \in Extent
  BY <1>1, <1>5, <1>12, ExtentFact
<1>14. h \in OpenChannel
  <2>1. a \in 0 .. DiskSize
    BY <1>5, SizeAssumption
  <2>2. h.bufsec = s
    BY <1>0, <1>1, StoredFields DEF s
  <2>. QED  BY <1>0, <1>1, <1>11, <1>13, <2>1, <2>2, StoredType
<1>15. /\ h.name = old.name /\ h.readOnly = old.readOnly /\ h.locked = old.locked
       /\ h.start = old.start /\ h.ptr = p + 1 /\ h.ext = (IF grows THEN p + 1 ELSE old.ext)
       /\ h.alloc = a /\ h.grown = (old.grown \/ grows) /\ h.valid = Within(p + 1)
       /\ h.open = TRUE /\ h.dirty = TRUE /\ h.bufsec = s
  BY <1>0, <1>1, StoredFields DEF s
<1>16. Matches(files', h, k) /\ k \in DOMAIN files'
  <2>1. h.grown \/ h.ext = Extended(c)[k].len
    <3>1. CASE grows
      BY <3>1, <1>15
    <3>2. CASE ~grows
      <4>1. ~Full(c)
        BY <1>1, <3>2
      <4>. QED  BY <1>6, <1>15, <3>2, <4>1
    <3>. QED  BY <3>1, <3>2
  <2>. QED  BY <1>2, <1>6, <1>7, <1>15, <2>1 DEF Matches, Writable
<1>17. PointersFit(h)
  BY <1>1, <1>12, <1>15 DEF PointersFit
<1>18. BufferKept(h)
  <2>1. h.bufsec # NoSector /\ h.bufsec \in SectorsHeld(h)
    BY <1>9, <1>15 DEF SectorsHeld
  <2>2. PadsAtEnd /\ h.valid => h.bufsec = h.start + h.ptr \div SectorSize
    BY <1>1, <1>9, <1>15, SameSector DEF SectorAt
  <2>. QED  BY <2>1, <2>2 DEF BufferKept
<1>19. b \in Sector
  <2>1. buf[c] \in Sector
    BY <1>1 DEF FilesInv, TypeOK
  <2>2. Flushed(c)[SectorAt(c, p)] \in Sector
    BY <1>11, FlushedFact
  <2>. QED  BY <2>1, <2>2 DEF Loaded
<1> HIDE DEF b
<1>20. buf' \in [Channels -> Sector] /\ \A d \in Channels : d # c => buf'[d] = buf[d]
  <2>1. [b EXCEPT ![p % SectorSize] = v] \in Sector
    BY <1>19 DEF Sector
  <2>. QED  BY <1>7, <2>1 DEF FilesInv, TypeOK
<1>21. DiskOK(disk') /\ \A d \in Opened :
         d # c /\ chan[d].bufsec # NoSector /\ ~chan[d].dirty => buf[d] = disk'[chan[d].bufsec]
  BY <1>7, WrittenBack
<1>22. \A d \in Opened : d # c /\ chan[d].name = h.name => chan[d].readOnly /\ h.readOnly
  BY <1>15 DEF FilesInv, Exclusive
<1>23. job' # Idle => job'.channel = c /\ h.open /\ h.ptr = h.ext /\ h.ext <= job'.to
  <2>1. ASSUME job # Idle
        PROVE  p = old.ext /\ old.ext < job.to /\ job.to \in Nat
    BY <2>1, ByteAssumption DEF FilesInv, TypeOK, JobInv, Filling
  <2>2. ASSUME job # Idle
        PROVE  h.ptr = h.ext /\ h.ext <= job.to
    BY <1>1, <1>15, <2>1, <2>2
  <2>. QED  BY <1>15, <2>2
<1>24. job' \in Filling \cup {Idle}
  BY DEF FilesInv, TypeOK
<1>25. ChannelGood(files', h)
  BY <1>16, <1>17, <1>18 DEF ChannelGood, Listed
<1>. QED  BY <1>1, <1>5, <1>7, <1>8, <1>14, <1>15, <1>20, <1>21, <1>22, <1>23, <1>24, <1>25, ChannelStep

LEMMA CannotExtendStep ==
  ASSUME FilesInv, NEW c \in Opened, CannotExtend(c)
  PROVE  FilesInv'
<1>1. CloseChannel(c) /\ job' = Idle /\ UNCHANGED buf
  BY DEF CannotExtend
<1>. QED  BY <1>1, CloseStep

LEMMA PutStep ==
  ASSUME FilesInv, NEW c \in Channels, NEW v \in PutBytes, Put(c, v)
  PROVE  FilesInv'
<1>1. c \in Opened /\ job = Idle
  BY DEF Put, Ready, Opened
<1>2. CASE Refuse
  BY <1>2, CatalogueStep DEF Refuse, FilesInv, TypeOK
<1>3. CASE CannotExtend(c)
  BY <1>1, <1>3, CannotExtendStep
<1>4. CASE CanWrite(c) /\ Store(c, v) /\ UNCHANGED job
  <2>1. v \in Byte
    BY DEF Byte
  <2>. QED  BY <1>1, <1>4, <2>1, StoreStep
<1>. QED  BY <1>2, <1>3, <1>4 DEF Put

LEMMA FillStep ==
  ASSUME FilesInv, Fill
  PROVE  FilesInv'
<1> DEFINE c == job.channel
<1>1. job # Idle /\ chan[c].ext < job.to
  BY DEF Fill
<1>2. c \in Opened
  BY <1>1 DEF FilesInv, TypeOK, JobInv, Filling, Opened
<1>3. CASE job' = Idle /\ UNCHANGED <<files, disk, chan, buf>>
  BY <1>3, CatalogueStep DEF FilesInv, TypeOK
<1>4. CASE CannotExtend(c)
  BY <1>2, <1>4, CannotExtendStep
<1>5. CASE CanWrite(c) /\ Store(c, 0) /\ UNCHANGED job
  <2>1. 0 \in Byte
    BY DEF Byte
  <2>. QED  BY <1>1, <1>2, <1>5, <2>1, StoreStep
<1>. QED  BY <1>3, <1>4, <1>5 DEF Fill
-----------------------------------------------------------------------------
(* Break.                                                                   *)
LEMMA BreakStep ==
  ASSUME FilesInv, Break
  PROVE  FilesInv'
BY ForgetStep DEF Break, FilesInv, TypeOK

LEMMA BreakInCloseStep ==
  ASSUME FilesInv, NEW c \in Channels, BreakInClose(c)
  PROVE  FilesInv'
<1>1. c \in Opened /\ Forget /\ files' = LengthSaved(c)
  BY DEF BreakInClose, Opened
<1>2. Good(files')
  BY <1>1, LengthSavedFact
<1>. QED  BY <1>1, <1>2, ForgetStep

LEMMA BreakInPutStep ==
  ASSUME FilesInv, NEW c \in Channels, BreakInPut(c)
  PROVE  FilesInv'
<1>1. /\ c \in Opened /\ Forget /\ files' = Extended(c) /\ CanWrite(c)
      /\ RoomFor(c) # chan[c].alloc
  BY DEF BreakInPut, Opened
<1>2. Good(files')
  BY <1>1, ExtendedFact
<1>. QED  BY <1>1, <1>2, ForgetStep
-----------------------------------------------------------------------------
LEMMA FilesInit == Init => FilesInv
<1> SUFFICES ASSUME Init
             PROVE  FilesInv
  OBVIOUS
<1>1. Opened = {} /\ job = Idle
  BY DEF Init, Opened, Closed
<1>2. TypeOK
  <2>1. Good(files)
    BY ImageAssumption DEF Init
  <2>2. [i \in 0 .. SectorSize - 1 |-> 0] \in Sector
    BY DEF Sector, Byte
  <2>. QED  BY <2>1, <2>2 DEF Init, TypeOK
<1>. QED  BY <1>1, <1>2 DEF FilesInv, Exclusive, BuffersCurrent, JobInv

LEMMA FilesStep ==
  ASSUME MakesRoom, FilesInv, [Next]_vars
  PROVE  FilesInv'
<1>1. CASE UNCHANGED vars
  BY <1>1, CatalogueStep DEF vars, FilesInv, TypeOK
<1>2. ASSUME NEW n \in Names, NEW how \in {"in", "up", "out"}, Find(n, how)
      PROVE  FilesInv'
  BY <1>2, FindStep
<1>3. ASSUME NEW n \in Names, FindNew(n)
      PROVE  FilesInv'
  BY <1>3, FindNewStep
<1>4. ASSUME NEW n \in Names, Delete(n)
      PROVE  FilesInv'
  BY <1>4, DeleteStep
<1>5. ASSUME NEW n \in Names, Load(n)
      PROVE  FilesInv'
  BY <1>5, CatalogueStep DEF Load, Refuse, FilesInv, TypeOK
<1>6. ASSUME NEW c \in Channels, Close(c)
      PROVE  FilesInv'
  <2>1. c \in Opened /\ CloseChannel(c) /\ job' = Idle /\ UNCHANGED buf
    BY <1>6 DEF Close, Ready, Opened
  <2>. QED  BY <2>1, CloseStep
<1>7. ASSUME NEW c \in Channels, Flush(c) \/ Get(c) \/ GetAtEnd(c)
      PROVE  FilesInv'
  BY <1>7, FlushStep, GetStep, GetAtEndStep
<1>8. ASSUME NEW c \in Channels, NEW v \in PutBytes, Put(c, v)
      PROVE  FilesInv'
  BY <1>8, PutStep
<1>9. ASSUME NEW c \in Channels, NEW to \in Places, SetPtr(c, to)
      PROVE  FilesInv'
  BY <1>9, SetPtrStep
<1>10. CASE Fill \/ FillEnds \/ Reclaim
  BY <1>10, FillStep, FillEndsStep, ReclaimStep
<1>11. CASE Break
  BY <1>11, BreakStep
<1>12. ASSUME NEW c \in Channels, BreakInClose(c) \/ BreakInPut(c)
       PROVE  FilesInv'
  BY <1>12, BreakInCloseStep, BreakInPutStep
<1>. QED  BY <1>1, <1>2, <1>3, <1>4, <1>5, <1>6, <1>7, <1>8, <1>9, <1>10, <1>11, <1>12 DEF Next

(* What FilesInv says of the properties that are checked.                   *)
LEMMA InvApart ==
  ASSUME FilesInv
  PROVE  ChannelsApart
<1> SUFFICES ASSUME NEW c \in Opened, NEW j \in DOMAIN files, files[j].name # chan[c].name
             PROVE  \/ End(files[j]) <= chan[c].start
                    \/ chan[c].start + chan[c].alloc <= files[j].start
  BY DEF ChannelsApart
<1>1. PICK k \in DOMAIN files : Matches(files, chan[c], k)
  BY EntryOf
<1>2. Good(files) /\ j # k /\ j \in Nat /\ k \in Nat /\ chan[c].start = files[k].start
      /\ chan[c].start + chan[c].alloc <= Above(files, k)
  BY <1>1, EntryFact DEF FilesInv, TypeOK, Matches
<1>3. CASE j < k
  <2>1. Above(files, k) <= files[j].start /\ Above(files, k) \in Nat /\ files[j].start \in Nat
    BY <1>2, <1>3, AboveFact, EntryFact
  <2>2. chan[c].start \in Nat /\ chan[c].alloc \in Nat
    BY PointerFact, OpenFact
  <2>. QED  BY <1>2, <2>1, <2>2
<1>4. CASE k < j
  BY <1>2, <1>4 DEF Good
<1>. QED  BY <1>2, <1>3, <1>4

LEMMA InvOneWriter ==
  ASSUME FilesInv
  PROVE  OneWriter
<1> SUFFICES ASSUME NEW c \in Opened
             PROVE  /\ Exists(chan[c].name) /\ files[At(chan[c].name)].start = chan[c].start
                    /\ ~chan[c].readOnly => Using(chan[c].name) = {c}
  BY DEF OneWriter
<1>1. Exists(chan[c].name) /\ files[At(chan[c].name)].start = chan[c].start
  BY EntryOf DEF Matches
<1>2. ~chan[c].readOnly => Using(chan[c].name) = {c}
  BY DEF FilesInv, Exclusive, Using
<1>. QED  BY <1>1, <1>2

LEMMA InvBuffer ==
  ASSUME PadsAtEnd, FilesInv
  PROVE  BufferFits
<1> SUFFICES ASSUME NEW c \in Opened
             PROVE  /\ chan[c].valid =>
                         \/ chan[c].bufsec = SectorAt(c, chan[c].ptr)
                         \/ ~CanWrite(c) /\ chan[c].ptr = chan[c].ext
                    /\ chan[c].dirty => chan[c].bufsec \in SectorsHeld(chan[c])
  BY DEF BufferFits, SectorsHeld
<1>1. BufferKept(chan[c])
  BY DEF FilesInv, ChannelGood
<1>. QED  BY <1>1 DEF BufferKept, SectorAt, CanWrite, Writable
-----------------------------------------------------------------------------
(* The inductive invariant, for programs that make no file while one that   *)
(* may grow into sectors that are not in the catalogue is open.             *)
THEOREM FilesInvariant ==
  ASSUME MakesRoom
  PROVE  Spec => []FilesInv
<1>1. Init => FilesInv
  BY FilesInit
<1>2. FilesInv /\ [Next]_vars => FilesInv'
  BY FilesStep
<1>. QED  BY <1>1, <1>2, PTL DEF Spec

(* Every variable has its type, and the catalogue stays in order, with no   *)
(* two files overlapping, whatever is open.                                 *)
THEOREM TypeCorrect ==
  ASSUME MakesRoom
  PROVE  Spec => []TypeOK
<1>1. FilesInv => TypeOK
  BY DEF FilesInv
<1>. QED  BY <1>1, FilesInvariant, PTL

(* No channel holds a sector of another file (OSBPUT, 91c7-9234).           *)
THEOREM ChannelsStayApart ==
  ASSUME MakesRoom
  PROVE  Spec => []ChannelsApart
<1>1. FilesInv => ChannelsApart
  BY InvApart
<1>. QED  BY <1>1, FilesInvariant, PTL

(* A channel's file is in the catalogue where the channel thinks it is, and *)
(* a file that is written has one channel (OSFIND, 8ed2-8ee5).              *)
THEOREM OneWriterOnly ==
  ASSUME MakesRoom
  PROVE  Spec => []OneWriter
<1>1. FilesInv => OneWriter
  BY InvOneWriter
<1>. QED  BY <1>1, FilesInvariant, PTL

(* A buffer that is used without being read again is the pointer's sector,  *)
(* and one that will be written belongs to the file; for programs that also *)
(* set PTR# to EXT# before they set it beyond.                              *)
THEOREM BuffersFit ==
  ASSUME MakesRoom, PadsAtEnd
  PROVE  Spec => []BufferFits
<1>1. FilesInv => BufferFits
  BY InvBuffer
<1>. QED  BY <1>1, FilesInvariant, PTL
=============================================================================
