-------------------------- MODULE Catalogue_proofs --------------------------
(***************************************************************************)
(* Theorems about Catalogue, for every size of disk and of catalogue, and  *)
(* every set of names: its inductive invariant, and what follows from it.  *)
(***************************************************************************)
EXTENDS CatalogueProps, SequenceTheorems, TLAPS

(* RemoveAt and InsertAt, element by element. *)
LEMMA RemoveAtFacts ==
  ASSUME NEW S, NEW s \in Seq(S), NEW i \in 1 .. Len(s)
  PROVE  /\ RemoveAt(s, i) \in Seq(S)
         /\ Len(RemoveAt(s, i)) = Len(s) - 1
         /\ \A j \in 1 .. Len(s) - 1 :
              RemoveAt(s, i)[j] = IF j < i THEN s[j] ELSE s[j + 1]
<1> DEFINE a == SubSeq(s, 1, i - 1)
           b == SubSeq(s, i + 1, Len(s))
<1>1. /\ a \in Seq(S) /\ Len(a) = i - 1
      /\ \A j \in 1 .. i - 1 : a[j] = s[j]
  BY SubSeqProperties
<1>2. /\ b \in Seq(S) /\ Len(b) = Len(s) - i
      /\ \A j \in 1 .. Len(s) - i : b[j] = s[i + j]
  BY SubSeqProperties
<1>3. /\ a \o b \in Seq(S) /\ Len(a \o b) = Len(a) + Len(b)
      /\ \A j \in 1 .. Len(a) + Len(b) :
           (a \o b)[j] = IF j <= Len(a) THEN a[j] ELSE b[j - Len(a)]
  BY <1>1, <1>2, ConcatProperties
<1> HIDE DEF a, b
<1>4. \A j \in 1 .. Len(s) - 1 :
        (a \o b)[j] = IF j < i THEN s[j] ELSE s[j + 1]
  BY <1>1, <1>2, <1>3
<1>5. RemoveAt(s, i) = a \o b
  BY DEF RemoveAt, a, b
<1>6. Len(a) + Len(b) = Len(s) - 1
  BY <1>1, <1>2
<1>. QED
  BY <1>3, <1>4, <1>5, <1>6, Zenon

(* r is s with e put before place i.                                        *)
Inserted(r, s, i, e) ==
  /\ r \in Seq(Entry) /\ Len(r) = Len(s) + 1
  /\ \A j \in 1 .. Len(s) + 1 :
       r[j] = IF j < i THEN s[j] ELSE IF j = i THEN e ELSE s[j - 1]

LEMMA InsertEntry ==
  ASSUME NEW s \in Seq(Entry), NEW i \in 1 .. Len(s) + 1, NEW e \in Entry
  PROVE  Inserted(InsertAt(s, i, e), s, i, e)
<1> DEFINE a == SubSeq(s, 1, i - 1)
           b == SubSeq(s, i, Len(s))
           m == a \o <<e>>
<1>1. /\ a \in Seq(Entry) /\ Len(a) = i - 1
      /\ \A j \in 1 .. i - 1 : a[j] = s[j]
  BY SubSeqProperties
<1>2. /\ b \in Seq(Entry) /\ Len(b) = Len(s) - i + 1
      /\ \A j \in 1 .. Len(s) - i + 1 : b[j] = s[i + j - 1]
  BY SubSeqProperties
<1>3. <<e>> \in Seq(Entry) /\ Len(<<e>>) = 1 /\ <<e>>[1] = e
  OBVIOUS
<1>4. /\ m \in Seq(Entry) /\ Len(m) = Len(a) + 1
      /\ \A j \in 1 .. Len(a) + 1 : m[j] = IF j <= Len(a) THEN a[j] ELSE e
  BY <1>1, <1>3, ConcatProperties
<1>5. InsertAt(s, i, e) = m \o b
  BY DEF InsertAt
<1> HIDE DEF a, b, m
<1>6. /\ m \o b \in Seq(Entry) /\ Len(m \o b) = Len(m) + Len(b)
      /\ \A j \in 1 .. Len(m) + Len(b) :
           (m \o b)[j] = IF j <= Len(m) THEN m[j] ELSE b[j - Len(m)]
  BY <1>2, <1>4, ConcatProperties
<1>7. \A j \in 1 .. Len(s) + 1 :
        (m \o b)[j] = IF j < i THEN s[j] ELSE IF j = i THEN e ELSE s[j - 1]
  BY <1>1, <1>2, <1>4, <1>6
<1>8. Len(m) + Len(b) = Len(s) + 1
  BY <1>1, <1>2, <1>4
<1>. QED
  BY <1>6, <1>5, <1>7, <1>8, Zenon DEF Inserted
-----------------------------------------------------------------------------
(* Changes of the list of entries that keep it a good catalogue.            *)

(* Entry k leaves, and the later ones move up by one. *)
LEMMA GoodRemove ==
  ASSUME NEW files, Good(files), NEW k \in DOMAIN files
  PROVE  Good(RemoveAt(files, k))
<1> DEFINE r == RemoveAt(files, k)
           Old(j) == IF j < k THEN j ELSE j + 1
<1>1. files \in Seq(Entry) /\ k \in 1 .. Len(files) /\ DOMAIN files = 1 .. Len(files)
  BY DEF Good
<1>2. /\ r \in Seq(Entry) /\ Len(r) = Len(files) - 1
      /\ \A j \in 1 .. Len(files) - 1 :
           r[j] = IF j < k THEN files[j] ELSE files[j + 1]
  BY <1>1, RemoveAtFacts, Zenon
<1> HIDE DEF r
<1>3. DOMAIN r = 1 .. Len(files) - 1
  BY <1>2
<1>4. \A j \in DOMAIN r : Old(j) \in DOMAIN files /\ r[j] = files[Old(j)]
  BY <1>1, <1>2, <1>3
<1>5. \A i, j \in DOMAIN r : /\ i < j => Old(i) < Old(j)
                             /\ Old(i) = Old(j) => i = j
  BY <1>1, <1>3
<1> HIDE DEF Old
<1>6. Descending(r)
  BY <1>4, <1>5 DEF Good, Descending
<1>7. Distinct(r)
  BY <1>4, <1>5 DEF Good, Distinct
<1>8. OnDisk(r) /\ EmptyAtBottom(r)
  BY <1>4 DEF Good, OnDisk, EmptyAtBottom
<1>9. Len(r) <= MaxFiles
  BY <1>1, <1>2, LimitAssumption DEF Good
<1>10. Good(r)
  BY <1>2, <1>6, <1>7, <1>8, <1>9 DEF Good
<1>. QED
  BY <1>10 DEF r

LEMMA EntryType ==
  ASSUME NEW f \in Entry
  PROVE  f.start \in Nat /\ f.len \in Nat /\ f.name \in Names
<1>1. f.start \in 0 .. Field - 1 /\ f.len \in 0 .. Field - 1 /\ f.name \in Names
  BY DEF Entry
<1>2. Field \in Int
  BY DEF Field
<1>3. \A x \in 0 .. Field - 1 : x \in Nat
  BY <1>2
<1>. QED
  BY <1>1, <1>3

LEMMA Successor ==
  ASSUME NEW n \in Nat, NEW z \in 0 .. n
  PROVE  /\ z # n => z + 1 \in 1 .. n
         /\ z # 0 => z \in 1 .. n
         /\ z < z + 1
OBVIOUS

LEMMA Between ==
  ASSUME NEW n \in Nat, NEW y \in 0 .. n, NEW k \in 1 .. n
  PROVE  /\ y + 1 <= k => y # n /\ y + 1 \in 1 .. n
         /\ k <= y => y # 0 /\ y \in 1 .. n
OBVIOUS

(* The gap createfile_2 chooses has room for the new file, and a file of no *)
(* length goes to the lowest gap. *)
LEMMA SlotFacts ==
  ASSUME Fits, NEW files, Good(files), NEW len \in Lengths,
         NEW y \in Slots(files, len), \A z \in Slots(files, len) : z <= y
  PROVE  /\ y \in 0 .. Len(files)
         /\ GapStart(files, y) \in Nat
         /\ FirstSector <= GapStart(files, y)
         /\ GapStart(files, y) + len <= GapEnd(files, y)
         /\ GapEnd(files, y) <= DiskSize
         /\ len = 0 => GapStart(files, y) = FirstSector
<1>1. files \in Seq(Entry) /\ Len(files) \in Nat /\ DOMAIN files = 1 .. Len(files)
  BY DEF Good
<1>2. len \in Nat /\ DiskSize \in Nat /\ FirstSector <= DiskSize /\ DiskSize < Wrap
  BY SizeAssumption, LimitAssumption DEF Field, Wrap
<1>2a. ASSUME NEW k \in 1 .. Len(files)
      PROVE  /\ files[k].start \in Nat /\ End(files[k]) \in Nat
             /\ FirstSector <= files[k].start
             /\ files[k].start <= End(files[k])
             /\ End(files[k]) <= DiskSize
  <2>1. k \in DOMAIN files /\ files[k] \in Entry
    BY <1>1
  <2>2. FirstSector <= files[k].start /\ End(files[k]) <= DiskSize
    BY <2>1 DEF Good, OnDisk
  <2>3. files[k].start \in Nat /\ files[k].len \in Nat
    BY <2>1, EntryType
  <2>. QED
    BY <2>2, <2>3 DEF End
<1>3. CASE files = <<>>
  <2>1. y = 0 /\ Len(files) = 0
    BY <1>3 DEF Slots
  <2>2. GapStart(files, y) = FirstSector /\ GapEnd(files, y) = DiskSize
    BY <2>1 DEF GapStart, GapEnd
  <2>. QED
    BY <2>1, <2>2, <1>2 DEF Fits, FirstSector
<1>4. CASE files # <<>>
  <2> DEFINE gs(z) == GapStart(files, z)
             ge(z) == GapEnd(files, z)
  <2>1. \A z \in 0 .. Len(files) :
          /\ gs(z) \in Nat /\ FirstSector <= gs(z)
          /\ ge(z) \in Nat /\ ge(z) <= DiskSize
    <3> SUFFICES ASSUME NEW z \in 0 .. Len(files)
                 PROVE  /\ gs(z) \in Nat /\ FirstSector <= gs(z)
                        /\ ge(z) \in Nat /\ ge(z) <= DiskSize
      OBVIOUS
    <3>1. gs(z) \in Nat /\ FirstSector <= gs(z)
      <4>1. CASE z = Len(files)
        BY <4>1 DEF GapStart, FirstSector
      <4>2. CASE z # Len(files)
        <5>1. z + 1 \in 1 .. Len(files)
          BY <4>2, <1>1, Successor, Zenon
        <5>2. /\ files[z + 1].start \in Nat /\ End(files[z + 1]) \in Nat
              /\ FirstSector <= files[z + 1].start
              /\ files[z + 1].start <= End(files[z + 1])
          BY <5>1, <1>2a
        <5>. QED
          BY <4>2, <5>2 DEF GapStart, FirstSector
      <4>. QED
        BY <4>1, <4>2
    <3>2. ge(z) \in Nat /\ ge(z) <= DiskSize
      <4>1. CASE z = 0
        BY <4>1, <1>2 DEF GapEnd
      <4>2. CASE z # 0
        <5>1. /\ files[z].start \in Nat /\ End(files[z]) \in Nat
              /\ files[z].start <= End(files[z]) /\ End(files[z]) <= DiskSize
          BY <4>2, <1>1, <1>2a
        <5>. QED
          BY <4>2, <5>1, <1>2 DEF GapEnd
      <4>. QED
        BY <4>1, <4>2
    <3>. QED
      BY <3>1, <3>2
  <2>2. \A z \in 0 .. Len(files) : gs(z) <= ge(z)
    <3> SUFFICES ASSUME NEW z \in 0 .. Len(files)
                 PROVE  gs(z) <= ge(z)
      OBVIOUS
    <3>1. CASE z = Len(files)
      <4>1. FirstSector <= ge(z)
        <5>1. CASE z = 0
          BY <5>1, <1>2 DEF GapEnd
        <5>2. CASE z # 0
          BY <3>1, <5>2, <1>1, <1>2a DEF GapEnd
        <5>. QED
          BY <5>1, <5>2
      <4>. QED
        BY <3>1, <4>1 DEF GapStart
    <3>2. CASE z # Len(files) /\ z = 0
      <4>1. 1 \in 1 .. Len(files)
        BY <3>2, <1>1
      <4>2. End(files[1]) <= DiskSize
        BY <4>1, <1>2a
      <4>. QED
        BY <3>2, <4>2 DEF GapStart, GapEnd
    <3>3. CASE z # Len(files) /\ z # 0
      <4>1. z \in 1 .. Len(files) /\ z + 1 \in 1 .. Len(files) /\ z < z + 1
        BY <3>3, <1>1, Successor, Zenon
      <4>2. End(files[z + 1]) <= files[z].start
        BY <4>1, <1>1 DEF Good, Descending
      <4>. QED
        BY <3>3, <4>2 DEF GapStart, GapEnd
    <3>. QED
      BY <3>1, <3>2, <3>3
  <2>3. \A z \in 0 .. Len(files) : Room(files, z) = ge(z) - gs(z)
    <3> SUFFICES ASSUME NEW z \in 0 .. Len(files)
                 PROVE  Room(files, z) = ge(z) - gs(z)
      OBVIOUS
    <3>1. /\ gs(z) \in Nat /\ ge(z) \in Nat /\ gs(z) <= ge(z) /\ ge(z) < Wrap
      BY <2>1, <2>2, <1>2 DEF Wrap
    <3> HIDE DEF gs, ge
    <3>2. (ge(z) + Wrap - gs(z)) % Wrap = ge(z) - gs(z)
      BY <3>1 DEF Wrap
    <3>. QED
      BY <3>2 DEF Room, gs, ge
  <2>4. y \in 0 .. Len(files) /\ Room(files, y) >= len
    BY <1>4 DEF Slots
  <2>5. gs(y) + len <= ge(y)
    <3>1. gs(y) \in Nat /\ ge(y) \in Nat /\ ge(y) - gs(y) >= len
      BY <2>1, <2>3, <2>4
    <3> HIDE DEF gs, ge
    <3>. QED
      BY <3>1, <1>2
  <2>6. ASSUME len = 0 PROVE y = Len(files)
    <3>1. Len(files) \in 0 .. Len(files) /\ Room(files, Len(files)) >= 0
      <4>1. gs(Len(files)) \in Nat /\ ge(Len(files)) \in Nat
            /\ gs(Len(files)) <= ge(Len(files))
            /\ Room(files, Len(files)) = ge(Len(files)) - gs(Len(files))
        BY <1>2, <2>1, <2>2, <2>3
      <4> HIDE DEF gs, ge
      <4>. QED
        BY <4>1, <1>2
    <3>2. Len(files) \in Slots(files, len)
      BY <1>4, <2>6, <3>1 DEF Slots
    <3>3. Len(files) <= y
      BY <3>2
    <3>. QED
      BY <3>3, <2>4, <1>2
  <2>. QED
    BY <2>1, <2>4, <2>5, <2>6 DEF GapStart
<1>. QED
  BY <1>3, <1>4

(* What createfile_2 enters in the catalogue. *)
LEMMA GoodInsert ==
  ASSUME Fits, NEW files, Good(files), Len(files) < MaxFiles,
         NEW n \in Names, Found(files, {n}) = {},
         NEW len \in Lengths,
         NEW y \in Slots(files, len), \A z \in Slots(files, len) : z <= y,
         NEW new, new = [name |-> n, start |-> GapStart(files, y) % Field,
                         len |-> len, locked |-> FALSE]
  PROVE  new \in Entry /\ Good(InsertAt(files, y + 1, new))
<1> DEFINE r == InsertAt(files, y + 1, new)
           gs == GapStart(files, y)
           ge == GapEnd(files, y)
<1>1. files \in Seq(Entry) /\ Len(files) \in Nat /\ DOMAIN files = 1 .. Len(files)
  BY DEF Good
<1>2. /\ y \in 0 .. Len(files) /\ gs \in Nat /\ FirstSector <= gs
      /\ gs + len <= ge /\ ge <= DiskSize
      /\ len = 0 => gs = FirstSector
  BY SlotFacts
<1>3. len \in Nat /\ len \in 0 .. Field - 1 /\ DiskSize \in Nat /\ DiskSize < Field
  BY SizeAssumption, LimitAssumption DEF Field
<1>4. y \in Nat /\ ge \in Nat
  <2>1. CASE y = 0
    BY <2>1, <1>3 DEF GapEnd
  <2>2. CASE y # 0
    <3>1. files[y] \in Entry
      BY <2>2, <1>1, <1>2
    <3>. QED
      BY <2>2, <3>1, <1>2, EntryType DEF GapEnd
  <2>. QED
    BY <2>1, <2>2, <1>2
<1>4a. /\ y # Len(files) => gs = End(files[y + 1])
       /\ y # 0 => ge = files[y].start
  BY DEF GapStart, GapEnd
<1> HIDE DEF gs, ge
<1>4b. gs \in 0 .. Field - 1
  BY <1>2, <1>3, <1>4 DEF FirstSector, Field
<1>5. new.name = n /\ new.start = gs /\ new.len = len /\ End(new) = gs + len
  <2>1. gs % Field = gs
    BY <1>4b DEF Field
  <2>. QED
    BY <2>1 DEF End, gs
<1>6. new \in Entry
  <2>1. new = [name |-> n, start |-> gs, len |-> len, locked |-> FALSE]
    BY <1>5
  <2>. QED
    BY <2>1, <1>3, <1>4b DEF Entry
<1>7. /\ r \in Seq(Entry) /\ Len(r) = Len(files) + 1
      /\ \A j \in 1 .. Len(files) + 1 :
           r[j] = IF j < y + 1 THEN files[j]
                  ELSE IF j = y + 1 THEN new ELSE files[j - 1]
  <2>1. y + 1 \in 1 .. Len(files) + 1
    BY <1>1, <1>2
  <2> DEFINE i == y + 1
  <2>2. i \in 1 .. Len(files) + 1
    BY <2>1
  <2> HIDE DEF i
  <2>3. /\ InsertAt(files, i, new) \in Seq(Entry)
        /\ Len(InsertAt(files, i, new)) = Len(files) + 1
        /\ \A j \in 1 .. Len(files) + 1 :
             InsertAt(files, i, new)[j] =
               IF j < i THEN files[j] ELSE IF j = i THEN new ELSE files[j - 1]
    <3>1. Inserted(InsertAt(files, i, new), files, i, new)
      BY <2>2, <1>1, <1>6, InsertEntry
    <3>. QED
      BY <3>1, Zenon DEF Inserted
  <2>. QED
    BY <2>3 DEF i
<1> HIDE DEF r
<1>8. DOMAIN r = 1 .. Len(files) + 1
  BY <1>7
<1> DEFINE Below(j) == j \in DOMAIN r /\ j < y + 1
           Above(j) == j \in DOMAIN r /\ y + 1 < j
<1>9. /\ \A j : Below(j) => j \in DOMAIN files /\ j <= y /\ r[j] = files[j]
      /\ \A j : Above(j) =>
           j - 1 \in DOMAIN files /\ y + 1 <= j - 1 /\ r[j] = files[j - 1]
      /\ r[y + 1] = new
      /\ \A j \in DOMAIN r : Below(j) \/ j = y + 1 \/ Above(j)
  <2>1. ASSUME NEW j, Below(j)
        PROVE  j \in DOMAIN files /\ j <= y /\ r[j] = files[j]
    <3>1. j \in 1 .. Len(files) + 1 /\ j < y + 1
      BY <2>1, <1>8
    <3>2. j \in 1 .. Len(files) /\ j <= y
      BY <3>1, <1>1, <1>2
    <3>. QED
      BY <3>1, <3>2, <1>1, <1>7
  <2>2. ASSUME NEW j, Above(j)
        PROVE  j - 1 \in DOMAIN files /\ y + 1 <= j - 1 /\ r[j] = files[j - 1]
    <3>1. j \in 1 .. Len(files) + 1 /\ y + 1 < j
      BY <2>2, <1>8
    <3>2. j - 1 \in 1 .. Len(files) /\ y + 1 <= j - 1
      BY <3>1, <1>1, <1>2
    <3>3. ~(j < y + 1) /\ j # y + 1
      BY <3>1, <1>4
    <3>. QED
      BY <3>1, <3>2, <3>3, <1>1, <1>7
  <2>3. r[y + 1] = new
    <3>1. y + 1 \in 1 .. Len(files) + 1 /\ ~(y + 1 < y + 1)
      BY <1>1, <1>2, <1>4
    <3>. QED
      BY <3>1, <1>7
  <2>4. \A j \in DOMAIN r : Below(j) \/ j = y + 1 \/ Above(j)
    <3>1. \A j \in 1 .. Len(files) + 1 : j < y + 1 \/ j = y + 1 \/ y + 1 < j
      BY <1>1, <1>4
    <3>. QED
      BY <3>1, <1>8
  <2>. QED
    BY <2>1, <2>2, <2>3, <2>4
<1>10. ASSUME NEW k \in DOMAIN files
       PROVE  /\ files[k].start \in Nat /\ End(files[k]) \in Nat
              /\ FirstSector <= files[k].start
              /\ files[k].start <= End(files[k])
              /\ files[k].name # n
  <2>1. files[k] \in Entry
    BY <1>1
  <2>2. FirstSector <= files[k].start
    BY DEF Good, OnDisk
  <2>3. files[k].name # n
    BY DEF Found
  <2>. QED
    BY <2>1, <2>2, <2>3, EntryType DEF End
<1>11. ASSUME NEW k \in DOMAIN files, k <= y
       PROVE  ge <= files[k].start
  <2>1. y \in DOMAIN files /\ ge = files[y].start
    <3>1. k \in 1 .. Len(files) /\ k <= y
      BY <1>1, <1>11
    <3>2. y # 0 /\ y \in 1 .. Len(files)
      BY <3>1, <1>1, <1>2, Between
    <3>. QED
      BY <3>2, <1>1, <1>4a, Zenon
  <2>2. CASE k = y
    BY <2>1, <2>2, <1>4
  <2>3. CASE k # y
    <3>1. k < y
      BY <2>3, <1>1, <1>4, <1>11
    <3>2. End(files[y]) <= files[k].start
      BY <2>1, <3>1 DEF Good, Descending
    <3>. QED
      BY <2>1, <3>2, <1>10
  <2>. QED
    BY <2>2, <2>3
<1>12. ASSUME NEW k \in DOMAIN files, y + 1 <= k
       PROVE  End(files[k]) <= gs
  <2>1. y + 1 \in DOMAIN files /\ gs = End(files[y + 1])
    <3>1. k \in 1 .. Len(files) /\ y + 1 <= k
      BY <1>1, <1>12
    <3>2. y # Len(files) /\ y + 1 \in 1 .. Len(files)
      BY <3>1, <1>1, <1>2, Between, Zenon
    <3>. QED
      BY <3>2, <1>1, <1>4a
  <2>2. CASE k = y + 1
    BY <2>1, <2>2, <1>2
  <2>3. CASE k # y + 1
    <3>1. y + 1 < k
      BY <2>3, <1>1, <1>4, <1>12
    <3>2. End(files[k]) <= files[y + 1].start
      BY <2>1, <3>1 DEF Good, Descending
    <3>. QED
      BY <2>1, <3>2, <1>10
  <2>. QED
    BY <2>2, <2>3
<1>13. Descending(r)
  <2> SUFFICES ASSUME NEW i \in DOMAIN r, NEW j \in DOMAIN r, i < j
               PROVE  End(r[j]) <= r[i].start
    BY DEF Descending
  <2>0. i \in Nat /\ j \in Nat
    BY <1>8
  <2>1. CASE Below(i) /\ Below(j)
    BY <2>1, <1>9 DEF Good, Descending
  <2>2. CASE Above(i) /\ Above(j)
    <3>1. /\ i - 1 \in DOMAIN files /\ j - 1 \in DOMAIN files /\ i - 1 < j - 1
          /\ r[i] = files[i - 1] /\ r[j] = files[j - 1]
      BY <2>0, <2>2, <1>9
    <3>. QED
      BY <3>1 DEF Good, Descending
  <2>3. CASE Below(i) /\ j = y + 1
    <3>1. i \in DOMAIN files /\ r[i] = files[i] /\ r[j] = new /\ ge <= files[i].start
      BY <2>3, <1>9, <1>11
    <3>. QED
      BY <3>1, <1>2, <1>3, <1>4, <1>5, <1>10
  <2>4. CASE i = y + 1 /\ Above(j)
    <3>1. j - 1 \in DOMAIN files /\ r[j] = files[j - 1] /\ r[i] = new
          /\ End(files[j - 1]) <= gs
      BY <2>4, <1>9, <1>12
    <3>. QED
      BY <3>1, <1>5
  <2>5. CASE Below(i) /\ Above(j)
    <3>1. /\ i \in DOMAIN files /\ j - 1 \in DOMAIN files
          /\ r[i] = files[i] /\ r[j] = files[j - 1] /\ i < j - 1
      BY <2>0, <2>5, <1>4, <1>9
    <3>. QED
      BY <3>1 DEF Good, Descending
  <2>. QED
    BY <2>0, <2>1, <2>2, <2>3, <2>4, <2>5, <1>4, <1>9
<1>14. Distinct(r)
  <2> SUFFICES ASSUME NEW i \in DOMAIN r, NEW j \in DOMAIN r, r[i].name = r[j].name
               PROVE  i = j
    BY DEF Distinct
  <2>0. i \in Nat /\ j \in Nat
    BY <1>8
  <2>1. CASE i = y + 1 \/ j = y + 1
    BY <2>1, <1>5, <1>9, <1>10
  <2>2. CASE Below(i) /\ Below(j)
    BY <2>2, <1>9 DEF Good, Distinct
  <2>3. CASE Above(i) /\ Above(j)
    <3>1. i - 1 = j - 1
      BY <2>3, <1>9 DEF Good, Distinct
    <3>. QED
      BY <2>0, <3>1
  <2>4. CASE Below(i) /\ Above(j)
    <3>1. i = j - 1
      BY <2>4, <1>9 DEF Good, Distinct
    <3>. QED
      BY <2>0, <2>4, <3>1, <1>4, <1>9
  <2>5. CASE Above(i) /\ Below(j)
    <3>1. i - 1 = j
      BY <2>5, <1>9 DEF Good, Distinct
    <3>. QED
      BY <2>0, <2>5, <3>1, <1>4, <1>9
  <2>. QED
    BY <2>1, <2>2, <2>3, <2>4, <2>5, <1>9
<1>15. OnDisk(r) /\ EmptyAtBottom(r)
  <2> SUFFICES ASSUME NEW j \in DOMAIN r
               PROVE  /\ FirstSector <= r[j].start /\ End(r[j]) <= DiskSize
                      /\ r[j].len = 0 => r[j].start = FirstSector
    BY DEF OnDisk, EmptyAtBottom
  <2>1. CASE Below(j)
    BY <2>1, <1>9 DEF Good, OnDisk, EmptyAtBottom
  <2>2. CASE Above(j)
    BY <2>2, <1>9 DEF Good, OnDisk, EmptyAtBottom
  <2>3. CASE j = y + 1
    BY <2>3, <1>2, <1>3, <1>4, <1>5, <1>9
  <2>. QED
    BY <2>1, <2>2, <2>3, <1>9
<1>16. Len(r) <= MaxFiles
  BY <1>1, <1>7, LimitAssumption
<1>17. Good(r)
  BY <1>7, <1>13, <1>14, <1>15, <1>16 DEF Good
<1>. QED
  BY <1>6, <1>17 DEF r

(* New names and locks leave the files where they are. *)
LEMMA GoodRelabel ==
  ASSUME NEW files, Good(files), NEW r \in Seq(Entry), Len(r) = Len(files),
         \A k \in DOMAIN files :
           r[k].start = files[k].start /\ r[k].len = files[k].len,
         Distinct(r)
  PROVE  Good(r)
<1>1. files \in Seq(Entry) /\ DOMAIN files = DOMAIN r
  BY DEF Good
<1>2. \A k \in DOMAIN r : End(r[k]) = End(files[k])
  BY <1>1 DEF End
<1>3. Descending(r)
  BY <1>1, <1>2 DEF Good, Descending
<1>4. OnDisk(r) /\ EmptyAtBottom(r)
  BY <1>1, <1>2 DEF Good, OnDisk, EmptyAtBottom
<1>. QED
  BY <1>3, <1>4 DEF Good

LEMMA GoodRelock ==
  ASSUME NEW files, Good(files), NEW S, NEW lock \in BOOLEAN
  PROVE  Good(Relock(files, S, lock))
<1> DEFINE r == Relock(files, S, lock)
<1>1. files \in Seq(Entry) /\ Len(files) \in Nat /\ DOMAIN files = 1 .. Len(files)
  BY DEF Good
<1>2. /\ r = [k \in 1 .. Len(files) |->
                IF files[k].name \in S THEN [files[k] EXCEPT !.locked = lock]
                                       ELSE files[k]]
      /\ \A k \in 1 .. Len(files) : files[k] \in Entry
  BY <1>1 DEF Relock
<1>3. \A f \in Entry :
        LET g == [f EXCEPT !.locked = lock]
        IN  g \in Entry /\ g.name = f.name /\ g.start = f.start /\ g.len = f.len
  BY DEF Entry
<1>4. \A k \in 1 .. Len(files) :
        /\ r[k] \in Entry /\ r[k].name = files[k].name
        /\ r[k].start = files[k].start /\ r[k].len = files[k].len
  BY <1>2, <1>3
<1>5. r \in [1 .. Len(files) -> Entry]
  BY <1>2, <1>4
<1>6. r \in Seq(Entry) /\ Len(r) = Len(files) /\ DOMAIN r = DOMAIN files
  BY <1>1, <1>5
<1> HIDE DEF r
<1>7. Distinct(r)
  BY <1>1, <1>4, <1>6 DEF Good, Distinct
<1>8. Good(r)
  BY <1>1, <1>4, <1>6, <1>7, GoodRelabel
<1>. QED
  BY <1>8 DEF r

LEMMA GoodRename ==
  ASSUME NEW files, Good(files), NEW k \in DOMAIN files,
         NEW b \in Names, Found(files, {b}) = {}
  PROVE  Good([files EXCEPT ![k].name = b])
<1> DEFINE g == [files[k] EXCEPT !.name = b]
           r == [files EXCEPT ![k] = g]
<1>1. files \in Seq(Entry) /\ DOMAIN files = 1 .. Len(files) /\ files[k] \in Entry
  BY DEF Good
<1>2. g \in Entry /\ g.name = b /\ g.start = files[k].start /\ g.len = files[k].len
  BY <1>1 DEF Entry
<1> HIDE DEF g
<1>3. /\ r \in Seq(Entry) /\ Len(r) = Len(files)
      /\ \A j \in 1 .. Len(files) : r[j] = IF j = k THEN g ELSE files[j]
  BY <1>1, <1>2, ExceptSeq
<1> HIDE DEF r
<1>4. DOMAIN r = DOMAIN files
  BY <1>1, <1>3
<1>5. \A j \in DOMAIN files : files[j].name # b
  BY DEF Found
<1>6. Distinct(r)
  BY <1>1, <1>2, <1>3, <1>4, <1>5 DEF Good, Distinct
<1>7. Good(r)
  BY <1>1, <1>2, <1>3, <1>6, GoodRelabel
<1>. QED
  BY <1>7 DEF r, g

(* COMPACT's new start for entry k, between the files below it and its old  *)
(* place. *)
LEMMA GoodMove ==
  ASSUME NEW files, Good(files), NEW k \in DOMAIN files, files[k].len > 0,
         NEW to \in Nat, FirstSector <= to, to <= files[k].start,
         \A j \in DOMAIN files : k < j => End(files[j]) <= to
  PROVE  LET r == [files EXCEPT ![k].start = to]
         IN  /\ Good(r) /\ DOMAIN r = DOMAIN files
             /\ r[k].start = to /\ r[k].len = files[k].len
             /\ End(r[k]) <= End(files[k])
             /\ \A j \in DOMAIN files : j # k => r[j] = files[j]
<1> DEFINE g == [files[k] EXCEPT !.start = to]
           r == [files EXCEPT ![k] = g]
<1>1. files \in Seq(Entry) /\ DOMAIN files = 1 .. Len(files) /\ files[k] \in Entry
  BY DEF Good
<1>2. files[k].start \in Nat /\ files[k].len \in Nat /\ to \in 0 .. Field - 1
  <2>1. files[k].start \in 0 .. Field - 1 /\ files[k].start \in Nat
        /\ files[k].len \in Nat
    BY <1>1, EntryType DEF Entry
  <2>2. \A x \in 0 .. Field - 1 : \A y \in Nat : y <= x => y \in 0 .. Field - 1
    BY DEF Field
  <2>. QED
    BY <2>1, <2>2
<1>3. g \in Entry /\ g.name = files[k].name /\ g.start = to /\ g.len = files[k].len
  BY <1>1, <1>2 DEF Entry
<1>4. /\ End(g) \in Nat /\ End(files[k]) \in Nat /\ End(g) <= End(files[k])
  BY <1>2, <1>3 DEF End
<1> HIDE DEF g
<1>5. /\ r \in Seq(Entry) /\ Len(r) = Len(files)
      /\ \A j \in 1 .. Len(files) : r[j] = IF j = k THEN g ELSE files[j]
  BY <1>1, <1>3, ExceptSeq
<1> HIDE DEF r
<1>6. /\ DOMAIN r = DOMAIN files /\ r[k] = g
      /\ \A j \in DOMAIN files : j # k => r[j] = files[j]
  BY <1>1, <1>5
<1>7. \A j \in DOMAIN files : files[j].start \in Nat /\ End(files[j]) \in Nat
  <2> SUFFICES ASSUME NEW j \in DOMAIN files
               PROVE  files[j].start \in Nat /\ End(files[j]) \in Nat
    OBVIOUS
  <2>1. files[j] \in Entry
    BY <1>1
  <2>. QED
    BY <2>1, EntryType DEF End
<1>8. Descending(r)
  <2> SUFFICES ASSUME NEW i \in DOMAIN files, NEW j \in DOMAIN files, i < j
               PROVE  End(r[j]) <= r[i].start
    BY <1>6 DEF Descending
  <2>1. End(files[j]) <= files[i].start
    BY DEF Good, Descending
  <2>2. CASE j = k
    <3>1. i # k
      BY <2>2, <1>1
    <3>. QED
      BY <2>1, <2>2, <3>1, <1>4, <1>6, <1>7
  <2>3. CASE i = k
    <3>1. j # k
      BY <2>3, <1>1
    <3>. QED
      BY <2>3, <3>1, <1>3, <1>6
  <2>4. CASE i # k /\ j # k
    BY <2>1, <2>4, <1>6
  <2>. QED
    BY <2>2, <2>3, <2>4
<1>9. Distinct(r)
  <2>1. \A j \in DOMAIN files : r[j].name = files[j].name
    BY <1>3, <1>6
  <2>. QED
    BY <2>1, <1>6 DEF Good, Distinct
<1>10. OnDisk(r) /\ EmptyAtBottom(r)
  <2> SUFFICES ASSUME NEW j \in DOMAIN files
               PROVE  /\ FirstSector <= r[j].start /\ End(r[j]) <= DiskSize
                      /\ r[j].len = 0 => r[j].start = FirstSector
    BY <1>6 DEF OnDisk, EmptyAtBottom
  <2>1. /\ FirstSector <= files[j].start /\ End(files[j]) <= DiskSize
        /\ files[j].len = 0 => files[j].start = FirstSector
    BY DEF Good, OnDisk, EmptyAtBottom
  <2>2. CASE j = k
    BY <2>1, <2>2, <1>2, <1>3, <1>4, <1>6, SizeAssumption
  <2>3. CASE j # k
    BY <2>1, <2>3, <1>6
  <2>. QED
    BY <2>2, <2>3
<1>11. Good(r)
  BY <1>5, <1>8, <1>9, <1>10 DEF Good
<1>12. r = [files EXCEPT ![k].start = to]
  BY DEF r, g
<1>. QED
  BY <1>3, <1>4, <1>6, <1>11, <1>12, Zenon
-----------------------------------------------------------------------------
(* The invariant, one lemma for each way an action ends or goes on.         *)

(* The catalogue that PutCat leaves is the old or the new one. *)
LEMMA PutCatGood ==
  ASSUME CatalogueInv, NEW files, Good(files), PutCat(Bump(saved, files))
  PROVE  /\ saved' \in Catalogues /\ Good(saved'.files)
         /\ writes => saved'.files = files
         /\ ~writes => saved' = saved
<1>1. writes \in BOOLEAN /\ saved \in Catalogues /\ Good(saved.files)
  BY DEF CatalogueInv, TypeOK, Files
<1>2. Bump(saved, files) \in Catalogues /\ Bump(saved, files).files = files
  <2>1. saved.cycle \in Nat /\ (saved.cycle + 1) % Cycles \in Nat
    BY <1>1, LimitAssumption DEF Catalogues
  <2>. QED
    BY <2>1 DEF Bump, Catalogues, Good
<1>. QED
  BY <1>1, <1>2 DEF PutCat

LEMMA PutSectorsDomain ==
  ASSUME NEW image, PutSectors(image)
  PROVE  DOMAIN sectors' = DOMAIN sectors
<1>1. CASE writes
  BY <1>1 DEF PutSectors
<1>2. CASE ~writes
  BY <1>2 DEF PutSectors
<1>. QED
  BY <1>1, <1>2

LEMMA JobKinds ==
  ASSUME job \in Jobs
  PROVE  /\ job.op = "save" => job \in [op: {"save"}, file: Entry, data: Contents]
         /\ job.op \in {"wipe", "destroy"} =>
              job \in [op: {"wipe", "destroy"}, names: SUBSET Names,
                       next: Nat, ram: Catalogues]
         /\ job.op = "compact" => job \in [op: {"compact"}, next: Nat, to: Nat]
         /\ job.op = "move" =>
              job \in [op: {"move"}, next: Nat, to: Nat, from: Nat, len: Nat, done: Nat]
BY DEF Jobs

(* A command that ends, or has only the data of a SAVE to write. *)
LEMMA QuietInv ==
  ASSUME CatalogueInv, job' \in Jobs, job'.op \in {"idle", "save"},
         saved' \in Catalogues, Good(saved'.files),
         DOMAIN sectors' = DOMAIN sectors, UNCHANGED <<channels, writes, breaks>>
  PROVE  CatalogueInv'
<1>1. TypeOK'
  BY DEF CatalogueInv, TypeOK
<1>2. JobSound'
  BY DEF JobSound
<1>. QED
  BY <1>1, <1>2 DEF CatalogueInv, Files

LEMMA IdleInv ==
  ASSUME CatalogueInv, job' = Idle, saved' \in Catalogues, Good(saved'.files),
         DOMAIN sectors' = DOMAIN sectors, UNCHANGED <<channels, writes, breaks>>
  PROVE  CatalogueInv'
<1>1. job' \in Jobs /\ job'.op = "idle"
  BY DEF Jobs, Idle
<1>. QED
  BY <1>1, QuietInv

LEMMA AbortInv ==
  ASSUME CatalogueInv, NEW why, Abort(why), UNCHANGED <<writes, breaks>>
  PROVE  CatalogueInv'
<1>1. /\ saved' = saved /\ saved \in Catalogues /\ Good(saved.files)
      /\ job' = Idle /\ channels' = channels /\ sectors' = sectors
  BY DEF Abort, CatalogueInv, TypeOK, Files
<1>. QED
  BY <1>1, IdleInv

LEMMA CommitInv ==
  ASSUME CatalogueInv, NEW files, Good(files), Commit(files),
         UNCHANGED <<writes, breaks>>
  PROVE  CatalogueInv'
<1>1. saved' \in Catalogues /\ Good(saved'.files)
  BY PutCatGood DEF Commit
<1>. QED
  BY <1>1, IdleInv DEF Commit

LEMMA RefuseInv ==
  ASSUME CatalogueInv, NEW message, Refuse(message), UNCHANGED <<writes, breaks>>
  PROVE  CatalogueInv'
<1>1. UNCHANGED <<sectors, saved, job, channels, writes, breaks>>
  BY DEF Refuse
<1>2. TypeOK'
  BY <1>1 DEF CatalogueInv, TypeOK, Files
<1>3. JobSound'
  BY <1>1 DEF CatalogueInv, JobSound, PackedTo, Holds, HoldsIn, Files
<1>. QED
  BY <1>1, <1>2, <1>3 DEF CatalogueInv, Files

LEMMA CreateFileInv ==
  ASSUME Fits, CatalogueInv, UNCHANGED <<writes, breaks>>,
         NEW files, Good(files), NEW n \in Names, Found(files, {n}) = {},
         NEW len \in Lengths, NEW d \in Contents, CreateFile(files, n, len, d)
  PROVE  CatalogueInv'
<1>1. CASE Refuse("Catalogue full")
  BY <1>1, RefuseInv, Zenon
<1>2. CASE Refuse("Disk full")
  BY <1>2, RefuseInv, Zenon
<1>3. CASE /\ Len(files) < MaxFiles
           /\ \E y \in Slots(files, len) :
                /\ \A z \in Slots(files, len) : z <= y
                /\ LET new == [name |-> n, start |-> GapStart(files, y) % Field,
                               len |-> len, locked |-> FALSE]
                   IN  /\ PutCat(Bump(saved, InsertAt(files, y + 1, new)))
                       /\ job' = [op |-> "save", file |-> new, data |-> d]
           /\ UNCHANGED <<sectors, channels>>
  <2>1. PICK y \in Slots(files, len) :
          /\ \A z \in Slots(files, len) : z <= y
          /\ LET new == [name |-> n, start |-> GapStart(files, y) % Field,
                         len |-> len, locked |-> FALSE]
             IN  /\ PutCat(Bump(saved, InsertAt(files, y + 1, new)))
                 /\ job' = [op |-> "save", file |-> new, data |-> d]
    BY <1>3
  <2> DEFINE new == [name |-> n, start |-> GapStart(files, y) % Field,
                     len |-> len, locked |-> FALSE]
  <2>2. new \in Entry /\ Good(InsertAt(files, y + 1, new))
    BY <1>3, <2>1, GoodInsert
  <2>3. job' = [op |-> "save", file |-> new, data |-> d]
        /\ PutCat(Bump(saved, InsertAt(files, y + 1, new)))
    BY <2>1
  <2> HIDE DEF new
  <2>4. job' \in Jobs /\ job'.op = "save"
    BY <2>2, <2>3 DEF Jobs
  <2>5. saved' \in Catalogues /\ Good(saved'.files)
    BY <2>2, <2>3, PutCatGood
  <2>. QED
    BY <1>3, <2>4, <2>5, QuietInv
<1>. QED
  BY <1>1, <1>2, <1>3, Zenon DEF CreateFile

LEMMA RemovedIsGone ==
  ASSUME NEW files, Good(files), NEW k \in DOMAIN files
  PROVE  Found(RemoveAt(files, k), {files[k].name}) = {}
<1>1. /\ files \in Seq(Entry) /\ Len(files) \in Nat
      /\ DOMAIN files = 1 .. Len(files) /\ k \in 1 .. Len(files)
  BY DEF Good
<1>2. /\ DOMAIN RemoveAt(files, k) = 1 .. Len(files) - 1
      /\ \A j \in 1 .. Len(files) - 1 :
           RemoveAt(files, k)[j] = IF j < k THEN files[j] ELSE files[j + 1]
  BY <1>1, RemoveAtFacts
<1>3. ASSUME NEW j \in 1 .. Len(files) - 1
      PROVE  RemoveAt(files, k)[j].name # files[k].name
  <2> DEFINE i == IF j < k THEN j ELSE j + 1
  <2>1. i \in 1 .. Len(files) /\ i # k
    BY <1>1
  <2>2. RemoveAt(files, k)[j] = files[i]
    BY <1>2
  <2> HIDE DEF i
  <2>3. files[i].name # files[k].name
    BY <2>1, <1>1 DEF Good, Distinct
  <2>. QED
    BY <2>2, <2>3
<1>. QED
  BY <1>2, <1>3 DEF Found

LEMMA SaveInv ==
  ASSUME Fits, CatalogueInv, UNCHANGED <<writes, breaks>>,
         NEW n \in Names, NEW len \in Lengths, NEW d \in Contents, Save(n, len, d)
  PROVE  CatalogueInv'
<1>1. Good(saved.files)
  BY DEF CatalogueInv, Files
<1>2. CASE Found(saved.files, {n}) = {} /\ CreateFile(saved.files, n, len, d)
  BY <1>1, <1>2, CreateFileInv
<1>3. CASE \E k \in Found(saved.files, {n}) :
             \/ saved.files[k].locked /\ Refuse("locked")
             \/ ~saved.files[k].locked /\ IsOpen(n) /\ Refuse("open")
             \/ /\ ~saved.files[k].locked /\ ~IsOpen(n)
                /\ CreateFile(RemoveAt(saved.files, k), n, len, d)
  <2>1. PICK k \in Found(saved.files, {n}) :
          \/ Refuse("locked")
          \/ Refuse("open")
          \/ CreateFile(RemoveAt(saved.files, k), n, len, d)
    BY <1>3
  <2>2. k \in DOMAIN saved.files /\ saved.files[k].name = n
    BY DEF Found
  <2>3. Good(RemoveAt(saved.files, k))
    BY <1>1, <2>2, GoodRemove
  <2>4. Found(RemoveAt(saved.files, k), {n}) = {}
    BY <1>1, <2>2, RemovedIsGone
  <2>. QED
    BY <2>1, <2>3, <2>4, RefuseInv, CreateFileInv
<1>. QED
  BY <1>2, <1>3 DEF Save

LEMMA WriteDataInv ==
  ASSUME CatalogueInv, UNCHANGED <<writes, breaks>>, WriteData
  PROVE  CatalogueInv'
<1>1. CASE Abort("Block too big") \/ Abort("Disk overflow")
  BY <1>1, AbortInv, Zenon
<1>2. CASE /\ PutSectors([s \in Extent(job.file) |-> <<job.data, s - job.file.start>>])
           /\ job' = Idle
           /\ UNCHANGED <<saved, channels>>
  <2>1. DOMAIN sectors' = DOMAIN sectors
    BY <1>2, PutSectorsDomain
  <2>2. saved' \in Catalogues /\ Good(saved'.files)
    BY <1>2 DEF CatalogueInv, TypeOK, Files
  <2>. QED
    BY <1>2, <2>1, <2>2, IdleInv
<1>. QED
  BY <1>1, <1>2, Zenon DEF WriteData

LEMMA DeleteInv ==
  ASSUME CatalogueInv, UNCHANGED <<writes, breaks>>, NEW n \in Names, Delete(n)
  PROVE  CatalogueInv'
<1>1. CASE Refuse("not found") \/ Refuse("locked") \/ Refuse("open")
  BY <1>1, RefuseInv, Zenon
<1>2. CASE \E k \in Found(saved.files, {n}) : Commit(RemoveAt(saved.files, k))
  <2>1. PICK k \in DOMAIN saved.files : Commit(RemoveAt(saved.files, k))
    BY <1>2 DEF Found
  <2>2. Good(RemoveAt(saved.files, k))
    BY GoodRemove DEF CatalogueInv, Files
  <2>. QED
    BY <2>1, <2>2, CommitInv
<1>. QED
  BY <1>1, <1>2, Zenon DEF Delete, Unavailable

LEMMA RenameInv ==
  ASSUME CatalogueInv, UNCHANGED <<writes, breaks>>,
         NEW a \in Names, NEW b \in Names, Rename(a, b)
  PROVE  CatalogueInv'
<1>1. CASE \/ Refuse("not found") \/ Refuse("locked")
           \/ Refuse("open") \/ Refuse("exists")
  BY <1>1, RefuseInv, Zenon
<1>2. CASE /\ Found(saved.files, {b}) = {}
           /\ \E k \in Found(saved.files, {a}) :
                Commit([saved.files EXCEPT ![k].name = b])
  <2>1. PICK k \in DOMAIN saved.files : Commit([saved.files EXCEPT ![k].name = b])
    BY <1>2 DEF Found
  <2>2. Good([saved.files EXCEPT ![k].name = b])
    BY <1>2, GoodRename DEF CatalogueInv, Files
  <2>. QED
    BY <2>1, <2>2, CommitInv
<1>. QED
  BY <1>1, <1>2, Zenon DEF Rename, Unavailable

LEMMA AccessInv ==
  ASSUME CatalogueInv, UNCHANGED <<writes, breaks>>,
         NEW S, NEW lock \in BOOLEAN, Access(S, lock)
  PROVE  CatalogueInv'
<1>1. CASE Refuse("not found") \/ Refuse("open")
  BY <1>1, RefuseInv, Zenon
<1>2. CASE Commit(Relock(saved.files, S, lock))
  <2>1. Good(Relock(saved.files, S, lock))
    BY GoodRelock DEF CatalogueInv, Files
  <2>. QED
    BY <1>2, <2>1, CommitInv
<1>. QED
  BY <1>1, <1>2, Zenon DEF Access

LEMMA WriteInfoInv ==
  ASSUME CatalogueInv, UNCHANGED <<writes, breaks>>,
         NEW n \in Names, NEW lock \in BOOLEAN, WriteInfo(n, lock)
  PROVE  CatalogueInv'
<1>1. CASE Refuse("not found") \/ Refuse("locked")
  BY <1>1, RefuseInv, Zenon
<1>2. CASE Commit(Relock(saved.files, {n}, lock))
  <2>1. Good(Relock(saved.files, {n}, lock))
    BY GoodRelock DEF CatalogueInv, Files
  <2>. QED
    BY <1>2, <2>1, CommitInv
<1>. QED
  BY <1>1, <1>2, Zenon DEF WriteInfo

LEMMA RelabelInv ==
  ASSUME CatalogueInv, UNCHANGED <<writes, breaks>>, Relabel
  PROVE  CatalogueInv'
<1>1. Good(saved.files)
  BY DEF CatalogueInv, Files
<1>. QED
  BY <1>1, CommitInv DEF Relabel
-----------------------------------------------------------------------------
(* Commands that go through the catalogue entry by entry.                   *)

(* A step inside WIPE or DESTROY that leaves the search inside the copy. *)
LEMMA SearchInv ==
  ASSUME CatalogueInv, UNCHANGED <<sectors, channels, writes, breaks>>,
         saved' \in Catalogues, Good(saved'.files),
         job' \in [op: {"wipe", "destroy"}, names: SUBSET Names,
                   next: Nat, ram: Catalogues],
         job'.next \in 1 .. Len(job'.ram.files) + 1,
         job'.op = "wipe" => Len(job'.ram.files) <= Len(saved'.files),
         job'.op = "destroy" =>
           /\ Good(job'.ram.files)
           /\ saved' = saved
           /\ \A c \in DOMAIN channels : Holds(c) => HoldsIn(job'.ram.files, c)
  PROVE  CatalogueInv'
<1>1. job' \in Jobs /\ job'.op \in {"wipe", "destroy"}
  BY DEF Jobs
<1>2. TypeOK'
  BY <1>1 DEF CatalogueInv, TypeOK
<1>3. JobSound'
  <2>1. job'.op = "wipe" => Len(job'.ram.files) <= Len(Files')
    BY DEF Files
  <2>2. ASSUME job'.op = "destroy"
        PROVE  \A c \in DOMAIN channels' : Holds(c)' => HoldsIn(job.ram.files, c)'
    <3>1. \A c : Holds(c)' <=> Holds(c)
      BY <2>2 DEF Holds, HoldsIn, Files
    <3>2. \A c : HoldsIn(job.ram.files, c)' <=> HoldsIn(job'.ram.files, c)
      BY DEF HoldsIn
    <3>. QED
      BY <2>2, <3>1, <3>2
  <2>3. job'.op = "destroy" => Good(job.ram.files)'
    BY DEF Good, Descending, Distinct, OnDisk, EmptyAtBottom
  <2>. QED
    BY <1>1, <2>1, <2>2, <2>3 DEF JobSound
<1>. QED
  BY <1>2, <1>3 DEF CatalogueInv, Files

LEMMA ScanInv ==
  ASSUME CatalogueInv, UNCHANGED <<writes, breaks>>,
         NEW kind \in {"wipe", "destroy"}, NEW S \in SUBSET Names, Scan(kind, S)
  PROVE  CatalogueInv'
<1>1. CASE Refuse("not found")
  BY <1>1, RefuseInv, Zenon
<1>2. CASE /\ job' = [op |-> kind, names |-> S, next |-> 1, ram |-> saved]
           /\ UNCHANGED <<sectors, saved, channels>>
  <2>1. saved \in Catalogues /\ Good(saved.files) /\ Len(saved.files) \in Nat
    BY DEF CatalogueInv, TypeOK, Files, Good
  <2>2. /\ job' \in [op: {"wipe", "destroy"}, names: SUBSET Names,
                     next: Nat, ram: Catalogues]
        /\ job'.ram = saved /\ job'.next = 1
    BY <1>2, <2>1
  <2>3. job'.next \in 1 .. Len(job'.ram.files) + 1
    BY <2>1, <2>2
  <2>. QED
    BY <1>2, <2>1, <2>2, <2>3, SearchInv DEF Holds, Files
<1>. QED
  BY <1>1, <1>2, Zenon DEF Scan

LEMMA WipeInv ==
  ASSUME CatalogueInv, UNCHANGED <<writes, breaks>>, WipeStep
  PROVE  CatalogueInv'
<1>1. /\ job.op = "wipe"
      /\ job \in [op: {"wipe", "destroy"}, names: SUBSET Names,
                  next: Nat, ram: Catalogues]
      /\ Len(job.ram.files) <= Len(saved.files)
      /\ saved \in Catalogues /\ Good(saved.files)
  BY JobKinds DEF WipeStep, CatalogueInv, TypeOK, JobSound, Files
<1>2. /\ job.ram.files \in Seq(Entry) /\ Len(job.ram.files) \in Nat
      /\ DOMAIN job.ram.files = 1 .. Len(job.ram.files)
      /\ saved.files \in Seq(Entry) /\ Len(saved.files) \in Nat
      /\ DOMAIN saved.files = 1 .. Len(saved.files)
  BY <1>1 DEF Catalogues
<1>3. CASE Abort("ok") \/ Abort("Escape")
  BY <1>3, AbortInv
<1>4. CASE \E k \in DOMAIN job.ram.files : SkipEntry(k)
  <2>1. PICK k \in DOMAIN job.ram.files : SkipEntry(k)
    BY <1>4
  <2>2. job' = [job EXCEPT !.next = k + 1] /\ saved' = saved
        /\ UNCHANGED <<sectors, channels>>
    BY <2>1 DEF SkipEntry
  <2>3. k \in Nat /\ k + 1 \in 1 .. Len(job.ram.files) + 1
    BY <1>2
  <2>4. /\ job' \in [op: {"wipe", "destroy"}, names: SUBSET Names,
                     next: Nat, ram: Catalogues]
        /\ job'.op = "wipe" /\ job'.ram = job.ram /\ job'.next = k + 1
    BY <1>1, <2>2, <2>3
  <2>. QED
    BY <1>1, <2>2, <2>3, <2>4, SearchInv
<1>5. CASE \E k \in DOMAIN job.ram.files : WipeFile(k)
  <2>1. PICK k \in DOMAIN job.ram.files : WipeFile(k)
    BY <1>5
  <2>2. CASE Abort("Disk changed") \/ Abort("open")
    BY <2>2, AbortInv, Zenon
  <2>3. CASE /\ PutCat(Bump(saved, RemoveAt(saved.files, k)))
             /\ job' = [job EXCEPT !.ram = Bump(saved, RemoveAt(saved.files, k)),
                                   !.next = k]
             /\ UNCHANGED <<sectors, channels>>
    <3> DEFINE c == Bump(saved, RemoveAt(saved.files, k))
    <3>1. k \in 1 .. Len(job.ram.files) /\ k \in 1 .. Len(saved.files)
      BY <1>1, <1>2
    <3>2. /\ Good(RemoveAt(saved.files, k))
          /\ Len(RemoveAt(saved.files, k)) = Len(saved.files) - 1
      BY <1>1, <1>2, <3>1, GoodRemove, RemoveAtFacts
    <3>3. /\ saved' \in Catalogues /\ Good(saved'.files)
          /\ writes => saved'.files = RemoveAt(saved.files, k)
          /\ ~writes => saved' = saved
      BY <2>3, <3>2, PutCatGood
    <3>4. c \in Catalogues /\ c.files = RemoveAt(saved.files, k)
      <4>1. saved.cycle \in Nat /\ (saved.cycle + 1) % Cycles \in Nat
        BY <1>1, LimitAssumption DEF Catalogues
      <4>. QED
        BY <3>2, <4>1 DEF Bump, Catalogues, Good
    <3> HIDE DEF c
    <3>5. job' = [job EXCEPT !.ram = c, !.next = k]
      BY <2>3 DEF c
    <3>6. /\ job' \in [op: {"wipe", "destroy"}, names: SUBSET Names,
                       next: Nat, ram: Catalogues]
          /\ job'.op = "wipe" /\ job'.ram = c /\ job'.next = k
      <4>1. k \in Nat
        BY <3>1
      <4>. QED
        BY <1>1, <3>4, <3>5, <4>1
    <3>7. Len(job'.ram.files) <= Len(saved'.files)
      <4>1. Len(job'.ram.files) = Len(saved.files) - 1
        BY <3>2, <3>4, <3>6
      <4>2. Len(saved'.files) = Len(saved.files) - 1
            \/ Len(saved'.files) = Len(saved.files)
        BY <3>2, <3>3
      <4>. QED
        BY <1>2, <4>1, <4>2
    <3>8. job'.next \in 1 .. Len(job'.ram.files) + 1
      BY <1>2, <3>1, <3>2, <3>4, <3>6
    <3>. QED
      BY <2>3, <3>3, <3>6, <3>7, <3>8, SearchInv
  <2>. QED
    BY <2>1, <2>2, <2>3, Zenon DEF WipeFile
<1>. QED
  BY <1>3, <1>4, <1>5 DEF WipeStep

(* Removing another file leaves the one that the channel reads. *)
LEMMA HoldsRemove ==
  ASSUME NEW files \in Seq(Entry), NEW k \in DOMAIN files, NEW c,
         files[k].name # channels[c].name, HoldsIn(files, c)
  PROVE  HoldsIn(RemoveAt(files, k), c)
<1>1. /\ files \in Seq(Entry) /\ Len(files) \in Nat
      /\ k \in 1 .. Len(files) /\ DOMAIN files = 1 .. Len(files)
  OBVIOUS
<1>2. PICK i \in DOMAIN files : /\ files[i].name = channels[c].name
                                /\ files[i].start = channels[c].start
                                /\ files[i].len = channels[c].len
  BY DEF HoldsIn
<1>3. /\ DOMAIN RemoveAt(files, k) = 1 .. Len(files) - 1
      /\ \A j \in 1 .. Len(files) - 1 :
           RemoveAt(files, k)[j] = IF j < k THEN files[j] ELSE files[j + 1]
  <2>1. /\ RemoveAt(files, k) \in Seq(Entry)
        /\ Len(RemoveAt(files, k)) = Len(files) - 1
        /\ \A j \in 1 .. Len(files) - 1 :
             RemoveAt(files, k)[j] = IF j < k THEN files[j] ELSE files[j + 1]
    BY <1>1, RemoveAtFacts, Zenon
  <2>. QED
    BY <2>1
<1> DEFINE j == IF i < k THEN i ELSE i - 1
<1>4. i # k /\ i \in 1 .. Len(files)
  BY <1>1, <1>2
<1>5. /\ j \in 1 .. Len(files) - 1
      /\ i = IF j < k THEN j ELSE j + 1
  BY <1>1, <1>4
<1> HIDE DEF j
<1>6. RemoveAt(files, k)[j] = files[i]
  BY <1>3, <1>5
<1>. QED
  BY <1>2, <1>3, <1>5, <1>6 DEF HoldsIn

LEMMA DestroyInv ==
  ASSUME CatalogueInv, UNCHANGED <<writes, breaks>>, DestroyStep
  PROVE  CatalogueInv'
<1>1. /\ job.op = "destroy"
      /\ job \in [op: {"wipe", "destroy"}, names: SUBSET Names,
                  next: Nat, ram: Catalogues]
      /\ Good(job.ram.files)
      /\ \A c \in DOMAIN channels : Holds(c) => HoldsIn(job.ram.files, c)
      /\ saved \in Catalogues /\ Good(saved.files)
  BY JobKinds DEF DestroyStep, CatalogueInv, TypeOK, JobSound, Files
<1>2. /\ job.ram.files \in Seq(Entry) /\ Len(job.ram.files) \in Nat
      /\ DOMAIN job.ram.files = 1 .. Len(job.ram.files)
  BY <1>1 DEF Catalogues
<1>3. CASE Commit(job.ram.files)
  BY <1>1, <1>3, CommitInv
<1>4. CASE \E k \in DOMAIN job.ram.files : SkipEntry(k)
  <2>1. PICK k \in DOMAIN job.ram.files : SkipEntry(k)
    BY <1>4
  <2>2. job' = [job EXCEPT !.next = k + 1] /\ saved' = saved
        /\ UNCHANGED <<sectors, channels>>
    BY <2>1 DEF SkipEntry
  <2>3. k \in Nat /\ k + 1 \in 1 .. Len(job.ram.files) + 1
    BY <1>2
  <2>4. /\ job' \in [op: {"wipe", "destroy"}, names: SUBSET Names,
                     next: Nat, ram: Catalogues]
        /\ job'.op = "destroy" /\ job'.ram = job.ram /\ job'.next = k + 1
    BY <1>1, <2>2, <2>3
  <2>. QED
    BY <1>1, <2>2, <2>3, <2>4, SearchInv
<1>5. CASE \E k \in DOMAIN job.ram.files : DestroyFile(k)
  <2>1. PICK k \in DOMAIN job.ram.files : DestroyFile(k)
    BY <1>5
  <2>2. CASE Abort("open")
    BY <2>2, AbortInv
  <2>3. CASE /\ ~IsOpen(job.ram.files[k].name)
             /\ job' = [job EXCEPT !.ram.files = RemoveAt(@, k), !.next = k]
             /\ UNCHANGED <<sectors, saved, channels>>
    <3> DEFINE r == RemoveAt(job.ram.files, k)
    <3>1. k \in 1 .. Len(job.ram.files) /\ k \in Nat
      BY <1>2
    <3>2. Good(r) /\ r \in Seq(Entry) /\ Len(r) = Len(job.ram.files) - 1
      BY <1>1, <1>2, <3>1, GoodRemove, RemoveAtFacts
    <3>3. \A c \in DOMAIN channels : Holds(c) => HoldsIn(r, c)
      <4> SUFFICES ASSUME NEW c \in DOMAIN channels, Holds(c)
                   PROVE  HoldsIn(r, c)
        OBVIOUS
      <4>1. HoldsIn(job.ram.files, c)
        BY <1>1
      <4>2. job.ram.files[k].name # channels[c].name
        BY <2>3 DEF IsOpen
      <4>. QED
        BY <1>2, <4>1, <4>2, HoldsRemove
    <3> HIDE DEF r
    <3>4. job' = [job EXCEPT !.ram.files = r, !.next = k]
      BY <2>3 DEF r
    <3>5. /\ job' \in [op: {"wipe", "destroy"}, names: SUBSET Names,
                       next: Nat, ram: Catalogues]
          /\ job'.op = "destroy" /\ job'.ram.files = r /\ job'.next = k
      BY <1>1, <3>1, <3>2, <3>4 DEF Catalogues
    <3>6. job'.next \in 1 .. Len(job'.ram.files) + 1
      BY <1>2, <3>1, <3>2, <3>5
    <3>. QED
      BY <1>1, <2>3, <3>2, <3>3, <3>5, <3>6, SearchInv
  <2>. QED
    BY <2>1, <2>2, <2>3 DEF DestroyFile
<1>. QED
  BY <1>3, <1>4, <1>5 DEF DestroyStep
-----------------------------------------------------------------------------
(* COMPACT. *)

LEMMA CompactInv ==
  ASSUME CatalogueInv, UNCHANGED <<saved, channels, writes, breaks>>,
         DOMAIN sectors' = DOMAIN sectors,
         NEW n \in 0 .. Len(Files), NEW t \in Nat,
         job' = [op |-> "compact", next |-> n, to |-> t],
         writes => PackedTo(n, t)
  PROVE  CatalogueInv'
<1>0. Len(Files) \in Nat /\ n \in Nat
  BY DEF CatalogueInv, Good
<1>1. job' \in Jobs /\ job'.op = "compact" /\ job'.next = n /\ job'.to = t
  BY <1>0 DEF Jobs
<1>2. TypeOK'
  BY <1>1 DEF CatalogueInv, TypeOK, Files
<1>3. PackedTo(job.next, job.to)' <=> PackedTo(n, t)
  BY <1>1 DEF PackedTo, Files
<1>4. JobSound'
  BY <1>1, <1>3 DEF JobSound
<1>. QED
  BY <1>2, <1>4 DEF CatalogueInv, Files

LEMMA StartCompactInv ==
  ASSUME CatalogueInv, UNCHANGED <<writes, breaks>>, StartCompact
  PROVE  CatalogueInv'
<1>1. /\ job' = [op |-> "compact", next |-> Len(Files), to |-> FirstSector]
      /\ UNCHANGED <<sectors, saved, channels>>
  BY DEF StartCompact, Files
<1>2. Good(Files) /\ Len(Files) \in Nat /\ DOMAIN Files = 1 .. Len(Files)
  BY DEF CatalogueInv, Good
<1>3. PackedTo(Len(Files), FirstSector)
  <2>1. \A k \in DOMAIN Files : ~(k > Len(Files))
    BY <1>2
  <2>. QED
    BY <1>2, <2>1 DEF PackedTo, Good, OnDisk, FirstSector
<1>4. Len(Files) \in 0 .. Len(Files) /\ FirstSector \in Nat
  BY <1>2 DEF FirstSector
<1>. QED
  BY <1>1, <1>3, <1>4, CompactInv

LEMMA CompactKeepInv ==
  ASSUME CatalogueInv, UNCHANGED <<writes, breaks>>, CompactKeep
  PROVE  CatalogueInv'
<1> DEFINE n == job.next
           f == Files[n]
<1>1. /\ job \in [op: {"compact"}, next: Nat, to: Nat]
      /\ n \in 0 .. Len(Files) /\ n > 0
      /\ Good(Files)
      /\ writes => PackedTo(n, job.to)
  BY JobKinds DEF CompactKeep, CatalogueInv, TypeOK, JobSound
<1>2. /\ Files \in Seq(Entry) /\ Len(Files) \in Nat /\ DOMAIN Files = 1 .. Len(Files)
      /\ n \in DOMAIN Files /\ n \in Nat /\ n - 1 \in 0 .. Len(Files)
  BY <1>1 DEF Good
<1>3. f \in Entry /\ f.start \in Nat /\ f.len \in Nat
  BY <1>2, EntryType
<1>4. /\ f.len = 0 \/ f.start = job.to
      /\ job' = [op |-> "compact", next |-> n - 1, to |-> job.to + f.len]
      /\ UNCHANGED <<sectors, saved, channels>>
  BY DEF CompactKeep, Files
<1>5. job' = [op |-> "compact", next |-> n - 1, to |-> job.to + f.len]
      /\ job.to \in Nat /\ job.to + f.len \in Nat
  <2>1. job.to \in Nat /\ job.to + f.len \in Nat
    BY <1>1, <1>3
  <2>. QED
    BY <2>1, <1>4
<1>6. ASSUME writes
      PROVE  PackedTo(n - 1, job.to + f.len)
  <2>1. PackedTo(n, job.to)
    BY <1>1, <1>6
  <2>2. FirstSector <= job.to /\ FirstSector <= job.to + f.len
    BY <2>1, <1>3, <1>5 DEF PackedTo, FirstSector
  <2>3. ASSUME NEW k \in DOMAIN Files, k > n - 1
        PROVE  End(Files[k]) <= job.to + f.len
    <3>0. k \in Nat /\ End(Files[k]) \in Nat
      <4>1. Files[k] \in Entry /\ k \in Nat
        BY <1>2
      <4>. QED
        BY <4>1, EntryType DEF End
    <3>1. CASE k = n
      <4>1. CASE f.start = job.to
        BY <3>1, <4>1, <1>3, <1>5 DEF End
      <4>2. CASE f.len = 0
        <5>1. f.start = FirstSector
          BY <4>2, <1>1, <1>2 DEF Good, EmptyAtBottom
        <5>. QED
          BY <3>1, <4>2, <5>1, <2>2, <1>3, <1>5 DEF End
      <4>. QED
        BY <4>1, <4>2, <1>4
    <3>2. CASE k # n
      <4>1. k > n
        BY <2>3, <3>0, <3>2, <1>2
      <4>2. End(Files[k]) <= job.to
        BY <2>1, <4>1 DEF PackedTo
      <4>. QED
        BY <3>0, <4>2, <1>3, <1>5
    <3>. QED
      BY <3>1, <3>2
  <2>4. ASSUME NEW k \in DOMAIN Files, k <= n - 1, Files[k].len > 0
        PROVE  job.to + f.len <= Files[k].start
    <3>0. k \in Nat /\ k < n /\ k <= n /\ Files[k].start \in Nat
      <4>1. Files[k] \in Entry /\ k \in Nat
        BY <1>2
      <4>2. k < n /\ k <= n
        BY <2>4, <4>1, <1>2
      <4>. QED
        BY <4>1, <4>2, EntryType
    <3>1. End(f) <= Files[k].start
      BY <3>0, <1>1, <1>2 DEF Good, Descending
    <3>2. job.to <= Files[k].start
      BY <3>0, <2>1, <2>4 DEF PackedTo
    <3>. QED
      BY <3>0, <3>1, <3>2, <1>3, <1>4, <1>5 DEF End
  <2>. QED
    BY <2>2, <2>3, <2>4 DEF PackedTo
<1>. QED
  BY <1>2, <1>4, <1>5, <1>6, CompactInv

(* The steps of one file's move. *)
LEMMA MoveInv ==
  ASSUME CatalogueInv, UNCHANGED <<channels, writes, breaks>>,
         DOMAIN sectors' = DOMAIN sectors,
         saved' \in Catalogues, Good(saved'.files),
         job' \in [op: {"move"}, next: Nat, to: Nat, from: Nat, len: Nat, done: Nat],
         job'.next \in 1 .. Len(saved'.files),
         writes => /\ PackedTo(job.next, job.to)'
                   /\ saved'.files[job'.next].start = job'.to
                   /\ saved'.files[job'.next].len = job'.len
  PROVE  CatalogueInv'
<1>1. job' \in Jobs /\ job'.op = "move"
  BY DEF Jobs
<1>2. TypeOK'
  BY <1>1 DEF CatalogueInv, TypeOK, Files
<1>3. JobSound'
  BY <1>1 DEF JobSound, Files
<1>. QED
  BY <1>2, <1>3 DEF CatalogueInv, Files

LEMMA CompactLiftInv ==
  ASSUME CatalogueInv, UNCHANGED <<writes, breaks>>, CompactLift
  PROVE  CatalogueInv'
<1> DEFINE n == job.next
           f == Files[n]
           r == [Files EXCEPT ![n].start = job.to]
<1>1. /\ job \in [op: {"compact"}, next: Nat, to: Nat]
      /\ n \in 0 .. Len(Files) /\ n > 0
      /\ Good(Files) /\ saved \in Catalogues
      /\ writes => PackedTo(n, job.to)
  BY JobKinds DEF CompactLift, CatalogueInv, TypeOK, JobSound
<1>2. /\ Files \in Seq(Entry) /\ Len(Files) \in Nat /\ DOMAIN Files = 1 .. Len(Files)
      /\ n \in DOMAIN Files /\ n \in Nat /\ n \in 1 .. Len(Files)
  BY <1>1 DEF Good
<1>3. f \in Entry /\ f.start \in Nat /\ f.len \in Nat /\ job.to \in Nat
  BY <1>1, <1>2, EntryType
<1>4. /\ f.len > 0
      /\ PutCat(Bump(saved, r))
      /\ job' = [op |-> "move", next |-> n, to |-> job.to,
                 from |-> f.start, len |-> f.len, done |-> 0]
      /\ UNCHANGED <<sectors, channels>>
  BY DEF CompactLift, Files
<1>5. /\ job' \in [op: {"move"}, next: Nat, to: Nat, from: Nat, len: Nat, done: Nat]
      /\ job'.next = n /\ job'.to = job.to /\ job'.len = f.len
  BY <1>2, <1>3, <1>4
<1>6. CASE ~writes
  <2>1. saved' = saved
    BY <1>4, <1>6 DEF PutCat
  <2>. QED
    BY <1>1, <1>2, <1>4, <1>5, <1>6, <2>1, MoveInv DEF Files
<1>7. CASE writes
  <2>1. PackedTo(n, job.to)
    BY <1>1, <1>7
  <2>2. /\ FirstSector <= job.to /\ job.to <= f.start
        /\ \A j \in DOMAIN Files : n < j => End(Files[j]) <= job.to
    <3>1. n <= n
      BY <1>2
    <3>2. \A j \in DOMAIN Files : n < j => j > n
      BY <1>2
    <3>. QED
      BY <2>1, <3>1, <3>2, <1>2, <1>4 DEF PackedTo
  <2>3. /\ Good(r) /\ DOMAIN r = DOMAIN Files
        /\ r[n].start = job.to /\ r[n].len = f.len
        /\ \A j \in DOMAIN Files : j # n => r[j] = Files[j]
    <3>1. /\ Good(Files) /\ n \in DOMAIN Files /\ Files[n].len > 0 /\ job.to \in Nat
          /\ FirstSector <= job.to /\ job.to <= Files[n].start
          /\ \A j \in DOMAIN Files : n < j => End(Files[j]) <= job.to
      BY <2>2, <1>1, <1>2, <1>3, <1>4
    <3> HIDE DEF n
    <3>. QED
      BY <3>1, GoodMove
  <2> HIDE DEF r
  <2>4. saved' \in Catalogues /\ saved'.files = r
    BY <2>3, <1>4, <1>7, PutCatGood
  <2>5. Len(r) = Len(Files)
    <3>1. r \in Seq(Entry)
      BY <2>3 DEF Good
    <3>. QED
      BY <2>3, <3>1, <1>2
  <2>6. PackedTo(job.next, job.to)'
    <3>1. Files' = r /\ job'.next = n /\ job'.to = job.to
      BY <2>4, <1>5 DEF Files
    <3>2. ASSUME NEW k \in DOMAIN r
          PROVE  /\ k > n => End(r[k]) <= job.to
                 /\ k <= n /\ r[k].len > 0 => job.to <= r[k].start
      <4>1. CASE k = n
        BY <4>1, <2>3, <1>2, <1>3
      <4>2. CASE k # n
        BY <4>2, <2>1, <2>3 DEF PackedTo
      <4>. QED
        BY <4>1, <4>2
    <3>. QED
      BY <3>1, <3>2, <2>2 DEF PackedTo
  <2>. QED
    BY <2>3, <2>4, <2>5, <2>6, <1>2, <1>4, <1>5, MoveInv
<1>. QED
  BY <1>6, <1>7

LEMMA MoveChunkInv ==
  ASSUME CatalogueInv, UNCHANGED <<writes, breaks>>, MoveChunk
  PROVE  CatalogueInv'
<1> DEFINE n == job.next
           f == Files[n]
           t == job.to + job.len
           done == job.done + Chunk
<1>1. /\ job \in [op: {"move"}, next: Nat, to: Nat, from: Nat, len: Nat, done: Nat]
      /\ n \in 1 .. Len(Files)
      /\ Good(Files) /\ saved \in Catalogues
      /\ writes => /\ PackedTo(n, job.to)
                   /\ f.start = job.to /\ f.len = job.len
  BY JobKinds, Zenon DEF MoveChunk, CatalogueInv, TypeOK, JobSound, Files
<1>2. /\ Files \in Seq(Entry) /\ Len(Files) \in Nat /\ DOMAIN Files = 1 .. Len(Files)
      /\ n \in DOMAIN Files /\ n \in Nat /\ n - 1 \in 0 .. Len(Files)
      /\ job.to \in Nat /\ job.len \in Nat /\ t \in Nat
  BY <1>1 DEF Good
<1>3. CASE Abort("Disk overflow")
  BY <1>3, AbortInv, Zenon
<1>4. CASE /\ \E image : PutSectors(image)
           /\ job' = IF done < job.len THEN [job EXCEPT !.done = done]
                     ELSE [op |-> "compact", next |-> n - 1, to |-> t]
           /\ UNCHANGED <<saved, channels>>
  <2>1. DOMAIN sectors' = DOMAIN sectors
    BY <1>4, PutSectorsDomain
  <2>2. CASE done < job.len
    <3>1. done \in Nat
      <4>1. job.done \in Nat /\ job.len \in Nat /\ Buffer \in Nat
        BY <1>1, LimitAssumption
      <4>2. Chunk \in Int
        BY <4>1 DEF Chunk
      <4>3. Chunk < 0 => Chunk = job.len - job.done
        BY <4>1 DEF Chunk
      <4>. QED
        BY <4>1, <4>2, <4>3
    <3> HIDE DEF done
    <3>2. job' = [job EXCEPT !.done = done]
      BY <1>4, <2>2
    <3>3. /\ job' \in [op: {"move"}, next: Nat, to: Nat, from: Nat, len: Nat, done: Nat]
          /\ job'.next = n /\ job'.to = job.to /\ job'.len = job.len
      BY <1>1, <3>1, <3>2
    <3>4. writes => /\ PackedTo(job.next, job.to)'
                    /\ saved'.files[job'.next].start = job'.to
                    /\ saved'.files[job'.next].len = job'.len
      BY <1>1, <1>4, <3>3 DEF PackedTo, Files
    <3>. QED
      BY <1>1, <1>4, <2>1, <3>3, <3>4, MoveInv DEF Files
  <2>3. CASE ~(done < job.len)
    <3>1. job' = [op |-> "compact", next |-> n - 1, to |-> t]
      BY <1>4, <2>3
    <3>2. ASSUME writes
          PROVE  PackedTo(n - 1, t)
      <4>1. PackedTo(n, job.to) /\ f.start = job.to /\ f.len = job.len
        BY <1>1, <3>2
      <4>2. End(f) = t /\ FirstSector <= t
        BY <4>1, <1>2 DEF PackedTo, End, FirstSector
      <4>3. ASSUME NEW k \in DOMAIN Files, k > n - 1
            PROVE  End(Files[k]) <= t
        <5>0. k \in Nat /\ End(Files[k]) \in Nat
          <6>1. Files[k] \in Entry /\ k \in Nat
            BY <1>2
          <6>. QED
            BY <6>1, EntryType DEF End
        <5>1. CASE k = n
          BY <5>0, <5>1, <4>2, <1>2
        <5>2. CASE k # n
          <6>1. k > n
            BY <4>3, <5>0, <5>2, <1>2
          <6>2. End(Files[k]) <= job.to
            BY <4>1, <6>1 DEF PackedTo
          <6>. QED
            BY <5>0, <6>2, <1>2
        <5>. QED
          BY <5>1, <5>2
      <4>4. ASSUME NEW k \in DOMAIN Files, k <= n - 1
            PROVE  t <= Files[k].start
        <5>1. k < n
          <6>1. k \in Nat
            BY <1>2
          <6>. QED
            BY <4>4, <6>1, <1>2
        <5>. QED
          BY <5>1, <4>2, <1>1, <1>2 DEF Good, Descending
      <4>. QED
        BY <4>2, <4>3, <4>4 DEF PackedTo
    <3>. QED
      BY <1>2, <1>4, <2>1, <3>1, <3>2, CompactInv
  <2>. QED
    BY <2>2, <2>3
<1>. QED
  BY <1>3, <1>4, Zenon DEF MoveChunk
-----------------------------------------------------------------------------
(* Channels and Break, and the invariant as a whole. *)

LEMMA ChannelsInv ==
  ASSUME CatalogueInv, job = Idle,
         UNCHANGED <<sectors, saved, job, writes, breaks>>,
         DOMAIN channels' \subseteq Channels,
         \A c \in DOMAIN channels' : channels'[c] \in Entry
  PROVE  CatalogueInv'
<1>1. job'.op = "idle"
  BY DEF Idle
<1>2. TypeOK'
  BY <1>1 DEF CatalogueInv, TypeOK, Files
<1>3. JobSound'
  BY <1>1 DEF JobSound
<1>. QED
  BY <1>2, <1>3 DEF CatalogueInv, Files

LEMMA OpenInInv ==
  ASSUME CatalogueInv, job = Idle, UNCHANGED <<writes, breaks>>,
         NEW n \in Names, OpenIn(n)
  PROVE  CatalogueInv'
<1>1. CASE Refuse("not found") \/ Refuse("Too many open")
  BY <1>1, RefuseInv, Zenon
<1>2. CASE /\ \E k \in Found(saved.files, {n}), c \in Channels \ DOMAIN channels :
                channels' = [x \in DOMAIN channels \cup {c} |->
                               IF x = c THEN saved.files[k] ELSE channels[x]]
           /\ UNCHANGED <<sectors, saved, job>>
  <2>1. PICK k \in Found(saved.files, {n}), c \in Channels \ DOMAIN channels :
          channels' = [x \in DOMAIN channels \cup {c} |->
                         IF x = c THEN saved.files[k] ELSE channels[x]]
    BY <1>2
  <2>2. saved.files[k] \in Entry
    <3>1. saved.files \in Seq(Entry) /\ k \in DOMAIN saved.files
      BY DEF Found, CatalogueInv, Good, Files
    <3>. QED
      BY <3>1
  <2>3. /\ DOMAIN channels' \subseteq Channels
        /\ \A x \in DOMAIN channels' : channels'[x] \in Entry
    BY <2>1, <2>2 DEF CatalogueInv, TypeOK
  <2>. QED
    BY <1>2, <2>3, ChannelsInv
<1>. QED
  BY <1>1, <1>2, Zenon DEF OpenIn

LEMMA CloseInv ==
  ASSUME CatalogueInv, job = Idle, UNCHANGED <<writes, breaks>>,
         NEW c \in DOMAIN channels, Close(c)
  PROVE  CatalogueInv'
<1>1. /\ channels' = [x \in DOMAIN channels \ {c} |-> channels[x]]
      /\ UNCHANGED <<sectors, saved, job>>
  BY DEF Close
<1>2. /\ DOMAIN channels' \subseteq Channels
      /\ \A x \in DOMAIN channels' : channels'[x] \in Entry
  BY <1>1 DEF CatalogueInv, TypeOK
<1>. QED
  BY <1>1, <1>2, ChannelsInv

LEMMA BreakInv ==
  ASSUME CatalogueInv, Break
  PROVE  CatalogueInv'
<1>1. /\ job' = Idle /\ breaks < MaxBreaks /\ breaks' = breaks + 1
      /\ channels' \in {channels, <<>>}
      /\ UNCHANGED <<sectors, saved, writes>>
  BY DEF Break
<1>2. job' \in Jobs /\ job'.op = "idle"
  BY <1>1 DEF Jobs, Idle
<1>3. /\ DOMAIN channels' \subseteq Channels
      /\ \A c \in DOMAIN channels' : channels'[c] \in Entry
  BY <1>1 DEF CatalogueInv, TypeOK
<1>4. breaks' \in 0 .. MaxBreaks
  BY <1>1, LimitAssumption DEF CatalogueInv, TypeOK
<1>5. TypeOK'
  BY <1>1, <1>2, <1>3, <1>4 DEF CatalogueInv, TypeOK, Files
<1>6. JobSound'
  BY <1>2 DEF JobSound
<1>. QED
  BY <1>1, <1>5, <1>6 DEF CatalogueInv, Files

LEMMA InitInv ==
  ASSUME Init
  PROVE  CatalogueInv
<1>1. PICK files \in Images : saved = [cycle |-> 0, files |-> files]
  BY DEF Init
<1>2. Good(files) /\ files \in Seq(Entry)
  BY ImageAssumption DEF Good
<1>3. saved \in Catalogues /\ Good(Files)
  BY <1>1, <1>2 DEF Catalogues, Files
<1>4. job \in Jobs /\ job.op = "idle"
  BY DEF Init, Idle, Jobs
<1>5. DOMAIN sectors = FirstSector .. MediaSize - 1 /\ DOMAIN channels = {}
  BY DEF Init
<1>6. breaks \in 0 .. MaxBreaks /\ writes \in BOOLEAN
  BY LimitAssumption, BackendAssumption DEF Init
<1>7. TypeOK
  BY <1>3, <1>4, <1>5, <1>6 DEF TypeOK
<1>. QED
  BY <1>3, <1>4, <1>7 DEF CatalogueInv, JobSound

LEMMA NextInv ==
  ASSUME Fits, CatalogueInv, [Next]_vars
  PROVE  CatalogueInv'
<1>1. CASE UNCHANGED vars
  BY <1>1, RefuseInv DEF vars, Refuse
<1>2. CASE job = Idle /\ Command /\ UNCHANGED <<writes, breaks>>
  <2>1. CASE \E n \in Names, len \in Lengths, d \in Contents : Save(n, len, d)
    BY <1>2, <2>1, SaveInv
  <2>2. CASE \E n \in Names : Delete(n) \/ OpenIn(n)
    BY <1>2, <2>2, DeleteInv, OpenInInv
  <2>3. CASE \E a, b \in Names : Rename(a, b)
    BY <1>2, <2>3, RenameInv
  <2>4. CASE \E S \in SUBSET Names : StartWipe(S) \/ StartDestroy(S)
    BY <1>2, <2>4, ScanInv DEF StartWipe, StartDestroy
  <2>5. CASE \E S \in SUBSET Names, lock \in BOOLEAN : Access(S, lock)
    BY <1>2, <2>5, AccessInv
  <2>6. CASE \E n \in Names, lock \in BOOLEAN : WriteInfo(n, lock)
    BY <1>2, <2>6, WriteInfoInv
  <2>7. CASE \E c \in DOMAIN channels : Close(c)
    BY <1>2, <2>7, CloseInv
  <2>8. CASE Relabel \/ StartCompact
    BY <1>2, <2>8, RelabelInv, StartCompactInv
  <2>. QED
    BY <1>2, <2>1, <2>2, <2>3, <2>4, <2>5, <2>6, <2>7, <2>8 DEF Command
<1>3. CASE JobStep
  <2>1. UNCHANGED <<writes, breaks>>
    BY <1>3 DEF JobStep
  <2>2. CASE WriteData \/ WipeStep \/ DestroyStep
    BY <2>1, <2>2, WriteDataInv, WipeInv, DestroyInv
  <2>3. CASE CompactDone
    BY <2>1, <2>3, AbortInv DEF CompactDone
  <2>4. CASE CompactKeep \/ CompactLift \/ MoveChunk
    BY <2>1, <2>4, CompactKeepInv, CompactLiftInv, MoveChunkInv
  <2>. QED
    BY <1>3, <2>2, <2>3, <2>4 DEF JobStep
<1>4. CASE Break
  BY <1>4, BreakInv
<1>. QED
  BY <1>1, <1>2, <1>3, <1>4 DEF Next

(* Whatever commands and Breaks come, the catalogue commands keep their     *)
(* inductive invariant, if no SAVE is larger than the empty disk.           *)
THEOREM InvariantHolds ==
  ASSUME Fits
  PROVE  Spec => []CatalogueInv
<1>1. Init => CatalogueInv
  BY InitInv
<1>2. CatalogueInv /\ [Next]_vars => CatalogueInv'
  BY NextInv
<1>. QED
  BY <1>1, <1>2, PTL DEF Spec

(* The types are those of TypeOK; a search or a move never leaves the       *)
(* catalogue (8296-82cf, 9afb-9bba). *)
THEOREM TypeCorrect ==
  ASSUME Fits
  PROVE  Spec => []TypeOK
<1>1. CatalogueInv => TypeOK
  BY DEF CatalogueInv
<1>. QED
  BY <1>1, InvariantHolds, PTL

(* The catalogue on the disk always lists distinct names, highest file      *)
(* first and without overlap, in no more entries than it has room for,      *)
(* whenever Break comes (899d-8a03, 82d1-82ed, 9afb-9bba). *)
THEOREM CatalogueStaysSound ==
  ASSUME Fits
  PROVE  Spec => []CatalogueSound
<1>1. CatalogueInv => CatalogueSound
  BY DEF CatalogueInv, CatalogueSound, Good
<1>. QED
  BY <1>1, InvariantHolds, PTL

(* Every file stays between the catalogue and the end of the disk.          *)
THEOREM FilesStayOnDisk ==
  ASSUME Fits
  PROVE  Spec => []FilesOnDisk
<1>1. CatalogueInv => FilesOnDisk
  BY DEF CatalogueInv, FilesOnDisk, Good
<1>. QED
  BY <1>1, InvariantHolds, PTL
-----------------------------------------------------------------------------
(* Open files. *)

LEMMA HoldsInsert ==
  ASSUME NEW files \in Seq(Entry), NEW i \in 1 .. Len(files) + 1, NEW e \in Entry,
         NEW c, HoldsIn(files, c)
  PROVE  HoldsIn(InsertAt(files, i, e), c)
<1>1. /\ files \in Seq(Entry) /\ Len(files) \in Nat
      /\ i \in 1 .. Len(files) + 1 /\ DOMAIN files = 1 .. Len(files)
  OBVIOUS
<1>2. /\ DOMAIN InsertAt(files, i, e) = 1 .. Len(files) + 1
      /\ \A j \in 1 .. Len(files) + 1 :
           InsertAt(files, i, e)[j] =
             IF j < i THEN files[j] ELSE IF j = i THEN e ELSE files[j - 1]
  <2>1. Inserted(InsertAt(files, i, e), files, i, e)
    BY InsertEntry
  <2>. QED
    BY <2>1 DEF Inserted
<1>3. PICK k \in DOMAIN files : /\ files[k].name = channels[c].name
                                /\ files[k].start = channels[c].start
                                /\ files[k].len = channels[c].len
  BY DEF HoldsIn
<1> DEFINE j == IF k < i THEN k ELSE k + 1
<1>4. /\ j \in 1 .. Len(files) + 1
      /\ j < i => j = k
      /\ ~(j < i) => j # i /\ j - 1 = k
  BY <1>1
<1> HIDE DEF j
<1>5. InsertAt(files, i, e)[j] = files[k]
  BY <1>2, <1>4
<1>. QED
  BY <1>2, <1>3, <1>4, <1>5 DEF HoldsIn

(* A new catalogue in which the file is where it was. *)
LEMMA HoldsPut ==
  ASSUME NEW files, PutCat(Bump(saved, files)), channels' = channels,
         NEW c, Holds(c), HoldsIn(files, c)
  PROVE  Holds(c)'
<1>1. saved'.files = files \/ saved'.files = saved.files
  BY DEF PutCat, Bump
<1>2. CASE saved'.files = files
  BY <1>2 DEF Holds, HoldsIn, Files
<1>3. CASE saved'.files = saved.files
  BY <1>3 DEF Holds, HoldsIn, Files
<1>. QED
  BY <1>1, <1>2, <1>3

LEMMA HoldsStays ==
  ASSUME saved' = saved, NEW c, channels'[c] = channels[c], Holds(c)
  PROVE  Holds(c)'
BY DEF Holds, HoldsIn, Files

LEMMA HoldsRelock ==
  ASSUME CatalogueInv, NEW S, NEW lock \in BOOLEAN, NEW c, Holds(c)
  PROVE  HoldsIn(Relock(saved.files, S, lock), c)
<1> DEFINE r == Relock(saved.files, S, lock)
<1>1. saved.files \in Seq(Entry)
  BY DEF CatalogueInv, Good, Files
<1>2. /\ DOMAIN r = DOMAIN saved.files
      /\ \A k \in DOMAIN saved.files :
           r[k] = IF saved.files[k].name \in S
                    THEN [saved.files[k] EXCEPT !.locked = lock]
                    ELSE saved.files[k]
  BY DEF Relock
<1>3. \A f \in Entry :
        LET g == [f EXCEPT !.locked = lock]
        IN  g.name = f.name /\ g.start = f.start /\ g.len = f.len
  BY DEF Entry
<1>4. \A k \in DOMAIN saved.files :
        /\ r[k].name = saved.files[k].name
        /\ r[k].start = saved.files[k].start
        /\ r[k].len = saved.files[k].len
  <2> SUFFICES ASSUME NEW k \in DOMAIN saved.files
               PROVE  /\ r[k].name = saved.files[k].name
                      /\ r[k].start = saved.files[k].start
                      /\ r[k].len = saved.files[k].len
    OBVIOUS
  <2>1. saved.files[k] \in Entry
    BY <1>1
  <2>. QED
    BY <2>1, <1>2, <1>3
<1> HIDE DEF r
<1>5. HoldsIn(r, c)
  BY <1>2, <1>4 DEF Holds, HoldsIn, Files
<1>. QED
  BY <1>5 DEF r

LEMMA HoldsDelete ==
  ASSUME CatalogueInv, NEW k \in DOMAIN saved.files,
         ~IsOpen(saved.files[k].name), NEW c \in DOMAIN channels, Holds(c)
  PROVE  HoldsIn(RemoveAt(saved.files, k), c)
<1>1. saved.files \in Seq(Entry) /\ saved.files[k].name # channels[c].name
  BY DEF CatalogueInv, Good, Files, IsOpen
<1>. QED
  BY <1>1, HoldsRemove DEF Holds, Files

LEMMA HoldsRename ==
  ASSUME CatalogueInv, NEW k \in DOMAIN saved.files, NEW b,
         ~IsOpen(saved.files[k].name), NEW c \in DOMAIN channels, Holds(c)
  PROVE  HoldsIn([saved.files EXCEPT ![k].name = b], c)
<1>1. saved.files[k].name # channels[c].name
  BY DEF IsOpen
<1>2. PICK i \in DOMAIN saved.files :
        /\ saved.files[i].name = channels[c].name
        /\ saved.files[i].start = channels[c].start
        /\ saved.files[i].len = channels[c].len
  BY DEF Holds, HoldsIn, Files
<1>3. i # k
  BY <1>1, <1>2
<1>4. /\ DOMAIN [saved.files EXCEPT ![k].name = b] = DOMAIN saved.files
      /\ [saved.files EXCEPT ![k].name = b][i] = saved.files[i]
  BY <1>3
<1>. QED
  BY <1>2, <1>4 DEF HoldsIn

LEMMA HoldsCreate ==
  ASSUME Fits, CatalogueInv,
         NEW files, Good(files), NEW n \in Names, Found(files, {n}) = {},
         NEW len \in Lengths, NEW d \in Contents, CreateFile(files, n, len, d),
         NEW c, Holds(c), HoldsIn(files, c)
  PROVE  Holds(c)'
<1>1. CASE Refuse("Catalogue full") \/ Refuse("Disk full")
  BY <1>1, HoldsStays DEF Refuse
<1>2. CASE /\ Len(files) < MaxFiles
           /\ \E y \in Slots(files, len) :
                /\ \A z \in Slots(files, len) : z <= y
                /\ LET new == [name |-> n, start |-> GapStart(files, y) % Field,
                               len |-> len, locked |-> FALSE]
                   IN  PutCat(Bump(saved, InsertAt(files, y + 1, new)))
           /\ UNCHANGED channels
  <2>1. PICK y \in Slots(files, len) :
          /\ \A z \in Slots(files, len) : z <= y
          /\ LET new == [name |-> n, start |-> GapStart(files, y) % Field,
                         len |-> len, locked |-> FALSE]
             IN  PutCat(Bump(saved, InsertAt(files, y + 1, new)))
    BY <1>2
  <2> DEFINE new == [name |-> n, start |-> GapStart(files, y) % Field,
                     len |-> len, locked |-> FALSE]
  <2>2. new \in Entry
    BY <1>2, <2>1, GoodInsert
  <2>3. PutCat(Bump(saved, InsertAt(files, y + 1, new)))
    BY <2>1
  <2> HIDE DEF new
  <2>4. y + 1 \in 1 .. Len(files) + 1
    <3>1. y \in 0 .. Len(files) /\ Len(files) \in Nat
      BY <2>1, SlotFacts DEF Good
    <3>. QED
      BY <3>1
  <2>5. HoldsIn(InsertAt(files, y + 1, new), c)
    BY <2>2, <2>4, HoldsInsert DEF Good
  <2>. QED
    BY <1>2, <2>3, <2>5, HoldsPut
<1>. QED
  BY <1>1, <1>2, Zenon DEF CreateFile

LEMMA OpenFilesStep ==
  ASSUME Fits, CatalogueInv, [Next]_vars,
         NEW c \in DOMAIN channels \cap DOMAIN channels',
         Holds(c), job.op \notin {"compact", "move"}
  PROVE  Holds(c)'
<1>0. c \in DOMAIN channels /\ c \in DOMAIN channels'
  OBVIOUS
<1>1. CASE UNCHANGED vars
  BY <1>1, HoldsStays DEF vars
<1>2. CASE job = Idle /\ Command /\ UNCHANGED <<writes, breaks>>
  <2>0. ASSUME NEW message, Refuse(message)
        PROVE  Holds(c)'
    BY <2>0, HoldsStays DEF Refuse
  <2>1. CASE \E n \in Names, len \in Lengths, d \in Contents : Save(n, len, d)
    <3>1. PICK n \in Names, len \in Lengths, d \in Contents : Save(n, len, d)
      BY <2>1
    <3>2. CASE Found(saved.files, {n}) = {} /\ CreateFile(saved.files, n, len, d)
      BY <3>2, HoldsCreate DEF CatalogueInv, Holds, Files
    <3>3. CASE \E k \in Found(saved.files, {n}) :
                 /\ ~IsOpen(n)
                 /\ CreateFile(RemoveAt(saved.files, k), n, len, d)
      <4>1. PICK k \in DOMAIN saved.files :
              /\ saved.files[k].name = n
              /\ ~IsOpen(n)
              /\ CreateFile(RemoveAt(saved.files, k), n, len, d)
        BY <3>3 DEF Found
      <4>2. /\ Good(RemoveAt(saved.files, k))
            /\ Found(RemoveAt(saved.files, k), {n}) = {}
        BY <4>1, RemovedIsGone, GoodRemove DEF CatalogueInv, Files
      <4>3. HoldsIn(RemoveAt(saved.files, k), c)
        BY <4>1, <1>0, HoldsDelete
      <4>. QED
        BY <4>1, <4>2, <4>3, HoldsCreate
    <3>. QED
      BY <3>1, <3>2, <3>3, <2>0 DEF Save
  <2>2. CASE \E n \in Names : Delete(n)
    <3>1. PICK n \in Names : Delete(n)
      BY <2>2
    <3>2. CASE \E k \in Found(saved.files, {n}) :
                 Available(k) /\ Commit(RemoveAt(saved.files, k))
      <4>1. PICK k \in DOMAIN saved.files :
              Available(k) /\ Commit(RemoveAt(saved.files, k))
        BY <3>2 DEF Found
      <4>2. HoldsIn(RemoveAt(saved.files, k), c)
        BY <4>1, <1>0, HoldsDelete DEF Available
      <4>. QED
        BY <4>1, <4>2, HoldsPut DEF Commit
    <3>. QED
      BY <3>1, <3>2, <2>0, Zenon DEF Delete, Unavailable
  <2>3. CASE \E a, b \in Names : Rename(a, b)
    <3>1. PICK a \in Names, b \in Names : Rename(a, b)
      BY <2>3
    <3>2. CASE \E k \in Found(saved.files, {a}) :
                 Available(k) /\ Commit([saved.files EXCEPT ![k].name = b])
      <4>1. PICK k \in DOMAIN saved.files :
              Available(k) /\ Commit([saved.files EXCEPT ![k].name = b])
        BY <3>2 DEF Found
      <4>2. HoldsIn([saved.files EXCEPT ![k].name = b], c)
        BY <4>1, <1>0, HoldsRename DEF Available
      <4>. QED
        BY <4>1, <4>2, HoldsPut DEF Commit
    <3>. QED
      BY <3>1, <3>2, <2>0, Zenon DEF Rename, Unavailable
  <2>4. CASE \E S \in SUBSET Names, lock \in BOOLEAN : Access(S, lock)
    <3>1. PICK S \in SUBSET Names, lock \in BOOLEAN : Access(S, lock)
      BY <2>4
    <3>2. CASE Commit(Relock(saved.files, S, lock))
      BY <3>2, HoldsRelock, HoldsPut DEF Commit
    <3>. QED
      BY <3>1, <3>2, <2>0, Zenon DEF Access
  <2>5. CASE \E n \in Names, lock \in BOOLEAN : WriteInfo(n, lock)
    <3>1. PICK n \in Names, lock \in BOOLEAN : WriteInfo(n, lock)
      BY <2>5
    <3>2. CASE Commit(Relock(saved.files, {n}, lock))
      BY <3>2, HoldsRelock, HoldsPut DEF Commit
    <3>. QED
      BY <3>1, <3>2, <2>0, Zenon DEF WriteInfo
  <2>6. CASE Relabel
    BY <2>6, HoldsPut DEF Relabel, Commit, Holds, Files
  <2>7. CASE \E S \in SUBSET Names : StartWipe(S) \/ StartDestroy(S)
    <3>1. PICK S \in SUBSET Names, kind \in {"wipe", "destroy"} : Scan(kind, S)
      BY <2>7 DEF StartWipe, StartDestroy
    <3>2. CASE UNCHANGED <<saved, channels>>
      BY <3>2, HoldsStays
    <3>. QED
      BY <3>1, <3>2, <2>0, Zenon DEF Scan
  <2>8. CASE StartCompact
    BY <2>8, HoldsStays DEF StartCompact
  <2>9. CASE \E n \in Names : OpenIn(n)
    <3>1. PICK n \in Names : OpenIn(n)
      BY <2>9
    <3>2. CASE /\ \E k \in Found(saved.files, {n}), x \in Channels \ DOMAIN channels :
                    channels' = [y \in DOMAIN channels \cup {x} |->
                                   IF y = x THEN saved.files[k] ELSE channels[y]]
               /\ UNCHANGED saved
      <4>1. channels'[c] = channels[c]
        BY <3>2, <1>0
      <4>. QED
        BY <3>2, <4>1, HoldsStays
    <3>. QED
      BY <3>1, <3>2, <2>0, Zenon DEF OpenIn
  <2>10. CASE \E x \in DOMAIN channels : Close(x)
    <3>1. PICK x \in DOMAIN channels : Close(x)
      BY <2>10
    <3>2. channels'[c] = channels[c] /\ saved' = saved
      BY <3>1, <1>0 DEF Close
    <3>. QED
      BY <3>2, HoldsStays
  <2>. QED
    BY <1>2, <2>1, <2>2, <2>3, <2>4, <2>5, <2>6, <2>7, <2>8, <2>9, <2>10 DEF Command
<1>3. CASE JobStep
  <2>0. ASSUME NEW why, Abort(why)
        PROVE  Holds(c)'
    BY <2>0, HoldsStays DEF Abort
  <2>1. CASE WriteData
    <3>1. CASE UNCHANGED <<saved, channels>>
      BY <3>1, HoldsStays
    <3>. QED
      BY <2>0, <2>1, <3>1, Zenon DEF WriteData
  <2>2. CASE WipeStep
    <3>1. CASE \E k \in DOMAIN job.ram.files : SkipEntry(k)
      BY <3>1, HoldsStays DEF SkipEntry
    <3>2. CASE \E k \in DOMAIN job.ram.files : WipeFile(k)
      <4>1. PICK k \in DOMAIN job.ram.files : WipeFile(k)
        BY <3>2
      <4>2. CASE /\ ~IsOpen(saved.files[k].name)
                 /\ PutCat(Bump(saved, RemoveAt(saved.files, k)))
                 /\ UNCHANGED channels
        <5>1. k \in DOMAIN saved.files
          <6>1. /\ Len(job.ram.files) <= Len(saved.files)
                /\ job.ram.files \in Seq(Entry)
                /\ saved.files \in Seq(Entry)
            BY <2>2, JobKinds
            DEF WipeStep, CatalogueInv, TypeOK, JobSound, Files, Catalogues
          <6>. QED
            BY <6>1
        <5>2. HoldsIn(RemoveAt(saved.files, k), c)
          BY <4>2, <5>1, <1>0, HoldsDelete
        <5>. QED
          BY <4>2, <5>2, HoldsPut
      <4>. QED
        BY <4>1, <4>2, <2>0, Zenon DEF WipeFile
    <3>. QED
      BY <2>0, <2>2, <3>1, <3>2 DEF WipeStep
  <2>3. CASE DestroyStep
    <3>1. CASE \E k \in DOMAIN job.ram.files : SkipEntry(k)
      BY <3>1, HoldsStays DEF SkipEntry
    <3>2. CASE \E k \in DOMAIN job.ram.files : DestroyFile(k)
      <4>1. CASE UNCHANGED <<saved, channels>>
        BY <4>1, HoldsStays
      <4>. QED
        BY <3>2, <4>1, <2>0 DEF DestroyFile
    <3>3. CASE Commit(job.ram.files)
      <4>1. HoldsIn(job.ram.files, c)
        BY <2>3, <1>0 DEF DestroyStep, CatalogueInv, JobSound
      <4>. QED
        BY <3>3, <4>1, HoldsPut DEF Commit
    <3>. QED
      BY <2>3, <3>1, <3>2, <3>3 DEF DestroyStep
  <2>. QED
    BY <1>3, <2>1, <2>2, <2>3, Zenon
    DEF JobStep, CompactDone, CompactKeep, CompactLift, MoveChunk
<1>4. CASE Break
  <2>1. channels' = channels \/ channels' = <<>>
    BY <1>4 DEF Break
  <2>2. channels' # <<>>
    BY <1>0
  <2>. QED
    BY <1>4, <2>1, <2>2, HoldsStays DEF Break
<1>. QED
  BY <1>1, <1>2, <1>3, <1>4 DEF Next

(* No command but COMPACT moves, shortens or removes a file that a channel  *)
(* reads, or puts another under its name (983c-9859, 9ae3-9ae5). *)
THEOREM OpenFilesStay ==
  ASSUME Fits
  PROVE  Spec => OnlyCompactMovesOpenFiles
<1>1. CatalogueInv /\ [Next]_vars =>
        [ \A c \in DOMAIN channels \cap DOMAIN channels' :
            Holds(c) /\ job.op \notin {"compact", "move"} => Holds(c)' ]_vars
  BY OpenFilesStep
<1>. QED
  BY <1>1, InvariantHolds, PTL DEF Spec, OnlyCompactMovesOpenFiles
=============================================================================
