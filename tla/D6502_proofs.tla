---------------------------- MODULE D6502_proofs ----------------------------
(***************************************************************************)
(* The disassembler's output, for an image of any size, any marking of its  *)
(* regions, any names as loadSymbols gives them and any address: unless     *)
(* something in it cannot be expressed, it assembles to the image again.    *)
(***************************************************************************)
EXTENDS D6502, SequenceTheorems, TLAPS

LEMMA OneMore ==
  ASSUME NEW T, NEW s \in Seq(T), NEW v \in T
  PROVE  /\ s \o <<v>> \in Seq(T)
         /\ Len(s \o <<v>>) = Len(s) + 1
         /\ Append(s, v) = s \o <<v>>
BY AppendProperties

(* What is read are bytes.                                                  *)
LEMMA ContentFact ==
  ASSUME NEW i, NEW bytes \in SUBSET Byte
  PROVE  Content(i, bytes) \subseteq Byte
<1>1. {0} \subseteq Byte
  BY DEF Byte
<1>. QED  BY <1>1 DEF Content

LEMMA OperandFact ==
  /\ \A mode : OperandLength(mode) \in 0 .. 2
  /\ \A o : \A bytes \in Operands(o) :
       bytes \in Seq(Byte) /\ Len(bytes) = OperandLength(ModeOf[o])
<1>1. \A mode : OperandLength(mode) \in 0 .. 2
  BY DEF OperandLength
<1>2. ASSUME NEW o, NEW bytes \in Operands(o)
      PROVE  bytes \in Seq(Byte) /\ Len(bytes) = OperandLength(ModeOf[o])
  <2>1. OperandLength(ModeOf[o]) \in Nat
    BY <1>1
  <2>3. OperandBytes \cup {0} \subseteq Byte
    BY ByteAssumption DEF Byte
  <2>2. bytes \in [1 .. OperandLength(ModeOf[o]) -> Byte]
    BY <2>3 DEF Operands
  <2>. QED  BY <2>1, <2>2
<1>. QED  BY <1>1, <1>2

LEMMA ConsumeType ==
  ASSUME TypeOK, NEW bytes \in Seq(Byte), getByte(bytes)
  PROVE  index' \in Nat /\ image' \in Seq(Byte) /\ Len(image') = index'
BY ConcatProperties DEF TypeOK, getByte

LEMMA OneByte ==
  ASSUME TypeOK, NEW b \in Byte, getByte(<<b>>)
  PROVE  /\ index' = index + 1 /\ image' = image \o <<b>>
         /\ index' \in Nat /\ image' \in Seq(Byte) /\ Len(image') = index'
<1>1. <<b>> \in Seq(Byte) /\ Len(<<b>>) = 1
  OBVIOUS
<1>2. index' = index + 1 /\ image' = image \o <<b>>
  BY <1>1 DEF getByte
<1>. QED  BY <1>1, <1>2, ConsumeType

LEMMA OpcodeAndOperand ==
  ASSUME index \in Nat, index < Size, NEW o \in Content(index, OpcodeBytes[index]),
         NEW bytes \in Operands(o)
  PROVE  /\ o \in Byte /\ bytes \in Seq(Byte) /\ Len(bytes) = OperandLength(ModeOf[o])
         /\ <<o>> \o bytes \in Seq(Byte) /\ Len(<<o>> \o bytes) = 1 + Len(bytes)
         /\ Len(bytes) \in 0 .. 2
<1>1. o \in Byte
  <2>1. index \in 0 .. Size - 1
    BY ImageAssumption
  <2>2. OpcodeBytes[index] \in SUBSET Byte
    BY <2>1, ByteAssumption
  <2>. QED  BY <2>2, ContentFact
<1>2. bytes \in Seq(Byte) /\ Len(bytes) = OperandLength(ModeOf[o])
  BY OperandFact
<1>3. <<o>> \in Seq(Byte) /\ Len(<<o>>) = 1
  BY <1>1
<1>4. <<o>> \o bytes \in Seq(Byte) /\ Len(<<o>> \o bytes) = 1 + Len(bytes)
  BY <1>2, <1>3, ConcatProperties
<1>. QED  BY <1>1, <1>2, <1>4, OperandFact

LEMMA DataFact ==
  ASSUME NEW b \in Content(index, DataBytes),
         StartByte(b) \/ MoreBytes(b) \/ StartText(b) \/ MoreText(b)
  PROVE  b \in Byte /\ getByte(<<b>>)
<1>1. b \in Byte
  BY ByteAssumption, ContentFact
<1>. QED  BY <1>1, Zenon DEF StartByte, MoreBytes, StartText, MoreText

LEMMA TypeInit == Init => TypeOK
<1>1. <<>> \in Seq(Byte) /\ Len(<<>>) = 0
  OBVIOUS
<1>2. Init => image \in Seq(Byte) /\ Len(image) = index /\ index \in Nat
  BY <1>1 DEF Init
<1>3. Init => /\ map \in Maps /\ symbols \in Symbols /\ build \in Builds
              /\ fileLen \in FileLengths /\ overhang \in Overhangs
              /\ pc \in {"line", "byte", "text", "done", "failed"} /\ inQuotes \in BOOLEAN
  BY DEF Init
<1>. QED  BY <1>2, <1>3 DEF TypeOK

LEMMA TypeStep == TypeOK /\ [Next]_vars => TypeOK'
<1> SUFFICES ASSUME TypeOK, [Next]_vars PROVE TypeOK'
  OBVIOUS
<1>1. ASSUME NEW b \in Content(index, DataBytes),
             StartByte(b) \/ MoreBytes(b) \/ StartText(b) \/ MoreText(b)
      PROVE  TypeOK'
  <2>2. index' \in Nat /\ image' \in Seq(Byte) /\ Len(image') = index'
    BY <1>1, DataFact, OneByte
  <2>3. Printable(b) \in BOOLEAN
    BY DEF Printable
  <2>. QED  BY <1>1, <2>2, <2>3, Zenon
            DEF TypeOK, setup, StartByte, MoreBytes, StartText, MoreText
<1>2. CASE EndBytes \/ EndText
  BY <1>2 DEF TypeOK, setup, EndBytes, EndText
<1>3. ASSUME pc = "line" /\ index < Size, NEW o \in Content(index, OpcodeBytes[index]),
             NEW bytes \in Operands(o), Code(o, bytes)
      PROVE  TypeOK'
  <2>1. <<o>> \o bytes \in Seq(Byte)
    BY <1>3, OpcodeAndOperand DEF TypeOK
  <2>2. index' \in Nat /\ image' \in Seq(Byte) /\ Len(image') = index'
    BY <1>3, <2>1, ConsumeType DEF Code
  <2>. QED  BY <1>3, <2>2 DEF TypeOK, setup, Code
<1>4. CASE Finish
  BY <1>4 DEF TypeOK, setup, Finish
<1>5. CASE UNCHANGED vars
  BY <1>5 DEF TypeOK, setup, vars
<1>. QED  BY <1>1, <1>2, <1>3, <1>4, <1>5 DEF Next, d6502

(* The variables keep their types, and exactly as many bytes are kept as    *)
(* were counted (getByte, main.c:673).                                      *)
THEOREM TypeCorrect == Spec => []TypeOK
<1>. QED  BY TypeInit, TypeStep, PTL DEF Spec
-----------------------------------------------------------------------------
LEMMA OverrunStep == TypeOK /\ NoOverrun /\ [Next]_vars => NoOverrun'
<1> SUFFICES ASSUME TypeOK, NoOverrun, [Next]_vars PROVE NoOverrun'
  OBVIOUS
<1>0. /\ index \in Nat /\ Size \in Nat /\ overhang \in Nat
      /\ index <= Size + overhang /\ map \in Maps
  BY ImageAssumption DEF TypeOK, NoOverrun
<1>6. UNCHANGED overhang
  BY Zenon DEF Next, d6502, StartByte, MoreBytes, StartText, MoreText, EndBytes,
               EndText, Code, Finish, vars, setup
<1>1. ASSUME NEW b \in Content(index, DataBytes),
             StartByte(b) \/ MoreBytes(b) \/ StartText(b) \/ MoreText(b)
      PROVE  NoOverrun'
  <2>1. index' = index + 1
    BY <1>1, DataFact, OneByte
  <2>2. index < Size + overhang
    <3>1. index < Size \/ MapAt(index) \in {"byte", "text"}
      BY <1>1, Zenon DEF StartByte, MoreBytes, StartText, MoreText
    <3>2. MapAt(index) \in {"byte", "text"} => index < Size + overhang
      BY <1>0 DEF MapAt
    <3>. QED  BY <1>0, <3>1, <3>2
  <2>. QED  BY <1>0, <1>6, <2>1, <2>2 DEF NoOverrun
<1>2. CASE EndBytes \/ EndText
  BY <1>0, <1>2, <1>6 DEF EndBytes, EndText, NoOverrun
<1>3. ASSUME pc = "line" /\ index < Size, NEW o \in Content(index, OpcodeBytes[index]),
             NEW bytes \in Operands(o), Code(o, bytes)
      PROVE  NoOverrun'
  <2>1. map[index] = "code" /\ index \in DOMAIN map
    BY <1>0, <1>3, TableAssumption DEF Code
  <2>2. index <= Size - 3
    BY <1>0, <1>3, <2>1, LastRegionAssumption
  <2>3. Len(<<o>> \o bytes) = 1 + Len(bytes) /\ Len(bytes) \in 0 .. 2
    BY <1>0, <1>3, OpcodeAndOperand
  <2>4. PICK n \in 0 .. 2 : index' = index + 1 + n
    <3>1. index' = index + Len(<<o>> \o bytes)
      BY <1>3 DEF Code, getByte
    <3>2. PICK n \in 0 .. 2 : Len(<<o>> \o bytes) = 1 + n
      BY <2>3, Zenon
    <3>. QED  BY <1>0, <3>1, <3>2
  <2>. QED  BY <1>0, <1>6, <2>2, <2>4 DEF NoOverrun
<1>4. CASE Finish
  BY <1>0, <1>4, <1>6 DEF Finish, NoOverrun
<1>5. CASE UNCHANGED vars
  BY <1>0, <1>5, <1>6 DEF vars, NoOverrun
<1>. QED  BY <1>1, <1>2, <1>3, <1>4, <1>5 DEF Next, d6502

(* No byte is read behind the last one that is marked, however many bytes   *)
(* behind the map continue its last region (main.c:803, 823).               *)
THEOREM NeverOverruns == Spec => []NoOverrun
<1>1. Init => NoOverrun
  BY ImageAssumption DEF Init, NoOverrun
<1>2. TypeOK /\ NoOverrun /\ [Next]_vars => NoOverrun'
  BY OverrunStep
<1>. QED  BY <1>1, <1>2, TypeCorrect, PTL DEF Spec
-----------------------------------------------------------------------------
(* An item of the output. The anonymous labels are counted in it.           *)
Tag == (Words \cup {"+", "-"}) \X Nat
Item == [part : {"byte", "short", "low", "high", "near"}, of : Byte \cup Tag]

(* The assembler's record, whatever it has been given.                      *)
Assembler(a) ==
  /\ a = [at |-> a.at, out |-> a.out, defs |-> a.defs,
          ahead |-> a.ahead, behind |-> a.behind]
  /\ a.out \in Seq(Item) /\ a.ahead \in Nat /\ a.behind \in Nat

(* A token takes the assembler from a to b without touching the labels.     *)
Becomes(a, b, at, out) ==
  /\ Assembler(b) /\ b.at = at /\ b.out = out
  /\ b.defs = a.defs /\ b.ahead = a.ahead /\ b.behind = a.behind

LEMMA NumberFact == ASSUME NEW v \in Byte PROVE Number(v) \in Item
BY Zenon DEF Number, Item

(* What the tokens do where they are in place.                              *)
LEMMA DirectiveFact ==
  ASSUME NEW a, Assembler(a), a.at \in {"start", "labelled"}
  PROVE  Becomes(a, Directive(a), "wanted", a.out)
BY DEF Directive, Becomes, Assembler

LEMMA CommaFact ==
  ASSUME NEW a, Assembler(a), a.at = "value"
  PROVE  Becomes(a, Comma(a), "wanted", a.out)
BY DEF Comma, Becomes, Assembler

LEMMA EmitFact ==
  ASSUME NEW a, Assembler(a), NEW items \in Seq(Item)
  PROVE  Becomes(a, Emit(a, items), "value", a.out \o items)
<1>1. a.out \o items \in Seq(Item)
  BY ConcatProperties DEF Assembler
<1>2. Emit(a, items) = [a EXCEPT !.at = "value", !.out = a.out \o items]
  BY DEF Emit
<1>. DEFINE out == a.out \o items
<1>. HIDE DEF Item, out
<1>3. Emit(a, items) = [at |-> "value", out |-> out, defs |-> a.defs,
                        ahead |-> a.ahead, behind |-> a.behind]
  BY <1>2 DEF Assembler, out
<1>. QED  BY <1>1, <1>3 DEF Becomes, Assembler, out

LEMMA HexFact ==
  ASSUME NEW a, Assembler(a), a.at = "wanted", NEW v \in Byte
  PROVE  Becomes(a, Hex(a, v), "value", a.out \o <<Number(v)>>)
<1>1. <<Number(v)>> \in Seq(Item)
  BY NumberFact
<1>. QED  BY <1>1, EmitFact DEF Hex

LEMMA NewLineFact ==
  ASSUME NEW a, Assembler(a), a.at \in {"start", "labelled", "value"}
  PROVE  Becomes(a, NewLine(a), "start", a.out)
BY DEF NewLine, Becomes, Assembler

LEMMA OpenFact ==
  ASSUME NEW a, Assembler(a), a.at = "wanted"
  PROVE  Becomes(a, Quote(a), "string", a.out)
BY DEF Quote, Becomes, Assembler

LEMMA CloseFact ==
  ASSUME NEW a, Assembler(a), a.at = "string"
  PROVE  Becomes(a, Quote(a), "value", a.out)
BY DEF Quote, Becomes, Assembler

LEMMA CharFact ==
  ASSUME NEW a, Assembler(a), a.at = "string", NEW v \in Byte, v # QuoteMark
  PROVE  Becomes(a, Char(a, v), "string", a.out \o <<Number(v)>>)
<1>1. /\ Append(a.out, Number(v)) = a.out \o <<Number(v)>>
      /\ a.out \o <<Number(v)>> \in Seq(Item)
  BY NumberFact, OneMore DEF Assembler
<1>2. Char(a, v) = [a EXCEPT !.out = a.out \o <<Number(v)>>]
  BY <1>1 DEF Char
<1>. HIDE DEF Item
<1>. QED  BY <1>1, <1>2 DEF Becomes, Assembler
-----------------------------------------------------------------------------
(* The value v that the name n will have when everything has been read, for *)
(* a table S of names and when the labels below the address c are known.    *)
Known(a, n, v) == n \in DOMAIN a.defs /\ a.defs[n] = v

Coming(S, a, c, n, v) ==
  /\ n = <<"+", a.ahead + 1>> /\ c <= v
  /\ \A s \in DOMAIN S : S[s] = Forward /\ c <= s => v <= s

Means(S, a, c, n, v) ==
  /\ v \in DOMAIN S /\ S[v] = Spelt(n)
  /\ IsAnonymous(n) => Known(a, n, v) \/ Coming(S, a, c, n, v)

(* The labels are where they belong, and the last "-" is the nearest.       *)
LabelsFit(S, a, c) ==
  /\ \A n \in DOMAIN a.defs : a.defs[n] \in DOMAIN S /\ S[a.defs[n]] = Spelt(n)
  /\ \A k \in Nat : <<"+", k>> \in DOMAIN a.defs => k <= a.ahead
  /\ \A k \in Nat : <<"-", k>> \in DOMAIN a.defs => k <= a.behind
  /\ \A s \in DOMAIN S :
       (Org <= s /\ s < c) \/ (~InRom(s) /\ IsSymbol(S[s])) =>
         \E n \in DOMAIN a.defs : a.defs[n] = s
  /\ \A s \in DOMAIN S :
       S[s] = Backward /\ Org <= s /\ s < c =>
         /\ <<"-", a.behind>> \in DOMAIN a.defs
         /\ s <= a.defs[<<"-", a.behind>>] /\ a.defs[<<"-", a.behind>>] < c

LEMMA AddressFact ==
  ASSUME NEW S \in Symbols, NEW s \in DOMAIN S
  PROVE  s \in Int /\ s \in Nat /\ S[s] \in Name
<1>1. s \in Address /\ S[s] \in Name
  BY TableAssumption
<1>2. Address \subseteq Nat
  BY DEF Address
<1>. QED  BY <1>1, <1>2

(* The image has what the ROM's names stand for.                            *)
LEMMA RomFact ==
  ASSUME NEW S \in Symbols, NEW s \in DOMAIN S, InRom(s)
  PROVE  Org <= s /\ s < Org + Size
<1>1. s \in Org .. Org + Size - 1
  BY SymbolAssumption
<1>2. Org \in Int /\ Size \in Int /\ s \in Int
  BY AddressFact, ImageAssumption
<1>. QED  BY <1>1, <1>2

(* A name is a symbol's, a sum's or an anonymous one.                       *)
LEMMA NameFact ==
  ASSUME NEW n \in Name
  PROVE  /\ IsAnonymous(n) => n = Forward \/ n = Backward
         /\ ~IsAnonymous(n) => n = <<n[1], n[2]>> /\ n[1] \in Words /\ n[2] \in Nat
BY WordAssumption DEF Name, IsAnonymous, Forward, Backward

LEMMA SpeltFact ==
  /\ Spelt(Forward) = Forward /\ Spelt(Backward) = Backward
  /\ \A k : Spelt(<<"+", k>>) = Forward /\ Spelt(<<"-", k>>) = Backward
  /\ \A k : IsAnonymous(<<"+", k>>) /\ IsAnonymous(<<"-", k>>)
  /\ \A n : ~IsAnonymous(n) => Spelt(n) = n
  /\ IsAnonymous(Forward) /\ IsAnonymous(Backward) /\ Forward # Backward
  /\ \A n : IsAnonymous(n) => IsAnonymous(Spelt(n)) /\ Spelt(n) \in {Forward, Backward}
BY DEF Spelt, IsAnonymous, Forward, Backward

(* A definition of a name that is not anonymous has the one value it can    *)
(* have.                                                                    *)
LEMMA UniqueFact ==
  ASSUME NEW S \in Symbols, NEW a, NEW c, LabelsFit(S, a, c),
         NEW n \in DOMAIN a.defs, NEW s \in DOMAIN S, S[s] = n, IsSymbol(n)
  PROVE  a.defs[n] = s
<1>1. a.defs[n] \in DOMAIN S /\ S[a.defs[n]] = n
  BY SpeltFact DEF LabelsFit, IsSymbol
<1>. QED  BY <1>1, SymbolAssumption

(* Where a sum's symbol is.                                                 *)
LEMMA StemFact ==
  ASSUME NEW S \in Symbols, NEW v \in DOMAIN S, ~IsAnonymous(S[v])
  PROVE  LET n == S[v]
         IN  /\ v - n[2] \in DOMAIN S /\ S[v - n[2]] = Stem(n) /\ IsSymbol(Stem(n))
             /\ n[2] \in Nat /\ (n[2] # 0 => ~InRom(v) /\ ~InRom(v - n[2]))
<1>. DEFINE n == S[v]
<1>1. v \in Nat /\ n = <<n[1], n[2]>> /\ n[1] \in Words /\ n[2] \in Nat
  BY AddressFact, NameFact
<1>2. Stem(n) = <<n[1], 0>> /\ IsSymbol(Stem(n))
  BY <1>1 DEF Stem, IsSymbol, IsAnonymous
<1>3. CASE n[2] = 0
  BY <1>1, <1>2, <1>3
<1>4. CASE n[2] # 0
  <2>1. ~IsSymbol(n)
    BY <1>4 DEF IsSymbol
  <2>2. v < 32768 /\ v - n[2] \in DOMAIN S /\ S[v - n[2]] = <<n[1], 0>>
    BY <2>1, SymbolAssumption
  <2>3. ~InRom(v) /\ ~InRom(v - n[2])
    BY <1>1, <2>2 DEF InRom
  <2>. QED  BY <1>1, <1>2, <2>2, <2>3
<1>. QED  BY <1>3, <1>4

(* A name that is defined has the value that was meant.                     *)
LEMMA ValueFact ==
  ASSUME NEW S \in Symbols, NEW a, NEW c, a.ahead \in Nat, LabelsFit(S, a, c),
         NEW n, NEW v, Means(S, a, c, n, v), Defined(a, n)
  PROVE  Value(a, n) = v
<1>1. v \in DOMAIN S /\ S[v] = Spelt(n) /\ v \in Int
  BY AddressFact DEF Means
<1>2. CASE IsAnonymous(n)
  <2>1. n \in DOMAIN a.defs
    BY <1>2 DEF Defined, Stem
  <2>2. ~Coming(S, a, c, n, v)
    <3>1. a.ahead + 1 \in Nat /\ ~(a.ahead + 1 <= a.ahead)
      OBVIOUS
    <3>. QED  BY <2>1, <3>1 DEF Coming, LabelsFit
  <2>. QED  BY <1>2, <2>2 DEF Means, Known, Value
<1>3. CASE ~IsAnonymous(n)
  <2>1. S[v] = n
    BY <1>1, <1>3, SpeltFact
  <2>2. /\ v - n[2] \in DOMAIN S /\ S[v - n[2]] = Stem(n)
        /\ IsSymbol(Stem(n)) /\ n[2] \in Nat
    BY <1>1, <1>3, <2>1, StemFact
  <2>3. a.defs[Stem(n)] = v - n[2]
    BY <2>2, UniqueFact DEF Defined
  <2>4. Value(a, n) = v - n[2] + n[2]
    BY <1>3, <2>3 DEF Value, Stem
  <2>. QED  BY <1>1, <2>2, <2>4
<1>. QED  BY <1>2, <1>3

(* It is defined from the start if it is outside the ROM, and in the end in *)
(* any case.                                                                *)
LEMMA DefinedFact ==
  ASSUME NEW S \in Symbols, NEW a, NEW c \in Int, LabelsFit(S, a, c),
         NEW n, NEW v, Means(S, a, c, n, v), ~InRom(v) \/ c >= Org + Size
  PROVE  Defined(a, n)
<1>0. v \in DOMAIN S /\ S[v] = Spelt(n) /\ v \in Int /\ Org \in Int /\ Size \in Int
  BY AddressFact, ImageAssumption DEF Means
<1>1. CASE IsAnonymous(n)
  <2>1. InRom(v)
    BY <1>0, <1>1, SpeltFact, SymbolAssumption
  <2>2. ~Coming(S, a, c, n, v)
    <3>1. v < Org + Size
      BY <1>0, <2>1, RomFact
    <3>. QED  BY <1>0, <2>1, <3>1 DEF Coming
  <2>. QED  BY <1>1, <2>2 DEF Means, Known, Defined, Stem
<1>2. CASE ~IsAnonymous(n)
  <2>1. S[v] = n
    BY <1>0, <1>2, SpeltFact
  <2>. DEFINE s == v - n[2]
  <2>2. /\ s \in DOMAIN S /\ S[s] = Stem(n) /\ IsSymbol(Stem(n))
        /\ n[2] \in Nat /\ (n[2] # 0 => ~InRom(s))
    BY <1>0, <1>2, <2>1, StemFact
  <2>3. (Org <= s /\ s < c) \/ ~InRom(s)
    <3>1. CASE n[2] = 0
      <4>1. s = v
        BY <1>0, <3>1
      <4>2. ~InRom(v) \/ (Org <= v /\ v < c)
        <5>1. InRom(v) => Org <= v /\ v < Org + Size
          BY <1>0, RomFact
        <5>. QED  BY <1>0, <5>1
      <4>. QED  BY <4>1, <4>2
    <3>. QED  BY <2>2, <3>1
  <2>. HIDE DEF s
  <2>4. PICK m \in DOMAIN a.defs : a.defs[m] = s
    BY <2>2, <2>3 DEF LabelsFit
  <2>5. Spelt(m) = Stem(n)
    BY <2>2, <2>4 DEF LabelsFit
  <2>6. m = Stem(n)
    BY <2>2, <2>5, SpeltFact DEF IsSymbol
  <2>. QED  BY <2>4, <2>6 DEF Defined
<1>. QED  BY <1>1, <1>2
-----------------------------------------------------------------------------
(* b is a with one more label at the address c.                             *)
Adds(a, b, n, c) ==
  /\ Assembler(b) /\ b.at = "labelled" /\ b.out = a.out
  /\ b.defs = [m \in DOMAIN a.defs \cup {n} |-> IF m = n THEN c ELSE a.defs[m]]

LEMMA DefineFact ==
  ASSUME NEW a, Assembler(a), NEW n, NEW c, c = Here(a),
         n \in DOMAIN a.defs => a.defs[n] = c
  PROVE  /\ Adds(a, Define(a, n), n, c)
         /\ Define(a, n).ahead = a.ahead /\ Define(a, n).behind = a.behind
<1>. DEFINE defs == [m \in DOMAIN a.defs \cup {n} |-> IF m = n THEN c ELSE a.defs[m]]
<1>1. Define(a, n) = [a EXCEPT !.at = "labelled", !.defs = defs]
  BY DEF Define
<1>. HIDE DEF defs
<1>2. Define(a, n) = [at |-> "labelled", out |-> a.out, defs |-> defs,
                      ahead |-> a.ahead, behind |-> a.behind]
  BY <1>1 DEF Assembler
<1>. QED  BY <1>2 DEF Adds, Assembler, defs

(* A label at c adds the name that is counted for it.                       *)
AddsLabel(S, a, b, n, c) ==
  /\ Adds(a, b, n, c) /\ (n \in DOMAIN a.defs => a.defs[n] = c) /\ Spelt(n) = S[c]
  /\ \/ /\ S[c] = Forward /\ n = <<"+", a.ahead + 1>>
        /\ b.ahead = a.ahead + 1 /\ b.behind = a.behind
     \/ /\ S[c] = Backward /\ n = <<"-", a.behind + 1>>
        /\ b.ahead = a.ahead /\ b.behind = a.behind + 1
     \/ /\ ~IsAnonymous(S[c]) /\ n = S[c]
        /\ b.ahead = a.ahead /\ b.behind = a.behind

LEMMA LabelFact ==
  ASSUME NEW S \in Symbols, NEW a, NEW c, Assembler(a), a.at = "start", c = Here(a),
         LabelsFit(S, a, c), c \in DOMAIN S, IsAnonymous(S[c]) \/ IsSymbol(S[c])
  PROVE  \E n : AddsLabel(S, a, Label(a, S[c]), n, c)
<1>1. CASE S[c] = Forward
  <2>. DEFINE n == <<"+", a.ahead + 1>>
              d == [a EXCEPT !.ahead = a.ahead + 1]
              k == a.ahead + 1
  <2>1. k \in Nat /\ ~(k <= a.ahead)
    BY DEF Assembler
  <2>2. n \notin DOMAIN a.defs
    BY <2>1 DEF LabelsFit
  <2>. HIDE DEF k
  <2>3. d = [at |-> a.at, out |-> a.out, defs |-> a.defs, ahead |-> k, behind |-> a.behind]
    BY DEF Assembler, k
  <2>4. Assembler(d) /\ Here(d) = c
    BY <2>1, <2>3 DEF Assembler, Here
  <2>. HIDE DEF d
  <2>5. Adds(d, Define(d, n), n, c) /\ Define(d, n).ahead = k /\ Define(d, n).behind = a.behind
    <3>1. n \notin DOMAIN d.defs
      BY <2>2, <2>3
    <3>. HIDE DEF n
    <3>. QED  BY <2>3, <2>4, <3>1, DefineFact
  <2>6. Adds(a, Define(d, n), n, c)
    BY <2>3, <2>5 DEF Adds
  <2>7. Label(a, S[c]) = Define(d, n)
    BY <1>1, SpeltFact DEF Label, IsSymbol, d
  <2>. QED  BY <1>1, <2>2, <2>5, <2>6, <2>7, SpeltFact DEF AddsLabel, k
<1>2. CASE S[c] = Backward
  <2>. DEFINE n == <<"-", a.behind + 1>>
              d == [a EXCEPT !.behind = a.behind + 1]
              k == a.behind + 1
  <2>1. k \in Nat /\ ~(k <= a.behind)
    BY DEF Assembler
  <2>2. n \notin DOMAIN a.defs
    BY <2>1 DEF LabelsFit
  <2>. HIDE DEF k
  <2>3. d = [at |-> a.at, out |-> a.out, defs |-> a.defs, ahead |-> a.ahead, behind |-> k]
    BY DEF Assembler, k
  <2>4. Assembler(d) /\ Here(d) = c
    BY <2>1, <2>3 DEF Assembler, Here
  <2>. HIDE DEF d
  <2>5. Adds(d, Define(d, n), n, c) /\ Define(d, n).ahead = a.ahead /\ Define(d, n).behind = k
    <3>1. n \notin DOMAIN d.defs
      BY <2>2, <2>3
    <3>. HIDE DEF n
    <3>. QED  BY <2>3, <2>4, <3>1, DefineFact
  <2>6. Adds(a, Define(d, n), n, c)
    BY <2>3, <2>5 DEF Adds
  <2>7. Label(a, S[c]) = Define(d, n)
    BY <1>2, SpeltFact DEF Label, IsSymbol, d
  <2>. QED  BY <1>2, <2>2, <2>5, <2>6, <2>7, SpeltFact DEF AddsLabel, k
<1>3. CASE ~IsAnonymous(S[c])
  <2>. DEFINE n == S[c]
  <2>1. n \in DOMAIN a.defs => a.defs[n] = c
    BY <1>3, UniqueFact
  <2>2. Label(a, n) = Define(a, n)
    BY <1>3, SpeltFact DEF Label
  <2>3. Adds(a, Define(a, n), n, c) /\ Define(a, n).ahead = a.ahead
        /\ Define(a, n).behind = a.behind
    <3>. HIDE DEF n
    <3>. QED  BY <2>1, DefineFact
  <2>. QED  BY <1>3, <2>1, <2>2, <2>3, SpeltFact DEF AddsLabel
<1>. QED  BY <1>1, <1>2, <1>3, AddressFact, NameFact

(* What was meant is still meant.                                           *)
Keeps(S, a, c, b, d) == \A n, v : Means(S, a, c, n, v) => Means(S, b, d, n, v)

LEMMA AddsFact ==
  ASSUME NEW S \in Symbols, NEW a, NEW c \in Int, Assembler(a), LabelsFit(S, a, c),
         c \in DOMAIN S, NEW b, NEW n, AddsLabel(S, a, b, n, c)
  PROVE  LabelsFit(S, b, c + 1) /\ Keeps(S, a, c, b, c + 1)
<1>1. /\ DOMAIN b.defs = DOMAIN a.defs \cup {n} /\ b.defs[n] = c
      /\ \A m \in DOMAIN a.defs : b.defs[m] = a.defs[m]
  BY DEF AddsLabel, Adds
<1>2. \A s \in DOMAIN S : s \in Int
  BY AddressFact
<1>0. a.ahead \in Nat /\ a.behind \in Nat /\ Org \in Int
  BY ImageAssumption DEF Assembler
<1>3. \A m \in DOMAIN b.defs : b.defs[m] \in DOMAIN S /\ S[b.defs[m]] = Spelt(m)
  BY <1>1 DEF LabelsFit, AddsLabel
<1>4. \A k \in Nat : <<"+", k>> \in DOMAIN b.defs => k <= b.ahead
  <2> SUFFICES ASSUME NEW k \in Nat, <<"+", k>> \in DOMAIN b.defs PROVE k <= b.ahead
    OBVIOUS
  <2>1. b.ahead \in Nat /\ a.ahead <= b.ahead
    BY <1>0 DEF AddsLabel
  <2>2. CASE <<"+", k>> \in DOMAIN a.defs
    BY <1>0, <2>1, <2>2 DEF LabelsFit
  <2>3. CASE <<"+", k>> = n
    <3>1. S[c] = Forward
      BY <2>3, SpeltFact DEF AddsLabel
    <3>2. <<"+", k>> = <<"+", a.ahead + 1>> /\ b.ahead = a.ahead + 1
      BY <2>3, <3>1, SpeltFact DEF AddsLabel
    <3>. QED  BY <1>0, <3>2
  <2>. QED  BY <1>1, <2>2, <2>3
<1>5. \A k \in Nat : <<"-", k>> \in DOMAIN b.defs => k <= b.behind
  <2> SUFFICES ASSUME NEW k \in Nat, <<"-", k>> \in DOMAIN b.defs PROVE k <= b.behind
    OBVIOUS
  <2>1. b.behind \in Nat /\ a.behind <= b.behind
    BY <1>0 DEF AddsLabel
  <2>2. CASE <<"-", k>> \in DOMAIN a.defs
    BY <1>0, <2>1, <2>2 DEF LabelsFit
  <2>3. CASE <<"-", k>> = n
    <3>1. S[c] = Backward
      BY <2>3, SpeltFact DEF AddsLabel
    <3>2. <<"-", k>> = <<"-", a.behind + 1>> /\ b.behind = a.behind + 1
      BY <2>3, <3>1, SpeltFact DEF AddsLabel
    <3>. QED  BY <1>0, <3>2
  <2>. QED  BY <1>1, <2>2, <2>3
<1>6. ASSUME NEW s \in DOMAIN S, (Org <= s /\ s < c + 1) \/ (~InRom(s) /\ IsSymbol(S[s]))
      PROVE  \E m \in DOMAIN b.defs : b.defs[m] = s
  <2>1. CASE s = c
    BY <1>1, <2>1
  <2>2. CASE s # c
    <3>1. (Org <= s /\ s < c) \/ (~InRom(s) /\ IsSymbol(S[s]))
      BY <1>0, <1>2, <1>6, <2>2
    <3>2. PICK m \in DOMAIN a.defs : a.defs[m] = s
      BY <3>1 DEF LabelsFit
    <3>. QED  BY <1>1, <3>2
  <2>. QED  BY <2>1, <2>2
<1>7. ASSUME NEW s \in DOMAIN S, S[s] = Backward, Org <= s, s < c + 1
      PROVE  /\ <<"-", b.behind>> \in DOMAIN b.defs
             /\ s <= b.defs[<<"-", b.behind>>] /\ b.defs[<<"-", b.behind>>] < c + 1
  <2>1. CASE S[c] = Backward
    <3>1. n = <<"-", b.behind>>
      BY <2>1, SpeltFact DEF AddsLabel
    <3>2. s <= c /\ c < c + 1
      BY <1>2, <1>7
    <3>. QED  BY <1>1, <3>1, <3>2
  <2>2. CASE S[c] # Backward
    <3>1. b.behind = a.behind
      BY <2>2 DEF AddsLabel
    <3>2. s < c
      BY <1>2, <1>7, <2>2
    <3>3. /\ <<"-", a.behind>> \in DOMAIN a.defs
          /\ s <= a.defs[<<"-", a.behind>>] /\ a.defs[<<"-", a.behind>>] < c
      BY <1>7, <3>2 DEF LabelsFit
    <3>4. a.defs[<<"-", a.behind>>] \in Int
      BY <1>2, <3>3 DEF LabelsFit
    <3>5. a.defs[<<"-", a.behind>>] < c + 1
      BY <3>3, <3>4
    <3>. QED  BY <1>1, <3>1, <3>3, <3>5
  <2>. QED  BY <2>1, <2>2
<1>8. LabelsFit(S, b, c + 1)
  BY <1>3, <1>4, <1>5, <1>6, <1>7, Zenon DEF LabelsFit
<1>9. ASSUME NEW m, NEW v, Means(S, a, c, m, v)
      PROVE  Means(S, b, c + 1, m, v)
  <2>0. v \in DOMAIN S /\ S[v] = Spelt(m) /\ v \in Int
    BY <1>2, <1>9 DEF Means
  <2>1. ASSUME Known(a, m, v) PROVE Known(b, m, v)
    BY <1>1, <2>1 DEF Known
  <2>2. ASSUME Coming(S, a, c, m, v)
        PROVE  Known(b, m, v) \/ Coming(S, b, c + 1, m, v)
    <3>1. S[v] = Forward
      BY <2>0, <2>2, SpeltFact DEF Coming
    <3>2. CASE S[c] = Forward
      <4>1. v <= c /\ c <= v
        BY <3>2, <2>2 DEF Coming
      <4>2. v = c
        BY <2>0, <4>1
      <4>3. m = n
        BY <2>2, <3>2, SpeltFact DEF Coming, AddsLabel
      <4>. QED  BY <1>1, <4>2, <4>3 DEF Known
    <3>3. CASE S[c] # Forward
      <4>1. b.ahead = a.ahead
        BY <3>3 DEF AddsLabel
      <4>2. c + 1 <= v
        BY <2>0, <2>2, <3>1, <3>3 DEF Coming
      <4>3. \A s \in DOMAIN S : S[s] = Forward /\ c + 1 <= s => v <= s
        <5>1. \A s \in DOMAIN S : c + 1 <= s => c <= s
          BY <1>2
        <5>. QED  BY <2>2, <5>1 DEF Coming
      <4>. QED  BY <2>2, <4>1, <4>2, <4>3 DEF Coming
    <3>. QED  BY <3>2, <3>3
  <2>. QED  BY <1>9, <2>1, <2>2 DEF Means
<1>. QED  BY <1>8, <1>9 DEF Keeps

(* Where there is no name, nothing is to be done.                           *)
LEMMA SkipFact ==
  ASSUME NEW S \in Symbols, NEW a, NEW c \in Int, NEW d \in Int, c <= d,
         LabelsFit(S, a, c), \A s \in DOMAIN S : ~(c <= s /\ s < d)
  PROVE  LabelsFit(S, a, d) /\ Keeps(S, a, c, a, d)
<1>1. \A s \in DOMAIN S : s \in Int /\ (s < d <=> s < c) /\ (d <= s <=> c <= s)
  BY AddressFact
<1>2. LabelsFit(S, a, d)
  <2>1. ASSUME NEW s \in DOMAIN S, (Org <= s /\ s < d) \/ (~InRom(s) /\ IsSymbol(S[s]))
        PROVE  \E n \in DOMAIN a.defs : a.defs[n] = s
    BY <1>1, <2>1 DEF LabelsFit
  <2>2. ASSUME NEW s \in DOMAIN S, S[s] = Backward, Org <= s, s < d
        PROVE  /\ <<"-", a.behind>> \in DOMAIN a.defs
               /\ s <= a.defs[<<"-", a.behind>>] /\ a.defs[<<"-", a.behind>>] < d
    <3>1. /\ <<"-", a.behind>> \in DOMAIN a.defs
          /\ s <= a.defs[<<"-", a.behind>>] /\ a.defs[<<"-", a.behind>>] < c
      BY <1>1, <2>2 DEF LabelsFit
    <3>2. a.defs[<<"-", a.behind>>] \in DOMAIN S
      BY <3>1 DEF LabelsFit
    <3>. QED  BY <1>1, <3>1, <3>2
  <2>. QED  BY <2>1, <2>2, Zenon DEF LabelsFit
<1>3. ASSUME NEW n, NEW v, Means(S, a, c, n, v) PROVE Means(S, a, d, n, v)
  <2>1. v \in DOMAIN S
    BY <1>3 DEF Means
  <2>2. Coming(S, a, c, n, v) => Coming(S, a, d, n, v)
    BY <1>1, <2>1 DEF Coming
  <2>. QED  BY <1>3, <2>2 DEF Means
<1>. QED  BY <1>2, <1>3 DEF Keeps
-----------------------------------------------------------------------------
(* The item stands for the byte at i, alone or with its neighbour: a branch *)
(* goes some distance from the byte after it.                               *)
ItemFits(S, a, c, item, img, i) ==
  /\ item.part = "byte" => item.of = img[i]
  /\ item.part = "short" => Means(S, a, c, item.of, img[i])
  /\ item.part = "low" =>
       i < Len(img) /\ Means(S, a, c, item.of, img[i] + 256 * img[i + 1])
  /\ item.part = "high" =>
       1 < i /\ Means(S, a, c, item.of, img[i - 1] + 256 * img[i])
  /\ item.part = "near" =>
       \E d \in -128 .. 127 : d % 256 = img[i] /\ Means(S, a, c, item.of, Org + i + d)

LEMMA ByteFits ==
  ASSUME NEW S, NEW a, NEW c, NEW item, NEW img, NEW i,
         item.part = "byte", item.of = img[i]
  PROVE  ItemFits(S, a, c, item, img, i)
BY DEF ItemFits

LEMMA HighFits ==
  ASSUME NEW S, NEW a, NEW c, NEW item, NEW img, NEW i,
         item.part = "high", 1 < i, Means(S, a, c, item.of, img[i - 1] + 256 * img[i])
  PROVE  ItemFits(S, a, c, item, img, i)
BY DEF ItemFits

(* The assembler at a place in a line, with an item for every byte read.    *)
Good(S, a, img, c, at) ==
  /\ Assembler(a) /\ a.at = at
  /\ Len(a.out) = Len(img) /\ LabelsFit(S, a, c)
  /\ \A i \in 1 .. Len(img) : ItemFits(S, a, c, a.out[i], img, i)

LEMMA ItemKept ==
  ASSUME NEW S, NEW a, NEW c, NEW b, NEW d, Keeps(S, a, c, b, d),
         NEW item, NEW img, NEW i, ItemFits(S, a, c, item, img, i)
  PROVE  ItemFits(S, b, d, item, img, i)
<1>1. \A n, v : Means(S, a, c, n, v) => Means(S, b, d, n, v)
  BY Zenon DEF Keeps
<1>2. item.part = "near" =>
        \E k \in -128 .. 127 : k % 256 = img[i] /\ Means(S, b, d, item.of, Org + i + k)
  BY <1>1, Zenon DEF ItemFits
<1>3. item.part = "low" =>
        i < Len(img) /\ Means(S, b, d, item.of, img[i] + 256 * img[i + 1])
  BY <1>1, Zenon DEF ItemFits
<1>4. item.part = "high" =>
        1 < i /\ Means(S, b, d, item.of, img[i - 1] + 256 * img[i])
  BY <1>1, Zenon DEF ItemFits
<1>5. /\ item.part = "byte" => item.of = img[i]
      /\ item.part = "short" => Means(S, b, d, item.of, img[i])
  BY <1>1, Zenon DEF ItemFits
<1>. QED  BY <1>2, <1>3, <1>4, <1>5, Zenon DEF ItemFits

LEMMA SameLabels ==
  ASSUME NEW S, NEW a, NEW b, NEW c,
         b.defs = a.defs, b.ahead = a.ahead, b.behind = a.behind
  PROVE  (LabelsFit(S, a, c) => LabelsFit(S, b, c)) /\ Keeps(S, a, c, b, c)
<1>1. LabelsFit(S, a, c) => LabelsFit(S, b, c)
  BY DEF LabelsFit
<1>2. Keeps(S, a, c, b, c)
  BY DEF Keeps, Means, Known, Coming
<1>. QED  BY <1>1, <1>2

LEMMA TokenFact ==
  ASSUME NEW S, NEW a, NEW img, NEW c, NEW at, Good(S, a, img, c, at),
         NEW b, NEW bt, Becomes(a, b, bt, a.out)
  PROVE  Good(S, b, img, c, bt)
<1>1. b.defs = a.defs /\ b.ahead = a.ahead /\ b.behind = a.behind /\ b.out = a.out
  BY DEF Becomes
<1>2. LabelsFit(S, b, c) /\ Keeps(S, a, c, b, c)
  BY <1>1, SameLabels DEF Good
<1>3. \A i \in 1 .. Len(img) : ItemFits(S, b, c, b.out[i], img, i)
  BY <1>1, <1>2, ItemKept DEF Good
<1>. QED  BY <1>1, <1>2, <1>3 DEF Becomes, Good

(* Items for the bytes that are read.                                       *)
LEMMA EmitKeeps ==
  ASSUME NEW S, NEW a, NEW img \in Seq(Byte), NEW c, NEW at, Good(S, a, img, c, at),
         NEW items \in Seq(Item), NEW bytes \in Seq(Byte), Len(items) = Len(bytes),
         NEW b, NEW bt, Becomes(a, b, bt, a.out \o items),
         \A j \in 1 .. Len(bytes) :
           ItemFits(S, a, c, items[j], img \o bytes, Len(img) + j)
  PROVE  Good(S, b, img \o bytes, c, bt)
<1>. DEFINE new == img \o bytes
<1>1. /\ b.defs = a.defs /\ b.ahead = a.ahead /\ b.behind = a.behind
      /\ b.out = a.out \o items /\ Assembler(b) /\ b.at = bt
  BY DEF Becomes
<1>2. LabelsFit(S, b, c) /\ Keeps(S, a, c, b, c)
  BY <1>1, SameLabels DEF Good
<1>3. a.out \in Seq(Item) /\ Len(a.out) = Len(img)
  BY DEF Good, Assembler
<1>4. /\ Len(new) = Len(img) + Len(bytes) /\ new \in Seq(Byte)
      /\ \A i \in 1 .. Len(img) : new[i] = img[i]
  BY ConcatProperties
<1>. HIDE DEF new, Item, Byte
<1>5. /\ Len(b.out) = Len(img) + Len(items)
      /\ \A i \in 1 .. Len(img) : b.out[i] = a.out[i]
      /\ \A j \in 1 .. Len(items) : b.out[Len(img) + j] = items[j]
  <2>. DEFINE out == a.out
  <2>. HIDE DEF out
  <2>1. /\ Len(out \o items) = Len(out) + Len(items)
        /\ \A i \in 1 .. Len(out) + Len(items) :
             (out \o items)[i] = IF i <= Len(out) THEN out[i] ELSE items[i - Len(out)]
    BY <1>3, ConcatProperties DEF out
  <2>2. Len(out) \in Nat /\ Len(items) \in Nat
    BY <1>3 DEF out
  <2>3. \A i \in 1 .. Len(out) : (out \o items)[i] = out[i]
    BY <2>1, <2>2
  <2>4. \A j \in 1 .. Len(items) : (out \o items)[Len(out) + j] = items[j]
    <3>1. \A j \in 1 .. Len(items) :
            /\ Len(out) + j \in 1 .. Len(out) + Len(items)
            /\ ~(Len(out) + j <= Len(out)) /\ Len(out) + j - Len(out) = j
      BY <2>2
    <3>. QED  BY <2>1, <3>1
  <2>. QED  BY <1>1, <1>3, <2>1, <2>3, <2>4 DEF out
<1>6. Len(img) \in Nat /\ Len(bytes) \in Nat
  OBVIOUS
<1>7. ASSUME NEW i \in 1 .. Len(img)
      PROVE  ItemFits(S, b, c, b.out[i], new, i)
  <2>1. ItemFits(S, b, c, a.out[i], img, i)
    BY <1>2, ItemKept DEF Good
  <2>2. new[i] = img[i]
    BY <1>4
  <2>3. i < Len(img) => i < Len(new) /\ new[i + 1] = img[i + 1]
    <3>1. i < Len(img) => i + 1 \in 1 .. Len(img) /\ i < Len(new)
      BY <1>4, <1>6
    <3>. QED  BY <1>4, <3>1
  <2>4. 1 < i => new[i - 1] = img[i - 1]
    <3>1. 1 < i => i - 1 \in 1 .. Len(img)
      BY <1>6
    <3>. QED  BY <1>4, <3>1
  <2>. DEFINE item == a.out[i]
  <2>. HIDE DEF item, new
  <2>5. item.part = "near" =>
          \E d \in -128 .. 127 : d % 256 = new[i] /\ Means(S, b, c, item.of, Org + i + d)
    BY <2>1, <2>2, Zenon DEF ItemFits, item
  <2>6. item.part = "low" =>
          i < Len(new) /\ Means(S, b, c, item.of, new[i] + 256 * new[i + 1])
    BY <2>1, <2>2, <2>3, Zenon DEF ItemFits, item
  <2>7. item.part = "high" =>
          1 < i /\ Means(S, b, c, item.of, new[i - 1] + 256 * new[i])
    BY <2>1, <2>2, <2>4, Zenon DEF ItemFits, item
  <2>8. /\ item.part = "byte" => item.of = new[i]
        /\ item.part = "short" => Means(S, b, c, item.of, new[i])
    BY <2>1, <2>2, Zenon DEF ItemFits, item
  <2>9. ItemFits(S, b, c, a.out[i], new, i)
    BY <2>5, <2>6, <2>7, <2>8, Zenon DEF ItemFits, item
  <2>. QED  BY <1>5, <2>9
<1>8. ASSUME NEW j \in 1 .. Len(bytes)
      PROVE  ItemFits(S, b, c, b.out[Len(img) + j], new, Len(img) + j)
  <2>1. ItemFits(S, b, c, items[j], new, Len(img) + j)
    BY <1>2, ItemKept DEF new
  <2>. QED  BY <1>5, <2>1
<1>9. \A i \in 1 .. Len(new) : ItemFits(S, b, c, b.out[i], new, i)
  <2> TAKE i \in 1 .. Len(new)
  <2>1. CASE i <= Len(img)
    BY <1>4, <1>6, <1>7, <2>1
  <2>2. CASE ~(i <= Len(img))
    <3>1. i - Len(img) \in 1 .. Len(bytes) /\ Len(img) + (i - Len(img)) = i
      BY <1>4, <1>6, <2>2
    <3>. QED  BY <1>8, <3>1
  <2>. QED  BY <2>1, <2>2
<1>. QED  BY <1>1, <1>2, <1>4, <1>5, <1>9 DEF Good, new

LEMMA ByteKeeps ==
  ASSUME NEW S, NEW a, NEW img \in Seq(Byte), NEW c, NEW at, Good(S, a, img, c, at),
         NEW v \in Byte, NEW b, NEW bt, Becomes(a, b, bt, a.out \o <<Number(v)>>)
  PROVE  Good(S, b, img \o <<v>>, c, bt)
<1>1. Number(v) \in Item /\ Len(<<Number(v)>>) = 1 /\ <<Number(v)>> \in Seq(Item)
  BY NumberFact
<1>2. <<v>> \in Seq(Byte) /\ Len(<<v>>) = 1 /\ (img \o <<v>>)[Len(img) + 1] = v
  BY ConcatProperties
<1>3. ItemFits(S, a, c, Number(v), img \o <<v>>, Len(img) + 1)
  BY <1>2 DEF ItemFits, Number
<1>4. \A j \in 1 .. 1 : ItemFits(S, a, c, <<Number(v)>>[j], img \o <<v>>, Len(img) + j)
  BY <1>3
<1>. HIDE DEF Item, Byte
<1>. QED  BY <1>1, <1>2, <1>4, EmitKeeps

(* The same of every token that has its place.                              *)
LEMMA GoodToken ==
  ASSUME NEW S, NEW a, NEW img, NEW c, NEW at, Good(S, a, img, c, at)
  PROVE  /\ at \in {"start", "labelled"} => Good(S, Directive(a), img, c, "wanted")
         /\ at = "value" => Good(S, Comma(a), img, c, "wanted")
         /\ at = "wanted" => Good(S, Quote(a), img, c, "string")
         /\ at = "string" => Good(S, Quote(a), img, c, "value")
         /\ at \in {"start", "labelled", "value"} => Good(S, NewLine(a), img, c, "start")
<1>1. Assembler(a) /\ a.at = at
  BY DEF Good
<1>2. at \in {"start", "labelled"} => Good(S, Directive(a), img, c, "wanted")
  BY <1>1, DirectiveFact, TokenFact
<1>3. at = "value" => Good(S, Comma(a), img, c, "wanted")
  BY <1>1, CommaFact, TokenFact
<1>4. at = "wanted" => Good(S, Quote(a), img, c, "string")
  BY <1>1, OpenFact, TokenFact
<1>5. at = "string" => Good(S, Quote(a), img, c, "value")
  BY <1>1, CloseFact, TokenFact
<1>6. at \in {"start", "labelled", "value"} => Good(S, NewLine(a), img, c, "start")
  BY <1>1, NewLineFact, TokenFact
<1>. QED  BY <1>2, <1>3, <1>4, <1>5, <1>6

LEMMA GoodByte ==
  ASSUME NEW S, NEW a, NEW img \in Seq(Byte), NEW c, NEW at, Good(S, a, img, c, at),
         NEW v \in Byte
  PROVE  /\ at = "wanted" => Good(S, Hex(a, v), img \o <<v>>, c, "value")
         /\ at = "string" /\ v # QuoteMark => Good(S, Char(a, v), img \o <<v>>, c, "string")
<1>1. Assembler(a) /\ a.at = at
  BY DEF Good
<1>2. at = "wanted" => Good(S, Hex(a, v), img \o <<v>>, c, "value")
  BY <1>1, HexFact, ByteKeeps
<1>3. at = "string" /\ v # QuoteMark => Good(S, Char(a, v), img \o <<v>>, c, "string")
  BY <1>1, CharFact, ByteKeeps
<1>. QED  BY <1>2, <1>3

(* The label that is due where the walk is, if one is.                      *)
LEMMA PutLabelFact ==
  ASSUME TypeOK, NEW a, NEW at, Good(symbols, a, image, Org + index, at),
         at = "start" \/ ~Labelled, NoteLabel = {}
  PROVE  LET b == PutLabel(a)
         IN  /\ b.at = (IF Labelled THEN "labelled" ELSE at)
             /\ Good(symbols, b, image, Org + index + 1, b.at)
<1>. DEFINE c == Org + index
            b == PutLabel(a)
<1>0. c \in Int /\ symbols \in Symbols /\ c = Here(a) /\ Assembler(a) /\ a.at = at
  BY ImageAssumption DEF TypeOK, Here, Good
<1>1. CASE Labelled
  <2>1. IsAnonymous(symbols[c]) \/ IsSymbol(symbols[c])
    BY <1>1 DEF NoteLabel
  <2>2. c \in DOMAIN symbols /\ b = Label(a, symbols[c])
    BY <1>1 DEF Labelled, PutLabel
  <2>. HIDE DEF c, b
  <2>3. PICK n : AddsLabel(symbols, a, b, n, c)
    BY <1>0, <1>1, <2>1, <2>2, LabelFact DEF Good, c
  <2>4. LabelsFit(symbols, b, c + 1) /\ Keeps(symbols, a, c, b, c + 1)
    BY <1>0, <2>2, <2>3, AddsFact DEF Good, c
  <2>5. Assembler(b) /\ b.at = "labelled" /\ b.out = a.out
    BY <2>3 DEF AddsLabel, Adds
  <2>6. \A i \in 1 .. Len(image) : ItemFits(symbols, b, c + 1, b.out[i], image, i)
    BY <2>4, <2>5, ItemKept DEF Good, c
  <2>. QED  BY <1>1, <2>4, <2>5, <2>6 DEF Good, b, c
<1>2. CASE ~Labelled
  <2>1. b = a /\ c \notin DOMAIN symbols
    BY <1>2 DEF Labelled, PutLabel
  <2>2. \A s \in DOMAIN symbols : ~(c <= s /\ s < c + 1)
    BY <1>0, <2>1, AddressFact
  <2>3. c + 1 \in Int /\ c <= c + 1
    BY <1>0
  <2>. HIDE DEF c, b
  <2>4. LabelsFit(symbols, a, c + 1) /\ Keeps(symbols, a, c, a, c + 1)
    BY <1>0, <2>2, <2>3, SkipFact DEF Good, c
  <2>5. \A i \in 1 .. Len(image) : ItemFits(symbols, a, c + 1, a.out[i], image, i)
    BY <2>4, ItemKept DEF Good, c
  <2>. QED  BY <1>0, <1>2, <2>1, <2>4, <2>5 DEF Good, b, c
<1>. QED  BY <1>1, <1>2
-----------------------------------------------------------------------------
(* A label in the middle of a text.                                         *)
LEMMA RelabelledFact ==
  ASSUME TypeOK, NoteLabel = {},
         Good(symbols, acme, image, Org + index, IF inQuotes THEN "string" ELSE "value")
  PROVE  Good(symbols, Relabelled, image, Org + index + 1, "wanted")
<1>. DEFINE a == IF inQuotes THEN Quote(acme) ELSE acme
            b == NewLine(a)
            c == PutLabel(b)
<1>1. Good(symbols, a, image, Org + index, "value")
  <2>1. CASE inQuotes
    <3>1. Good(symbols, acme, image, Org + index, "string")
      BY <2>1
    <3>. QED  BY <2>1, <3>1, GoodToken
  <2>. QED  BY <2>1
<1>2. Good(symbols, b, image, Org + index, "start")
  <2>. HIDE DEF a
  <2>. QED  BY <1>1, GoodToken
<1>3. c.at \in {"start", "labelled"} /\ Good(symbols, c, image, Org + index + 1, c.at)
  <2>. HIDE DEF b
  <2>. QED  BY <1>2, PutLabelFact
<1>4. Good(symbols, Directive(c), image, Org + index + 1, "wanted")
  <2>. HIDE DEF c
  <2>. QED  BY <1>3, GoodToken
<1>. QED  BY <1>4 DEF Relabelled

(* Each way to go on with a text keeps the byte and the place.              *)
LEMMA TextFact ==
  ASSUME TypeOK, NoteLabel = {}, NEW b \in Byte, b # QuoteMark,
         Good(symbols, acme, image, Org + index, IF inQuotes THEN "string" ELSE "value")
  PROVE  Good(symbols, Text(b), image \o <<b>>, Org + index + 1,
              IF Printable(b) THEN "string" ELSE "value")
<1>. DEFINE c == Org + index + 1
<1>0. image \in Seq(Byte)
  BY DEF TypeOK
<1>. HIDE DEF c
<1>1. CASE Labelled
  <2>. DEFINE r == Relabelled
  <2>1. Good(symbols, r, image, c, "wanted")
    BY RelabelledFact DEF c
  <2>. HIDE DEF r
  <2>2. CASE Printable(b)
    <3>1. Text(b) = Char(Quote(r), b)
      BY <1>1, <2>2 DEF Text, r
    <3>2. Good(symbols, Quote(r), image, c, "string")
      BY <2>1, GoodToken
    <3>3. Good(symbols, Char(Quote(r), b), image \o <<b>>, c, "string")
      BY <1>0, <3>2, GoodByte
    <3>. QED  BY <2>2, <3>1, <3>3 DEF c
  <2>3. CASE ~Printable(b)
    <3>1. Text(b) = Hex(r, b)
      BY <1>1, <2>3 DEF Text, r
    <3>2. Good(symbols, Hex(r, b), image \o <<b>>, c, "value")
      BY <1>0, <2>1, GoodByte
    <3>. QED  BY <2>3, <3>1, <3>2 DEF c
  <2>. QED  BY <2>2, <2>3
<1>2. CASE ~Labelled
  <2>0. Good(symbols, acme, image, c, IF inQuotes THEN "string" ELSE "value")
    <3>1. PutLabel(acme) = acme
      BY <1>2 DEF PutLabel
    <3>2. acme.at = (IF inQuotes THEN "string" ELSE "value")
      BY DEF Good
    <3>. QED  BY <1>2, <3>1, <3>2, PutLabelFact DEF c
  <2>1. CASE Printable(b) /\ inQuotes
    <3>1. Text(b) = Char(acme, b)
      BY <1>2, <2>1 DEF Text
    <3>2. Good(symbols, Char(acme, b), image \o <<b>>, c, "string")
      BY <1>0, <2>0, <2>1, GoodByte
    <3>. QED  BY <2>1, <3>1, <3>2 DEF c
  <2>2. CASE Printable(b) /\ ~inQuotes
    <3>1. Text(b) = Char(Quote(Comma(acme)), b)
      BY <1>2, <2>2 DEF Text
    <3>2. Good(symbols, Comma(acme), image, c, "wanted")
      BY <2>0, <2>2, GoodToken
    <3>3. Good(symbols, Quote(Comma(acme)), image, c, "string")
      BY <3>2, GoodToken
    <3>4. Good(symbols, Char(Quote(Comma(acme)), b), image \o <<b>>, c, "string")
      BY <1>0, <3>3, GoodByte
    <3>. QED  BY <2>2, <3>1, <3>4 DEF c
  <2>3. CASE ~Printable(b) /\ inQuotes
    <3>1. Text(b) = Hex(Comma(Quote(acme)), b)
      BY <1>2, <2>3 DEF Text
    <3>2. Good(symbols, Quote(acme), image, c, "value")
      BY <2>0, <2>3, GoodToken
    <3>3. Good(symbols, Comma(Quote(acme)), image, c, "wanted")
      BY <3>2, GoodToken
    <3>4. Good(symbols, Hex(Comma(Quote(acme)), b), image \o <<b>>, c, "value")
      BY <1>0, <3>3, GoodByte
    <3>. QED  BY <2>3, <3>1, <3>4 DEF c
  <2>4. CASE ~Printable(b) /\ ~inQuotes
    <3>1. Text(b) = Hex(Comma(acme), b)
      BY <1>2, <2>4 DEF Text
    <3>2. Good(symbols, Comma(acme), image, c, "wanted")
      BY <2>0, <2>4, GoodToken
    <3>3. Good(symbols, Hex(Comma(acme), b), image \o <<b>>, c, "value")
      BY <1>0, <3>2, GoodByte
    <3>. QED  BY <2>4, <3>1, <3>3 DEF c
  <2>. QED  BY <2>1, <2>2, <2>3, <2>4
<1>. QED  BY <1>1, <1>2
-----------------------------------------------------------------------------
(* What follows when an instruction can be expressed.                       *)
LEMMA NoSnag ==
  ASSUME NEW o, NEW bytes, NoteInstruction(o, bytes) = {}
  PROVE  LET mode  == ModeOf[o]
             v     == Operand(mode, bytes)
             named == bytes # <<>> /\ v \in DOMAIN symbols
         IN  /\ NoteLabel = {}
             /\ mode # "ILL" /\ o \notin NotIn6502
             /\ \A k \in 1 .. Len(bytes) : Org + index + k \notin DOMAIN symbols
             /\ named => ~Misled(v)
             /\ named /\ Len(bytes) = 2 /\ v < 256 => Candidates[o][1] = {}
             /\ Len(bytes) = 2 => build.lowFirst \/ bytes[1] = bytes[2]
             /\ mode = "REL" => ~(bytes[1] >= 128) \/ build.charSigned
             /\ mode = "REL" => Org + index + 2 + Distance(bytes[1]) \in Address
<1>. DEFINE Note(condition, snag) == IF condition THEN {snag} ELSE {}
            mode  == ModeOf[o]
            v     == Operand(mode, bytes)
            named == bytes # <<>> /\ v \in DOMAIN symbols
            c1 == mode = "ILL" \/ o \in NotIn6502
            c2 == \E k \in 1 .. Len(bytes) : Org + index + k \in DOMAIN symbols
            c4 == named /\ Misled(v)
            c5 == named /\ Len(bytes) = 2 /\ v < 256 /\ Candidates[o][1] # {}
            c6 == Len(bytes) = 2 /\ ~build.lowFirst /\ bytes[1] # bytes[2]
            c7 == mode = "REL" /\ bytes[1] >= 128 /\ ~build.charSigned
            c8 == mode = "REL" /\ Org + index + 2 + Distance(bytes[1]) \notin Address
            All == {NoteLabel, Note(c1, "opcode"), Note(c2, "label inside"),
                    Note(c4, "anonymous"), Note(c5, "short name"),
                    Note(c6, "order"), Note(c7, "sign"), Note(c8, "wrap")}
<1>1. UNION All = {}
  BY Zenon DEF NoteInstruction
<1>. HIDE DEF c1, c2, c4, c5, c6, c7, c8
<1>2. \A X \in All : X = {}
  <2>. HIDE DEF All
  <2>. QED  BY <1>1, Zenon
<1>3. NoteLabel = {}
  BY <1>2
<1>4. /\ Note(c1, "opcode") = {} /\ Note(c2, "label inside") = {}
      /\ Note(c4, "anonymous") = {}
      /\ Note(c5, "short name") = {} /\ Note(c6, "order") = {}
      /\ Note(c7, "sign") = {} /\ Note(c8, "wrap") = {}
  <2>. HIDE DEF Note
  <2>. QED  BY <1>2, Zenon
<1>5. ~c1 /\ ~c2 /\ ~c4 /\ ~c5 /\ ~c6 /\ ~c7 /\ ~c8
  BY <1>4
<1>. HIDE DEF v, named
<1>6. /\ mode # "ILL" /\ o \notin NotIn6502
      /\ \A k \in 1 .. Len(bytes) : Org + index + k \notin DOMAIN symbols
      /\ named => ~Misled(v)
      /\ named /\ Len(bytes) = 2 /\ v < 256 => Candidates[o][1] = {}
      /\ Len(bytes) = 2 => build.lowFirst \/ bytes[1] = bytes[2]
      /\ mode = "REL" => ~(bytes[1] >= 128) \/ build.charSigned
      /\ mode = "REL" => Org + index + 2 + Distance(bytes[1]) \in Address
  BY <1>5, Zenon DEF c1, c2, c4, c5, c6, c7, c8
<1>. QED  BY <1>3, <1>6, Zenon DEF v, named
-----------------------------------------------------------------------------
LEMMA OnlyOpcode ==
  ASSUME NEW o PROVE TheOpcode({o}) = o
BY DEF TheOpcode

(* An opcode that ACME knows is assembled to itself, followed by the way of *)
(* writing its operand that its length asks for.                            *)
LEMMA AssembleFact ==
  ASSUME NEW a, a.at \in {"start", "labelled"},
         NEW o \in Byte, o \notin NotIn6502, ModeOf[o] # "ILL",
         NEW narrow \in BOOLEAN, NEW near, NEW short, NEW long, NEW operand,
         NEW len, len = OperandLength(ModeOf[o]),
         len = 0 => operand = <<>>,
         ModeOf[o] = "REL" => near # <<>> /\ operand = near,
         len = 1 /\ ModeOf[o] # "REL" => narrow /\ operand = short,
         len = 2 => (Candidates[o][1] = {} \/ ~narrow) /\ operand = long
  PROVE  Assemble(a, o, narrow, near, short, long) =
           Emit(a, IF len = 0 THEN <<Number(o)>> ELSE <<Number(o)>> \o operand)
<1>. DEFINE none   == Candidates[o][0]
            shorts == Candidates[o][1]
            longs  == Candidates[o][2]
            branch == \E p \in shorts : ModeOf[p] = "REL"
<1>1. /\ Candidates[o][len] = {o}
      /\ len > 0 => none = {}
      /\ len = 2 => ~branch
      /\ len \in 0 .. 2
  BY OpcodesDiffer, OperandFact DEF Byte
<1>2. Assemble(a, o, narrow, near, short, long) =
        IF none # {} THEN Emit(a, <<Number(TheOpcode(none))>>)
        ELSE IF branch
               THEN IF near = <<>> THEN Stop(a)
                    ELSE Emit(a, <<Number(TheOpcode(shorts))>> \o near)
        ELSE IF shorts # {} /\ narrow THEN Emit(a, <<Number(TheOpcode(shorts))>> \o short)
        ELSE IF longs # {} THEN Emit(a, <<Number(TheOpcode(longs))>> \o long)
        ELSE Stop(a)
  BY DEF Assemble
<1>3. CASE len = 0
  <2>1. none = {o} /\ TheOpcode(none) = o
    BY <1>1, <1>3, OnlyOpcode
  <2>. QED  BY <1>2, <1>3, <2>1
<1>4. CASE len = 1
  <2>1. none = {} /\ shorts = {o} /\ TheOpcode(shorts) = o
    <3>1. len > 0
      BY <1>4
    <3>. QED  BY <1>1, <1>4, <3>1, OnlyOpcode
  <2>2. CASE ModeOf[o] = "REL"
    <3>1. branch /\ near # <<>> /\ operand = near /\ len # 0
      BY <1>4, <2>1, <2>2
    <3>. HIDE DEF none, shorts, longs, branch
    <3>. QED  BY <1>2, <2>1, <3>1, Zenon
  <2>3. CASE ModeOf[o] # "REL"
    <3>1. ~branch /\ shorts # {} /\ narrow /\ operand = short /\ len # 0
      BY <1>4, <2>1, <2>3
    <3>. HIDE DEF none, shorts, longs, branch
    <3>. QED  BY <1>2, <2>1, <3>1, Zenon
  <2>. QED  BY <2>2, <2>3
<1>5. CASE len = 2
  <2>1. none = {} /\ longs = {o} /\ TheOpcode(longs) = o /\ ~branch
    <3>1. len > 0
      BY <1>5
    <3>. QED  BY <1>1, <1>5, <3>1, OnlyOpcode
  <2>2. ~(shorts # {} /\ narrow) /\ len # 0 /\ operand = long
    BY <1>5
  <2>. HIDE DEF none, shorts, longs, branch
  <2>. QED  BY <1>2, <2>1, <2>2, Zenon
<1>. QED  BY <1>1, <1>3, <1>4, <1>5

LEMMA AloneFact ==
  ASSUME NEW a, a.at \in {"start", "labelled"},
         NEW o \in Byte, o \notin NotIn6502, ModeOf[o] # "ILL",
         OperandLength(ModeOf[o]) = 0, NEW narrow, NEW near, NEW short, NEW long
  PROVE  Assemble(a, o, narrow, near, short, long) = Emit(a, <<Number(o)>>)
<1>1. Candidates[o][0] = {o}
  BY OpcodesDiffer DEF Byte
<1>. QED  BY <1>1, OnlyOpcode DEF Assemble

(* The bytes of an instruction behind those that have been read.            *)
LEMMA ReadFact ==
  ASSUME NEW img \in Seq(Byte), NEW o \in Byte, NEW bytes \in Seq(Byte),
         NEW new, new = img \o (<<o>> \o bytes)
  PROVE  /\ <<o>> \o bytes \in Seq(Byte) /\ Len(<<o>> \o bytes) = 1 + Len(bytes)
         /\ Len(new) = Len(img) + 1 + Len(bytes) /\ new[Len(img) + 1] = o
         /\ \A j \in 1 .. Len(bytes) : new[Len(img) + 1 + j] = bytes[j]
<1>. DEFINE read == <<o>> \o bytes
<1>1. <<o>> \in Seq(Byte) /\ Len(<<o>>) = 1 /\ <<o>>[1] = o
  OBVIOUS
<1>2. Len(bytes) \in Nat /\ Len(img) \in Nat
  OBVIOUS
<1>. HIDE DEF Byte
<1>3. /\ read \in Seq(Byte) /\ Len(read) = 1 + Len(bytes)
      /\ \A i \in 1 .. 1 + Len(bytes) : read[i] = IF i <= 1 THEN <<o>>[i] ELSE bytes[i - 1]
  BY <1>1, ConcatProperties
<1>. HIDE DEF read
<1>4. /\ Len(new) = Len(img) + Len(read)
      /\ \A i \in 1 .. Len(img) + Len(read) :
           new[i] = IF i <= Len(img) THEN img[i] ELSE read[i - Len(img)]
  BY <1>3, ConcatProperties DEF read
<1>5. new[Len(img) + 1] = o
  <2>1. Len(img) + 1 \in 1 .. Len(img) + Len(read) /\ Len(img) + 1 - Len(img) = 1
    BY <1>2, <1>3
  <2>2. read[1] = o
    BY <1>1, <1>2, <1>3
  <2>. QED  BY <1>2, <1>4, <2>1, <2>2
<1>6. ASSUME NEW j \in 1 .. Len(bytes)
      PROVE  new[Len(img) + 1 + j] = bytes[j]
  <2>1. /\ Len(img) + 1 + j \in 1 .. Len(img) + Len(read)
        /\ Len(img) + 1 + j - Len(img) = 1 + j /\ ~(Len(img) + 1 + j <= Len(img))
    BY <1>2, <1>3
  <2>2. 1 + j \in 1 .. 1 + Len(bytes) /\ ~(1 + j <= 1) /\ 1 + j - 1 = j
    BY <1>2
  <2>3. read[1 + j] = bytes[j]
    BY <1>3, <2>2
  <2>. QED  BY <1>4, <2>1, <2>3
<1>7. Len(new) = Len(img) + 1 + Len(bytes)
  BY <1>2, <1>3, <1>4
<1>. QED  BY <1>3, <1>5, <1>6, <1>7 DEF read

(* The items of an operand, one for every byte.                             *)
LEMMA OperandKeeps ==
  ASSUME NEW S, NEW a, NEW img \in Seq(Byte), NEW c, NEW at, Good(S, a, img, c, at),
         NEW o \in Byte, NEW bytes \in Seq(Byte), NEW operand \in Seq(Item),
         Len(operand) = Len(bytes), NEW new, new = img \o (<<o>> \o bytes),
         \A j \in 1 .. Len(bytes) : ItemFits(S, a, c, operand[j], new, Len(img) + 1 + j)
  PROVE  Good(S, Emit(a, IF Len(bytes) = 0 THEN <<Number(o)>> ELSE <<Number(o)>> \o operand),
              new, c, "value")
<1>. DEFINE items == <<Number(o)>> \o operand
<1>1. <<Number(o)>> \in Seq(Item) /\ Len(<<Number(o)>>) = 1 /\ <<Number(o)>>[1] = Number(o)
  BY NumberFact
<1>2. /\ items \in Seq(Item) /\ Len(items) = 1 + Len(operand)
      /\ \A i \in 1 .. 1 + Len(operand) :
           items[i] = IF i <= 1 THEN <<Number(o)>>[i] ELSE operand[i - 1]
  <2>. HIDE DEF Item
  <2>. QED  BY <1>1, ConcatProperties
<1>3. /\ <<o>> \o bytes \in Seq(Byte) /\ Len(<<o>> \o bytes) = 1 + Len(bytes)
      /\ new[Len(img) + 1] = o
  BY ReadFact
<1>4. Len(bytes) \in Nat /\ Len(img) \in Nat
  OBVIOUS
<1>. HIDE DEF items
<1>6. ASSUME NEW i \in 1 .. Len(<<o>> \o bytes)
      PROVE  ItemFits(S, a, c, items[i], new, Len(img) + i)
  <2>1. CASE i = 1
    <3>1. items[1] = Number(o)
      BY <1>1, <1>2, <1>4
    <3>2. items[i].part = "byte" /\ items[i].of = o
      BY <2>1, <3>1 DEF Number
    <3>3. new[Len(img) + i] = o
      BY <1>3, <2>1
    <3>. QED  BY <3>2, <3>3, ByteFits
  <2>2. CASE i # 1
    <3>. DEFINE j == i - 1
    <3>1. j \in 1 .. Len(bytes) /\ ~(i <= 1) /\ i \in 1 .. 1 + Len(bytes)
      BY <1>3, <1>4, <2>2
    <3>2. items[i] = operand[j]
      BY <1>2, <3>1
    <3>3. Len(img) + 1 + j = Len(img) + i
      BY <1>4, <3>1
    <3>4. ItemFits(S, a, c, operand[j], new, Len(img) + 1 + j)
      BY <3>1
    <3>. HIDE DEF j
    <3>. QED  BY <3>2, <3>3, <3>4, Zenon
  <2>. QED  BY <2>1, <2>2
<1>7. Good(S, Emit(a, items), new, c, "value")
  <2>1. Becomes(a, Emit(a, items), "value", a.out \o items)
    BY <1>2, EmitFact DEF Good
  <2>2. Len(items) = Len(<<o>> \o bytes)
    BY <1>2, <1>3
  <2>. HIDE DEF Item, Byte
  <2>. QED  BY <1>2, <1>3, <1>6, <2>1, <2>2, EmitKeeps
<1>8. CASE Len(bytes) = 0
  <2>1. items = <<Number(o)>>
    <3>1. operand = <<>>
      BY <1>8
    <3>. QED  BY <3>1, <1>1 DEF items
  <2>. QED  BY <1>7, <1>8, <2>1
<1>. QED  BY <1>7, <1>8 DEF items
-----------------------------------------------------------------------------
(* An address is a number of 16 bits. The bound is hidden: with the literal *)
(* in sight the interval is taken apart number by number.                   *)
LEMMA AddressIs == \A k : k \in Address <=> k \in Int /\ 0 <= k /\ k < 65536
<1> DEFINE top == 65535
<1>1. top \in Int /\ \A k \in Int : k <= top <=> k < 65536
  OBVIOUS
<1>2. Address = 0 .. top
  BY DEF Address
<1> HIDE DEF top
<1>3. \A k : k \in 0 .. top <=> k \in Int /\ 0 <= k /\ k <= top
  BY <1>1
<1>. QED  BY <1>1, <1>2, <1>3

LEMMA WordFact ==
  ASSUME NEW low \in Byte, NEW high \in Byte
  PROVE  /\ (low + 256 * high) % 256 = low /\ (low + 256 * high) \div 256 = high
         /\ low + 256 * high \in Int
BY DEF Byte

LEMMA BranchFact ==
  ASSUME NEW b \in Byte, ~(b >= 128) \/ build.charSigned, NEW x \in Nat,
         x + Distance(b) \in Address
  PROVE  /\ Distance(b) \in -128 .. 127 /\ Distance(b) % 256 = b
         /\ (x + Distance(b)) % 65536 = x + Distance(b)
<1>. DEFINE d == Distance(b)
<1>1. d = IF b < 128 THEN b ELSE b - 256
  BY DEF Distance, Byte
<1>. HIDE DEF d
<1>2. d \in -128 .. 127 /\ d \in Int
  BY <1>1 DEF Byte
<1>3. d % 256 = b
  <2>1. CASE b < 128
    BY <1>1, <2>1 DEF Byte
  <2>2. CASE ~(b < 128)
    BY <1>1, <2>2 DEF Byte
  <2>. QED  BY <2>1, <2>2
<1>4. x + d \in Int /\ 0 <= x + d /\ x + d < 65536
  BY <1>2, AddressIs DEF d
<1>5. (x + d) % 65536 = x + d
  BY <1>4
<1>. QED  BY <1>2, <1>3, <1>5 DEF d

(* The value that an operand stands for.                                    *)
BranchesTo(v, x, b) == \E d \in -128 .. 127 : d % 256 = b /\ v = x + d

LEMMA BranchesFact ==
  ASSUME NEW d \in -128 .. 127, NEW x, NEW b, d % 256 = b
  PROVE  BranchesTo(x + d, x, b)
BY Zenon DEF BranchesTo

LEMMA ByteFact == \A b \in Byte : b \in Int /\ 0 <= b /\ b < 256
BY DEF Byte

LEMMA OperandValue ==
  ASSUME TypeOK, NEW o \in Byte, NEW bytes \in Seq(Byte), NEW len,
         len = OperandLength(ModeOf[o]), Len(bytes) = len, len # 0,
         NoteInstruction(o, bytes) = {}, NEW v, v = Operand(ModeOf[o], bytes)
  PROVE  /\ v \in Int /\ len \in {1, 2} /\ bytes[1] \in Byte
         /\ ModeOf[o] = "REL" =>
              len = 1 /\ BranchesTo(v, Org + index + 2, bytes[1])
         /\ len = 1 /\ ModeOf[o] # "REL" => v = bytes[1]
         /\ len = 2 => bytes[2] \in Byte /\ v = bytes[1] + 256 * bytes[2]
<1>1. len \in {1, 2} /\ bytes[1] \in Byte /\ (len = 2 => bytes[2] \in Byte)
  <2>1. len \in 0 .. 2
    BY OperandFact
  <2>2. len \in {1, 2}
    BY <2>1
  <2>. QED  BY <2>2
<1>2. CASE ModeOf[o] = "REL"
  <2>1. len = 1
    BY <1>2 DEF OperandLength
  <2>2. v = Target(bytes[1])
    BY <1>2, <2>1 DEF Operand
  <2>. DEFINE x == Org + index + 2
              d == Distance(bytes[1])
  <2>3. x \in Nat /\ Org + index + 2 + d = x + d
    BY ImageAssumption DEF TypeOK
  <2>4. (~(bytes[1] >= 128) \/ build.charSigned) /\ x + d \in Address
    BY <1>2, NoSnag
  <2>5. v = (x + d) % 65536
    BY <2>2 DEF Target
  <2>. HIDE DEF x
  <2>6. d \in -128 .. 127 /\ d % 256 = bytes[1] /\ (x + d) % 65536 = x + d
    BY <1>1, <2>3, <2>4, BranchFact
  <2>. HIDE DEF d
  <2>7. v = x + d /\ v \in Int
    BY <2>3, <2>5, <2>6
  <2>8. BranchesTo(v, x, bytes[1])
    <3>1. d \in -128 .. 127 /\ d % 256 = bytes[1]
      BY <2>6
    <3>2. BranchesTo(x + d, x, bytes[1])
      BY <3>1, BranchesFact
    <3>3. x + d = v
      BY <2>7
    <3>. QED  BY <3>2, <3>3
  <2>9. len # 2
    BY <2>1
  <2>. QED  BY <1>1, <1>2, <2>1, <2>7, <2>8, <2>9, Zenon DEF x
<1>3. CASE ModeOf[o] # "REL" /\ len = 1
  <2>1. v = bytes[1]
    BY <1>3 DEF Operand
  <2>2. v \in Int
    BY <1>1, <2>1, ByteFact, Zenon
  <2>3. len # 2
    BY <1>3
  <2>. QED  BY <1>1, <1>3, <2>1, <2>2, <2>3, Zenon
<1>4. CASE ModeOf[o] # "REL" /\ len = 2
  <2>1. v = Word(bytes)
    BY <1>4 DEF Operand
  <2>2. build.lowFirst \/ bytes[1] = bytes[2]
    BY <1>4, NoSnag
  <2>3. v = bytes[1] + 256 * bytes[2]
    BY <2>1, <2>2 DEF Word
  <2>4. v \in Int
    <3>1. bytes[2] \in Byte
      BY <1>1, <1>4
    <3>. QED  BY <1>1, <2>3, <3>1, WordFact
  <2>5. len # 1
    BY <1>4
  <2>. QED  BY <1>1, <1>4, <2>3, <2>4, <2>5, Zenon
<1>. QED  BY <1>1, <1>2, <1>3, <1>4
-----------------------------------------------------------------------------
(* The name that is printed for the address v means v.                      *)
LEMMA NameMeans ==
  ASSUME NEW S \in Symbols, NEW a, NEW here \in Int, Assembler(a), LabelsFit(S, a, here + 1),
         NEW v \in DOMAIN S,
         S[v] = Forward =>
           here < v /\ \A s \in DOMAIN S : S[s] = Forward => ~(here < s /\ s < v),
         S[v] = Backward =>
           v <= here /\ \A s \in DOMAIN S : S[s] = Backward => ~(v < s /\ s <= here)
  PROVE  Means(S, a, here + 1, Counted(a, S[v]), v) /\ Counted(a, S[v]) \in Tag
<1>. DEFINE n == Counted(a, S[v])
<1>1. /\ v \in Int /\ S[v] \in Name /\ a.ahead \in Nat /\ a.behind \in Nat
      /\ \A s \in DOMAIN S : s \in Int
  BY AddressFact DEF Assembler
<1>2. CASE S[v] = Forward
  <2>1. n = <<"+", a.ahead + 1>>
    BY <1>2, SpeltFact DEF Counted
  <2>2. here + 1 <= v /\ \A s \in DOMAIN S : S[s] = Forward /\ here + 1 <= s => v <= s
    BY <1>1, <1>2
  <2>3. n \in Tag
    BY <1>1, <2>1 DEF Tag
  <2>. HIDE DEF n
  <2>4. Coming(S, a, here + 1, n, v)
    BY <2>1, <2>2 DEF Coming
  <2>5. S[v] = Spelt(n)
    BY <1>2, <2>1, SpeltFact
  <2>. QED  BY <2>3, <2>4, <2>5 DEF Means, n
<1>3. CASE S[v] = Backward
  <2>1. n = <<"-", a.behind>>
    BY <1>3, SpeltFact DEF Counted
  <2>2. InRom(v)
    BY <1>3, SpeltFact, SymbolAssumption
  <2>3. Org <= v /\ v < here + 1
    BY <1>1, <1>3, <2>2, RomFact
  <2>. DEFINE s == a.defs[n]
  <2>4. n \in DOMAIN a.defs /\ v <= s /\ s < here + 1
    BY <1>3, <2>1, <2>3 DEF LabelsFit
  <2>5. s \in DOMAIN S /\ S[s] = Backward
    BY <2>1, <2>4, SpeltFact DEF LabelsFit
  <2>6. s = v
    <3>. HIDE DEF s
    <3>1. s \in Int
      BY <1>1, <2>5
    <3>2. ~(v < s /\ s <= here)
      BY <1>3, <2>5
    <3>. QED  BY <1>1, <2>4, <3>1, <3>2
  <2>7. n \in Tag
    BY <1>1, <2>1 DEF Tag
  <2>8. S[v] = Spelt(n)
    BY <1>3, <2>1, SpeltFact
  <2>. HIDE DEF n
  <2>. QED  BY <2>4, <2>6, <2>7, <2>8 DEF Means, Known, n
<1>4. CASE ~IsAnonymous(S[v])
  <2>1. n = S[v]
    BY <1>4, SpeltFact DEF Counted
  <2>2. n \in Tag
    BY <1>1, <1>4, <2>1, NameFact DEF Tag
  <2>3. Spelt(n) = S[v] /\ ~IsAnonymous(n)
    BY <1>4, <2>1, SpeltFact
  <2>. HIDE DEF n
  <2>. QED  BY <2>2, <2>3 DEF Means, n
<1>. QED  BY <1>1, <1>2, <1>3, <1>4, NameFact

LEMMA MisledFact ==
  ASSUME TypeOK, NEW v \in DOMAIN symbols, ~Misled(v), NEW here, here = Org + index
  PROVE  /\ symbols[v] = Forward =>
              /\ here < v
              /\ \A s \in DOMAIN symbols : symbols[s] = Forward => ~(here < s /\ s < v)
         /\ symbols[v] = Backward =>
              /\ v <= here
              /\ \A s \in DOMAIN symbols : symbols[s] = Backward => ~(v < s /\ s <= here)
<1>1. v \in Int /\ here \in Int
  BY AddressFact, ImageAssumption DEF TypeOK
<1>. QED  BY <1>1 DEF Misled

LEMMA ReadNow ==
  ASSUME TypeOK, NEW o \in Byte, NEW bytes \in Seq(Byte)
  PROVE  LET new == image \o (<<o>> \o bytes)
         IN  /\ Len(new) = Len(image) + 1 + Len(bytes)
             /\ \A j \in 1 .. Len(bytes) : new[Len(image) + 1 + j] = bytes[j]
<1>. DEFINE new == image \o (<<o>> \o bytes)
<1>1. image \in Seq(Byte) /\ new = image \o (<<o>> \o bytes)
  BY DEF TypeOK
<1>. HIDE DEF new, Byte
<1>2. /\ Len(new) = Len(image) + 1 + Len(bytes)
      /\ \A j \in 1 .. Len(bytes) : new[Len(image) + 1 + j] = bytes[j]
  BY <1>1, ReadFact
<1>. QED  BY <1>2 DEF new

(* The operand is written as figures or as a name.                          *)
LEMMA InstructionFact ==
  ASSUME TypeOK, NEW a, NEW at \in {"start", "labelled"},
         Good(symbols, a, image, Org + index + 1, at),
         NEW o \in Byte, NEW bytes \in Seq(Byte), Len(bytes) = OperandLength(ModeOf[o]),
         NoteInstruction(o, bytes) = {}, bytes # <<>>,
         NEW v, v = Operand(ModeOf[o], bytes), v \notin DOMAIN symbols
  PROVE  Good(symbols,
              Instruction(a, o, v, OperandLength(ModeOf[o]) = 2 \/ ModeOf[o] = "REL"),
              image \o (<<o>> \o bytes), Org + index + 1, "value")
<1>. DEFINE len  == OperandLength(ModeOf[o])
            four == len = 2 \/ ModeOf[o] = "REL"
            new  == image \o (<<o>> \o bytes)
            c    == Org + index + 1
            d    == v - Here(a) - 2
            near == IF d \in -128 .. 127 THEN <<Number(d % 256)>> ELSE <<>>
            short == <<Number(v)>>
            long  == <<Number(v % 256), Number(v \div 256)>>
            narrow == v < 256 /\ ~four
            operand == IF len = 1 THEN <<Number(bytes[1])>>
                       ELSE <<Number(bytes[1]), Number(bytes[2])>>
<1>1. len # 0 /\ Len(bytes) = len
  OBVIOUS
<1>2. /\ v \in Int /\ len \in {1, 2} /\ bytes[1] \in Byte
      /\ ModeOf[o] = "REL" => len = 1 /\ BranchesTo(v, Org + index + 2, bytes[1])
      /\ len = 1 /\ ModeOf[o] # "REL" => v = bytes[1]
      /\ len = 2 => bytes[2] \in Byte /\ v = bytes[1] + 256 * bytes[2]
  BY <1>1, OperandValue
<1>3. ModeOf[o] # "ILL" /\ o \notin NotIn6502
  BY NoSnag
<1>4. Instruction(a, o, v, four) = Assemble(a, o, narrow, near, short, long)
  BY DEF Instruction
<1>5. operand \in Seq(Item) /\ Len(operand) = len
      /\ \A j \in 1 .. len : operand[j] = Number(bytes[j])
  <2>1. CASE len = 1
    <3>1. Number(bytes[1]) \in Item
      BY <1>2, NumberFact
    <3>. HIDE DEF Item
    <3>. QED  BY <2>1, <3>1
  <2>2. CASE len = 2
    <3>1. Number(bytes[1]) \in Item /\ Number(bytes[2]) \in Item
      BY <1>2, <2>2, NumberFact
    <3>. HIDE DEF Item
    <3>. QED  BY <2>2, <3>1
  <2>. QED  BY <1>2, <2>1, <2>2
<1>6. ModeOf[o] = "REL" => near # <<>> /\ operand = near
  <2> SUFFICES ASSUME ModeOf[o] = "REL" PROVE near # <<>> /\ operand = near
    OBVIOUS
  <2>1. PICK k \in -128 .. 127 : k % 256 = bytes[1] /\ v = Org + index + 2 + k
    BY <1>2 DEF BranchesTo
  <2>2. Here(a) = Org + index
    BY DEF Here, TypeOK, Good
  <2>3. d = k
    BY <2>1, <2>2, ImageAssumption DEF TypeOK
  <2>. HIDE DEF d
  <2>4. near = <<Number(bytes[1])>>
    BY <2>1, <2>3
  <2>. QED  BY <1>2, <2>4
<1>7. len = 1 /\ ModeOf[o] # "REL" => narrow /\ operand = short
  BY <1>2, ByteFact
<1>8. len = 2 => ~narrow /\ operand = long
  <2> SUFFICES ASSUME len = 2 PROVE operand = long
    OBVIOUS
  <2>1. v % 256 = bytes[1] /\ v \div 256 = bytes[2]
    BY <1>2, WordFact
  <2>. QED  BY <2>1
<1>9. narrow \in BOOLEAN
  OBVIOUS
<1>. HIDE DEF len, narrow, near, short, long, operand
<1>10. Assemble(a, o, narrow, near, short, long) =
         Emit(a, IF len = 0 THEN <<Number(o)>> ELSE <<Number(o)>> \o operand)
  <2>1. a.at \in {"start", "labelled"} /\ len = OperandLength(ModeOf[o])
    BY DEF Good, len
  <2>. QED  BY <1>1, <1>3, <1>6, <1>7, <1>8, <1>9, <2>1, AssembleFact
<1>11. \A j \in 1 .. Len(bytes) :
         ItemFits(symbols, a, c, operand[j], new, Len(image) + 1 + j)
  <2> SUFFICES ASSUME NEW j \in 1 .. Len(bytes)
               PROVE  ItemFits(symbols, a, c, operand[j], new, Len(image) + 1 + j)
    OBVIOUS
  <2>1. new[Len(image) + 1 + j] = bytes[j]
    BY ReadNow
  <2>2. operand[j] = Number(bytes[j])
    BY <1>1, <1>5
  <2>. HIDE DEF new, c, operand
  <2>3. operand[j].part = "byte" /\ operand[j].of = bytes[j]
    BY <2>2 DEF Number
  <2>. QED  BY <2>1, <2>3, ByteFits
<1>12. image \in Seq(Byte) /\ Len(operand) = Len(bytes)
  BY <1>1, <1>5 DEF TypeOK
<1>. HIDE DEF c, new
<1>13. Good(symbols,
            Emit(a, IF Len(bytes) = 0 THEN <<Number(o)>> ELSE <<Number(o)>> \o operand),
            new, c, "value")
  <2>. HIDE DEF Item, Byte
  <2>. QED  BY <1>5, <1>11, <1>12, OperandKeeps DEF new, c
<1>. QED  BY <1>1, <1>4, <1>10, <1>13 DEF new, c, len

LEMMA ReferenceFact ==
  ASSUME TypeOK, NEW a, NEW at \in {"start", "labelled"},
         Good(symbols, a, image, Org + index + 1, at),
         NEW o \in Byte, NEW bytes \in Seq(Byte), Len(bytes) = OperandLength(ModeOf[o]),
         NoteInstruction(o, bytes) = {}, bytes # <<>>,
         NEW v, v = Operand(ModeOf[o], bytes), v \in DOMAIN symbols
  PROVE  Good(symbols, Reference(a, o, symbols[v]),
              image \o (<<o>> \o bytes), Org + index + 1, "value")
<1>. DEFINE len  == OperandLength(ModeOf[o])
            new  == image \o (<<o>> \o bytes)
            c    == Org + index + 1
            n    == Counted(a, symbols[v])
            item(part) == [part |-> part, of |-> n]
            near == <<item("near")>>
            short == <<item("short")>>
            long  == <<item("low"), item("high")>>
            narrow == Candidates[o][2] = {} \/ (Defined(a, n) /\ Value(a, n) < 256)
            operand == IF len = 2 THEN long ELSE IF ModeOf[o] = "REL" THEN near ELSE short
<1>1. len # 0 /\ Len(bytes) = len
  OBVIOUS
<1>2. /\ v \in Int /\ len \in {1, 2} /\ bytes[1] \in Byte
      /\ ModeOf[o] = "REL" => len = 1 /\ BranchesTo(v, Org + index + 2, bytes[1])
      /\ len = 1 /\ ModeOf[o] # "REL" => v = bytes[1]
      /\ len = 2 => bytes[2] \in Byte /\ v = bytes[1] + 256 * bytes[2]
  BY <1>1, OperandValue
<1>3. /\ ModeOf[o] # "ILL" /\ o \notin NotIn6502
      /\ ~Misled(v)
      /\ len = 2 /\ v < 256 => Candidates[o][1] = {}
  BY <1>1, NoSnag
<1>4. Means(symbols, a, c, n, v) /\ n \in Tag
  <2>1. symbols \in Symbols /\ Org + index \in Int /\ Org \in Int /\ Size \in Int
    BY ImageAssumption DEF TypeOK
  <2>. QED  BY <1>3, <2>1, MisledFact, NameMeans DEF Good
<1>5. Reference(a, o, symbols[v]) = Assemble(a, o, narrow, near, short, long)
  BY DEF Reference
<1>6. \A part \in {"near", "short", "low", "high"} : item(part) \in Item
  BY <1>4, Zenon DEF Item
<1>7. Defined(a, n) => Value(a, n) = v
  <2>1. a.ahead \in Nat /\ symbols \in Symbols
    BY DEF Good, Assembler, TypeOK
  <2>. HIDE DEF n
  <2>. QED  BY <1>4, <2>1, ValueFact DEF Good
<1>. HIDE DEF n, item
<1>8. len = 1 /\ ModeOf[o] # "REL" => narrow
  <2> SUFFICES ASSUME len = 1, ModeOf[o] # "REL" PROVE narrow
    OBVIOUS
  <2>1. v < 256 /\ ~InRom(v)
    BY <1>2, ByteFact DEF InRom
  <2>2. Defined(a, n)
    <3>1. c \in Int /\ symbols \in Symbols /\ LabelsFit(symbols, a, c)
      BY ImageAssumption DEF TypeOK, Good
    <3>. QED  BY <1>4, <2>1, <3>1, DefinedFact
  <2>. QED  BY <1>7, <2>1, <2>2
<1>9. len = 2 => Candidates[o][1] = {} \/ ~narrow
  <2> SUFFICES ASSUME len = 2, Candidates[o][1] # {} PROVE ~narrow
    OBVIOUS
  <2>1. ~(v < 256)
    BY <1>3
  <2>2. Candidates[o][2] = {o}
    BY <1>3, OpcodesDiffer DEF Byte
  <2>. QED  BY <1>7, <2>1, <2>2
<1>10. narrow \in BOOLEAN
  OBVIOUS
<1>11. /\ near # <<>> /\ operand \in Seq(Item) /\ Len(operand) = len
       /\ len = 2 => operand = long
       /\ ModeOf[o] = "REL" => operand = near
       /\ len = 1 /\ ModeOf[o] # "REL" => operand = short
  <2>1. /\ near \in Seq(Item) /\ short \in Seq(Item) /\ long \in Seq(Item)
        /\ Len(near) = 1 /\ Len(short) = 1 /\ Len(long) = 2 /\ near # <<>>
    <3>. HIDE DEF Item
    <3>. QED  BY <1>6
  <2>2. ModeOf[o] = "REL" => len # 2
    BY <1>2
  <2>. HIDE DEF near, short, long, len
  <2>. QED  BY <1>2, <2>1, <2>2
<1>12. \A j \in 1 .. Len(bytes) :
         ItemFits(symbols, a, c, operand[j], new, Len(image) + 1 + j)
  <2>0. /\ Len(new) = Len(image) + 1 + Len(bytes)
        /\ \A j \in 1 .. Len(bytes) : new[Len(image) + 1 + j] = bytes[j]
        /\ Len(image) = index /\ index \in Nat /\ Org \in Int
    <3>1. Len(image) = index /\ index \in Nat /\ Org \in Int
      BY ImageAssumption DEF TypeOK
    <3>. QED  BY <3>1, ReadNow
  <2>. HIDE DEF new, c
  <2>1. CASE len = 2
    <3>1. operand[1] = item("low") /\ operand[2] = item("high")
      BY <1>11, <2>1
    <3>2. /\ new[Len(image) + 2] = bytes[1] /\ new[Len(image) + 3] = bytes[2]
          /\ Len(image) + 2 < Len(new)
      BY <1>1, <2>0, <2>1
    <3>3. ItemFits(symbols, a, c, operand[1], new, Len(image) + 2)
      <4>1. Len(image) + 2 + 1 = Len(image) + 3
        BY <2>0
      <4>2. new[Len(image) + 2] + 256 * new[Len(image) + 2 + 1] = v
        BY <1>2, <2>1, <3>2, <4>1
      <4>3. operand[1].part = "low" /\ operand[1].of = n
        BY <3>1 DEF item
      <4>. QED  BY <1>4, <3>2, <4>2, <4>3 DEF ItemFits
    <3>4. ItemFits(symbols, a, c, operand[2], new, Len(image) + 3)
      <4>1. Len(image) + 3 - 1 = Len(image) + 2 /\ 1 < Len(image) + 3
        BY <2>0
      <4>2. new[Len(image) + 3 - 1] + 256 * new[Len(image) + 3] = v
        BY <1>2, <2>1, <3>2, <4>1
      <4>3. operand[2].part = "high" /\ operand[2].of = n
        BY <3>1 DEF item
      <4>4. Means(symbols, a, c, operand[2].of,
                  new[Len(image) + 3 - 1] + 256 * new[Len(image) + 3])
        BY <1>4, <4>2, <4>3, Zenon
      <4>. QED  BY <4>1, <4>3, <4>4, HighFits
    <3>5. Len(image) + 1 + 1 = Len(image) + 2 /\ Len(image) + 1 + 2 = Len(image) + 3
      BY <2>0
    <3>6. \A j \in 1 .. Len(bytes) : j = 1 \/ j = 2
      BY <1>1, <2>1
    <3>. QED  BY <3>3, <3>4, <3>5, <3>6
  <2>2. CASE len = 1
    <3>1. Len(image) + 1 + 1 = Len(image) + 2 /\ new[Len(image) + 2] = bytes[1]
      BY <1>1, <2>0, <2>2
    <3>2. ItemFits(symbols, a, c, operand[1], new, Len(image) + 2)
      <4>1. CASE ModeOf[o] = "REL"
        <5>1. operand[1] = item("near")
          BY <1>11, <4>1
        <5>2. PICK d \in -128 .. 127 : d % 256 = bytes[1] /\ v = Org + index + 2 + d
          BY <1>2, <4>1 DEF BranchesTo
        <5>3. v = Org + (Len(image) + 2) + d
          BY <2>0, <5>2
        <5>. QED  BY <1>4, <3>1, <5>1, <5>2, <5>3 DEF ItemFits, item
      <4>2. CASE ModeOf[o] # "REL"
        <5>1. operand[1] = item("short")
          BY <1>11, <2>2, <4>2
        <5>2. new[Len(image) + 2] = v
          BY <1>2, <2>2, <3>1, <4>2
        <5>. QED  BY <1>4, <5>1, <5>2 DEF ItemFits, item
      <4>. QED  BY <4>1, <4>2
    <3>3. \A j \in 1 .. Len(bytes) : j = 1
      BY <1>1, <2>2
    <3>. QED  BY <3>1, <3>2, <3>3
  <2>. QED  BY <1>2, <2>1, <2>2
<1>. HIDE DEF len, narrow, near, short, long, operand
<1>13. Assemble(a, o, narrow, near, short, long) =
         Emit(a, IF len = 0 THEN <<Number(o)>> ELSE <<Number(o)>> \o operand)
  <2>1. a.at \in {"start", "labelled"} /\ len = OperandLength(ModeOf[o])
    BY DEF Good, len
  <2>. QED  BY <1>1, <1>3, <1>8, <1>9, <1>10, <1>11, <2>1, AssembleFact
<1>14. image \in Seq(Byte) /\ Len(operand) = Len(bytes)
  BY <1>1, <1>11 DEF TypeOK
<1>. HIDE DEF c, new
<1>15. Good(symbols,
            Emit(a, IF Len(bytes) = 0 THEN <<Number(o)>> ELSE <<Number(o)>> \o operand),
            new, c, "value")
  <2>. HIDE DEF Item, Byte
  <2>. QED  BY <1>11, <1>12, <1>14, OperandKeeps DEF new, c
<1>. QED  BY <1>1, <1>5, <1>13, <1>15 DEF new, c, len

(* The line of an instruction keeps its bytes and passes over no name.      *)
LEMMA CodeFact ==
  ASSUME TypeOK, Good(symbols, acme, image, Org + index, "start"),
         NEW o \in Byte, NEW bytes \in Seq(Byte), Len(bytes) = OperandLength(ModeOf[o]),
         NoteInstruction(o, bytes) = {}
  PROVE  Good(symbols, NewLine(PutInstruction(o, bytes)), image \o (<<o>> \o bytes),
              Org + index + Len(<<o>> \o bytes), "start")
<1>. DEFINE a == PutLabel(acme)
            i == PutInstruction(o, bytes)
            v == Operand(ModeOf[o], bytes)
            new == image \o (<<o>> \o bytes)
            here == Org + index
<1>1. NoteLabel = {} /\ ModeOf[o] # "ILL" /\ o \notin NotIn6502
  BY NoSnag
<1>2. a.at \in {"start", "labelled"} /\ Good(symbols, a, image, here + 1, a.at)
  BY <1>1, PutLabelFact
<1>3. Good(symbols, i, new, here + 1, "value")
  <2>1. CASE bytes = <<>>
    <3>1. i = Instruction(a, o, 0, FALSE)
      BY <2>1 DEF PutInstruction
    <3>2. OperandLength(ModeOf[o]) = 0 /\ Len(bytes) = 0 /\ ModeOf[o] # "REL"
      <4>1. Len(bytes) = 0
        BY <2>1
      <4>. QED  BY <4>1 DEF OperandLength
    <3>. DEFINE empty == <<>>
    <3>5. Instruction(a, o, 0, FALSE) = Emit(a, <<Number(o)>>)
      <4>. HIDE DEF a
      <4>1. a.at \in {"start", "labelled"}
        BY <1>2
      <4>. QED  BY <1>1, <3>2, <4>1, AloneFact DEF Instruction
    <3>6. image \in Seq(Byte) /\ empty \in Seq(Item) /\ Len(empty) = Len(bytes)
      <4>1. <<>> \in Seq(Item) /\ Len(<<>>) = 0
        <5>. HIDE DEF Item
        <5>. QED  OBVIOUS
      <4>. QED  BY <3>2, <4>1 DEF TypeOK, empty
    <3>. HIDE DEF a, new, here, empty
    <3>7. \A j \in 1 .. Len(bytes) :
            ItemFits(symbols, a, here + 1, empty[j], new, Len(image) + 1 + j)
      BY <3>2
    <3>8. Good(symbols,
               Emit(a, IF Len(bytes) = 0 THEN <<Number(o)>> ELSE <<Number(o)>> \o empty),
               new, here + 1, "value")
      <4>1. new = image \o (<<o>> \o bytes)
        BY DEF new
      <4>. HIDE DEF Item, Byte
      <4>. QED  BY <1>2, <3>6, <3>7, <4>1, OperandKeeps
    <3>. QED  BY <3>1, <3>2, <3>5, <3>8
  <2>2. CASE bytes # <<>> /\ v \in DOMAIN symbols
    <3>1. i = Reference(a, o, symbols[v])
      BY <2>2 DEF PutInstruction
    <3>. HIDE DEF a, v
    <3>2. v = Operand(ModeOf[o], bytes)
      BY DEF v
    <3>. QED  BY <1>2, <2>2, <3>1, <3>2, ReferenceFact
  <2>3. CASE bytes # <<>> /\ v \notin DOMAIN symbols
    <3>1. i = Instruction(a, o, v, OperandLength(ModeOf[o]) = 2 \/ ModeOf[o] = "REL")
      BY <2>3 DEF PutInstruction
    <3>. HIDE DEF a, v
    <3>2. v = Operand(ModeOf[o], bytes)
      BY DEF v
    <3>. QED  BY <1>2, <2>3, <3>1, <3>2, InstructionFact
  <2>. QED  BY <2>1, <2>2, <2>3
<1>. HIDE DEF i, new
<1>4. Good(symbols, NewLine(i), new, here + 1, "start")
  BY <1>3, GoodToken
<1>5. /\ here \in Int /\ symbols \in Symbols /\ Len(bytes) \in Nat
      /\ Len(<<o>> \o bytes) = 1 + Len(bytes)
  <2>1. image \in Seq(Byte)
    BY DEF TypeOK
  <2>2. Len(<<o>> \o bytes) = 1 + Len(bytes)
    <3>. HIDE DEF Byte
    <3>. QED  BY <2>1, ReadFact
  <2>. QED  BY <2>2, ImageAssumption DEF TypeOK
<1>6. \A s \in DOMAIN symbols : ~(here + 1 <= s /\ s < here + 1 + Len(bytes))
  <2>1. \A k \in 1 .. Len(bytes) : here + k \notin DOMAIN symbols
    BY NoSnag
  <2> SUFFICES ASSUME NEW s \in DOMAIN symbols, here + 1 <= s, s < here + 1 + Len(bytes)
               PROVE  FALSE
    OBVIOUS
  <2>2. s \in Int
    BY <1>5, AddressFact
  <2>. HIDE DEF here
  <2>3. s - here \in 1 .. Len(bytes) /\ here + (s - here) = s
    BY <1>5, <2>2
  <2>. QED  BY <2>1, <2>3
<1>. HIDE DEF here
<1>7. /\ LabelsFit(symbols, NewLine(i), here + 1 + Len(bytes))
      /\ Keeps(symbols, NewLine(i), here + 1, NewLine(i), here + 1 + Len(bytes))
  <2>1. here + 1 \in Int /\ here + 1 + Len(bytes) \in Int /\ here + 1 <= here + 1 + Len(bytes)
    BY <1>5
  <2>. QED  BY <1>4, <1>5, <1>6, <2>1, SkipFact DEF Good
<1>8. Good(symbols, NewLine(i), new, here + 1 + Len(bytes), "start")
  BY <1>4, <1>7, ItemKept DEF Good
<1>9. here + 1 + Len(bytes) = here + Len(<<o>> \o bytes)
  BY <1>5
<1>. QED  BY <1>8, <1>9 DEF i, new, here
-----------------------------------------------------------------------------
(* Where in a line the assembler is, seen from the walk.                    *)
Place ==
  CASE pc \in {"line", "done", "failed"} -> "start"
    [] pc = "byte"                       -> "value"
    [] pc = "text"                       -> IF inQuotes THEN "string" ELSE "value"

(* In every state, not only at the end of a line, the assembler has what    *)
(* has been read, is where the walk thinks it is and knows the labels that  *)
(* the walk has passed.                                                     *)
Agrees == snags = {} => Good(symbols, acme, image, Org + index, Place)

WalkInv ==
  /\ TypeOK
  /\ Agrees
  /\ pc = "done" => index >= Size

LEMMA NoteFact == NoteLabel = {} => snags = {}
BY DEF NoteLabel

(* One byte was read, and the assembler has it.                             *)
LEMMA ReadOne ==
  ASSUME TypeOK, NEW b \in Byte, getByte(<<b>>), UNCHANGED symbols, NEW at, Place' = at,
         Good(symbols, acme', image \o <<b>>, Org + index + 1, at)
  PROVE  Agrees'
<1>1. index' = index + 1 /\ image' = image \o <<b>>
  BY OneByte
<1>2. Org + index' = Org + index + 1
  BY <1>1, ImageAssumption DEF TypeOK
<1>. QED  BY <1>1, <1>2 DEF Agrees

LEMMA StartByteKeeps ==
  ASSUME WalkInv, NEW b \in Byte, getByte(<<b>>), StartByte(b), snags' = {}
  PROVE  Agrees'
<1>. DEFINE a == PutLabel(acme)
            c == Org + index + 1
<1>1. NoteLabel = {} /\ pc = "line" /\ pc' = "byte" /\ UNCHANGED symbols
  BY DEF StartByte, setup
<1>2. TypeOK /\ Good(symbols, acme, image, Org + index, "start") /\ image \in Seq(Byte)
  BY <1>1, NoteFact DEF WalkInv, Agrees, Place, TypeOK
<1>3. a.at \in {"start", "labelled"} /\ Good(symbols, a, image, c, a.at)
  BY <1>1, <1>2, PutLabelFact
<1>4. acme' = Hex(Directive(a), b)
  BY DEF StartByte
<1>. HIDE DEF a, c
<1>5. Good(symbols, Directive(a), image, c, "wanted")
  BY <1>3, GoodToken
<1>6. Good(symbols, acme', image \o <<b>>, c, "value")
  BY <1>2, <1>4, <1>5, GoodByte
<1>7. Place' = "value"
  BY <1>1 DEF Place
<1>. QED  BY <1>1, <1>2, <1>6, <1>7, ReadOne DEF c

LEMMA MoreBytesKeeps ==
  ASSUME WalkInv, NEW b \in Byte, getByte(<<b>>), MoreBytes(b), snags' = {}
  PROVE  Agrees'
<1>. DEFINE c == Org + index + 1
<1>1. ~Labelled /\ snags = {} /\ pc = "byte" /\ pc' = "byte" /\ UNCHANGED symbols
  BY DEF MoreBytes, setup
<1>2. TypeOK /\ Good(symbols, acme, image, Org + index, "value") /\ image \in Seq(Byte)
  BY <1>1 DEF WalkInv, Agrees, Place, TypeOK
<1>3. Good(symbols, acme, image, c, "value")
  <2>1. PutLabel(acme) = acme /\ NoteLabel = {} /\ acme.at = "value"
    BY <1>1, <1>2 DEF PutLabel, NoteLabel, Good
  <2>. QED  BY <1>1, <1>2, <2>1, PutLabelFact
<1>4. acme' = Hex(Comma(acme), b)
  BY <1>1 DEF MoreBytes
<1>. HIDE DEF c
<1>5. Good(symbols, Comma(acme), image, c, "wanted")
  BY <1>3, GoodToken
<1>6. Good(symbols, acme', image \o <<b>>, c, "value")
  BY <1>2, <1>4, <1>5, GoodByte
<1>7. Place' = "value"
  BY <1>1 DEF Place
<1>. QED  BY <1>1, <1>2, <1>6, <1>7, ReadOne DEF c

LEMMA StartTextKeeps ==
  ASSUME WalkInv, NEW b \in Byte, getByte(<<b>>), StartText(b), snags' = {}
  PROVE  Agrees'
<1>. DEFINE a == PutLabel(acme)
            c == Org + index + 1
            d == Directive(a)
            at == IF Printable(b) THEN "string" ELSE "value"
<1>1. /\ NoteLabel = {} /\ b # QuoteMark /\ pc = "line" /\ pc' = "text"
      /\ UNCHANGED symbols /\ (inQuotes' <=> Printable(b))
  BY DEF StartText, NoteText, setup
<1>2. TypeOK /\ Good(symbols, acme, image, Org + index, "start") /\ image \in Seq(Byte)
  BY <1>1, NoteFact DEF WalkInv, Agrees, Place, TypeOK
<1>3. a.at \in {"start", "labelled"} /\ Good(symbols, a, image, c, a.at)
  BY <1>1, <1>2, PutLabelFact
<1>4. acme' = IF Printable(b) THEN Char(Quote(d), b) ELSE Hex(d, b)
  BY DEF StartText
<1>. HIDE DEF a, c
<1>5. Good(symbols, d, image, c, "wanted")
  BY <1>3, GoodToken
<1>. HIDE DEF d
<1>6. Good(symbols, acme', image \o <<b>>, c, at)
  <2>1. CASE Printable(b)
    <3>1. Good(symbols, Quote(d), image, c, "string")
      BY <1>5, GoodToken
    <3>2. Good(symbols, Char(Quote(d), b), image \o <<b>>, c, "string")
      BY <1>1, <1>2, <3>1, GoodByte
    <3>. QED  BY <1>4, <2>1, <3>2
  <2>2. CASE ~Printable(b)
    <3>1. Good(symbols, Hex(d, b), image \o <<b>>, c, "value")
      BY <1>2, <1>5, GoodByte
    <3>. QED  BY <1>4, <2>2, <3>1
  <2>. QED  BY <2>1, <2>2
<1>7. Place' = at
  BY <1>1 DEF Place
<1>. HIDE DEF at
<1>. QED  BY <1>1, <1>2, <1>6, <1>7, ReadOne DEF c

LEMMA MoreTextKeeps ==
  ASSUME WalkInv, NEW b \in Byte, getByte(<<b>>), MoreText(b), snags' = {}
  PROVE  Agrees'
<1>. DEFINE at == IF Printable(b) THEN "string" ELSE "value"
<1>1. /\ NoteLabel = {} /\ b # QuoteMark /\ pc = "text" /\ pc' = "text"
      /\ UNCHANGED symbols /\ (inQuotes' <=> Printable(b)) /\ acme' = Text(b)
  BY DEF MoreText, NoteText, setup
<1>2. TypeOK /\ Good(symbols, acme, image, Org + index, IF inQuotes THEN "string" ELSE "value")
  BY <1>1, NoteFact DEF WalkInv, Agrees, Place
<1>3. Good(symbols, acme', image \o <<b>>, Org + index + 1, at)
  BY <1>1, <1>2, TextFact
<1>4. Place' = at
  BY <1>1 DEF Place
<1>. HIDE DEF at
<1>. QED  BY <1>1, <1>2, <1>3, <1>4, ReadOne

LEMMA EndKeeps ==
  ASSUME WalkInv, EndBytes \/ EndText, snags' = {}
  PROVE  Agrees'
<1>1. snags = {} /\ pc' = "line" /\ UNCHANGED <<index, symbols, image>>
  BY DEF EndBytes, EndText, setup
<1>2. Good(symbols, acme, image, Org + index, Place)
  BY <1>1 DEF WalkInv, Agrees
<1>3. Place' = "start"
  BY <1>1 DEF Place
<1>4. Good(symbols, acme', image, Org + index, "start")
  <2>1. CASE EndBytes
    <3>1. pc = "byte" /\ acme' = NewLine(acme)
      BY <2>1 DEF EndBytes
    <3>. QED  BY <1>2, <3>1, GoodToken DEF Place
  <2>2. CASE EndText
    <3>. DEFINE a == IF inQuotes THEN Quote(acme) ELSE acme
    <3>1. pc = "text" /\ acme' = NewLine(a)
      BY <2>2 DEF EndText
    <3>2. Good(symbols, a, image, Org + index, "value")
      <4>1. CASE inQuotes
        <5>1. Good(symbols, acme, image, Org + index, "string")
          BY <1>2, <3>1, <4>1 DEF Place
        <5>. QED  BY <4>1, <5>1, GoodToken
      <4>2. CASE ~inQuotes
        BY <1>2, <3>1, <4>2 DEF Place
      <4>. QED  BY <4>1, <4>2
    <3>. HIDE DEF a
    <3>. QED  BY <3>1, <3>2, GoodToken
  <2>. QED  BY <2>1, <2>2
<1>. QED  BY <1>1, <1>3, <1>4 DEF Agrees

LEMMA CodeKeeps ==
  ASSUME WalkInv, pc = "line" /\ index < Size, NEW o \in Content(index, OpcodeBytes[index]),
         NEW bytes \in Operands(o), Code(o, bytes), snags' = {}
  PROVE  Agrees'
<1>1. NoteInstruction(o, bytes) = {} /\ pc' = "line" /\ UNCHANGED symbols
  BY DEF Code, setup
<1>2. snags = {}
  BY <1>1, NoSnag, NoteFact
<1>3. TypeOK /\ Good(symbols, acme, image, Org + index, "start")
  BY <1>2 DEF WalkInv, Agrees, Place
<1>4. o \in Byte /\ bytes \in Seq(Byte) /\ Len(bytes) = OperandLength(ModeOf[o])
      /\ Len(<<o>> \o bytes) \in Nat
  <2>1. index \in Nat
    BY <1>3 DEF TypeOK
  <2>2. /\ o \in Byte /\ bytes \in Seq(Byte) /\ Len(bytes) = OperandLength(ModeOf[o])
        /\ <<o>> \o bytes \in Seq(Byte)
    BY <2>1, OpcodeAndOperand
  <2>. QED  BY <2>2
<1>5. acme' = NewLine(PutInstruction(o, bytes)) /\ image' = image \o (<<o>> \o bytes)
      /\ index' = index + Len(<<o>> \o bytes)
  BY DEF Code, getByte
<1>6. Org + index' = Org + index + Len(<<o>> \o bytes)
  BY <1>3, <1>4, <1>5, ImageAssumption DEF TypeOK
<1>7. Good(symbols, acme', image', Org + index', "start")
  BY <1>1, <1>3, <1>4, <1>5, <1>6, CodeFact
<1>. QED  BY <1>1, <1>7 DEF Agrees, Place

LEMMA FinishKeeps ==
  ASSUME WalkInv, Finish, snags' = {}
  PROVE  Agrees'
<1>1. snags = {} /\ pc = "line" /\ pc' = "done" /\ UNCHANGED <<index, symbols, image, acme>>
  BY DEF Finish, setup
<1>. QED  BY <1>1 DEF WalkInv, Agrees, Place

LEMMA WalkStep == WalkInv /\ [Next]_vars => WalkInv'
<1> SUFFICES ASSUME WalkInv, [Next]_vars PROVE WalkInv'
  OBVIOUS
<1>1. TypeOK'
  BY TypeStep DEF WalkInv
<1>2. pc' = "done" => index' >= Size
  BY Zenon DEF WalkInv, Next, d6502, StartByte, MoreBytes, StartText, MoreText, EndBytes,
         EndText, Code, Finish, vars
<1>3. Agrees'
  <2>0. CASE snags' # {}
    BY <2>0 DEF Agrees
  <2>1. ASSUME snags' = {}, NEW b \in Content(index, DataBytes),
               StartByte(b) \/ MoreBytes(b) \/ StartText(b) \/ MoreText(b)
        PROVE  Agrees'
    <3>1. b \in Byte /\ getByte(<<b>>)
      BY <2>1, DataFact
    <3>. QED  BY <2>1, <3>1, StartByteKeeps, MoreBytesKeeps, StartTextKeeps, MoreTextKeeps
  <2>2. ASSUME snags' = {}, EndBytes \/ EndText PROVE Agrees'
    BY <2>2, EndKeeps
  <2>3. ASSUME snags' = {}, pc = "line" /\ index < Size,
               NEW o \in Content(index, OpcodeBytes[index]),
               NEW bytes \in Operands(o), Code(o, bytes)
        PROVE  Agrees'
    BY <2>3, CodeKeeps
  <2>4. ASSUME snags' = {}, Finish PROVE Agrees'
    BY <2>4, FinishKeeps
  <2>5. CASE UNCHANGED vars
    <3>1. /\ pc' = pc /\ snags' = snags /\ acme' = acme /\ image' = image
          /\ index' = index /\ symbols' = symbols /\ (inQuotes' <=> inQuotes)
      BY <2>5 DEF vars, setup
    <3>2. Place' = Place
      BY <3>1 DEF Place
    <3>. QED  BY <3>1, <3>2 DEF WalkInv, Agrees
  <2>. QED  BY <2>0, <2>1, <2>2, <2>3, <2>4, <2>5 DEF Next, d6502
<1>. QED  BY <1>1, <1>2, <1>3 DEF WalkInv

(* What is defined in front of everything.                                  *)
LEMMA DumpFact ==
  ASSUME NEW S \in Symbols
  PROVE  LET D == dumpSymbols(S)
         IN  /\ \A n \in DOMAIN D : IsSymbol(n) /\ D[n] \in DOMAIN S /\ S[D[n]] = n
             /\ \A s \in DOMAIN S : ~InRom(s) /\ IsSymbol(S[s]) => \E n \in DOMAIN D : D[n] = s
<1>. DEFINE given == {s \in DOMAIN S : (s < 32768 /\ ~HasPlus(S[s])) \/ s >= 49152}
            D == dumpSymbols(S)
<1>1. D = [n \in {S[s] : s \in given} |-> CHOOSE s \in given : S[s] = n]
  BY DEF dumpSymbols
<1>2. ASSUME NEW s \in given
      PROVE  s \in DOMAIN S /\ IsSymbol(S[s])
  <2>1. s \in DOMAIN S /\ s \in Int /\ S[s] \in Name
    BY AddressFact
  <2>2. ~InRom(s)
    BY <2>1 DEF InRom
  <2>3. ~IsAnonymous(S[s])
    BY <2>1, <2>2, SymbolAssumption
  <2>4. CASE S[s][2] = 0
    BY <2>1, <2>3, <2>4 DEF IsSymbol
  <2>5. CASE S[s][2] # 0
    <3>1. ~(s < 32768)
      <4>1. ~IsSymbol(S[s])
        BY <2>5 DEF IsSymbol
      <4>2. HasPlus(S[s])
        BY <2>5 DEF HasPlus
      <4>3. s < 32768
        BY <2>1, <2>3, <4>1, SymbolAssumption
      <4>. QED  BY <2>1, <4>2, <4>3
    <3>2. IsSymbol(S[s])
      BY <2>1, <2>3, <3>1, SymbolAssumption
    <3>. QED  BY <2>1, <3>2
  <2>. QED  BY <2>4, <2>5
<1>3. ASSUME NEW s \in DOMAIN S, ~InRom(s), IsSymbol(S[s])
      PROVE  s \in given
  <2>1. s \in Int /\ ~HasPlus(S[s])
    BY <1>3, AddressFact, SpeltFact DEF IsSymbol, HasPlus
  <2>. QED  BY <1>3, <2>1 DEF InRom
<1>. HIDE DEF given, D
<1>4. DOMAIN D = {S[s] : s \in given}
  BY <1>1
<1>5. ASSUME NEW n \in DOMAIN D
      PROVE  IsSymbol(n) /\ D[n] \in given /\ S[D[n]] = n
  <2>1. PICK s \in given : S[s] = n
    BY <1>4
  <2>2. D[n] = CHOOSE t \in given : S[t] = n
    BY <1>1, <1>4
  <2>. QED  BY <1>2, <2>1, <2>2
<1>6. ASSUME NEW s \in DOMAIN S, ~InRom(s), IsSymbol(S[s])
      PROVE  \E n \in DOMAIN D : D[n] = s
  <2>1. S[s] \in DOMAIN D
    BY <1>3, <1>4, <1>6
  <2>2. D[S[s]] \in DOMAIN S /\ S[D[S[s]]] = S[s]
    BY <1>2, <1>5, <2>1
  <2>3. D[S[s]] = s
    BY <1>6, <2>2, SymbolAssumption
  <2>. QED  BY <2>1, <2>3
<1>. QED  BY <1>2, <1>5, <1>6 DEF D

LEMMA WalkInit == Init => WalkInv
<1> SUFFICES ASSUME Init PROVE WalkInv
  OBVIOUS
<1>. DEFINE D == dumpSymbols(symbols)
            c == Org + index
<1>0. /\ TypeOK /\ symbols \in Symbols /\ index = 0 /\ image = <<>>
      /\ Org \in Int /\ (pc = "line" \/ pc = "failed") /\ acme = Fresh(D)
  BY TypeInit, ImageAssumption DEF Init
<1>1. /\ \A n \in DOMAIN D : IsSymbol(n) /\ D[n] \in DOMAIN symbols /\ symbols[D[n]] = n
      /\ \A s \in DOMAIN symbols :
           ~InRom(s) /\ IsSymbol(symbols[s]) => \E n \in DOMAIN D : D[n] = s
  BY <1>0, DumpFact
<1>. HIDE DEF D
<1>2. acme = [at |-> "start", out |-> <<>>, defs |-> D, ahead |-> 0, behind |-> 0]
  BY <1>0, <1>1 DEF Fresh
<1>3. Assembler(acme)
  BY <1>2 DEF Assembler
<1>4. LabelsFit(symbols, acme, c)
  <2>1. acme.defs = D /\ acme.ahead = 0 /\ acme.behind = 0
    BY <1>2
  <2>2. \A n \in DOMAIN D : Spelt(n) = n /\ ~IsAnonymous(n)
    BY <1>1, SpeltFact DEF IsSymbol
  <2>3. \A k : <<"+", k>> \notin DOMAIN D /\ <<"-", k>> \notin DOMAIN D
    BY <2>2, SpeltFact
  <2>4. \A s \in DOMAIN symbols : ~(Org <= s /\ s < c)
    BY <1>0, AddressFact
  <2>. HIDE DEF c
  <2>. QED  BY <1>1, <2>1, <2>2, <2>3, <2>4 DEF LabelsFit
<1>. HIDE DEF c
<1>5. Good(symbols, acme, image, c, "start")
  <2>1. acme.at = "start" /\ acme.out = <<>>
    BY <1>2
  <2>2. Len(acme.out) = Len(image) /\ 1 .. Len(image) = {}
    BY <1>0, <2>1
  <2>. QED  BY <1>3, <1>4, <2>1, <2>2 DEF Good
<1>6. Place = "start"
  BY <1>0 DEF Place
<1>. QED  BY <1>0, <1>5, <1>6 DEF WalkInv, Agrees, c

LEMMA WalkHolds == Spec => []WalkInv
BY WalkInit, WalkStep, PTL DEF Spec

(* In the end every item has a value, and the value is the byte.            *)
LEMMA ItemExpressed ==
  ASSUME NEW S \in Symbols, NEW a, NEW img \in Seq(Byte), NEW c \in Int, NEW at,
         Good(S, a, img, c, at), c >= Org + Size, NEW i \in 1 .. Len(img)
  PROVE  Settled(a, i) /\ ByteAt(a, i) = img[i]
<1>. DEFINE item == a.out[i]
            n    == item.of
<1>1. ItemFits(S, a, c, item, img, i) /\ item \in Item /\ img[i] \in Byte
  <2>1. a.out \in Seq(Item) /\ Len(a.out) = Len(img)
    BY DEF Good, Assembler
  <2>2. item \in Item
    <3>. HIDE DEF Item
    <3>. QED  BY <2>1
  <2>3. img[i] \in Byte
    <3>. HIDE DEF Byte
    <3>. QED  OBVIOUS
  <2>. QED  BY <2>2, <2>3 DEF Good
<1>2. \A v : Means(S, a, c, n, v) => Defined(a, n) /\ Value(a, n) = v
  <2> SUFFICES ASSUME NEW v, Means(S, a, c, n, v) PROVE Defined(a, n) /\ Value(a, n) = v
    OBVIOUS
  <2>1. LabelsFit(S, a, c) /\ a.ahead \in Nat
    BY DEF Good, Assembler
  <2>. HIDE DEF n
  <2>2. Defined(a, n)
    BY <2>1, DefinedFact
  <2>. QED  BY <2>1, <2>2, ValueFact
<1>3. item.part \in {"byte", "short", "low", "high", "near"}
  BY <1>1 DEF Item
<1>4. i \in Int /\ Org \in Int
  BY ImageAssumption
<1>. HIDE DEF item, n
<1>5. CASE item.part = "byte"
  <2>1. n = img[i]
    BY <1>1, <1>5 DEF ItemFits, n
  <2>. QED  BY <1>5, <2>1 DEF Settled, ByteAt, item, n
<1>6. CASE item.part = "short"
  <2>1. Means(S, a, c, n, img[i])
    BY <1>1, <1>6 DEF ItemFits, n
  <2>2. Defined(a, n) /\ Value(a, n) = img[i] /\ img[i] < 256
    BY <1>1, <1>2, <2>1, ByteFact
  <2>. QED  BY <1>6, <2>2 DEF Settled, ByteAt, item, n
<1>7. CASE item.part = "low"
  <2>1. i < Len(img) /\ Means(S, a, c, n, img[i] + 256 * img[i + 1])
    BY <1>1, <1>7 DEF ItemFits, n
  <2>2. img[i + 1] \in Byte
    <3>1. i + 1 \in 1 .. Len(img)
      BY <1>4, <2>1
    <3>. HIDE DEF Byte
    <3>. QED  BY <3>1
  <2>3. Defined(a, n) /\ Value(a, n) = img[i] + 256 * img[i + 1]
    BY <1>2, <2>1
  <2>4. (img[i] + 256 * img[i + 1]) % 256 = img[i]
    <3>. DEFINE low == img[i]
                high == img[i + 1]
    <3>1. low \in Byte /\ high \in Byte
      BY <1>1, <2>2
    <3>. HIDE DEF low, high
    <3>2. (low + 256 * high) % 256 = low
      BY <3>1, WordFact
    <3>. QED  BY <3>2 DEF low, high
  <2>5. Value(a, n) % 256 = img[i]
    BY <2>3, <2>4, Zenon
  <2>. QED  BY <1>7, <2>3, <2>5 DEF Settled, ByteAt, item, n
<1>8. CASE item.part = "high"
  <2>1. 1 < i /\ Means(S, a, c, n, img[i - 1] + 256 * img[i])
    BY <1>1, <1>8 DEF ItemFits, n
  <2>2. img[i - 1] \in Byte
    <3>1. i - 1 \in 1 .. Len(img)
      BY <1>4, <2>1
    <3>. HIDE DEF Byte
    <3>. QED  BY <3>1
  <2>3. Defined(a, n) /\ Value(a, n) = img[i - 1] + 256 * img[i]
    BY <1>2, <2>1
  <2>4. (img[i - 1] + 256 * img[i]) \div 256 = img[i]
    <3>. DEFINE low == img[i - 1]
                high == img[i]
    <3>1. low \in Byte /\ high \in Byte
      BY <1>1, <2>2
    <3>. HIDE DEF low, high
    <3>2. (low + 256 * high) \div 256 = high
      BY <3>1, WordFact
    <3>. QED  BY <3>2 DEF low, high
  <2>5. Value(a, n) \div 256 = img[i]
    BY <2>3, <2>4, Zenon
  <2>. QED  BY <1>8, <2>3, <2>5 DEF Settled, ByteAt, item, n
<1>9. CASE item.part = "near"
  <2>1. PICK d \in -128 .. 127 : d % 256 = img[i] /\ Means(S, a, c, n, Org + i + d)
    BY <1>1, <1>9 DEF ItemFits, n
  <2>2. Defined(a, n) /\ Value(a, n) = Org + i + d
    BY <1>2, <2>1
  <2>3. Value(a, n) - (Org + i) = d
    BY <1>4, <2>2
  <2>. QED  BY <1>9, <2>1, <2>2, <2>3 DEF Settled, ByteAt, item, n
<1>. QED  BY <1>3, <1>5, <1>6, <1>7, <1>8, <1>9

(* Whatever the image, what is printed assembles to it again, unless there  *)
(* was something in it that is not expressed (d6502/README: "verify         *)
(* bitwise-identical").                                                     *)
THEOREM SourceReassembles == Spec => []Reassembles
<1>1. WalkInv => Reassembles
  <2> SUFFICES ASSUME WalkInv, pc = "done", snags = {} PROVE Expressed
    BY DEF Reassembles
  <2>1. /\ Good(symbols, acme, image, Org + index, "start") /\ index >= Size
        /\ symbols \in Symbols /\ index \in Nat /\ image \in Seq(Byte)
    BY DEF WalkInv, Agrees, Place, TypeOK
  <2>2. Org + index \in Int /\ Org + index >= Org + Size
    BY <2>1, ImageAssumption
  <2>3. \A i \in 1 .. Len(image) : Settled(acme, i) /\ ByteAt(acme, i) = image[i]
    <3>. HIDE DEF Byte
    <3>. QED  BY <2>1, <2>2, ItemExpressed
  <2>4. acme.at = "start" /\ acme.out \in Seq(Item) /\ Len(acme.out) = Len(image)
    BY <2>1 DEF Good, Assembler
  <2>5. Assembles(acme)
    <3>1. DOMAIN acme.out = 1 .. Len(image)
      <4>. HIDE DEF Item
      <4>. QED  BY <2>4
    <3>. QED  BY <2>3, <2>4, <3>1 DEF Assembles
  <2>6. Binary(acme) = image
    <3>1. Binary(acme) = [i \in 1 .. Len(image) |-> image[i]]
      BY <2>3, <2>4, Zenon DEF Binary
    <3>2. image = [i \in 1 .. Len(image) |-> image[i]]
      <4>. HIDE DEF Byte
      <4>. QED  BY <2>1
    <3>. QED  BY <3>1, <3>2
  <2>. QED  BY <2>5, <2>6 DEF Expressed
<1>. QED  BY <1>1, WalkHolds, PTL

(* Every label that has been defined has the value of an address of its     *)
(* name, and none in what has been read is missing (main.c:791, 925).       *)
THEOREM LabelsStayInPlace == Spec => []LabelsInPlace
<1>1. WalkInv => LabelsInPlace
  <2> SUFFICES ASSUME WalkInv, snags = {} PROVE LabelsInPlace
    BY DEF LabelsInPlace
  <2>1. LabelsFit(symbols, acme, Org + index) /\ symbols \in Symbols /\ index \in Nat
    BY DEF WalkInv, Agrees, Good, TypeOK
  <2>2. ASSUME NEW s \in DOMAIN symbols, s \in Org .. Org + index - 1
        PROVE  \E n \in DOMAIN acme.defs : acme.defs[n] = s
    <3>1. Org <= s /\ s < Org + index
      BY <2>1, <2>2, ImageAssumption
    <3>. QED  BY <2>1, <3>1 DEF LabelsFit
  <2>. QED  BY <2>1, <2>2 DEF LabelsFit, LabelsInPlace
<1>. QED  BY <1>1, WalkHolds, PTL
=============================================================================
