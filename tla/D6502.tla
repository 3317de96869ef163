-------------------------------- MODULE D6502 --------------------------------
(***************************************************************************)
(* The disassembler that made the ROM's source: it walks over the image     *)
(* and prints a line for every instruction and for every region marked as   *)
(* bytes or as text. What it prints goes, token by token, into the          *)
(* assembler of Acme; whether that gives the image back is the question.    *)
(*                                                                         *)
(* A byte of the image is chosen when it is read: the code reads each once. *)
(* The tables of loadSymbols and initMap are parameters. What C leaves open *)
(* is chosen at the start: what lies behind the map, and what the build     *)
(* makes of two expressions.                                                *)
(***************************************************************************)
EXTENDS Acme

CONSTANTS
  Size,          \* bytes main asks for, and the length of the map (0x4000)
  FileLengths,   \* lengths the file may have
  Maps,          \* what initMap may have marked: "code", "byte" or "text"
  Overhangs,     \* how many bytes behind the map may continue its last region
  Words,         \* the words in names
  Symbols,       \* what loadSymbols may have set: functions from addresses to names
  Builds,        \* what the compiler may have chosen
  OpcodeBytes,   \* for each place, the bytes an instruction may start with
  OperandBytes,  \* bytes an operand may have
  DataBytes      \* bytes a region may have

Kinds == {"code", "byte", "text"}
Byte == 0 .. 255
Address == 0 .. 65535
Name == (Words \X Nat) \cup {Forward, Backward}

(* The order in which main.c:690 fetches its two bytes, and the sign of the *)
(* char of main.c:779.                                                      *)
Build == [lowFirst: BOOLEAN, charSigned: BOOLEAN]

ASSUME ImageAssumption ==
  /\ Size \in Nat /\ Org \in Nat /\ FileLengths \subseteq Nat
  /\ \A h \in Overhangs : h \in Nat /\ Org + Size + h <= 65536
ASSUME ByteAssumption ==
  /\ OpcodeBytes \in [0 .. Size - 1 -> SUBSET Byte]
  /\ OperandBytes \subseteq Byte /\ DataBytes \subseteq Byte
ASSUME TableAssumption ==
  /\ Maps \subseteq [0 .. Size - 1 -> Kinds] /\ Builds \subseteq Build
  /\ \A S \in Symbols : DOMAIN S \subseteq Address /\ \A s \in DOMAIN S : S[s] \in Name
ASSUME WordAssumption == "+" \notin Words /\ "-" \notin Words

InRom(s) == 32768 <= s /\ s < 49152

(* loadSymbols (38-473): a symbol is given to one address, a sum lies that  *)
(* far above its symbol and below the ROM; anonymous labels are in the ROM, *)
(* and the ROM's names in the image.                                        *)
ASSUME SymbolAssumption ==
  \A S \in Symbols : \A s \in DOMAIN S :
    LET n == S[s]
    IN  /\ InRom(s) => s \in Org .. Org + Size - 1
        /\ IsAnonymous(n) => InRom(s)
        /\ IsSymbol(n) => \A t \in DOMAIN S : S[t] = n => t = s
        /\ ~IsAnonymous(n) /\ ~IsSymbol(n) =>
             s < 32768 /\ s - n[2] \in DOMAIN S /\ S[s - n[2]] = <<n[1], 0>>

(* The map ends in a region of at least two bytes, so that no instruction   *)
(* before it is cut off (initMap, 574: text from 0x3a3b to the end).        *)
ASSUME LastRegionAssumption ==
  \A m \in Maps : \A i \in {Size - 2, Size - 1} : i \in DOMAIN m => m[i] # "code"

VARIABLES
  map,       \* kind of every byte
  symbols,   \* the names of addresses
  build,     \* the compiler's choices
  fileLen,   \* bytes of the file
  overhang,  \* bytes behind the map that continue its last region
  index,     \* bytes consumed
  pc,        \* "line" in main's loop, "byte" or "text" in a region's, "done", "failed"
  inQuotes,  \* a string is open
  image,     \* the bytes consumed, in order
  acme,      \* the assembler that reads what is printed
  snags      \* history: things in the image the disassembler does not express

setup == <<map, symbols, build, fileLen, overhang>>
vars == <<setup, index, pc, inQuotes, image, acme, snags>>
-----------------------------------------------------------------------------
(* Mutant: the loop of a region asks for the byte before.                   *)
MapAtBefore(i) ==
  IF i = 0 THEN map[0] ELSE IF i <= Size THEN map[i - 1]
  ELSE IF i <= Size + overhang THEN map[Size - 1] ELSE "other"

(* The loop of a region asks on behind the map, where it finds what follows *)
(* the structure in memory.                                                 *)
MapAt(i) ==
  IF i < Size THEN map[i] ELSE IF i < Size + overhang THEN map[Size - 1] ELSE "other"

Labelled == Org + index \in DOMAIN symbols
PutLabel(a) == IF Labelled THEN Label(a, symbols[Org + index]) ELSE a

HasPlus(n) == n = Forward \/ n[2] # 0

(* The names outside the ROM are defined in front of everything.            *)
dumpSymbols(S) ==
  LET given == {s \in DOMAIN S : (s < 32768 /\ ~HasPlus(S[s])) \/ s >= 49152}
  IN  [n \in {S[s] : s \in given} |-> CHOOSE s \in given : S[s] = n]

(* loadFile fails without the file or without memory for it.                *)
Init ==
  /\ map \in Maps /\ symbols \in Symbols /\ build \in Builds
  /\ fileLen \in FileLengths /\ overhang \in Overhangs
  /\ pc \in {"line", "failed"}
  /\ index = 0 /\ image = <<>>
  /\ inQuotes = FALSE
  /\ acme = Fresh(dumpSymbols(symbols))
  /\ snags = {}

(* Behind the file comes a zero, and then anything.                         *)
Content(i, bytes) == IF i = fileLen THEN {0} ELSE bytes

(* Mutant: the bytes of an operand are not counted.                         *)
getByteOnce(bytes) ==
  /\ index' = index + 1
  /\ image' = image \o bytes

getByte(bytes) ==
  /\ index' = index + Len(bytes)
  /\ image' = image \o bytes

Printable(b) == 32 <= b /\ b < 127

(* A sum cannot be a label.                                                 *)
NoteLabel ==
  IF Labelled /\ ~IsAnonymous(symbols[Org + index]) /\ ~IsSymbol(symbols[Org + index])
    THEN snags \cup {"sum"} ELSE snags
-----------------------------------------------------------------------------
StartByte(b) ==
  /\ pc = "line" /\ index < Size /\ map[index] = "byte"
  /\ getByte(<<b>>)
  /\ acme' = Hex(Directive(PutLabel(acme)), b)
  /\ pc' = "byte"
  /\ snags' = NoteLabel
  /\ UNCHANGED <<setup, inQuotes>>

(* A label inside the region starts a line without a directive.             *)
MoreBytes(b) ==
  /\ pc = "byte" /\ MapAt(index) = "byte"
  /\ getByte(<<b>>)
  /\ acme' = IF Labelled THEN Hex(PutLabel(NewLine(acme)), b) ELSE Hex(Comma(acme), b)
  /\ snags' = IF Labelled THEN snags \cup {"label among bytes"} ELSE snags
  /\ UNCHANGED <<setup, pc, inQuotes>>

EndBytes ==
  /\ pc = "byte" /\ MapAt(index) # "byte"
  /\ acme' = NewLine(acme)
  /\ pc' = "line"
  /\ UNCHANGED <<setup, index, inQuotes, image, snags>>
-----------------------------------------------------------------------------
NoteText(b) == NoteLabel \cup (IF b = QuoteMark THEN {"quote"} ELSE {})

StartText(b) ==
  /\ pc = "line" /\ index < Size /\ map[index] = "text"
  /\ getByte(<<b>>)
  /\ LET a == Directive(PutLabel(acme))
     IN  acme' = IF Printable(b) THEN Char(Quote(a), b) ELSE Hex(a, b)
  /\ inQuotes' = Printable(b)
  /\ snags' = NoteText(b)
  /\ pc' = "text"
  /\ UNCHANGED setup

(* Mutant: the line is ended but the label is forgotten.                    *)
RelabelledWithout == Directive(NewLine(IF inQuotes THEN Quote(acme) ELSE acme))

(* A label ends the string and the line; the next value then takes no comma *)
(* and the string is opened again.                                          *)
Relabelled ==
  Directive(PutLabel(NewLine(IF inQuotes THEN Quote(acme) ELSE acme)))

(* Mutant: needComma stays true behind a label.                             *)
TextWithCommas(b) ==
  LET a == IF Labelled THEN Relabelled ELSE acme
      open == inQuotes /\ ~Labelled
  IN  CASE Printable(b) /\ open -> Char(a, b)
        [] Printable(b) /\ ~open -> Char(Quote(Comma(a)), b)
        [] ~Printable(b) /\ open -> Hex(Comma(Quote(a)), b)
        [] OTHER                 -> Hex(Comma(a), b)

Text(b) ==
  CASE Labelled /\ Printable(b)  -> Char(Quote(Relabelled), b)
    [] Labelled /\ ~Printable(b) -> Hex(Relabelled, b)
    [] OTHER -> CASE Printable(b) /\ inQuotes  -> Char(acme, b)
                  [] Printable(b) /\ ~inQuotes -> Char(Quote(Comma(acme)), b)
                  [] ~Printable(b) /\ inQuotes -> Hex(Comma(Quote(acme)), b)
                  [] OTHER                     -> Hex(Comma(acme), b)

MoreText(b) ==
  /\ pc = "text" /\ MapAt(index) = "text"
  /\ getByte(<<b>>)
  /\ acme' = Text(b)
  /\ inQuotes' = Printable(b)
  /\ snags' = NoteText(b)
  /\ UNCHANGED <<setup, pc>>

EndText ==
  /\ pc = "text" /\ MapAt(index) # "text"
  /\ acme' = NewLine(IF inQuotes THEN Quote(acme) ELSE acme)
  /\ inQuotes' = FALSE
  /\ pc' = "line"
  /\ UNCHANGED <<setup, index, image, snags>>
-----------------------------------------------------------------------------

Word(bytes) ==
  IF build.lowFirst THEN bytes[1] + 256 * bytes[2] ELSE bytes[2] + 256 * bytes[1]

(* A branch goes to the byte after it and the operand, taken as a char.     *)
Distance(b) == IF b < 128 \/ ~build.charSigned THEN b ELSE b - 256
Target(b) == (Org + index + 2 + Distance(b)) % 65536

(* The address an operand stands for.                                       *)
Operand(mode, bytes) ==
  CASE OperandLength(mode) = 2 -> Word(bytes)
    [] mode = "REL"            -> Target(bytes[1])
    [] OTHER                   -> bytes[1]

PutInstruction(o, bytes) ==
  LET mode == ModeOf[o]
      v    == Operand(mode, bytes)
      a    == PutLabel(acme)
  IN  CASE bytes = <<>> -> Instruction(a, o, 0, FALSE)
        [] bytes # <<>> /\ v \in DOMAIN symbols -> Reference(a, o, symbols[v])
        [] OTHER -> Instruction(a, o, v, OperandLength(mode) = 2 \/ mode = "REL")

(* The anonymous label at v is not the one that is meant here: there is     *)
(* another on the way, or v lies on the other side.                         *)
Misled(v) ==
  LET here == Org + index
      Same == {s \in DOMAIN symbols : symbols[s] = symbols[v]}
  IN  \/ symbols[v] = Forward /\ (v <= here \/ \E s \in Same : here < s /\ s < v)
      \/ symbols[v] = Backward /\ (v > here \/ \E s \in Same : v < s /\ s <= here)

(* What cannot be written, or not by this build: an opcode ACME does not    *)
(* know; the name of a place inside an instruction or of another anonymous  *)
(* label; a zero-page name where an address has two bytes; those bytes      *)
(* swapped; a branch backwards without a sign, or round the ends of the     *)
(* address space.                                                           *)
NoteInstruction(o, bytes) ==
  LET mode  == ModeOf[o]
      v     == Operand(mode, bytes)
      named == bytes # <<>> /\ v \in DOMAIN symbols
      Note(condition, snag) == IF condition THEN {snag} ELSE {}
  IN  UNION {
        NoteLabel,
        Note(mode = "ILL" \/ o \in NotIn6502, "opcode"),
        Note(\E k \in 1 .. Len(bytes) : Org + index + k \in DOMAIN symbols, "label inside"),
        Note(named /\ Misled(v), "anonymous"),
        Note(named /\ Len(bytes) = 2 /\ v < 256 /\ Candidates[o][1] # {}, "short name"),
        Note(Len(bytes) = 2 /\ ~build.lowFirst /\ bytes[1] # bytes[2], "order"),
        Note(mode = "REL" /\ bytes[1] >= 128 /\ ~build.charSigned, "sign"),
        Note(mode = "REL" /\ Org + index + 2 + Distance(bytes[1]) \notin Address, "wrap") }

Code(o, bytes) ==
  /\ pc = "line" /\ index < Size /\ map[index] = "code"
  /\ getByte(<<o>> \o bytes)
  /\ acme' = NewLine(PutInstruction(o, bytes))
  /\ snags' = NoteInstruction(o, bytes)
  /\ UNCHANGED <<setup, pc, inQuotes>>

(* The operands an instruction may have, byte by byte.                      *)
Operands(o) ==
  {bytes \in [1 .. OperandLength(ModeOf[o]) -> OperandBytes \cup {0}] :
     \A k \in DOMAIN bytes : bytes[k] \in Content(index + k, OperandBytes)}
-----------------------------------------------------------------------------
(* Mutant: the loop of main waits for the exact end.                        *)
FinishAtSize ==
  /\ pc = "line" /\ index = Size
  /\ pc' = "done"
  /\ UNCHANGED <<setup, index, inQuotes, image, acme, snags>>

Finish ==
  /\ pc = "line" /\ index >= Size
  /\ pc' = "done"
  /\ UNCHANGED <<setup, index, inQuotes, image, acme, snags>>

d6502 ==
  \/ \E b \in Content(index, DataBytes) :
       StartByte(b) \/ MoreBytes(b) \/ StartText(b) \/ MoreText(b)
  \/ EndBytes \/ EndText
  \/ /\ pc = "line" /\ index < Size
     /\ \E o \in Content(index, OpcodeBytes[index]) :
          \E bytes \in Operands(o) : Code(o, bytes)

Next == d6502 \/ Finish

Spec == Init /\ [][Next]_vars /\ WF_vars(Next)
-----------------------------------------------------------------------------
(* Every variable has its type, and as many bytes are kept as were read.    *)
TypeOK ==
  /\ map \in Maps /\ symbols \in Symbols /\ build \in Builds
  /\ fileLen \in FileLengths /\ overhang \in Overhangs
  /\ index \in Nat /\ image \in Seq(Byte) /\ Len(image) = index
  /\ pc \in {"line", "byte", "text", "done", "failed"}
  /\ inQuotes \in BOOLEAN

(* An instruction may reach into the region that follows it, since main     *)
(* asks only at the start of a line (992), but whatever it reaches into and *)
(* whatever follows the map in memory, no byte is read behind the last one  *)
(* that is marked (803, 823).                                               *)
NoOverrun == index <= Size + overhang

Expressed == Assembles(acme) /\ Binary(acme) = image

(* The assembler gives back, byte for byte, what has been read              *)
(* (d6502/README: "verify bitwise-identical"), unless there was something   *)
(* in the image that the disassembler does not express.                     *)
Reassembles == pc = "done" /\ snags = {} => Expressed

Spelt(n) == IF IsAnonymous(n) THEN <<n[1], 0>> ELSE n

(* Every label that has been defined, be it in front of an instruction, in  *)
(* the middle of a text or in front of everything, has the value of an      *)
(* address of that name, and no name in what has been read was forgotten.   *)
LabelsInPlace ==
  snags = {} =>
    /\ \A n \in DOMAIN acme.defs :
         acme.defs[n] \in DOMAIN symbols /\ symbols[acme.defs[n]] = Spelt(n)
    /\ \A s \in DOMAIN symbols :
         s \in Org .. Org + index - 1 => \E n \in DOMAIN acme.defs : acme.defs[n] = s

(* The walk ends.                                                           *)
Terminates == <>(pc \in {"done", "failed"})
==============================================================================
