-------------------------------- MODULE Acme --------------------------------
(***************************************************************************)
(* The ACME assembler as the disassembler's README uses it: what it makes   *)
(* of the text, one token at a time. A token that does not fit the place    *)
(* stops it with an error. It is a record [at, out, defs, ahead, behind]:   *)
(* where in a line it is, what it has produced, the value of every symbol   *)
(* it has met a definition of, and how many "+" and "-" labels there were.  *)
(*                                                                         *)
(* A name is a pair of a word and a number: <<w, 0>> is the symbol w,       *)
(* <<w, k>> is the sum "w+k". The anonymous labels, which a source may have *)
(* many of, are counted: a "+" stands for the next one, a "-" for the last. *)
(*                                                                         *)
(* An item of the output is a byte, or a name and what is wanted of its     *)
(* value, which is known when the whole source has been read.               *)
(***************************************************************************)
EXTENDS Opcodes, Integers, Sequences

CONSTANT Org  \* address of the first byte ("* =")

QuoteMark == 34
Forward  == <<"+", 0>>
Backward == <<"-", 0>>

(* Opcodes of the table that the 6502, ACME's default processor, lacks.     *)
NotIn6502 == {18, 26, 50, 52, 58, 60, 82, 114, 124, 137, 146, 178, 210, 242}

IsAnonymous(n) == n[1] \in {"+", "-"}
IsSymbol(n) == ~IsAnonymous(n) /\ n[2] = 0

(* "name = value" in front of the code; a sum cannot be given a value.      *)
Fresh(given) ==
  [at     |-> IF \A n \in DOMAIN given : IsSymbol(n) THEN "start" ELSE "error",
   out    |-> <<>>,
   defs   |-> given,
   ahead  |-> 0,
   behind |-> 0]

Stop(a) == [a EXCEPT !.at = "error"]
Number(v) == [part |-> "byte", of |-> v]
Emit(a, items) == [a EXCEPT !.at = "value", !.out = @ \o items]
Here(a) == Org + Len(a.out)

(* A symbol may be defined again with the same value.                       *)
Define(a, n) ==
  IF n \in DOMAIN a.defs /\ a.defs[n] # Here(a) THEN Stop(a)
  ELSE [a EXCEPT !.at = "labelled",
                 !.defs = [m \in DOMAIN @ \cup {n} |-> IF m = n THEN Here(a) ELSE @[m]]]

Label(a, n) ==
  CASE a.at # "start" -> Stop(a)
    [] a.at = "start" /\ n = Forward ->
         Define([a EXCEPT !.ahead = @ + 1], <<"+", a.ahead + 1>>)
    [] a.at = "start" /\ n = Backward ->
         Define([a EXCEPT !.behind = @ + 1], <<"-", a.behind + 1>>)
    [] a.at = "start" /\ IsSymbol(n) -> Define(a, n)
    [] OTHER -> Stop(a)

(* !byte and !text ask for values separated by commas.                      *)
Directive(a) ==
  IF a.at \in {"start", "labelled"} THEN [a EXCEPT !.at = "wanted"] ELSE Stop(a)
Comma(a) == IF a.at = "value" THEN [a EXCEPT !.at = "wanted"] ELSE Stop(a)
Hex(a, v) == IF a.at = "wanted" THEN Emit(a, <<Number(v)>>) ELSE Stop(a)

NewLine(a) ==
  IF a.at \in {"start", "labelled", "value"} THEN [a EXCEPT !.at = "start"] ELSE Stop(a)

(* A string is closed by the first quote mark, whatever was meant by it.    *)
Quote(a) ==
  CASE a.at = "wanted" -> [a EXCEPT !.at = "string"]
    [] a.at = "string" -> [a EXCEPT !.at = "value"]
    [] OTHER           -> Stop(a)

Char(a, v) ==
  IF a.at = "string" /\ v # QuoteMark THEN [a EXCEPT !.out = Append(@, Number(v))]
  ELSE Quote(a)
-----------------------------------------------------------------------------
(* The opcodes that an instruction, as it is written, may stand for, for    *)
(* every length of the operand.                                             *)
Candidates ==
  [o \in 0 .. 255 |-> [len \in 0 .. 2 |->
     {p \in 0 .. 255 \ NotIn6502 :
        /\ MnemonicOf[p] = MnemonicOf[o] /\ MnemonicOf[p] # "ill"
        /\ Shape(ModeOf[p]) = Shape(ModeOf[o]) /\ OperandLength(ModeOf[p]) = len}]]

(* The 6502's opcodes can be told apart by what is printed of them: there   *)
(* are only 256, so that this is evaluated and not proved.                  *)
ASSUME OpcodesDiffer ==
  \A o \in 0 .. 255 \ NotIn6502 :
    LET len == OperandLength(ModeOf[o])
    IN  ModeOf[o] # "ILL" =>
          /\ Candidates[o][len] = {o}
          /\ len > 0 => Candidates[o][0] = {}
          /\ len = 2 => \A p \in Candidates[o][1] : ModeOf[p] # "REL"
          /\ ModeOf[o] = "REL" => Candidates[o][2] = {}

TheOpcode(S) == CHOOSE o \in S : TRUE

(* The mnemonic and the operand's shape are those of opcode o. What follows *)
(* it may be a branch's distance, one byte or two; narrow says that one is  *)
(* enough.                                                                  *)
Assemble(a, o, narrow, near, short, long) ==
  LET none    == Candidates[o][0]
      shorts  == Candidates[o][1]
      longs   == Candidates[o][2]
      branch  == \E p \in shorts : ModeOf[p] = "REL"
      code(S) == <<Number(TheOpcode(S))>>
  IN  IF a.at \notin {"start", "labelled"} THEN Stop(a)
      ELSE IF none # {} THEN Emit(a, code(none))
      ELSE IF branch THEN IF near = <<>> THEN Stop(a) ELSE Emit(a, code(shorts) \o near)
      ELSE IF shorts # {} /\ narrow THEN Emit(a, code(shorts) \o short)
      ELSE IF longs # {} THEN Emit(a, code(longs) \o long)
      ELSE Stop(a)

(* An operand in figures; four of them ask for two bytes.                   *)
Instruction(a, o, v, fourDigits) ==
  LET distance == v - Here(a) - 2
  IN  Assemble(a, o, v < 256 /\ ~fourDigits,
               IF distance \in -128 .. 127 THEN <<Number(distance % 256)>> ELSE <<>>,
               <<Number(v)>>,
               <<Number(v % 256), Number(v \div 256)>>)

(* The symbol that a name takes its value from.                             *)
Stem(n) == IF IsAnonymous(n) THEN n ELSE <<n[1], 0>>
Defined(a, n) == Stem(n) \in DOMAIN a.defs
Value(a, n) == IF IsAnonymous(n) THEN a.defs[n] ELSE a.defs[Stem(n)] + n[2]

Counted(a, n) ==
  CASE n = Forward  -> <<"+", a.ahead + 1>>
    [] n = Backward -> <<"-", a.behind>>
    [] OTHER        -> n

(* An operand that is a name, by now known or not.                          *)
Reference(a, o, n) ==
  LET name       == Counted(a, n)
      item(part) == [part |-> part, of |-> name]
  IN  Assemble(a, o, Candidates[o][2] = {} \/ (Defined(a, name) /\ Value(a, name) < 256),
               <<item("near")>>, <<item("short")>>, <<item("low"), item("high")>>)
-----------------------------------------------------------------------------
(* What the assembler complains of when it has read everything: a symbol    *)
(* without a value, a value too large, a branch too far.                    *)
Settled(a, i) ==
  LET part == a.out[i].part
      n    == a.out[i].of
  IN  part # "byte" =>
        /\ Defined(a, n)
        /\ part = "short" => Value(a, n) < 256
        /\ part = "near" => Value(a, n) - (Org + i) \in -128 .. 127

Assembles(a) == a.at = "start" /\ \A i \in DOMAIN a.out : Settled(a, i)

(* And what it writes into the file.                                        *)
ByteAt(a, i) ==
  LET n == a.out[i].of
  IN  CASE a.out[i].part = "byte"  -> n
        [] a.out[i].part = "short" -> Value(a, n)
        [] a.out[i].part = "low"   -> Value(a, n) % 256
        [] a.out[i].part = "high"  -> Value(a, n) \div 256
        [] a.out[i].part = "near"  -> (Value(a, n) - (Org + i)) % 256

Binary(a) == [i \in 1 .. Len(a.out) |-> ByteAt(a, i)]
==============================================================================
