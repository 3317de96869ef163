------------------------------ MODULE MCD6502 ------------------------------
(***************************************************************************)
(* Bounds for model-checking D6502.                                         *)
(***************************************************************************)
EXTENDS D6502, FiniteSetsExt

MCWords == {"zp", "below", "os", "rom"}

(* Every layout of a short image whose last two bytes are data.             *)
MCMaps ==
  {m \in [0 .. Size - 1 -> Kinds] : m[Size - 2] # "code" /\ m[Size - 1] # "code"}

(* Opcodes that are written differently: brk, lda #, jsr, sta zp,           *)
(* ldx abs,y, lda (,x), sty zp,x, bne, and one that is not in the table.    *)
MCOpcodeBytes ==
  [i \in 0 .. Size - 1 |->
     {0, 169, 32, 133, 190, 161, 148, 208, 34}]

(* In zero page a symbol and a sum of it, outside the ROM a symbol a branch *)
(* can reach from the image and one above. In the ROM a symbol, or two      *)
(* anonymous labels of a kind.                                              *)
ZeroPage == [s \in {0, 1} |-> <<"zp", s>>]
Outside == [s \in {32642, 49152} |-> IF s = 32642 THEN <<"below", 0>> ELSE <<"os", 0>>]

With(S, n) ==
  [s \in DOMAIN ZeroPage \cup DOMAIN Outside \cup S |->
     IF s \in S THEN n ELSE IF s \in DOMAIN Outside THEN Outside[s] ELSE ZeroPage[s]]

MCSymbols ==
  {With({s}, <<"rom", 0>>) : s \in 32768 .. 32771} \cup
  {With(S, n) : S \in kSubset(2, {32768, 32769, 32771}), n \in {Forward, Backward}}

MCBuilds == {b \in Build : b.lowFirst = b.charSigned}
==============================================================================
