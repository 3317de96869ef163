------------------------------- MODULE Opcodes -------------------------------
(***************************************************************************)
(* The opcode table of the disassembler: which opcodes a mnemonic has, and  *)
(* which opcodes use an addressing mode. An opcode in neither is "ill".     *)
(***************************************************************************)
EXTENDS Naturals

Mnemonics == [
   brk |-> {0}, ora |-> {1, 5, 9, 13, 17, 18, 21, 25, 29},
   asl |-> {6, 10, 14, 22, 30}, php |-> {8}, bpl |-> {16}, clc |-> {24},
   inc |-> {26, 230, 238, 246, 254}, jsr |-> {32},
   and |-> {33, 37, 41, 45, 49, 50, 53, 57, 61},
   bit |-> {36, 44, 52, 60, 137}, rol |-> {38, 42, 46, 54, 62}, plp |-> {40},
   bmi |-> {48}, sec |-> {56}, dec |-> {58, 198, 206, 214, 222},
   rti |-> {64}, eor |-> {65, 69, 73, 77, 81, 82, 85, 89, 93},
   lsr |-> {70, 74, 78, 86, 94}, pha |-> {72}, jmp |-> {76, 108, 124},
   bvc |-> {80}, cli |-> {88}, rts |-> {96},
   adc |-> {97, 101, 105, 109, 113, 114, 117, 121, 125},
   ror |-> {102, 106, 110, 118, 126}, pla |-> {104}, bvs |-> {112},
   sei |-> {120}, sta |-> {129, 133, 141, 145, 146, 149, 153, 157},
   sty |-> {132, 140, 148}, stx |-> {134, 142, 150}, dey |-> {136},
   txa |-> {138}, bcc |-> {144}, tya |-> {152}, txs |-> {154},
   ldy |-> {160, 164, 172, 180, 188},
   lda |-> {161, 165, 169, 173, 177, 178, 181, 185, 189},
   ldx |-> {162, 166, 174, 182, 190}, tay |-> {168}, tax |-> {170},
   bcs |-> {176}, clv |-> {184}, tsx |-> {186}, cpy |-> {192, 196, 204},
   cmp |-> {193, 197, 201, 205, 209, 210, 213, 217, 221}, iny |-> {200},
   dex |-> {202}, bne |-> {208}, cld |-> {216}, cpx |-> {224, 228, 236},
   sbc |-> {225, 229, 233, 237, 241, 242, 245, 249, 253}, inx |-> {232},
   nop |-> {234}, beq |-> {240}, sed |-> {248}]

Modes == [
   IMP |-> {0, 8, 24, 40, 56, 64, 72, 88, 96, 104, 120, 136, 138, 152, 154,
      168, 170, 184, 186, 200, 202, 216, 232, 234, 248},
   INDX |-> {1, 33, 65, 97, 129, 161, 193, 225},
   ZP |-> {5, 6, 36, 37, 38, 69, 70, 101, 102, 132, 133, 134, 164, 165, 166,
      196, 197, 198, 228, 229, 230},
   IMM |-> {9, 41, 73, 105, 137, 160, 162, 169, 192, 201, 224, 233},
   ACC |-> {10, 26, 42, 58, 74, 106},
   ABS |-> {13, 14, 32, 44, 45, 46, 76, 77, 78, 109, 110, 140, 141, 142, 172,
      173, 174, 204, 205, 206, 236, 237, 238},
   REL |-> {16, 48, 80, 112, 144, 176, 208, 240},
   INDY |-> {17, 49, 81, 113, 145, 177, 209, 241},
   IND |-> {18, 50, 82, 108, 114, 146, 178, 210, 242},
   ZPX |-> {21, 22, 52, 53, 54, 85, 86, 117, 118, 148, 149, 180, 181, 213,
      214, 245, 246},
   ABSY |-> {25, 57, 89, 121, 153, 185, 190, 217, 249},
   ABSX |-> {29, 30, 60, 61, 62, 93, 94, 124, 125, 126, 157, 188, 189, 221,
      222, 253, 254},
   ZPY |-> {150, 182}]

MnemonicOf ==
  [o \in 0 .. 255 |->
     IF \E m \in DOMAIN Mnemonics : o \in Mnemonics[m]
       THEN CHOOSE m \in DOMAIN Mnemonics : o \in Mnemonics[m] ELSE "ill"]

ModeOf ==
  [o \in 0 .. 255 |->
     IF \E m \in DOMAIN Modes : o \in Modes[m]
       THEN CHOOSE m \in DOMAIN Modes : o \in Modes[m] ELSE "ILL"]

OperandLength(mode) ==
  CASE mode \in {"ILL", "IMP", "ACC"}          -> 0
    [] mode \in {"ABS", "IND", "ABSX", "ABSY"} -> 2
    [] OTHER                                   -> 1

(* How the operand is written; two modes that differ only in the width of   *)
(* the address are written alike.                                           *)
Shape(mode) ==
  CASE mode \in {"ILL", "IMP", "ACC"} -> "none"
    [] mode \in {"ABS", "ZP", "REL"}  -> "address"
    [] mode \in {"ABSX", "ZPX"}       -> "address,x"
    [] mode \in {"ABSY", "ZPY"}       -> "address,y"
    [] OTHER                          -> mode
==============================================================================
