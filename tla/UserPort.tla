------------------------------ MODULE UserPort ------------------------------
(***************************************************************************)
(* The ribbon cable between the BBC's user port (6522 VIA, port B) and the *)
(* AVR: eight shared data lines and two handshake lines.                   *)
(*                                                                         *)
(*   CB2 (BBC -> AVR, read as PINC bit 2) is low in two situations: while  *)
(*   send_msg holds it low with pcr=$C0 (the reset pulse, "held"), and     *)
(*   after a write to drb in handshake mode, until the VIA sees the        *)
(*   acknowledging edge on CB1 ("strobe").                                 *)
(*   CB1 (AVR -> BBC, PORTC bit 4) sets the VIA's interrupt flag on its    *)
(*   falling edge; a write to drb clears the flag.                         *)
(***************************************************************************)
EXTENDS Bytes

CONSTANT
  Noise   \* the bytes that lines nobody drives, or both drive, may read as

ASSUME NoiseAssumption == Noise \subseteq Byte /\ Noise # {}

VARIABLES
  cb2,    \* level of CB2, and why it is low: "high", "held" or "strobe"
  cb1,    \* the VIA's CB1 flag (ifr bit 4)
  ddrb,   \* the BBC drives the data lines
  portb,  \* the VIA's output register
  ddrd,   \* the AVR drives the data lines
  portd   \* the AVR's output register

portVars == <<cb2, cb1, ddrb, portb, ddrd, portd>>

PortTypeOK ==
  /\ cb2 \in {"high", "held", "strobe"}
  /\ cb1 \in BOOLEAN
  /\ ddrb \in BOOLEAN
  /\ portb \in Byte
  /\ ddrd \in BOOLEAN
  /\ portd \in Byte

PortInit ==
  /\ cb2 = "high"
  /\ cb1 = FALSE
  /\ ddrb = FALSE
  /\ portb = 0
  /\ ddrd = FALSE
  /\ portd = 0

(* What a read of the data lines may return: the byte of the only driver,  *)
(* and noise when nobody drives them or both do.                           *)
Lines ==
  IF ddrb /\ ~ddrd THEN {portb}
  ELSE IF ddrd /\ ~ddrb THEN {portd}
  ELSE Noise

(* PORTC = 0: the falling edge sets the flag and, in handshake mode, makes *)
(* the VIA release CB2. A CB2 held low by pcr=$C0 stays low.               *)
AckEdge ==
  /\ cb1' = TRUE
  /\ cb2' = IF cb2 = "strobe" THEN "high" ELSE cb2

=============================================================================
