------------------------------- MODULE Bytes --------------------------------
(***************************************************************************)
(* Bytes and two-byte words. A byte has Base values; a page is Base bytes, *)
(* so that the low byte of a length counts within a page and the high byte *)
(* counts pages, as on the 6502.                                           *)
(***************************************************************************)
EXTENDS Integers, Sequences

CONSTANT
  Base    \* number of values a byte takes (256 in the hardware)

ASSUME BaseAssumption == Base \in Nat /\ Base >= 4

Byte == 0 .. Base - 1

Word(lo, hi) == lo + Base * hi

(* The conversions to uint8 and the two bytes of a uint16.                 *)
Uint8(n) == n % Base
LowOf(n) == n % Base
HighOf(n) == (n \div Base) % Base

(* A request's six header bytes, and a response.                           *)
Block == [1 .. 6 -> Byte]
Reply == [status : Byte, lo : Byte, hi : Byte, data : Seq(Byte)]
NoReply == [status |-> 0, lo |-> 0, hi |-> 0, data |-> <<>>]

=============================================================================
