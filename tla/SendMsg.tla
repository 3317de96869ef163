------------------------------ MODULE SendMsg -------------------------------
(***************************************************************************)
(* send_msg, the BBC's half of the link (udfs_rom.s, and the same routine  *)
(* in uptx_rom.s). A call resets the AVR with a pulse on CB2, sends a      *)
(* six-byte block and the request data, turns the data lines round, and    *)
(* collects a status, a length and the response data. Every byte is        *)
(* strobed by a write to drb and acknowledged on CB1.                      *)
(***************************************************************************)
EXTENDS UserPort

CONSTANT
  Requests  \* the requests callers make: [block |-> six bytes, body |-> bytes]

ASSUME RequestsAssumption ==
  \A r \in Requests :
    /\ r.block \in Block
    /\ r.body \in Seq(Byte)
    /\ Len(r.body) = Word(r.block[5], r.block[6])

VARIABLES
  bbc,      \* where send_msg is
  waiting,  \* send_byte is polling ifr
  req,      \* the parameter block and request data of the call
  y,        \* the Y register
  pages,    \* whole pages left: send_length+1, then param2
  got       \* what the call has returned so far

bbcVars == <<bbc, waiting, req, y, pages, got>>

Phases == {"idle", "pulse", "block", "body", "turn",
           "status", "lenlo", "lenhi", "data", "drop"}

BbcTypeOK ==
  /\ bbc \in Phases
  /\ waiting \in BOOLEAN
  /\ req \in Requests
  /\ y \in Nat
  /\ pages \in Nat
  /\ got \in Reply

BbcInit ==
  /\ bbc = "idle"
  /\ waiting = FALSE
  /\ req \in Requests
  /\ y = 0
  /\ pages = 0
  /\ got = NoReply

-----------------------------------------------------------------------------
(* The counting of the send and the receive loop: Y runs through pages     *)
(* whole pages, then up to the low byte of the length.                     *)
NextY == (y + 1) % Base
NextPages == IF pages > 0 /\ NextY = 0 THEN pages - 1 ELSE pages
Exhausted(pos, left, lo) == left = 0 /\ pos = lo

(* Slip: data_ptr+1 is not incremented at the end of a page. *)
OffsetInPage(total) == y

(* Offset of data_ptr+Y from where a transfer of total pages began.        *)
Offset(total) == (total - pages) * Base + y

(* drb is written with the accumulator; only while the BBC drives the      *)
(* lines does its value matter.                                            *)
OutByte ==
  CASE bbc = "block" -> req.block[y + 1]
    [] bbc = "body"  -> req.body[Offset(req.block[6]) + 1]
    [] OTHER         -> portb

-----------------------------------------------------------------------------
(* A caller fills the parameter block and calls send_msg, which stops      *)
(* driving the lines and pulls CB2 low.                                    *)
Start(r) ==
  /\ bbc = "idle"
  /\ bbc' = "pulse"
  /\ req' = r
  /\ y' = 0
  /\ pages' = r.block[6]
  /\ got' = NoReply
  /\ ddrb' = FALSE
  /\ cb2' = "held"
  /\ UNCHANGED <<waiting, cb1, portb, ddrd, portd>>

(* Eight nops later: CB2 high, handshake mode, drive the lines.            *)
EndPulse ==
  /\ bbc = "pulse"
  /\ bbc' = "block"
  /\ cb2' = "high"
  /\ ddrb' = TRUE
  /\ UNCHANGED <<waiting, req, y, pages, got, cb1, portb, ddrd, portd>>

(* Slip: sta drb in a mode where it does not clear the flag. *)
StrobeKeepsFlag ==
  /\ bbc \notin {"idle", "pulse"}
  /\ ~waiting
  /\ waiting' = TRUE
  /\ portb' = OutByte
  /\ cb2' = "strobe"
  /\ UNCHANGED <<bbc, req, y, pages, got, ddrb, cb1, ddrd, portd>>

(* send_byte: sta drb.                                                     *)
Strobe ==
  /\ bbc \notin {"idle", "pulse"}
  /\ ~waiting
  /\ waiting' = TRUE
  /\ portb' = OutByte
  /\ cb1' = FALSE
  /\ cb2' = "strobe"
  /\ UNCHANGED <<bbc, req, y, pages, got, ddrb, ddrd, portd>>

(* Slip: "tell AVR to send" without ddrb=0. *)
SendNextKeepsDriving(pos, left) ==
  /\ y' = pos
  /\ pages' = left
  /\ bbc' = IF Exhausted(pos, left, req.block[5]) THEN "turn" ELSE "body"
  /\ ddrb' = TRUE

(* After a byte of the request: more of it, or ddrb=0 and "tell AVR to     *)
(* send".                                                                  *)
SendNext(pos, left) ==
  LET done == Exhausted(pos, left, req.block[5]) IN
  /\ y' = pos
  /\ pages' = left
  /\ bbc' = IF done THEN "turn" ELSE "body"
  /\ ddrb' = ~done

(* After the length or a byte of the response: more of it, or "tell AVR to *)
(* drop bus".                                                              *)
RecvNext(pos, left, lo) ==
  /\ y' = pos
  /\ pages' = left
  /\ bbc' = IF Exhausted(pos, left, lo) THEN "drop" ELSE "data"

(* send_byte returns once the flag is up; what follows depends on the call *)
(* site. In the second half of a call that is a read b of the data lines.  *)
Acked ==
  /\ waiting
  /\ cb1
  /\ waiting' = FALSE
  /\ UNCHANGED <<req, cb2, cb1, portb, ddrd, portd>>

BlockAcked ==
  /\ bbc = "block"
  /\ Acked
  /\ UNCHANGED got
  /\ IF y < 5
       THEN y' = y + 1 /\ UNCHANGED <<bbc, pages, ddrb>>
       ELSE SendNext(0, pages)

BodyAcked ==
  /\ bbc = "body"
  /\ Acked
  /\ SendNext(NextY, NextPages)
  /\ UNCHANGED got

TurnAcked ==
  /\ bbc = "turn"
  /\ Acked
  /\ bbc' = "status"
  /\ UNCHANGED <<y, pages, got, ddrb>>

StatusAcked(b) ==
  /\ bbc = "status"
  /\ Acked
  /\ b \in Lines
  /\ bbc' = "lenlo"
  /\ got' = [got EXCEPT !.status = b]
  /\ UNCHANGED <<y, pages, ddrb>>

LenLowAcked(b) ==
  /\ bbc = "lenlo"
  /\ Acked
  /\ b \in Lines
  /\ bbc' = "lenhi"
  /\ got' = [got EXCEPT !.lo = b]
  /\ UNCHANGED <<y, pages, ddrb>>

LenHighAcked(b) ==
  /\ bbc = "lenhi"
  /\ Acked
  /\ b \in Lines
  /\ got' = [got EXCEPT !.hi = b]
  /\ RecvNext(0, b, got.lo)
  /\ UNCHANGED ddrb

DataAcked(b) ==
  /\ bbc = "data"
  /\ Acked
  /\ b \in Lines
  /\ got' = [got EXCEPT !.data = Append(@, b)]
  /\ RecvNext(NextY, NextPages, got.lo)
  /\ UNCHANGED ddrb

DropAcked ==
  /\ bbc = "drop"
  /\ Acked
  /\ bbc' = "idle"
  /\ UNCHANGED <<y, pages, got, ddrb>>

(* Break: the reset line clears the VIA (data lines and CB2 become inputs, *)
(* the flag goes) and the call is forgotten.                               *)
Break ==
  /\ bbc # "idle"
  /\ bbc' = "idle"
  /\ waiting' = FALSE
  /\ got' = NoReply
  /\ cb2' = "high"
  /\ cb1' = FALSE
  /\ ddrb' = FALSE
  /\ portb' = 0
  /\ UNCHANGED <<req, y, pages, ddrd, portd>>

=============================================================================
