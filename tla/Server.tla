------------------------------- MODULE Server -------------------------------
(***************************************************************************)
(* The host program (server/main.c): open the device, then read a request  *)
(* header, read its body, execute it, write the response header, write the *)
(* response body, for ever. Any libusb failure but a read timeout ends the *)
(* program.                                                                *)
(***************************************************************************)
EXTENDS UsbPipes

CONSTANTS
  diskImage,    \* the bytes of the image named on the command line
  toBbc,        \* the contents of to_bbc.dat
  ServerFirst   \* the server runs before the BBC makes its first call

ASSUME DiskImageAssumption == diskImage \in Seq(Byte)
ASSUME ToBbcAssumption == toBbc \in Seq(Byte)
ASSUME ServerFirstAssumption == ServerFirst \in BOOLEAN

VARIABLES
  host,   \* where the program is; "off" before it starts, "dead" after it ends
  hreq,   \* reqHeader
  hbody,  \* reqBuffer, as far as it has been read
  rsp,    \* rspHeader and what is left to write of rspBuffer
  fromBbc \* the contents of from_bbc.dat

hostVars == <<host, hreq, hbody, rsp, fromBbc>>

HostPoints == {"off", "header", "body", "execute", "respHeader", "respBody", "dead"}

HostInit ==
  /\ host = IF ServerFirst THEN "header" ELSE "off"
  /\ hreq = [i \in 1 .. 6 |-> 0]
  /\ hbody = <<>>
  /\ rsp = NoReply
  /\ fromBbc = <<>>

-----------------------------------------------------------------------------
DEFAULT == 0
CALC == 0
READ_BLOCK == 1
RW_FILE == 2

RC_SUCCESS == 0
RC_UNRECOGNISED_COMMAND == 1
RC_UNRECOGNISED_CHANNEL == 2

(* A response carries the length as a uint16, and as much of rspBuffer.    *)
Respond(status, bytes) ==
  LET lo == LowOf(Len(bytes))
      hi == HighOf(Len(bytes))
  IN  [status |-> status, lo |-> lo, hi |-> hi, data |-> SubSeq(bytes, 1, Word(lo, hi))]

Calc(p1, p2) ==
  <<Uint8(p1 + p2), Uint8(p1 - p2), Uint8(p1 * p2), Uint8(p1 \div p2)>>

(* length bytes of the image from the start of a block; past its end, what *)
(* the memory behind the array holds: junk.                                *)
ReadImage(block, length, junk) ==
  [i \in 1 .. length |->
    LET at == block * Base + i IN IF at <= Len(diskImage) THEN diskImage[at] ELSE junk]

(* executeRequest. reqBuffer keeps what earlier requests left beyond the   *)
(* body of this one: junk.                                                 *)
ExecuteRequest(block, body, junk) ==
  LET buffer(i) == IF i <= Len(body) THEN body[i] ELSE junk
  IN  IF block[1] # DEFAULT THEN Respond(RC_UNRECOGNISED_CHANNEL, <<>>)
      ELSE CASE block[2] = CALC -> Respond(RC_SUCCESS, Calc(block[3], block[4]))
             [] block[2] = READ_BLOCK ->
                  Respond(RC_SUCCESS, ReadImage(Word(buffer(1), buffer(2) % 4),
                                                Word(buffer(3), buffer(4)), junk))
             [] block[2] = RW_FILE -> Respond(RC_SUCCESS, toBbc)
             [] OTHER -> Respond(RC_UNRECOGNISED_COMMAND, <<>>)

(* The division in CALC traps.                                             *)
Traps(block) == block[1] = DEFAULT /\ block[2] = CALC /\ block[4] = 0

-----------------------------------------------------------------------------
(* The host takes the packet in the IN bank. *)
TakeIn ==
  /\ inFull
  /\ inBank' = <<>>
  /\ inFull' = FALSE
  /\ UNCHANGED <<outBank, outReady>>

(* The host fills the OUT bank. *)
WritePacket(bytes) ==
  /\ ~outReady
  /\ outBank' = bytes
  /\ outReady' = TRUE
  /\ UNCHANGED <<inBank, inFull>>

(* usbOpenDevice sets the configuration. The request is served by          *)
(* USB_USBTask, between two calls of doMessaging: idle says that the AVR   *)
(* is there, stuck that it never will be before the request times out.     *)
Open(idle) ==
  /\ host = "off"
  /\ idle
  /\ host' = "header"
  /\ ConfigureEndpoints
  /\ UNCHANGED <<hreq, hbody, rsp, fromBbc>>

OpenFails(stuck) ==
  /\ host = "off"
  /\ stuck
  /\ host' = "dead"
  /\ UNCHANGED <<hreq, hbody, rsp, fromBbc, usbVars>>

(* Slip: the body of a request is not read. *)
ReadHeaderOnly ==
  /\ host = "header"
  /\ Len(inBank) <= 6
  /\ TakeIn
  /\ hreq' = [i \in 1 .. 6 |-> IF i <= Len(inBank) THEN inBank[i] ELSE hreq[i]]
  /\ hbody' = <<>>
  /\ host' = "execute"
  /\ UNCHANGED <<rsp, fromBbc>>

(* A read of six bytes: a longer packet is an overflow, which libusb       *)
(* reports as an error. A shorter one ends the transfer.                   *)
ReadHeader ==
  /\ host = "header"
  /\ Len(inBank) <= 6
  /\ TakeIn
  /\ hreq' = [i \in 1 .. 6 |-> IF i <= Len(inBank) THEN inBank[i] ELSE hreq[i]]
  /\ hbody' = <<>>
  /\ host' = IF Word(hreq'[5], hreq'[6]) # 0 THEN "body" ELSE "execute"
  /\ UNCHANGED <<rsp, fromBbc>>

HeaderOverflow ==
  /\ host = "header"
  /\ Len(inBank) > 6
  /\ TakeIn
  /\ host' = "dead"
  /\ UNCHANGED <<hreq, hbody, rsp, fromBbc>>

(* A read of length bytes takes packet after packet until the length is    *)
(* reached or a packet falls short.                                        *)
BodyLength == Word(hreq[5], hreq[6])
BodyWith(pkt) == hbody \o pkt

ReadBody ==
  /\ host = "body"
  /\ Len(BodyWith(inBank)) <= BodyLength
  /\ TakeIn
  /\ hbody' = BodyWith(inBank)
  /\ host' = IF Len(inBank) < EpSize \/ Len(hbody') = BodyLength THEN "execute" ELSE "body"
  /\ UNCHANGED <<hreq, rsp, fromBbc>>

BodyOverflow ==
  /\ host = "body"
  /\ Len(BodyWith(inBank)) > BodyLength
  /\ TakeIn
  /\ host' = "dead"
  /\ UNCHANGED <<hreq, hbody, rsp, fromBbc>>

Execute(junk) ==
  /\ host = "execute"
  /\ ~Traps(hreq)
  /\ rsp' = ExecuteRequest(hreq, hbody, junk)
  /\ fromBbc' = IF hreq[1] = DEFAULT /\ hreq[2] = RW_FILE THEN hbody ELSE fromBbc
  /\ host' = "respHeader"
  /\ UNCHANGED <<hreq, hbody, usbVars>>

DivideByZero ==
  /\ host = "execute"
  /\ Traps(hreq)
  /\ host' = "dead"
  /\ UNCHANGED <<hreq, hbody, rsp, fromBbc, usbVars>>

WriteHeader ==
  /\ host = "respHeader"
  /\ WritePacket(<<rsp.status, rsp.lo, rsp.hi>>)
  /\ host' = IF Word(rsp.lo, rsp.hi) # 0 THEN "respBody" ELSE "header"
  /\ UNCHANGED <<hreq, hbody, rsp, fromBbc>>

WriteBody ==
  LET n == IF Len(rsp.data) > EpSize THEN EpSize ELSE Len(rsp.data) IN
  /\ host = "respBody"
  /\ WritePacket(SubSeq(rsp.data, 1, n))
  /\ rsp' = [rsp EXCEPT !.data = SubSeq(@, n + 1, Len(@))]
  /\ host' = IF n = Len(rsp.data) THEN "header" ELSE "respBody"
  /\ UNCHANGED <<hreq, hbody, fromBbc>>

(* A write that nobody collects times out (5 s, 60 s) and ends the program. *)
WriteTimeout(collecting) ==
  /\ host \in {"respHeader", "respBody"}
  /\ outReady
  /\ ~collecting
  /\ host' = "dead"
  /\ UNCHANGED <<hreq, hbody, rsp, fromBbc, usbVars>>

HostStep ==
  \/ ReadHeader
  \/ HeaderOverflow
  \/ ReadBody
  \/ BodyOverflow
  \/ \E junk \in Byte : Execute(junk)
  \/ DivideByZero
  \/ WriteHeader
  \/ WriteBody

=============================================================================
