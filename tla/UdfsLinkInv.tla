---------------------------- MODULE UdfsLinkInv -----------------------------
(***************************************************************************)
(* The inductive invariants behind the theorems of UdfsLink_proofs.        *)
(***************************************************************************)
EXTENDS UdfsLink

(* Which state the firmware is in at each of its waiting points, and that  *)
(* its counter is not zero while it still has a byte to count.             *)
CounterInv ==
  /\ avr = "room" => state = "GET_DATA"
  /\ avr = "waitOut" => state = "SEND_RETCODE"
  /\ avr = "waitData" => state = "SEND_DATA"
  /\ avr = "spin" => state = "GET_CHANNEL"
  /\ avr \in {"recvLow", "recvHigh"} \/ (avr \in {"ack", "spin"} /\ resume = "recvLow")
       => state \in {"SEND_LENGTH_LOW", "GET_CHANNEL"}
  /\ state = "GET_DATA" /\ avr # "room" => dataLength # Zero
  /\ state = "SEND_DATA" => dataLength # Zero

(* The BBC is inside one of its loops, before a byte that belongs to the   *)
(* transfer of low + Base * (whole pages) bytes.                           *)
InLoop(low) ==
  /\ y \in Byte
  /\ pages \in Byte
  /\ pages = 0 => y < low

(* send_msg never fetches a byte from outside the block or the request     *)
(* data, and never asks for one past the end of the response.              *)
LoopInv ==
  /\ bbc = "pulse" => y = 0
  /\ bbc = "block" => y \in 0 .. 5
  /\ bbc \in {"pulse", "block"} => pages = req.block[6]
  /\ bbc = "body" => InLoop(req.block[5]) /\ pages <= req.block[6]
  /\ bbc = "data" => InLoop(got.lo)

TypeInv == TypeOK /\ LoopInv

-----------------------------------------------------------------------------
(* Lock-step. The invariant below holds when the AVR hears every reset     *)
(* pulse and Break comes only in a state the pulse recovers from.          *)
Recoverable == {"GET_CHANNEL", "GET_COMMAND", "GET_PARAM1", "GET_PARAM2",
                "GET_LENGTH_LOW", "FINISH"}

(* The AVR has taken, or given, the byte the BBC is waiting for.           *)
HasAcked == waiting /\ cb1

InCall == bbc \notin {"idle", "pulse"}

(* Bytes left to the BBC when low is the low byte of the length, this one  *)
(* included.                                                               *)
Left(low) == pages * Base + low - y

(* CB2 is low for a pulse and for a strobe that has not been acknowledged. *)
LineInv ==
  /\ bbc = "idle" => cb2 = "high"
  /\ bbc = "pulse" => cb2 = "held"
  /\ ~InCall => ~waiting
  /\ InCall => cb2 = IF waiting /\ ~cb1 THEN "strobe" ELSE "high"

(* Who drives the data lines.                                              *)
DriveInv ==
  /\ ddrb <=> bbc \in {"block", "body"}
  /\ bbc \in {"block", "body"} \/ (bbc = "turn" /\ ~HasAcked) => ~ddrd
  /\ bbc \in {"lenlo", "lenhi", "data"} \/ (bbc = "status" /\ HasAcked) => ddrd
  /\ (bbc = "turn" /\ HasAcked) \/ (bbc = "status" /\ ~HasAcked) =>
       \/ ddrd
       \/ avr = "drive"
       \/ avr = "ack" /\ resume = "drive"
  /\ bbc = "drop" => ddrd = ~HasAcked
  /\ waiting /\ ~cb1 /\ bbc \in {"block", "body"} => portb = OutByte
  /\ avr = "spin" => ~ddrd

(* Between calls the firmware is where a pulse finds it polling, with      *)
(* nothing left to do after its acknowledgement but poll again.            *)
BetweenInv ==
  ~InCall =>
    /\ avr \in {"poll", "ack", "spin"}
    /\ avr \in {"ack", "spin"} => resume = "poll"
    /\ \/ state \in Recoverable
       \/ state = "GET_LENGTH_HIGH" /\ avr = "ack" /\ cb2 = "held"

(* In a call the firmware's state is the one for the BBC's byte, or the    *)
(* one after it when that byte has been acknowledged.                      *)
BlockStates == <<"GET_CHANNEL", "GET_COMMAND", "GET_PARAM1", "GET_PARAM2",
                 "GET_LENGTH_LOW", "GET_LENGTH_HIGH">>

StateInv ==
  /\ bbc = "block" =>
       /\ ~HasAcked => state = BlockStates[y + 1]
       /\ HasAcked /\ y < 5 => state = BlockStates[y + 2]
       /\ HasAcked /\ y = 5 => state = IF dataLength # Zero THEN "GET_DATA" ELSE "SEND_PREP"
  /\ bbc = "body" =>
       state = IF HasAcked /\ dataLength = Zero THEN "SEND_PREP" ELSE "GET_DATA"
  /\ bbc = "turn" => state = IF HasAcked THEN "SEND_RETCODE" ELSE "SEND_PREP"
  /\ bbc = "status" => state = IF HasAcked THEN "SEND_LENGTH_LOW" ELSE "SEND_RETCODE"
  /\ bbc = "lenlo" => state = IF HasAcked THEN "SEND_LENGTH_HIGH" ELSE "SEND_LENGTH_LOW"
  /\ bbc = "lenhi" => state = IF ~HasAcked THEN "SEND_LENGTH_HIGH"
                              ELSE IF dataLength # Zero THEN "SEND_DATA" ELSE "FINISH"
  /\ bbc = "data" => state = IF HasAcked /\ dataLength = Zero THEN "FINISH" ELSE "SEND_DATA"
  /\ bbc = "drop" => state = IF HasAcked THEN "GET_CHANNEL" ELSE "FINISH"

(* Where the processor may be, other than polling.                         *)
PointInv ==
  InCall =>
    /\ avr = "ack" => HasAcked \/ ~waiting
    /\ avr = "spin" => bbc = "block" /\ y = 0 /\ ~waiting
    /\ (avr \in {"ack", "spin"} /\ resume = "putHeader") \/ avr \in {"putHeader", "waitIn"} =>
         \/ bbc = "block" /\ y = 5 /\ HasAcked
         \/ bbc \in {"body", "turn"} /\ ~HasAcked
    /\ (avr \in {"ack", "spin"} /\ resume = "drive") \/ avr = "drive" =>
         \/ bbc = "turn" /\ HasAcked
         \/ bbc = "status" /\ ~HasAcked
    /\ (avr \in {"ack", "spin"} /\ resume = "recvLow") \/ avr \in {"recvLow", "recvHigh"} =>
         \/ bbc = "status" /\ HasAcked
         \/ bbc = "lenlo" /\ ~HasAcked
    /\ avr = "room" => bbc = "body" /\ waiting /\ ~cb1
    /\ avr = "waitOut" => bbc = "status" /\ waiting /\ ~cb1
    /\ avr = "waitData" => bbc = "data" /\ waiting /\ ~cb1

(* The firmware's counter agrees with the BBC's Y and page counter, byte   *)
(* for byte, in both directions.                                           *)
CountInv ==
  /\ bbc = "block" /\ (y = 5 \/ (y = 4 /\ HasAcked)) => dataLength[1] = req.block[5]
  /\ bbc = "block" /\ y = 5 /\ HasAcked => dataLength[2] = req.block[6]
  /\ bbc = "body" =>
       Word(dataLength[1], dataLength[2]) =
         Left(req.block[5]) - (IF avr = "room" \/ HasAcked THEN 1 ELSE 0)
  /\ bbc = "lenlo" /\ HasAcked => portd = dataLength[1]
  /\ bbc = "lenhi" => got.lo = dataLength[1]
  /\ bbc = "lenhi" /\ HasAcked => portd = dataLength[2]
  /\ bbc = "data" =>
       Word(dataLength[1], dataLength[2]) = Left(got.lo) - (IF HasAcked THEN 1 ELSE 0)

LockStep ==
  /\ LineInv
  /\ DriveInv
  /\ BetweenInv
  /\ StateInv
  /\ PointInv
  /\ CountInv

-----------------------------------------------------------------------------
(* What the buffers hold. The invariant below holds on the same terms when *)
(* the server runs first, and no request makes it trap.                    *)

(* GET_LENGTH_HIGH has the six bytes and has not put them yet.             *)
HeaderDue == avr = "putHeader" \/ (avr = "ack" /\ resume = "putHeader")

(* SEND_RETCODE has given the status and not taken the length's low byte.  *)
LengthDue == avr = "recvLow" \/ (avr = "ack" /\ resume = "recvLow")

(* Nothing of a request is on its way, or nothing of a response any more.  *)
Quiet == \/ state \in {"GET_CHANNEL", "GET_COMMAND", "GET_PARAM1", "GET_PARAM2",
                       "GET_LENGTH_LOW", "GET_LENGTH_HIGH", "FINISH"}
         \/ HeaderDue

(* The firmware's copy of the header, as far as the block has been sent.   *)
HeaderInv ==
  /\ bbc = "block" =>
       \A i \in 1 .. 4 : i <= y \/ (i = y + 1 /\ HasAcked) => hdr[i] = req.block[i]
  /\ HeaderDue => /\ \A i \in 1 .. 4 : hdr[i] = req.block[i]
                  /\ dataLength = <<req.block[5], req.block[6]>>
                  /\ state = IF dataLength # Zero THEN "GET_DATA" ELSE "SEND_PREP"
  /\ bbc = "pulse" \/ (bbc = "block" /\ ~(y = 5 /\ HasAcked)) \/ HeaderDue => ~served

(* Both banks are empty, and the host waits for a header. An empty packet  *)
(* may still be unacknowledged: Break in FINISH during ackByte skips the   *)
(* acknowledgement, and the next response's wait makes up for it.          *)
QuietInv ==
  Quiet => /\ host = "header"
           /\ inBank = <<>> /\ ~inFull
           /\ outBank = <<>>

(* Bytes of the request data that have been put into the IN bank.          *)
Moved == Len(req.body) - Word(dataLength[1], dataLength[2]) - (IF avr = "room" THEN 1 ELSE 0)

(* The header packet is in the bank.                                       *)
HeaderWaits ==
  /\ host = "header"
  /\ inFull /\ Len(inBank) = 6
  /\ \A i \in 1 .. 6 : inBank[i] = req.block[i]
  /\ state = "GET_DATA" => avr = "waitIn"
  /\ dataLength = <<req.block[5], req.block[6]>>

(* What the host has read, and behind it what is in the bank, are the      *)
(* bytes moved so far; the bank is handed over when it is full and when    *)
(* the last byte has been put, and never otherwise.                        *)
BodyComing ==
  /\ host = "body"
  /\ hreq = req.block
  /\ Len(hbody) < Len(req.body)
  /\ Len(hbody) + Len(inBank) = Moved
  /\ \A i \in 1 .. Len(hbody) : hbody[i] = req.body[i]
  /\ \A i \in 1 .. Len(inBank) : inBank[i] = req.body[Len(hbody) + i]
  /\ avr = "room" => ch = req.body[Moved + 1] /\ (~inFull => Len(inBank) < EpSize)
  /\ inFull => Len(inBank) = EpSize \/ Moved = Len(req.body)
  /\ Moved = Len(req.body) => inFull
  /\ avr = "waitIn" => ~inFull

RequestComplete ==
  /\ host = "execute"
  /\ hreq = req.block
  /\ hbody = req.body
  /\ inBank = <<>> /\ ~inFull
  /\ state # "GET_DATA"

(* The request on its way to the server.                                   *)
ForwardInv ==
  ~Quiet /\ ~served =>
    /\ state \in {"GET_DATA", "SEND_PREP", "SEND_RETCODE"}
    /\ state # "GET_DATA" => dataLength = Zero
    /\ outBank = <<>>
    /\ HeaderWaits \/ BodyComing \/ RequestComplete

(* The response header, or what is left of it, is in the OUT bank.         *)
HeaderOut ==
  /\ outReady
  /\ host = IF Word(answer.lo, answer.hi) # 0 THEN "respBody" ELSE "header"
  /\ host = "respBody" => rsp = answer
  /\ state \in {"SEND_PREP", "SEND_RETCODE"} =>
       outBank = <<answer.status, answer.lo, answer.hi>>
  /\ LengthDue => outBank = <<answer.lo, answer.hi>>
  /\ avr = "recvHigh" => outBank = <<answer.hi>> /\ dataLength[1] = answer.lo

(* The first n bytes of the OUT bank, and behind them what the host has    *)
(* yet to write, are the end of the response's data.                       *)
Rest == Word(dataLength[1], dataLength[2])
Unwritten == IF host = "respBody" THEN Len(rsp.data) ELSE 0

DataOut ==
  /\ host \in {"respBody", "header"}
  /\ state \in {"SEND_LENGTH_LOW", "SEND_LENGTH_HIGH"} => dataLength = <<answer.lo, answer.hi>>
  /\ Len(outBank) + Unwritten = Rest
  /\ Rest <= Len(answer.data)
  /\ outBank # <<>> => outReady
  /\ \A i \in 1 .. Len(outBank) : outBank[i] = answer.data[Len(answer.data) - Rest + i]
  /\ host = "respBody" =>
       /\ rsp.data # <<>>
       /\ \A i \in 1 .. Len(rsp.data) :
            rsp.data[i] = answer.data[Len(answer.data) - Len(rsp.data) + i]

(* The response on its way to the BBC.                                     *)
AnswerInv ==
  ~Quiet /\ served =>
    /\ state \in SendStates
    /\ inBank = <<>> /\ ~inFull
    /\ IF state \in {"SEND_PREP", "SEND_RETCODE"} /\ host = "respHeader"
         THEN rsp = answer /\ outBank = <<>>
       ELSE IF state \in {"SEND_PREP", "SEND_RETCODE"} \/ LengthDue \/ avr = "recvHigh"
         THEN HeaderOut
       ELSE DataOut

(* What send_msg has returned so far is the answer, as far as it has come, *)
(* and the answer is the one to this request.                              *)
ReturnInv ==
  /\ InCall /\ served =>
       /\ answer = ExecuteRequest(req.block, req.body, 0)
       /\ Len(answer.data) = Word(answer.lo, answer.hi)
  /\ bbc \in {"lenlo", "lenhi", "data", "drop"} \/ (bbc = "status" /\ HasAcked) => served
  /\ bbc = "status" /\ HasAcked => portd = answer.status
  /\ bbc \in {"lenlo", "lenhi", "data", "drop"} => got.status = answer.status
  /\ bbc = "lenhi" /\ HasAcked => dataLength = <<answer.lo, answer.hi>>
  /\ bbc \in {"data", "drop"} => got.lo = answer.lo /\ got.hi = answer.hi
  /\ bbc \notin {"idle", "data", "drop"} => got.data = <<>>
  /\ bbc \in {"data", "drop"} => \A i \in 1 .. Len(got.data) : got.data[i] = answer.data[i]
  /\ bbc = "data" =>
       /\ Len(got.data) + (IF HasAcked THEN 1 ELSE 0) = Len(answer.data) - Rest
       /\ HasAcked => portd = answer.data[Len(got.data) + 1]
  /\ bbc = "drop" => Len(got.data) = Len(answer.data)

(* No request makes the server divide by zero.                             *)
NoTraps == \A r \in Requests : ~Traps(r.block)

(* No answer depends on what older requests left in reqBuffer, or on what  *)
(* lies behind the image.                                                  *)
NothingStale ==
  \A r \in Requests, junk \in Byte :
    ExecuteRequest(r.block, r.body, junk) = ExecuteRequest(r.block, r.body, 0)

DataInv ==
  /\ HeaderInv
  /\ QuietInv
  /\ ForwardInv
  /\ AnswerInv
  /\ ReturnInv
=============================================================================
