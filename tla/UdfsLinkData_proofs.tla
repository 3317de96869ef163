------------------------- MODULE UdfsLinkData_proofs --------------------------
(***************************************************************************)
(* The bytes a call moves, for every length of its request and of its       *)
(* response: what is in the header, the two banks, the server's buffers and *)
(* the result is always the right part of the right message. With the lock- *)
(* step of UdfsLink_proofs this makes the link implement Rpc.               *)
(***************************************************************************)
EXTENDS UdfsLink_proofs, SequenceTheorems

FlowInv == LockInv /\ DataInv

LEMMA FlowFacts ==
  ASSUME FlowInv
  PROVE  /\ bbc \in Phases /\ avr \in AvrPoints /\ resume \in Resumes /\ state \in States
         /\ waiting \in BOOLEAN /\ cb1 \in BOOLEAN
         /\ y \in Nat /\ pages \in Nat
         /\ hdr \in [1 .. 4 -> Byte] /\ dataLength \in Byte \X Byte
         /\ req \in Requests
         /\ req.block \in [1 .. 6 -> Byte] /\ req.body \in Seq(Byte)
         /\ Len(req.body) = Word(req.block[5], req.block[6])
         /\ inBank \in Seq(Byte) /\ Len(inBank) <= EpSize /\ inFull \in BOOLEAN
         /\ outBank \in Seq(Byte) /\ Len(outBank) <= EpSize /\ outReady \in BOOLEAN
         /\ host \in HostPoints /\ hreq \in [1 .. 6 -> Byte] /\ hbody \in Seq(Byte)
         /\ rsp \in Reply /\ answer \in Reply /\ got \in Reply
         /\ served \in BOOLEAN
<1>1. TypeOK
  BY DEF FlowInv, LockInv, TypeInv
<1>2. req \in Requests /\ got \in Reply
  BY <1>1 DEF TypeOK, BbcTypeOK
<1>3. req.block \in [1 .. 6 -> Byte] /\ req.body \in Seq(Byte)
      /\ Len(req.body) = Word(req.block[5], req.block[6])
  BY <1>2, RequestsAssumption DEF Block
<1>4. hreq \in [1 .. 6 -> Byte]
  BY <1>1 DEF TypeOK, Block
<1>5. QED
  BY <1>1, <1>2, <1>3, <1>4 DEF TypeOK, PortTypeOK, BbcTypeOK, AvrTypeOK

LEMMA RestFacts ==
  ASSUME FlowInv
  PROVE  /\ Rest \in Nat
         /\ Rest = 0 <=> dataLength = Zero
         /\ dataLength = <<dataLength[1], dataLength[2]>>
         /\ dataLength[1] \in Byte /\ dataLength[2] \in Byte
<1>1. dataLength \in Byte \X Byte
  BY FlowFacts
<1>2. /\ dataLength = <<dataLength[1], dataLength[2]>>
      /\ dataLength[1] \in Byte /\ dataLength[2] \in Byte
  BY <1>1
<1>3. Word(dataLength[1], dataLength[2]) \in Nat
  BY <1>2, WordIsNat
<1>4. dataLength = Zero <=> Word(dataLength[1], dataLength[2]) = 0
  BY <1>1, WordZero
<1>5. QED
  BY <1>2, <1>3, <1>4 DEF Rest

(* A response carries as many bytes as its length says.                     *)
LEMMA RespondLength ==
  ASSUME NEW status \in Byte, NEW bytes \in Seq(Byte)
  PROVE  Len(Respond(status, bytes).data) =
           Word(Respond(status, bytes).lo, Respond(status, bytes).hi)
<1> DEFINE n == Word(LowOf(Len(bytes)), HighOf(Len(bytes)))
<1>1. n \in Nat
  BY ByteArithmetic, WordIsNat
<1>2. n <= Len(bytes)
  BY BaseAssumption DEF Word, LowOf, HighOf
<1>3. Len(SubSeq(bytes, 1, n)) = n
  BY <1>1, <1>2
<1>4. QED
  BY <1>3 DEF Respond

LEMMA AnswerLength ==
  ASSUME NEW block \in Block, NEW body \in Seq(Byte), NEW junk \in Byte, ~Traps(block)
  PROVE  LET a == ExecuteRequest(block, body, junk) IN Len(a.data) = Word(a.lo, a.hi)
<1> DEFINE buffer(i) == IF i <= Len(body) THEN body[i] ELSE junk
<1>1. <<>> \in Seq(Byte) /\ {RC_SUCCESS, RC_UNRECOGNISED_COMMAND, RC_UNRECOGNISED_CHANNEL} \subseteq Byte
  BY BaseAssumption DEF Byte, RC_SUCCESS, RC_UNRECOGNISED_COMMAND, RC_UNRECOGNISED_CHANNEL
<1>2. PICK status \in Byte, bytes \in Seq(Byte) : ExecuteRequest(block, body, junk) = Respond(status, bytes)
  <2>1. CASE block[1] # DEFAULT
    BY <1>1, <2>1 DEF ExecuteRequest
  <2>2. CASE block[1] = DEFAULT /\ block[2] = CALC
    <3>1. Calc(block[3], block[4]) \in Seq(Byte)
      BY <2>2, CalcType DEF Block, Traps
    <3>2. QED
      BY <1>1, <2>2, <3>1 DEF ExecuteRequest, CALC, READ_BLOCK, RW_FILE
  <2>3. CASE block[1] = DEFAULT /\ block[2] = READ_BLOCK
    <3>1. \A i \in 1 .. 4 : buffer(i) \in Byte
      OBVIOUS
    <3>2. buffer(2) % 4 \in Byte
      BY <3>1, BaseAssumption DEF Byte
    <3>3. Word(buffer(1), buffer(2) % 4) \in Nat /\ Word(buffer(3), buffer(4)) \in Nat
      <4> HIDE DEF buffer
      <4>1. \A lo, hi \in Byte : Word(lo, hi) \in Nat
        BY WordIsNat
      <4>2. QED
        BY <3>1, <3>2, <4>1
    <3>4. ReadImage(Word(buffer(1), buffer(2) % 4), Word(buffer(3), buffer(4)), junk) \in Seq(Byte)
      BY <3>3, ReadImageType
    <3>5. QED
      BY <1>1, <2>3, <3>4 DEF ExecuteRequest, CALC, READ_BLOCK, RW_FILE
  <2>4. CASE block[1] = DEFAULT /\ block[2] = RW_FILE
    BY <1>1, <2>4, ToBbcAssumption DEF ExecuteRequest, CALC, READ_BLOCK, RW_FILE
  <2>5. CASE block[1] = DEFAULT /\ block[2] \notin {CALC, READ_BLOCK, RW_FILE}
    BY <1>1, <2>5 DEF ExecuteRequest
  <2>6. QED
    BY <2>1, <2>2, <2>3, <2>4, <2>5
<1>3. QED
  BY <1>2, RespondLength

(* Two bytes make one word only.                                            *)
LEMMA ReplyEqual ==
  ASSUME NEW a \in Reply, NEW b \in Reply,
         a.status = b.status, a.lo = b.lo, a.hi = b.hi, a.data = b.data
  PROVE  a = b
BY DEF Reply

(* What is under way outside a call is over.                                *)
LEMMA LateInCall ==
  ASSUME FlowInv, ~Quiet
  PROVE  InCall
BY FlowFacts DEF FlowInv, LockInv, LockStep, BetweenInv, Quiet, HeaderDue, Recoverable

-----------------------------------------------------------------------------
(* The BBC's steps. None of them touches a bank or the host.                *)
BbcOnly == UNCHANGED <<avrVars, usbVars, hostVars, answer>>

LEMMA BbcOnlyFacts ==
  ASSUME BbcOnly
  PROVE  /\ UNCHANGED <<avr, resume, state, hdr, dataLength, ch, inBank, inFull, outBank, outReady>>
         /\ UNCHANGED <<host, hreq, hbody, rsp, answer>>
         /\ Quiet' = Quiet /\ HeaderDue' = HeaderDue /\ LengthDue' = LengthDue
         /\ Rest' = Rest /\ Unwritten' = Unwritten
BY DEF BbcOnly, avrVars, usbVars, hostVars, Quiet, HeaderDue, LengthDue, Rest, Unwritten

(* A step that leaves the request and served alone moves no byte.           *)
LEMMA BbcFrame ==
  ASSUME FlowInv, BbcOnly, UNCHANGED <<req, served>>
  PROVE  QuietInv' /\ ForwardInv' /\ AnswerInv'
<1>1. QuietInv /\ ForwardInv /\ AnswerInv
  BY DEF FlowInv, DataInv
<1>2. Moved' = Moved
  BY BbcOnlyFacts DEF Moved
<1>3. QuietInv'
  BY <1>1, BbcOnlyFacts DEF QuietInv
<1>4. HeaderWaits' = HeaderWaits /\ BodyComing' = BodyComing /\ RequestComplete' = RequestComplete
  BY <1>2, BbcOnlyFacts DEF HeaderWaits, BodyComing, RequestComplete
<1>5. ForwardInv'
  BY <1>1, <1>4, BbcOnlyFacts DEF ForwardInv
<1>6. HeaderOut' = HeaderOut /\ DataOut' = DataOut
  BY BbcOnlyFacts DEF HeaderOut, DataOut
<1>7. AnswerInv'
  BY <1>1, <1>6, BbcOnlyFacts DEF AnswerInv
<1>8. QED
  BY <1>3, <1>5, <1>7

LEMMA DataStart ==
  ASSUME FlowInv, BbcOnly, NEW r \in Requests, Start(r), served' = FALSE
  PROVE  DataInv'
<1>1. bbc = "idle" /\ bbc' = "pulse" /\ got' = NoReply
  BY DEF Start
<1>2. Quiet /\ ~HeaderDue
  BY <1>1, LateInCall, FlowFacts DEF InCall, FlowInv, LockInv, LockStep, BetweenInv, HeaderDue
<1>3. QuietInv /\ Quiet' /\ ~HeaderDue'
  BY <1>2, BbcOnlyFacts DEF FlowInv, DataInv
<1>4. HeaderInv'
  BY <1>1, <1>3 DEF HeaderInv
<1>5. QuietInv'
  BY <1>2, <1>3, BbcOnlyFacts DEF QuietInv
<1>6. ForwardInv' /\ AnswerInv'
  BY <1>3 DEF ForwardInv, AnswerInv
<1>7. ReturnInv'
  BY <1>1 DEF ReturnInv, InCall, NoReply
<1>8. QED
  BY <1>4, <1>5, <1>6, <1>7 DEF DataInv

LEMMA DataEndPulse ==
  ASSUME FlowInv, BbcOnly, EndPulse, UNCHANGED served
  PROVE  DataInv'
<1>1. bbc = "pulse" /\ bbc' = "block" /\ UNCHANGED <<waiting, req, y, pages, got, cb1, portd>>
  BY DEF EndPulse
<1>2. y = 0 /\ ~waiting
  BY <1>1 DEF FlowInv, LockInv, TypeInv, LoopInv, LockStep, LineInv, InCall
<1>3. HeaderInv /\ ReturnInv
  BY DEF FlowInv, DataInv
<1>4. ~HeaderDue
  BY <1>1, FlowFacts DEF InCall, FlowInv, LockInv, LockStep, BetweenInv, HeaderDue
<1>5. HeaderInv'
  BY <1>1, <1>2, <1>3, <1>4, BbcOnlyFacts DEF HeaderInv, HasAcked
<1>6. ReturnInv'
  BY <1>1, <1>2, <1>3, BbcOnlyFacts DEF ReturnInv, HeaderInv, InCall
<1>7. QED
  BY <1>1, <1>5, <1>6, BbcFrame DEF DataInv

LEMMA DataStrobe ==
  ASSUME FlowInv, BbcOnly, Strobe, UNCHANGED served
  PROVE  DataInv'
<1>1. /\ ~HasAcked /\ ~HasAcked'
      /\ UNCHANGED <<bbc, req, y, pages, got, portd>>
  BY FlowFacts DEF Strobe, HasAcked
<1>2. HeaderInv /\ ReturnInv
  BY DEF FlowInv, DataInv
<1>3. HeaderInv'
  BY <1>1, <1>2, BbcOnlyFacts DEF HeaderInv
<1>4. ReturnInv'
  BY <1>1, <1>2, BbcOnlyFacts DEF ReturnInv, InCall
<1>5. QED
  BY <1>1, <1>3, <1>4, BbcFrame DEF DataInv

LEMMA DataSendAcked ==
  ASSUME FlowInv, BbcOnly, BlockAcked \/ BodyAcked \/ TurnAcked, UNCHANGED served
  PROVE  DataInv'
<1>1. /\ bbc \in {"block", "body", "turn"} /\ HasAcked /\ ~HasAcked'
      /\ bbc' \in {"block", "body", "turn", "status"}
      /\ UNCHANGED <<req, got, portd>>
  BY FlowFacts DEF BlockAcked, BodyAcked, TurnAcked, Acked, HasAcked, SendNext
<1>2. bbc' = "block" => bbc = "block" /\ y < 5 /\ y' = y + 1
  BY <1>1, FlowFacts DEF BlockAcked, BodyAcked, TurnAcked, SendNext
<1>3. HeaderInv /\ ReturnInv
  BY DEF FlowInv, DataInv
<1>4. HeaderInv'
  BY <1>1, <1>2, <1>3, BbcOnlyFacts, FlowFacts DEF HeaderInv
<1>5. ReturnInv'
  BY <1>1, <1>3, BbcOnlyFacts DEF ReturnInv, InCall
<1>6. QED
  BY <1>1, <1>4, <1>5, BbcFrame DEF DataInv

(* What a read of the lines gives is the byte the AVR has put there.        *)
LEMMA DataLengthAcked ==
  ASSUME FlowInv, BbcOnly, NEW b \in Byte, StatusAcked(b) \/ LenLowAcked(b), UNCHANGED served
  PROVE  DataInv'
<1>1. /\ (bbc = "status" /\ bbc' = "lenlo" /\ got' = [got EXCEPT !.status = b])
         \/ (bbc = "lenlo" /\ bbc' = "lenhi" /\ got' = [got EXCEPT !.lo = b])
      /\ HasAcked /\ ~HasAcked'
      /\ UNCHANGED <<req, portd>>
  BY FlowFacts DEF StatusAcked, LenLowAcked, Acked, HasAcked
<1>2. b = portd
  BY <1>1, LinesDriven DEF StatusAcked, LenLowAcked, FlowInv
<1>3. HeaderInv /\ ReturnInv
  BY DEF FlowInv, DataInv
<1>4. HeaderInv'
  BY <1>1, <1>3, BbcOnlyFacts DEF HeaderInv
<1>5. got'.data = got.data /\ got'.status = IF bbc = "status" THEN b ELSE got.status
  BY <1>1, FlowFacts DEF Reply
<1>6. ReturnInv'
  BY <1>1, <1>2, <1>3, <1>5, BbcOnlyFacts DEF ReturnInv, InCall
<1>7. QED
  BY <1>1, <1>4, <1>6, BbcFrame DEF DataInv

LEMMA DataLengthHighAcked ==
  ASSUME FlowInv, BbcOnly, NEW b \in Byte, LenHighAcked(b), UNCHANGED served
  PROVE  DataInv'
<1>1. /\ bbc = "lenhi" /\ bbc' \in {"data", "drop"} /\ got' = [got EXCEPT !.hi = b]
      /\ HasAcked /\ ~HasAcked' /\ b \in Lines
      /\ bbc' = IF Exhausted(0, b, got.lo) THEN "drop" ELSE "data"
      /\ UNCHANGED <<req, portd>>
  BY FlowFacts DEF LenHighAcked, RecvNext, Acked, HasAcked
<1>2. b = portd
  BY <1>1, LinesDriven DEF FlowInv
<1>3. HeaderInv /\ ReturnInv
  BY DEF FlowInv, DataInv
<1>4. got.lo = dataLength[1] /\ portd = dataLength[2]
  BY <1>1 DEF FlowInv, LockInv, LockStep, CountInv
<1>5. served /\ dataLength = <<answer.lo, answer.hi>> /\ got.data = <<>> /\ got.status = answer.status
  BY <1>1, <1>3 DEF ReturnInv
<1>6. Len(answer.data) = Rest
  BY <1>1, <1>3, <1>5 DEF ReturnInv, Rest, InCall
<1>7. /\ got'.data = <<>> /\ got'.status = answer.status
      /\ got'.lo = answer.lo /\ got'.hi = answer.hi
  BY <1>1, <1>2, <1>4, <1>5, FlowFacts DEF Reply
<1>8. bbc' = "drop" => Rest = 0
  <2>1. bbc' = "drop" => dataLength = Zero
    BY <1>1, <1>2, <1>4, RestFacts DEF Exhausted, Zero
  <2>2. QED
    BY <2>1, RestFacts
<1>9. HeaderInv'
  BY <1>1, <1>3, BbcOnlyFacts DEF HeaderInv
<1>10. ReturnInv'
  BY <1>1, <1>3, <1>5, <1>6, <1>7, <1>8, RestFacts, BbcOnlyFacts DEF ReturnInv, InCall
<1>11. QED
  BY <1>1, <1>9, <1>10, BbcFrame DEF DataInv

LEMMA DataDataAcked ==
  ASSUME FlowInv, BbcOnly, NEW b \in Byte, DataAcked(b), UNCHANGED served
  PROVE  DataInv'
<1>1. /\ bbc = "data" /\ bbc' \in {"data", "drop"} /\ got' = [got EXCEPT !.data = Append(@, b)]
      /\ HasAcked /\ ~HasAcked' /\ b \in Lines
      /\ bbc' = IF Exhausted(NextY, NextPages, got.lo) THEN "drop" ELSE "data"
      /\ UNCHANGED <<req, portd>>
  BY FlowFacts DEF DataAcked, RecvNext, Acked, HasAcked
<1>2. b = portd
  BY <1>1, LinesDriven DEF FlowInv
<1>3. HeaderInv /\ ReturnInv
  BY DEF FlowInv, DataInv
<1>4. bbc' = "drop" => Rest = 0
  <2>1. Rest = Left(got.lo) - 1 /\ InLoop(got.lo)
    BY <1>1 DEF FlowInv, LockInv, LockStep, CountInv, TypeInv, LoopInv, Rest
  <2>2. Exhausted(NextY, NextPages, got.lo) <=> Left(got.lo) - 1 = 0
    BY <2>1, LeftTurn, FlowFacts DEF Reply
  <2>3. QED
    BY <1>1, <2>1, <2>2
<1>5. /\ got'.data = Append(got.data, b) /\ got'.status = got.status
      /\ got'.lo = got.lo /\ got'.hi = got.hi
  BY <1>1, FlowFacts DEF Reply
<1>6. /\ Len(got.data) + 1 = Len(answer.data) - Rest
      /\ b = answer.data[Len(got.data) + 1]
      /\ \A i \in 1 .. Len(got.data) : got.data[i] = answer.data[i]
  BY <1>1, <1>2, <1>3 DEF ReturnInv
<1>7. got.data \in Seq(Byte) /\ answer.data \in Seq(Byte)
  BY FlowFacts DEF Reply
<1>8. /\ Len(got'.data) = Len(got.data) + 1
      /\ \A i \in 1 .. Len(got'.data) : got'.data[i] = answer.data[i]
  BY <1>5, <1>6, <1>7
<1>9. HeaderInv'
  BY <1>1, <1>3, BbcOnlyFacts DEF HeaderInv
<1>10. ReturnInv'
  <2>1. /\ answer' = answer /\ Rest' = Rest /\ dataLength' = dataLength /\ req' = req
        /\ portd' = portd /\ served' = served
    BY <1>1, BbcOnlyFacts
  <2>2. bbc = "data" /\ bbc' \in {"data", "drop"} /\ ~HasAcked'
    BY <1>1
  <2>3. /\ InCall' /\ served' =>
             /\ answer' = ExecuteRequest(req'.block, req'.body, 0)
             /\ Len(answer'.data) = Word(answer'.lo, answer'.hi)
        /\ served' /\ got'.status = answer'.status
        /\ got'.lo = answer'.lo /\ got'.hi = answer'.hi
    BY <1>3, <1>5, <2>1, <2>2 DEF ReturnInv, InCall
  <2>4. Len(got'.data) + 0 = Len(answer'.data) - Rest'
    BY <1>6, <1>7, <1>8, <2>1, RestFacts
  <2>5. bbc' = "drop" => Len(got'.data) = Len(answer'.data)
    BY <1>4, <1>7, <2>1, <2>4
  <2>6. \A i \in 1 .. Len(got'.data) : got'.data[i] = answer'.data[i]
    BY <1>8, <2>1
  <2>7. QED
    BY <2>2, <2>3, <2>4, <2>5, <2>6 DEF ReturnInv
<1>11. QED
  BY <1>1, <1>9, <1>10, BbcFrame DEF DataInv

LEMMA DataDropAcked ==
  ASSUME FlowInv, BbcOnly, DropAcked, UNCHANGED served
  PROVE  DataInv'
<1>1. bbc = "drop" /\ bbc' = "idle" /\ UNCHANGED req
  BY DEF DropAcked, Acked
<1>2. HeaderInv'
  BY <1>1, BbcOnlyFacts DEF HeaderInv, FlowInv, DataInv
<1>3. ReturnInv'
  BY <1>1 DEF ReturnInv, InCall
<1>4. QED
  BY <1>1, <1>2, <1>3, BbcFrame DEF DataInv

LEMMA DataBreak ==
  ASSUME FlowInv, BbcOnly, Break, state \in Recoverable, UNCHANGED served
  PROVE  DataInv'
<1>1. bbc' = "idle" /\ UNCHANGED req
  BY DEF Break
<1>2. ReturnInv'
  BY <1>1 DEF ReturnInv, InCall
<1>3. HeaderInv'
  BY <1>1, BbcOnlyFacts DEF HeaderInv, FlowInv, DataInv
<1>4. QED
  BY <1>1, <1>2, <1>3, BbcFrame DEF DataInv

-----------------------------------------------------------------------------
(* The AVR's steps. The host and the BBC's registers stay as they are.      *)
AvrOnly ==
  UNCHANGED <<bbc, waiting, req, y, pages, got, host, hreq, hbody, rsp, served, answer>>

(* Where the AVR can be with the header put or a length to come.            *)
LEMMA PointFacts ==
  ASSUME FlowInv
  PROVE  /\ avr = "room" \/ avr = "waitIn" => ~HeaderDue
         /\ avr = "room" => state = "GET_DATA"
         /\ avr = "waitOut" => state = "SEND_RETCODE"
         /\ avr = "waitData" => state = "SEND_DATA"
         /\ LengthDue \/ avr = "recvHigh" => InCall /\ state = "SEND_LENGTH_LOW"
         /\ HeaderDue => InCall /\ state \in {"GET_DATA", "SEND_PREP"}
         /\ HeaderDue \/ avr = "waitIn" =>
              \/ bbc = "block" /\ y = 5 /\ HasAcked
              \/ bbc \in {"body", "turn"} /\ ~HasAcked
         /\ avr = "spin" => resume \notin {"putHeader", "recvLow"}
         /\ state \in {"GET_DATA", "SEND_DATA"} /\ avr # "room" => dataLength # Zero
<1>1. CounterInv /\ BetweenInv /\ PointInv /\ StateInv
  BY DEF FlowInv, LockInv, LockStep
<1>2. avr = "spin" => resume \notin {"putHeader", "recvLow"}
  BY <1>1, FlowFacts DEF PointInv, BetweenInv
<1>3. LengthDue \/ avr = "recvHigh" => InCall /\ state = "SEND_LENGTH_LOW"
  BY <1>1, FlowFacts DEF PointInv, BetweenInv, StateInv, LengthDue
<1>4. HeaderDue => InCall
  BY <1>1, FlowFacts DEF BetweenInv, HeaderDue
<1>5. HeaderDue \/ avr = "waitIn" =>
        \/ bbc = "block" /\ y = 5 /\ HasAcked
        \/ bbc \in {"body", "turn"} /\ ~HasAcked
  BY <1>1, FlowFacts DEF PointInv, BetweenInv, HeaderDue
<1>6. HeaderDue => state \in {"GET_DATA", "SEND_PREP"}
  BY <1>1, <1>5, FlowFacts DEF StateInv
<1>7. QED
  BY <1>1, <1>2, <1>3, <1>4, <1>5, <1>6 DEF CounterInv, HeaderDue

(* While the AVR is idle and the BBC's byte is not taken, the state says    *)
(* which byte it is.                                                        *)
LEMMA StatePolled ==
  ASSUME FlowInv, avr = "poll", cb2 # "high"
  PROVE  /\ \/ bbc = "pulse" /\ ~waiting /\ state \in Recoverable
            \/ InCall /\ waiting = TRUE /\ cb1 = FALSE /\ cb2 = "strobe"
         /\ ~HasAcked
         /\ bbc # "pulse" =>
              bbc = CASE state \in {"GET_CHANNEL", "GET_COMMAND", "GET_PARAM1", "GET_PARAM2",
                                    "GET_LENGTH_LOW", "GET_LENGTH_HIGH"} -> "block"
                      [] state = "GET_DATA" -> "body"
                      [] state = "SEND_PREP" -> "turn"
                      [] state = "SEND_RETCODE" -> "status"
                      [] state = "SEND_LENGTH_LOW" -> "lenlo"
                      [] state = "SEND_LENGTH_HIGH" -> "lenhi"
                      [] state = "SEND_DATA" -> "data"
                      [] state = "FINISH" -> "drop"
<1>1. \/ bbc = "pulse" /\ ~waiting /\ state \in Recoverable
      \/ InCall /\ waiting = TRUE /\ cb1 = FALSE /\ cb2 = "strobe"
  BY Polled DEF FlowInv
<1>2. ~HasAcked
  BY <1>1 DEF HasAcked
<1>3. StateInv /\ LoopInv
  BY DEF FlowInv, LockInv, LockStep, TypeInv
<1>4. bbc = "block" => BlockStates[y + 1] \in {"GET_CHANNEL", "GET_COMMAND", "GET_PARAM1", "GET_PARAM2",
                                                "GET_LENGTH_LOW", "GET_LENGTH_HIGH"}
  BY <1>3, FlowFacts DEF BlockStates, LoopInv
<1>5. QED
  BY <1>1, <1>2, <1>3, <1>4, FlowFacts DEF StateInv, InCall, Phases

LEMMA DataAckCheck ==
  ASSUME FlowInv, AvrOnly, AckCheck \/ SpinEnds
  PROVE  DataInv'
<1>1. /\ UNCHANGED <<hdr, dataLength, ch, resume, cb1, portd>>
      /\ UNCHANGED <<inBank, inFull, outBank, outReady>>
      /\ avr \in {"ack", "spin"}
  BY DEF AckCheck, SpinEnds, portVars, usbVars
<1>2. HasAcked' = HasAcked /\ Rest' = Rest
  BY <1>1 DEF AvrOnly, HasAcked, Rest
<1>3. HeaderInv /\ QuietInv /\ ForwardInv /\ AnswerInv /\ ReturnInv
  BY DEF FlowInv, DataInv
<1>4. ReturnInv'
  BY <1>1, <1>3 DEF AvrOnly, ReturnInv, HasAcked, InCall, Rest
<1>5. CASE AckCheck /\ cb2 # "high"
  <2>1. bbc = "pulse" /\ avr' = "spin" /\ state' = "GET_CHANNEL"
    BY <1>5, FlowFacts DEF AckCheck, FlowInv, LockInv, LockStep, LineInv, BetweenInv, PointInv, InCall, HasAcked, Phases
  <2>2. Quiet /\ Quiet' /\ ~HeaderDue'
    BY <2>1, LateInCall DEF Quiet, HeaderDue, InCall
  <2>3. HeaderInv' /\ QuietInv' /\ ForwardInv' /\ AnswerInv'
    BY <1>1, <1>2, <1>3, <2>1, <2>2 DEF AvrOnly, HeaderInv, QuietInv, ForwardInv, AnswerInv
  <2>4. QED
    BY <1>4, <2>3 DEF DataInv
<1>6. CASE (AckCheck \/ SpinEnds) /\ cb2 = "high"
  <2>1. avr' = resume /\ UNCHANGED state
    BY <1>6 DEF AckCheck, SpinEnds
  <2>2. HeaderDue' = HeaderDue /\ LengthDue' = LengthDue /\ avr' \notin {"room", "waitIn", "recvHigh"}
    BY <1>1, <2>1, PointFacts, FlowFacts DEF HeaderDue, LengthDue, Resumes
  <2>3. Quiet' = Quiet /\ Moved' = Moved
    BY <1>1, <2>1, <2>2 DEF AvrOnly, Quiet, Moved
  <2>4. HeaderInv' /\ QuietInv'
    BY <1>1, <1>2, <1>3, <2>1, <2>2, <2>3 DEF AvrOnly, HeaderInv, QuietInv
  <2>5. /\ HeaderWaits => HeaderWaits'
        /\ BodyComing => BodyComing'
        /\ RequestComplete => RequestComplete'
    BY <1>1, <2>1, <2>2, <2>3 DEF AvrOnly, HeaderWaits, BodyComing, RequestComplete
  <2>6. ForwardInv'
    BY <1>1, <1>3, <2>1, <2>3, <2>5 DEF AvrOnly, ForwardInv
  <2>7. /\ HeaderOut => HeaderOut'
        /\ DataOut => DataOut'
    BY <1>1, <1>2, <2>1, <2>2 DEF AvrOnly, HeaderOut, DataOut, Unwritten, Rest
  <2>8. AnswerInv'
    BY <1>1, <1>3, <2>1, <2>2, <2>3, <2>7 DEF AvrOnly, AnswerInv
  <2>9. QED
    BY <1>4, <2>4, <2>6, <2>8 DEF DataInv
<1>7. QED
  BY <1>5, <1>6 DEF SpinEnds

(* The six bytes of the block.                                              *)
LEMMA DataHeaderByte ==
  ASSUME FlowInv, AvrOnly, NEW k \in 1 .. 4, NEW b \in Byte, GetHeaderByte(k, b)
  PROVE  DataInv'
<1>1. /\ avr = "poll" /\ cb2 # "high" /\ state = HeaderStates[k] /\ b \in Lines
      /\ avr' = "ack" /\ resume' = "poll" /\ state' = HeaderStates[k + 1]
      /\ hdr' = [hdr EXCEPT ![k] = b]
      /\ UNCHANGED <<dataLength, portd, inBank, inFull, outBank, outReady>>
  BY DEF GetHeaderByte, Poll, AckTo, usbVars
<1>2. state \in {"GET_CHANNEL", "GET_COMMAND", "GET_PARAM1", "GET_PARAM2"}
      /\ state' \in {"GET_COMMAND", "GET_PARAM1", "GET_PARAM2", "GET_LENGTH_LOW"}
  BY <1>1 DEF HeaderStates
<1>3. HeaderInv /\ QuietInv /\ ReturnInv
  BY DEF FlowInv, DataInv
<1>4. Quiet /\ Quiet' /\ ~HeaderDue'
  BY <1>1, <1>2 DEF Quiet, HeaderDue
<1>5. QuietInv' /\ ForwardInv' /\ AnswerInv'
  BY <1>1, <1>2, <1>3, <1>4 DEF AvrOnly, QuietInv, ForwardInv, AnswerInv
<1>6. bbc = "pulse" \/ (bbc = "block" /\ ~HasAcked)
  BY <1>1, <1>2, StatePolled
<1>7. bbc = "block" => y = k - 1 /\ b = req.block[k]
  <2>1. ASSUME bbc = "block" PROVE y = k - 1
    <3>1. state = BlockStates[y + 1] /\ y \in 0 .. 5
      BY <1>6, <2>1 DEF FlowInv, LockInv, LockStep, StateInv, TypeInv, LoopInv
    <3>2. QED
      BY <1>1, <3>1 DEF BlockStates, HeaderStates
  <2>2. ASSUME bbc = "block" PROVE b = req.block[k]
    <3>1. DriveInv /\ waiting /\ ~cb1
      BY <1>1, <2>2, StatePolled DEF FlowInv, LockInv, LockStep
    <3>2. ddrb /\ ~ddrd /\ portb = OutByte
      BY <2>2, <3>1 DEF DriveInv, HasAcked
    <3>3. b = OutByte
      BY <1>1, <3>2 DEF Lines
    <3>4. QED
      BY <2>1, <2>2, <3>3 DEF OutByte
  <2>3. QED
    BY <2>1, <2>2
<1>8. HeaderInv'
  <2>1. \A i \in 1 .. 4 : hdr'[i] = IF i = k THEN b ELSE hdr[i]
    BY <1>1, FlowFacts
  <2>2. bbc = "block" => \A i \in 1 .. 4 : i <= y \/ i = y + 1 => hdr'[i] = req.block[i]
    BY <1>3, <1>6, <1>7, <2>1 DEF HeaderInv
  <2>3. ~served
    BY <1>3, <1>6 DEF HeaderInv
  <2>4. QED
    BY <1>4, <2>2, <2>3 DEF AvrOnly, HeaderInv
<1>9. ReturnInv'
  BY <1>3, <1>6 DEF AvrOnly, ReturnInv, InCall
<1>10. QED
  BY <1>5, <1>8, <1>9 DEF DataInv

LEMMA DataLengthByte ==
  ASSUME FlowInv, AvrOnly, NEW b \in Byte, GetLengthLow(b) \/ GetLengthHigh(b)
  PROVE  DataInv'
<1>1. /\ avr = "poll" /\ cb2 # "high" /\ avr' = "ack" /\ b \in Lines
      /\ \/ state = "GET_LENGTH_LOW" /\ state' = "GET_LENGTH_HIGH" /\ resume' = "poll"
         \/ /\ state = "GET_LENGTH_HIGH" /\ resume' = "putHeader"
            /\ state' = (IF dataLength' # Zero THEN "GET_DATA" ELSE "SEND_PREP")
            /\ dataLength' = <<dataLength[1], b>>
      /\ UNCHANGED <<hdr, portd, inBank, inFull, outBank, outReady>>
  BY DEF GetLengthLow, GetLengthHigh, Poll, AckTo, usbVars
<1>2. HeaderInv /\ QuietInv /\ ReturnInv
  BY DEF FlowInv, DataInv
<1>3. Quiet /\ Quiet'
  BY <1>1 DEF Quiet, HeaderDue
<1>4. QuietInv' /\ ForwardInv' /\ AnswerInv'
  BY <1>1, <1>2, <1>3 DEF AvrOnly, QuietInv, ForwardInv, AnswerInv
<1>5. bbc = "pulse" \/ (bbc = "block" /\ ~HasAcked)
  BY <1>1, StatePolled
<1>6. ReturnInv'
  BY <1>2, <1>5 DEF AvrOnly, ReturnInv, InCall
<1>7. ~served
  BY <1>2, <1>5 DEF HeaderInv
<1>8. bbc = "block" => state = BlockStates[y + 1] /\ y \in 0 .. 5
  BY <1>5 DEF FlowInv, LockInv, LockStep, StateInv, TypeInv, LoopInv
<1>9. bbc = "block" => \A i \in 1 .. 4 : hdr[i] = req.block[i]
  <2>1. bbc = "block" => y >= 4
    BY <1>1, <1>8 DEF BlockStates
  <2>2. QED
    BY <1>2, <2>1, FlowFacts DEF HeaderInv
<1>10. HeaderDue' => dataLength' = <<req.block[5], req.block[6]>>
  <2> SUFFICES ASSUME HeaderDue' PROVE dataLength' = <<req.block[5], req.block[6]>>
    OBVIOUS
  <2>1. state = "GET_LENGTH_HIGH" /\ dataLength' = <<dataLength[1], b>>
    BY <1>1 DEF HeaderDue
  <2>2. bbc = "block" /\ y = 5
    BY <1>1, <1>5, <1>8, <2>1, StatePolled DEF BlockStates, Recoverable, InCall
  <2>3. dataLength[1] = req.block[5]
    BY <2>2 DEF FlowInv, LockInv, LockStep, CountInv
  <2>4. DriveInv /\ waiting /\ ~cb1
    BY <1>1, <2>2, StatePolled DEF FlowInv, LockInv, LockStep
  <2>5. ddrb /\ ~ddrd /\ portb = OutByte
    BY <2>2, <2>4 DEF DriveInv, HasAcked
  <2>6. b = req.block[6]
    BY <1>1, <2>2, <2>5 DEF Lines, OutByte
  <2>7. QED
    BY <2>1, <2>3, <2>6
<1>11. HeaderDue' => bbc = "block" /\ state' = IF dataLength' # Zero THEN "GET_DATA" ELSE "SEND_PREP"
  BY <1>1, <1>5, StatePolled DEF HeaderDue, Recoverable, InCall
<1>12. HeaderInv'
  BY <1>1, <1>7, <1>9, <1>10, <1>11 DEF AvrOnly, HeaderInv
<1>13. QED
  BY <1>4, <1>6, <1>12 DEF DataInv

LEMMA SixBytes ==
  ASSUME NEW h \in Seq(Byte), Len(h) = 4, NEW d \in Seq(Byte), Len(d) = 2
  PROVE  /\ h \o d \in Seq(Byte) /\ Len(h \o d) = 6
         /\ \A i \in 1 .. 4 : (h \o d)[i] = h[i]
         /\ (h \o d)[5] = d[1] /\ (h \o d)[6] = d[2]
<1> DEFINE s == h \o d
<1>1. /\ s \in Seq(Byte) /\ Len(s) = Len(h) + Len(d)
      /\ \A i \in 1 .. Len(h) + Len(d) : s[i] = IF i <= Len(h) THEN h[i] ELSE d[i - Len(h)]
  BY ConcatProperties
<1> HIDE DEF s
<1>2. \A i \in 1 .. 4 : s[i] = h[i]
  BY <1>1
<1>3. s[5] = d[1] /\ s[6] = d[2]
  BY <1>1
<1>4. QED
  BY <1>1, <1>2, <1>3 DEF s

(* The header packet is put and handed over.                                *)
LEMMA DataPutHeader ==
  ASSUME FlowInv, AvrOnly, PutHeader
  PROVE  DataInv'
<1>1. /\ avr = "putHeader" /\ avr' = (IF dataLength # Zero THEN "waitIn" ELSE "poll")
      /\ inBank' = Put(inBank, hdr \o dataLength) /\ inFull' = TRUE
      /\ UNCHANGED <<resume, state, hdr, dataLength, ch, portd, cb1, outBank, outReady>>
  BY DEF PutHeader, portVars
<1>2. HeaderInv /\ QuietInv /\ ReturnInv
  BY DEF FlowInv, DataInv
<1>3. HeaderDue /\ Quiet /\ ~HeaderDue'
  BY <1>1 DEF HeaderDue, Quiet
<1>4. /\ \A i \in 1 .. 4 : hdr[i] = req.block[i]
      /\ dataLength = <<req.block[5], req.block[6]>>
      /\ state = IF dataLength # Zero THEN "GET_DATA" ELSE "SEND_PREP"
      /\ ~served
  BY <1>2, <1>3 DEF HeaderInv
<1>5. host = "header" /\ inBank = <<>> /\ outBank = <<>>
  BY <1>2, <1>3 DEF QuietInv
<1>6. Len(inBank') = 6 /\ \A i \in 1 .. 6 : inBank'[i] = req.block[i]
  <2>1. hdr \in Seq(Byte) /\ Len(hdr) = 4
    <3>1. hdr \in [1 .. 4 -> Byte] /\ 4 \in Nat
      BY FlowFacts
    <3>2. DOMAIN hdr = 1 .. 4
      BY <3>1
    <3>3. hdr \in Seq(Byte)
      BY <3>1, FunctionIsSeq
    <3>4. QED
      BY <3>2, <3>3
  <2>2. dataLength \in Seq(Byte) /\ Len(dataLength) = 2 /\ dataLength[1] = req.block[5] /\ dataLength[2] = req.block[6]
    BY <1>4, FlowFacts
  <2> DEFINE six == hdr \o dataLength
  <2>3. /\ six \in Seq(Byte) /\ Len(six) = 6
        /\ \A i \in 1 .. 4 : six[i] = hdr[i]
        /\ six[5] = dataLength[1] /\ six[6] = dataLength[2]
    BY <2>1, <2>2, SixBytes
  <2> HIDE DEF six
  <2>4. \A i \in 1 .. 6 : i \in 1 .. 4 \/ i = 5 \/ i = 6
    OBVIOUS
  <2>5. \A i \in 1 .. 6 : six[i] = req.block[i]
    BY <1>4, <2>2, <2>3, <2>4
  <2>6. <<>> \o six = six
    BY <2>3
  <2>7. Put(<<>>, six) = SubSeq(six, 1, 6)
    BY <2>3, <2>6, EpSizeAssumption DEF Put
  <2>8. Len(Put(<<>>, six)) = 6 /\ \A i \in 1 .. 6 : Put(<<>>, six)[i] = six[i]
    BY <2>3, <2>7
  <2>9. inBank' = Put(<<>>, six)
    BY <1>1, <1>5 DEF six
  <2>10. QED
    BY <2>5, <2>8, <2>9
<1>7. ~Quiet'
  BY <1>1, <1>3, <1>4 DEF Quiet
<1>8. HeaderWaits'
  BY <1>1, <1>4, <1>5, <1>6 DEF AvrOnly, HeaderWaits
<1>9. QuietInv' /\ ForwardInv' /\ AnswerInv'
  BY <1>1, <1>4, <1>5, <1>7, <1>8 DEF AvrOnly, QuietInv, ForwardInv, AnswerInv
<1>11. HeaderInv' /\ ReturnInv'
  BY <1>1, <1>2, <1>3 DEF AvrOnly, HeaderInv, ReturnInv, HasAcked, InCall, Rest
<1>12. QED
  BY <1>9, <1>11 DEF DataInv

(* The host has taken the header.                                           *)
LEMMA DataHeaderTaken ==
  ASSUME FlowInv, AvrOnly, HeaderTaken
  PROVE  DataInv'
<1>1. /\ avr = "waitIn" /\ ~inFull /\ avr' = "poll"
      /\ UNCHANGED <<resume, state, hdr, dataLength, ch, portd, cb1>>
      /\ UNCHANGED <<inBank, inFull, outBank, outReady>>
  BY DEF HeaderTaken, portVars, usbVars
<1>2. HeaderInv /\ QuietInv /\ ForwardInv /\ AnswerInv /\ ReturnInv
  BY DEF FlowInv, DataInv
<1>3. ~HeaderDue /\ ~HeaderDue' /\ ~LengthDue /\ ~LengthDue'
  BY <1>1 DEF HeaderDue, LengthDue
<1>4. Quiet' <=> Quiet
  BY <1>1, <1>3 DEF Quiet
<1>5. Moved' = Moved
  BY <1>1 DEF AvrOnly, Moved
<1>6. HeaderInv' /\ QuietInv'
  BY <1>1, <1>2, <1>3, <1>4 DEF AvrOnly, HeaderInv, QuietInv, HasAcked
<1>7. ~HeaderWaits
  BY <1>1 DEF HeaderWaits
<1>8. BodyComing => BodyComing'
  BY <1>1, <1>5 DEF AvrOnly, BodyComing
<1>9. RequestComplete => RequestComplete'
  BY <1>1 DEF AvrOnly, RequestComplete
<1>10. ForwardInv'
  BY <1>1, <1>2, <1>4, <1>7, <1>8, <1>9 DEF AvrOnly, ForwardInv
<1>11. (HeaderOut => HeaderOut') /\ (DataOut => DataOut')
  BY <1>1, <1>3 DEF AvrOnly, HeaderOut, DataOut, Unwritten, Rest
<1>12. AnswerInv'
  BY <1>1, <1>2, <1>3, <1>4, <1>11 DEF AvrOnly, AnswerInv
<1>13. ReturnInv'
  BY <1>1, <1>2 DEF AvrOnly, ReturnInv, HasAcked, InCall, Rest
<1>14. QED
  BY <1>6, <1>10, <1>12, <1>13 DEF DataInv

(* How far send_msg is in the request data is how many bytes have moved.    *)
LEMMA BodyOffset ==
  ASSUME FlowInv, bbc = "body", ~HasAcked, avr # "room"
  PROVE  /\ Moved = Offset(req.block[6])
         /\ Moved \in Nat /\ Moved < Len(req.body)
<1> DEFINE lo == req.block[5]
           hi == req.block[6]
<1>1. lo \in Byte /\ hi \in Byte /\ Len(req.body) = Word(lo, hi)
  BY FlowFacts
<1>2. Rest = Left(lo) - 0
  BY DEF FlowInv, LockInv, LockStep, CountInv, Rest
<1>3. InLoop(lo) /\ pages <= hi
  BY DEF FlowInv, LockInv, TypeInv, LoopInv
<1>4. Moved = Len(req.body) - Rest - 0
  BY DEF Moved, Rest
<1>5. y \in Nat /\ pages \in Nat /\ pages \in Byte /\ y \in Byte
  BY <1>3, FlowFacts DEF InLoop
<1> HIDE DEF lo, hi
<1>6. hi \in Nat /\ lo \in Nat /\ Base \in Nat
  BY <1>1, BaseAssumption DEF Byte
<1>7. (hi - pages) * Base = Base * hi - pages * Base
  BY <1>5, <1>6
<1>8. pages * Base \in Nat /\ Base * hi \in Nat
  BY <1>5, <1>6
<1>9. Rest = pages * Base + lo - y
  BY <1>2, <1>5, <1>6, <1>8 DEF Left
<1>10. Moved = Offset(hi)
  BY <1>1, <1>4, <1>5, <1>6, <1>7, <1>8, <1>9 DEF Word, Offset
<1>11. Offset(hi) + 1 \in 1 .. Word(lo, hi)
  BY <1>1, <1>3, <1>5, OffsetInside DEF Offset, InLoop
<1>12. Offset(hi) \in Int
  BY <1>5, <1>6, <1>7, <1>8 DEF Offset
<1>13. Moved \in Nat /\ Moved < Len(req.body)
  BY <1>1, <1>10, <1>11, <1>12
<1>14. QED
  BY <1>10, <1>13 DEF hi

(* GET_DATA takes the next byte of the request data from the lines.         *)
LEMMA DataGetData ==
  ASSUME FlowInv, AvrOnly, NEW b \in Byte, GetData(b)
  PROVE  DataInv'
<1>1. /\ avr = "poll" /\ cb2 # "high" /\ state = "GET_DATA" /\ b \in Lines
      /\ ch' = b /\ dataLength' = Decrement(dataLength)
      /\ inFull' <=> (inFull \/ Len(inBank) = EpSize)
      /\ avr' = "room"
      /\ UNCHANGED <<resume, state, hdr, portd, cb1, inBank, outBank, outReady>>
  BY DEF GetData, Poll, portVars
<1>2. HeaderInv /\ QuietInv /\ ForwardInv /\ AnswerInv /\ ReturnInv
  BY DEF FlowInv, DataInv
<1>3. ~HeaderDue /\ ~HeaderDue' /\ ~Quiet /\ ~Quiet'
  BY <1>1 DEF HeaderDue, Quiet
<1>4. ~served
  BY <1>1, <1>2, <1>3 DEF AnswerInv, SendStates
<1>5. BodyComing /\ outBank = <<>>
  BY <1>1, <1>2, <1>3, <1>4 DEF ForwardInv, HeaderWaits, RequestComplete
<1>6. bbc = "body" /\ waiting /\ ~cb1 /\ ~HasAcked
  BY <1>1, StatePolled DEF Recoverable, InCall
<1>7. Moved = Offset(req.block[6]) /\ Moved < Len(req.body) /\ Moved \in Nat
  BY <1>1, <1>6, BodyOffset
<1>8. b = req.body[Moved + 1]
  <2>1. DriveInv
    BY DEF FlowInv, LockInv, LockStep
  <2>2. ddrb /\ ~ddrd /\ portb = OutByte
    BY <1>6, <2>1 DEF DriveInv, HasAcked
  <2>3. b = OutByte
    BY <1>1, <2>2 DEF Lines
  <2>4. QED
    BY <1>6, <1>7, <2>3 DEF OutByte
<1>9. dataLength # Zero
  BY <1>1, PointFacts
<1>10. Rest' = Rest - 1
  BY <1>1, <1>9, FlowFacts, DecrementWord DEF Rest
<1>11. Moved' = Moved
  <2>1. Moved = Len(req.body) - Rest - 0 /\ Moved' = Len(req.body) - Rest' - 1
    BY <1>1 DEF Moved, Rest, AvrOnly
  <2>2. Len(req.body) \in Nat /\ Rest \in Nat
    BY FlowFacts, RestFacts
  <2>3. QED
    BY <1>10, <2>1, <2>2
<1>12. BodyComing'
  <2>1. avr' = "room" => ch' = req'.body[Moved' + 1]
    BY <1>1, <1>8, <1>11 DEF AvrOnly
  <2>2. ~inFull' => Len(inBank') < EpSize
    BY <1>1, FlowFacts, EpSizeAssumption
  <2>3. inFull' => Len(inBank') = EpSize \/ Moved' = Len(req'.body)
    BY <1>1, <1>5, <1>11 DEF AvrOnly, BodyComing
  <2>4. QED
    BY <1>1, <1>5, <1>7, <1>11, <2>1, <2>2, <2>3 DEF AvrOnly, BodyComing
<1>13. HeaderInv' /\ QuietInv' /\ ForwardInv' /\ AnswerInv'
  BY <1>1, <1>3, <1>4, <1>5, <1>6, <1>12 DEF AvrOnly, HeaderInv, QuietInv, ForwardInv, AnswerInv
<1>14. ReturnInv'
  BY <1>1, <1>2, <1>6 DEF AvrOnly, ReturnInv, InCall
<1>15. QED
  BY <1>13, <1>14 DEF DataInv

(* What Put does to a bank with room: the byte goes to its end.             *)
LEMMA PutByte ==
  ASSUME NEW bank \in Seq(Byte), NEW b \in Byte, Len(bank) < EpSize
  PROVE  /\ Put(bank, <<b>>) \in Seq(Byte) /\ Len(Put(bank, <<b>>)) = Len(bank) + 1
         /\ \A i \in 1 .. Len(bank) : Put(bank, <<b>>)[i] = bank[i]
         /\ Put(bank, <<b>>)[Len(bank) + 1] = b
<1> DEFINE s == bank \o <<b>>
<1>1. <<b>> \in Seq(Byte) /\ Len(<<b>>) = 1
  OBVIOUS
<1>2. s = Append(bank, b)
  OBVIOUS
<1>3. s \in Seq(Byte) /\ Len(s) = Len(bank) + 1
      /\ (\A i \in 1 .. Len(bank) : s[i] = bank[i]) /\ s[Len(bank) + 1] = b
  BY <1>2
<1>4. Put(bank, <<b>>) = SubSeq(s, 1, Len(bank) + 1)
  BY <1>1, EpSizeAssumption DEF Put
<1> HIDE DEF s
<1>5. SubSeq(s, 1, Len(bank) + 1) = s
  BY <1>3
<1>6. QED
  BY <1>3, <1>4, <1>5

(* ...and puts it behind what is in the bank; the last one is flushed.      *)
LEMMA DataPutData ==
  ASSUME FlowInv, AvrOnly, PutData
  PROVE  DataInv'
<1>1. /\ avr = "room" /\ ~inFull /\ avr' = "ack" /\ resume' = "poll"
      /\ inBank' = Put(inBank, <<ch>>) /\ (inFull' <=> dataLength = Zero)
      /\ state' = IF dataLength = Zero THEN "SEND_PREP" ELSE "GET_DATA"
      /\ UNCHANGED <<hdr, dataLength, ch, portd, outBank, outReady>>
  BY DEF PutData, AckTo
<1>2. HeaderInv /\ QuietInv /\ ForwardInv /\ AnswerInv /\ ReturnInv
  BY DEF FlowInv, DataInv
<1>3. state = "GET_DATA" /\ bbc = "body"
  BY <1>1, PointFacts, FlowFacts DEF FlowInv, LockInv, LockStep, PointInv, BetweenInv
<1>4. ~HeaderDue /\ ~HeaderDue' /\ ~Quiet /\ ~Quiet'
  BY <1>1, <1>3 DEF HeaderDue, Quiet
<1>5. ~served
  BY <1>2, <1>3, <1>4 DEF AnswerInv, SendStates
<1>6. BodyComing /\ outBank = <<>>
  BY <1>1, <1>2, <1>3, <1>4, <1>5 DEF ForwardInv, HeaderWaits, RequestComplete
<1>7. Len(inBank) < EpSize /\ ch = req.body[Moved + 1] /\ Len(hbody) + Len(inBank) = Moved
  BY <1>1, <1>6 DEF BodyComing
<1>8. /\ Len(inBank') = Len(inBank) + 1
      /\ \A i \in 1 .. Len(inBank) : inBank'[i] = inBank[i]
      /\ inBank'[Len(inBank) + 1] = ch
  <2>1. ch \in Byte
    BY DEF FlowInv, LockInv, TypeInv, TypeOK, AvrTypeOK
  <2>2. QED
    BY <1>1, <1>7, <2>1, PutByte, FlowFacts
<1>9. Moved' = Moved + 1 /\ Moved' = Len(req.body) - Rest
  <2>1. Moved = Len(req.body) - Rest - 1 /\ Moved' = Len(req.body) - Rest - 0
    BY <1>1 DEF Moved, Rest, AvrOnly
  <2>2. QED
    BY <2>1, FlowFacts, RestFacts
<1>10. inFull' <=> Moved' = Len(req.body)
  BY <1>1, <1>9, RestFacts, FlowFacts
<1>11. \A i \in 1 .. Len(inBank') : inBank'[i] = req.body[Len(hbody) + i]
  <2>1. \A i \in 1 .. Len(inBank) : inBank[i] = req.body[Len(hbody) + i]
    BY <1>6 DEF BodyComing
  <2>2. Len(hbody) + (Len(inBank) + 1) = Moved + 1 /\ Len(inBank) \in Nat /\ Len(hbody) \in Nat
    BY <1>7, FlowFacts
  <2>3. inBank'[Len(inBank) + 1] = req.body[Len(hbody) + (Len(inBank) + 1)]
    BY <1>7, <1>8, <2>2
  <2>4. ASSUME NEW i \in 1 .. Len(inBank')
        PROVE  i \in 1 .. Len(inBank) \/ i = Len(inBank) + 1
    BY <1>8, <2>2
  <2>5. QED
    BY <1>8, <2>1, <2>3, <2>4
<1>12. BodyComing'
  <2>1. Len(hbody) + Len(inBank') = Moved'
    BY <1>7, <1>8, <1>9, FlowFacts
  <2>2. avr' # "room" /\ avr' # "waitIn"
    BY <1>1
  <2>3. QED
    BY <1>6, <1>10, <1>11, <2>1, <2>2 DEF AvrOnly, BodyComing
<1>13. HeaderInv' /\ QuietInv' /\ ForwardInv' /\ AnswerInv'
  BY <1>1, <1>3, <1>4, <1>5, <1>6, <1>12 DEF AvrOnly, HeaderInv, QuietInv, ForwardInv, AnswerInv
<1>14. ReturnInv'
  BY <1>1, <1>2, <1>3 DEF AvrOnly, ReturnInv, InCall
<1>15. QED
  BY <1>13, <1>14 DEF DataInv

(* Turning the lines round, and going to wait for the host, move no byte.   *)
LEMMA DataTurn ==
  ASSUME FlowInv, AvrOnly, SendPrep \/ Drive \/ SendRetcode \/ SendData
  PROVE  DataInv'
<1>1. /\ UNCHANGED <<hdr, dataLength, ch, portd>>
      /\ UNCHANGED <<inBank, inFull, outBank, outReady>>
      /\ avr \in {"poll", "drive"}
      /\ avr' \in {"ack", "poll", "waitOut", "waitData"} /\ (avr' = "ack" => resume' = "drive")
      /\ \/ state' = state /\ cb1' = cb1
         \/ avr = "poll" /\ cb2 # "high" /\ state = "SEND_PREP" /\ state' = "SEND_RETCODE"
  BY DEF SendPrep, Drive, SendRetcode, SendData, Poll, AckTo, portVars, usbVars
<1>2. HeaderInv /\ QuietInv /\ ForwardInv /\ AnswerInv /\ ReturnInv
  BY DEF FlowInv, DataInv
<1>3. ~HeaderDue /\ ~HeaderDue' /\ ~LengthDue /\ ~LengthDue'
  BY <1>1 DEF HeaderDue, LengthDue
<1>4. Quiet' <=> Quiet
  BY <1>1, <1>3 DEF Quiet
<1>5. Moved' = Moved
  BY <1>1 DEF AvrOnly, Moved
<1>6. state # "SEND_PREP" \/ state' = "SEND_PREP" \/ bbc = "turn"
  BY <1>1, StatePolled, Zenon DEF Recoverable, InCall
<1>7. bbc = "turn" \/ (HasAcked' <=> HasAcked)
  BY <1>1, <1>6 DEF AvrOnly, HasAcked
<1>8. HeaderInv' /\ QuietInv'
  BY <1>1, <1>2, <1>3, <1>4, <1>7 DEF AvrOnly, HeaderInv, QuietInv
<1>9. /\ HeaderWaits => HeaderWaits'
      /\ BodyComing => BodyComing'
      /\ RequestComplete => RequestComplete'
  BY <1>1, <1>5 DEF AvrOnly, HeaderWaits, BodyComing, RequestComplete
<1>10. ForwardInv'
  BY <1>1, <1>2, <1>4, <1>9 DEF AvrOnly, ForwardInv
<1>11. (HeaderOut => HeaderOut') /\ (DataOut => DataOut')
  BY <1>1, <1>3 DEF AvrOnly, HeaderOut, DataOut, Unwritten, Rest
<1>12. AnswerInv'
  BY <1>1, <1>2, <1>3, <1>4, <1>11 DEF AvrOnly, AnswerInv, SendStates
<1>13. ReturnInv'
  BY <1>1, <1>2, <1>7 DEF AvrOnly, ReturnInv, InCall, Rest
<1>14. QED
  BY <1>8, <1>10, <1>12, <1>13 DEF DataInv

(* An empty packet is skipped: what is due is not in it.                    *)
LEMMA DataSkip ==
  ASSUME FlowInv, AvrOnly, SkipEmptyPacket
  PROVE  DataInv'
<1>1. /\ UNCHANGED <<avr, resume, state, hdr, dataLength, ch, portd, cb1, inBank, inFull>>
      /\ avr \in {"waitOut", "recvLow", "recvHigh", "waitData"}
      /\ outBank = <<>> /\ outBank' = <<>>
  BY DEF SkipEmptyPacket, AckPacket, avrVars, portVars
<1>2. HeaderInv /\ QuietInv /\ ForwardInv /\ AnswerInv /\ ReturnInv
  BY DEF FlowInv, DataInv
<1>3. HeaderDue' = HeaderDue /\ LengthDue' = LengthDue /\ Quiet' = Quiet /\ Moved' = Moved
      /\ HasAcked' = HasAcked
  BY <1>1 DEF AvrOnly, HeaderDue, LengthDue, Quiet, Moved, HasAcked
<1>4. HeaderInv' /\ QuietInv'
  BY <1>1, <1>2, <1>3 DEF AvrOnly, HeaderInv, QuietInv
<1>5. /\ HeaderWaits => HeaderWaits'
      /\ BodyComing => BodyComing'
      /\ RequestComplete => RequestComplete'
  BY <1>1, <1>3 DEF AvrOnly, HeaderWaits, BodyComing, RequestComplete
<1>6. ForwardInv'
  BY <1>1, <1>2, <1>3, <1>5 DEF AvrOnly, ForwardInv
<1>7. ~HeaderOut \/ avr = "waitData"
  BY <1>1, PointFacts DEF HeaderOut, LengthDue
<1>8. DataOut => DataOut'
  BY <1>1 DEF AvrOnly, DataOut, Unwritten, Rest
<1>9. avr = "waitData" => ~LengthDue /\ state = "SEND_DATA"
  BY PointFacts DEF LengthDue
<1>10. AnswerInv'
  BY <1>1, <1>2, <1>3, <1>7, <1>8, <1>9 DEF AvrOnly, AnswerInv
<1>11. ReturnInv'
  BY <1>1, <1>2, <1>3 DEF AvrOnly, ReturnInv, InCall, Rest
<1>12. QED
  BY <1>4, <1>6, <1>10, <1>11 DEF DataInv

(* SEND_RETCODE passes the status on.                                       *)
LEMMA DataRetcode ==
  ASSUME FlowInv, AvrOnly, TakeRetcode
  PROVE  DataInv'
<1>1. /\ avr = "waitOut" /\ avr' = "ack" /\ resume' = "recvLow" /\ state' = "SEND_LENGTH_LOW"
      /\ outReady /\ outBank # <<>> /\ outBank' = Tail(outBank) /\ portd' = Head(outBank)
      /\ UNCHANGED <<hdr, dataLength, ch, inBank, inFull, outReady>>
  BY DEF TakeRetcode, TakeOut, OutByteThere, AckTo
<1>2. HeaderInv /\ QuietInv /\ ForwardInv /\ AnswerInv /\ ReturnInv
  BY DEF FlowInv, DataInv
<1>3. state = "SEND_RETCODE" /\ bbc = "status"
  BY <1>1, PointFacts, FlowFacts DEF FlowInv, LockInv, LockStep, PointInv, BetweenInv
<1>4. ~HeaderDue /\ ~Quiet /\ ~HeaderDue' /\ ~Quiet' /\ LengthDue'
  BY <1>1, <1>3 DEF HeaderDue, Quiet, LengthDue
<1>5. served /\ HeaderOut /\ inBank = <<>> /\ ~inFull
  BY <1>1, <1>2, <1>3, <1>4, FlowFacts DEF ForwardInv, AnswerInv
<1>6. outBank = <<answer.status, answer.lo, answer.hi>>
  BY <1>3, <1>5 DEF HeaderOut
<1>7. portd' = answer.status /\ outBank' = <<answer.lo, answer.hi>>
  BY <1>1, <1>6
<1>8. HeaderOut'
  BY <1>1, <1>5, <1>7 DEF AvrOnly, HeaderOut
<1>9. HeaderInv' /\ QuietInv' /\ ForwardInv' /\ AnswerInv'
  BY <1>1, <1>3, <1>4, <1>5, <1>8 DEF AvrOnly, HeaderInv, QuietInv, ForwardInv, AnswerInv, SendStates
<1>10. ReturnInv'
  BY <1>1, <1>2, <1>3, <1>5, <1>7 DEF AvrOnly, ReturnInv, InCall
<1>11. QED
  BY <1>9, <1>10 DEF DataInv

(* ...and takes the length behind it.                                       *)
LEMMA DataLengthLow ==
  ASSUME FlowInv, AvrOnly, RecvLengthLow
  PROVE  DataInv'
<1>1. /\ avr = "recvLow" /\ avr' = "recvHigh"
      /\ outReady /\ outBank' = Tail(outBank) /\ dataLength' = <<Head(outBank), dataLength[2]>>
      /\ UNCHANGED <<resume, state, hdr, ch, portd, cb1, inBank, inFull, outReady>>
  BY DEF RecvLengthLow, TakeOut, OutByteThere, portVars
<1>2. HeaderInv /\ QuietInv /\ ForwardInv /\ AnswerInv /\ ReturnInv
  BY DEF FlowInv, DataInv
<1>3. state = "SEND_LENGTH_LOW" /\ InCall /\ bbc \in {"status", "lenlo"} /\ (bbc = "status" => HasAcked)
  BY <1>1, PointFacts, FlowFacts DEF FlowInv, LockInv, LockStep, PointInv, LengthDue
<1>4. ~HeaderDue /\ ~Quiet /\ ~HeaderDue' /\ ~Quiet' /\ LengthDue /\ ~LengthDue'
  BY <1>1, <1>3 DEF HeaderDue, Quiet, LengthDue
<1>5. served
  BY <1>2, <1>3 DEF ReturnInv
<1>6. HeaderOut /\ inBank = <<>> /\ ~inFull
  BY <1>2, <1>3, <1>4, <1>5 DEF AnswerInv
<1>7. outBank = <<answer.lo, answer.hi>>
  BY <1>4, <1>6 DEF HeaderOut
<1>8. outBank' = <<answer.hi>> /\ dataLength'[1] = answer.lo
  BY <1>1, <1>7
<1>9. HeaderOut'
  BY <1>1, <1>3, <1>4, <1>6, <1>8 DEF AvrOnly, HeaderOut
<1>10. HeaderInv' /\ QuietInv' /\ ForwardInv' /\ AnswerInv'
  BY <1>1, <1>3, <1>4, <1>5, <1>6, <1>9 DEF AvrOnly, HeaderInv, QuietInv, ForwardInv, AnswerInv, SendStates
<1>11. HasAcked' = HasAcked
  BY <1>1 DEF AvrOnly, HasAcked
<1>12. ReturnInv'
  BY <1>1, <1>2, <1>3, <1>11 DEF AvrOnly, ReturnInv, InCall
<1>13. QED
  BY <1>10, <1>12 DEF DataInv

LEMMA DataLengthHigh ==
  ASSUME FlowInv, AvrOnly, RecvLengthHigh
  PROVE  DataInv'
<1>1. /\ avr = "recvHigh" /\ avr' = "poll"
      /\ outBank' = Tail(outBank) /\ dataLength' = <<dataLength[1], Head(outBank)>>
      /\ UNCHANGED <<resume, state, hdr, ch, portd, cb1, inBank, inFull, outReady>>
  BY DEF RecvLengthHigh, TakeOut, OutByteThere, portVars
<1>2. HeaderInv /\ QuietInv /\ ForwardInv /\ AnswerInv /\ ReturnInv
  BY DEF FlowInv, DataInv
<1>3. state = "SEND_LENGTH_LOW" /\ InCall /\ bbc \in {"status", "lenlo"} /\ (bbc = "status" => HasAcked)
  BY <1>1, PointFacts, FlowFacts DEF FlowInv, LockInv, LockStep, PointInv
<1>4. ~HeaderDue /\ ~Quiet /\ ~HeaderDue' /\ ~Quiet' /\ ~LengthDue'
  BY <1>1, <1>3 DEF HeaderDue, Quiet, LengthDue
<1>5. served
  BY <1>2, <1>3 DEF ReturnInv
<1>6. HeaderOut /\ inBank = <<>> /\ ~inFull
  BY <1>1, <1>2, <1>3, <1>4, <1>5 DEF AnswerInv
<1>7. outBank = <<answer.hi>> /\ dataLength[1] = answer.lo
  BY <1>1, <1>6 DEF HeaderOut
<1>8. outBank' = <<>> /\ dataLength' = <<answer.lo, answer.hi>>
  BY <1>1, <1>7
<1>9. Rest' = Word(answer.lo, answer.hi) /\ Len(answer.data) = Word(answer.lo, answer.hi)
  BY <1>2, <1>3, <1>5, <1>8 DEF Rest, ReturnInv
<1>10. DataOut'
  <2>1. answer.data \in Seq(Byte)
    BY FlowFacts DEF Reply
  <2>2. host = "respBody" => rsp = answer /\ answer.data # <<>>
    BY <1>6, <1>9, <2>1 DEF HeaderOut
  <2>3. host = "header" => Rest' = 0
    BY <1>6, <1>9 DEF HeaderOut
  <2>4. host \in {"respBody", "header"}
    BY <1>6 DEF HeaderOut
  <2>5. Unwritten' = Rest'
    BY <1>9, <2>2, <2>3, <2>4 DEF AvrOnly, Unwritten
  <2>6. Len(outBank') + Unwritten' = Rest'
    BY <1>8, <1>9, <2>1, <2>5
  <2>7. \A i \in 1 .. Len(outBank') : outBank'[i] = answer'.data[Len(answer'.data) - Rest' + i]
    BY <1>8
  <2>8. Rest' <= Len(answer.data)
    BY <1>9, <2>1
  <2>9. host = "respBody" =>
          \A i \in 1 .. Len(rsp.data) :
            rsp.data[i] = answer.data[Len(answer.data) - Len(rsp.data) + i]
    <3> SUFFICES ASSUME host = "respBody", NEW i \in 1 .. Len(rsp.data)
                 PROVE  rsp.data[i] = answer.data[Len(answer.data) - Len(rsp.data) + i]
      OBVIOUS
    <3>1. rsp = answer /\ Len(answer.data) \in Nat
      BY <2>1, <2>2
    <3>2. Len(answer.data) - Len(rsp.data) + i = i
      BY <3>1
    <3>3. QED
      BY <3>1, <3>2
  <2>10. QED
    BY <1>1, <1>3, <1>8, <2>2, <2>4, <2>6, <2>7, <2>8, <2>9 DEF AvrOnly, DataOut
<1>11. HeaderInv' /\ QuietInv' /\ ForwardInv' /\ AnswerInv'
  BY <1>1, <1>3, <1>4, <1>5, <1>6, <1>10 DEF AvrOnly, HeaderInv, QuietInv, ForwardInv, AnswerInv, SendStates
<1>12. HasAcked' = HasAcked
  BY <1>1 DEF AvrOnly, HasAcked
<1>13. ReturnInv'
  BY <1>1, <1>2, <1>3, <1>12 DEF AvrOnly, ReturnInv, InCall
<1>14. QED
  BY <1>11, <1>13 DEF DataInv

LEMMA DataSendLow ==
  ASSUME FlowInv, AvrOnly, SendLengthLow
  PROVE  DataInv'
<1>1. /\ avr = "poll" /\ cb2 # "high" /\ avr' = "ack" /\ resume' = "poll"
      /\ state = "SEND_LENGTH_LOW" /\ state' = "SEND_LENGTH_HIGH"
      /\ UNCHANGED <<hdr, dataLength, ch, inBank, inFull, outBank, outReady>>
  BY DEF SendLengthLow, Poll, AckTo, usbVars
<1>2. HeaderInv /\ QuietInv /\ ForwardInv /\ AnswerInv /\ ReturnInv
  BY DEF FlowInv, DataInv
<1>3. bbc = "lenlo"
  BY <1>1, StatePolled DEF Recoverable, InCall
<1>4. ~HeaderDue /\ ~Quiet /\ ~HeaderDue' /\ ~Quiet' /\ ~LengthDue /\ ~LengthDue'
  BY <1>1 DEF HeaderDue, Quiet, LengthDue
<1>5. served
  BY <1>2, <1>3 DEF ReturnInv
<1>6. DataOut /\ inBank = <<>> /\ ~inFull
  BY <1>1, <1>2, <1>4, <1>5 DEF AnswerInv
<1>7. DataOut'
  BY <1>1, <1>6 DEF AvrOnly, DataOut, Unwritten, Rest
<1>8. HeaderInv' /\ QuietInv' /\ ForwardInv' /\ AnswerInv'
  BY <1>1, <1>3, <1>4, <1>5, <1>6, <1>7 DEF AvrOnly, HeaderInv, QuietInv, ForwardInv, AnswerInv, SendStates
<1>9. ReturnInv'
  BY <1>1, <1>2, <1>3 DEF AvrOnly, ReturnInv, InCall
<1>10. QED
  BY <1>8, <1>9 DEF DataInv

(* When nothing is left to send nothing is left in the bank or in the host. *)
LEMMA DataDone ==
  ASSUME FlowInv, DataOut, Rest = 0
  PROVE  host = "header" /\ outBank = <<>>
<1>1. Len(outBank) + Unwritten = 0 /\ host \in {"respBody", "header"}
      /\ (host = "respBody" => rsp.data # <<>>)
  BY DEF DataOut
<1>2. outBank \in Seq(Byte) /\ rsp.data \in Seq(Byte)
  BY FlowFacts DEF Reply
<1>3. Len(outBank) \in Nat /\ Unwritten \in Nat
  BY <1>2 DEF Unwritten
<1>4. Len(outBank) = 0 /\ Unwritten = 0
  BY <1>1, <1>3
<1>5. outBank = <<>>
  BY <1>2, <1>4
<1>6. host # "respBody"
  BY <1>1, <1>2, <1>4 DEF Unwritten
<1>7. QED
  BY <1>1, <1>5, <1>6

LEMMA DataSendHigh ==
  ASSUME FlowInv, AvrOnly, SendLengthHigh
  PROVE  DataInv'
<1>1. /\ avr = "poll" /\ cb2 # "high" /\ avr' = "ack" /\ resume' = "poll"
      /\ state = "SEND_LENGTH_HIGH"
      /\ state' = IF dataLength # Zero THEN "SEND_DATA" ELSE "FINISH"
      /\ UNCHANGED <<hdr, dataLength, ch, inBank, inFull, outBank, outReady>>
  BY DEF SendLengthHigh, Poll, AckTo, usbVars
<1>2. HeaderInv /\ QuietInv /\ ForwardInv /\ AnswerInv /\ ReturnInv
  BY DEF FlowInv, DataInv
<1>3. bbc = "lenhi"
  BY <1>1, StatePolled DEF Recoverable, InCall
<1>4. ~HeaderDue /\ ~Quiet /\ ~HeaderDue' /\ ~LengthDue /\ ~LengthDue'
      /\ (Quiet' <=> dataLength = Zero)
  BY <1>1 DEF HeaderDue, Quiet, LengthDue
<1>5. served
  BY <1>2, <1>3 DEF ReturnInv
<1>6. DataOut /\ inBank = <<>> /\ ~inFull
  BY <1>1, <1>2, <1>4, <1>5 DEF AnswerInv
<1>7. dataLength = <<answer.lo, answer.hi>>
  BY <1>1, <1>6 DEF DataOut
<1>8. DataOut'
  BY <1>1, <1>6, <1>7 DEF AvrOnly, DataOut, Unwritten, Rest
<1>9. QuietInv'
  <2>1. dataLength = Zero => host = "header" /\ outBank = <<>>
    BY <1>6, DataDone, RestFacts
  <2>2. QED
    BY <1>1, <1>4, <1>6, <2>1 DEF AvrOnly, QuietInv
<1>10. HeaderInv' /\ ForwardInv' /\ AnswerInv'
  BY <1>1, <1>3, <1>4, <1>5, <1>6, <1>8 DEF AvrOnly, HeaderInv, ForwardInv, AnswerInv, SendStates
<1>11. ReturnInv'
  BY <1>1, <1>2, <1>3, <1>7 DEF AvrOnly, ReturnInv, InCall
<1>12. QED
  BY <1>9, <1>10, <1>11 DEF DataInv

(* SEND_DATA passes the next byte of the response on.                       *)
LEMMA DataTakeData ==
  ASSUME FlowInv, AvrOnly, TakeData
  PROVE  DataInv'
<1>1. /\ avr = "waitData" /\ avr' = "ack" /\ resume' = "poll"
      /\ outReady /\ outBank # <<>> /\ outBank' = Tail(outBank) /\ portd' = Head(outBank)
      /\ dataLength' = Decrement(dataLength)
      /\ state' = IF dataLength' = Zero THEN "FINISH" ELSE "SEND_DATA"
      /\ UNCHANGED <<hdr, ch, inBank, inFull, outReady>>
  BY DEF TakeData, TakeOut, OutByteThere, AckTo
<1>2. HeaderInv /\ QuietInv /\ ForwardInv /\ AnswerInv /\ ReturnInv
  BY DEF FlowInv, DataInv
<1>3. state = "SEND_DATA" /\ dataLength # Zero /\ bbc = "data" /\ ~HasAcked
  BY <1>1, PointFacts, FlowFacts DEF FlowInv, LockInv, LockStep, PointInv, BetweenInv, HasAcked
<1>4. ~HeaderDue /\ ~Quiet /\ ~HeaderDue' /\ ~LengthDue /\ ~LengthDue'
      /\ (Quiet' <=> dataLength' = Zero)
  BY <1>1, <1>3 DEF HeaderDue, Quiet, LengthDue
<1>5. served
  BY <1>2, <1>3 DEF ReturnInv
<1>6. DataOut /\ inBank = <<>> /\ ~inFull
  BY <1>1, <1>2, <1>3, <1>4, <1>5 DEF AnswerInv
<1>7. Rest' = Rest - 1 /\ Rest \in Nat /\ Rest # 0
  BY <1>1, <1>3, FlowFacts, RestFacts, DecrementWord DEF Rest
<1> DEFINE n == Len(answer.data)
<1>8. n \in Nat /\ Rest <= n
  BY <1>6, FlowFacts DEF DataOut, Reply
<1>9. /\ outBank \in Seq(Byte) /\ Len(outBank) >= 1
      /\ Len(outBank') = Len(outBank) - 1
      /\ \A i \in 1 .. Len(outBank) - 1 : outBank'[i] = outBank[i + 1]
      /\ portd' = outBank[1]
  BY <1>1, FlowFacts
<1>10. \A i \in 1 .. Len(outBank) : outBank[i] = answer.data[n - Rest + i]
  BY <1>6 DEF DataOut
<1>11. portd' = answer.data[n - Rest + 1]
  BY <1>9, <1>10
<1> HIDE DEF n
<1>12. \A i \in 1 .. Len(outBank') : outBank'[i] = answer.data[n - Rest' + i]
  <2> SUFFICES ASSUME NEW i \in 1 .. Len(outBank') PROVE outBank'[i] = answer.data[n - Rest' + i]
    OBVIOUS
  <2>1. i \in 1 .. Len(outBank) - 1 /\ i + 1 \in 1 .. Len(outBank) /\ i \in Int
    BY <1>9
  <2>2. outBank'[i] = answer.data[n - Rest + (i + 1)]
    BY <1>9, <1>10, <2>1
  <2>3. n - Rest' + i = n - Rest + (i + 1)
    BY <1>7, <1>8, <2>1
  <2>4. QED
    BY <2>2, <2>3
<1>13. Len(outBank') + Unwritten' = Rest' /\ Unwritten' = Unwritten
  <2>1. Unwritten' = Unwritten
    BY DEF AvrOnly, Unwritten
  <2>2. rsp.data \in Seq(Byte)
    BY FlowFacts DEF Reply
  <2>3. Unwritten \in Nat
    BY <2>2 DEF Unwritten
  <2>4. Len(outBank) + Unwritten = Rest
    BY <1>6 DEF DataOut
  <2>5. QED
    BY <1>7, <1>9, <2>1, <2>3, <2>4
<1>14. DataOut'
  <2>1. Rest' <= n
    BY <1>7, <1>8
  <2>2. state' \notin {"SEND_LENGTH_LOW", "SEND_LENGTH_HIGH"}
    BY <1>1
  <2>3. QED
    BY <1>1, <1>6, <1>12, <1>13, <2>1, <2>2 DEF AvrOnly, DataOut, n
<1>15. QuietInv'
  <2>1. Quiet' => host = "header" /\ outBank' = <<>>
    <3> SUFFICES ASSUME Quiet' PROVE host = "header" /\ outBank' = <<>>
      OBVIOUS
    <3>1. Rest' = 0
      BY <1>4, <1>1, ByteArithmetic, BaseAssumption DEF Rest, Zero, Word
    <3>2. Len(outBank') = 0 /\ Unwritten = 0
      <4>1. Unwritten \in Nat
        BY FlowFacts DEF Unwritten, Reply
      <4>2. QED
        BY <1>9, <1>13, <3>1, <4>1
    <3>3. outBank' = <<>>
      BY <1>1, <1>9, <3>2
    <3>4. host # "respBody"
      BY <1>6, <3>2, FlowFacts DEF DataOut, Unwritten, Reply
    <3>5. QED
      BY <1>6, <3>3, <3>4 DEF DataOut
  <2>2. QED
    BY <1>1, <1>6, <2>1 DEF AvrOnly, QuietInv
<1>16. HeaderInv' /\ ForwardInv' /\ AnswerInv'
  BY <1>1, <1>3, <1>4, <1>5, <1>6, <1>14 DEF AvrOnly, HeaderInv, ForwardInv, AnswerInv, SendStates
<1>17. ReturnInv'
  <2>1. Len(got.data) + 0 = n - Rest /\ Len(got.data) \in Nat
    BY <1>2, <1>3, FlowFacts DEF ReturnInv, Reply, n
  <2>2. Len(got.data) + 1 = n - Rest' /\ Len(got.data) + 1 = n - Rest + 1
    BY <1>7, <1>8, <2>1
  <2>3. portd' = answer.data[Len(got.data) + 1]
    BY <1>11, <2>2
  <2>4. HasAcked'
    <3>1. cb1' = TRUE
      BY DEF TakeData, AckTo, AckEdge
    <3>2. waiting
      BY <1>1, <1>3 DEF FlowInv, LockInv, LockStep, PointInv, InCall
    <3>3. QED
      BY <3>1, <3>2 DEF AvrOnly, HasAcked
  <2>5. QED
    BY <1>1, <1>2, <1>3, <1>5, <2>2, <2>3, <2>4 DEF AvrOnly, ReturnInv, InCall, n
<1>18. QED
  BY <1>15, <1>16, <1>17 DEF DataInv

(* FINISH gives the bank back; between calls it is empty anyway.            *)
LEMMA DataFinish ==
  ASSUME FlowInv, AvrOnly, Finish
  PROVE  DataInv'
<1>1. /\ avr = "poll" /\ cb2 # "high" /\ avr' = "ack" /\ resume' = "poll"
      /\ state = "FINISH" /\ state' = "GET_CHANNEL"
      /\ outBank' = <<>>
      /\ UNCHANGED <<hdr, dataLength, ch, portd, inBank, inFull>>
  BY DEF Finish, Poll, AckTo, AckPacket
<1>2. HeaderInv /\ QuietInv /\ ReturnInv
  BY DEF FlowInv, DataInv
<1>3. bbc \in {"pulse", "drop"}
  BY <1>1, StatePolled DEF InCall
<1>4. Quiet /\ Quiet' /\ ~HeaderDue'
  BY <1>1 DEF Quiet, HeaderDue
<1>5. HeaderInv' /\ QuietInv' /\ ForwardInv' /\ AnswerInv'
  BY <1>1, <1>2, <1>3, <1>4 DEF AvrOnly, HeaderInv, QuietInv, ForwardInv, AnswerInv
<1>6. ReturnInv'
  BY <1>1, <1>2, <1>3 DEF AvrOnly, ReturnInv, InCall
<1>7. QED
  BY <1>5, <1>6 DEF DataInv

-----------------------------------------------------------------------------
(* The host's steps. The user port, the BBC and the AVR stay as they are.   *)
HostOnly ==
  /\ UNCHANGED <<portd, cb1, bbc, waiting, req, y, pages, got>>
  /\ UNCHANGED <<avr, resume, state, hdr, dataLength, ch>>

LEMMA HostOnlyFacts ==
  ASSUME HostOnly
  PROVE  /\ HasAcked' <=> HasAcked
         /\ InCall' <=> InCall
         /\ HeaderDue' <=> HeaderDue
         /\ LengthDue' <=> LengthDue
         /\ Quiet' <=> Quiet
         /\ Rest' = Rest
         /\ Moved' = Moved
BY DEF HostOnly, HasAcked, InCall, HeaderDue, LengthDue, Quiet, Rest, Moved

LEMMA HostFrame ==
  ASSUME FlowInv, HostOnly, UNCHANGED <<served, answer>>
  PROVE  HeaderInv' /\ ReturnInv'
<1>1. HeaderInv /\ ReturnInv
  BY DEF FlowInv, DataInv
<1>2. HeaderInv'
  BY <1>1, HostOnlyFacts DEF HostOnly, HeaderInv
<1>3. ReturnInv'
  BY <1>1, HostOnlyFacts DEF HostOnly, ReturnInv
<1>4. QED
  BY <1>2, <1>3

(* The host has been started, and has not ended.                            *)
LEMMA HostAlive ==
  ASSUME FlowInv
  PROVE  /\ host \notin {"off", "dead"}
         /\ inFull \/ host # "header" => ~Quiet
         /\ inFull \/ host \in {"body", "execute"} => ~served
         /\ host \in {"respHeader", "respBody"} => served
<1>1. QuietInv /\ ForwardInv /\ AnswerInv
  BY DEF FlowInv, DataInv
<1>2. Quiet => host = "header" /\ ~inFull
  BY <1>1 DEF QuietInv
<1>3. ~Quiet /\ ~served => host \in {"header", "body", "execute"}
  BY <1>1 DEF ForwardInv, HeaderWaits, BodyComing, RequestComplete
<1>4. ~Quiet /\ served => host \in {"respHeader", "respBody", "header"} /\ ~inFull
  BY <1>1 DEF AnswerInv, HeaderOut, DataOut
<1>5. QED
  BY <1>2, <1>3, <1>4, FlowFacts

(* The server reads the header of this call.                                *)
LEMMA DataReadHeader ==
  ASSUME FlowInv, HostOnly, ReadHeader, UNCHANGED <<served, answer>>
  PROVE  DataInv'
<1>1. /\ host = "header" /\ inFull /\ inBank' = <<>> /\ ~inFull' /\ outBank' = outBank
      /\ hreq' = [i \in 1 .. 6 |-> IF i <= Len(inBank) THEN inBank[i] ELSE hreq[i]]
      /\ hbody' = <<>>
      /\ host' = IF Word(hreq'[5], hreq'[6]) # 0 THEN "body" ELSE "execute"
  BY DEF ReadHeader, TakeIn
<1>2. ~Quiet /\ ~served
  BY <1>1, HostAlive
<1>3. ForwardInv
  BY DEF FlowInv, DataInv
<1>4. HeaderWaits /\ outBank = <<>>
      /\ state \in {"GET_DATA", "SEND_PREP", "SEND_RETCODE"}
      /\ (state # "GET_DATA" => dataLength = Zero)
  BY <1>1, <1>2, <1>3 DEF ForwardInv, BodyComing, RequestComplete
<1>5. hreq' = req.block
  <2>1. \A i \in 1 .. 6 : hreq'[i] = req.block[i]
    BY <1>1, <1>4 DEF HeaderWaits
  <2>2. req.block \in [1 .. 6 -> Byte]
    BY FlowFacts
  <2>3. hreq' = [i \in 1 .. 6 |-> hreq'[i]]
    BY <1>1
  <2>4. QED
    BY <2>1, <2>2, <2>3
<1>6. Word(hreq'[5], hreq'[6]) = Len(req.body) /\ Rest = Len(req.body) /\ Len(req.body) \in Nat
  BY <1>4, <1>5, FlowFacts DEF HeaderWaits, Rest
<1>7. avr # "room"
  BY <1>4, PointFacts DEF HeaderWaits
<1>8. Moved = 0
  <2>1. Moved = Len(req.body) - Rest - 0
    BY <1>7 DEF Moved, Rest
  <2>2. QED
    BY <1>6, <2>1
<1>9. HeaderWaits' \/ BodyComing' \/ RequestComplete'
  <2>1. CASE Len(req.body) # 0
    <3>1. host' = "body"
      BY <1>1, <1>6, <2>1
    <3>2. BodyComing'
      BY <1>1, <1>5, <1>6, <1>7, <1>8, <2>1, <3>1, HostOnlyFacts DEF HostOnly, BodyComing
    <3>3. QED
      BY <3>2
  <2>2. CASE Len(req.body) = 0
    <3>1. host' = "execute" /\ req.body = <<>>
      BY <1>1, <1>6, <2>2, FlowFacts
    <3>2. state # "GET_DATA"
      BY <1>6, <1>7, <2>2, RestFacts, PointFacts
    <3>3. RequestComplete'
      BY <1>1, <1>5, <3>1, <3>2 DEF HostOnly, RequestComplete
    <3>4. QED
      BY <3>3
  <2>3. QED
    BY <2>1, <2>2
<1>10. QuietInv' /\ ForwardInv' /\ AnswerInv'
  BY <1>1, <1>2, <1>4, <1>9, HostOnlyFacts DEF HostOnly, QuietInv, ForwardInv, AnswerInv
<1>11. QED
  BY <1>10, HostFrame DEF DataInv

(* It never sees a longer packet where it expects a header, or more data    *)
(* than the header announced, or a request that traps.                      *)
LEMMA NoOverflow ==
  ASSUME FlowInv
  PROVE  /\ ~HeaderOverflow
         /\ ~BodyOverflow
<1>1. ForwardInv
  BY DEF FlowInv, DataInv
<1>2. ASSUME inFull, host = "header" PROVE ~(Len(inBank) > 6)
  <2>1. Len(inBank) = 6
    BY <1>1, <1>2, HostAlive DEF ForwardInv, HeaderWaits, BodyComing, RequestComplete
  <2>2. QED
    BY <2>1
<1>3. ASSUME inFull, host = "body" PROVE ~(Len(BodyWith(inBank)) > BodyLength)
  <2>1. BodyComing
    BY <1>1, <1>3, HostAlive DEF ForwardInv, HeaderWaits, RequestComplete
  <2>2. BodyLength = Len(req.body)
    BY <2>1, FlowFacts DEF BodyComing, BodyLength
  <2>3. hbody \in Seq(Byte) /\ inBank \in Seq(Byte)
    BY FlowFacts
  <2>4. Len(BodyWith(inBank)) = Len(hbody) + Len(inBank)
    BY <2>3 DEF BodyWith
  <2>5. Moved <= Len(req.body)
    <3>1. Moved = Len(req.body) - Rest - (IF avr = "room" THEN 1 ELSE 0)
      BY DEF Moved, Rest
    <3>2. QED
      BY <3>1, RestFacts, FlowFacts
  <2>6. Moved \in Nat /\ Len(BodyWith(inBank)) = Moved
    BY <2>1, <2>3, <2>4 DEF BodyComing
  <2>7. QED
    BY <2>2, <2>5, <2>6, FlowFacts
<1>4. QED
  BY <1>2, <1>3 DEF HeaderOverflow, BodyOverflow, TakeIn

LEMMA DataReadBody ==
  ASSUME FlowInv, HostOnly, ReadBody, UNCHANGED <<served, answer>>
  PROVE  DataInv'
<1>1. /\ host = "body" /\ inFull /\ inBank' = <<>> /\ ~inFull' /\ outBank' = outBank
      /\ hreq' = hreq /\ hbody' = hbody \o inBank
      /\ host' = IF Len(inBank) < EpSize \/ Len(hbody') = BodyLength THEN "execute" ELSE "body"
  BY DEF ReadBody, TakeIn, BodyWith
<1>2. ~Quiet /\ ~served
  BY <1>1, HostAlive
<1>3. ForwardInv
  BY DEF FlowInv, DataInv
<1>4. BodyComing /\ outBank = <<>>
      /\ state \in {"GET_DATA", "SEND_PREP", "SEND_RETCODE"}
      /\ (state # "GET_DATA" => dataLength = Zero)
  BY <1>1, <1>2, <1>3 DEF ForwardInv, HeaderWaits, RequestComplete
<1>5. hbody \in Seq(Byte) /\ inBank \in Seq(Byte) /\ req.body \in Seq(Byte)
      /\ Len(inBank) <= EpSize
  BY FlowFacts
<1>6. BodyLength = Len(req.body) /\ hreq = req.block
  BY <1>4, FlowFacts DEF BodyComing, BodyLength
<1> DEFINE s == hbody \o inBank
<1>7. /\ s \in Seq(Byte) /\ Len(s) = Len(hbody) + Len(inBank)
      /\ \A i \in 1 .. Len(hbody) + Len(inBank) :
           s[i] = IF i <= Len(hbody) THEN hbody[i] ELSE inBank[i - Len(hbody)]
  BY <1>5, ConcatProperties
<1>8. hbody' = s
  BY <1>1
<1> HIDE DEF s
<1>9. Len(s) = Moved
  BY <1>4, <1>7 DEF BodyComing
<1>10. \A i \in 1 .. Len(s) : s[i] = req.body[i]
  <2> SUFFICES ASSUME NEW i \in 1 .. Len(s) PROVE s[i] = req.body[i]
    OBVIOUS
  <2>1. CASE i <= Len(hbody)
    <3>1. s[i] = hbody[i] /\ i \in 1 .. Len(hbody)
      BY <1>5, <1>7, <2>1
    <3>2. QED
      BY <1>4, <3>1 DEF BodyComing
  <2>2. CASE ~(i <= Len(hbody))
    <3>1. s[i] = inBank[i - Len(hbody)] /\ i - Len(hbody) \in 1 .. Len(inBank)
      BY <1>5, <1>7, <2>2
    <3>2. inBank[i - Len(hbody)] = req.body[Len(hbody) + (i - Len(hbody))]
      BY <1>4, <3>1 DEF BodyComing
    <3>3. Len(hbody) + (i - Len(hbody)) = i
      BY <1>5
    <3>4. QED
      BY <3>1, <3>2, <3>3
  <2>3. QED
    BY <2>1, <2>2
<1>11. Moved = Len(req.body) - Rest - (IF avr = "room" THEN 1 ELSE 0)
  BY DEF Moved, Rest
<1>12. HeaderWaits' \/ BodyComing' \/ RequestComplete'
  <2>1. CASE Moved = Len(req.body)
    <3>1. host' = "execute"
      BY <1>1, <1>6, <1>8, <1>9, <2>1
    <3>2. s = req.body
      BY <1>5, <1>7, <1>9, <1>10, <2>1
    <3>3. avr # "room" /\ Rest = 0
      BY <1>11, <2>1, <1>5, RestFacts
    <3>4. state # "GET_DATA"
      BY <3>3, RestFacts, PointFacts
    <3>5. RequestComplete'
      BY <1>1, <1>6, <1>8, <3>1, <3>2, <3>4 DEF HostOnly, RequestComplete
    <3>6. QED
      BY <3>5
  <2>2. CASE Moved # Len(req.body)
    <3>1. Len(inBank) = EpSize
      BY <1>1, <1>4, <2>2 DEF BodyComing
    <3>2. host' = "body"
      BY <1>1, <1>5, <1>6, <1>8, <1>9, <2>2, <3>1, EpSizeAssumption
    <3>3. Len(s) < Len(req.body)
      BY <1>5, <1>9, <1>11, <2>2, RestFacts
    <3>4. avr = "room" => ch = req.body[Moved + 1]
      BY <1>4 DEF BodyComing
    <3>5. Len(s) + Len(inBank') = Moved
      <4>1. Len(inBank') = 0 /\ Len(s) \in Nat
        BY <1>1, <1>7
      <4>2. QED
        BY <1>9, <4>1
    <3>6. BodyComing'
      BY <1>1, <1>6, <1>8, <1>10, <2>2, <3>2, <3>3, <3>4, <3>5, EpSizeAssumption, HostOnlyFacts
         DEF HostOnly, BodyComing
    <3>7. QED
      BY <3>6
  <2>3. QED
    BY <2>1, <2>2
<1>13. QuietInv' /\ ForwardInv' /\ AnswerInv'
  BY <1>1, <1>2, <1>4, <1>12, HostOnlyFacts DEF HostOnly, QuietInv, ForwardInv, AnswerInv
<1>14. QED
  BY <1>13, HostFrame DEF DataInv

(* The request is complete when it is executed, and it is this call's.      *)
LEMMA ExecuteFacts ==
  ASSUME FlowInv, host = "execute"
  PROVE  /\ RequestComplete /\ ~served /\ ~Quiet /\ InCall
         /\ outBank = <<>> /\ state \in {"SEND_PREP", "SEND_RETCODE"}
<1>1. ~served /\ ~Quiet
  BY HostAlive
<1>2. InCall
  BY <1>1, LateInCall
<1>3. ForwardInv
  BY DEF FlowInv, DataInv
<1>4. QED
  BY <1>1, <1>2, <1>3 DEF ForwardInv, HeaderWaits, BodyComing, RequestComplete

LEMMA DataExecute ==
  ASSUME FlowInv, HostOnly, NothingStale, NEW junk \in Byte, Execute(junk),
         served' = TRUE, answer' = rsp'
  PROVE  DataInv'
<1>1. /\ host = "execute" /\ host' = "respHeader" /\ ~Traps(hreq)
      /\ rsp' = ExecuteRequest(hreq, hbody, junk)
      /\ UNCHANGED <<inBank, inFull, outBank, outReady>>
  BY DEF Execute, usbVars
<1>2. /\ RequestComplete /\ ~served /\ ~Quiet /\ InCall
      /\ outBank = <<>> /\ state \in {"SEND_PREP", "SEND_RETCODE"}
  BY <1>1, ExecuteFacts
<1>3. hreq = req.block /\ hbody = req.body /\ inBank = <<>> /\ ~inFull
  BY <1>2 DEF RequestComplete
<1>4. answer' = ExecuteRequest(req.block, req.body, 0)
  BY <1>1, <1>3, FlowFacts DEF NothingStale
<1>5. Len(answer'.data) = Word(answer'.lo, answer'.hi)
  <2>1. req.block \in Block /\ req.body \in Seq(Byte)
    BY FlowFacts DEF Block
  <2>2. QED
    BY <1>1, <1>3, <2>1, AnswerLength
<1>6. HeaderInv /\ ReturnInv
  BY DEF FlowInv, DataInv
<1>7. ~HeaderDue /\ ~HeaderDue'
  BY <1>2, HostOnlyFacts DEF Quiet
<1>8. bbc # "pulse" /\ (bbc = "block" => y = 5 /\ HasAcked)
  <2>1. StateInv /\ LoopInv
    BY DEF FlowInv, LockInv, LockStep, TypeInv
  <2>2. bbc = "block" => y \in 0 .. 5
    BY <2>1 DEF LoopInv
  <2>3. ASSUME bbc = "block" PROVE y = 5 /\ HasAcked
    <3>1. \A i \in 1 .. 6 : BlockStates[i] \notin {"SEND_PREP", "SEND_RETCODE"}
      BY DEF BlockStates
    <3>2. HasAcked
      BY <1>2, <2>1, <2>2, <2>3, <3>1 DEF StateInv
    <3>3. y = 5
      BY <1>2, <2>1, <2>2, <2>3, <3>1, <3>2 DEF StateInv
    <3>4. QED
      BY <3>2, <3>3
  <2>4. QED
    BY <1>2, <2>3 DEF InCall
<1>9. HeaderInv'
  BY <1>6, <1>7, <1>8, HostOnlyFacts DEF HostOnly, HeaderInv
<1>10. QuietInv' /\ ForwardInv' /\ AnswerInv'
  BY <1>1, <1>2, <1>3, HostOnlyFacts DEF HostOnly, QuietInv, ForwardInv, AnswerInv, SendStates
<1>11. bbc \notin {"lenlo", "lenhi", "data", "drop"} /\ ~(bbc = "status" /\ HasAcked)
  BY <1>2, <1>6 DEF ReturnInv
<1>12. ReturnInv'
  BY <1>4, <1>5, <1>6, <1>11, HostOnlyFacts DEF HostOnly, ReturnInv
<1>13. QED
  BY <1>9, <1>10, <1>12 DEF DataInv

LEMMA NeverTraps ==
  ASSUME FlowInv, NoTraps
  PROVE  ~DivideByZero
BY ExecuteFacts, FlowFacts DEF DivideByZero, RequestComplete, NoTraps

(* The response goes out: its header...                                     *)
LEMMA DataWriteHeader ==
  ASSUME FlowInv, HostOnly, WriteHeader, UNCHANGED <<served, answer>>
  PROVE  DataInv'
<1>1. /\ host = "respHeader"
      /\ outBank' = <<rsp.status, rsp.lo, rsp.hi>> /\ outReady' = TRUE
      /\ host' = IF Word(rsp.lo, rsp.hi) # 0 THEN "respBody" ELSE "header"
      /\ UNCHANGED <<rsp, inBank, inFull>>
  BY DEF WriteHeader, WritePacket
<1>2. ~Quiet /\ served
  BY <1>1, HostAlive
<1>3. AnswerInv
  BY DEF FlowInv, DataInv
<1>4. state \in {"SEND_PREP", "SEND_RETCODE"} /\ rsp = answer /\ inBank = <<>> /\ ~inFull
  BY <1>1, <1>2, <1>3 DEF AnswerInv, HeaderOut, DataOut
<1>5. ~LengthDue /\ avr # "recvHigh"
  BY <1>4, PointFacts
<1>6. HeaderOut'
  BY <1>1, <1>4, <1>5, HostOnlyFacts DEF HostOnly, HeaderOut
<1>7. QuietInv' /\ ForwardInv' /\ AnswerInv'
  BY <1>1, <1>2, <1>4, <1>6, HostOnlyFacts DEF HostOnly, QuietInv, ForwardInv, AnswerInv, SendStates
<1>8. QED
  BY <1>7, HostFrame DEF DataInv

(* ...and its data, a packet at a time.                                     *)
LEMMA DataWriteBody ==
  ASSUME FlowInv, HostOnly, WriteBody, UNCHANGED <<served, answer>>
  PROVE  DataInv'
<1> DEFINE all == rsp.data
           m == Len(rsp.data)
           n == IF Len(rsp.data) > EpSize THEN EpSize ELSE Len(rsp.data)
           total == Len(answer.data)
<1>1. /\ host = "respBody" /\ ~outReady
      /\ outBank' = SubSeq(all, 1, n) /\ outReady' = TRUE
      /\ rsp' = [rsp EXCEPT !.data = SubSeq(@, n + 1, Len(@))]
      /\ host' = IF n = m THEN "header" ELSE "respBody"
      /\ UNCHANGED <<inBank, inFull>>
  BY DEF WriteBody, WritePacket
<1>2. ~Quiet /\ served
  BY <1>1, HostAlive
<1>3. AnswerInv
  BY DEF FlowInv, DataInv
<1>4. DataOut /\ inBank = <<>> /\ ~inFull
      /\ state \in SendStates
      /\ state \notin {"SEND_PREP", "SEND_RETCODE"} /\ ~LengthDue /\ avr # "recvHigh"
  BY <1>1, <1>2, <1>3 DEF AnswerInv, HeaderOut
<1>5. outBank = <<>>
  BY <1>1, <1>4 DEF DataOut
<1>6. all \in Seq(Byte) /\ m \in Nat /\ n \in Nat /\ n <= m /\ total \in Nat
  BY FlowFacts, EpSizeAssumption DEF Reply
<1>7. m = Rest
  <2>1. Len(outBank) + m = Rest
    BY <1>1, <1>4 DEF DataOut, Unwritten
  <2>2. QED
    BY <1>5, <1>6, <2>1
<1>8. /\ Len(SubSeq(all, 1, n)) = n
      /\ \A i \in 1 .. n : SubSeq(all, 1, n)[i] = all[i]
  BY <1>6
<1>9. /\ Len(SubSeq(all, n + 1, m)) = m - n
      /\ \A i \in 1 .. m - n : SubSeq(all, n + 1, m)[i] = all[n + i]
  BY <1>6
<1>10. rsp'.data = SubSeq(all, n + 1, m)
  BY <1>1, FlowFacts DEF Reply
<1>11. \A i \in 1 .. m : all[i] = answer.data[(total - m) + i]
  BY <1>1, <1>4 DEF DataOut
<1>12. n # m => SubSeq(all, n + 1, m) # <<>>
  <2>1. Len(SubSeq(all, n + 1, m)) = m - n
    BY <1>9
  <2> HIDE DEF all, m, n
  <2>2. n # m => m - n # 0
    BY <1>6
  <2>3. QED
    BY <2>1, <2>2
<1> HIDE DEF all, m, n, total
<1>13. Len(outBank') = n /\ Len(rsp'.data) = m - n
  BY <1>1, <1>8, <1>9, <1>10
<1>14. \A i \in 1 .. n : outBank'[i] = answer.data[(total - m) + i]
  BY <1>1, <1>6, <1>8, <1>11
<1>15. \A i \in 1 .. m - n : rsp'.data[i] = answer.data[(total - (m - n)) + i]
  <2> SUFFICES ASSUME NEW i \in 1 .. m - n
               PROVE  rsp'.data[i] = answer.data[(total - (m - n)) + i]
    OBVIOUS
  <2>1. n + i \in 1 .. m /\ (total - m) + (n + i) = (total - (m - n)) + i
    BY <1>6
  <2>2. rsp'.data[i] = all[n + i]
    BY <1>9, <1>10
  <2>3. QED
    BY <1>11, <2>1, <2>2
<1>16. Len(outBank') + Unwritten' = Rest
  <2>1. CASE n = m
    <3>1. Unwritten' = 0
      BY <1>1, <2>1 DEF Unwritten
    <3>2. QED
      BY <1>6, <1>7, <1>13, <2>1, <3>1
  <2>2. CASE n # m
    <3>1. Unwritten' = m - n
      BY <1>1, <1>13, <2>2 DEF Unwritten
    <3>2. QED
      BY <1>6, <1>7, <1>13, <3>1
  <2>3. QED
    BY <2>1, <2>2
<1>17. DataOut'
  <2>1. host' \in {"respBody", "header"} /\ outReady'
    BY <1>1
  <2>2. state \in {"SEND_LENGTH_LOW", "SEND_LENGTH_HIGH"} => dataLength = <<answer.lo, answer.hi>>
    BY <1>4 DEF DataOut
  <2>3. Rest' <= Len(answer'.data)
    BY <1>4, HostOnlyFacts DEF DataOut
  <2>4. \A i \in 1 .. Len(outBank') : outBank'[i] = answer'.data[Len(answer'.data) - Rest' + i]
    BY <1>7, <1>13, <1>14, HostOnlyFacts DEF total
  <2>5. host' = "respBody" =>
          /\ rsp'.data # <<>>
          /\ \A i \in 1 .. Len(rsp'.data) :
               rsp'.data[i] = answer'.data[Len(answer'.data) - Len(rsp'.data) + i]
    BY <1>1, <1>10, <1>12, <1>13, <1>15 DEF total
  <2>6. QED
    BY <1>16, <2>1, <2>2, <2>3, <2>4, <2>5, HostOnlyFacts DEF HostOnly, DataOut
<1>18. QuietInv' /\ ForwardInv' /\ AnswerInv'
  BY <1>1, <1>2, <1>4, <1>17, HostOnlyFacts DEF HostOnly, QuietInv, ForwardInv, AnswerInv
<1>19. QED
  BY <1>18, HostFrame DEF DataInv

(* Somebody is there to collect whatever the server writes.                 *)
LEMMA Collected ==
  ASSUME FlowInv
  PROVE  ~WriteTimeout(Collecting)
<1>1. AnswerInv
  BY DEF FlowInv, DataInv
<1>2. ASSUME host \in {"respHeader", "respBody"} PROVE Collecting
  <2>1. ~Quiet /\ served
    BY <1>2, HostAlive
  <2>2. state \in SendStates
    BY <1>1, <2>1 DEF AnswerInv
  <2>3. bbc # "idle"
    BY <2>1, LateInCall DEF InCall
  <2>4. QED
    BY <2>2, <2>3 DEF Collecting
<1>3. QED
  BY <1>2 DEF WriteTimeout

-----------------------------------------------------------------------------
LEMMA FlowInit ==
  ASSUME ServerFirst
  PROVE  Init => DataInv
<1> SUFFICES ASSUME Init PROVE DataInv
  OBVIOUS
<1>1. bbc = "idle" /\ avr = "poll" /\ state = "GET_CHANNEL" /\ served = FALSE
  BY DEF Init, BbcInit, AvrInit
<1>2. Quiet /\ ~HeaderDue /\ ~InCall
  BY <1>1 DEF Quiet, HeaderDue, InCall
<1>3. HeaderInv /\ ForwardInv /\ AnswerInv
  BY <1>1, <1>2 DEF HeaderInv, ForwardInv, AnswerInv
<1>4. QuietInv
  BY DEF Init, HostInit, UsbInit, QuietInv
<1>5. ReturnInv
  BY <1>1, <1>2 DEF ReturnInv
<1>6. QED
  BY <1>3, <1>4, <1>5 DEF DataInv

LEMMA FlowBbc == FlowInv /\ BbcStep => DataInv'
<1> SUFFICES ASSUME FlowInv, BbcStep PROVE DataInv'
  OBVIOUS
<1>1. UNCHANGED <<avrVars, usbVars, hostVars>> /\ (BbcCall \/ BbcSend)
  BY DEF BbcStep
<1>2. UNCHANGED answer
  BY <1>1 DEF BbcCall, BbcSend, ghosts
<1>3. BbcOnly
  BY <1>1, <1>2 DEF BbcOnly
<1>4. CASE BbcCall
  BY <1>3, <1>4, DataStart DEF BbcCall
<1>5. CASE BbcSend
  <2>1. UNCHANGED served
    BY <1>5 DEF BbcSend, ghosts
  <2>2. QED
    BY <1>3, <1>5, <2>1, DataEndPulse, DataStrobe, DataSendAcked, DataLengthAcked, DataLengthHighAcked,
       DataDataAcked, DataDropAcked DEF BbcSend
<1>6. QED
  BY <1>1, <1>4, <1>5

LEMMA FlowBreak == FlowInv /\ BreakAt \subseteq Recoverable /\ BreakStep => DataInv'
<1> SUFFICES ASSUME FlowInv, BreakAt \subseteq Recoverable, BreakStep PROVE DataInv'
  OBVIOUS
<1>1. BbcOnly /\ Break /\ state \in Recoverable /\ UNCHANGED served
  BY DEF BreakStep, BbcOnly
<1>2. QED
  BY <1>1, DataBreak

LEMMA FlowBridge == FlowInv /\ BridgeStep => DataInv'
<1> SUFFICES ASSUME FlowInv, BridgeStep PROVE DataInv'
  OBVIOUS
<1>1. AvrStep /\ AvrOnly
  BY DEF BridgeStep, AvrOnly, bbcVars, hostVars, ghosts
<1>2. QED
  BY <1>1, DataAckCheck, DataHeaderByte, DataLengthByte, DataPutHeader, DataHeaderTaken, DataGetData,
     DataPutData, DataTurn, DataSkip, DataRetcode, DataLengthLow, DataLengthHigh, DataSendLow,
     DataSendHigh, DataTakeData, DataFinish DEF AvrStep

(* Only the execution of a request ends in respHeader.                      *)
LEMMA ServerSplit ==
  ASSUME FlowInv, NoTraps, ServerStep
  PROVE  /\ HostOnly
         /\ \/ \E junk \in Byte : Execute(junk) /\ served' = TRUE /\ answer' = rsp'
            \/ (ReadHeader \/ ReadBody \/ WriteHeader \/ WriteBody) /\ UNCHANGED <<served, answer>>
<1>1. HostOnly
  BY DEF ServerStep, HostOnly, portVars, bbcVars, avrVars
<1>2. ~HeaderOverflow /\ ~BodyOverflow /\ ~DivideByZero
  BY NoOverflow, NeverTraps
<1>3. HostStep
  BY DEF ServerStep
<1>4. CASE ReadHeader \/ ReadBody \/ WriteHeader \/ WriteBody
  <2>1. host' # "respHeader"
    BY <1>4 DEF ReadHeader, ReadBody, WriteHeader, WriteBody
  <2>2. UNCHANGED ghosts
    BY <2>1 DEF ServerStep
  <2>3. QED
    BY <1>1, <1>4, <2>2 DEF ghosts
<1>5. ASSUME NEW junk \in Byte, Execute(junk)
      PROVE  served' = TRUE /\ answer' = rsp'
  <2>1. host' = "respHeader"
    BY <1>5 DEF Execute
  <2>2. QED
    BY <2>1 DEF ServerStep
<1>6. QED
  BY <1>1, <1>2, <1>3, <1>4, <1>5 DEF HostStep

LEMMA FlowServer == FlowInv /\ NoTraps /\ NothingStale /\ ServerStep => DataInv'
BY ServerSplit, DataExecute, DataReadHeader, DataReadBody, DataWriteHeader, DataWriteBody

LEMMA FlowStuck == FlowInv => ~ServerStart /\ ~ServerTimeout
BY HostAlive, Collected DEF ServerStart, ServerTimeout, Open, OpenFails

LEMMA FlowInvInductive ==
  ASSUME Prompt, BreakAt \subseteq Recoverable, ServerFirst, NoTraps, NothingStale
  PROVE  /\ Init => FlowInv
         /\ FlowInv /\ [Next]_vars => FlowInv'
<1>1. Init => FlowInv
  BY LockInvInductive, FlowInit DEF FlowInv
<1>2. ASSUME FlowInv, [Next]_vars
      PROVE  DataInv'
  <2>1. CASE UNCHANGED vars
    <3>1. HostOnly /\ UNCHANGED <<inBank, inFull, outBank, outReady, host, hreq, hbody, rsp, served, answer>>
      BY <2>1 DEF vars, portVars, bbcVars, avrVars, usbVars, hostVars, ghosts, HostOnly
    <3>2. HeaderInv' /\ ReturnInv'
      BY <1>2, <3>1, HostFrame
    <3>3. QuietInv /\ ForwardInv /\ AnswerInv
      BY <1>2 DEF FlowInv, DataInv
    <3>4. QuietInv' /\ ForwardInv' /\ AnswerInv'
      BY <3>1, <3>3, HostOnlyFacts
         DEF HostOnly, QuietInv, ForwardInv, AnswerInv, HeaderWaits, BodyComing, RequestComplete,
             HeaderOut, DataOut, Unwritten
    <3>5. QED
      BY <3>2, <3>4 DEF DataInv
  <2>2. QED
    BY <1>2, <2>1, FlowBbc, FlowBreak, FlowBridge, FlowServer, FlowStuck DEF Next
<1>3. FlowInv /\ [Next]_vars => LockInv'
  BY LockInvInductive DEF FlowInv
<1>4. QED
  BY <1>1, <1>2, <1>3 DEF FlowInv

(* When the AVR hears every pulse, Break comes only in a state a pulse      *)
(* recovers from, the server runs first and no request makes it trap, the   *)
(* invariant of the lock-step and of the bytes under way holds for ever.    *)
THEOREM FlowInvariant ==
  ASSUME Prompt, BreakAt \subseteq Recoverable, ServerFirst, NoTraps, NothingStale
  PROVE  Spec => []FlowInv
<1>1. Init => FlowInv
  BY FlowInvInductive
<1>2. FlowInv /\ [Next]_vars => FlowInv'
  BY FlowInvInductive
<1>3. QED
  BY <1>1, <1>2, PTL DEF Spec

(* On these terms the server executes the request of the call the BBC is    *)
(* waiting in: its header and its data, whole, whatever their length is,    *)
(* over any number of packets (readHeader and readRequest against GET_DATA).*)
THEOREM RequestsArrive ==
  ASSUME Prompt, BreakAt \subseteq Recoverable, ServerFirst, NoTraps, NothingStale
  PROVE  Spec => []RequestIntact
<1>1. FlowInv => RequestIntact
  BY ExecuteFacts DEF RequestIntact, RequestComplete, InCall
<1>2. QED
  BY <1>1, FlowInvariant, PTL

(* ...and the link never ends the server: no packet is longer than the read *)
(* it answers, and what is written is collected.                            *)
THEOREM ServerLives ==
  ASSUME Prompt, BreakAt \subseteq Recoverable, ServerFirst, NoTraps, NothingStale
  PROVE  Spec => []ServerSurvives
<1>1. FlowInv => ServerSurvives
  BY HostAlive DEF ServerSurvives
<1>2. QED
  BY <1>1, FlowInvariant, PTL

(* What send_msg has collected when it drops the lines is the response of   *)
(* the server to the request the caller made, byte for byte.                *)
LEMMA GotAnswer ==
  ASSUME FlowInv, bbc = "drop"
  PROVE  served /\ got = answer
<1>1. ReturnInv
  BY DEF FlowInv, DataInv
<1>2. /\ served
      /\ got.status = answer.status /\ got.lo = answer.lo /\ got.hi = answer.hi
      /\ Len(got.data) = Len(answer.data)
      /\ \A i \in 1 .. Len(got.data) : got.data[i] = answer.data[i]
  BY <1>1 DEF ReturnInv
<1>3. got \in Reply /\ answer \in Reply
  BY FlowFacts
<1>4. got.data \in Seq(Byte) /\ answer.data \in Seq(Byte)
  BY <1>3 DEF Reply
<1>5. got.data = answer.data
  BY <1>2, <1>4
<1>6. QED
  BY <1>2, <1>3, <1>5, ReplyEqual

(* So a call returns the response to its own request. Break in a state that *)
(* a pulse does not recover from is what breaks this (run break_answer).    *)
THEOREM AnswersTheCaller ==
  ASSUME Prompt, BreakAt \subseteq Recoverable, ServerFirst, NoTraps, NothingStale
  PROVE  Spec => []ResponseIsToThisRequest
<1>1. FlowInv => ResponseIsToThisRequest
  <2> SUFFICES ASSUME FlowInv, bbc = "drop" PROVE got = ExecuteRequest(req.block, req.body, 0)
    BY DEF ResponseIsToThisRequest
  <2>1. ReturnInv /\ InCall
    BY DEF FlowInv, DataInv, InCall
  <2>2. QED
    BY <2>1, GotAnswer DEF ReturnInv
<1>2. QED
  BY <1>1, FlowInvariant, PTL

-----------------------------------------------------------------------------
(* The link implements Rpc: which of its steps each step is.                *)

LEMMA RpcInit == Init => Calls!Init
<1> SUFFICES ASSUME Init PROVE Calls!Init
  OBVIOUS
<1>1. bbc = "idle" /\ got = NoReply /\ req \in Requests /\ answer = NoReply
  BY DEF Init, BbcInit
<1>2. QED
  BY <1>1 DEF Calls!Init

(* Steps within a call, and steps of the AVR and the host, are invisible.   *)
LEMMA RpcStutter ==
  ASSUME UNCHANGED <<req, served, answer>>,
         (bbc = "idle" /\ bbc' = "idle" /\ got' = got) \/ (bbc # "idle" /\ bbc' # "idle")
  PROVE  UNCHANGED Calls!vars
BY DEF Calls!vars

LEMMA RpcCall ==
  ASSUME BbcStep, BbcCall
  PROVE  Calls!Next
<1>1. PICK r \in Requests : Start(r)
  BY DEF BbcCall
<1>2. bbc = "idle" /\ bbc' = "pulse" /\ req' = r /\ served' = FALSE /\ answer' = answer
  BY <1>1 DEF Start, BbcCall
<1>3. Calls!Call(r)
  BY <1>2 DEF Calls!Call
<1>4. QED
  BY <1>3 DEF Calls!Next

LEMMA RpcSend ==
  ASSUME FlowInv, BbcStep, BbcSend
  PROVE  Calls!Next \/ UNCHANGED Calls!vars
<1>1. UNCHANGED <<served, answer>>
  BY DEF BbcSend, ghosts
<1>2. CASE DropAcked
  <2>1. bbc = "drop" /\ bbc' = "idle" /\ UNCHANGED <<req, got>>
    BY <1>2 DEF DropAcked, Acked
  <2>2. served /\ got = answer
    BY <2>1, GotAnswer
  <2>3. Calls!Return
    BY <1>1, <2>1, <2>2 DEF Calls!Return
  <2>4. QED
    BY <2>3 DEF Calls!Next
<1>3. CASE ~DropAcked
  <2>1. bbc # "idle" /\ bbc' # "idle" /\ UNCHANGED req
    BY <1>3, FlowFacts DEF BbcSend, EndPulse, Strobe, BlockAcked, BodyAcked, TurnAcked, StatusAcked,
       LenLowAcked, LenHighAcked, DataAcked, Acked, SendNext, RecvNext
  <2>2. QED
    BY <1>1, <2>1, RpcStutter
<1>4. QED
  BY <1>2, <1>3

LEMMA RpcBreak ==
  ASSUME BreakStep
  PROVE  Calls!Next
<1>1. bbc # "idle" /\ bbc' = "idle" /\ got' = NoReply /\ UNCHANGED <<req, answer>>
  BY DEF BreakStep, Break
<1>2. Calls!Abandon
  BY <1>1 DEF Calls!Abandon
<1>3. QED
  BY <1>2 DEF Calls!Next

LEMMA RpcServer ==
  ASSUME FlowInv, NoTraps, NothingStale, ServerStep
  PROVE  Calls!Next \/ UNCHANGED Calls!vars
<1>1. UNCHANGED <<bbc, got, req>>
  BY ServerSplit DEF HostOnly
<1>2. CASE \E junk \in Byte : Execute(junk) /\ served' = TRUE /\ answer' = rsp'
  <2>1. PICK junk \in Byte : Execute(junk) /\ served' = TRUE /\ answer' = rsp'
    BY <1>2
  <2>2. RequestComplete /\ ~served /\ bbc # "idle"
    BY <2>1, ExecuteFacts DEF Execute, InCall
  <2>3. answer' = ExecuteRequest(req.block, req.body, junk)
    BY <2>1, <2>2 DEF Execute, RequestComplete
  <2>4. answer' = Answer(req.block, req.body)
    BY <2>3, FlowFacts DEF NothingStale, Answer
  <2>5. Calls!Reply
    BY <1>1, <2>1, <2>2, <2>4 DEF Calls!Reply
  <2>6. QED
    BY <2>5 DEF Calls!Next
<1>3. CASE UNCHANGED <<served, answer>>
  BY <1>1, <1>3, RpcStutter
<1>4. QED
  BY <1>2, <1>3, ServerSplit

LEMMA RpcNext ==
  ASSUME FlowInv, NoTraps, NothingStale, [Next]_vars
  PROVE  [Calls!Next]_(Calls!vars)
<1>1. CASE BbcStep
  BY <1>1, RpcCall, RpcSend DEF BbcStep
<1>2. CASE BreakStep
  BY <1>2, RpcBreak
<1>3. CASE BridgeStep
  <2>1. UNCHANGED <<bbc, got, req, served, answer>>
    BY <1>3 DEF BridgeStep, bbcVars, ghosts
  <2>2. QED
    BY <2>1, RpcStutter
<1>4. CASE ServerStep
  BY <1>4, RpcServer
<1>5. CASE UNCHANGED vars
  <2>1. UNCHANGED <<bbc, got, req, served, answer>>
    BY <1>5 DEF vars, bbcVars, ghosts
  <2>2. QED
    BY <2>1, RpcStutter
<1>6. QED
  BY <1>1, <1>2, <1>3, <1>4, <1>5, FlowStuck DEF Next

(* The user port, the bridge, the two endpoints and the server together are *)
(* a remote call: each is answered once, by the response to its request,    *)
(* which comes back unchanged, and nothing of an abandoned call reaches a   *)
(* later one; for every length of request and response, every page and      *)
(* packet size, and any number of calls and Breaks.                         *)
THEOREM LinkIsRpc ==
  ASSUME Prompt, BreakAt \subseteq Recoverable, ServerFirst, NoTraps, NothingStale
  PROVE  Spec => ImplementsRpc
<1>1. Init => Calls!Init
  BY RpcInit
<1>2. FlowInv /\ [Next]_vars => [Calls!Next]_(Calls!vars)
  BY RpcNext
<1>3. QED
  BY <1>1, <1>2, FlowInvariant, PTL DEF Spec, ImplementsRpc, Calls!Spec
=============================================================================
