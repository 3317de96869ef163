-------------------------- MODULE UdfsLink_proofs ---------------------------
(***************************************************************************)
(* Theorems about UdfsLink, for every size of a byte and of a packet, and  *)
(* every set of requests.                                                  *)
(***************************************************************************)
EXTENDS UdfsLinkInv, TLAPS

(* The bytes of a number are bytes. *)
LEMMA ByteArithmetic ==
  ASSUME NEW n \in Int
  PROVE  /\ Uint8(n) \in Byte
         /\ n >= 0 => LowOf(n) \in Byte /\ HighOf(n) \in Byte
BY BaseAssumption DEF Uint8, LowOf, HighOf, Byte

LEMMA WordIsNat ==
  ASSUME NEW lo \in Byte, NEW hi \in Byte
  PROVE  Word(lo, hi) \in Nat
BY BaseAssumption DEF Word, Byte

LEMMA DecrementType ==
  ASSUME NEW w \in Byte \X Byte
  PROVE  Decrement(w) \in Byte \X Byte
BY BaseAssumption DEF Decrement, Byte

LEMMA FunctionIsSeq ==
  ASSUME NEW S, NEW n \in Nat, NEW f \in [1 .. n -> S]
  PROVE  f \in Seq(S)
OBVIOUS

(* A bank filled by Put stays a sequence of bytes within the packet size.  *)
LEMMA PutType ==
  ASSUME NEW bank \in Seq(Byte), NEW bytes \in Seq(Byte), Len(bank) <= EpSize
  PROVE  Put(bank, bytes) \in Seq(Byte) /\ Len(Put(bank, bytes)) <= EpSize
BY EpSizeAssumption DEF Put

LEMMA RespondType ==
  ASSUME NEW status \in Byte, NEW bytes \in Seq(Byte)
  PROVE  Respond(status, bytes) \in Reply
<1>1. LowOf(Len(bytes)) \in Byte /\ HighOf(Len(bytes)) \in Byte
  BY ByteArithmetic
<1>2. Word(LowOf(Len(bytes)), HighOf(Len(bytes))) \in Nat
  BY <1>1, WordIsNat
<1>3. Word(LowOf(Len(bytes)), HighOf(Len(bytes))) <= Len(bytes)
  BY BaseAssumption DEF Word, LowOf, HighOf
<1>4. QED
  BY <1>1, <1>2, <1>3 DEF Respond, Reply

(* A response is a status, a length in two bytes, and bytes.               *)
LEMMA CalcType ==
  ASSUME NEW p1 \in Byte, NEW p2 \in Byte, p2 # 0
  PROVE  Calc(p1, p2) \in Seq(Byte)
<1>1. p1 + p2 \in Int /\ p1 - p2 \in Int /\ p1 * p2 \in Int
  BY BaseAssumption DEF Byte
<1>2. p1 \div p2 \in Int
  BY BaseAssumption DEF Byte
<1>3. Uint8(p1 + p2) \in Byte /\ Uint8(p1 - p2) \in Byte
  BY <1>1, ByteArithmetic
<1>4. Uint8(p1 * p2) \in Byte /\ Uint8(p1 \div p2) \in Byte
  BY <1>1, <1>2, ByteArithmetic
<1>5. QED
  BY <1>3, <1>4 DEF Calc

LEMMA ReadImageType ==
  ASSUME NEW block \in Nat, NEW length \in Nat, NEW junk \in Byte
  PROVE  ReadImage(block, length, junk) \in Seq(Byte)
<1>1. ASSUME NEW i \in 1 .. length
      PROVE  block * Base + i \in Nat \ {0}
  BY BaseAssumption
<1>2. \A at \in Nat \ {0} : (IF at <= Len(diskImage) THEN diskImage[at] ELSE junk) \in Byte
  BY DiskImageAssumption
<1>3. ReadImage(block, length, junk) \in [1 .. length -> Byte]
  BY <1>1, <1>2 DEF ReadImage
<1>4. QED
  BY <1>3

LEMMA ExecuteRequestType ==
  ASSUME NEW block \in Block, NEW body \in Seq(Byte), NEW junk \in Byte, ~Traps(block)
  PROVE  ExecuteRequest(block, body, junk) \in Reply
<1> DEFINE buffer(i) == IF i <= Len(body) THEN body[i] ELSE junk
<1>1. \A i \in 1 .. 4 : buffer(i) \in Byte
  OBVIOUS
<1>2. <<>> \in Seq(Byte) /\ {RC_SUCCESS, RC_UNRECOGNISED_COMMAND, RC_UNRECOGNISED_CHANNEL} \subseteq Byte
  BY BaseAssumption DEF Byte, RC_SUCCESS, RC_UNRECOGNISED_COMMAND, RC_UNRECOGNISED_CHANNEL
<1>3. CASE block[1] # DEFAULT
  BY <1>2, <1>3, RespondType DEF ExecuteRequest
<1>4. CASE block[1] = DEFAULT /\ block[2] = CALC
  <2>1. block[3] \in Byte /\ block[4] \in Byte /\ block[4] # 0
    BY <1>4 DEF Block, Traps
  <2>2. Calc(block[3], block[4]) \in Seq(Byte)
    BY <2>1, CalcType
  <2>3. ExecuteRequest(block, body, junk) = Respond(RC_SUCCESS, Calc(block[3], block[4]))
    BY <1>4 DEF ExecuteRequest, CALC, READ_BLOCK, RW_FILE
  <2>4. QED
    BY <1>2, <2>2, <2>3, RespondType
<1>5. CASE block[1] = DEFAULT /\ block[2] = READ_BLOCK
  <2>1. buffer(2) % 4 \in Byte
    BY <1>1, BaseAssumption DEF Byte
  <2>2. Word(buffer(1), buffer(2) % 4) \in Nat /\ Word(buffer(3), buffer(4)) \in Nat
    <3> HIDE DEF buffer
    <3>1. \A lo, hi \in Byte : Word(lo, hi) \in Nat
      BY WordIsNat
    <3>2. buffer(1) \in Byte /\ buffer(3) \in Byte /\ buffer(4) \in Byte
      BY <1>1
    <3>3. QED
      BY <2>1, <3>1, <3>2
  <2>3. ReadImage(Word(buffer(1), buffer(2) % 4), Word(buffer(3), buffer(4)), junk) \in Seq(Byte)
    BY <2>2, ReadImageType
  <2>4. ExecuteRequest(block, body, junk) =
          Respond(RC_SUCCESS, ReadImage(Word(buffer(1), buffer(2) % 4), Word(buffer(3), buffer(4)), junk))
    BY <1>5 DEF ExecuteRequest, CALC, READ_BLOCK, RW_FILE
  <2>5. QED
    BY <1>2, <2>3, <2>4, RespondType
<1>6. CASE block[1] = DEFAULT /\ block[2] = RW_FILE
  <2>1. ExecuteRequest(block, body, junk) = Respond(RC_SUCCESS, toBbc)
    BY <1>6 DEF ExecuteRequest, CALC, READ_BLOCK, RW_FILE
  <2>2. QED
    BY <1>2, <2>1, ToBbcAssumption, RespondType
<1>7. CASE block[1] = DEFAULT /\ block[2] \notin {CALC, READ_BLOCK, RW_FILE}
  BY <1>2, <1>7, RespondType DEF ExecuteRequest
<1>8. QED
  BY <1>3, <1>4, <1>5, <1>6, <1>7

-----------------------------------------------------------------------------
(* Type correctness, step by step. *)
LEMMA InitType == Init => TypeOK
<1>1. 0 \in Byte
  BY BaseAssumption DEF Byte
<1>2. NoReply \in Reply /\ [i \in 1 .. 6 |-> 0] \in Block
  BY <1>1 DEF NoReply, Reply, Block
<1>3. <<>> \in Seq(Byte) /\ Len(<<>>) <= EpSize
  BY EpSizeAssumption
<1>4. Init => PortTypeOK
  BY <1>1 DEF Init, PortInit, PortTypeOK
<1>5. Init => BbcTypeOK
  <2> SUFFICES ASSUME Init PROVE BbcTypeOK
    OBVIOUS
  <2>1. got \in Reply
    BY <1>2 DEF Init, BbcInit
  <2>2. QED
    BY <2>1 DEF Init, BbcInit, BbcTypeOK, Phases
<1>6. Init => AvrTypeOK
  BY <1>1 DEF Init, AvrInit, AvrTypeOK, AvrPoints, Resumes, States
<1>7. Init => host \in HostPoints /\ hreq \in Block /\ hbody \in Seq(Byte)
  BY <1>2, <1>3, ServerFirstAssumption DEF Init, HostInit, HostPoints
<1>8. Init => inBank \in Seq(Byte) /\ Len(inBank) <= EpSize /\ outBank \in Seq(Byte) /\ Len(outBank) <= EpSize
  BY <1>3 DEF Init, UsbInit
<1>9. Init => rsp \in Reply /\ fromBbc \in Seq(Byte) /\ answer \in Reply
  BY <1>2, <1>3 DEF Init, HostInit
<1>10. Init => inFull \in BOOLEAN /\ outReady \in BOOLEAN /\ served \in BOOLEAN /\ breaks \in Nat
  <2>1. Init => inFull \in BOOLEAN /\ outReady \in BOOLEAN /\ served \in BOOLEAN
    BY Zenon DEF Init, UsbInit
  <2>2. Init => breaks \in Nat
    BY DEF Init
  <2>3. QED
    BY <2>1, <2>2
<1>11. QED
  BY <1>4, <1>5, <1>6, <1>7, <1>8, <1>9, <1>10 DEF TypeOK

(* The lines read as bytes, and the BBC puts bytes on them. *)
LEMMA LinesType == PortTypeOK => Lines \subseteq Byte
BY NoiseAssumption DEF PortTypeOK, Lines

LEMMA ReplyFields ==
  ASSUME NEW r \in Reply, NEW b \in Byte
  PROVE  /\ [r EXCEPT !.status = b] \in Reply
         /\ [r EXCEPT !.lo = b] \in Reply
         /\ [r EXCEPT !.hi = b] \in Reply
         /\ [r EXCEPT !.data = Append(@, b)] \in Reply
         /\ r.status \in Byte /\ r.lo \in Byte /\ r.hi \in Byte /\ r.data \in Seq(Byte)
BY DEF Reply

LEMMA BridgeType == TypeOK /\ BridgeStep => TypeOK'
<1> SUFFICES ASSUME TypeOK, BridgeStep PROVE TypeOK'
  OBVIOUS
<1> USE DEF TypeOK, PortTypeOK, AvrTypeOK
<1>1. UNCHANGED <<bbcVars, hostVars, ghosts>> /\ AvrStep
  BY DEF BridgeStep
<1>2. BbcTypeOK' /\ UNCHANGED <<host, hreq, hbody, rsp, fromBbc, served, answer, breaks>>
  BY <1>1 DEF bbcVars, hostVars, ghosts, BbcTypeOK
<1>3. Lines \subseteq Byte
  BY LinesType
<1>4. hdr \in Seq(Byte) /\ dataLength \in Seq(Byte) /\ <<ch>> \in Seq(Byte)
  <2>1. hdr \in Seq(Byte)
    <3>1. hdr \in [1 .. 4 -> Byte] /\ 4 \in Nat
      OBVIOUS
    <3>2. QED
      BY <3>1, FunctionIsSeq
  <2>2. dataLength = <<dataLength[1], dataLength[2]>> /\ dataLength[1] \in Byte /\ dataLength[2] \in Byte
    OBVIOUS
  <2>3. <<dataLength[1], dataLength[2]>> \in Seq(Byte)
    BY <2>2
  <2>4. dataLength \in Seq(Byte)
    BY <2>2, <2>3, Zenon
  <2>5. <<ch>> \in Seq(Byte)
    OBVIOUS
  <2>6. QED
    BY <2>1, <2>4, <2>5
<1>5. hdr \o dataLength \in Seq(Byte)
  BY <1>4
<1>6. CASE AckCheck
  <2>1. CASE cb2 # "high"
    BY <1>2, <1>6, <2>1 DEF AckCheck, usbVars, AvrPoints, Resumes, States
  <2>2. CASE cb2 = "high"
    BY <1>2, <1>6, <2>2 DEF AckCheck, usbVars, AvrPoints, Resumes, States
  <2>3. QED
    BY <2>1, <2>2
<1>7. CASE SpinEnds
  BY <1>2, <1>7 DEF SpinEnds, usbVars, portVars, AvrPoints, Resumes
<1>8. ASSUME NEW k \in 1 .. 4, NEW b \in Byte, GetHeaderByte(k, b)
      PROVE  TypeOK'
  BY <1>2, <1>8 DEF GetHeaderByte, HeaderStates, Poll, AckTo, AckEdge, usbVars, AvrPoints, Resumes, States
<1>9. ASSUME NEW b \in Byte, GetLengthLow(b)
      PROVE  TypeOK'
  BY <1>2, <1>9 DEF GetLengthLow, Poll, AckTo, AckEdge, usbVars, AvrPoints, Resumes, States
<1>10. ASSUME NEW b \in Byte, GetLengthHigh(b)
       PROVE  TypeOK'
  BY <1>2, <1>10 DEF GetLengthHigh, Poll, AckTo, AckEdge, usbVars, AvrPoints, Resumes, States
<1>11. ASSUME NEW b \in Byte, GetData(b)
       PROVE  TypeOK'
  <2>1. Decrement(dataLength) \in Byte \X Byte
    BY DecrementType
  <2>2. QED
    BY <1>2, <1>11, <2>1 DEF GetData, Poll, portVars, AvrPoints
<1>12. CASE PutHeader
  <2>1. inBank' \in Seq(Byte) /\ Len(inBank') <= EpSize
    BY <1>5, <1>12, PutType DEF PutHeader
  <2>2. QED
    BY <1>2, <1>12, <2>1 DEF PutHeader, portVars, AvrPoints, Resumes
<1>13. CASE HeaderTaken
  BY <1>2, <1>13 DEF HeaderTaken, portVars, usbVars, AvrPoints, Resumes
<1>14. CASE PutData
  <2>1. inBank' \in Seq(Byte) /\ Len(inBank') <= EpSize
    BY <1>4, <1>14, PutType DEF PutData
  <2>2. QED
    BY <1>2, <1>14, <2>1 DEF PutData, AckTo, AckEdge, AvrPoints, Resumes, States
<1>15. CASE SendPrep
  BY <1>2, <1>15 DEF SendPrep, Poll, AckTo, AckEdge, usbVars, AvrPoints, Resumes, States
<1>16. CASE Drive
  BY <1>2, <1>16 DEF Drive, usbVars, AvrPoints, Resumes
<1>17. CASE SendRetcode
  BY <1>2, <1>17 DEF SendRetcode, Poll, portVars, usbVars, AvrPoints
<1>18. CASE SkipEmptyPacket
  BY <1>2, <1>18 DEF SkipEmptyPacket, AckPacket, avrVars, portVars
<1>19. TakeOut => /\ Head(outBank) \in Byte
                  /\ outBank' \in Seq(Byte) /\ Len(outBank') <= EpSize
                  /\ UNCHANGED <<inBank, inFull, outReady>>
  BY EpSizeAssumption DEF TakeOut, OutByteThere
<1>20. CASE TakeRetcode
  BY <1>2, <1>19, <1>20 DEF TakeRetcode, AckTo, AckEdge, AvrPoints, Resumes, States
<1>21. CASE RecvLengthLow
  BY <1>2, <1>19, <1>21 DEF RecvLengthLow, portVars, AvrPoints
<1>22. CASE RecvLengthHigh
  BY <1>2, <1>19, <1>22 DEF RecvLengthHigh, portVars, AvrPoints, Resumes
<1>23. CASE SendLengthLow
  BY <1>2, <1>23 DEF SendLengthLow, Poll, AckTo, AckEdge, usbVars, AvrPoints, Resumes, States
<1>24. CASE SendLengthHigh
  BY <1>2, <1>24 DEF SendLengthHigh, Poll, AckTo, AckEdge, usbVars, AvrPoints, Resumes, States
<1>25. CASE SendData
  BY <1>2, <1>25 DEF SendData, Poll, portVars, usbVars, AvrPoints
<1>26. CASE TakeData
  <2>1. Decrement(dataLength) \in Byte \X Byte
    BY DecrementType
  <2>2. QED
    BY <1>2, <1>19, <1>26, <2>1 DEF TakeData, AckTo, AckEdge, AvrPoints, Resumes, States
<1>27. CASE Finish
  <2>1. outBank' = <<>> /\ outReady' = FALSE /\ UNCHANGED <<inBank, inFull>>
    BY <1>27 DEF Finish, AckPacket
  <2>2. outBank' \in Seq(Byte) /\ Len(outBank') <= EpSize
    BY <2>1, EpSizeAssumption
  <2>3. QED
    BY <1>2, <1>27, <2>1, <2>2 DEF Finish, Poll, AckTo, AckEdge, AvrPoints, Resumes, States
<1>28. QED
  BY <1>1, <1>6, <1>7, <1>8, <1>9, <1>10, <1>11, <1>12, <1>13, <1>14, <1>15, <1>16, <1>17,
     <1>18, <1>20, <1>21, <1>22, <1>23, <1>24, <1>25, <1>26, <1>27 DEF AvrStep
(* Before each byte of a transfer of total pages and low bytes, the offset *)
(* of that byte is inside the transfer.                                    *)
LEMMA OffsetInside ==
  ASSUME NEW total \in Byte, NEW low \in Byte, NEW left \in Byte, NEW pos \in Byte,
         left <= total, left = 0 => pos < low
  PROVE  (total - left) * Base + pos + 1 \in 1 .. Word(low, total)
<1>1. Base \in Nat /\ total \in Nat /\ low \in Nat /\ left \in Nat /\ pos \in Nat /\ pos + 1 <= Base
  BY BaseAssumption DEF Byte
<1>2. (total - left) * Base = Base * total - Base * left
  BY <1>1
<1>3. (total - left) * Base >= 0
  BY <1>1
<1>4. CASE left = 0
  BY <1>1, <1>4 DEF Word
<1>5. CASE left > 0
  <2>1. Base * left >= Base
    BY <1>1, <1>5
  <2>2. QED
    BY <1>1, <1>2, <1>3, <2>1 DEF Word
<1>6. QED
  BY <1>1, <1>4, <1>5

LEMMA NatModulo == ASSUME NEW n \in Nat PROVE (n + 1) % Base \in Nat
BY BaseAssumption

(* The byte send_msg fetches is inside the block or the request data.      *)
LEMMA OutByteType == TypeInv /\ InCall => OutByte \in Byte
<1> SUFFICES ASSUME TypeInv, InCall PROVE OutByte \in Byte
  OBVIOUS
<1>1. req \in Requests /\ portb \in Byte
  BY DEF TypeInv, TypeOK, BbcTypeOK, PortTypeOK
<1>2. req.block \in Block /\ req.body \in Seq(Byte) /\ Len(req.body) = Word(req.block[5], req.block[6])
  BY <1>1, RequestsAssumption
<1>3. CASE bbc = "block"
  <2>1. y + 1 \in 1 .. 6
    BY <1>3 DEF TypeInv, LoopInv
  <2>2. QED
    BY <1>2, <1>3, <2>1 DEF OutByte, Block
<1>4. CASE bbc = "body"
  <2>1. /\ y \in Byte
        /\ pages \in Byte
        /\ pages <= req.block[6]
        /\ pages = 0 => y < req.block[5]
    BY <1>4 DEF TypeInv, LoopInv, InLoop
  <2>2. req.block[5] \in Byte /\ req.block[6] \in Byte
    BY <1>2 DEF Block
  <2>3. Offset(req.block[6]) + 1 \in 1 .. Word(req.block[5], req.block[6])
    BY <2>1, <2>2, OffsetInside DEF Offset
  <2>4. QED
    BY <1>2, <1>4, <2>3 DEF OutByte
<1>5. CASE bbc \notin {"block", "body"}
  BY <1>1, <1>5 DEF OutByte
<1>6. QED
  BY <1>3, <1>4, <1>5

(* What every acknowledgement leaves alone or keeps in its type. *)
LEMMA BbcStepType == TypeInv /\ BbcStep => TypeOK'
<1> SUFFICES ASSUME TypeOK, LoopInv, BbcStep PROVE TypeOK'
  BY DEF TypeInv
<1> USE DEF TypeOK, PortTypeOK, BbcTypeOK
<1>1. UNCHANGED <<avrVars, usbVars, hostVars>> /\ (BbcCall \/ BbcSend)
  BY DEF BbcStep
<1>2. AvrTypeOK' /\ UNCHANGED <<inBank, inFull, outBank, outReady, host, hreq, hbody, rsp, fromBbc>>
  BY <1>1 DEF avrVars, usbVars, hostVars, AvrTypeOK
<1>3. Lines \subseteq Byte
  BY LinesType
<1>4. req.block \in Block /\ req.body \in Seq(Byte)
  BY RequestsAssumption
<1>5. NextY \in Nat /\ NextPages \in Nat
  BY NatModulo DEF NextY, NextPages
<1>6. ASSUME NEW r \in Requests, Start(r), served' = FALSE, UNCHANGED <<answer, breaks>>
      PROVE  TypeOK'
  <2>1. r.block[6] \in Nat
    <3>1. r.block \in [1 .. 6 -> Byte]
      BY RequestsAssumption DEF Block
    <3>2. QED
      BY <3>1 DEF Byte
  <2>2. NoReply \in Reply
    BY BaseAssumption DEF NoReply, Reply, Byte
  <2>3. QED
    BY <1>2, <1>6, <2>1, <2>2 DEF Start, Phases
<1>7. ASSUME NEW pos \in Nat, NEW left \in Nat, SendNext(pos, left)
      PROVE  y' \in Nat /\ pages' \in Nat /\ bbc' \in Phases /\ ddrb' \in BOOLEAN
  BY <1>7 DEF SendNext, Phases
<1>8. ASSUME NEW pos \in Nat, NEW left \in Nat, NEW lo, RecvNext(pos, left, lo)
      PROVE  y' \in Nat /\ pages' \in Nat /\ bbc' \in Phases
  BY <1>8 DEF RecvNext, Phases
<1>9. ASSUME UNCHANGED ghosts, EndPulse
      PROVE  TypeOK'
  BY <1>2, <1>9 DEF EndPulse, ghosts, Phases
<1>10. ASSUME UNCHANGED ghosts, Strobe
       PROVE  TypeOK'
  <2>1. OutByte \in Byte
    BY <1>10, OutByteType DEF Strobe, TypeInv, InCall
  <2>2. QED
    BY <1>2, <1>10, <2>1 DEF Strobe, ghosts
<1>11. ASSUME UNCHANGED ghosts, BlockAcked
       PROVE  TypeOK'
  <2>1. CASE y < 5
    <3>1. y' = y + 1 /\ UNCHANGED <<bbc, pages, ddrb>>
      BY <1>11, <2>1 DEF BlockAcked
    <3>2. y' \in Nat
      BY <3>1
    <3>3. waiting' = FALSE /\ UNCHANGED <<got, req, cb2, cb1, portb, ddrd, portd>>
      BY <1>11 DEF BlockAcked, Acked
    <3>4. QED
      BY <1>2, <1>11, <3>1, <3>2, <3>3 DEF ghosts
  <2>2. CASE ~(y < 5)
    <3>1. SendNext(0, pages)
      BY <1>11, <2>2 DEF BlockAcked
    <3>2. y' \in Nat /\ pages' \in Nat /\ bbc' \in Phases /\ ddrb' \in BOOLEAN
      BY <1>7, <3>1
    <3>3. QED
      BY <1>2, <1>11, <3>2 DEF BlockAcked, Acked, ghosts
  <2>3. QED
    BY <2>1, <2>2
<1>12. ASSUME UNCHANGED ghosts, BodyAcked
       PROVE  TypeOK'
  BY <1>2, <1>5, <1>7, <1>12 DEF BodyAcked, Acked, ghosts
<1>13. ASSUME UNCHANGED ghosts, TurnAcked \/ DropAcked
       PROVE  TypeOK'
  BY <1>2, <1>13 DEF TurnAcked, DropAcked, Acked, ghosts, Phases
<1>14. ASSUME UNCHANGED ghosts, NEW b \in Byte, StatusAcked(b) \/ LenLowAcked(b)
       PROVE  TypeOK'
  <2>1. got' = [got EXCEPT !.status = b] \/ got' = [got EXCEPT !.lo = b]
    BY <1>14 DEF StatusAcked, LenLowAcked
  <2>2. got' \in Reply
    <3>1. got \in Reply
      OBVIOUS
    <3>2. [got EXCEPT !.status = b] \in Reply /\ [got EXCEPT !.lo = b] \in Reply
      BY <3>1, ReplyFields
    <3>3. QED
      BY <2>1, <3>2, Zenon
  <2>3. QED
    BY <1>2, <1>14, <2>2 DEF StatusAcked, LenLowAcked, Acked, ghosts, Phases
<1>15. ASSUME UNCHANGED ghosts, NEW b \in Byte, LenHighAcked(b)
       PROVE  TypeOK'
  <2>1. got' \in Reply
    BY <1>15, ReplyFields DEF LenHighAcked
  <2>2. b \in Nat
    BY DEF Byte
  <2>3. QED
    BY <1>2, <1>8, <1>15, <2>1, <2>2 DEF LenHighAcked, Acked, ghosts
<1>16. ASSUME UNCHANGED ghosts, NEW b \in Byte, DataAcked(b)
       PROVE  TypeOK'
  <2>1. got' \in Reply
    BY <1>16, ReplyFields DEF DataAcked
  <2>2. QED
    BY <1>2, <1>5, <1>8, <1>16, <2>1 DEF DataAcked, Acked, ghosts
<1>17. QED
  BY <1>1, <1>6, <1>9, <1>10, <1>11, <1>12, <1>13, <1>14, <1>15, <1>16 DEF BbcCall, BbcSend
LEMMA BreakType == TypeOK /\ BreakStep => TypeOK'
<1> SUFFICES ASSUME TypeOK, BreakStep PROVE TypeOK'
  OBVIOUS
<1>1. 0 \in Byte /\ NoReply \in Reply /\ "idle" \in Phases
  BY BaseAssumption DEF Byte, NoReply, Reply, Phases
<1>2. AvrTypeOK' /\ UNCHANGED <<inBank, inFull, outBank, outReady, host, hreq, hbody, rsp, fromBbc, served, answer>>
  BY DEF BreakStep, TypeOK, AvrTypeOK, avrVars, usbVars, hostVars
<1>3. BbcTypeOK' /\ PortTypeOK'
  BY <1>1 DEF BreakStep, Break, TypeOK, BbcTypeOK, PortTypeOK
<1>4. breaks' \in Nat
  BY DEF BreakStep, TypeOK
<1>5. QED
  BY <1>2, <1>3, <1>4 DEF TypeOK

(* The server's steps, including its start and its end. *)
LEMMA ServerType == TypeOK /\ (ServerStep \/ ServerStart \/ ServerTimeout) => TypeOK'
<1> SUFFICES ASSUME TypeOK, ServerStep \/ ServerStart \/ ServerTimeout PROVE TypeOK'
  OBVIOUS
<1>1. UNCHANGED <<portVars, bbcVars, avrVars>>
  BY DEF ServerStep, ServerStart, ServerTimeout
<1>2. PortTypeOK' /\ BbcTypeOK' /\ AvrTypeOK'
  BY <1>1 DEF TypeOK, portVars, bbcVars, avrVars, PortTypeOK, BbcTypeOK, AvrTypeOK
<1> DEFINE UsbTypeOK == /\ inBank \in Seq(Byte) /\ Len(inBank) <= EpSize
                        /\ outBank \in Seq(Byte) /\ Len(outBank) <= EpSize
                        /\ inFull \in BOOLEAN /\ outReady \in BOOLEAN
           HostTypeOK == /\ host \in HostPoints
                         /\ hreq \in Block
                         /\ hbody \in Seq(Byte)
                         /\ rsp \in Reply
                         /\ fromBbc \in Seq(Byte)
<1>3. <<>> \in Seq(Byte) /\ Len(<<>>) <= EpSize
  BY EpSizeAssumption
<1>4. UsbTypeOK /\ HostTypeOK
  BY DEF TypeOK
<1>5. CASE ServerStart \/ ServerTimeout
  <2>1. UsbTypeOK' /\ HostTypeOK'
    BY <1>3, <1>4, <1>5 DEF ServerStart, ServerTimeout, Open, OpenFails, WriteTimeout, ConfigureEndpoints,
                            usbVars, HostPoints
  <2>2. UNCHANGED ghosts
    BY <1>5 DEF ServerStart, ServerTimeout
  <2>3. QED
    BY <1>2, <2>1, <2>2 DEF TypeOK, ghosts
<1>6. CASE ServerStep
  <2> SUFFICES /\ UsbTypeOK' /\ HostTypeOK'
              /\ served' \in BOOLEAN /\ answer' \in Reply /\ breaks' \in Nat
    BY <1>2 DEF TypeOK
  <2>1. TakeIn => UsbTypeOK'
    BY <1>3, <1>4 DEF TakeIn
  <2>2. ASSUME ReadHeader PROVE UsbTypeOK' /\ HostTypeOK'
    <3>1. hreq' \in Block
      BY <1>4, <2>2 DEF ReadHeader, Block
    <3>2. QED
      BY <1>3, <1>4, <2>1, <2>2, <3>1 DEF ReadHeader, HostPoints
  <2>3. ASSUME HeaderOverflow \/ BodyOverflow PROVE UsbTypeOK' /\ HostTypeOK'
    BY <1>4, <2>1, <2>3 DEF HeaderOverflow, BodyOverflow, HostPoints
  <2>4. ASSUME ReadBody PROVE UsbTypeOK' /\ HostTypeOK'
    <3>1. hbody' \in Seq(Byte)
      BY <1>4, <2>4 DEF ReadBody, BodyWith
    <3>2. QED
      BY <1>4, <2>1, <2>4, <3>1 DEF ReadBody, HostPoints
  <2>5. ASSUME NEW junk \in Byte, Execute(junk)
        PROVE  UsbTypeOK' /\ HostTypeOK'
    <3>1. rsp' \in Reply
      BY <1>4, <2>5, ExecuteRequestType DEF Execute
    <3>2. QED
      BY <1>4, <2>5, <3>1 DEF Execute, HostPoints, usbVars
  <2>6. ASSUME DivideByZero PROVE UsbTypeOK' /\ HostTypeOK'
    BY <1>4, <2>6 DEF DivideByZero, HostPoints, usbVars
  <2>7. ASSUME WriteHeader PROVE UsbTypeOK' /\ HostTypeOK'
    <3>1. <<rsp.status, rsp.lo, rsp.hi>> \in Seq(Byte) /\ Len(<<rsp.status, rsp.lo, rsp.hi>>) <= EpSize
      BY <1>4, EpSizeAssumption DEF Reply
    <3>2. UsbTypeOK'
      BY <1>4, <2>7, <3>1 DEF WriteHeader, WritePacket
    <3>3. HostTypeOK'
      BY <1>4, <2>7 DEF WriteHeader, HostPoints
    <3>4. QED
      BY <3>2, <3>3
  <2>8. ASSUME WriteBody PROVE UsbTypeOK' /\ HostTypeOK'
    <3> DEFINE n == IF Len(rsp.data) > EpSize THEN EpSize ELSE Len(rsp.data)
    <3>1. rsp.data \in Seq(Byte) /\ n \in Nat /\ n <= Len(rsp.data) /\ n <= EpSize
      BY <1>4, EpSizeAssumption DEF Reply
    <3>2. /\ WritePacket(SubSeq(rsp.data, 1, n))
          /\ rsp' = [rsp EXCEPT !.data = SubSeq(@, n + 1, Len(@))]
          /\ host' \in HostPoints
          /\ UNCHANGED <<hreq, hbody, fromBbc>>
      BY <2>8 DEF WriteBody, HostPoints
    <3> HIDE DEF n
    <3>3. SubSeq(rsp.data, 1, n) \in Seq(Byte) /\ Len(SubSeq(rsp.data, 1, n)) <= EpSize
      BY <3>1
    <3>4. SubSeq(rsp.data, n + 1, Len(rsp.data)) \in Seq(Byte)
      BY <3>1
    <3>5. rsp' \in Reply
      BY <1>4, <3>2, <3>4 DEF Reply
    <3>6. UsbTypeOK'
      BY <1>4, <3>2, <3>3 DEF WritePacket
    <3>7. QED
      BY <1>4, <3>2, <3>5, <3>6
  <2>9. UsbTypeOK' /\ HostTypeOK'
    BY <1>6, <2>2, <2>3, <2>4, <2>5, <2>6, <2>7, <2>8 DEF ServerStep, HostStep
  <2>10. served' \in BOOLEAN /\ answer' \in Reply /\ breaks' \in Nat
    BY <1>6, <2>9 DEF ServerStep, TypeOK, ghosts
  <2>11. QED
    BY <2>9, <2>10
<1>7. QED
  BY <1>5, <1>6

-----------------------------------------------------------------------------
(* send_msg's own counting. One turn of a loop leaves Y and the page       *)
(* counter before another byte of the transfer, or at its end.             *)
LEMMA LoopTurn ==
  ASSUME NEW low \in Byte, InLoop(low), ~Exhausted(NextY, NextPages, low)
  PROVE  /\ NextY \in Byte /\ NextPages \in Byte
         /\ NextPages = 0 => NextY < low
         /\ NextPages <= pages
<1>1. y \in Nat /\ y < Base /\ pages \in Nat /\ pages < Base /\ low \in Nat /\ low < Base /\ Base \in Nat
  BY BaseAssumption DEF InLoop, Byte
<1>2. CASE y + 1 = Base
  <2>1. NextY = 0
    BY <1>1, <1>2, BaseAssumption DEF NextY
  <2>2. QED
    BY <1>1, <1>2, <2>1 DEF NextPages, InLoop, Exhausted, Byte
<1>3. CASE y + 1 < Base
  <2>1. NextY = y + 1
    BY <1>1, <1>3 DEF NextY
  <2>2. NextPages = pages
    BY <1>1, <2>1 DEF NextPages
  <2>3. QED
    BY <1>1, <1>3, <2>1, <2>2 DEF InLoop, Exhausted, Byte
<1>4. QED
  BY <1>1, <1>2, <1>3

LEMMA BbcLoop == TypeInv /\ BbcStep => LoopInv'
<1> SUFFICES ASSUME TypeOK, LoopInv, BbcStep PROVE LoopInv'
  BY DEF TypeInv
<1> USE DEF LoopInv, InLoop
<1>1. req \in Requests /\ got \in Reply
  BY DEF TypeOK, BbcTypeOK
<1>2. req.block \in Block /\ got.lo \in Byte
  BY <1>1, RequestsAssumption DEF Reply
<1>3. req.block[5] \in Byte /\ req.block[6] \in Byte
  BY <1>2 DEF Block
<1>4. Lines \subseteq Byte
  BY LinesType DEF TypeOK
<1>5. 0 \in Byte /\ \A b \in Byte : b \in Nat
  BY BaseAssumption DEF Byte
<1>6. CASE BbcCall
  <2>1. bbc' = "pulse" /\ y' = 0 /\ pages' = req'.block[6]
    BY <1>6 DEF BbcCall, Start
  <2>2. QED
    BY <2>1
<1>7. CASE EndPulse
  BY <1>7 DEF EndPulse
<1>8. CASE Strobe
  BY <1>8 DEF Strobe
<1>9. CASE BlockAcked
  <2>1. CASE y < 5
    BY <1>9, <2>1 DEF BlockAcked, Acked
  <2>2. CASE ~(y < 5)
    BY <1>3, <1>5, <1>9, <2>2 DEF BlockAcked, Acked, SendNext, Exhausted, Byte
  <2>3. QED
    BY <2>1, <2>2
<1>10. CASE BodyAcked
  <2>1. SendNext(NextY, NextPages) /\ UNCHANGED <<got, req>> /\ bbc = "body"
    BY <1>10 DEF BodyAcked, Acked
  <2>2. CASE Exhausted(NextY, NextPages, req.block[5])
    BY <2>1, <2>2 DEF SendNext
  <2>3. CASE ~Exhausted(NextY, NextPages, req.block[5])
    <3>1. bbc' = "body" /\ y' = NextY /\ pages' = NextPages
      BY <2>1, <2>3 DEF SendNext
    <3>2. NextPages \in Byte /\ NextY \in Byte /\ NextPages <= pages /\ (NextPages = 0 => NextY < req.block[5])
      BY <1>3, <2>1, <2>3, LoopTurn
    <3>3. NextPages <= req.block[6]
      BY <1>3, <2>1, <3>2 DEF Byte
    <3>4. QED
      BY <2>1, <3>1, <3>2, <3>3
  <2>4. QED
    BY <2>2, <2>3
<1>11. ASSUME NEW b \in Byte, LenHighAcked(b)
       PROVE  LoopInv'
  <2>1. got'.lo = got.lo /\ y' = 0 /\ pages' = b /\ bbc' \in {"drop", "data"}
    BY <1>1, <1>11 DEF LenHighAcked, RecvNext, Reply
  <2>2. bbc' = "data" => ~Exhausted(0, b, got.lo)
    BY <1>11 DEF LenHighAcked, RecvNext
  <2>3. QED
    BY <1>2, <1>5, <2>1, <2>2 DEF Exhausted, Byte
<1>12. ASSUME NEW b \in Byte, DataAcked(b)
       PROVE  LoopInv'
  <2>1. got'.lo = got.lo /\ y' = NextY /\ pages' = NextPages /\ bbc = "data" /\ bbc' \in {"drop", "data"}
    BY <1>1, <1>12 DEF DataAcked, RecvNext, Reply
  <2>2. bbc' = "data" => ~Exhausted(NextY, NextPages, got.lo)
    BY <1>12 DEF DataAcked, RecvNext
  <2>3. QED
    BY <1>2, <2>1, <2>2, LoopTurn
<1>13. CASE TurnAcked \/ DropAcked \/ (\E b \in Byte : StatusAcked(b) \/ LenLowAcked(b))
  BY <1>13 DEF TurnAcked, DropAcked, StatusAcked, LenLowAcked
<1>14. QED
  BY <1>6, <1>7, <1>8, <1>9, <1>10, <1>11, <1>12, <1>13 DEF BbcStep, BbcSend

LEMMA LoopStep == TypeInv /\ [Next]_vars => LoopInv'
<1> SUFFICES ASSUME TypeInv, [Next]_vars PROVE LoopInv'
  OBVIOUS
<1>1. CASE BbcStep
  BY <1>1, BbcLoop
<1>2. CASE BreakStep
  BY <1>2 DEF BreakStep, Break, LoopInv
<1>3. CASE BridgeStep \/ ServerStep \/ ServerStart \/ ServerTimeout \/ UNCHANGED vars
  BY <1>3 DEF TypeInv, LoopInv, InLoop, BridgeStep, ServerStep, ServerStart, ServerTimeout, vars, bbcVars
<1>4. QED
  BY <1>1, <1>2, <1>3 DEF Next

(* TypeOK with LoopInv is inductive: send_msg's fetch needs LoopInv.       *)
LEMMA TypeInvInductive ==
  /\ Init => TypeInv
  /\ TypeInv /\ [Next]_vars => TypeInv'
<1>1. Init => LoopInv
  BY DEF Init, BbcInit, LoopInv
<1>2. ASSUME TypeOK, UNCHANGED vars PROVE TypeOK'
  BY <1>2 DEF vars, portVars, bbcVars, avrVars, usbVars, hostVars, ghosts,
              TypeOK, PortTypeOK, BbcTypeOK, AvrTypeOK
<1>3. TypeInv /\ [Next]_vars => TypeOK'
  BY <1>2, BbcStepType, BreakType, BridgeType, ServerType DEF Next, TypeInv
<1>4. QED
  BY <1>1, <1>3, InitType, LoopStep DEF TypeInv

(* Every variable keeps its type in every behaviour of the link: whatever  *)
(* Break interrupts, whenever the server starts, and whether or not the    *)
(* AVR hears a pulse, the banks never exceed a packet, every byte is a     *)
(* byte, and send_msg and doMessaging stay in their state enumerations.    *)
THEOREM TypeCorrect == Spec => []TypeOK
<1>1. Spec => []TypeInv
  BY TypeInvInductive, PTL DEF Spec
<1>2. QED
  BY <1>1, PTL DEF TypeInv

-----------------------------------------------------------------------------
(* The firmware's counter: which case waits where, and never at zero.      *)
LEMMA CounterInit == Init => CounterInv
BY DEF Init, AvrInit, CounterInv

LEMMA CounterBridge == TypeOK /\ CounterInv /\ AvrStep => CounterInv'
<1> SUFFICES ASSUME TypeOK, CounterInv, AvrStep PROVE CounterInv'
  OBVIOUS
<1> USE DEF CounterInv
<1>1. avr \in AvrPoints /\ resume \in Resumes /\ state \in States
  BY DEF TypeOK, AvrTypeOK
<1>2. CASE AckCheck
  BY <1>1, <1>2 DEF AckCheck, Resumes
<1>3. CASE SpinEnds
  BY <1>1, <1>3 DEF SpinEnds, Resumes
<1>4. ASSUME NEW k \in 1 .. 4, NEW b \in Byte, GetHeaderByte(k, b)
      PROVE  CounterInv'
  <2>1. state' \in {"GET_COMMAND", "GET_PARAM1", "GET_PARAM2", "GET_LENGTH_LOW"}
    BY <1>4 DEF GetHeaderByte, AckTo, HeaderStates
  <2>2. avr' = "ack" /\ resume' = "poll"
    BY <1>4 DEF GetHeaderByte, AckTo
  <2>3. QED
    BY <2>1, <2>2
<1>5. ASSUME NEW b \in Byte, GetLengthLow(b) \/ GetLengthHigh(b) \/ GetData(b)
      PROVE  CounterInv'
  BY <1>5 DEF GetLengthLow, GetLengthHigh, GetData, Poll, AckTo
<1>6. CASE PutHeader \/ HeaderTaken \/ PutData \/ SendPrep \/ Drive
  BY <1>6 DEF PutHeader, HeaderTaken, PutData, SendPrep, Drive, Poll, AckTo
<1>7. CASE SendRetcode \/ SkipEmptyPacket \/ TakeRetcode \/ RecvLengthLow \/ RecvLengthHigh
  BY <1>7 DEF SendRetcode, SkipEmptyPacket, TakeRetcode, RecvLengthLow, RecvLengthHigh, Poll, AckTo, avrVars
<1>8. CASE SendLengthLow \/ SendLengthHigh \/ SendData \/ TakeData \/ Finish
  BY <1>8 DEF SendLengthLow, SendLengthHigh, SendData, TakeData, Finish, Poll, AckTo
<1>9. QED
  BY <1>2, <1>3, <1>4, <1>5, <1>6, <1>7, <1>8 DEF AvrStep

LEMMA CounterStep == TypeOK /\ CounterInv /\ [Next]_vars => CounterInv'
<1> SUFFICES ASSUME TypeOK, CounterInv, [Next]_vars PROVE CounterInv'
  OBVIOUS
<1>1. CASE BridgeStep
  BY <1>1, CounterBridge DEF BridgeStep
<1>2. CASE BbcStep \/ BreakStep \/ ServerStep \/ ServerStart \/ ServerTimeout \/ UNCHANGED vars
  BY <1>2 DEF BbcStep, BreakStep, ServerStep, ServerStart, ServerTimeout, vars, avrVars, CounterInv
<1>3. QED
  BY <1>1, <1>2 DEF Next

(* The firmware never decrements dataLength from zero, whatever bytes the  *)
(* BBC or the host send and whenever Break restarts the state machine, so  *)
(* it never moves 65536 bytes by mistake (GET_DATA, SEND_DATA).            *)
THEOREM CounterSafe == Spec => []CounterNeverWraps
<1>1. CounterInv => CounterNeverWraps
  BY DEF CounterInv, CounterNeverWraps
<1>2. Spec => []CounterInv
  BY TypeCorrect, CounterInit, CounterStep, PTL DEF Spec
<1>3. QED
  BY <1>1, <1>2, PTL

-----------------------------------------------------------------------------
(* The counting of the two sides, as numbers.                              *)
LEMMA WordZero ==
  ASSUME NEW w \in Byte \X Byte
  PROVE  w = Zero <=> Word(w[1], w[2]) = 0
<1>1. w = <<w[1], w[2]>> /\ w[1] \in Nat /\ w[2] \in Nat
  BY BaseAssumption DEF Byte
<1>2. w[2] > 0 => Base * w[2] >= Base
  BY <1>1, BaseAssumption
<1>3. w[2] = 0 => Base * w[2] = 0
  BY BaseAssumption
<1>4. QED
  BY <1>1, <1>2, <1>3, BaseAssumption DEF Word, Zero

LEMMA DecrementWord ==
  ASSUME NEW w \in Byte \X Byte, w # Zero
  PROVE  Word(Decrement(w)[1], Decrement(w)[2]) = Word(w[1], w[2]) - 1
<1>1. w = <<w[1], w[2]>> /\ w[1] \in Nat /\ w[2] \in Nat /\ Base \in Nat
  BY BaseAssumption DEF Byte
<1>2. CASE w[1] > 0
  BY <1>1, <1>2 DEF Decrement, Word
<1>3. CASE w[1] = 0 /\ w[2] > 0
  <2>1. Base * (w[2] - 1) = Base * w[2] - Base
    BY <1>1
  <2>2. Decrement(w) = <<Base - 1, w[2] - 1>>
    BY <1>1, <1>3 DEF Decrement
  <2>3. QED
    BY <1>1, <1>3, <2>1, <2>2 DEF Word
<1>4. QED
  BY <1>1, <1>2, <1>3 DEF Zero

LEMMA LeftTurn ==
  ASSUME NEW low \in Byte, InLoop(low), y \in Nat, pages \in Nat
  PROVE  /\ NextPages * Base + low - NextY = Left(low) - 1
         /\ Exhausted(NextY, NextPages, low) <=> Left(low) - 1 = 0
<1>1. y < Base /\ pages < Base /\ low \in Nat /\ low < Base /\ Base \in Nat \ {0}
  BY BaseAssumption DEF InLoop, Byte
<1>2. CASE y + 1 = Base
  <2>1. NextY = 0
    BY <1>1, <1>2, BaseAssumption DEF NextY
  <2>2. pages > 0 /\ NextPages = pages - 1
    BY <1>1, <1>2, <2>1 DEF NextPages, InLoop
  <2>3. (pages - 1) * Base = pages * Base - Base
    BY <1>1
  <2>4. (pages - 1) * Base >= 0 /\ (pages - 1 > 0 => (pages - 1) * Base > 0)
    BY <1>1, <2>2
  <2>5. QED
    BY <1>1, <1>2, <2>1, <2>2, <2>3, <2>4 DEF Left, Exhausted
<1>3. CASE y + 1 < Base
  <2>1. NextY = y + 1
    BY <1>1, <1>3 DEF NextY
  <2>2. NextPages = pages
    BY <1>1, <2>1 DEF NextPages
  <2>3. pages > 0 => pages * Base >= Base
    BY <1>1
  <2>4. pages = 0 => pages * Base = 0
    BY <1>1
  <2>5. QED
    BY <1>1, <1>3, <2>1, <2>2, <2>3, <2>4 DEF Left, Exhausted
<1>4. QED
  BY <1>1, <1>2, <1>3

-----------------------------------------------------------------------------
(* Lock-step, action by action. Recovering says what it takes: the AVR     *)
(* hears every pulse, and Break comes only where a pulse recovers.         *)
LockInv == TypeInv /\ CounterInv /\ LockStep

LEMMA LockInit == Init => LockStep
BY DEF Init, PortInit, BbcInit, AvrInit, LockStep, LineInv, DriveInv, BetweenInv, StateInv,
       PointInv, CountInv, InCall, HasAcked, Recoverable

(* What the steps below need of the types. *)
LEMMA LockFacts ==
  ASSUME LockInv
  PROVE  /\ bbc \in Phases /\ avr \in AvrPoints /\ resume \in Resumes /\ state \in States
         /\ waiting \in BOOLEAN /\ cb1 \in BOOLEAN /\ ddrb \in BOOLEAN /\ ddrd \in BOOLEAN
         /\ y \in Nat /\ pages \in Nat
         /\ dataLength \in Byte \X Byte
         /\ req.block[5] \in Byte /\ req.block[6] \in Byte /\ got.lo \in Byte
<1>1. TypeOK
  BY DEF LockInv, TypeInv
<1>2. req \in Requests /\ got \in Reply
  BY <1>1 DEF TypeOK, BbcTypeOK
<1>3. req.block \in [1 .. 6 -> Byte] /\ got.lo \in Byte
  BY <1>2, RequestsAssumption DEF Block, Reply
<1>4. req.block[5] \in Byte /\ req.block[6] \in Byte
  BY <1>3
<1>5. QED
  BY <1>1, <1>3, <1>4 DEF TypeOK, PortTypeOK, BbcTypeOK, AvrTypeOK

LEMMA LockBreak == LockInv /\ BreakAt \subseteq Recoverable /\ BreakStep => LockStep'
<1> SUFFICES ASSUME LockInv, BreakAt \subseteq Recoverable, BreakStep PROVE LockStep'
  OBVIOUS
<1> USE DEF InCall, HasAcked
<1>1. bbc' = "idle" /\ waiting' = FALSE /\ cb2' = "high" /\ ddrb' = FALSE
  BY DEF BreakStep, Break
<1>2. state \in Recoverable /\ UNCHANGED <<avr, resume, state, ddrd>>
  BY DEF BreakStep, Break, avrVars
<1>3. avr \in {"poll", "ack", "spin"} /\ (avr \in {"ack", "spin"} => resume = "poll")
  BY <1>2, LockFacts DEF LockInv, LockStep, BetweenInv, StateInv, PointInv, Recoverable,
                         Phases, AvrPoints, Resumes, BlockStates
<1>4. LineInv' /\ DriveInv' /\ BetweenInv' /\ StateInv' /\ PointInv' /\ CountInv'
  BY <1>1, <1>2, <1>3 DEF LockInv, LockStep, LineInv, DriveInv, BetweenInv, StateInv, PointInv, CountInv
<1>5. QED
  BY <1>4 DEF LockStep

LEMMA LockStart == LockInv /\ BbcStep /\ BbcCall => LockStep'
<1> SUFFICES ASSUME LockInv, BbcStep, BbcCall PROVE LockStep'
  OBVIOUS
<1> USE DEF InCall, HasAcked
<1>1. /\ bbc = "idle" /\ bbc' = "pulse" /\ cb2' = "held" /\ ddrb' = FALSE
      /\ UNCHANGED <<waiting, cb1, ddrd, avr, resume, state>>
  BY DEF BbcStep, BbcCall, Start, avrVars
<1>2. QED
  BY <1>1 DEF LockInv, LockStep, LineInv, DriveInv, BetweenInv, StateInv, PointInv, CountInv

LEMMA LockEndPulse == LockInv /\ Prompt /\ PulseMayEnd /\ EndPulse /\ UNCHANGED avrVars => LockStep'
<1> SUFFICES ASSUME LockInv, Prompt, PulseMayEnd, EndPulse, UNCHANGED avrVars PROVE LockStep'
  OBVIOUS
<1> USE DEF InCall, HasAcked
<1>1. /\ bbc = "pulse" /\ bbc' = "block" /\ cb2' = "high" /\ ddrb' = TRUE
      /\ UNCHANGED <<waiting, cb1, portb, ddrd, y, pages, req, avr, resume, state, dataLength>>
  BY DEF EndPulse, avrVars
<1>2. y = 0 /\ ~waiting
  BY <1>1 DEF LockInv, TypeInv, LoopInv, LockStep, LineInv
<1>3. avr = "spin" /\ resume = "poll"
  BY <1>1 DEF PulseMayEnd, Blocked, LockInv, LockStep, BetweenInv
<1>4. state = "GET_CHANNEL" /\ ddrd = FALSE
  BY <1>3, LockFacts DEF LockInv, CounterInv, LockStep, DriveInv
<1>5. QED
  BY <1>1, <1>2, <1>3, <1>4 DEF LockStep, LineInv, DriveInv, BetweenInv, StateInv, PointInv, CountInv, BlockStates

LEMMA LockStrobe == LockInv /\ StrobeMayFollow /\ Strobe /\ UNCHANGED avrVars => LockStep'
<1> SUFFICES ASSUME LockInv, StrobeMayFollow, Strobe, UNCHANGED avrVars PROVE LockStep'
  OBVIOUS
<1> USE DEF InCall, HasAcked
<1>1. /\ bbc \notin {"idle", "pulse"} /\ waiting = FALSE /\ waiting' = TRUE /\ portb' = OutByte
      /\ cb1' = FALSE /\ cb2' = "strobe"
      /\ UNCHANGED <<bbc, req, y, pages, got, ddrb, ddrd, portd, avr, resume, state, dataLength>>
  BY LockFacts DEF Strobe, avrVars
<1>2. avr \notin {"ack", "spin", "room", "waitOut", "waitData"}
  BY <1>1 DEF StrobeMayFollow, LockInv, LockStep, PointInv
<1>3. bbc \in {"block", "body"} => OutByte' = OutByte
  BY <1>1 DEF OutByte, Offset
<1>4. LineInv' /\ DriveInv' /\ BetweenInv'
  BY <1>1, <1>2, <1>3 DEF LockInv, LockStep, LineInv, DriveInv, BetweenInv
<1>5. StateInv'
  BY <1>1, <1>2 DEF LockInv, LockStep, StateInv
<1>6. PointInv'
  BY <1>1, <1>2 DEF LockInv, LockStep, PointInv
<1>7. CountInv'
  BY <1>1, <1>2 DEF LockInv, LockStep, CountInv, Left
<1>8. QED
  BY <1>4, <1>5, <1>6, <1>7 DEF LockStep

(* What an acknowledged byte leaves alone; the flag is still up after it.  *)
LEMMA AckedFacts ==
  ASSUME LockInv, Acked, UNCHANGED avrVars, bbc \notin {"idle", "pulse"}
  PROVE  /\ HasAcked /\ ~HasAcked' /\ waiting' = FALSE /\ cb2 = "high"
         /\ avr \notin {"spin", "room", "waitOut", "waitData"}
         /\ UNCHANGED <<req, cb2, cb1, ddrd, portb, portd, avr, resume, state, dataLength>>
BY LockFacts DEF LockInv, LockStep, LineInv, PointInv, Acked, HasAcked, InCall, avrVars

LEMMA LockBlockAcked == LockInv /\ BlockAcked /\ UNCHANGED avrVars => LockStep'
<1> SUFFICES ASSUME LockInv, BlockAcked, UNCHANGED avrVars PROVE LockStep'
  OBVIOUS
<1>1. /\ bbc = "block" /\ HasAcked /\ ~HasAcked' /\ waiting' = FALSE /\ cb2 = "high"
      /\ avr \notin {"spin", "room", "waitOut", "waitData"}
      /\ UNCHANGED <<got, req, cb2, cb1, ddrd, portb, portd, avr, resume, state, dataLength>>
  BY AckedFacts DEF BlockAcked
<1>2. LineInv /\ DriveInv /\ StateInv /\ PointInv /\ CountInv /\ LoopInv
  BY DEF LockInv, LockStep, TypeInv
<1>3. CASE y < 5
  <2>1. y' = y + 1 /\ UNCHANGED <<bbc, pages, ddrb>>
    BY <1>3 DEF BlockAcked
  <2>2. QED
    BY <1>1, <1>2, <1>3, <2>1, LockFacts DEF LockStep, LineInv, DriveInv, BetweenInv, StateInv, PointInv,
                                  CountInv, LoopInv, InCall, BlockStates
<1>4. CASE ~(y < 5)
  <2>1. SendNext(0, pages) /\ y = 5
    BY <1>1, <1>2, <1>4, LockFacts DEF BlockAcked, LoopInv
  <2>2. dataLength = <<req.block[5], req.block[6]>> /\ pages = req.block[6]
    BY <1>1, <1>2, <2>1, LockFacts DEF CountInv, LoopInv
  <2>3. Exhausted(0, pages, req.block[5]) <=> dataLength = Zero
    BY <2>2, LockFacts DEF Exhausted, Zero
  <2>4. state = IF dataLength # Zero THEN "GET_DATA" ELSE "SEND_PREP"
    BY <1>1, <1>2, <2>1 DEF StateInv
  <2>5. ~ddrd
    BY <1>1, <1>2 DEF DriveInv
  <2>6. CASE dataLength = Zero
    <3>1. bbc' = "turn" /\ ddrb' = FALSE
      BY <2>1, <2>3, <2>6 DEF SendNext
    <3>2. QED
      BY <1>1, <1>2, <2>1, <2>4, <2>5, <2>6, <3>1 DEF LockStep, LineInv, DriveInv, BetweenInv, StateInv,
                                              PointInv, CountInv, InCall
  <2>7. CASE dataLength # Zero
    <3>1. bbc' = "body" /\ ddrb' = TRUE /\ y' = 0 /\ pages' = pages
      BY <2>1, <2>3, <2>7 DEF SendNext
    <3>2. Word(dataLength[1], dataLength[2]) = Left(req.block[5])'
      BY <1>1, <2>2, <3>1, LockFacts, BaseAssumption DEF Word, Left, Byte
    <3>3. Word(dataLength[1], dataLength[2]) \in Nat
      BY LockFacts, WordIsNat
    <3>4. CountInv'
      BY <1>1, <3>1, <3>2, <3>3 DEF CountInv
    <3>5. QED
      BY <1>1, <1>2, <2>1, <2>4, <2>5, <2>7, <3>1, <3>4 DEF LockStep, LineInv, DriveInv, BetweenInv, StateInv,
                                                    PointInv, InCall
  <2>8. QED
    BY <2>6, <2>7
<1>5. QED
  BY <1>3, <1>4

LEMMA LockBodyAcked == LockInv /\ BodyAcked /\ UNCHANGED avrVars => LockStep'
<1> SUFFICES ASSUME LockInv, BodyAcked, UNCHANGED avrVars PROVE LockStep'
  OBVIOUS
<1>1. /\ bbc = "body" /\ HasAcked /\ ~HasAcked' /\ waiting' = FALSE /\ cb2 = "high"
      /\ avr \notin {"spin", "room", "waitOut", "waitData"}
      /\ UNCHANGED <<got, req, cb2, cb1, ddrd, portb, portd, avr, resume, state, dataLength>>
  BY AckedFacts DEF BodyAcked
<1>2. LineInv /\ DriveInv /\ StateInv /\ PointInv /\ CountInv /\ InLoop(req.block[5])
  BY <1>1 DEF LockInv, LockStep, TypeInv, LoopInv
<1>3. SendNext(NextY, NextPages) /\ ~ddrd
  BY <1>1, <1>2 DEF BodyAcked, DriveInv
<1>4. Word(dataLength[1], dataLength[2]) = Left(req.block[5]) - 1
  BY <1>1, <1>2 DEF CountInv
<1>5. /\ NextPages * Base + req.block[5] - NextY = Left(req.block[5]) - 1
      /\ Exhausted(NextY, NextPages, req.block[5]) <=> Left(req.block[5]) - 1 = 0
  BY <1>2, LeftTurn, LockFacts
<1>6. Exhausted(NextY, NextPages, req.block[5]) <=> dataLength = Zero
  BY <1>4, <1>5, WordZero, LockFacts
<1>7. state = IF dataLength = Zero THEN "SEND_PREP" ELSE "GET_DATA"
  BY <1>1, <1>2 DEF StateInv
<1>8. CASE dataLength = Zero
  <2>1. bbc' = "turn" /\ ddrb' = FALSE
    BY <1>3, <1>6, <1>8 DEF SendNext
  <2>2. QED
    BY <1>1, <1>2, <1>3, <1>7, <1>8, <2>1 DEF LockStep, LineInv, DriveInv, BetweenInv, StateInv, PointInv,
                                              CountInv, InCall
<1>9. CASE dataLength # Zero
  <2>1. bbc' = "body" /\ ddrb' = TRUE /\ y' = NextY /\ pages' = NextPages
    BY <1>3, <1>6, <1>9 DEF SendNext
  <2>2. Word(dataLength[1], dataLength[2]) = Left(req.block[5])'
    BY <1>1, <1>4, <1>5, <2>1 DEF Left
  <2>3. Word(dataLength[1], dataLength[2]) \in Nat
    BY LockFacts, WordIsNat
  <2>4. CountInv'
    BY <1>1, <2>1, <2>2, <2>3 DEF CountInv
  <2>5. QED
    BY <1>1, <1>2, <1>3, <1>7, <1>9, <2>1, <2>4 DEF LockStep, LineInv, DriveInv, BetweenInv, StateInv,
                                                    PointInv, InCall
<1>10. QED
  BY <1>8, <1>9

LEMMA LockTurnAcked == LockInv /\ (TurnAcked \/ DropAcked) /\ UNCHANGED avrVars => LockStep'
<1> SUFFICES ASSUME LockInv, TurnAcked \/ DropAcked, UNCHANGED avrVars PROVE LockStep'
  OBVIOUS
<1>1. /\ (bbc = "turn" /\ bbc' = "status") \/ (bbc = "drop" /\ bbc' = "idle")
      /\ HasAcked /\ ~HasAcked' /\ waiting' = FALSE /\ cb2 = "high"
      /\ avr \notin {"spin", "room", "waitOut", "waitData"}
      /\ UNCHANGED <<ddrb, req, cb2, cb1, ddrd, portb, portd, avr, resume, state, dataLength>>
  BY AckedFacts, Zenon DEF TurnAcked, DropAcked
<1>2. LineInv /\ DriveInv /\ StateInv /\ PointInv
  BY DEF LockInv, LockStep
<1>3. bbc = "drop" => avr \in {"poll", "ack"} /\ (avr = "ack" => resume = "poll")
  BY <1>1, <1>2, LockFacts DEF PointInv, InCall, AvrPoints, Resumes
<1>4. QED
  BY <1>1, <1>2, <1>3 DEF LockStep, LineInv, DriveInv, BetweenInv, StateInv, PointInv, CountInv, InCall,
                          Recoverable

(* The AVR drives the lines, alone, while the BBC collects.                *)
LEMMA LinesDriven ==
  ASSUME LockInv, HasAcked, bbc \in {"status", "lenlo", "lenhi", "data"}
  PROVE  Lines = {portd} /\ ddrd
BY LockFacts DEF LockInv, LockStep, DriveInv, Lines

LEMMA LockStatusAcked ==
  ASSUME LockInv, NEW b \in Byte, StatusAcked(b) \/ LenLowAcked(b), UNCHANGED avrVars
  PROVE  LockStep'
<1>1. /\ (bbc = "status" /\ bbc' = "lenlo") \/ (bbc = "lenlo" /\ bbc' = "lenhi")
      /\ HasAcked /\ ~HasAcked' /\ waiting' = FALSE /\ cb2 = "high"
      /\ avr \notin {"spin", "room", "waitOut", "waitData"}
      /\ UNCHANGED <<ddrb, req, cb2, cb1, ddrd, portb, portd, avr, resume, state, dataLength>>
  BY AckedFacts DEF StatusAcked, LenLowAcked
<1>2. LineInv /\ DriveInv /\ StateInv /\ PointInv /\ CountInv
  BY DEF LockInv, LockStep
<1>3. b = portd /\ ddrd
  BY <1>1, LinesDriven DEF StatusAcked, LenLowAcked
<1>4. bbc = "lenlo" => got'.lo = dataLength[1]
  <2>1. bbc = "lenlo" => got' = [got EXCEPT !.lo = b] /\ portd = dataLength[1]
    BY <1>1, <1>2 DEF StatusAcked, LenLowAcked, CountInv
  <2>2. got \in Reply
    BY DEF LockInv, TypeInv, TypeOK, BbcTypeOK
  <2>3. QED
    BY <1>3, <2>1, <2>2 DEF Reply
<1>5. QED
  BY <1>1, <1>2, <1>3, <1>4 DEF LockStep, LineInv, DriveInv, BetweenInv, StateInv, PointInv, CountInv, InCall

(* What follows the length, or a byte of the response.                     *)
LEMMA LockReceive ==
  ASSUME LockInv, NEW b \in Byte, LenHighAcked(b) \/ DataAcked(b), UNCHANGED avrVars
  PROVE  LockStep'
<1>1. /\ bbc \in {"lenhi", "data"} /\ HasAcked /\ ~HasAcked' /\ waiting' = FALSE /\ cb2 = "high"
      /\ avr \notin {"spin", "room", "waitOut", "waitData"}
      /\ UNCHANGED <<ddrb, req, cb2, cb1, ddrd, portb, portd, avr, resume, state, dataLength>>
  BY AckedFacts DEF LenHighAcked, DataAcked
<1>2. LineInv /\ DriveInv /\ StateInv /\ PointInv /\ CountInv /\ LoopInv
  BY DEF LockInv, LockStep, TypeInv
<1>3. b = portd /\ ddrd
  BY <1>1, LinesDriven DEF LenHighAcked, DataAcked
<1>4. got'.lo = got.lo
  <2>1. got' = [got EXCEPT !.hi = b] \/ got' = [got EXCEPT !.data = Append(@, b)]
    BY DEF LenHighAcked, DataAcked
  <2>2. got \in Reply
    BY DEF LockInv, TypeInv, TypeOK, BbcTypeOK
  <2>3. QED
    BY <2>1, <2>2 DEF Reply
<1>5. Word(dataLength[1], dataLength[2]) \in Nat
  BY LockFacts, WordIsNat
<1>6. PICK pos, left :
        /\ RecvNext(pos, left, got.lo)
        /\ Word(dataLength[1], dataLength[2]) = left * Base + got.lo - pos
        /\ Exhausted(pos, left, got.lo) <=> dataLength = Zero
  <2>1. CASE LenHighAcked(b)
    <3>1. RecvNext(0, b, got.lo) /\ dataLength = <<got.lo, b>>
      BY <1>1, <1>2, <1>3, <2>1, LockFacts DEF LenHighAcked, CountInv
    <3>2. Word(dataLength[1], dataLength[2]) = b * Base + got.lo - 0
      BY <3>1, LockFacts, BaseAssumption DEF Word, Byte
    <3>3. Exhausted(0, b, got.lo) <=> dataLength = Zero
      BY <3>1 DEF Exhausted, Zero
    <3>4. QED
      BY <3>1, <3>2, <3>3
  <2>2. CASE DataAcked(b)
    <3>1. RecvNext(NextY, NextPages, got.lo) /\ bbc = "data"
      BY <2>2 DEF DataAcked
    <3>2. Word(dataLength[1], dataLength[2]) = Left(got.lo) - 1 /\ InLoop(got.lo)
      BY <1>1, <1>2, <3>1 DEF CountInv, LoopInv
    <3>3. /\ NextPages * Base + got.lo - NextY = Left(got.lo) - 1
          /\ Exhausted(NextY, NextPages, got.lo) <=> Left(got.lo) - 1 = 0
      BY <3>2, LeftTurn, LockFacts
    <3>4. QED
      BY <3>1, <3>2, <3>3, WordZero, LockFacts
  <2>3. QED
    BY <2>1, <2>2
<1>7. state = IF dataLength = Zero THEN "FINISH" ELSE "SEND_DATA"
  BY <1>1, <1>2 DEF StateInv
<1>8. CASE dataLength = Zero
  <2>1. bbc' = "drop"
    BY <1>6, <1>8 DEF RecvNext
  <2>2. QED
    BY <1>1, <1>2, <1>3, <1>7, <1>8, <2>1, LockFacts DEF LockStep, LineInv, DriveInv, BetweenInv, StateInv,
                                                         PointInv, CountInv, InCall
<1>9. CASE dataLength # Zero
  <2>1. bbc' = "data" /\ y' = pos /\ pages' = left
    BY <1>6, <1>9 DEF RecvNext
  <2>2. Word(dataLength[1], dataLength[2]) = Left(got.lo)'
    BY <1>4, <1>6, <2>1 DEF Left
  <2>3. CountInv'
    BY <1>1, <1>4, <1>5, <2>1, <2>2 DEF CountInv
  <2>4. QED
    BY <1>1, <1>2, <1>3, <1>7, <1>9, <2>1, <2>3 DEF LockStep, LineInv, DriveInv, BetweenInv, StateInv,
                                                    PointInv, InCall
<1>10. QED
  BY <1>8, <1>9

LEMMA LockBbc == LockInv /\ Prompt /\ BbcStep => LockStep'
<1> SUFFICES ASSUME LockInv, Prompt, BbcStep PROVE LockStep'
  OBVIOUS
<1>1. UNCHANGED avrVars
  BY DEF BbcStep
<1>2. CASE BbcCall
  BY <1>2, LockStart
<1>3. CASE BbcSend
  BY <1>1, <1>3, LockEndPulse, LockStrobe, LockBlockAcked, LockBodyAcked, LockTurnAcked, LockStatusAcked,
     LockReceive DEF BbcSend
<1>4. QED
  BY <1>2, <1>3 DEF BbcStep

-----------------------------------------------------------------------------
(* The AVR's side. A poll finds the BBC in its pulse, in a state the pulse *)
(* recovers from, or waiting for the very byte its state is for.           *)
LEMMA Polled ==
  ASSUME LockInv, avr = "poll", cb2 # "high"
  PROVE  \/ bbc = "pulse" /\ ~waiting /\ cb2 = "held" /\ state \in Recoverable
         \/ InCall /\ waiting = TRUE /\ cb1 = FALSE /\ cb2 = "strobe"
BY LockFacts DEF LockInv, LockStep, LineInv, BetweenInv, InCall, Phases

LEMMA LockAckCheck == LockInv /\ (AckCheck \/ SpinEnds) /\ UNCHANGED bbcVars => LockStep'
<1> SUFFICES ASSUME LockInv, AckCheck \/ SpinEnds, UNCHANGED bbcVars PROVE LockStep'
  OBVIOUS
<1> USE DEF InCall, HasAcked
<1>1. LineInv /\ DriveInv /\ BetweenInv /\ StateInv /\ PointInv /\ CountInv /\ CounterInv
  BY DEF LockInv, LockStep
<1>2. UNCHANGED <<bbc, waiting, req, y, pages, got, resume, dataLength, cb2, cb1, ddrb, portb, portd>>
  BY DEF AckCheck, SpinEnds, bbcVars, portVars
<1>3. OutByte' = OutByte
  BY <1>2 DEF OutByte, Offset
<1>4. CASE AckCheck /\ cb2 # "high"
  <2>1. bbc = "pulse" /\ avr = "ack" /\ resume = "poll" /\ cb2 = "held"
    BY <1>1, <1>4, LockFacts DEF AckCheck, LineInv, BetweenInv, PointInv, Phases
  <2>2. avr' = "spin" /\ state' = "GET_CHANNEL" /\ ddrd' = FALSE
    BY <1>4 DEF AckCheck
  <2>3. QED
    BY <1>1, <1>2, <2>1, <2>2 DEF LockStep, LineInv, DriveInv, BetweenInv, StateInv, PointInv, CountInv,
                                  Recoverable
<1>5. CASE (AckCheck \/ SpinEnds) /\ cb2 = "high"
  <2>1. avr \in {"ack", "spin"} /\ avr' = resume /\ UNCHANGED <<state, ddrd>>
    BY <1>5 DEF AckCheck, SpinEnds, portVars
  <2>2. avr = "spin" => state = "GET_CHANNEL"
    BY <1>1 DEF CounterInv
  <2>3. InCall /\ avr = "spin" => bbc = "block" /\ y = 0 /\ ~waiting
    BY <1>1 DEF PointInv
  <2>4. LineInv' /\ DriveInv'
    BY <1>1, <1>2, <1>3, <2>1, <2>3, LockFacts DEF LineInv, DriveInv, Resumes
  <2>5. BetweenInv'
    BY <1>1, <1>2, <1>5, <2>1, <2>2, LockFacts DEF BetweenInv, LineInv, Recoverable, Phases
  <2>6. StateInv'
    BY <1>1, <1>2, <2>1 DEF StateInv
  <2>7. PointInv'
    BY <1>1, <1>2, <2>1, <2>3, LockFacts DEF PointInv, Resumes
  <2>8. CountInv'
    BY <1>1, <1>2, <2>1, <2>3, LockFacts DEF CountInv, Left, Resumes
  <2>9. QED
    BY <2>4, <2>5, <2>6, <2>7, <2>8 DEF LockStep
<1>6. QED
  BY <1>4, <1>5 DEF SpinEnds

(* The header.                                                             *)
LEMMA LockHeaderByte ==
  ASSUME LockInv, NEW k \in 1 .. 4, NEW b \in Byte, GetHeaderByte(k, b), UNCHANGED bbcVars
  PROVE  LockStep'
<1> USE DEF InCall, HasAcked
<1>1. LineInv /\ DriveInv /\ BetweenInv /\ StateInv /\ PointInv /\ CountInv /\ LoopInv
  BY DEF LockInv, LockStep, TypeInv
<1>2. /\ avr = "poll" /\ cb2 # "high" /\ state = HeaderStates[k]
      /\ avr' = "ack" /\ resume' = "poll" /\ state' = HeaderStates[k + 1]
      /\ cb1' = TRUE /\ cb2' = (IF cb2 = "strobe" THEN "high" ELSE cb2)
      /\ UNCHANGED <<bbc, waiting, req, y, pages, got, dataLength, ddrb, portb, ddrd, portd>>
  BY DEF GetHeaderByte, Poll, AckTo, AckEdge, bbcVars
<1>3. \/ bbc = "pulse" /\ ~waiting /\ cb2 = "held" /\ state \in Recoverable
      \/ InCall /\ waiting = TRUE /\ cb1 = FALSE /\ cb2 = "strobe"
  BY <1>2, Polled
<1>4. CASE bbc = "pulse" /\ ~waiting /\ cb2 = "held" /\ state \in Recoverable
  <2>1. state' \in Recoverable
    BY <1>2 DEF HeaderStates, Recoverable
  <2>2. QED
    BY <1>1, <1>2, <1>4, <2>1 DEF LockStep, LineInv, DriveInv, BetweenInv, StateInv, PointInv, CountInv
<1>5. CASE InCall /\ waiting = TRUE /\ cb1 = FALSE /\ cb2 = "strobe"
  <2>1. bbc = "block" /\ y = k - 1
    BY <1>1, <1>2, <1>5, LockFacts DEF StateInv, LoopInv, HeaderStates, BlockStates, Phases
  <2>2. state' = BlockStates[y + 2] /\ y < 5
    BY <1>2, <2>1 DEF HeaderStates, BlockStates
  <2>3. CountInv'
    BY <1>1, <1>2, <1>5, <2>1 DEF CountInv
  <2>4. QED
    BY <1>1, <1>2, <1>5, <2>1, <2>2, <2>3 DEF LockStep, LineInv, DriveInv, BetweenInv, StateInv, PointInv
<1>6. QED
  BY <1>3, <1>4, <1>5

LEMMA LockLength ==
  ASSUME LockInv, NEW b \in Byte, GetLengthLow(b) \/ GetLengthHigh(b), UNCHANGED bbcVars
  PROVE  LockStep'
<1> USE DEF InCall, HasAcked
<1>1. LineInv /\ DriveInv /\ BetweenInv /\ StateInv /\ PointInv /\ CountInv /\ LoopInv
  BY DEF LockInv, LockStep, TypeInv
<1>2. /\ avr = "poll" /\ cb2 # "high" /\ avr' = "ack" /\ b \in Lines
      /\ cb1' = TRUE /\ cb2' = (IF cb2 = "strobe" THEN "high" ELSE cb2)
      /\ UNCHANGED <<bbc, waiting, req, y, pages, got, ddrb, portb, ddrd, portd>>
  BY DEF GetLengthLow, GetLengthHigh, Poll, AckTo, AckEdge, bbcVars
<1>3. \/ bbc = "pulse" /\ ~waiting /\ cb2 = "held" /\ state \in Recoverable
      \/ InCall /\ waiting = TRUE /\ cb1 = FALSE /\ cb2 = "strobe"
  BY <1>2, Polled
<1>4. bbc = "block" /\ InCall /\ waiting = TRUE /\ cb1 = FALSE => b = OutByte
  BY <1>1, <1>2, LockFacts DEF DriveInv, Lines
<1>5. CASE GetLengthLow(b)
  <2>1. /\ state = "GET_LENGTH_LOW" /\ state' = "GET_LENGTH_HIGH" /\ resume' = "poll"
        /\ dataLength' = <<b, dataLength[2]>>
    BY <1>5 DEF GetLengthLow, Poll, AckTo
  <2>2. CASE bbc = "pulse" /\ ~waiting /\ cb2 = "held"
    BY <1>1, <1>2, <2>1, <2>2 DEF LockStep, LineInv, DriveInv, BetweenInv, StateInv, PointInv, CountInv
  <2>3. CASE InCall /\ waiting = TRUE /\ cb1 = FALSE /\ cb2 = "strobe"
    <3>1. bbc = "block" /\ y = 4
      BY <1>1, <2>1, <2>3, LockFacts DEF StateInv, LoopInv, BlockStates, Phases
    <3>2. dataLength'[1] = req.block[5]
      BY <1>4, <2>1, <2>3, <3>1 DEF OutByte
    <3>3. QED
      BY <1>1, <1>2, <2>1, <2>3, <3>1, <3>2 DEF LockStep, LineInv, DriveInv, BetweenInv, StateInv, PointInv,
                                                CountInv, BlockStates
  <2>4. QED
    BY <1>3, <2>2, <2>3
<1>6. CASE GetLengthHigh(b)
  <2>1. /\ state = "GET_LENGTH_HIGH" /\ resume' = "putHeader"
        /\ state' = IF dataLength' # Zero THEN "GET_DATA" ELSE "SEND_PREP"
        /\ dataLength' = <<dataLength[1], b>>
    BY <1>6 DEF GetLengthHigh, Poll, AckTo
  <2>2. InCall /\ waiting = TRUE /\ cb1 = FALSE /\ cb2 = "strobe"
    BY <1>3, <2>1 DEF Recoverable
  <2>3. bbc = "block" /\ y = 5
    BY <1>1, <2>1, <2>2, LockFacts DEF StateInv, LoopInv, BlockStates, Phases
  <2>4. dataLength'[1] = req.block[5] /\ dataLength'[2] = req.block[6]
    BY <1>1, <1>4, <2>1, <2>2, <2>3 DEF OutByte, CountInv
  <2>5. QED
    BY <1>1, <1>2, <2>1, <2>2, <2>3, <2>4 DEF LockStep, LineInv, DriveInv, BetweenInv, StateInv, PointInv,
                                              CountInv
<1>7. QED
  BY <1>5, <1>6

(* Steps that neither take nor give a byte, and leave the firmware's state *)
(* and counter alone.                                                      *)
LEMMA LockWaits ==
  ASSUME LockInv, PutHeader \/ HeaderTaken \/ SkipEmptyPacket, UNCHANGED bbcVars
  PROVE  LockStep'
<1> USE DEF InCall, HasAcked
<1>1. LineInv /\ DriveInv /\ BetweenInv /\ StateInv /\ PointInv /\ CountInv
  BY DEF LockInv, LockStep
<1>2. /\ UNCHANGED <<bbc, waiting, req, y, pages, got, resume, state, dataLength>>
      /\ UNCHANGED <<cb2, cb1, ddrb, portb, ddrd, portd>>
  BY DEF PutHeader, HeaderTaken, SkipEmptyPacket, bbcVars, avrVars, portVars
<1>3. \/ avr' = avr
      \/ avr \in {"putHeader", "waitIn"} /\ avr' \in {"waitIn", "poll"}
  BY DEF PutHeader, HeaderTaken, SkipEmptyPacket, avrVars
<1>4. OutByte' = OutByte
  BY <1>2 DEF OutByte, Offset
<1>5. LineInv' /\ DriveInv' /\ BetweenInv' /\ StateInv'
  BY <1>1, <1>2, <1>3, <1>4 DEF LineInv, DriveInv, BetweenInv, StateInv
<1>6. PointInv'
  BY <1>1, <1>2, <1>3 DEF PointInv
<1>7. CountInv'
  BY <1>1, <1>2, <1>3 DEF CountInv, Left
<1>8. QED
  BY <1>5, <1>6, <1>7 DEF LockStep

LEMMA LockData ==
  ASSUME LockInv, (\E b \in Byte : GetData(b)) \/ PutData, UNCHANGED bbcVars
  PROVE  LockStep'
<1> USE DEF InCall, HasAcked
<1>1. LineInv /\ DriveInv /\ BetweenInv /\ StateInv /\ PointInv /\ CountInv /\ CounterInv
  BY DEF LockInv, LockStep
<1>2. UNCHANGED <<bbc, waiting, req, y, pages, got, ddrb, portb, ddrd, portd>>
  BY DEF GetData, PutData, bbcVars, portVars
<1>3. OutByte' = OutByte
  BY <1>2 DEF OutByte, Offset
<1>4. CASE \E b \in Byte : GetData(b)
  <2>1. /\ avr = "poll" /\ cb2 # "high" /\ state = "GET_DATA" /\ avr' = "room"
        /\ dataLength' = Decrement(dataLength) /\ UNCHANGED <<cb1, cb2, state, resume>>
    BY <1>4 DEF GetData, Poll, portVars
  <2>2. InCall /\ waiting = TRUE /\ cb1 = FALSE
    BY <2>1, Polled DEF Recoverable
  <2>3. bbc = "body"
    BY <1>1, <2>1, <2>2, LockFacts DEF StateInv, BlockStates, LockInv, TypeInv, LoopInv, Phases
  <2>4. Word(dataLength'[1], dataLength'[2]) = Word(dataLength[1], dataLength[2]) - 1
    BY <1>1, <2>1, LockFacts, DecrementWord DEF CounterInv
  <2>5. Word(dataLength[1], dataLength[2]) = Left(req.block[5])
    <3>1. Word(dataLength[1], dataLength[2]) = Left(req.block[5]) - 0
      BY <1>1, <2>1, <2>2, <2>3 DEF CountInv
    <3>2. Left(req.block[5]) \in Int
      BY LockFacts, BaseAssumption DEF Left, Byte
    <3>3. QED
      BY <3>1, <3>2
  <2>6. CountInv'
    BY <1>2, <2>1, <2>3, <2>4, <2>5 DEF CountInv, Left
  <2>7. QED
    BY <1>1, <1>2, <1>3, <2>1, <2>2, <2>3, <2>6 DEF LockStep, LineInv, DriveInv, BetweenInv, StateInv, PointInv
<1>5. CASE PutData
  <2>1. /\ avr = "room" /\ avr' = "ack" /\ resume' = "poll"
        /\ state' = IF dataLength = Zero THEN "SEND_PREP" ELSE "GET_DATA"
        /\ cb1' = TRUE /\ cb2' = (IF cb2 = "strobe" THEN "high" ELSE cb2)
        /\ UNCHANGED dataLength
    BY <1>5 DEF PutData, AckTo, AckEdge
  <2>2. bbc = "body" /\ waiting = TRUE /\ cb1 = FALSE /\ cb2 = "strobe"
    BY <1>1, <2>1, LockFacts DEF BetweenInv, PointInv, LineInv
  <2>3. CountInv'
    BY <1>1, <1>2, <2>1, <2>2 DEF CountInv, Left
  <2>4. QED
    BY <1>1, <1>2, <2>1, <2>2, <2>3 DEF LockStep, LineInv, DriveInv, BetweenInv, StateInv, PointInv
<1>6. QED
  BY <1>4, <1>5

(* The turn-round, and the response's status.                              *)
LEMMA LockTurn ==
  ASSUME LockInv, SendPrep \/ Drive, UNCHANGED bbcVars
  PROVE  LockStep'
<1> USE DEF InCall, HasAcked
<1>1. LineInv /\ DriveInv /\ BetweenInv /\ StateInv /\ PointInv /\ CountInv
  BY DEF LockInv, LockStep
<1>2. UNCHANGED <<bbc, waiting, req, y, pages, got, dataLength, ddrb, portb, portd>>
  BY DEF SendPrep, Drive, bbcVars
<1>3. CASE SendPrep
  <2>1. /\ avr = "poll" /\ cb2 # "high" /\ state = "SEND_PREP"
        /\ avr' = "ack" /\ resume' = "drive" /\ state' = "SEND_RETCODE"
        /\ cb1' = TRUE /\ cb2' = (IF cb2 = "strobe" THEN "high" ELSE cb2) /\ UNCHANGED ddrd
    BY <1>3 DEF SendPrep, Poll, AckTo, AckEdge
  <2>2. InCall /\ waiting = TRUE /\ cb1 = FALSE /\ cb2 = "strobe"
    BY <2>1, Polled DEF Recoverable
  <2>3. bbc = "turn"
    BY <1>1, <2>1, <2>2, LockFacts DEF StateInv, BlockStates, LockInv, TypeInv, LoopInv, Phases
  <2>4. QED
    BY <1>1, <1>2, <2>1, <2>2, <2>3 DEF LockStep, LineInv, DriveInv, BetweenInv, StateInv, PointInv, CountInv
<1>4. CASE Drive
  <2>1. /\ avr = "drive" /\ avr' = "poll" /\ ddrd' = TRUE
        /\ UNCHANGED <<resume, state, cb2, cb1>>
    BY <1>4 DEF Drive
  <2>2. (bbc = "turn" /\ HasAcked) \/ (bbc = "status" /\ ~HasAcked)
    BY <1>1, <2>1, LockFacts DEF PointInv, BetweenInv
  <2>3. QED
    BY <1>1, <1>2, <2>1, <2>2 DEF LockStep, LineInv, DriveInv, BetweenInv, StateInv, PointInv, CountInv
<1>5. QED
  BY <1>3, <1>4

LEMMA LockRetcode ==
  ASSUME LockInv, SendRetcode \/ TakeRetcode \/ RecvLengthLow \/ RecvLengthHigh, UNCHANGED bbcVars
  PROVE  LockStep'
<1> USE DEF InCall, HasAcked
<1>1. LineInv /\ DriveInv /\ BetweenInv /\ StateInv /\ PointInv /\ CountInv
  BY DEF LockInv, LockStep
<1>2. UNCHANGED <<bbc, waiting, req, y, pages, got, ddrb, portb, ddrd>>
  BY DEF SendRetcode, TakeRetcode, RecvLengthLow, RecvLengthHigh, bbcVars, portVars
<1>3. CASE SendRetcode
  <2>1. /\ avr = "poll" /\ cb2 # "high" /\ state = "SEND_RETCODE" /\ avr' = "waitOut"
        /\ UNCHANGED <<resume, state, dataLength, cb2, cb1, portd>>
    BY <1>3 DEF SendRetcode, Poll, portVars
  <2>2. InCall /\ waiting = TRUE /\ cb1 = FALSE /\ cb2 = "strobe"
    BY <2>1, Polled DEF Recoverable
  <2>3. bbc = "status"
    BY <1>1, <2>1, <2>2, LockFacts DEF StateInv, BlockStates, LockInv, TypeInv, LoopInv, Phases
  <2>4. ddrd
    BY <1>1, <2>1, <2>2, <2>3 DEF DriveInv
  <2>5. QED
    BY <1>1, <1>2, <2>1, <2>2, <2>3, <2>4 DEF LockStep, LineInv, DriveInv, BetweenInv, StateInv, PointInv, CountInv
<1>4. CASE TakeRetcode
  <2>1. /\ avr = "waitOut" /\ avr' = "ack" /\ resume' = "recvLow" /\ state' = "SEND_LENGTH_LOW"
        /\ cb1' = TRUE /\ cb2' = (IF cb2 = "strobe" THEN "high" ELSE cb2) /\ UNCHANGED dataLength
    BY <1>4 DEF TakeRetcode, AckTo, AckEdge
  <2>2. bbc = "status" /\ waiting = TRUE /\ cb1 = FALSE /\ cb2 = "strobe"
    BY <1>1, <2>1, LockFacts DEF BetweenInv, PointInv, LineInv
  <2>3. ddrd
    BY <1>1, <2>1, <2>2 DEF DriveInv
  <2>4. QED
    BY <1>1, <1>2, <2>1, <2>2, <2>3 DEF LockStep, LineInv, DriveInv, BetweenInv, StateInv, PointInv, CountInv
<1>5. CASE RecvLengthLow \/ RecvLengthHigh
  <2>1. /\ avr \in {"recvLow", "recvHigh"} /\ avr' \in {"recvHigh", "poll"}
        /\ UNCHANGED <<resume, state, cb2, cb1, portd>>
    BY <1>5 DEF RecvLengthLow, RecvLengthHigh, portVars
  <2>2. (bbc = "status" /\ HasAcked) \/ (bbc = "lenlo" /\ ~HasAcked)
    BY <1>1, <2>1, LockFacts DEF PointInv, BetweenInv
  <2>3. QED
    BY <1>1, <1>2, <2>1, <2>2 DEF LockStep, LineInv, DriveInv, BetweenInv, StateInv, PointInv, CountInv
<1>6. QED
  BY <1>3, <1>4, <1>5

(* The response's length and data.                                         *)
LEMMA LockSendLength ==
  ASSUME LockInv, SendLengthLow \/ SendLengthHigh, UNCHANGED bbcVars
  PROVE  LockStep'
<1> USE DEF InCall, HasAcked
<1>1. LineInv /\ DriveInv /\ BetweenInv /\ StateInv /\ PointInv /\ CountInv
  BY DEF LockInv, LockStep
<1>2. /\ UNCHANGED <<bbc, waiting, req, y, pages, got, dataLength, ddrb, portb, ddrd>>
      /\ avr = "poll" /\ cb2 # "high" /\ avr' = "ack" /\ resume' = "poll"
      /\ cb1' = TRUE /\ cb2' = (IF cb2 = "strobe" THEN "high" ELSE cb2)
      /\ state \in {"SEND_LENGTH_LOW", "SEND_LENGTH_HIGH"}
  BY DEF SendLengthLow, SendLengthHigh, Poll, AckTo, AckEdge, bbcVars
<1>3. InCall /\ waiting = TRUE /\ cb1 = FALSE /\ cb2 = "strobe"
  BY <1>2, Polled, Zenon DEF Recoverable
<1>4. CASE SendLengthLow
  <2>1. state = "SEND_LENGTH_LOW" /\ state' = "SEND_LENGTH_HIGH" /\ portd' = dataLength[1]
    BY <1>4 DEF SendLengthLow, Poll, AckTo
  <2>2. bbc = "lenlo"
    BY <1>1, <2>1, <1>3, LockFacts DEF StateInv, BlockStates, LockInv, TypeInv, LoopInv, Phases
  <2>3. QED
    BY <1>1, <1>2, <1>3, <2>1, <2>2 DEF LockStep, LineInv, DriveInv, BetweenInv, StateInv, PointInv, CountInv
<1>5. CASE SendLengthHigh
  <2>1. /\ state = "SEND_LENGTH_HIGH" /\ portd' = dataLength[2]
        /\ state' = IF dataLength # Zero THEN "SEND_DATA" ELSE "FINISH"
    BY <1>5 DEF SendLengthHigh, Poll, AckTo
  <2>2. bbc = "lenhi"
    BY <1>1, <2>1, <1>3, LockFacts DEF StateInv, BlockStates, LockInv, TypeInv, LoopInv, Phases
  <2>3. QED
    BY <1>1, <1>2, <1>3, <2>1, <2>2 DEF LockStep, LineInv, DriveInv, BetweenInv, StateInv, PointInv, CountInv
<1>6. QED
  BY <1>4, <1>5

LEMMA LockSendData ==
  ASSUME LockInv, SendData \/ TakeData, UNCHANGED bbcVars
  PROVE  LockStep'
<1> USE DEF InCall, HasAcked
<1>1. LineInv /\ DriveInv /\ BetweenInv /\ StateInv /\ PointInv /\ CountInv /\ CounterInv
  BY DEF LockInv, LockStep
<1>2. UNCHANGED <<bbc, waiting, req, y, pages, got, ddrb, portb, ddrd>>
  BY DEF SendData, TakeData, bbcVars, portVars
<1>3. CASE SendData
  <2>1. /\ avr = "poll" /\ cb2 # "high" /\ state = "SEND_DATA" /\ avr' = "waitData"
        /\ UNCHANGED <<resume, state, dataLength, cb2, cb1, portd>>
    BY <1>3 DEF SendData, Poll, portVars
  <2>2. InCall /\ waiting = TRUE /\ cb1 = FALSE /\ cb2 = "strobe"
    BY <2>1, Polled DEF Recoverable
  <2>3. bbc = "data"
    BY <1>1, <2>1, <2>2, LockFacts DEF StateInv, BlockStates, LockInv, TypeInv, LoopInv, Phases
  <2>4. CountInv'
    BY <1>1, <1>2, <2>1, <2>2, <2>3 DEF CountInv, Left
  <2>5. QED
    BY <1>1, <1>2, <2>1, <2>2, <2>3, <2>4 DEF LockStep, LineInv, DriveInv, BetweenInv, StateInv, PointInv
<1>4. CASE TakeData
  <2>1. /\ avr = "waitData" /\ avr' = "ack" /\ resume' = "poll"
        /\ dataLength' = Decrement(dataLength)
        /\ state' = IF dataLength' = Zero THEN "FINISH" ELSE "SEND_DATA"
        /\ cb1' = TRUE /\ cb2' = (IF cb2 = "strobe" THEN "high" ELSE cb2)
    BY <1>4 DEF TakeData, AckTo, AckEdge
  <2>2. bbc = "data" /\ waiting = TRUE /\ cb1 = FALSE /\ cb2 = "strobe"
    BY <1>1, <2>1, LockFacts DEF BetweenInv, PointInv, LineInv
  <2>3. state = "SEND_DATA" /\ dataLength # Zero
    BY <1>1, <2>1 DEF CounterInv
  <2>4. Word(dataLength'[1], dataLength'[2]) = Word(dataLength[1], dataLength[2]) - 1
    BY <2>1, <2>3, LockFacts, DecrementWord
  <2>5. Word(dataLength[1], dataLength[2]) = Left(got.lo)
    <3>1. Word(dataLength[1], dataLength[2]) = Left(got.lo) - 0
      BY <1>1, <2>2 DEF CountInv
    <3>2. Left(got.lo) \in Int
      BY LockFacts, BaseAssumption DEF Left, Byte
    <3>3. QED
      BY <3>1, <3>2
  <2>6. CountInv'
    BY <1>2, <2>1, <2>2, <2>4, <2>5 DEF CountInv, Left
  <2>7. QED
    BY <1>1, <1>2, <2>1, <2>2, <2>6 DEF LockStep, LineInv, DriveInv, BetweenInv, StateInv, PointInv
<1>5. QED
  BY <1>3, <1>4

(* FINISH releases the lines in the pulse's own way back, or at the end of *)
(* a call.                                                                 *)
LEMMA LockFinish ==
  ASSUME LockInv, Finish, UNCHANGED bbcVars
  PROVE  LockStep'
<1> USE DEF InCall, HasAcked
<1>1. LineInv /\ DriveInv /\ BetweenInv /\ StateInv /\ PointInv /\ CountInv
  BY DEF LockInv, LockStep
<1>2. /\ UNCHANGED <<bbc, waiting, req, y, pages, got, dataLength, ddrb, portb, portd>>
      /\ avr = "poll" /\ cb2 # "high" /\ state = "FINISH" /\ avr' = "ack" /\ resume' = "poll"
      /\ state' = "GET_CHANNEL" /\ ddrd' = FALSE
      /\ cb1' = TRUE /\ cb2' = (IF cb2 = "strobe" THEN "high" ELSE cb2)
  BY DEF Finish, Poll, AckTo, AckEdge, bbcVars
<1>3. \/ bbc = "pulse" /\ ~waiting /\ cb2 = "held"
      \/ InCall /\ waiting = TRUE /\ cb1 = FALSE /\ cb2 = "strobe"
  BY <1>2, Polled
<1>4. bbc = "pulse" \/ bbc = "drop"
  BY <1>1, <1>2, <1>3, LockFacts DEF StateInv, BlockStates, LockInv, TypeInv, LoopInv, Phases
<1>5. QED
  BY <1>1, <1>2, <1>3, <1>4 DEF LockStep, LineInv, DriveInv, BetweenInv, StateInv, PointInv, CountInv, Recoverable

LEMMA LockBridge == LockInv /\ BridgeStep => LockStep'
<1> SUFFICES ASSUME LockInv, BridgeStep PROVE LockStep'
  OBVIOUS
<1>1. AvrStep /\ UNCHANGED bbcVars
  BY DEF BridgeStep
<1>2. QED
  BY <1>1, LockAckCheck, LockHeaderByte, LockLength, LockWaits, LockData, LockTurn, LockRetcode,
     LockSendLength, LockSendData, LockFinish DEF AvrStep

LEMMA LockInvInductive ==
  ASSUME Prompt, BreakAt \subseteq Recoverable
  PROVE  /\ Init => LockInv
         /\ LockInv /\ [Next]_vars => LockInv'
<1>1. Init => LockInv
  BY TypeInvInductive, CounterInit, LockInit DEF LockInv
<1>2. ASSUME LockInv, [Next]_vars
      PROVE  LockStep'
  <2>1. CASE BbcStep
    BY <1>2, <2>1, LockBbc
  <2>2. CASE BreakStep
    BY <1>2, <2>2, LockBreak
  <2>3. CASE BridgeStep
    BY <1>2, <2>3, LockBridge
  <2>4. CASE ServerStep \/ ServerStart \/ ServerTimeout \/ UNCHANGED vars
    <3>1. UNCHANGED <<portVars, bbcVars, avrVars>>
      BY <2>4 DEF ServerStep, ServerStart, ServerTimeout, vars
    <3>2. OutByte' = OutByte
      BY <3>1 DEF OutByte, Offset, bbcVars, portVars
    <3>3. QED
      BY <1>2, <3>1, <3>2 DEF LockInv, LockStep, LineInv, DriveInv, BetweenInv, StateInv, PointInv, CountInv,
                              InCall, HasAcked, Left, portVars, bbcVars, avrVars
  <2>5. QED
    BY <1>2, <2>1, <2>2, <2>3, <2>4 DEF Next
<1>3. LockInv /\ [Next]_vars => TypeInv' /\ CounterInv'
  BY TypeInvInductive, CounterStep DEF LockInv, TypeInv
<1>4. QED
  BY <1>1, <1>2, <1>3 DEF LockInv

(* When the AVR hears every pulse and Break comes only in a state a pulse  *)
(* recovers from, the BBC and the AVR never drive the data lines together: *)
(* send_msg stops driving before it tells the AVR to send, the AVR stops   *)
(* before it acknowledges "drop bus", and no reset catches it driving.     *)
THEOREM NoContentionSafe ==
  ASSUME Prompt, BreakAt \subseteq Recoverable
  PROVE  Spec => []NoContention
<1>1. LockInv => NoContention
  BY LockFacts DEF LockInv, LockStep, DriveInv, NoContention
<1>2. Init => LockInv
  BY LockInvInductive
<1>3. LockInv /\ [Next]_vars => LockInv'
  BY LockInvInductive
<1>4. QED
  BY <1>1, <1>2, <1>3, PTL DEF Spec

(* On the same terms the two sides stay in step: through the header, both  *)
(* page loops and both changes of direction, for transfers of every        *)
(* length, the firmware's state is the one for the byte the BBC strobes.   *)
THEOREM InStepSafe ==
  ASSUME Prompt, BreakAt \subseteq Recoverable
  PROVE  Spec => []InStep
<1>1. LockInv => InStep
  <2> SUFFICES ASSUME LockInv, avr = "poll", bbc \notin {"idle", "pulse"}, waiting => ~cb1
               PROVE  state = Serves
    BY DEF InStep
  <2>1. ~HasAcked
    BY DEF HasAcked
  <2>2. StateInv /\ LoopInv
    BY DEF LockInv, LockStep, TypeInv
  <2>3. bbc = "block" => y + 1 \in 1 .. 6
    BY <2>2, LockFacts DEF LoopInv
  <2>4. QED
    BY <2>1, <2>2, <2>3, LockFacts DEF StateInv, Serves, BlockStates, Phases
<1>2. Init => LockInv
  BY LockInvInductive
<1>3. LockInv /\ [Next]_vars => LockInv'
  BY LockInvInductive
<1>4. QED
  BY <1>1, <1>2, <1>3, PTL DEF Spec

=============================================================================
