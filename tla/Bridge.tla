------------------------------- MODULE Bridge -------------------------------
(***************************************************************************)
(* The AVR firmware (firmware/main.c): a loop that calls doMessaging and   *)
(* USB_USBTask. doMessaging returns at once unless CB2 is low; otherwise   *)
(* it runs the case of the current state. A case may wait for USB in a     *)
(* loop of its own, and ends (or continues) with ackByte. avr says where   *)
(* the processor is, state is the firmware's own state variable.           *)
(***************************************************************************)
EXTENDS UserPort, UsbPipes

VARIABLES
  avr,         \* program counter
  resume,      \* where ackByte returns to
  state,       \* the firmware's state variable
  hdr,         \* channel, command, param1, param2
  dataLength,  \* bytes still to move, as its two bytes <<low, high>>
  ch           \* the data byte GET_DATA has read from the lines

avrVars == <<avr, resume, state, hdr, dataLength, ch>>

States == {"GET_CHANNEL", "GET_COMMAND", "GET_PARAM1", "GET_PARAM2",
           "GET_LENGTH_LOW", "GET_LENGTH_HIGH", "GET_DATA", "SEND_PREP",
           "SEND_RETCODE", "SEND_LENGTH_LOW", "SEND_LENGTH_HIGH",
           "SEND_DATA", "FINISH"}

SendStates == {"SEND_PREP", "SEND_RETCODE", "SEND_LENGTH_LOW",
               "SEND_LENGTH_HIGH", "SEND_DATA", "FINISH"}

(* Where the code goes on after an acknowledgement.                        *)
Resumes == {"poll", "putHeader", "drive", "recvLow"}

AvrPoints == Resumes \cup {"ack", "spin", "waitIn", "room",
                           "waitOut", "recvHigh", "waitData"}

AvrTypeOK ==
  /\ avr \in AvrPoints
  /\ resume \in Resumes
  /\ state \in States
  /\ hdr \in [1 .. 4 -> Byte]
  /\ dataLength \in Byte \X Byte
  /\ ch \in Byte

AvrInit ==
  /\ avr = "poll"
  /\ resume = "poll"
  /\ state = "GET_CHANNEL"
  /\ hdr = [i \in 1 .. 4 |-> 0]
  /\ dataLength = <<0, 0>>
  /\ ch = 0

-----------------------------------------------------------------------------
Zero == <<0, 0>>

(* dataLength.word--, on sixteen bits.                                     *)
Decrement(w) ==
  IF w[1] > 0 THEN <<w[1] - 1, w[2]>>
  ELSE IF w[2] > 0 THEN <<Base - 1, w[2] - 1>>
  ELSE <<Base - 1, Base - 1>>

(* doMessaging enters the case of state s.                                 *)
Poll(s) ==
  /\ avr = "poll"
  /\ cb2 # "high"
  /\ state = s

(* ackByte up to its delay, called with the state variable at s; the rest  *)
(* of the case starts at r.                                                *)
AckTo(s, r) ==
  /\ AckEdge
  /\ state' = s
  /\ avr' = "ack"
  /\ resume' = r

-----------------------------------------------------------------------------
(* Slip: the reset does not bring the state machine back to its start. *)
AckCheckKeepsState ==
  /\ avr = "ack"
  /\ IF cb2 # "high"
       THEN avr' = "spin" /\ ddrd' = FALSE
       ELSE avr' = resume /\ UNCHANGED ddrd
  /\ UNCHANGED <<resume, state, hdr, dataLength, ch, cb2, cb1, ddrb, portb, portd, usbVars>>

(* Slip: the reset does not release the data lines. *)
AckCheckKeepsDriving ==
  /\ avr = "ack"
  /\ IF cb2 # "high"
       THEN avr' = "spin" /\ state' = "GET_CHANNEL"
       ELSE avr' = resume /\ UNCHANGED state
  /\ UNCHANGED <<resume, hdr, dataLength, ch, portVars, usbVars>>

(* ackByte after its delay: CB2 should be high again. When it is not, the  *)
(* BBC is resetting the link: go back to GET_CHANNEL, release the lines,   *)
(* and wait for the pulse to end. Either way the caller's case goes on.    *)
AckCheck ==
  /\ avr = "ack"
  /\ IF cb2 # "high"
       THEN /\ avr' = "spin"
            /\ state' = "GET_CHANNEL"
            /\ ddrd' = FALSE
       ELSE /\ avr' = resume
            /\ UNCHANGED <<state, ddrd>>
  /\ UNCHANGED <<resume, hdr, dataLength, ch, cb2, cb1, ddrb, portb, portd, usbVars>>

SpinEnds ==
  /\ avr = "spin"
  /\ cb2 = "high"
  /\ avr' = resume
  /\ UNCHANGED <<resume, state, hdr, dataLength, ch, portVars, usbVars>>

-----------------------------------------------------------------------------
HeaderStates == <<"GET_CHANNEL", "GET_COMMAND", "GET_PARAM1", "GET_PARAM2", "GET_LENGTH_LOW">>

(* The first four states store a byte each and move to the next state.     *)
GetHeaderByte(k, b) ==
  /\ Poll(HeaderStates[k])
  /\ b \in Lines
  /\ hdr' = [hdr EXCEPT ![k] = b]
  /\ AckTo(HeaderStates[k + 1], "poll")
  /\ UNCHANGED <<dataLength, ch, ddrb, portb, ddrd, portd, usbVars>>

GetLengthLow(b) ==
  /\ Poll("GET_LENGTH_LOW")
  /\ b \in Lines
  /\ dataLength' = <<b, dataLength[2]>>
  /\ AckTo("GET_LENGTH_HIGH", "poll")
  /\ UNCHANGED <<hdr, ch, ddrb, portb, ddrd, portd, usbVars>>

(* Slip: data is expected even when the length is zero. *)
GetLengthHighNoTest(b) ==
  /\ Poll("GET_LENGTH_HIGH")
  /\ b \in Lines
  /\ dataLength' = <<dataLength[1], b>>
  /\ AckTo("GET_DATA", "putHeader")
  /\ UNCHANGED <<hdr, ch, ddrb, portb, ddrd, portd, usbVars>>

GetLengthHigh(b) ==
  /\ Poll("GET_LENGTH_HIGH")
  /\ b \in Lines
  /\ dataLength' = <<dataLength[1], b>>
  /\ AckTo(IF dataLength' # Zero THEN "GET_DATA" ELSE "SEND_PREP", "putHeader")
  /\ UNCHANGED <<hdr, ch, ddrb, portb, ddrd, portd, usbVars>>

(* The rest of GET_LENGTH_HIGH: when the IN bank is free, put the six      *)
(* header bytes and flush; if data follows, wait for the bank again.       *)
PutHeader ==
  /\ avr = "putHeader"
  /\ ~inFull
  /\ inBank' = Put(inBank, hdr \o dataLength)
  /\ inFull' = TRUE
  /\ avr' = IF dataLength # Zero THEN "waitIn" ELSE "poll"
  /\ UNCHANGED <<resume, state, hdr, dataLength, ch, portVars, outBank, outReady>>

HeaderTaken ==
  /\ avr = "waitIn"
  /\ ~inFull
  /\ avr' = "poll"
  /\ UNCHANGED <<resume, state, hdr, dataLength, ch, portVars, usbVars>>

(* GET_DATA reads the byte, counts it, and flushes a bank without room.    *)
GetData(b) ==
  /\ Poll("GET_DATA")
  /\ b \in Lines
  /\ ch' = b
  /\ dataLength' = Decrement(dataLength)
  /\ inFull' = (inFull \/ Len(inBank) = EpSize)
  /\ avr' = "room"
  /\ UNCHANGED <<resume, state, hdr, portVars, inBank, outBank, outReady>>

(* Slip: the last packet of the body is not flushed. *)
PutDataNoFlush ==
  /\ avr = "room"
  /\ ~inFull
  /\ inBank' = Put(inBank, <<ch>>)
  /\ AckTo(IF dataLength = Zero THEN "SEND_PREP" ELSE "GET_DATA", "poll")
  /\ UNCHANGED <<hdr, dataLength, ch, ddrb, portb, ddrd, portd, inFull, outBank, outReady>>

(* ...and once there is room puts it, flushing the last one.               *)
PutData ==
  /\ avr = "room"
  /\ ~inFull
  /\ inBank' = Put(inBank, <<ch>>)
  /\ inFull' = (dataLength = Zero)
  /\ AckTo(IF dataLength = Zero THEN "SEND_PREP" ELSE "GET_DATA", "poll")
  /\ UNCHANGED <<hdr, dataLength, ch, ddrb, portb, ddrd, portd, outBank, outReady>>

-----------------------------------------------------------------------------
SendPrep ==
  /\ Poll("SEND_PREP")
  /\ AckTo("SEND_RETCODE", "drive")
  /\ UNCHANGED <<hdr, dataLength, ch, ddrb, portb, ddrd, portd, usbVars>>

(* The rest of SEND_PREP: DDRD = 0xFF.                                     *)
Drive ==
  /\ avr = "drive"
  /\ ddrd' = TRUE
  /\ avr' = "poll"
  /\ UNCHANGED <<resume, state, hdr, dataLength, ch, cb2, cb1, ddrb, portb, portd, usbVars>>

(* SEND_RETCODE waits for a packet from the host.                          *)
SendRetcode ==
  /\ Poll("SEND_RETCODE")
  /\ avr' = "waitOut"
  /\ UNCHANGED <<resume, state, hdr, dataLength, ch, portVars, usbVars>>

(* usbRecvByte on a packet with no bytes left: acknowledge it and wait.    *)
SkipEmptyPacket ==
  /\ avr \in {"waitOut", "recvLow", "recvHigh", "waitData"}
  /\ outReady /\ outBank = <<>>
  /\ AckPacket
  /\ UNCHANGED <<avrVars, portVars>>

TakeRetcode ==
  /\ avr = "waitOut"
  /\ TakeOut
  /\ portd' = Head(outBank)
  /\ AckTo("SEND_LENGTH_LOW", "recvLow")
  /\ UNCHANGED <<hdr, dataLength, ch, ddrb, portb, ddrd>>

(* The rest of SEND_RETCODE: the two length bytes, after the ack.          *)
RecvLengthLow ==
  /\ avr = "recvLow"
  /\ TakeOut
  /\ dataLength' = <<Head(outBank), dataLength[2]>>
  /\ avr' = "recvHigh"
  /\ UNCHANGED <<resume, state, hdr, ch, portVars>>

RecvLengthHigh ==
  /\ avr = "recvHigh"
  /\ TakeOut
  /\ dataLength' = <<dataLength[1], Head(outBank)>>
  /\ avr' = "poll"
  /\ UNCHANGED <<resume, state, hdr, ch, portVars>>

(* Slip: the length is sent high byte first. *)
SendLengthLowSwapped ==
  /\ Poll("SEND_LENGTH_LOW")
  /\ portd' = dataLength[2]
  /\ AckTo("SEND_LENGTH_HIGH", "poll")
  /\ UNCHANGED <<hdr, dataLength, ch, ddrb, portb, ddrd, usbVars>>

SendLengthLow ==
  /\ Poll("SEND_LENGTH_LOW")
  /\ portd' = dataLength[1]
  /\ AckTo("SEND_LENGTH_HIGH", "poll")
  /\ UNCHANGED <<hdr, dataLength, ch, ddrb, portb, ddrd, usbVars>>

(* Slip: data is sent even when the length is zero. *)
SendLengthHighNoTest ==
  /\ Poll("SEND_LENGTH_HIGH")
  /\ portd' = dataLength[2]
  /\ AckTo("SEND_DATA", "poll")
  /\ UNCHANGED <<hdr, dataLength, ch, ddrb, portb, ddrd, usbVars>>

SendLengthHigh ==
  /\ Poll("SEND_LENGTH_HIGH")
  /\ portd' = dataLength[2]
  /\ AckTo(IF dataLength # Zero THEN "SEND_DATA" ELSE "FINISH", "poll")
  /\ UNCHANGED <<hdr, dataLength, ch, ddrb, portb, ddrd, usbVars>>

(* SEND_DATA: usbRecvByte may have to wait for the next packet.            *)
SendData ==
  /\ Poll("SEND_DATA")
  /\ avr' = "waitData"
  /\ UNCHANGED <<resume, state, hdr, dataLength, ch, portVars, usbVars>>

TakeData ==
  /\ avr = "waitData"
  /\ TakeOut
  /\ portd' = Head(outBank)
  /\ dataLength' = Decrement(dataLength)
  /\ AckTo(IF dataLength' = Zero THEN "FINISH" ELSE "SEND_DATA", "poll")
  /\ UNCHANGED <<hdr, ch, ddrb, portb, ddrd>>

Finish ==
  /\ Poll("FINISH")
  /\ AckPacket
  /\ ddrd' = FALSE
  /\ AckTo("GET_CHANNEL", "poll")
  /\ UNCHANGED <<hdr, dataLength, ch, ddrb, portb, portd>>

-----------------------------------------------------------------------------
(* The AVR waits for the host and polls neither CB2 nor the control        *)
(* endpoint.                                                               *)
Blocked ==
  \/ avr \in {"putHeader", "waitIn", "room"} /\ inFull
  \/ avr \in {"waitOut", "recvLow", "recvHigh", "waitData"} /\ ~OutByteThere

AvrStep ==
  \/ AckCheck
  \/ SpinEnds
  \/ \E k \in 1 .. 4, b \in Byte : GetHeaderByte(k, b)
  \/ \E b \in Byte : GetLengthLow(b) \/ GetLengthHigh(b) \/ GetData(b)
  \/ PutHeader
  \/ HeaderTaken
  \/ PutData
  \/ SendPrep
  \/ Drive
  \/ SendRetcode
  \/ SkipEmptyPacket
  \/ TakeRetcode
  \/ RecvLengthLow
  \/ RecvLengthHigh
  \/ SendLengthLow
  \/ SendLengthHigh
  \/ SendData
  \/ TakeData
  \/ Finish

=============================================================================
