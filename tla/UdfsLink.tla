------------------------------ MODULE UdfsLink ------------------------------
(***************************************************************************)
(* The whole link: a BBC in send_msg, the AVR bridge, and the server, over *)
(* the user port and the two USB endpoints. The three processors run       *)
(* concurrently; the Break key can reset the BBC.                          *)
(***************************************************************************)
EXTENDS SendMsg, Bridge, Server

CONSTANTS
  Prompt,   \* the AVR's loop comes round within the reset pulse
  BreakAt,  \* the firmware states in which Break may be pressed
  MaxBreaks \* bound on how often it is

ASSUME PromptAssumption == Prompt \in BOOLEAN
ASSUME BreakAssumption == BreakAt \subseteq States /\ MaxBreaks \in Nat

VARIABLES
  served,  \* history: the server has executed the current call
  answer,  \* history: the last response the server computed
  breaks   \* history: how often Break has been pressed

ghosts == <<served, answer, breaks>>
vars == <<portVars, bbcVars, avrVars, usbVars, hostVars, ghosts>>

Init ==
  /\ PortInit
  /\ BbcInit
  /\ AvrInit
  /\ UsbInit
  /\ HostInit
  /\ served = FALSE
  /\ answer = NoReply
  /\ breaks = 0

-----------------------------------------------------------------------------
(* The pulse lasts eight nops. With a prompt AVR it cannot end before the  *)
(* AVR has tested CB2 and is spinning on it, unless the AVR is in one of   *)
(* its waits for USB, where it tests nothing.                              *)
PulseMayEnd == Prompt => avr = "spin" \/ Blocked

(* The AVR's delay between the edge and its look at CB2 (4us, interrupts   *)
(* off), and its leaving the spin once the pulse is over, take less than   *)
(* the BBC needs before it writes drb again: it has yet to read ifr and    *)
(* return from send_byte, or to set pcr, ddrb and Y and fetch a byte.      *)
StrobeMayFollow == avr \notin {"ack", "spin"}

(* The BBC and the AVR are in the half of a call that collects.            *)
Collecting == bbc # "idle" /\ state \in SendStates

BbcCall ==
  /\ \E r \in Requests : Start(r)
  /\ served' = FALSE
  /\ UNCHANGED <<answer, breaks>>

BbcSend ==
  /\ \/ PulseMayEnd /\ EndPulse
     \/ StrobeMayFollow /\ Strobe
     \/ BlockAcked \/ BodyAcked \/ TurnAcked \/ DropAcked
     \/ \E b \in Byte :
          StatusAcked(b) \/ LenLowAcked(b) \/ LenHighAcked(b) \/ DataAcked(b)
  /\ UNCHANGED ghosts

BbcStep == (BbcCall \/ BbcSend) /\ UNCHANGED <<avrVars, usbVars, hostVars>>

BreakStep ==
  /\ state \in BreakAt
  /\ breaks < MaxBreaks
  /\ Break
  /\ breaks' = breaks + 1
  /\ UNCHANGED <<avrVars, usbVars, hostVars, served, answer>>

BridgeStep == AvrStep /\ UNCHANGED <<bbcVars, hostVars, ghosts>>

ServerStep ==
  /\ HostStep
  /\ IF host' = "respHeader"
       THEN served' = TRUE /\ answer' = rsp' /\ UNCHANGED breaks
       ELSE UNCHANGED ghosts
  /\ UNCHANGED <<portVars, bbcVars, avrVars>>

ServerStart ==
  /\ Open(avr = "poll") \/ OpenFails(Blocked)
  /\ UNCHANGED <<portVars, bbcVars, avrVars, ghosts>>

ServerTimeout ==
  /\ WriteTimeout(Collecting)
  /\ UNCHANGED <<portVars, bbcVars, avrVars, ghosts>>

Next ==
  \/ BbcStep
  \/ BreakStep
  \/ BridgeStep
  \/ ServerStep
  \/ ServerStart
  \/ ServerTimeout

Spec == Init /\ [][Next]_vars

(* Each processor keeps executing: send_msg and doMessaging are loops that *)
(* only wait for each other and for USB, and the server blocks in libusb.  *)
(* Nobody has to make a call, press Break, or start the server.            *)
Fairness ==
  /\ WF_vars(BbcSend /\ UNCHANGED <<avrVars, usbVars, hostVars>>)
  /\ WF_vars(BridgeStep)
  /\ WF_vars(ServerStep)

FairSpec == Spec /\ Fairness

-----------------------------------------------------------------------------
(* Every variable has its type: bytes are bytes, the banks hold no more    *)
(* than a packet, and the state variables are in their enumerations.       *)
TypeOK ==
  /\ PortTypeOK
  /\ BbcTypeOK
  /\ AvrTypeOK
  /\ inBank \in Seq(Byte) /\ Len(inBank) <= EpSize
  /\ outBank \in Seq(Byte) /\ Len(outBank) <= EpSize
  /\ inFull \in BOOLEAN /\ outReady \in BOOLEAN
  /\ host \in HostPoints
  /\ hreq \in Block
  /\ hbody \in Seq(Byte)
  /\ rsp \in Reply
  /\ fromBbc \in Seq(Byte)
  /\ served \in BOOLEAN
  /\ answer \in Reply
  /\ breaks \in Nat

(* The BBC and the AVR never drive the data lines at the same time (the    *)
(* turn-round in SEND_PREP and FINISH against ddrb in send_msg).           *)
NoContention == ~(ddrb /\ ddrd)

(* The AVR's byte counter is never decremented from zero, which would make *)
(* it move 65536 bytes (dataLength.word-- in GET_DATA and SEND_DATA).      *)
CounterNeverWraps ==
  /\ state = "GET_DATA" /\ avr \in {"poll", "waitIn", "putHeader"} => dataLength # Zero
  /\ state = "SEND_DATA" /\ avr \in {"poll", "waitData"} => dataLength # Zero

(* When the server is about to execute a request it has exactly the header *)
(* and the body of the call the BBC is waiting in, through both endpoints' *)
(* packets and both page loops.                                            *)
RequestIntact == host = "execute" => /\ bbc # "idle"
                                     /\ hreq = req.block
                                     /\ hbody = req.body

(* The firmware state that serves send_msg's next byte.                    *)
Serves ==
  CASE bbc = "block"  -> <<"GET_CHANNEL", "GET_COMMAND", "GET_PARAM1", "GET_PARAM2",
                           "GET_LENGTH_LOW", "GET_LENGTH_HIGH">>[y + 1]
    [] bbc = "body"   -> "GET_DATA"
    [] bbc = "turn"   -> "SEND_PREP"
    [] bbc = "status" -> "SEND_RETCODE"
    [] bbc = "lenlo"  -> "SEND_LENGTH_LOW"
    [] bbc = "lenhi"  -> "SEND_LENGTH_HIGH"
    [] bbc = "data"   -> "SEND_DATA"
    [] bbc = "drop"   -> "FINISH"

(* When the AVR polls and the BBC's byte is not acknowledged yet, the      *)
(* firmware's state is the one for that byte: neither side ever takes the  *)
(* other's byte for another one, through every count and turn of a call.   *)
InStep ==
  avr = "poll" /\ bbc \notin {"idle", "pulse"} /\ (waiting => ~cb1) => state = Serves

(* The server never ends because of what the link did: no overflow, no     *)
(* write that times out.                                                   *)
ServerSurvives == host # "dead"

(* What a call returns is the server's response to the request the caller  *)
(* made (firmware/README: a command is forwarded to the host, and the      *)
(* response to it is forwarded to the BBC).                                *)
ResponseIsToThisRequest ==
  bbc = "drop" => got = ExecuteRequest(req.block, req.body, 0)

(* Every call returns, if Break is not pressed for ever.                   *)
CallsReturn == (bbc # "idle") ~> (bbc = "idle")

(* The link implements remote calls: one answer per call, to the request   *)
(* that was made, returned unchanged, whatever Break abandons.             *)
Answer(block, body) == ExecuteRequest(block, body, 0)

Calls == INSTANCE Rpc WITH
  phase  <- IF bbc = "idle" THEN "idle" ELSE IF served THEN "answered" ELSE "called",
  result <- IF bbc = "idle" THEN got ELSE NoReply

ImplementsRpc == Calls!Spec

=============================================================================
