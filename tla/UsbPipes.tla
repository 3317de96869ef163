------------------------------ MODULE UsbPipes ------------------------------
(***************************************************************************)
(* The two bulk endpoints between the AVR and the host, one bank of EpSize *)
(* bytes each. A bank belongs to one side at a time: the AVR fills the IN  *)
(* bank until it flushes it, then the host takes it; the host fills the    *)
(* OUT bank, then the AVR empties it and acknowledges it.                  *)
(***************************************************************************)
EXTENDS Bytes

CONSTANT
  EpSize  \* bytes in a bank (64 in the hardware)

ASSUME EpSizeAssumption == EpSize \in Nat /\ EpSize >= 6

VARIABLES
  inBank,    \* bytes the AVR has put and the host has not taken
  inFull,    \* the IN bank has been handed to the host (TXINI clear)
  outBank,   \* bytes the host has sent and the AVR has not read
  outReady   \* the OUT bank holds an unacknowledged packet (RXOUTI set)

usbVars == <<inBank, inFull, outBank, outReady>>

UsbInit ==
  /\ inBank = <<>>
  /\ inFull = FALSE
  /\ outBank = <<>>
  /\ outReady = FALSE

(* Slip: the bank is taken to be unbounded. *)
PutUnbounded(bank, bytes) == bank \o bytes

(* UEDATX ignores a write to a full bank. *)
Put(bank, bytes) == SubSeq(bank \o bytes, 1, IF Len(bank) + Len(bytes) > EpSize
                                               THEN EpSize
                                               ELSE Len(bank) + Len(bytes))

(* A byte can be read from the OUT bank at once. *)
OutByteThere == outReady /\ outBank # <<>>

(* The next OUT byte is read. *)
TakeOut ==
  /\ OutByteThere
  /\ outBank' = Tail(outBank)
  /\ UNCHANGED <<inBank, inFull, outReady>>

(* usbAckPacket: the OUT bank is given back to the host, read or not. *)
AckPacket ==
  /\ outBank' = <<>>
  /\ outReady' = FALSE
  /\ UNCHANGED <<inBank, inFull>>

(* A SET_CONFIGURATION request configures both endpoints anew, which       *)
(* empties their banks.                                                    *)
ConfigureEndpoints ==
  /\ inBank' = <<>>
  /\ inFull' = FALSE
  /\ outBank' = <<>>
  /\ outReady' = FALSE

=============================================================================
