----------------------------- MODULE MCUdfsLink -----------------------------
(***************************************************************************)
(* Small instances of UdfsLink. Bytes have four values, so a page is four  *)
(* bytes long and a length of 8 is two whole pages; a USB packet holds     *)
(* eight bytes. Transfers of 0, 1, 4, 8 and 9 bytes are: nothing, less     *)
(* than a page, a page, a packet, and one more than a packet.              *)
(***************************************************************************)
EXTENDS UdfsLinkInv

CONSTANTS
  Lengths   \* lengths of the transfers in each direction

(* Bytes no two pages of which are alike. *)
Pattern(n) == [i \in 1 .. n |-> (i + i \div Base) % Base]

Request(cmd, p1, p2, body) ==
  [block |-> <<DEFAULT, cmd, p1, p2, LowOf(Len(body)), HighOf(Len(body))>>,
   body  |-> body]

CalcRequests == {Request(CALC, 3, 2, <<>>)}
ReadRequests == {Request(READ_BLOCK, 0, 0, <<1, 0, LowOf(n), HighOf(n)>>) : n \in Lengths}
FileRequests == {Request(RW_FILE, 0, 0, Pattern(n)) : n \in Lengths}
BadRequests == {Request(3, 0, 0, <<>>),
                [Request(CALC, 1, 1, <<>>) EXCEPT !.block[1] = 1]}

MCRequests == CalcRequests \cup ReadRequests \cup FileRequests \cup BadRequests

(* One request of each shape. *)
FewRequests == {Request(READ_BLOCK, 0, 0, <<1, 0, 1, 2>>), Request(RW_FILE, 0, 0, Pattern(1)),
                Request(3, 0, 0, <<>>)}

(* As FewRequests, with a division by zero. *)
RoughRequests == {Request(CALC, 3, 0, <<>>), Request(RW_FILE, 0, 0, Pattern(9))}

MCDiskImage == Pattern(16)
MCToBbc == Pattern(5)

(* The terms of the theorems about the bytes hold where the server runs    *)
(* first.                                                                  *)
ASSUME ServedAssumption == ServerFirst => NoTraps /\ NothingStale

AllStates == States
NoStates == {}

(* The turn-round, and the states in which the response is on its way.     *)
TurnRound == {"SEND_PREP"}
AnsweringStates == {"SEND_LENGTH_LOW", "SEND_LENGTH_HIGH", "SEND_DATA"}

=============================================================================
