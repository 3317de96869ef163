-------------------------------- MODULE Rpc ---------------------------------
(***************************************************************************)
(* What the link promises: a call is answered once, by the answer to the   *)
(* request the caller made, and returns that answer. A caller may abandon  *)
(* its call (Break); nothing of an abandoned call reaches a later one.     *)
(***************************************************************************)
CONSTANTS
  Requests,      \* what can be asked
  Answer(_, _),  \* what the host replies to a block and a body
  NoReply        \* the result of a call that has not returned

VARIABLES
  phase,   \* "idle", "called" or "answered"
  req,     \* the last request
  answer,  \* the host's last answer
  result   \* what the last call returned

vars == <<phase, req, answer, result>>

Init ==
  /\ phase = "idle"
  /\ req \in Requests
  /\ answer = NoReply
  /\ result = NoReply

Call(r) ==
  /\ phase = "idle"
  /\ phase' = "called"
  /\ req' = r
  /\ result' = NoReply
  /\ UNCHANGED answer

Reply ==
  /\ phase = "called"
  /\ phase' = "answered"
  /\ answer' = Answer(req.block, req.body)
  /\ UNCHANGED <<req, result>>

Return ==
  /\ phase = "answered"
  /\ phase' = "idle"
  /\ result' = answer
  /\ UNCHANGED <<req, answer>>

Abandon ==
  /\ phase # "idle"
  /\ phase' = "idle"
  /\ result' = NoReply
  /\ UNCHANGED <<req, answer>>

Next == (\E r \in Requests : Call(r)) \/ Reply \/ Return \/ Abandon

Spec == Init /\ [][Next]_vars

=============================================================================
