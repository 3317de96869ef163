----------------------------- MODULE FileStore -----------------------------
(***************************************************************************)
(* What the catalogue commands promise, without sectors: a set of named    *)
(* files, each with a body and a lock. A command touches the files it      *)
(* names and no other, never overwrites or removes a locked one, and       *)
(* compaction touches none. Only a file that is being written or moved     *)
(* when Break is pressed may be spoilt by it.                              *)
(***************************************************************************)
EXTENDS Naturals

CONSTANT Names

VARIABLES
  store,    \* a function from the names in use to [locked, body]
  writing,  \* the file whose data is yet to be written, as a set
  moving,   \* the file that is being moved, as a set
  breaks    \* how often Break has been pressed

vars == <<store, writing, moving, breaks>>

Init == DOMAIN store \subseteq Names /\ writing = {} /\ moving = {} /\ breaks = 0

Quiet == writing = {} /\ moving = {}

(* Every file but those of S is as it was.                                 *)
KeepAllBut(S) ==
  /\ DOMAIN store' \ S = DOMAIN store \ S
  /\ \A m \in DOMAIN store \ S : store'[m] = store[m]

(* A file of S may have a new body, but is still there with its lock.      *)
MaySpoil(S) ==
  /\ KeepAllBut(S)
  /\ DOMAIN store' = DOMAIN store
  /\ \A m \in S \cap DOMAIN store : store'[m].locked = store[m].locked

Create(n) ==
  /\ Quiet
  /\ n \in DOMAIN store => ~store[n].locked
  /\ KeepAllBut({n})
  /\ n \in DOMAIN store' /\ ~store'[n].locked
  /\ writing' = {n}
  /\ UNCHANGED <<moving, breaks>>

Finish ==
  /\ writing # {} /\ writing' = {}
  /\ MaySpoil(writing)
  /\ UNCHANGED <<moving, breaks>>

Remove(S) ==
  /\ Quiet
  /\ \A n \in S : n \in DOMAIN store /\ ~store[n].locked
  /\ KeepAllBut(S)
  /\ DOMAIN store' = DOMAIN store \ S
  /\ UNCHANGED <<writing, moving, breaks>>

Rename(a, b) ==
  /\ Quiet
  /\ a \in DOMAIN store /\ b \notin DOMAIN store
  /\ ~store[a].locked
  /\ KeepAllBut({a, b})
  /\ a \notin DOMAIN store' /\ b \in DOMAIN store'
  /\ store'[b] = store[a]
  /\ UNCHANGED <<writing, moving, breaks>>

(* The files of S that exist get this lock, and keep their bodies.         *)
SetLocks(S, lock) ==
  /\ Quiet
  /\ KeepAllBut(S)
  /\ DOMAIN store' = DOMAIN store
  /\ \A n \in S \cap DOMAIN store : store'[n] = [locked |-> lock, body |-> store[n].body]
  /\ UNCHANGED <<writing, moving, breaks>>

Lift(n) ==
  /\ Quiet
  /\ n \in DOMAIN store
  /\ moving' = {n}
  /\ UNCHANGED <<store, writing, breaks>>

Land ==
  /\ moving # {} /\ moving' = {}
  /\ UNCHANGED <<store, writing, breaks>>

Crash ==
  /\ breaks' = breaks + 1
  /\ writing' = {} /\ moving' = {}
  /\ MaySpoil(writing \cup moving)

Next ==
  \/ Finish \/ Land \/ Crash
  \/ \E n \in Names : Create(n) \/ Lift(n)
  \/ \E S \in SUBSET DOMAIN store : Remove(S)
  \/ \E a, b \in Names : Rename(a, b)
  \/ \E S \in SUBSET DOMAIN store, lock \in BOOLEAN : SetLocks(S, lock)

Spec == Init /\ [][Next]_vars
=============================================================================
