----------------------------- MODULE MCOpenFiles ----------------------------
(***************************************************************************)
(* Bounds for model-checking OpenFiles.                                    *)
(***************************************************************************)
EXTENDS OpenFiles, TLC

(* A file of a sector and a byte, or a locked one of a sector, so that PTR# *)
(* may be set beyond the end of either.                                     *)
MCImages ==
  {<<[name |-> n, start |-> 2, len |-> SectorSize + 1, locked |-> FALSE]>> : n \in Names}
  \cup {<<[name |-> n, start |-> 2, len |-> SectorSize, locked |-> TRUE]>> : n \in Names}

MCSymmetry == Permutations(Channels) \cup Permutations(Names)

(* States are told apart by what a program can read in them and by the open *)
(* channels' buffers; not by the result of the call, nor by what is left    *)
(* behind the end of a file and in free sectors. No guard looks at a byte.  *)
MCView ==
  <<files, chan, job, Content, [c \in Opened |-> buf[c]]>>
=============================================================================
