----------------------------- MODULE MCCatalogue ----------------------------
(***************************************************************************)
(* Bounds for model-checking Catalogue.                                    *)
(***************************************************************************)
EXTENDS CatalogueProps

MCFormatted == {<<>>}

(* Two files that touch, the lower one after the catalogue.                 *)
MCTwoFiles ==
  {<< [name |-> p[1], start |-> 3, len |-> 1, locked |-> FALSE],
      [name |-> p[2], start |-> 2, len |-> 1, locked |-> FALSE] >> :
     p \in {q \in Names \X Names : q[1] # q[2]}}

(* For the runs without liveness properties: names and contents are only    *)
(* compared for equality.                                                   *)
MCSymmetry == Permutations(Names) \cup Permutations(Contents)

MCImages == MCFormatted \cup MCTwoFiles
=============================================================================
