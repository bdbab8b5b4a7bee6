------------------------------ MODULE MCRegrade ------------------------------
(***************************************************************************)
(* Small instances of Regrade for TLC.                                     *)
(***************************************************************************)
EXTENDS Regrade

CONSTANTS ann, bob, j1

MCFirstBook == [p \in {ann, bob} |-> 0]
=============================================================================
