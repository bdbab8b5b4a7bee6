------------------------------ MODULE MCOutbox ------------------------------
(***************************************************************************)
(* Small instances of Outbox for TLC.                                      *)
(***************************************************************************)
EXTENDS Outbox, TLC

CONSTANTS e1, e2, d1, d2

MCTwoEvents == {e1, e2}
MCTwoDispatchers == {d1, d2}
=============================================================================
