--------------------------- MODULE MCCommandGate ---------------------------
(***************************************************************************)
(* A small instance of CommandGate for TLC: two requests that carry one    *)
(* key, for a command of a READ COMMITTED route or for another of a route  *)
(* that reads a snapshot.                                                  *)
(***************************************************************************)
EXTENDS CommandGate, TLC

CONSTANTS q1, q2, submit, export, p1, p3

MCTwoRequests == {q1, q2}
MCPayloads == {p1, p3}
MCTwoRoutes == {submit, export}
MCExportRoute == {export}
MCRoutes == (p1 :> submit) @@ (p3 :> export)
=============================================================================
