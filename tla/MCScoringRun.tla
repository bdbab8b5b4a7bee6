---------------------------- MODULE MCScoringRun ----------------------------
(***************************************************************************)
(* Small instances of ScoringRun for TLC: two choice questions and, in the *)
(* larger one, a blank whose answer was recognised.                        *)
(***************************************************************************)
EXTENDS ScoringRun

CONSTANTS o1, o2, x1

MCChoices == {o1, o2}
MCBlanks == {x1}
=============================================================================
