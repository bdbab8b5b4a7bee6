----------------------------- MODULE MCScoreBook -----------------------------
(***************************************************************************)
(* Small instances of ScoreBook for TLC.                                   *)
(***************************************************************************)
EXTENDS ScoreBook

CONSTANTS ann, bob, q1, q2, q3, p1, p2

MCRoute == [q \in {q1, q2, q3} |->
              IF q = q1 THEN "double" ELSE IF q = q2 THEN "single" ELSE "rule"]
MCDouble == [q \in {q1} |-> "double"]
=============================================================================
