---------------------------- MODULE MCDoubleMark ----------------------------
(***************************************************************************)
(* Small instances of DoubleMark for TLC.                                  *)
(***************************************************************************)
EXTENDS DoubleMark

CONSTANTS ann, bob, cy

MCThreePeople == {ann, bob, cy}

Rule(on, t, how, same) == [enabled |-> on, threshold |-> t, strategy |-> how, allowSame |-> same]

(* With marks 0 and 3, a threshold of 0 tells them apart, one of 3 may or  *)
(* may not.                                                                *)
MCPolicies ==
  {Rule(TRUE, 3, "average", FALSE), Rule(TRUE, 3, "first", TRUE), Rule(TRUE, 0, "lower", TRUE)}
=============================================================================
