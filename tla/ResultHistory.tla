---------------------------- MODULE ResultHistory ----------------------------
(***************************************************************************)
(* What a student may rely on once results are public: a history of result *)
(* sheets that only grows, each of which replaces the one shown before it. *)
(***************************************************************************)
EXTENDS Naturals

CONSTANTS
  Ids,    \* names of public sheets, 0 is none of them
  Sheets  \* result sheets of an exam

VARIABLES
  history,  \* the public sheets: id -> [sheet, replaces]
  shown     \* id of the sheet students see, 0 before the first

historyVars == <<history, shown>>

Init == history = <<>> /\ shown = 0

Publish(id, sheet) ==
  /\ id \notin DOMAIN history
  /\ history' = [i \in DOMAIN history \cup {id} |->
                   IF i = id THEN [sheet |-> sheet, replaces |-> shown] ELSE history[i]]
  /\ shown' = id

Next == \E id \in Ids, sheet \in Sheets : Publish(id, sheet)

Spec == Init /\ [][Next]_historyVars
=============================================================================
