----------------------------- MODULE FencedTask -----------------------------
(***************************************************************************)
(* What the worker runtime promises about one durable task, with no clock, *)
(* no database and no transactions.  Holders of the task are numbered by a *)
(* fence; only the newest holder can settle the task, a settled task has   *)
(* exactly one verdict and stays settled, and a task can be put back to    *)
(* work only after it stopped without a verdict.                           *)
(***************************************************************************)
EXTENDS Integers

CONSTANT Results

VARIABLES
  phase,    \* where the task is in its life
  fence,    \* how many holders the task has had; the newest one's number
  verdicts  \* every verdict some caller was told is the task's verdict

vars == <<phase, fence, verdicts>>

Phases == {"absent", "open", "held", "settled", "stopped", "withdrawn"}

Init == phase = "absent" /\ fence = 0 /\ verdicts = {}

(* The task is entered into the ledger. *)
Submit ==
  /\ phase = "absent"
  /\ phase' = "open"
  /\ UNCHANGED <<fence, verdicts>>

(* A new holder takes the task, from the queue or from an older holder. *)
Grant ==
  /\ phase \in {"open", "held"}
  /\ phase' = "held"
  /\ fence' = fence + 1
  /\ UNCHANGED verdicts

(* The holder hands the task back for another try. *)
Release ==
  /\ phase = "held"
  /\ phase' = "open"
  /\ UNCHANGED <<fence, verdicts>>

(* The newest holder's verdict is taken. *)
Accept(r) ==
  /\ phase = "held"
  /\ phase' = "settled"
  /\ verdicts' = {[by |-> fence, result |-> r]}
  /\ UNCHANGED fence

(* A trusted verdict for a task nobody ever held. *)
Seed(r) ==
  /\ phase \in {"absent", "open"} /\ fence = 0
  /\ phase' = "settled"
  /\ verdicts' = {[by |-> 0, result |-> r]}
  /\ UNCHANGED fence

(* The task ends with no verdict; an operator may reopen it. *)
Stop ==
  /\ phase \in {"open", "held"}
  /\ phase' = "stopped"
  /\ UNCHANGED <<fence, verdicts>>

Reopen ==
  /\ phase = "stopped"
  /\ phase' = "open"
  /\ UNCHANGED <<fence, verdicts>>

(* The task is cancelled for good. *)
Withdraw ==
  /\ phase \in {"open", "held"}
  /\ phase' = "withdrawn"
  /\ UNCHANGED <<fence, verdicts>>

Next ==
  \/ Submit \/ Grant \/ Release \/ Stop \/ Reopen \/ Withdraw
  \/ \E r \in Results : Accept(r) \/ Seed(r)

Spec == Init /\ [][Next]_vars
=============================================================================
