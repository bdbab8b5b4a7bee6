----------------------------- MODULE DoubleMark -----------------------------
(***************************************************************************)
(* Double marking of one answer (internal/review, PostgreSQL store): two   *)
(* graders mark it independently; whoever commits second compares the two  *)
(* marks and settles the final grade, or calls for an arbitrator.  An      *)
(* answer may be given to a new pair of graders after both marks of the    *)
(* last pair are in.                                                       *)
(*                                                                         *)
(* SubmitGrade is the one transaction that meets others half-way.  It      *)
(* locks its review task, inserts the mark, waits for the lock of the      *)
(* session, and decides on the marks it then sees; at READ COMMITTED those *)
(* are its own and the committed ones.  It is three steps here, the        *)
(* others, which lock what they touch from the start, are one.             *)
(*                                                                         *)
(* Requests carry the revision their sender saw; one that carries an old   *)
(* revision is refused and changes nothing, so revisions are left out.     *)
(* Scores are in hundredths, as the NUMERIC(8,2) columns keep them; the    *)
(* code calculates with float64, which holds few hundredths exactly.       *)
(***************************************************************************)
EXTENDS Integers, Sequences

CONSTANTS
  People,     \* users who may be given marking or arbitration
  NoOne,
  Scores,     \* marks the rubric allows, between 0 and the full score
  Policies,   \* double_mark_policy rows a manager may put in force
  NoMark,
  MaxSessions \* bound: the pairs of graders an answer may be given to

Strategies == {"average", "first", "second", "higher", "lower"}
Policy == [enabled : BOOLEAN, threshold : Nat, strategy : Strategies, allowSame : BOOLEAN]
Marks == [by : People, score : Scores]

ASSUME ConstantsOK ==
  /\ NoOne \notin People
  /\ Scores \subseteq Nat
  /\ Policies \subseteq Policy /\ Policies # {}
  /\ MaxSessions \in Nat
  /\ NoMark \notin Marks

Sessions == 1..MaxSessions
Tasks == Sessions \X {1, 2}
Other(t) == <<t[1], 3 - t[2]>>

VARIABLES
  policy,    \* double_mark_policy in force
  stage,     \* double_mark_session.status, "absent" when there is no row
  named,     \*   first_reviewer_id, second_reviewer_id
  limit,     \*   threshold
  strategy,  \*   resolution_strategy
  work,      \* review_task.status of each session's two tasks
  worker,    \*   assigned_to
  mark,      \* human_grade of the task
  arbStatus, \* arbitration_task.status
  arbiter,   \*   assigned_to
  arbSame,   \*   allow_same_arbitrator
  arbScore,  \*   final_score
  finals,    \* final_grade rows, in the order of their commits
  txPhase,   \* per task, where the SubmitGrade transaction on it is
  draft,     \*   the score it carries
  saw        \*   the mark of the other task that it read

policyVars == <<named, limit, strategy>>
arbVars == <<arbStatus, arbiter, arbSame, arbScore>>
txVars == <<txPhase, draft, saw>>
vars == <<policy, stage, policyVars, work, worker, mark, arbVars, finals, txVars>>

OpenOrSubmitted == {"assigned", "returned", "submitted"}  \* faulty Open
Open   == {"assigned", "returned"}
Closed == {"auto_finalized", "arbitrated"}
Stages == {"absent", "pending", "first_submitted", "second_submitted", "needs_arbitration"} \cup Closed

Init ==
  /\ policy \in Policies
  /\ stage    = [s \in Sessions |-> "absent"]
  /\ named    = [t \in Tasks |-> NoOne]
  /\ limit    = [s \in Sessions |-> 0]
  /\ strategy = [s \in Sessions |-> "average"]
  /\ work     = [t \in Tasks |-> "absent"]
  /\ worker   = [t \in Tasks |-> NoOne]
  /\ mark     = [t \in Tasks |-> NoMark]
  /\ arbStatus = [s \in Sessions |-> "absent"]
  /\ arbiter  = [s \in Sessions |-> NoOne]
  /\ arbSame  = [s \in Sessions |-> FALSE]
  /\ arbScore = [s \in Sessions |-> 0]
  /\ finals   = <<>>
  /\ txPhase  = [t \in Tasks |-> "none"]
  /\ draft    = [t \in Tasks |-> 0]
  /\ saw      = [t \in Tasks |-> NoMark]

-----------------------------------------------------------------------------

Larger(a, b)  == IF a >= b THEN a ELSE b
Smaller(a, b) == IF a <= b THEN a ELSE b
Distance(a, b) == Larger(a, b) - Smaller(a, b)

Exact(x) == x % 25 = 0

(* The scores that may be stored: a mean between two hundredths is rounded *)
(* to the one above, or, if its float64 falls short of it, the one below.  *)
ResolveScore(how, first, second) ==
  CASE how = "average" -> {(first + second) \div 2, (first + second + 1) \div 2}
    [] how = "first"   -> {first}
    [] how = "second"  -> {second}
    [] how = "higher"  -> {Larger(first, second)}
    [] how = "lower"   -> {Smaller(first, second)}

(* diff <= threshold: the difference of two marks that are just the        *)
(* threshold apart may come out larger than the threshold.                 *)
MayAgree(a, b, threshold) == Distance(a, b) <= threshold
MayDiffer(a, b, threshold) ==
  \/ Distance(a, b) > threshold
  \/ /\ Distance(a, b) = threshold /\ threshold # 0
     /\ ~(Exact(a) /\ Exact(b) /\ Exact(threshold))

(* Faulty FinalGrade: the strategy is stored where the source belongs. *)
FinalGradeByStrategy(s, how, score) == [session |-> s, source |-> strategy[s], score |-> score]
FinalGrade(s, how, score) == [session |-> s, source |-> how, score |-> score]

RowFree(t) == txPhase[t] = "none"
SessionNeverLocked(s) == TRUE  \* faulty SessionFree: no FOR UPDATE
SessionFree(s) == \A i \in {1, 2} : txPhase[<<s, i>>] # "deciding"

-----------------------------------------------------------------------------
(* Managers. *)

SetPolicy(p) ==
  /\ policy # p
  /\ policy' = p
  /\ UNCHANGED <<stage, policyVars, work, worker, mark, arbVars, finals, txVars>>

(* Two tasks, for two different people.  The index on active tasks admits  *)
(* no second first or second mark of the same answer.                      *)
CreateSession(s, a, b) ==
  /\ a # b /\ policy.enabled
  /\ stage[s] = "absent"
  /\ \A r \in Sessions : r < s => stage[r] # "absent"
  /\ \A t \in Tasks : work[t] \notin Open
  /\ stage' = [stage EXCEPT ![s] = "pending"]
  /\ named' = [named EXCEPT ![<<s, 1>>] = a, ![<<s, 2>>] = b]
  /\ worker' = [worker EXCEPT ![<<s, 1>>] = a, ![<<s, 2>>] = b]
  /\ work' = [work EXCEPT ![<<s, 1>>] = "assigned", ![<<s, 2>>] = "assigned"]
  /\ limit' = [limit EXCEPT ![s] = policy.threshold]
  /\ strategy' = [strategy EXCEPT ![s] = policy.strategy]
  /\ UNCHANGED <<policy, mark, arbVars, finals, txVars>>

(* One task, or a batch, is given to somebody (else). *)
Assign(batch, p) ==
  /\ \A t \in batch : work[t] \in Open /\ RowFree(t)
  /\ worker' = [t \in Tasks |-> IF t \in batch THEN p ELSE worker[t]]
  /\ work' = [t \in Tasks |-> IF t \in batch THEN "assigned" ELSE work[t]]
  /\ UNCHANGED <<policy, stage, policyVars, mark, arbVars, finals, txVars>>

Return(t) ==
  /\ work[t] \in Open /\ RowFree(t)
  /\ work' = [work EXCEPT ![t] = "returned"]
  /\ UNCHANGED <<policy, stage, policyVars, worker, mark, arbVars, finals, txVars>>

-----------------------------------------------------------------------------
(* SubmitGrade, by the grader the task is assigned to. *)

LockTask(t, score) ==
  /\ work[t] \in Open /\ RowFree(t)
  /\ txPhase' = [txPhase EXCEPT ![t] = "marking"]
  /\ draft' = [draft EXCEPT ![t] = score]
  /\ UNCHANGED <<policy, stage, policyVars, work, worker, mark, arbVars, finals, saw>>

LockSession(t) ==
  /\ txPhase[t] = "marking" /\ SessionFree(t[1])
  /\ txPhase' = [txPhase EXCEPT ![t] = "deciding"]
  /\ saw' = [saw EXCEPT ![t] = mark[Other(t)]]
  /\ UNCHANGED <<policy, stage, policyVars, work, worker, mark, arbVars, finals, draft>>

EndTx(t) ==
  /\ txPhase' = [txPhase EXCEPT ![t] = "none"]
  /\ draft' = [draft EXCEPT ![t] = 0]
  /\ saw' = [saw EXCEPT ![t] = NoMark]

KeepMark(t) == mark' = [mark EXCEPT ![t] = [by |-> worker[t], score |-> draft[t]]]

(* Both tasks of the pair are closed with its final grade. *)
CompleteSubmitted(s) ==  \* faulty CompleteTasks: only those already submitted
  [t \in Tasks |-> IF t[1] = s /\ work[t] = "submitted" THEN "completed" ELSE work[t]]
CompleteTasks(s) == [work EXCEPT ![<<s, 1>>] = "completed", ![<<s, 2>>] = "completed"]

(* The first and the second mark, in whichever order they were submitted. *)
FirstSubmitted(t) == saw[t].score  \* faulty First: the mark that came first
First(t)  == IF t[2] = 1 THEN draft[t] ELSE saw[t].score
Second(t) == IF t[2] = 1 THEN saw[t].score ELSE draft[t]

(* The other mark is not there yet. *)
CommitFirst(t) ==
  /\ txPhase[t] = "deciding" /\ saw[t] = NoMark
  /\ stage' = [stage EXCEPT ![t[1]] = IF t[2] = 1 THEN "first_submitted" ELSE "second_submitted"]
  /\ work' = [work EXCEPT ![t] = "submitted"]
  /\ KeepMark(t) /\ EndTx(t)
  /\ UNCHANGED <<policy, policyVars, worker, arbVars, finals>>

(* Both are, and agree: the final grade, and the tasks are completed. *)
CommitAgreed(t) ==
  LET s == t[1] IN
  /\ txPhase[t] = "deciding" /\ saw[t] # NoMark
  /\ MayAgree(First(t), Second(t), limit[s])
  /\ stage' = [stage EXCEPT ![s] = "auto_finalized"]
  /\ \E x \in ResolveScore(strategy[s], First(t), Second(t)) :
       finals' = Append(finals, FinalGrade(s, "double_mark_auto", x))
  /\ work' = CompleteTasks(s)
  /\ KeepMark(t) /\ EndTx(t)
  /\ UNCHANGED <<policy, policyVars, worker, arbVars>>

(* Both are, and differ too much: an arbitration task, not yet assigned. *)
CommitDisputed(t) ==
  LET s == t[1] IN
  /\ txPhase[t] = "deciding" /\ saw[t] # NoMark
  /\ MayDiffer(First(t), Second(t), limit[s])
  /\ stage' = [stage EXCEPT ![s] = "needs_arbitration"]
  /\ arbStatus' = [arbStatus EXCEPT ![s] = "pending"]
  /\ arbSame' = [arbSame EXCEPT ![s] = policy.allowSame]
  /\ work' = [work EXCEPT ![t] = "submitted"]
  /\ KeepMark(t) /\ EndTx(t)
  /\ UNCHANGED <<policy, policyVars, worker, arbiter, arbScore, finals>>

(* The request, or the process serving it, is lost. *)
Abort(t) ==
  /\ txPhase[t] # "none"
  /\ EndTx(t)
  /\ UNCHANGED <<policy, stage, policyVars, work, worker, mark, arbVars, finals>>

-----------------------------------------------------------------------------
(* Arbitration.  The original graders are those the session names. *)

(* Faulty ArbitratorAllowed: neither named nor marking, whoever is left. *)
StrangerAllowed(s, p) ==
  arbSame[s] \/ \A i \in {1, 2} : named[<<s, i>>] # p /\ worker[<<s, i>>] # p

ArbitratorAllowed(s, p) == arbSame[s] \/ \A i \in {1, 2} : named[<<s, i>>] # p

AssignArbiter(s, p) ==
  /\ arbStatus[s] \in {"pending", "assigned"}
  /\ ArbitratorAllowed(s, p)
  /\ arbStatus' = [arbStatus EXCEPT ![s] = "assigned"]
  /\ arbiter' = [arbiter EXCEPT ![s] = p]
  /\ UNCHANGED <<policy, stage, policyVars, work, worker, mark, arbSame, arbScore, finals, txVars>>

(* By the arbitrator the task is assigned to. *)
SubmitArbitration(s, score) ==
  /\ arbStatus[s] = "assigned" /\ ArbitratorAllowed(s, arbiter[s])
  /\ SessionFree(s)
  /\ arbStatus' = [arbStatus EXCEPT ![s] = "submitted"]
  /\ arbScore' = [arbScore EXCEPT ![s] = score]
  /\ finals' = Append(finals, FinalGrade(s, "arbitration", score))
  /\ stage' = [stage EXCEPT ![s] = "arbitrated"]
  /\ work' = CompleteTasks(s)
  /\ UNCHANGED <<policy, policyVars, worker, mark, arbiter, arbSame, txVars>>

Commit(t) == CommitFirst(t) \/ CommitAgreed(t) \/ CommitDisputed(t)

Next ==
  \/ \E p \in Policies : SetPolicy(p)
  \/ \E s \in Sessions :
       \/ \E a, b \in People : CreateSession(s, a, b)
       \/ \E p \in People : AssignArbiter(s, p)
       \/ \E x \in Scores : SubmitArbitration(s, x)
  \/ \E p \in People, batch \in SUBSET Tasks \ {{}} : Assign(batch, p)
  \/ \E t \in Tasks :
       \/ Return(t) \/ LockSession(t) \/ Commit(t) \/ Abort(t)
       \/ \E x \in Scores : LockTask(t, x)

Spec == Init /\ [][Next]_vars

(* The people do their work: a grader keeps submitting while the task is   *)
(* open, an arbitrator is found and decides.  Managers may reassign and    *)
(* return as often as they like, and requests may be lost, but not all.    *)
FairSpec ==
  /\ Spec
  /\ \A t \in Tasks :
       /\ WF_vars(\E x \in Scores : LockTask(t, x))
       /\ SF_vars(LockSession(t)) /\ SF_vars(Commit(t))
  /\ \A s \in Sessions :
       /\ WF_vars(\E p \in People : AssignArbiter(s, p))
       /\ WF_vars(\E x \in Scores : SubmitArbitration(s, x))

-----------------------------------------------------------------------------
(* Rows and transactions have the types of their columns. *)
TypeOK ==
  /\ policy \in Policies
  /\ stage \in [Sessions -> Stages]
  /\ named \in [Tasks -> People \cup {NoOne}]
  /\ limit \in [Sessions -> Nat] /\ strategy \in [Sessions -> Strategies]
  /\ work \in [Tasks -> {"absent", "submitted", "completed"} \cup Open]
  /\ worker \in [Tasks -> People \cup {NoOne}]
  /\ mark \in [Tasks -> Marks \cup {NoMark}]
  /\ arbStatus \in [Sessions -> {"absent", "pending", "assigned", "submitted"}]
  /\ arbiter \in [Sessions -> People \cup {NoOne}]
  /\ arbSame \in [Sessions -> BOOLEAN] /\ arbScore \in [Sessions -> Nat]
  /\ finals \in Seq([session : Sessions, source : {"double_mark_auto", "arbitration"}, score : Nat])
  /\ txPhase \in [Tasks -> {"none", "marking", "deciding"}]
  /\ draft \in [Tasks -> Nat] /\ saw \in [Tasks -> Marks \cup {NoMark}]

(* Whichever of two concurrent submissions commits second sees the first:  *)
(* two marks are never left side by side, each transaction having believed *)
(* that it was the only one.  The session's status names the marks it has. *)
Marked(s, i) == mark[<<s, i>>] # NoMark
BothMarksCompared ==
  \A s \in Sessions :
    /\ stage[s] \in {"absent", "pending"} <=> ~Marked(s, 1) /\ ~Marked(s, 2)
    /\ stage[s] = "first_submitted"  <=> Marked(s, 1) /\ ~Marked(s, 2)
    /\ stage[s] = "second_submitted" <=> Marked(s, 2) /\ ~Marked(s, 1)

(* The final grade of a pair is one row, and it is the one its marks call  *)
(* for by the threshold and the strategy in force when the pair was        *)
(* appointed, whatever became of the policy since: the resolved score if   *)
(* the marks agree, the arbitrator's if they do not.  Only marks that are  *)
(* just the threshold apart may be taken either way.                       *)
Verdicts(s) ==
  LET first == mark[<<s, 1>>].score second == mark[<<s, 2>>].score IN
  (IF MayAgree(first, second, limit[s])
     THEN {FinalGrade(s, "double_mark_auto", x) : x \in ResolveScore(strategy[s], first, second)}
     ELSE {})
  \cup
  (IF MayDiffer(first, second, limit[s]) THEN {FinalGrade(s, "arbitration", arbScore[s])} ELSE {})

FinalGradeIsVerdict ==
  /\ \A s \in Sessions :
       stage[s] \in Closed <=> \E n \in 1..Len(finals) : finals[n].session = s
  /\ \A n \in 1..Len(finals) :
       LET s == finals[n].session IN
       /\ \A m \in 1..Len(finals) : finals[m].session = s => m = n
       /\ Marked(s, 1) /\ Marked(s, 2) /\ finals[n] \in Verdicts(s)

(* Work in hand and work done agree across the four tables: a task is open *)
(* exactly while it has no mark, its row is locked only while it is open,  *)
(* and its grader keeps it; both tasks are completed exactly when the pair *)
(* has its final grade; an arbitration is pending exactly when it is due.  *)
TablesAgree ==
  \A s \in Sessions :
    /\ \A i \in {1, 2} :
         /\ work[<<s, i>>] \in Open <=> stage[s] # "absent" /\ ~Marked(s, i)
         /\ work[<<s, i>>] = "completed" <=> stage[s] \in Closed
         /\ txPhase[<<s, i>>] # "none" => work[<<s, i>>] \in Open
         /\ Marked(s, i) => mark[<<s, i>>].by = worker[<<s, i>>]
    /\ arbStatus[s] \in {"pending", "assigned"} <=> stage[s] = "needs_arbitration"
    /\ arbStatus[s] = "submitted" <=> stage[s] = "arbitrated"

(* A mark, once given, is never changed or withdrawn, and neither is a     *)
(* final grade: returns and reassignments reach only work not yet done.    *)
MarksAreKept ==
  [][/\ \A t \in Tasks : mark[t] # NoMark => mark'[t] = mark[t] /\ worker'[t] = worker[t]
     /\ \A n \in 1..Len(finals) : finals'[n] = finals[n]]_vars

(* No pair waits for ever: locks are released, nobody waits for somebody   *)
(* who waits for him, and no state is left from which the final grade      *)
(* cannot be reached.                                                      *)
EveryPairIsSettled == \A s \in Sessions : stage[s] = "pending" ~> stage[s] \in Closed
=============================================================================
