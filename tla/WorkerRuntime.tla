--------------------------- MODULE WorkerRuntime ---------------------------
(***************************************************************************)
(* The durable task queue of the API gateway (internal/workerruntime,      *)
(* PostgreSQL store).  A task row is leased to one worker at a time; a     *)
(* worker that dies is replaced when its lease expires.                    *)
(*                                                                         *)
(* Time is relative: a deadline is the number of ticks until it passes     *)
(* (negative once passed, down to Floor, below which no reader can tell    *)
(* the difference).  Operations that compare deadlines read                *)
(* transaction_timestamp(), which is fixed when their transaction begins   *)
(* and may be stale by the time they hold the row lock: txAge[s] is how    *)
(* many ticks ago the transaction open in session s began.                 *)
(*                                                                         *)
(* A lease token is drawn fresh by every claim, and every claim increments *)
(* attempt_count, so the attempt number stands for the token; 0 is NULL.   *)
(* A worker is known to the runtime by the token it presents: any attempt  *)
(* ever granted may present its token at any time (a slow worker, a        *)
(* resent request), or never again (a crashed one).                        *)
(***************************************************************************)
EXTENDS Integers, Sequences, FiniteSets

CONSTANTS
  Tasks,        \* task rows (tenant, task_type, idempotency_key)
  ImportTasks,  \* those owned by a paper import run
  Sessions,     \* concurrent database transactions of worker requests
  Results,      \* result payload hashes
  NoResult,
  LeaseTicks,   \* the lease_seconds a request may ask for
  RetryTicks,   \* the backoff a retryable failure may get
  Budgets,      \* the max_attempts a task may be created with
  ClaimLimit,   \* the largest batch one claim takes
  MaxTxAge,     \* bound: ticks a transaction may stay open
  AttemptCap    \* bound: no operator requeues past this many attempts

ASSUME ConstantsOK ==
  /\ ImportTasks \subseteq Tasks
  /\ NoResult \notin Results
  /\ LeaseTicks \subseteq Nat /\ RetryTicks \subseteq Nat
  /\ Budgets \subseteq Nat \ {0}
  /\ ClaimLimit \in Nat /\ MaxTxAge \in Nat /\ AttemptCap \in Nat

VARIABLES
  status,    \* agent_worker_task: the columns of each task's row
  attempts,  \*   attempt_count
  budget,    \*   max_attempts
  token,     \*   lease_token
  leaseLeft, \*   lease_expires_at (Floor when NULL)
  waitLeft,  \*   not_before (Floor when NULL)
  result,    \*   result_payload_hash
  log,       \* agent_worker_task_attempt: the attempts of each task, by number
  accepted,  \* history: the results callers were told were accepted
  txAge      \* per session, ticks since its transaction began, or Idle

leaseVars == <<token, leaseLeft>>
vars == <<status, attempts, budget, token, leaseLeft, waitLeft, result, log, accepted, txAge>>

Active   == {"leased", "running"}
StoppedOrDone == {"failed", "dead_letter", "succeeded"}  \* faulty Stopped: a success may be requeued
Stopped  == {"failed", "dead_letter"}
Terminal == {"succeeded", "cancelled"} \cup Stopped
Statuses == {"absent", "queued"} \cup Active \cup Terminal
AttemptStatuses == Active \cup {"succeeded", "failed", "lease_expired", "cancelled"}

Idle  == -1
Floor == -(MaxTxAge + 1)

Attempt == [status : AttemptStatuses, open : BOOLEAN]
Verdict == [by : Nat, result : Results]

Init ==
  /\ status    = [t \in Tasks |-> "absent"]
  /\ attempts  = [t \in Tasks |-> 0]
  /\ budget    = [t \in Tasks |-> 0]
  /\ token     = [t \in Tasks |-> 0]
  /\ leaseLeft = [t \in Tasks |-> Floor]
  /\ waitLeft  = [t \in Tasks |-> Floor]
  /\ result    = [t \in Tasks |-> NoResult]
  /\ log       = [t \in Tasks |-> <<>>]
  /\ accepted  = [t \in Tasks |-> {}]
  /\ txAge     = [s \in Sessions |-> Idle]

-----------------------------------------------------------------------------
(* What a transaction of age a sees.  A claim treats a task as ready when  *)
(* its backoff is over, or when its lease expired strictly before the      *)
(* transaction's timestamp; the holder may still use the lease at the very *)
(* instant it expires.                                                     *)

(* Faulty LeaseExpired: the lease ends one instant too early. *)
LeaseExpiredAtOnce(t, a) == leaseLeft[t] <= -a

LeaseExpired(t, a) == leaseLeft[t] < -a

Ready(t, a) ==
  \/ status[t] = "queued" /\ waitLeft[t] <= -a
  \/ status[t] \in Active /\ LeaseExpired(t, a)

(* Faulty Exhausted: a claim leaves used-up tasks alone. *)
ExhaustedIgnored(a) == {}

Exhausted(a) == {t \in Tasks \ ImportTasks : Ready(t, a) /\ attempts[t] >= budget[t]}
Claimable(a) == {t \in Tasks : Ready(t, a) /\ attempts[t] < budget[t]}

(* Faulty HoldsLease: any token will do while the task is held. *)
HoldsAnyLease(t, n, a) == ~LeaseExpired(t, a) /\ status[t] \in Active

HoldsLease(t, n, a) ==
  /\ n # 0 /\ token[t] = n
  /\ ~LeaseExpired(t, a)
  /\ status[t] \in Active

-----------------------------------------------------------------------------
(* Updates of the attempt table. *)

Closed(st) == [status |-> st, open |-> FALSE]

(* Every attempt of t still open is closed with status st. *)
CloseAttempts(t, st) ==
  [n \in 1..Len(log[t]) |-> IF log[t][n].open THEN Closed(st) ELSE log[t][n]]

(* Faulty SetAttempt: the task's new status is copied into the attempt. *)
SetAttemptToTask(t, a) == [log[t] EXCEPT ![attempts[t]] = [status |-> status'[t], open |-> a.open]]

(* The newest attempt of t, WHERE attempt_no = attempt_count. *)
SetAttempt(t, a) == [log[t] EXCEPT ![attempts[t]] = a]

CurrentOpen(t) == log[t][attempts[t]].open

ClearLease(t) ==
  /\ token' = [token EXCEPT ![t] = 0]
  /\ leaseLeft' = [leaseLeft EXCEPT ![t] = Floor]

Larger(a, b) == IF a >= b THEN a ELSE b

-----------------------------------------------------------------------------
(* Transactions of worker requests. *)

BeginTx(s) ==
  /\ txAge[s] = Idle
  /\ txAge' = [txAge EXCEPT ![s] = 0]
  /\ UNCHANGED <<status, attempts, budget, leaseVars, waitLeft, result, log, accepted>>

(* The transaction ends with nothing written: the request was refused, or  *)
(* the connection or the process serving it was lost.                      *)
Rollback(s) ==
  /\ txAge[s] # Idle
  /\ txAge' = [txAge EXCEPT ![s] = Idle]
  /\ UNCHANGED <<status, attempts, budget, leaseVars, waitLeft, result, log, accepted>>

Commit(s) == txAge[s] # Idle /\ txAge' = [txAge EXCEPT ![s] = Idle]

-----------------------------------------------------------------------------
(* Operations. *)

(* createTask: a second request with the same key finds the row. *)
Submit(t, b) ==
  /\ status[t] = "absent"
  /\ status' = [status EXCEPT ![t] = "queued"]
  /\ budget' = [budget EXCEPT ![t] = b]
  /\ UNCHANGED <<attempts, leaseVars, waitLeft, result, log, accepted, txAge>>

(* Faulty Importable: a task that was given back by a worker is taken for *)
(* one never attempted.                                                   *)
ImportableQueued(t, r) ==
  \/ status[t] \in {"absent", "queued"}
  \/ status[t] = "succeeded" /\ result[t] = r

Importable(t, r) ==
  \/ status[t] = "absent"
  \/ status[t] = "queued" /\ attempts[t] = 0
  \/ status[t] = "succeeded" /\ result[t] = r

(* CreateSucceededTaskInTx: an imported result for a task never attempted, *)
(* or the same result for a task that has succeeded.                       *)
SubmitSucceeded(t, b, r) ==
  /\ Importable(t, r)
  /\ status' = [status EXCEPT ![t] = "succeeded"]
  /\ result' = [result EXCEPT ![t] = r]
  /\ budget' = IF status[t] = "absent" THEN [budget EXCEPT ![t] = b] ELSE budget
  /\ accepted' = [accepted EXCEPT ![t] = @ \cup {[by |-> token[t], result |-> r]}]
  /\ UNCHANGED <<attempts, leaseVars, waitLeft, log, txAge>>

(* One poll of the queue.  Rows another transaction has locked are skipped, *)
(* so a poll takes some of what is ready, up to its limit, of each kind:    *)
(* it gives up the exhausted ones and leases the others.                    *)
Claim(s, ticks, dead, batch) ==
  /\ dead \subseteq Exhausted(txAge[s]) /\ Cardinality(dead) <= ClaimLimit
  /\ batch \subseteq Claimable(txAge[s]) /\ Cardinality(batch) <= ClaimLimit
  /\ status' = [t \in Tasks |-> IF t \in dead THEN "dead_letter"
                                ELSE IF t \in batch THEN "leased" ELSE status[t]]
  /\ attempts' = [t \in Tasks |-> IF t \in batch THEN attempts[t] + 1 ELSE attempts[t]]
  /\ budget' = [t \in Tasks |-> IF t \in dead THEN Larger(budget[t], attempts[t]) ELSE budget[t]]
  /\ token' = [t \in Tasks |-> IF t \in dead THEN 0
                               ELSE IF t \in batch THEN attempts[t] + 1 ELSE token[t]]
  /\ leaseLeft' = [t \in Tasks |-> IF t \in dead THEN Floor
                                   ELSE IF t \in batch THEN ticks - txAge[s] ELSE leaseLeft[t]]
  /\ waitLeft' = [t \in Tasks |-> IF t \in batch THEN Floor ELSE waitLeft[t]]
  /\ log' = [t \in Tasks |->
       IF t \in dead THEN CloseAttempts(t, "lease_expired")
       ELSE IF t \in batch THEN Append(CloseAttempts(t, "lease_expired"),
                                       [status |-> "leased", open |-> TRUE])
       ELSE log[t]]
  /\ Commit(s)
  /\ UNCHANGED <<result, accepted>>

Heartbeat(s, t, n, ticks) ==
  /\ HoldsLease(t, n, txAge[s])
  /\ status' = [status EXCEPT ![t] = "running"]
  /\ leaseLeft' = [leaseLeft EXCEPT ![t] = ticks - txAge[s]]
  /\ log' = [log EXCEPT ![t] = SetAttempt(t, [status |-> "running", open |-> CurrentOpen(t)])]
  /\ Commit(s)
  /\ UNCHANGED <<attempts, budget, token, waitLeft, result, accepted>>

(* CompleteTaskInTx: the first completion, which must close one attempt. *)
Complete(s, t, n, r) ==
  /\ HoldsLease(t, n, txAge[s]) /\ CurrentOpen(t)
  /\ status' = [status EXCEPT ![t] = "succeeded"]
  /\ result' = [result EXCEPT ![t] = r]
  /\ log' = [log EXCEPT ![t] = SetAttempt(t, Closed("succeeded"))]
  /\ accepted' = [accepted EXCEPT ![t] = @ \cup {[by |-> n, result |-> r]}]
  /\ Commit(s)
  /\ UNCHANGED <<attempts, budget, leaseVars, waitLeft>>

(* CompleteTaskInTx on a task that has succeeded: the same worker resending *)
(* the same result is told again that it was accepted.                      *)
CompleteAgain(s, t, n, r) ==
  /\ status[t] = "succeeded" /\ n # 0 /\ token[t] = n
  /\ result[t] = r
  /\ accepted' = [accepted EXCEPT ![t] = @ \cup {[by |-> n, result |-> r]}]
  /\ Commit(s)
  /\ UNCHANGED <<status, attempts, budget, leaseVars, waitLeft, result, log>>

(* FailTaskInTx: the holder gives the task back for another try, or ends it. *)
FailRetry(s, t, n, ticks) ==
  /\ HoldsLease(t, n, txAge[s]) /\ CurrentOpen(t)
  /\ attempts[t] < budget[t]
  /\ status' = [status EXCEPT ![t] = "queued"]
  /\ waitLeft' = [waitLeft EXCEPT ![t] = ticks - txAge[s]]
  /\ ClearLease(t)
  /\ log' = [log EXCEPT ![t] = SetAttempt(t, Closed("failed"))]
  /\ Commit(s)
  /\ UNCHANGED <<attempts, budget, result, accepted>>

FailEnd(s, t, n, retryable) ==
  /\ HoldsLease(t, n, txAge[s]) /\ CurrentOpen(t)
  /\ retryable => attempts[t] >= budget[t]
  /\ status' = [status EXCEPT ![t] = IF retryable THEN "dead_letter" ELSE "failed"]
  /\ waitLeft' = [waitLeft EXCEPT ![t] = Floor]
  /\ log' = [log EXCEPT ![t] = SetAttempt(t, Closed("failed"))]
  /\ Commit(s)
  /\ UNCHANGED <<attempts, budget, leaseVars, result, accepted>>

Cancel(t) ==
  /\ status[t] \in {"queued"} \cup Active
  /\ status' = [status EXCEPT ![t] = "cancelled"]
  /\ log' = IF attempts[t] # 0 /\ CurrentOpen(t)
              THEN [log EXCEPT ![t] = SetAttempt(t, Closed("cancelled"))] ELSE log
  /\ UNCHANGED <<attempts, budget, leaseVars, waitLeft, result, accepted, txAge>>

Requeue(t) ==
  /\ status[t] \in Stopped
  /\ attempts[t] < AttemptCap
  /\ status' = [status EXCEPT ![t] = "queued"]
  /\ waitLeft' = [waitLeft EXCEPT ![t] = Floor]
  /\ budget' = [budget EXCEPT ![t] = Larger(budget[t], attempts[t] + 1)]
  /\ ClearLease(t)
  /\ UNCHANGED <<attempts, result, log, accepted, txAge>>

(* The import reconciler's own dead-lettering (it reads clock_timestamp(), *)
(* which is never stale).                                                  *)
ReconcileImport(t) ==
  /\ t \in ImportTasks /\ status[t] \in Active
  /\ LeaseExpired(t, 0) /\ attempts[t] >= budget[t] /\ CurrentOpen(t)
  /\ status' = [status EXCEPT ![t] = "dead_letter"]
  /\ ClearLease(t)
  /\ log' = [log EXCEPT ![t] = SetAttempt(t, Closed("lease_expired"))]
  /\ UNCHANGED <<attempts, budget, waitLeft, result, accepted, txAge>>

Down(left) == IF left > Floor THEN left - 1 ELSE left

Tick ==
  /\ \A s \in Sessions : txAge[s] < MaxTxAge
  /\ leaseLeft' = [t \in Tasks |-> Down(leaseLeft[t])]
  /\ waitLeft' = [t \in Tasks |-> Down(waitLeft[t])]
  /\ txAge' = [s \in Sessions |-> IF txAge[s] = Idle THEN Idle ELSE txAge[s] + 1]
  /\ UNCHANGED <<status, attempts, budget, token, result, log, accepted>>

SomeClaim(s) ==
  \E ticks \in LeaseTicks, dead \in SUBSET Exhausted(txAge[s]),
     batch \in SUBSET Claimable(txAge[s]) : Claim(s, ticks, dead, batch)

(* A request that presents the token of attempt n of task t. *)
WorkerRequest(s, t, n) ==
  \/ \E ticks \in LeaseTicks : Heartbeat(s, t, n, ticks)
  \/ \E r \in Results : Complete(s, t, n, r) \/ CompleteAgain(s, t, n, r)
  \/ \E ticks \in RetryTicks : FailRetry(s, t, n, ticks)
  \/ \E retryable \in BOOLEAN : FailEnd(s, t, n, retryable)

Next ==
  \/ Tick
  \/ \E s \in Sessions :
       \/ BeginTx(s) \/ Rollback(s)
       \/ txAge[s] # Idle /\ SomeClaim(s)
       \/ \E t \in Tasks : \E n \in DOMAIN log[t] :
            txAge[s] # Idle /\ WorkerRequest(s, t, n)
  \/ \E t \in Tasks :
       \/ \E b \in Budgets : Submit(t, b)
       \/ \E b \in Budgets, r \in Results : SubmitSucceeded(t, b, r)
       \/ Cancel(t) \/ Requeue(t) \/ ReconcileImport(t)

Spec == Init /\ [][Next]_vars

-----------------------------------------------------------------------------
(* Fairness.  Workers poll forever, so a ready task is not passed over for *)
(* ever (its row is not locked by somebody else at every poll); a          *)
(* transaction ends; the import reconciler runs periodically.  Nothing     *)
(* obliges the worker that holds a lease to do anything.                   *)

ClaimOf(t) ==
  \E s \in Sessions, ticks \in LeaseTicks :
    /\ txAge[s] # Idle
    /\ \E dead \in SUBSET Exhausted(txAge[s]), batch \in SUBSET Claimable(txAge[s]) :
         t \in dead \cup batch /\ Claim(s, ticks, dead, batch)

FairSpec ==
  /\ Spec
  /\ WF_vars(Tick)
  /\ \A s \in Sessions : WF_vars(BeginTx(s) \/ Rollback(s))
  /\ \A t \in Tasks : SF_vars(ClaimOf(t)) /\ WF_vars(ReconcileImport(t))

-----------------------------------------------------------------------------
(* Properties. *)

(* The rows have the types of their columns. *)
TypeOK ==
  /\ status \in [Tasks -> Statuses]
  /\ attempts \in [Tasks -> Nat] /\ budget \in [Tasks -> Nat] /\ token \in [Tasks -> Nat]
  /\ leaseLeft \in [Tasks -> Int] /\ waitLeft \in [Tasks -> Int]
  /\ result \in [Tasks -> Results \cup {NoResult}]
  /\ log \in [Tasks -> Seq(Attempt)]
  /\ accepted \in [Tasks -> SUBSET Verdict]
  /\ txAge \in [Sessions -> Idle..MaxTxAge]

(* The attempt table tells the story of the task table: attempts are       *)
(* numbered 1..attempt_count with no gap, exactly the newest one is open   *)
(* while the task is leased or running, and none is open otherwise; so the *)
(* "exactly one attempt row closed" checks of Complete and Fail never fail *)
(* for the holder of the lease.                                            *)
LogAgrees(t) ==
  /\ Len(log[t]) = attempts[t]
  /\ \A n \in 1..Len(log[t]) :
       /\ log[t][n].open <=> (status[t] \in Active /\ n = attempts[t])
       /\ log[t][n].open <=> log[t][n].status \in Active

AttemptsAgree == \A t \in Tasks : LogAgrees(t)

(* However often completions are resent, delayed or raced by cancels,      *)
(* reclaims and requeues, all callers who were told that their result was  *)
(* accepted sent the same result under the same lease, and that result is  *)
(* the one the task row holds.                                             *)
OneAcceptedResult ==
  \A t \in Tasks : \A v \in accepted[t] :
    /\ accepted[t] = {v}
    /\ status[t] = "succeeded" /\ result[t] = v.result

(* No attempt beyond the budget, no queued task that a claim would refuse, *)
(* and no task declared dead with attempts to spare.                       *)
WithinBudget(t) ==
  /\ attempts[t] <= budget[t]
  /\ status[t] = "queued" => attempts[t] < budget[t]
  /\ status[t] = "dead_letter" => attempts[t] = budget[t]

BudgetKept == \A t \in Tasks : WithinBudget(t)

(* The inductive invariant: besides the above, the token column is NULL or *)
(* the newest attempt's token, never an older one, and is set while the    *)
(* task is held; what callers were told is exactly what the row says.      *)
TokenNewest(t) ==
  /\ token[t] = 0 \/ token[t] = attempts[t]
  /\ status[t] \in Active => token[t] = attempts[t] /\ attempts[t] # 0
  /\ status[t] = "absent" => attempts[t] = 0

VerdictKept(t) ==
  accepted[t] = IF status[t] = "succeeded"
                  THEN {[by |-> token[t], result |-> result[t]]} ELSE {}

Sound(t) == LogAgrees(t) /\ WithinBudget(t) /\ TokenNewest(t) /\ VerdictKept(t)

IInv == \A t \in Tasks : Sound(t)

(* A claim takes a task away from its holder, or gives it up as lost, only *)
(* when the lease has really run out, however stale the claim's timestamp. *)
NoEarlySteal ==
  [][\A t \in Tasks :
       /\ status[t] \in Active
       /\ \/ attempts'[t] > attempts[t]
          \/ status'[t] = "dead_letter" /\ token'[t] = 0
       => leaseLeft[t] < 0]_vars

(* A task that was queued comes to an end even if every worker that ever   *)
(* gets it dies: its lease runs out, others get it, and when its attempts  *)
(* are used up it is dead-lettered.  Only a worker that renews the lease   *)
(* for ever can hold it for ever.                                          *)
Beats(t) == attempts'[t] = attempts[t] /\ leaseLeft'[t] > leaseLeft[t]
EveryTaskEnds ==
  \A t \in Tasks :
    \/ []<><<Beats(t)>>_vars
    \/ status[t] \in {"queued"} \cup Active ~> status[t] \in Terminal

(* The runtime implements the promise of FencedTask for every task. *)
PhaseOf(st) ==
  CASE st = "queued" -> "open"       [] st \in Active -> "held"
    [] st \in Stopped -> "stopped"   [] st = "succeeded" -> "settled"
    [] st = "cancelled" -> "withdrawn" [] OTHER -> "absent"

Fenced(t) == INSTANCE FencedTask WITH
  phase <- PhaseOf(status[t]), fence <- attempts[t], verdicts <- accepted[t]

ImplementsFencedTask ==
  /\ \A t \in Tasks : Fenced(t)!Init
  /\ [][\A t \in Tasks : [Fenced(t)!Next]_(Fenced(t)!vars)]_vars

=============================================================================
