------------------------- MODULE WorkerRuntimeProofs -------------------------
(***************************************************************************)
(* Theorems about WorkerRuntime, for every set of tasks, sessions and      *)
(* results and every value of the bounds.                                  *)
(***************************************************************************)
EXTENDS WorkerRuntime, SequenceTheorems, TLAPS

(* What the updates of the attempt table yield.  An UPDATE of an attempt   *)
(* row that does not exist changes nothing.                                *)
LEMMA ClosedType == \A st \in AttemptStatuses : Closed(st) \in Attempt
BY DEF Attempt, Closed

LEMMA ClosedLog ==
  ASSUME NEW t \in Tasks, NEW st \in AttemptStatuses, log[t] \in Seq(Attempt)
  PROVE  /\ CloseAttempts(t, st) \in Seq(Attempt)
         /\ Len(CloseAttempts(t, st)) = Len(log[t])
         /\ \A n \in 1..Len(log[t]) : CloseAttempts(t, st)[n] =
              IF log[t][n].open THEN Closed(st) ELSE log[t][n]
BY ClosedType DEF CloseAttempts

LEMMA UpdatedLog ==
  ASSUME NEW t \in Tasks, NEW a, log[t] \in Seq(Attempt), attempts[t] \in Nat,
         attempts[t] \in DOMAIN log[t] => a \in Attempt
  PROVE  /\ SetAttempt(t, a) \in Seq(Attempt)
         /\ Len(SetAttempt(t, a)) = Len(log[t])
         /\ \A n \in 1..Len(log[t]) :
              SetAttempt(t, a)[n] = IF n = attempts[t] THEN a ELSE log[t][n]
<1>1. CASE attempts[t] \in DOMAIN log[t]
  BY <1>1, ExceptSeq DEF SetAttempt
<1>2. CASE attempts[t] \notin DOMAIN log[t]
  <2>1. SetAttempt(t, a) = log[t] /\ \A n \in 1..Len(log[t]) : n # attempts[t]
    BY <1>2 DEF SetAttempt
  <2> QED
    BY <2>1
<1> QED
  BY <1>1, <1>2

(* Type correctness: whatever the requests, rows keep their columns' types. *)
THEOREM TypeCorrect == Spec => []TypeOK
<1> USE ConstantsOK DEF ConstantsOK
<1>1. Init => TypeOK
  BY DEF Init, TypeOK, Statuses, Floor, Idle
<1>2. TypeOK /\ [Next]_vars => TypeOK'
  <2> SUFFICES ASSUME TypeOK, [Next]_vars PROVE TypeOK'
    OBVIOUS
  <2> USE DEF TypeOK
  <2>f. Floor \in Int /\ Idle \in Int /\ {0} \subseteq Idle..MaxTxAge /\ Idle \in Idle..MaxTxAge
    BY DEF Floor, Idle
  <2>1. ASSUME NEW t \in Tasks, NEW b \in Budgets, Submit(t, b) PROVE TypeOK'
    BY <2>1 DEF Submit, leaseVars, Statuses
  <2>2. ASSUME NEW t \in Tasks, NEW b \in Budgets, NEW r \in Results, SubmitSucceeded(t, b, r)
        PROVE  TypeOK'
    BY <2>2 DEF SubmitSucceeded, Importable, leaseVars, Statuses, Terminal, Verdict
  <2>3. ASSUME NEW s \in Sessions, NEW ticks \in LeaseTicks,
               NEW dead \in SUBSET Tasks, NEW batch \in SUBSET Tasks, Claim(s, ticks, dead, batch)
        PROVE  TypeOK'
    <3>1. /\ status' \in [Tasks -> Statuses] /\ attempts' \in [Tasks -> Nat]
          /\ budget' \in [Tasks -> Nat] /\ token' \in [Tasks -> Nat]
      BY <2>3 DEF Claim, Statuses, Active, Terminal, Stopped, Larger
    <3>2. /\ leaseLeft' \in [Tasks -> Int] /\ waitLeft' \in [Tasks -> Int]
          /\ txAge' \in [Sessions -> Idle..MaxTxAge]
      BY <2>3, <2>f DEF Claim, Commit
    <3>3. log' \in [Tasks -> Seq(Attempt)]
      <4>1. [status |-> "leased", open |-> TRUE] \in Attempt /\ "lease_expired" \in AttemptStatuses
        BY DEF Attempt, AttemptStatuses, Active
      <4>2. \A t \in Tasks : CloseAttempts(t, "lease_expired") \in Seq(Attempt)
        BY <4>1, ClosedLog
      <4>3. \A t \in Tasks : Append(CloseAttempts(t, "lease_expired"),
                                    [status |-> "leased", open |-> TRUE]) \in Seq(Attempt)
        BY <4>1, <4>2
      <4> QED
        BY <2>3, <4>2, <4>3 DEF Claim
    <3> QED
      BY <2>3, <3>1, <3>2, <3>3 DEF Claim
  <2>4. ASSUME NEW s \in Sessions, NEW t \in Tasks, NEW n \in DOMAIN log[t], WorkerRequest(s, t, n)
        PROVE  TypeOK'
    <3>n. n \in Nat
      OBVIOUS
    <3>c. Commit(s) => txAge' \in [Sessions -> Idle..MaxTxAge]
      BY <2>f DEF Commit
    <3>o. \A st \in {"succeeded", "failed"} : SetAttempt(t, Closed(st)) \in Seq(Attempt)
      BY ClosedType, UpdatedLog DEF AttemptStatuses
    <3>1. ASSUME NEW ticks \in LeaseTicks, Heartbeat(s, t, n, ticks) PROVE TypeOK'
      <4>1. attempts[t] \in DOMAIN log[t] =>
              [status |-> "running", open |-> CurrentOpen(t)] \in Attempt
        <5>1. \A i \in DOMAIN log[t] : log[t][i] \in Attempt
          BY ElementOfSeq
        <5> QED
          BY <5>1 DEF CurrentOpen, Attempt, AttemptStatuses, Active
      <4>2. SetAttempt(t, [status |-> "running", open |-> CurrentOpen(t)]) \in Seq(Attempt)
        BY <4>1, UpdatedLog
      <4>3. leaseLeft' \in [Tasks -> Int]
        BY <3>1 DEF Heartbeat
      <4> QED
        BY <3>c, <3>1, <4>2, <4>3 DEF Heartbeat, Statuses, Active
    <3>2. ASSUME NEW r \in Results, Complete(s, t, n, r) PROVE TypeOK'
      <4>1. accepted' \in [Tasks -> SUBSET Verdict]
        BY <3>n, <3>2 DEF Complete, Verdict
      <4>2. status' \in [Tasks -> Statuses] /\ log' \in [Tasks -> Seq(Attempt)]
        BY <3>o, <3>2 DEF Complete, Statuses, Terminal
      <4> QED
        BY <3>c, <3>2, <4>1, <4>2 DEF Complete, leaseVars
    <3>3. ASSUME NEW r \in Results, CompleteAgain(s, t, n, r) PROVE TypeOK'
      BY <2>f, <3>n, <3>3 DEF CompleteAgain, Commit, leaseVars, Verdict
    <3>4. ASSUME NEW ticks \in RetryTicks, FailRetry(s, t, n, ticks) PROVE TypeOK'
      <4>1. status' \in [Tasks -> Statuses] /\ log' \in [Tasks -> Seq(Attempt)]
        BY <3>o, <3>4 DEF FailRetry, Statuses
      <4>2. waitLeft' \in [Tasks -> Int]
        BY <3>4 DEF FailRetry
      <4>3. token' \in [Tasks -> Nat] /\ leaseLeft' \in [Tasks -> Int]
        BY <2>f, <3>4 DEF FailRetry, ClearLease
      <4> QED
        BY <3>c, <3>4, <4>1, <4>2, <4>3 DEF FailRetry
    <3>5. ASSUME NEW retryable \in BOOLEAN, FailEnd(s, t, n, retryable) PROVE TypeOK'
      BY <2>f, <3>c, <3>o, <3>5 DEF FailEnd, leaseVars, Statuses, Terminal, Stopped
    <3> QED
      BY <2>4, <3>1, <3>2, <3>3, <3>4, <3>5 DEF WorkerRequest
  <2>5. ASSUME NEW t \in Tasks, Cancel(t) PROVE TypeOK'
    <3>1. SetAttempt(t, Closed("cancelled")) \in Seq(Attempt)
      BY ClosedType, UpdatedLog DEF AttemptStatuses
    <3> QED
      BY <2>5, <3>1 DEF Cancel, leaseVars, Statuses, Terminal
  <2>6. ASSUME NEW t \in Tasks, Requeue(t) PROVE TypeOK'
    BY <2>f, <2>6 DEF Requeue, ClearLease, Statuses, Larger
  <2>7. ASSUME NEW t \in Tasks, ReconcileImport(t) PROVE TypeOK'
    <3>1. SetAttempt(t, Closed("lease_expired")) \in Seq(Attempt)
      BY ClosedType, UpdatedLog DEF AttemptStatuses
    <3> QED
      BY <2>f, <2>7, <3>1 DEF ReconcileImport, ClearLease, Statuses, Terminal, Stopped
  <2>8. CASE Tick
    <3>1. leaseLeft' \in [Tasks -> Int] /\ waitLeft' \in [Tasks -> Int]
      BY <2>f, <2>8 DEF Tick, Down
    <3>2. txAge' \in [Sessions -> Idle..MaxTxAge]
      BY <2>f, <2>8 DEF Tick, Idle
    <3> QED
      BY <2>8, <3>1, <3>2 DEF Tick
  <2>9. ASSUME NEW s \in Sessions, BeginTx(s) \/ Rollback(s) PROVE TypeOK'
    BY <2>f, <2>9 DEF BeginTx, Rollback, leaseVars
  <2>10. ASSUME NEW s \in Sessions, SomeClaim(s) PROVE TypeOK'
    <3>1. PICK ticks \in LeaseTicks, dead \in SUBSET Exhausted(txAge[s]),
               batch \in SUBSET Claimable(txAge[s]) : Claim(s, ticks, dead, batch)
      BY <2>10 DEF SomeClaim
    <3>2. dead \in SUBSET Tasks /\ batch \in SUBSET Tasks
      BY <3>1 DEF Exhausted, Claimable
    <3> QED
      BY <2>3, <3>1, <3>2
  <2>11. CASE UNCHANGED vars
    BY <2>11 DEF vars
  <2> QED
    BY <2>1, <2>2, <2>4, <2>5, <2>6, <2>7, <2>8, <2>9, <2>10, <2>11 DEF Next
<1> QED
  BY <1>1, <1>2, PTL DEF Spec

-----------------------------------------------------------------------------
(* A task none of whose columns, attempts or verdicts changed stays sound. *)
Untouched(t) ==
  /\ status'[t] = status[t] /\ attempts'[t] = attempts[t] /\ budget'[t] = budget[t]
  /\ token'[t] = token[t] /\ result'[t] = result[t]
  /\ log'[t] = log[t] /\ accepted'[t] = accepted[t]

LEMMA UntouchedSound ==
  ASSUME NEW t \in Tasks, Sound(t), Untouched(t)
  PROVE  Sound(t)'
BY DEF Sound, Untouched, LogAgrees, WithinBudget, TokenNewest, VerdictKept

(* Only the newest attempt is rewritten: the attempt table still agrees    *)
(* with the task when it is open just when the task is held.               *)
LEMMA MarkedLog ==
  ASSUME NEW t \in Tasks, NEW a \in Attempt,
         log[t] \in Seq(Attempt), attempts[t] \in Nat, attempts[t] # 0, LogAgrees(t),
         a.open <=> a.status \in Active, a.open <=> status'[t] \in Active,
         log'[t] = SetAttempt(t, a), attempts'[t] = attempts[t]
  PROVE  LogAgrees(t)'
<1>1. Len(log[t]) = attempts[t]
  BY DEF LogAgrees
<1>2. /\ Len(log'[t]) = attempts[t] /\ log'[t][attempts[t]] = a
      /\ \A n \in 1..attempts[t] : n # attempts[t] => log'[t][n] = log[t][n]
  BY <1>1, UpdatedLog
<1>3. \A n \in 1..attempts[t] : n # attempts[t] => ~log[t][n].open /\ log[t][n].status \notin Active
  BY <1>1 DEF LogAgrees
<1> QED
  BY <1>2, <1>3 DEF LogAgrees

(* The newest attempt, open, is closed as the task leaves the hands of its *)
(* holder.                                                                 *)
LEMMA ClosingLog ==
  ASSUME NEW t \in Tasks, log[t] \in Seq(Attempt), attempts[t] \in Nat, attempts[t] # 0,
         LogAgrees(t), NEW st \in AttemptStatuses \ Active,
         log'[t] = SetAttempt(t, Closed(st)), attempts'[t] = attempts[t],
         status'[t] \notin Active
  PROVE  LogAgrees(t)'
<1>1. Closed(st) \in Attempt /\ ~Closed(st).open /\ Closed(st).status = st
  BY ClosedType DEF Closed
<1> QED
  BY <1>1, MarkedLog

(* After every open attempt is closed, none is open. *)
LEMMA ClosingAll ==
  ASSUME NEW t \in Tasks, log[t] \in Seq(Attempt), LogAgrees(t),
         NEW st \in AttemptStatuses \ Active
  PROVE  /\ CloseAttempts(t, st) \in Seq(Attempt)
         /\ Len(CloseAttempts(t, st)) = attempts[t]
         /\ \A n \in 1..attempts[t] :
              ~CloseAttempts(t, st)[n].open /\ CloseAttempts(t, st)[n].status \notin Active
<1> DEFINE all == CloseAttempts(t, st)
           closed == Closed(st)
<1>1. /\ all \in Seq(Attempt) /\ Len(all) = Len(log[t])
      /\ \A n \in 1..Len(log[t]) : all[n] = IF log[t][n].open THEN closed ELSE log[t][n]
  BY ClosedLog
<1>2. ~closed.open /\ closed.status \notin Active
  BY DEF Closed
<1>3. \A n \in 1..Len(log[t]) : ~log[t][n].open => log[t][n].status \notin Active
  BY DEF LogAgrees
<1>4. Len(log[t]) = attempts[t]
  BY DEF LogAgrees
<1> HIDE DEF all, closed
<1>5. /\ all \in Seq(Attempt) /\ Len(all) = attempts[t]
      /\ \A n \in 1..attempts[t] : ~all[n].open /\ all[n].status \notin Active
  BY <1>1, <1>2, <1>3, <1>4
<1> QED
  BY <1>5 DEF all

(* A new open attempt after closed ones. *)
LEMMA OpeningLog ==
  ASSUME NEW t \in Tasks, NEW closed \in Seq(Attempt), Len(closed) = attempts[t],
         attempts[t] \in Nat,
         \A n \in 1..attempts[t] : ~closed[n].open /\ closed[n].status \notin Active,
         log'[t] = Append(closed, [status |-> "leased", open |-> TRUE]),
         attempts'[t] = attempts[t] + 1, status'[t] = "leased"
  PROVE  LogAgrees(t)'
<1> DEFINE new == [status |-> "leased", open |-> TRUE]
<1>1. new.open = TRUE /\ new.status \in Active /\ "leased" \in Active
  BY DEF Active
<1> HIDE DEF new
<1>2. log'[t] = Append(closed, new)
  BY DEF new
<1>3. /\ Len(log'[t]) = attempts'[t]
      /\ \A n \in 1..attempts[t] : log'[t][n] = closed[n]
      /\ log'[t][attempts[t] + 1] = new
  BY <1>2
<1>4. \A n \in 1..Len(log'[t]) : n \in 1..attempts[t] \/ n = attempts'[t]
  BY <1>3
<1> QED
  BY <1>1, <1>3, <1>4 DEF LogAgrees

LEMMA Inductive == TypeOK /\ TypeOK' /\ IInv /\ [Next]_vars => IInv'
<1> SUFFICES ASSUME TypeOK, TypeOK', IInv, [Next]_vars, NEW u \in Tasks PROVE Sound(u)'
  BY DEF IInv
<1>s. Sound(u)
  BY DEF IInv
<1>t. /\ status[u] \in Statuses /\ attempts[u] \in Nat /\ budget[u] \in Nat
      /\ token[u] \in Nat /\ log[u] \in Seq(Attempt)
  BY DEF TypeOK
<1> USE ConstantsOK DEF ConstantsOK
<1>c. {"succeeded", "failed", "lease_expired", "cancelled"} \subseteq AttemptStatuses \ Active
  BY DEF AttemptStatuses, Active
<1>1. ASSUME NEW t \in Tasks, NEW b \in Budgets, Submit(t, b) PROVE Sound(u)'
  <2>1. CASE u # t
    BY <1>s, <1>1, <2>1, UntouchedSound DEF Submit, Untouched, TypeOK, leaseVars
  <2>2. CASE u = t
    BY <1>s, <1>t, <1>1, <2>2
       DEF Submit, TypeOK, leaseVars, Sound, LogAgrees, WithinBudget, TokenNewest, VerdictKept, Active
  <2> QED
    BY <2>1, <2>2
<1>2. ASSUME NEW t \in Tasks, NEW b \in Budgets, NEW r \in Results, SubmitSucceeded(t, b, r)
      PROVE  Sound(u)'
  <2>1. CASE u # t
    BY <1>s, <1>2, <2>1, UntouchedSound DEF SubmitSucceeded, Importable, Untouched, TypeOK, leaseVars
  <2>2. CASE u = t
    <3>0. /\ status[u] \notin Active /\ status'[u] = "succeeded"
          /\ log' = log /\ attempts' = attempts /\ token' = token
      BY <1>2, <2>2 DEF SubmitSucceeded, Importable, TypeOK, leaseVars, Active
    <3>1. LogAgrees(u)' /\ TokenNewest(u)'
      BY <1>s, <3>0 DEF Sound, LogAgrees, TokenNewest, Active
    <3>2. WithinBudget(u)'
      <4>1. CASE status[u] = "absent"
        BY <1>s, <1>t, <1>2, <2>2, <3>0, <4>1
           DEF SubmitSucceeded, Importable, TypeOK, Sound, WithinBudget, TokenNewest
      <4>2. CASE status[u] # "absent"
        BY <1>s, <1>2, <2>2, <3>0, <4>2 DEF SubmitSucceeded, Importable, Sound, WithinBudget
      <4> QED
        BY <4>1, <4>2
    <3>3. VerdictKept(u)'
      BY <1>s, <1>t, <1>2, <2>2 DEF SubmitSucceeded, Importable, TypeOK, leaseVars, Sound, VerdictKept
    <3> QED
      BY <3>1, <3>2, <3>3 DEF Sound
  <2> QED
    BY <2>1, <2>2
<1>3. ASSUME NEW s \in Sessions, NEW ticks \in LeaseTicks,
             NEW dead \in SUBSET Exhausted(txAge[s]), NEW batch \in SUBSET Claimable(txAge[s]),
             Claim(s, ticks, dead, batch)
      PROVE  Sound(u)'
  <2>1. CASE u \in dead
    <3>0. u \notin batch
      BY <1>t, <2>1 DEF Exhausted, Claimable
    <3>1. /\ status'[u] = "dead_letter" /\ token'[u] = 0 /\ attempts'[u] = attempts[u]
          /\ budget'[u] = Larger(budget[u], attempts[u])
          /\ log'[u] = CloseAttempts(u, "lease_expired")
          /\ accepted' = accepted /\ result' = result
      BY <1>3, <2>1, <3>0 DEF Claim
    <3>2. attempts[u] = budget[u] /\ status[u] \in {"queued"} \cup Active
      BY <1>s, <1>t, <2>1 DEF Exhausted, Ready, Sound, WithinBudget
    <3>3. LogAgrees(u)'
      <4>1. /\ Len(CloseAttempts(u, "lease_expired")) = attempts[u]
            /\ \A n \in 1..attempts[u] : /\ ~CloseAttempts(u, "lease_expired")[n].open
                                         /\ CloseAttempts(u, "lease_expired")[n].status \notin Active
        BY <1>s, <1>t, <1>c, ClosingAll DEF Sound
      <4> QED
        BY <3>1, <4>1 DEF LogAgrees, Active
    <3>4. WithinBudget(u)' /\ TokenNewest(u)' /\ VerdictKept(u)'
      BY <1>s, <1>t, <3>1, <3>2
         DEF Sound, WithinBudget, TokenNewest, VerdictKept, Larger, Active
    <3> QED
      BY <3>3, <3>4 DEF Sound
  <2>2. CASE u \notin dead /\ u \in batch
    <3> DEFINE closed == CloseAttempts(u, "lease_expired")
    <3>1. /\ status'[u] = "leased" /\ attempts'[u] = attempts[u] + 1
          /\ token'[u] = attempts[u] + 1 /\ budget'[u] = budget[u]
          /\ log'[u] = Append(closed, [status |-> "leased", open |-> TRUE])
          /\ accepted' = accepted /\ result' = result
      BY <1>3, <2>2 DEF Claim
    <3>2. attempts[u] < budget[u] /\ status[u] \in {"queued"} \cup Active
      BY <2>2 DEF Claimable, Ready
    <3>3. /\ closed \in Seq(Attempt) /\ Len(closed) = attempts[u]
          /\ \A n \in 1..attempts[u] : ~closed[n].open /\ closed[n].status \notin Active
      BY <1>s, <1>t, <1>c, ClosingAll DEF Sound
    <3> HIDE DEF closed
    <3>4. LogAgrees(u)'
      BY <1>t, <3>1, <3>3, OpeningLog
    <3>5. WithinBudget(u)' /\ TokenNewest(u)' /\ VerdictKept(u)'
      BY <1>s, <1>t, <3>1, <3>2
         DEF Sound, WithinBudget, TokenNewest, VerdictKept, Active
    <3> QED
      BY <3>4, <3>5 DEF Sound
  <2>3. CASE u \notin dead /\ u \notin batch
    BY <1>s, <1>3, <2>3, UntouchedSound DEF Claim, Untouched
  <2> QED
    BY <2>1, <2>2, <2>3
<1>4. ASSUME NEW s \in Sessions, NEW t \in Tasks, NEW n \in DOMAIN log[t], WorkerRequest(s, t, n)
      PROVE  Sound(u)'
  <2>1. ASSUME NEW ticks \in LeaseTicks, Heartbeat(s, t, n, ticks) PROVE Sound(u)'
    <3>1. CASE u # t
      BY <1>s, <2>1, <3>1, UntouchedSound DEF Heartbeat, Untouched, TypeOK
    <3>2. CASE u = t
      <4>1. /\ status[u] \in Active /\ status'[u] = "running" /\ attempts' = attempts
            /\ budget' = budget /\ token' = token /\ accepted' = accepted /\ result' = result
            /\ log'[u] = SetAttempt(u, [status |-> "running", open |-> CurrentOpen(u)])
        BY <2>1, <3>2 DEF Heartbeat, HoldsLease, TypeOK
      <4>2. attempts[u] \in 1..Len(log[u]) /\ CurrentOpen(u)
        BY <1>s, <1>t, <4>1 DEF Sound, LogAgrees, TokenNewest, CurrentOpen
      <4>3. CurrentOpen(u) \in BOOLEAN
        BY <1>t, <4>2, ElementOfSeq DEF CurrentOpen, Attempt
      <4>4. LogAgrees(u)'
        <5> DEFINE a == [status |-> "running", open |-> CurrentOpen(u)]
        <5>1. a \in Attempt /\ a.open /\ a.status \in Active /\ "running" \in Active
          BY <4>2, <4>3 DEF Attempt, AttemptStatuses, Active
        <5>2. log'[u] = SetAttempt(u, a)
          BY <4>1
        <5> HIDE DEF a
        <5> QED
          BY <1>s, <1>t, <4>1, <4>2, <5>1, <5>2, MarkedLog DEF Sound
      <4> QED
        BY <1>s, <4>1, <4>4 DEF Sound, WithinBudget, TokenNewest, VerdictKept, Active
    <3> QED
      BY <3>1, <3>2
  <2>2. ASSUME NEW r \in Results, Complete(s, t, n, r) PROVE Sound(u)'
    <3>1. CASE u # t
      BY <1>s, <2>2, <3>1, UntouchedSound DEF Complete, Untouched, TypeOK, leaseVars
    <3>2. CASE u = t
      <4>1. /\ status[u] \in Active /\ token[u] = n /\ status'[u] = "succeeded"
            /\ attempts' = attempts /\ budget' = budget /\ token' = token
            /\ log'[u] = SetAttempt(u, Closed("succeeded")) /\ result'[u] = r
            /\ accepted'[u] = accepted[u] \cup {[by |-> n, result |-> r]}
        BY <2>2, <3>2 DEF Complete, HoldsLease, TypeOK, leaseVars
      <4>2. LogAgrees(u)'
        BY <1>s, <1>t, <1>c, <4>1, ClosingLog DEF Sound, TokenNewest, Active
      <4> QED
        BY <1>s, <4>1, <4>2 DEF Sound, WithinBudget, TokenNewest, VerdictKept, Active
    <3> QED
      BY <3>1, <3>2
  <2>3. ASSUME NEW r \in Results, CompleteAgain(s, t, n, r) PROVE Sound(u)'
    <3>1. accepted'[u] = accepted[u]
      BY <1>s, <2>3 DEF CompleteAgain, TypeOK, Sound, VerdictKept
    <3> QED
      BY <1>s, <2>3, <3>1, UntouchedSound DEF CompleteAgain, Untouched, leaseVars
  <2>4. ASSUME NEW ticks \in RetryTicks, FailRetry(s, t, n, ticks) PROVE Sound(u)'
    <3>1. CASE u # t
      BY <1>s, <2>4, <3>1, UntouchedSound DEF FailRetry, ClearLease, Untouched, TypeOK
    <3>2. CASE u = t
      <4>1. /\ status[u] \in Active /\ status'[u] = "queued" /\ attempts[u] < budget[u]
            /\ attempts' = attempts /\ budget' = budget /\ token'[u] = 0
            /\ log'[u] = SetAttempt(u, Closed("failed"))
            /\ accepted' = accepted /\ result' = result
        BY <2>4, <3>2 DEF FailRetry, ClearLease, HoldsLease, TypeOK
      <4>2. LogAgrees(u)'
        BY <1>s, <1>t, <1>c, <4>1, ClosingLog DEF Sound, TokenNewest, Active
      <4> QED
        BY <1>s, <4>1, <4>2 DEF Sound, WithinBudget, TokenNewest, VerdictKept, Active
    <3> QED
      BY <3>1, <3>2
  <2>5. ASSUME NEW retryable \in BOOLEAN, FailEnd(s, t, n, retryable) PROVE Sound(u)'
    <3>1. CASE u # t
      BY <1>s, <2>5, <3>1, UntouchedSound DEF FailEnd, Untouched, TypeOK, leaseVars
    <3>2. CASE u = t
      <4>1. /\ status[u] \in Active /\ status'[u] \in Stopped
            /\ status'[u] = "dead_letter" => attempts[u] >= budget[u]
            /\ attempts' = attempts /\ budget' = budget /\ token' = token
            /\ log'[u] = SetAttempt(u, Closed("failed"))
            /\ accepted' = accepted /\ result' = result
        BY <2>5, <3>2 DEF FailEnd, HoldsLease, TypeOK, leaseVars, Stopped
      <4>2. LogAgrees(u)'
        BY <1>s, <1>t, <1>c, <4>1, ClosingLog DEF Sound, TokenNewest, Active, Stopped
      <4> QED
        BY <1>s, <1>t, <4>1, <4>2
           DEF Sound, WithinBudget, TokenNewest, VerdictKept, Active, Stopped
    <3> QED
      BY <3>1, <3>2
  <2> QED
    BY <1>4, <2>1, <2>2, <2>3, <2>4, <2>5 DEF WorkerRequest
<1>5. ASSUME NEW t \in Tasks, Cancel(t) PROVE Sound(u)'
  <2>1. CASE u # t
    BY <1>s, <1>5, <2>1, UntouchedSound DEF Cancel, Untouched, TypeOK, leaseVars
  <2>2. CASE u = t
    <3>1. /\ status[u] \in {"queued"} \cup Active /\ status'[u] = "cancelled"
          /\ attempts' = attempts /\ budget' = budget /\ token' = token
          /\ accepted' = accepted /\ result' = result
      BY <1>5, <2>2 DEF Cancel, TypeOK, leaseVars
    <3>2. LogAgrees(u)'
      <4>1. CASE attempts[u] # 0 /\ CurrentOpen(u)
        <5>1. log'[u] = SetAttempt(u, Closed("cancelled"))
          BY <1>5, <2>2, <4>1 DEF Cancel, TypeOK
        <5> QED
          BY <1>s, <1>t, <1>c, <3>1, <4>1, <5>1, ClosingLog DEF Sound, Active
      <4>2. CASE ~(attempts[u] # 0 /\ CurrentOpen(u))
        <5>1. log' = log
          BY <1>5, <2>2, <4>2 DEF Cancel
        <5>2. status[u] \notin Active
          BY <1>s, <1>t, <4>2 DEF Sound, LogAgrees, TokenNewest, CurrentOpen
        <5> QED
          BY <1>s, <3>1, <5>1, <5>2 DEF Sound, LogAgrees, Active
      <4> QED
        BY <4>1, <4>2
    <3> QED
      BY <1>s, <3>1, <3>2 DEF Sound, WithinBudget, TokenNewest, VerdictKept, Active
  <2> QED
    BY <2>1, <2>2
<1>6. ASSUME NEW t \in Tasks, Requeue(t) PROVE Sound(u)'
  <2>1. CASE u # t
    BY <1>s, <1>6, <2>1, UntouchedSound DEF Requeue, ClearLease, Untouched, TypeOK
  <2>2. CASE u = t
    <3>1. /\ status[u] \in Stopped /\ status'[u] = "queued" /\ log' = log
          /\ attempts' = attempts /\ budget'[u] = Larger(budget[u], attempts[u] + 1)
          /\ token'[u] = 0 /\ accepted' = accepted /\ result' = result
      BY <1>6, <2>2 DEF Requeue, ClearLease, TypeOK
    <3>2. LogAgrees(u)' /\ TokenNewest(u)' /\ VerdictKept(u)'
      BY <1>s, <3>1 DEF Sound, LogAgrees, TokenNewest, VerdictKept, Active, Stopped
    <3>3. WithinBudget(u)'
      BY <1>t, <3>1 DEF WithinBudget, Larger
    <3> QED
      BY <3>2, <3>3 DEF Sound
  <2> QED
    BY <2>1, <2>2
<1>7. ASSUME NEW t \in Tasks, ReconcileImport(t) PROVE Sound(u)'
  <2>1. CASE u # t
    BY <1>s, <1>7, <2>1, UntouchedSound DEF ReconcileImport, ClearLease, Untouched, TypeOK
  <2>2. CASE u = t
    <3>1. /\ status[u] \in Active /\ status'[u] = "dead_letter" /\ attempts[u] >= budget[u]
          /\ attempts' = attempts /\ budget' = budget /\ token'[u] = 0
          /\ log'[u] = SetAttempt(u, Closed("lease_expired"))
          /\ accepted' = accepted /\ result' = result
      BY <1>7, <2>2 DEF ReconcileImport, ClearLease, TypeOK
    <3>2. LogAgrees(u)'
      BY <1>s, <1>t, <1>c, <3>1, ClosingLog DEF Sound, TokenNewest, Active
    <3> QED
      BY <1>s, <1>t, <3>1, <3>2 DEF Sound, WithinBudget, TokenNewest, VerdictKept, Active
  <2> QED
    BY <2>1, <2>2
<1>8. ASSUME \/ Tick \/ UNCHANGED vars
             \/ \E s \in Sessions : BeginTx(s) \/ Rollback(s)
      PROVE  Sound(u)'
  <2>1. Untouched(u)
    BY <1>8 DEF Tick, BeginTx, Rollback, vars, leaseVars, Untouched
  <2> QED
    BY <1>s, <2>1, UntouchedSound
<1>9. ASSUME NEW s \in Sessions, SomeClaim(s) PROVE Sound(u)'
  BY <1>3, <1>9 DEF SomeClaim
<1> QED
  BY <1>1, <1>2, <1>4, <1>5, <1>6, <1>7, <1>8, <1>9 DEF Next

(* Soundness is kept for ever, whatever the schedule of workers, clocks,   *)
(* crashes, resends, cancels and requeues.                                 *)
THEOREM AlwaysSound == Spec => []IInv
<1>1. Init /\ TypeOK => IInv
  BY DEF Init, TypeOK, IInv, Sound, LogAgrees, WithinBudget, TokenNewest, VerdictKept,
         Active
<1> QED
  BY <1>1, TypeCorrect, Inductive, PTL DEF Spec

(* What callers were told, and what the task row holds, never disagree:    *)
(* resent, delayed and raced completions yield one accepted result.        *)
THEOREM OneResult == Spec => []OneAcceptedResult
<1>1. ASSUME IInv, NEW t \in Tasks, NEW v \in accepted[t]
      PROVE  accepted[t] = {v} /\ status[t] = "succeeded" /\ result[t] = v.result
  <2>1. VerdictKept(t)
    BY <1>1 DEF IInv, Sound
  <2>2. status[t] = "succeeded" /\ v = [by |-> token[t], result |-> result[t]]
    BY <2>1 DEF VerdictKept
  <2> QED
    BY <2>1, <2>2 DEF VerdictKept
<1>2. IInv => OneAcceptedResult
  BY <1>1 DEF OneAcceptedResult
<1> QED
  BY <1>2, AlwaysSound, PTL

(* The attempt table always tells the story of the task table.             *)
THEOREM AttemptsTell == Spec => []AttemptsAgree
<1>1. IInv => AttemptsAgree
  BY DEF IInv, Sound, AttemptsAgree
<1> QED
  BY <1>1, AlwaysSound, PTL

(* The attempt budget is kept, and a task is declared dead only when it is *)
(* used up.                                                                *)
THEOREM BudgetRespected == Spec => []BudgetKept
<1>1. IInv => BudgetKept
  BY DEF IInv, Sound, BudgetKept
<1> QED
  BY <1>1, AlwaysSound, PTL

(* A step that is neither a claim nor an end of the task leaves its        *)
(* attempts alone and does not declare it dead.                            *)
Kept(t) ==
  /\ attempts'[t] = attempts[t]
  /\ status'[t] = "dead_letter" => (status[t] = "dead_letter" \/ token'[t] # 0)

(* A claim with a stale timestamp, a reconciler, or anybody else takes a   *)
(* task from its holder only after the lease has run out.                  *)
THEOREM LeasesRespected == Spec => NoEarlySteal
<1> USE ConstantsOK DEF ConstantsOK
<1> DEFINE Respected(u) ==
      /\ status[u] \in Active
      /\ \/ attempts'[u] > attempts[u]
         \/ status'[u] = "dead_letter" /\ token'[u] = 0
      => leaseLeft[u] < 0
<1>1. ASSUME TypeOK, [Next]_vars, NEW u \in Tasks PROVE Respected(u)
  <2>k. Kept(u) => Respected(u)
    BY <1>1 DEF Kept, TypeOK, Active
  <2>n. \A t \in Tasks : \A n \in DOMAIN log[t] : n \in Nat
    BY <1>1 DEF TypeOK
  <2>1. ASSUME NEW t \in Tasks, NEW b \in Budgets, Submit(t, b) PROVE Kept(u)
    BY <1>1, <2>1 DEF Submit, Kept, TypeOK
  <2>2. ASSUME NEW t \in Tasks, NEW b \in Budgets, NEW r \in Results, SubmitSucceeded(t, b, r)
        PROVE  Kept(u)
    BY <1>1, <2>2 DEF SubmitSucceeded, Kept, TypeOK
  <2>3. ASSUME NEW s \in Sessions, txAge[s] # Idle, SomeClaim(s) PROVE Respected(u)
    <3>1. PICK ticks \in LeaseTicks, dead \in SUBSET Exhausted(txAge[s]),
               batch \in SUBSET Claimable(txAge[s]) : Claim(s, ticks, dead, batch)
      BY <2>3 DEF SomeClaim
    <3>2. txAge[s] \in Nat
      BY <1>1, <2>3 DEF TypeOK, Idle
    <3>3. CASE u \in dead \cup batch
      <4>1. Ready(u, txAge[s])
        BY <3>3 DEF Exhausted, Claimable
      <4>2. leaseLeft[u] \in Int
        BY <1>1 DEF TypeOK
      <4> QED
        BY <3>2, <4>1, <4>2 DEF Ready, LeaseExpired, Active
    <3>4. CASE u \notin dead \cup batch
      <4>1. Kept(u)
        BY <1>1, <3>1, <3>4 DEF Claim, Kept, TypeOK
      <4> QED
        BY <2>k, <4>1
    <3> QED
      BY <3>3, <3>4
  <2>4. ASSUME NEW s \in Sessions, NEW t \in Tasks, NEW n \in DOMAIN log[t], WorkerRequest(s, t, n)
        PROVE  Kept(u)
    <3>1. ASSUME NEW ticks \in LeaseTicks, Heartbeat(s, t, n, ticks) PROVE Kept(u)
      BY <1>1, <3>1 DEF Heartbeat, Kept, TypeOK
    <3>2. ASSUME NEW r \in Results, Complete(s, t, n, r) \/ CompleteAgain(s, t, n, r) PROVE Kept(u)
      BY <1>1, <3>2 DEF Complete, CompleteAgain, leaseVars, Kept, TypeOK
    <3>3. ASSUME NEW ticks \in RetryTicks, FailRetry(s, t, n, ticks) PROVE Kept(u)
      BY <1>1, <3>3 DEF FailRetry, Kept, TypeOK
    <3>4. ASSUME NEW retryable \in BOOLEAN, FailEnd(s, t, n, retryable) PROVE Kept(u)
      <4>1. u = t => token[u] # 0
        BY <2>n, <3>4 DEF FailEnd, HoldsLease
      <4> QED
        BY <1>1, <3>4, <4>1 DEF FailEnd, leaseVars, Kept, TypeOK
    <3> QED
      BY <2>4, <3>1, <3>2, <3>3, <3>4 DEF WorkerRequest
  <2>5. ASSUME NEW t \in Tasks, Cancel(t) \/ Requeue(t) PROVE Kept(u)
    BY <1>1, <2>5 DEF Cancel, Requeue, leaseVars, Kept, TypeOK
  <2>6. ASSUME NEW t \in Tasks, ReconcileImport(t) PROVE Respected(u)
    <3>1. CASE u = t
      <4>1. leaseLeft[u] \in Int
        BY <1>1 DEF TypeOK
      <4> QED
        BY <2>6, <3>1, <4>1 DEF ReconcileImport, LeaseExpired
    <3>2. CASE u # t
      <4>1. Kept(u)
        BY <1>1, <2>6, <3>2 DEF ReconcileImport, Kept, TypeOK
      <4> QED
        BY <2>k, <4>1
    <3> QED
      BY <3>1, <3>2
  <2>7. ASSUME \/ Tick \/ UNCHANGED vars
               \/ \E s \in Sessions : BeginTx(s) \/ Rollback(s)
        PROVE  Kept(u)
    BY <2>7 DEF Tick, BeginTx, Rollback, vars, leaseVars, Kept
  <2> QED
    BY <1>1, <2>k, <2>1, <2>2, <2>3, <2>4, <2>5, <2>6, <2>7 DEF Next
<1>2. TypeOK /\ [Next]_vars =>
        [\A t \in Tasks :
           /\ status[t] \in Active
           /\ \/ attempts'[t] > attempts[t]
              \/ status'[t] = "dead_letter" /\ token'[t] = 0
           => leaseLeft[t] < 0]_vars
  BY <1>1
<1> QED
  BY <1>2, TypeCorrect, PTL DEF Spec, NoEarlySteal

-----------------------------------------------------------------------------
(* The runtime keeps, for each task, the promise FencedTask makes to those *)
(* who only know that tasks are leased under a fencing token.              *)

(* The phase of FencedTask each status of a task row stands for. *)
LEMMA PhaseNames ==
  /\ PhaseOf("absent") = "absent" /\ PhaseOf("queued") = "open"
  /\ \A st \in Active : PhaseOf(st) = "held"
  /\ \A st \in Stopped : PhaseOf(st) = "stopped"
  /\ PhaseOf("succeeded") = "settled" /\ PhaseOf("cancelled") = "withdrawn"
BY DEF PhaseOf, Active, Stopped

(* A step that shows nothing of task u to those who only know the promise. *)
Unseen(u) ==
  /\ PhaseOf(status'[u]) = PhaseOf(status[u])
  /\ attempts'[u] = attempts[u] /\ accepted'[u] = accepted[u]

Moves(u) == Unseen(u) \/ Fenced(u)!Next

(* Every step of the runtime is, for each task, a step of its promise or   *)
(* none at all: the token names the newest attempt (TokenNewest), so what  *)
(* Complete accepts was sent under the last grant, and a verdict once told *)
(* is never told differently (VerdictKept).                                *)
LEMMA StepFenced ==
  ASSUME TypeOK, IInv, [Next]_vars, NEW u \in Tasks
  PROVE  Moves(u)
<1> USE ConstantsOK DEF ConstantsOK
<1>s. /\ TokenNewest(u) /\ VerdictKept(u)
      /\ status[u] \in Statuses /\ attempts[u] \in Nat /\ token[u] \in Nat
      /\ accepted[u] \subseteq Verdict
  BY DEF IInv, Sound, TypeOK
<1>p. /\ status[u] = "queued" => PhaseOf(status[u]) = "open"
      /\ status[u] \in Active => PhaseOf(status[u]) = "held"
      /\ status[u] \in Stopped => PhaseOf(status[u]) = "stopped"
      /\ status[u] = "absent" => PhaseOf(status[u]) = "absent"
  BY PhaseNames
<1>n. \A t \in Tasks : \A n \in DOMAIN log[t] : n \in Nat
  BY DEF TypeOK
<1>1. ASSUME NEW t \in Tasks, NEW b \in Budgets, Submit(t, b) PROVE Moves(u)
  <2>1. CASE u = t
    <3>1. Fenced(u)!Submit
      BY <1>1, <1>p, <2>1, PhaseNames DEF Submit, TypeOK, Fenced!Submit
    <3> QED
      BY <3>1 DEF Moves, Fenced!Next
  <2>2. CASE u # t
    BY <1>1, <2>2 DEF Submit, TypeOK, Moves, Unseen
  <2> QED
    BY <2>1, <2>2
<1>2. ASSUME NEW t \in Tasks, NEW b \in Budgets, NEW r \in Results, SubmitSucceeded(t, b, r)
      PROVE  Moves(u)
  <2>1. CASE u = t /\ status[u] = "succeeded"
    <3>1. accepted'[u] = accepted[u]
      BY <1>2, <1>s, <2>1 DEF SubmitSucceeded, Importable, TypeOK, VerdictKept
    <3> QED
      BY <1>2, <2>1, <3>1 DEF SubmitSucceeded, TypeOK, Moves, Unseen
  <2>2. CASE u = t /\ status[u] # "succeeded"
    <3>1. status[u] \in {"absent", "queued"} /\ attempts[u] = 0 /\ token[u] = 0
      BY <1>2, <1>s, <2>2 DEF SubmitSucceeded, Importable, TokenNewest
    <3>2. accepted'[u] = {[by |-> 0, result |-> r]}
      BY <1>2, <1>s, <2>2, <3>1 DEF SubmitSucceeded, TypeOK, VerdictKept
    <3>3. Fenced(u)!Seed(r)
      BY <1>2, <1>p, <2>2, <3>1, <3>2, PhaseNames DEF SubmitSucceeded, TypeOK, Fenced!Seed
    <3> QED
      BY <3>3 DEF Moves, Fenced!Next
  <2>3. CASE u # t
    BY <1>2, <2>3 DEF SubmitSucceeded, TypeOK, Moves, Unseen
  <2> QED
    BY <2>1, <2>2, <2>3
<1>3. ASSUME NEW s \in Sessions, SomeClaim(s) PROVE Moves(u)
  <2>1. PICK ticks \in LeaseTicks, dead \in SUBSET Exhausted(txAge[s]),
             batch \in SUBSET Claimable(txAge[s]) : Claim(s, ticks, dead, batch)
    BY <1>3 DEF SomeClaim
  <2>2. u \in dead \cup batch => status[u] \in {"queued"} \cup Active
    BY DEF Exhausted, Claimable, Ready
  <2>3. CASE u \in dead
    <3>1. status'[u] = "dead_letter" /\ attempts'[u] = attempts[u] /\ accepted'[u] = accepted[u]
      <4>1. u \notin batch
        BY <2>3, <1>s DEF Exhausted, Claimable, TypeOK
      <4> QED
        BY <2>1, <2>3, <4>1 DEF Claim
    <3>2. Fenced(u)!Stop
      BY <1>p, <2>2, <2>3, <3>1, PhaseNames DEF Fenced!Stop, Stopped
    <3> QED
      BY <3>2 DEF Moves, Fenced!Next
  <2>4. CASE u \in batch \ dead
    <3>1. status'[u] = "leased" /\ attempts'[u] = attempts[u] + 1 /\ accepted'[u] = accepted[u]
      BY <2>1, <2>4 DEF Claim
    <3>2. Fenced(u)!Grant
      BY <1>p, <2>2, <2>4, <3>1, PhaseNames DEF Fenced!Grant, Active
    <3> QED
      BY <3>2 DEF Moves, Fenced!Next
  <2>5. CASE u \notin dead \cup batch
    BY <2>1, <2>5 DEF Claim, Moves, Unseen
  <2> QED
    BY <2>3, <2>4, <2>5
<1>4. ASSUME NEW s \in Sessions, NEW t \in Tasks, NEW n \in DOMAIN log[t], WorkerRequest(s, t, n)
      PROVE  Moves(u)
  <2>1. ASSUME NEW ticks \in LeaseTicks, Heartbeat(s, t, n, ticks) PROVE Moves(u)
    <3>1. CASE u = t
      BY <1>p, <2>1, <3>1, PhaseNames DEF Heartbeat, HoldsLease, TypeOK, Moves, Unseen, Active
    <3>2. CASE u # t
      BY <2>1, <3>2 DEF Heartbeat, TypeOK, Moves, Unseen
    <3> QED
      BY <3>1, <3>2
  <2>2. ASSUME NEW r \in Results, Complete(s, t, n, r) PROVE Moves(u)
    <3>1. CASE u = t
      <4>1. status[u] \in Active /\ n = attempts[u] /\ accepted[u] = {}
        BY <1>s, <2>2, <3>1 DEF Complete, HoldsLease, TokenNewest, VerdictKept, Active
      <4>2. accepted'[u] = {[by |-> attempts[u], result |-> r]}
        BY <2>2, <3>1, <4>1 DEF Complete, TypeOK
      <4>3. Fenced(u)!Accept(r)
        BY <1>p, <2>2, <3>1, <4>1, <4>2, PhaseNames DEF Complete, TypeOK, Fenced!Accept
      <4> QED
        BY <4>3 DEF Moves, Fenced!Next
    <3>2. CASE u # t
      BY <2>2, <3>2 DEF Complete, TypeOK, Moves, Unseen
    <3> QED
      BY <3>1, <3>2
  <2>3. ASSUME NEW r \in Results, CompleteAgain(s, t, n, r) PROVE Moves(u)
    <3>1. accepted'[u] = accepted[u]
      BY <1>s, <2>3 DEF CompleteAgain, TypeOK, VerdictKept
    <3> QED
      BY <2>3, <3>1 DEF CompleteAgain, Moves, Unseen
  <2>4. ASSUME NEW ticks \in RetryTicks, FailRetry(s, t, n, ticks) PROVE Moves(u)
    <3>1. CASE u = t
      <4>1. Fenced(u)!Release
        BY <1>p, <2>4, <3>1, PhaseNames DEF FailRetry, HoldsLease, TypeOK, Fenced!Release
      <4> QED
        BY <4>1 DEF Moves, Fenced!Next
    <3>2. CASE u # t
      BY <2>4, <3>2 DEF FailRetry, TypeOK, Moves, Unseen
    <3> QED
      BY <3>1, <3>2
  <2>5. ASSUME NEW retryable \in BOOLEAN, FailEnd(s, t, n, retryable) PROVE Moves(u)
    <3>1. CASE u = t
      <4>1. status'[u] \in Stopped /\ attempts'[u] = attempts[u] /\ accepted'[u] = accepted[u]
        BY <2>5, <3>1 DEF FailEnd, TypeOK, Stopped
      <4>2. Fenced(u)!Stop
        BY <1>p, <2>5, <3>1, <4>1, PhaseNames DEF FailEnd, HoldsLease, Fenced!Stop
      <4> QED
        BY <4>2 DEF Moves, Fenced!Next
    <3>2. CASE u # t
      BY <2>5, <3>2 DEF FailEnd, TypeOK, Moves, Unseen
    <3> QED
      BY <3>1, <3>2
  <2> QED
    BY <1>4, <2>1, <2>2, <2>3, <2>4, <2>5 DEF WorkerRequest
<1>5. ASSUME NEW t \in Tasks, Cancel(t) PROVE Moves(u)
  <2>1. CASE u = t
    <3>1. Fenced(u)!Withdraw
      BY <1>5, <1>p, <2>1, PhaseNames DEF Cancel, TypeOK, Fenced!Withdraw
    <3> QED
      BY <3>1 DEF Moves, Fenced!Next
  <2>2. CASE u # t
    BY <1>5, <2>2 DEF Cancel, TypeOK, Moves, Unseen
  <2> QED
    BY <2>1, <2>2
<1>6. ASSUME NEW t \in Tasks, Requeue(t) PROVE Moves(u)
  <2>1. CASE u = t
    <3>1. Fenced(u)!Reopen
      BY <1>6, <1>p, <2>1, PhaseNames DEF Requeue, TypeOK, Fenced!Reopen
    <3> QED
      BY <3>1 DEF Moves, Fenced!Next
  <2>2. CASE u # t
    BY <1>6, <2>2 DEF Requeue, TypeOK, Moves, Unseen
  <2> QED
    BY <2>1, <2>2
<1>7. ASSUME NEW t \in Tasks, ReconcileImport(t) PROVE Moves(u)
  <2>1. CASE u = t
    <3>1. Fenced(u)!Stop
      BY <1>7, <1>p, <2>1, PhaseNames DEF ReconcileImport, TypeOK, Fenced!Stop, Stopped
    <3> QED
      BY <3>1 DEF Moves, Fenced!Next
  <2>2. CASE u # t
    BY <1>7, <2>2 DEF ReconcileImport, TypeOK, Moves, Unseen
  <2> QED
    BY <2>1, <2>2
<1>8. ASSUME \/ Tick \/ UNCHANGED vars
             \/ \E s \in Sessions : BeginTx(s) \/ Rollback(s)
      PROVE  Moves(u)
  BY <1>8 DEF Tick, BeginTx, Rollback, vars, leaseVars, Moves, Unseen
<1> QED
  BY <1>1, <1>2, <1>3, <1>4, <1>5, <1>6, <1>7, <1>8 DEF Next

(* The detailed runtime, with its clock, its stale timestamps and its      *)
(* leases, keeps the promise FencedTask makes about each task: every step  *)
(* of claim, heartbeat, complete, fail, cancel, requeue and reconcile is a *)
(* step of that promise or changes nothing it speaks of.                   *)
THEOREM KeepsPromise == Spec => ImplementsFencedTask
<1>1. Init => \A t \in Tasks : Fenced(t)!Init
  BY PhaseNames DEF Init, Fenced!Init
<1>2. TypeOK /\ IInv /\ [Next]_vars =>
        [\A t \in Tasks : [Fenced(t)!Next]_(Fenced(t)!vars)]_vars
  BY StepFenced DEF Moves, Unseen, Fenced!vars
<1> QED
  BY <1>1, <1>2, TypeCorrect, AlwaysSound, PTL DEF Spec, ImplementsFencedTask
=============================================================================
