--------------------------- MODULE DoubleMarkProofs ---------------------------
(***************************************************************************)
(* Theorems about DoubleMark, for any people, scores and policies and any  *)
(* number of pairs of graders.                                             *)
(*                                                                         *)
(* A pair's story is told by five tables.  The invariant says, for each    *)
(* task, what its row, its mark, its transaction and its session know of   *)
(* each other, and in particular that a submission that has locked the     *)
(* session has seen the other mark as it is; for each session, which marks *)
(* and which arbitration its status stands for.                            *)
(***************************************************************************)
EXTENDS DoubleMark, TLAPS

TaskSound(t) ==
  /\ work[t] \in Open <=> stage[t[1]] # "absent" /\ mark[t] = NoMark
  /\ work[t] = "completed" <=> stage[t[1]] \in Closed
  /\ txPhase[t] # "none" => work[t] \in Open /\ draft[t] \in Scores
  /\ mark[t] # NoMark => mark[t].by = worker[t]
  /\ work[t] # "absent" => worker[t] \in People
  /\ txPhase[t] = "deciding" => saw[t] = mark[Other(t)] /\ txPhase[Other(t)] # "deciding"

SessionSound(s) ==
  /\ stage[s] \in {"absent", "pending"} <=> ~Marked(s, 1) /\ ~Marked(s, 2)
  /\ stage[s] = "first_submitted"  <=> Marked(s, 1) /\ ~Marked(s, 2)
  /\ stage[s] = "second_submitted" <=> Marked(s, 2) /\ ~Marked(s, 1)
  /\ arbStatus[s] \in {"pending", "assigned"} <=> stage[s] = "needs_arbitration"
  /\ arbStatus[s] = "submitted" <=> stage[s] = "arbitrated"
  /\ arbStatus[s] = "assigned" => arbiter[s] \in People
  /\ stage[s] \in {"needs_arbitration", "arbitrated"} =>
       MayDiffer(mark[<<s, 1>>].score, mark[<<s, 2>>].score, limit[s])

Sound ==
  /\ TypeOK
  /\ \A t \in Tasks : TaskSound(t)
  /\ \A s \in Sessions : SessionSound(s)

-----------------------------------------------------------------------------
(* The two tasks of a session. *)
LEMMA TaskPairs ==
  /\ \A s \in Sessions, i \in {1, 2} : <<s, i>> \in Tasks
  /\ \A t \in Tasks : /\ t[1] \in Sessions /\ t[2] \in {1, 2} /\ t = <<t[1], t[2]>>
                      /\ Other(t) \in Tasks /\ Other(t) # t /\ Other(Other(t)) = t
                      /\ Other(t)[1] = t[1] /\ Other(t)[2] # t[2] /\ Other(t)[2] \in {1, 2}
                      /\ t[2] = 1 => t = <<t[1], 1>> /\ Other(t) = <<t[1], 2>>
                      /\ t[2] = 2 => t = <<t[1], 2>> /\ Other(t) = <<t[1], 1>>
BY DEF Tasks, Other, Sessions

LEMMA Scored ==
  /\ \A p \in People, x \in Scores : [by |-> p, score |-> x] \in Marks /\ [by |-> p, score |-> x] # NoMark
  /\ \A m \in Marks \cup {NoMark} : m # NoMark => m.score \in Nat /\ m.score \in Scores /\ m.by \in People
  /\ NoMark \notin Marks
<1>1. NoMark \notin Marks /\ Scores \subseteq Nat
  BY ConstantsOK DEF ConstantsOK
<1>2. \A p \in People, x \in Scores : [by |-> p, score |-> x] \in Marks
  BY DEF Marks
<1>3. \A m \in Marks : m.score \in Nat /\ m.score \in Scores /\ m.by \in People
  BY <1>1 DEF Marks
<1> QED
  BY <1>1, <1>2, <1>3

(* What a strategy makes of two marks is a score. *)
LEMMA ResolvedTyped ==
  ASSUME NEW how \in Strategies, NEW a \in Nat, NEW b \in Nat
  PROVE  ResolveScore(how, a, b) \subseteq Nat
<1>1. (a + b) \div 2 \in Nat /\ (a + b + 1) \div 2 \in Nat
  OBVIOUS
<1>2. Larger(a, b) \in Nat /\ Smaller(a, b) \in Nat
  BY DEF Larger, Smaller
<1>3. CASE how = "average"
  BY <1>1, <1>3 DEF ResolveScore
<1>4. CASE how # "average"
  BY <1>2, <1>4 DEF ResolveScore, Strategies
<1> QED
  BY <1>3, <1>4

SessionTyped ==
  /\ policy \in Policies
  /\ stage \in [Sessions -> Stages]
  /\ named \in [Tasks -> People \cup {NoOne}]
  /\ limit \in [Sessions -> Nat] /\ strategy \in [Sessions -> Strategies]

TaskTyped ==
  /\ work \in [Tasks -> {"absent", "submitted", "completed"} \cup Open]
  /\ worker \in [Tasks -> People \cup {NoOne}]
  /\ mark \in [Tasks -> Marks \cup {NoMark}]

VerdictTyped ==
  /\ arbStatus \in [Sessions -> {"absent", "pending", "assigned", "submitted"}]
  /\ arbiter \in [Sessions -> People \cup {NoOne}]
  /\ arbSame \in [Sessions -> BOOLEAN] /\ arbScore \in [Sessions -> Nat]
  /\ finals \in Seq([session : Sessions, source : {"double_mark_auto", "arbitration"}, score : Nat])

TxTyped ==
  /\ txPhase \in [Tasks -> {"none", "marking", "deciding"}]
  /\ draft \in [Tasks -> Nat] /\ saw \in [Tasks -> Marks \cup {NoMark}]

LEMMA TypedParts == TypeOK <=> SessionTyped /\ TaskTyped /\ VerdictTyped /\ TxTyped
BY DEF TypeOK, SessionTyped, TaskTyped, VerdictTyped, TxTyped

LEMMA InitSound == Init => Sound
<1> SUFFICES ASSUME Init PROVE Sound
  OBVIOUS
<1>1. SessionTyped /\ TaskTyped /\ VerdictTyped /\ TxTyped
  <2>1. SessionTyped
    BY ConstantsOK DEF Init, ConstantsOK, SessionTyped, Stages, Strategies
  <2>2. TaskTyped
    BY DEF Init, TaskTyped
  <2>3. VerdictTyped
    BY DEF Init, VerdictTyped
  <2>4. TxTyped
    BY DEF Init, TxTyped
  <2> QED
    BY <2>1, <2>2, <2>3, <2>4
<1>2. ASSUME NEW t \in Tasks PROVE TaskSound(t)
  BY TaskPairs DEF Init, TaskSound, Open, Closed
<1>3. ASSUME NEW s \in Sessions PROVE SessionSound(s)
  BY TaskPairs DEF Init, SessionSound, Marked
<1> QED
  BY <1>1, <1>2, <1>3, TypedParts DEF Sound

-----------------------------------------------------------------------------
(* What a step does not touch stays as it was. *)
SameTask(t) ==
  /\ stage'[t[1]] = stage[t[1]] /\ work'[t] = work[t] /\ worker'[t] = worker[t]
  /\ mark'[t] = mark[t] /\ mark'[Other(t)] = mark[Other(t)]
  /\ txPhase'[t] = txPhase[t] /\ txPhase'[Other(t)] = txPhase[Other(t)]
  /\ draft'[t] = draft[t] /\ saw'[t] = saw[t]

SameSession(s) ==
  /\ stage'[s] = stage[s] /\ limit'[s] = limit[s]
  /\ mark'[<<s, 1>>] = mark[<<s, 1>>] /\ mark'[<<s, 2>>] = mark[<<s, 2>>]
  /\ arbStatus'[s] = arbStatus[s] /\ arbiter'[s] = arbiter[s]

LEMMA TaskKept == ASSUME NEW t \in Tasks, TaskSound(t), SameTask(t) PROVE TaskSound(t)'
BY DEF TaskSound, SameTask, Open, Closed, Other

LEMMA SessionKept ==
  ASSUME NEW s \in Sessions, SessionSound(s), SameSession(s) PROVE SessionSound(s)'
BY DEF SessionSound, SameSession, Marked, MayDiffer, Distance, Larger, Smaller, Exact

(* Managers. *)
LEMMA CreateSound ==
  ASSUME Sound, NEW s \in Sessions, NEW a \in People, NEW b \in People, CreateSession(s, a, b)
  PROVE  Sound'
<1>t. /\ TypeOK /\ SessionTyped /\ TaskTyped /\ VerdictTyped /\ TxTyped
      /\ (\A t \in Tasks : TaskSound(t)) /\ (\A z \in Sessions : SessionSound(z))
  BY TypedParts DEF Sound
<1>1. /\ stage[s] = "absent" /\ stage' = [stage EXCEPT ![s] = "pending"]
      /\ named' = [named EXCEPT ![<<s, 1>>] = a, ![<<s, 2>>] = b]
      /\ worker' = [worker EXCEPT ![<<s, 1>>] = a, ![<<s, 2>>] = b]
      /\ work' = [work EXCEPT ![<<s, 1>>] = "assigned", ![<<s, 2>>] = "assigned"]
      /\ limit' = [limit EXCEPT ![s] = policy.threshold]
      /\ strategy' = [strategy EXCEPT ![s] = policy.strategy]
      /\ UNCHANGED <<policy, mark, arbVars, finals, txVars>>
  BY DEF CreateSession
<1>2. policy \in Policy
  BY <1>t, ConstantsOK DEF SessionTyped, ConstantsOK
<1>3. SessionTyped'
  BY <1>t, <1>1, <1>2, TaskPairs DEF SessionTyped, Stages, Policy
<1>4. TaskTyped'
  BY <1>t, <1>1, TaskPairs DEF TaskTyped, Open
<1>5. VerdictTyped' /\ TxTyped'
  BY <1>t, <1>1 DEF VerdictTyped, TxTyped, arbVars, txVars
<1>6. \A t \in Tasks : t[1] # s => /\ work'[t] = work[t] /\ worker'[t] = worker[t]
                                   /\ stage'[t[1]] = stage[t[1]]
  BY <1>t, <1>1, TaskPairs DEF TaskTyped, SessionTyped
<1>7. \A t \in Tasks : t[1] = s => /\ work'[t] = "assigned" /\ worker'[t] \in People
                                   /\ stage'[t[1]] = "pending"
  BY <1>t, <1>1, TaskPairs DEF TaskTyped, SessionTyped
<1>8. ASSUME NEW t \in Tasks PROVE TaskSound(t)'
  <2>1. CASE t[1] # s
    BY <1>t, <1>1, <1>6, <2>1, TaskKept DEF SameTask, txVars
  <2>2. CASE t[1] = s
    <3>1. mark[t] = NoMark /\ txPhase[t] = "none"
      <4>1. ~Marked(s, 1) /\ ~Marked(s, 2)
        BY <1>t, <1>1 DEF SessionSound
      <4> QED
        BY <1>t, <1>1, <2>2, <4>1, TaskPairs DEF TaskSound, Marked, TxTyped
    <3> QED
      BY <1>t, <1>1, <1>7, <2>2, <3>1 DEF TaskSound, Open, Closed, txVars
  <2> QED
    BY <2>1, <2>2
<1>9. ASSUME NEW z \in Sessions PROVE SessionSound(z)'
  <2>1. CASE z # s
    BY <1>t, <1>1, <2>1, SessionKept DEF SameSession, SessionTyped, arbVars
  <2>2. CASE z = s
    <3>1. stage'[s] = "pending" /\ Marked(s, 1)' = Marked(s, 1) /\ Marked(s, 2)' = Marked(s, 2)
      BY <1>t, <1>1 DEF SessionTyped, Marked
    <3> QED
      BY <1>t, <1>1, <2>2, <3>1 DEF SessionSound, arbVars
  <2> QED
    BY <2>1, <2>2
<1> QED
  BY <1>3, <1>4, <1>5, <1>8, <1>9, TypedParts DEF Sound, TypeOK, SessionTyped, TaskTyped, VerdictTyped, TxTyped

(* Assigning and returning reach open tasks that no submission has locked. *)
LEMMA HandedOnSound ==
  ASSUME Sound,
         \/ \E p \in People, batch \in SUBSET Tasks : Assign(batch, p)
         \/ \E t \in Tasks : Return(t)
  PROVE  Sound'
<1>t. /\ TypeOK /\ SessionTyped /\ TaskTyped /\ VerdictTyped /\ TxTyped
      /\ (\A t \in Tasks : TaskSound(t)) /\ (\A z \in Sessions : SessionSound(z))
  BY TypedParts DEF Sound
<1> DEFINE Handed == \A t \in Tasks :
      \/ work'[t] = work[t] /\ worker'[t] = worker[t]
      \/ /\ work[t] \in Open /\ work'[t] \in Open
         /\ worker'[t] \in People \/ worker'[t] = worker[t]
<1>1. UNCHANGED <<policy, stage, policyVars, mark, arbVars, finals, txVars>> /\ TaskTyped' /\ Handed
  <2>1. ASSUME NEW p \in People, NEW batch \in SUBSET Tasks, Assign(batch, p)
        PROVE  UNCHANGED mark /\ TaskTyped' /\ Handed
    BY <1>t, <2>1 DEF Assign, TaskTyped, Open
  <2>2. ASSUME NEW t \in Tasks, Return(t)
        PROVE  UNCHANGED mark /\ TaskTyped' /\ Handed
    BY <1>t, <2>2 DEF Return, TaskTyped, Open
  <2> QED
    BY <2>1, <2>2 DEF Assign, Return
<1>2. SessionTyped' /\ VerdictTyped' /\ TxTyped'
  BY <1>t, <1>1 DEF SessionTyped, VerdictTyped, TxTyped, policyVars, arbVars, txVars
<1>3. ASSUME NEW t \in Tasks PROVE TaskSound(t)'
  <2>1. mark[t] # NoMark => work[t] \notin Open
    BY <1>t DEF TaskSound
  <2>2. work[t] \in Open => worker[t] \in People /\ work[t] # "completed"
    BY <1>t DEF TaskSound, Open
  <2> QED
    BY <1>t, <1>1, <2>1, <2>2 DEF TaskSound, Open, Closed, txVars, Other
<1>4. ASSUME NEW z \in Sessions PROVE SessionSound(z)'
  BY <1>t, <1>1, SessionKept DEF SameSession, policyVars, arbVars
<1> QED
  BY <1>1, <1>2, <1>3, <1>4, TypedParts DEF Sound, TypeOK, SessionTyped, TaskTyped, VerdictTyped, TxTyped

LEMMA PolicySound == ASSUME Sound, NEW p \in Policies, SetPolicy(p) PROVE Sound'
<1>t. /\ TypeOK /\ SessionTyped /\ TaskTyped /\ VerdictTyped /\ TxTyped
      /\ (\A t \in Tasks : TaskSound(t)) /\ (\A z \in Sessions : SessionSound(z))
  BY TypedParts DEF Sound
<1>1. UNCHANGED <<stage, policyVars, work, worker, mark, arbVars, finals, txVars>> /\ policy' \in Policies
  BY DEF SetPolicy
<1>2. TypeOK'
  BY <1>t, <1>1 DEF TypeOK, policyVars, arbVars, txVars
<1>3. ASSUME NEW t \in Tasks PROVE TaskSound(t)'
  BY <1>t, <1>1, TaskKept DEF SameTask, txVars
<1>4. ASSUME NEW z \in Sessions PROVE SessionSound(z)'
  BY <1>t, <1>1, SessionKept DEF SameSession, policyVars, arbVars
<1> QED
  BY <1>2, <1>3, <1>4 DEF Sound

-----------------------------------------------------------------------------
(* A submission takes its locks, and reads the other mark, or is lost. *)
LEMMA LockedSound ==
  ASSUME Sound, NEW t \in Tasks,
         (\E x \in Scores : LockTask(t, x)) \/ LockSession(t) \/ Abort(t)
  PROVE  Sound'
<1>t. /\ TypeOK /\ SessionTyped /\ TaskTyped /\ VerdictTyped /\ TxTyped
      /\ (\A u \in Tasks : TaskSound(u)) /\ (\A z \in Sessions : SessionSound(z))
  BY TypedParts DEF Sound
<1>1. /\ UNCHANGED <<policy, stage, policyVars, work, worker, mark, arbVars, finals>>
      /\ TxTyped'
      /\ \A u \in Tasks \ {t} : /\ txPhase'[u] = txPhase[u] /\ draft'[u] = draft[u]
                                /\ saw'[u] = saw[u]
  <2>1. UNCHANGED <<policy, stage, policyVars, work, worker, mark, arbVars, finals>>
    BY DEF LockTask, LockSession, Abort
  <2>2. TxTyped'
    BY <1>t, TaskPairs, ConstantsOK DEF LockTask, LockSession, Abort, EndTx, TxTyped, TaskTyped, ConstantsOK
  <2>3. \A u \in Tasks \ {t} : /\ txPhase'[u] = txPhase[u] /\ draft'[u] = draft[u]
                              /\ saw'[u] = saw[u]
    BY <1>t DEF LockTask, LockSession, Abort, EndTx, TxTyped
  <2> QED
    BY <2>1, <2>2, <2>3
<1>2. /\ txPhase'[t] # "none" => work[t] \in Open /\ draft'[t] \in Scores
      /\ txPhase'[t] = "deciding" => /\ saw'[t] = mark[Other(t)]
                                     /\ txPhase[Other(t)] # "deciding"
  <2>1. CASE \E x \in Scores : LockTask(t, x)
    BY <1>t, <2>1 DEF LockTask, TxTyped
  <2>2. CASE LockSession(t)
    <3>1. txPhase[Other(t)] # "deciding"
      BY <2>2, TaskPairs DEF LockSession, SessionFree
    <3> QED
      BY <1>t, <2>2, <3>1 DEF LockSession, TxTyped, TaskSound
  <2>3. CASE Abort(t)
    BY <1>t, <2>3 DEF Abort, EndTx, TxTyped
  <2> QED
    BY <2>1, <2>2, <2>3
<1>3. ASSUME NEW u \in Tasks PROVE TaskSound(u)'
  <2>1. CASE u = t
    <3>1. txPhase'[Other(t)] = txPhase[Other(t)] /\ mark'[Other(t)] = mark[Other(t)] /\ Other(t)' = Other(t)
      BY <1>1, TaskPairs DEF Other
    <3> QED
      BY <1>t, <1>1, <1>2, <2>1, <3>1 DEF TaskSound, Open, Closed
  <2>2. CASE u # t
    <3>1. CASE Other(u) # t
      BY <1>t, <1>1, <2>2, <3>1, TaskPairs, TaskKept DEF SameTask
    <3>2. CASE Other(u) = t
      <4>1. Other(t) = u /\ txPhase'[u] = txPhase[u] /\ draft'[u] = draft[u] /\ saw'[u] = saw[u]
        BY <1>1, <2>2, <3>2, TaskPairs
      <4>2. txPhase[u] = "deciding" => txPhase'[t] # "deciding"
        BY <1>2, <4>1
      <4> QED
        BY <1>t, <1>1, <3>2, <4>1, <4>2 DEF TaskSound, Open, Closed, Other
    <3> QED
      BY <3>1, <3>2
  <2> QED
    BY <2>1, <2>2
<1>4. ASSUME NEW z \in Sessions PROVE SessionSound(z)'
  BY <1>t, <1>1, SessionKept DEF SameSession, policyVars, arbVars
<1>5. SessionTyped' /\ TaskTyped' /\ VerdictTyped'
  BY <1>t, <1>1 DEF SessionTyped, TaskTyped, VerdictTyped, policyVars, arbVars
<1> QED
  BY <1>1, <1>3, <1>4, <1>5, TypedParts DEF Sound, TypeOK, SessionTyped, TaskTyped, VerdictTyped, TxTyped

(* Before it commits, a submission knows what its session knows. *)
LEMMA Deciding ==
  ASSUME Sound, NEW t \in Tasks, txPhase[t] = "deciding"
  PROVE  /\ mark[t] = NoMark /\ saw[t] = mark[Other(t)] /\ txPhase[Other(t)] # "deciding"
         /\ draft[t] \in Scores /\ worker[t] \in People
         /\ stage[t[1]] \in {"pending", "first_submitted", "second_submitted"}
         /\ saw[t] = NoMark => stage[t[1]] = "pending"
         /\ [by |-> worker[t], score |-> draft[t]] \in Marks
<1>t. /\ TypeOK /\ SessionTyped /\ TaskTyped /\ VerdictTyped /\ TxTyped
      /\ (\A u \in Tasks : TaskSound(u)) /\ (\A z \in Sessions : SessionSound(z))
  BY TypedParts DEF Sound
<1>1. /\ saw[t] = mark[Other(t)] /\ txPhase[Other(t)] # "deciding" /\ work[t] \in Open
      /\ draft[t] \in Scores /\ worker[t] \in People
      /\ mark[t] = NoMark /\ stage[t[1]] # "absent"
  BY <1>t DEF TaskSound, Open
<1>2. ~(Marked(t[1], 1) /\ Marked(t[1], 2)) /\ (saw[t] = NoMark => ~Marked(t[1], 1) /\ ~Marked(t[1], 2))
  BY <1>1, TaskPairs DEF Marked
<1>3. t[1] \in Sessions
  BY TaskPairs
<1>4. /\ stage[t[1]] \in {"pending", "first_submitted", "second_submitted"}
      /\ saw[t] = NoMark => stage[t[1]] = "pending"
  <2>1. CASE ~Marked(t[1], 1) /\ ~Marked(t[1], 2)
    BY <1>t, <1>1, <1>3, <2>1 DEF SessionSound
  <2>2. CASE Marked(t[1], 1) \/ Marked(t[1], 2)
    BY <1>t, <1>1, <1>2, <1>3, <2>2 DEF SessionSound
  <2> QED
    BY <2>1, <2>2
<1> QED
  BY <1>1, <1>4, Scored

(* What every commit does to the rows of its task, whatever it decides. *)
Committed(t) ==
  /\ mark' = [mark EXCEPT ![t] = [by |-> worker[t], score |-> draft[t]]]
  /\ EndTx(t)
  /\ UNCHANGED <<policy, policyVars, worker>>

LEMMA CommittedKept ==
  ASSUME Sound, NEW t \in Tasks, txPhase[t] = "deciding", Committed(t)
  PROVE  /\ TxTyped'
         /\ mark' \in [Tasks -> Marks \cup {NoMark}] /\ worker' \in [Tasks -> People \cup {NoOne}]
         /\ \A u \in Tasks \ {t} : /\ mark'[u] = mark[u] /\ txPhase'[u] = txPhase[u]
                                   /\ draft'[u] = draft[u] /\ saw'[u] = saw[u]
         /\ mark'[t] = [by |-> worker[t], score |-> draft[t]] /\ mark'[t] # NoMark
         /\ txPhase'[t] = "none"
<1>t. /\ TypeOK /\ SessionTyped /\ TaskTyped /\ VerdictTyped /\ TxTyped
      /\ (\A u \in Tasks : TaskSound(u)) /\ (\A z \in Sessions : SessionSound(z))
  BY TypedParts DEF Sound
<1>1. mark' = [mark EXCEPT ![t] = [by |-> worker[t], score |-> draft[t]]] /\ worker' = worker
  BY DEF Committed
<1>2. [by |-> worker[t], score |-> draft[t]] \in Marks /\ NoMark \notin Marks
  BY Deciding, Scored
<1>3. TxTyped' /\ txPhase'[t] = "none"
      /\ \A u \in Tasks \ {t} : /\ txPhase'[u] = txPhase[u] /\ draft'[u] = draft[u]
                                /\ saw'[u] = saw[u]
  BY <1>t DEF Committed, EndTx, TxTyped
<1> QED
  BY <1>t, <1>1, <1>2, <1>3 DEF TaskTyped

(* The tasks and the sessions that a commit does not decide. *)
LEMMA OthersKept ==
  ASSUME Sound, NEW t \in Tasks, txPhase[t] = "deciding", Committed(t),
         NEW status, stage' = [stage EXCEPT ![t[1]] = status],
         \A u \in Tasks : u[1] # t[1] => work'[u] = work[u],
         \A z \in Sessions \ {t[1]} : arbStatus'[z] = arbStatus[z] /\ arbiter'[z] = arbiter[z]
  PROVE  /\ \A u \in Tasks : u[1] # t[1] => TaskSound(u)'
         /\ \A z \in Sessions \ {t[1]} : SessionSound(z)'
<1>t. /\ TypeOK /\ SessionTyped /\ TaskTyped /\ VerdictTyped /\ TxTyped
      /\ (\A u \in Tasks : TaskSound(u)) /\ (\A z \in Sessions : SessionSound(z))
  BY TypedParts DEF Sound
<1>1. \A u \in Tasks \ {t} : /\ mark'[u] = mark[u] /\ txPhase'[u] = txPhase[u]
                             /\ draft'[u] = draft[u] /\ saw'[u] = saw[u]
  BY CommittedKept
<1>2. \A z \in Sessions \ {t[1]} : stage'[z] = stage[z]
  BY <1>t DEF SessionTyped
<1>3. ASSUME NEW u \in Tasks, u[1] # t[1] PROVE TaskSound(u)'
  <2>1. u # t /\ Other(u) \in Tasks \ {t} /\ u[1] \in Sessions \ {t[1]}
    BY <1>3, TaskPairs
  <2>2. SameTask(u)
    BY <1>1, <1>2, <1>3, <2>1 DEF SameTask, Committed
  <2> QED
    BY <1>t, <2>2, TaskKept
<1>4. ASSUME NEW z \in Sessions \ {t[1]} PROVE SessionSound(z)'
  <2>1. <<z, 1>> \in Tasks \ {t} /\ <<z, 2>> \in Tasks \ {t}
    BY <1>4, TaskPairs
  <2>2. SameSession(z)
    BY <1>1, <1>2, <2>1 DEF SameSession, Committed, policyVars
  <2> QED
    BY <1>t, <2>2, SessionKept
<1> QED
  BY <1>3, <1>4

(* The pair itself, when its tasks are not completed yet. *)
LEMMA CommitFirstSound == ASSUME Sound, NEW t \in Tasks, CommitFirst(t) PROVE Sound'
<1>t. /\ TypeOK /\ SessionTyped /\ TaskTyped /\ VerdictTyped /\ TxTyped
      /\ (\A u \in Tasks : TaskSound(u)) /\ (\A z \in Sessions : SessionSound(z))
  BY TypedParts DEF Sound
<1>1. /\ txPhase[t] = "deciding" /\ saw[t] = NoMark /\ Committed(t)
      /\ stage' = [stage EXCEPT ![t[1]] = IF t[2] = 1 THEN "first_submitted" ELSE "second_submitted"]
      /\ work' = [work EXCEPT ![t] = "submitted"]
      /\ UNCHANGED <<arbVars, finals>>
  BY DEF CommitFirst, KeepMark, Committed
<1>2. /\ mark[t] = NoMark /\ mark[Other(t)] = NoMark /\ txPhase[Other(t)] # "deciding"
      /\ worker[t] \in People /\ stage[t[1]] = "pending"
  BY <1>1, Deciding
<1>3. /\ t[1] \in Sessions /\ Other(t) \in Tasks \ {t} /\ Other(t)[1] = t[1]
      /\ \A u \in Tasks : u[1] = t[1] => u = t \/ u = Other(t)
      /\ Other(Other(t)) = t
  BY TaskPairs
<1>4. /\ TxTyped' /\ TaskTyped'
      /\ mark'[t] # NoMark /\ mark'[t].by = worker[t] /\ txPhase'[t] = "none"
      /\ \A u \in Tasks \ {t} : /\ mark'[u] = mark[u] /\ txPhase'[u] = txPhase[u]
                                /\ draft'[u] = draft[u] /\ saw'[u] = saw[u]
      /\ UNCHANGED <<policy, policyVars, worker>>
  BY <1>t, <1>1, CommittedKept DEF TaskTyped, Committed
<1>5. SessionTyped' /\ VerdictTyped'
  BY <1>t, <1>1, <1>3, <1>4 DEF SessionTyped, VerdictTyped, policyVars, arbVars, Stages
<1>6. /\ stage'[t[1]] \in {"first_submitted", "second_submitted"}
      /\ stage'[t[1]] = "first_submitted" <=> t[2] = 1
      /\ work'[t] = "submitted" /\ \A u \in Tasks \ {t} : work'[u] = work[u]
  BY <1>t, <1>1, <1>3 DEF SessionTyped, TaskTyped
<1>7. (\A u \in Tasks : u[1] # t[1] => TaskSound(u)') /\ (\A z \in Sessions \ {t[1]} : SessionSound(z)')
  BY <1>1, <1>6, OthersKept DEF arbVars
<1>8. TaskSound(t)'
  BY <1>2, <1>4, <1>6 DEF TaskSound, Open, Closed
<1>9. TaskSound(Other(t))'
  <2>1. TaskSound(Other(t))
    BY <1>t, <1>3
  <2> HIDE DEF TaskSound
  <2> DEFINE u == Other(t)
  <2>2. /\ u \in Tasks \ {t} /\ u[1] = t[1] /\ mark[u] = NoMark /\ txPhase[u] # "deciding"
    BY <1>2, <1>3
  <2>3. u' = u
    BY DEF Other
  <2> HIDE DEF u
  <2>4. TaskSound(u)'
    BY <1>2, <1>4, <1>6, <2>1, <2>2, <2>3 DEF TaskSound, Open, Closed, u
  <2> QED
    BY <2>4 DEF u
<1>10. SessionSound(t[1])'
  <2>1. /\ t[2] = 1 => Marked(t[1], 1)' /\ ~Marked(t[1], 2)'
        /\ t[2] # 1 => Marked(t[1], 2)' /\ ~Marked(t[1], 1)'
    BY <1>2, <1>3, <1>4, TaskPairs DEF Marked
  <2> QED
    BY <1>t, <1>1, <1>2, <1>3, <1>6, <2>1 DEF SessionSound, arbVars
<1> QED
  <2>1. (\A u \in Tasks : TaskSound(u)') /\ (\A z \in Sessions : SessionSound(z)')
    BY <1>3, <1>7, <1>8, <1>9, <1>10
  <2> QED
    BY <1>4, <1>5, <2>1, TypedParts DEF Sound, TypeOK, SessionTyped, TaskTyped, VerdictTyped, TxTyped

(* The second mark, next to the first. *)
LEMMA BothMarks ==
  ASSUME Sound, NEW t \in Tasks, txPhase[t] = "deciding", saw[t] # NoMark, Committed(t)
  PROVE  /\ Marked(t[1], 1)' /\ Marked(t[1], 2)'
         /\ mark'[<<t[1], 1>>].score = First(t) /\ mark'[<<t[1], 2>>].score = Second(t)
         /\ First(t) \in Nat /\ Second(t) \in Nat
<1>t. /\ TypeOK /\ SessionTyped /\ TaskTyped /\ VerdictTyped /\ TxTyped
      /\ (\A u \in Tasks : TaskSound(u)) /\ (\A z \in Sessions : SessionSound(z))
  BY TypedParts DEF Sound
<1>1. /\ mark'[t] = [by |-> worker[t], score |-> draft[t]] /\ mark'[t] # NoMark
      /\ mark'[Other(t)] = saw[t]
  <2>1. Other(t) \in Tasks \ {t} /\ saw[t] = mark[Other(t)]
    BY TaskPairs, Deciding
  <2> QED
    BY <2>1, CommittedKept
<1>2. draft[t] \in Nat /\ saw[t].score \in Nat
  BY <1>t, Scored DEF TxTyped
<1>3. CASE t[2] = 1
  <2>1. t = <<t[1], 1>> /\ Other(t) = <<t[1], 2>>
    BY <1>3, TaskPairs
  <2> QED
    BY <1>1, <1>2, <1>3, <2>1 DEF First, Second, Marked
<1>4. CASE t[2] # 1
  <2>1. t = <<t[1], 2>> /\ Other(t) = <<t[1], 1>>
    BY <1>4, TaskPairs
  <2> QED
    BY <1>1, <1>2, <1>4, <2>1 DEF First, Second, Marked
<1> QED
  BY <1>3, <1>4

LEMMA CommitAgreedSound == ASSUME Sound, NEW t \in Tasks, CommitAgreed(t) PROVE Sound'
<1>t. /\ TypeOK /\ SessionTyped /\ TaskTyped /\ VerdictTyped /\ TxTyped
      /\ (\A u \in Tasks : TaskSound(u)) /\ (\A z \in Sessions : SessionSound(z))
  BY TypedParts DEF Sound
<1>1. /\ txPhase[t] = "deciding" /\ saw[t] # NoMark /\ Committed(t)
      /\ stage' = [stage EXCEPT ![t[1]] = "auto_finalized"]
      /\ work' = CompleteTasks(t[1])
      /\ \E x \in ResolveScore(strategy[t[1]], First(t), Second(t)) :
           finals' = Append(finals, FinalGrade(t[1], "double_mark_auto", x))
      /\ UNCHANGED arbVars
  BY DEF CommitAgreed, KeepMark, Committed
<1>2. /\ t[1] \in Sessions /\ Other(t) \in Tasks \ {t} /\ Other(t)[1] = t[1]
      /\ \A u \in Tasks : u[1] = t[1] => u = <<t[1], 1>> \/ u = <<t[1], 2>>
      /\ <<t[1], 1>> \in Tasks /\ <<t[1], 2>> \in Tasks /\ <<t[1], 1>> # <<t[1], 2>>
      /\ \A u \in Tasks : u[1] = t[1] => u = t \/ u = Other(t)
  BY TaskPairs
<1>3. /\ stage'[t[1]] = "auto_finalized"
      /\ stage[t[1]] \in {"pending", "first_submitted", "second_submitted"}
      /\ txPhase[Other(t)] # "deciding" /\ mark[Other(t)] # NoMark /\ mark[t] = NoMark
      /\ worker[t] \in People
  BY <1>t, <1>1, <1>2, Deciding DEF SessionTyped
<1>4. /\ \A u \in Tasks : u[1] # t[1] => work'[u] = work[u]
      /\ \A u \in Tasks : u[1] = t[1] => work'[u] = "completed"
      /\ work' \in [Tasks -> {"absent", "submitted", "completed"} \cup Open]
  BY <1>t, <1>1, <1>2 DEF CompleteTasks, TaskTyped
<1>5. /\ TxTyped' /\ TaskTyped'
      /\ mark'[t] # NoMark /\ mark'[t].by = worker[t] /\ txPhase'[t] = "none"
      /\ \A u \in Tasks \ {t} : /\ mark'[u] = mark[u] /\ txPhase'[u] = txPhase[u]
                                /\ draft'[u] = draft[u] /\ saw'[u] = saw[u]
      /\ UNCHANGED <<policy, policyVars, worker>>
  BY <1>1, <1>4, CommittedKept DEF TaskTyped, Committed
<1>6. finals' \in Seq([session : Sessions, source : {"double_mark_auto", "arbitration"}, score : Nat])
  <2>1. PICK x \in ResolveScore(strategy[t[1]], First(t), Second(t)) :
          finals' = Append(finals, FinalGrade(t[1], "double_mark_auto", x))
    BY <1>1
  <2>2. x \in Nat
    BY <1>t, <1>1, <1>2, BothMarks, ResolvedTyped DEF SessionTyped
  <2> QED
    BY <1>t, <1>2, <2>1, <2>2 DEF VerdictTyped, FinalGrade
<1>7. SessionTyped' /\ VerdictTyped'
  BY <1>t, <1>1, <1>2, <1>5, <1>6 DEF SessionTyped, VerdictTyped, policyVars, arbVars, Stages, Closed
<1>8. (\A u \in Tasks : u[1] # t[1] => TaskSound(u)') /\ (\A z \in Sessions \ {t[1]} : SessionSound(z)')
  <2>1. \A z \in Sessions \ {t[1]} : arbStatus'[z] = arbStatus[z] /\ arbiter'[z] = arbiter[z]
    BY <1>1 DEF arbVars
  <2>2. /\ txPhase[t] = "deciding" /\ Committed(t)
        /\ stage' = [stage EXCEPT ![t[1]] = "auto_finalized"]
    BY <1>1
  <2>3. \A u \in Tasks : u[1] # t[1] => work'[u] = work[u]
    BY <1>4
  <2> QED
    BY <2>1, <2>2, <2>3, OthersKept
<1>9. TaskSound(t)'
  BY <1>3, <1>4, <1>5 DEF TaskSound, Open, Closed
<1>10. ASSUME NEW u \in Tasks, u = Other(t) PROVE TaskSound(u)'
  <2>1. /\ txPhase[u] # "deciding" /\ mark[u] # NoMark /\ u[1] = t[1] /\ u # t
        /\ TaskSound(u) /\ txPhase[u] = "none"
    BY <1>t, <1>2, <1>3, <1>10 DEF TaskSound, TxTyped
  <2>2. mark[u].by \in People
    BY <1>t, <2>1, Scored DEF TaskTyped
  <2> QED
    BY <1>3, <1>4, <1>5, <2>1, <2>2 DEF TaskSound, Open, Closed
<1>11. SessionSound(t[1])'
  <2>1. Marked(t[1], 1)' /\ Marked(t[1], 2)'
    BY <1>1, BothMarks
  <2> QED
    BY <1>t, <1>1, <1>2, <1>3, <2>1 DEF SessionSound, arbVars
<1> QED
  <2>1. (\A u \in Tasks : TaskSound(u)') /\ (\A z \in Sessions : SessionSound(z)')
    BY <1>2, <1>8, <1>9, <1>10, <1>11
  <2> QED
    BY <1>5, <1>7, <2>1, TypedParts DEF Sound, TypeOK, SessionTyped, TaskTyped, VerdictTyped, TxTyped

LEMMA CommitDisputedSound == ASSUME Sound, NEW t \in Tasks, CommitDisputed(t) PROVE Sound'
<1>t. /\ TypeOK /\ SessionTyped /\ TaskTyped /\ VerdictTyped /\ TxTyped
      /\ (\A u \in Tasks : TaskSound(u)) /\ (\A z \in Sessions : SessionSound(z))
  BY TypedParts DEF Sound
<1>1. /\ txPhase[t] = "deciding" /\ saw[t] # NoMark /\ Committed(t)
      /\ MayDiffer(First(t), Second(t), limit[t[1]])
      /\ stage' = [stage EXCEPT ![t[1]] = "needs_arbitration"]
      /\ arbStatus' = [arbStatus EXCEPT ![t[1]] = "pending"]
      /\ arbSame' = [arbSame EXCEPT ![t[1]] = policy.allowSame]
      /\ work' = [work EXCEPT ![t] = "submitted"]
      /\ UNCHANGED <<arbiter, arbScore, finals>>
  BY DEF CommitDisputed, KeepMark, Committed
<1>2. /\ t[1] \in Sessions /\ Other(t) \in Tasks \ {t} /\ Other(t)[1] = t[1]
      /\ \A u \in Tasks : u[1] = t[1] => u = t \/ u = Other(t)
  BY TaskPairs
<1>3. /\ stage'[t[1]] = "needs_arbitration" /\ arbStatus'[t[1]] = "pending"
      /\ stage[t[1]] \in {"pending", "first_submitted", "second_submitted"}
      /\ txPhase[Other(t)] # "deciding" /\ mark[Other(t)] # NoMark /\ mark[t] = NoMark
      /\ worker[t] \in People
      /\ work'[t] = "submitted" /\ \A u \in Tasks \ {t} : work'[u] = work[u]
  BY <1>t, <1>1, <1>2, Deciding DEF SessionTyped, VerdictTyped, TaskTyped
<1>4. /\ TxTyped' /\ TaskTyped'
      /\ mark'[t] # NoMark /\ mark'[t].by = worker[t] /\ txPhase'[t] = "none"
      /\ \A u \in Tasks \ {t} : /\ mark'[u] = mark[u] /\ txPhase'[u] = txPhase[u]
                                /\ draft'[u] = draft[u] /\ saw'[u] = saw[u]
      /\ UNCHANGED <<policy, policyVars, worker>>
  BY <1>t, <1>1, CommittedKept DEF TaskTyped, Committed
<1>5. policy \in Policy
  BY <1>t, ConstantsOK DEF SessionTyped, ConstantsOK
<1>6. SessionTyped' /\ VerdictTyped'
  BY <1>t, <1>1, <1>2, <1>4, <1>5 DEF SessionTyped, VerdictTyped, policyVars, arbVars, Stages, Policy
<1>7. (\A u \in Tasks : u[1] # t[1] => TaskSound(u)') /\ (\A z \in Sessions \ {t[1]} : SessionSound(z)')
  <2>1. \A z \in Sessions \ {t[1]} : arbStatus'[z] = arbStatus[z] /\ arbiter'[z] = arbiter[z]
    BY <1>t, <1>1 DEF VerdictTyped
  <2>2. /\ txPhase[t] = "deciding" /\ Committed(t)
        /\ stage' = [stage EXCEPT ![t[1]] = "needs_arbitration"]
    BY <1>1
  <2>3. \A u \in Tasks : u[1] # t[1] => work'[u] = work[u]
    BY <1>3
  <2> QED
    BY <2>1, <2>2, <2>3, OthersKept
<1>8. TaskSound(t)'
  BY <1>3, <1>4 DEF TaskSound, Open, Closed
<1>9. ASSUME NEW u \in Tasks, u = Other(t) PROVE TaskSound(u)'
  <2>1. /\ mark[u] # NoMark /\ u[1] = t[1] /\ u # t /\ TaskSound(u) /\ txPhase[u] = "none"
    BY <1>t, <1>2, <1>3, <1>9 DEF TaskSound, TxTyped
  <2> QED
    BY <1>3, <1>4, <2>1 DEF TaskSound, Open, Closed
<1>10. SessionSound(t[1])'
  <2>1. Marked(t[1], 1)' /\ Marked(t[1], 2)' /\ mark'[<<t[1], 1>>].score = First(t)
        /\ mark'[<<t[1], 2>>].score = Second(t) /\ limit' = limit
    BY <1>1, <1>4, BothMarks DEF policyVars
  <2>2. MayDiffer(mark[<<t[1], 1>>].score, mark[<<t[1], 2>>].score, limit[t[1]])'
    BY <1>1, <2>1 DEF MayDiffer, Distance, Larger, Smaller, Exact
  <2> QED
    BY <1>3, <2>1, <2>2 DEF SessionSound
<1> QED
  <2>1. (\A u \in Tasks : TaskSound(u)') /\ (\A z \in Sessions : SessionSound(z)')
    BY <1>2, <1>7, <1>8, <1>9, <1>10
  <2> QED
    BY <1>4, <1>6, <2>1, TypedParts DEF Sound, TypeOK, SessionTyped, TaskTyped, VerdictTyped, TxTyped

-----------------------------------------------------------------------------
(* Arbitration. *)
LEMMA ArbiterSound ==
  ASSUME Sound, NEW s \in Sessions, NEW p \in People, AssignArbiter(s, p) PROVE Sound'
<1>t. /\ TypeOK /\ SessionTyped /\ TaskTyped /\ VerdictTyped /\ TxTyped
      /\ (\A u \in Tasks : TaskSound(u)) /\ (\A z \in Sessions : SessionSound(z))
  BY TypedParts DEF Sound
<1>1. /\ arbStatus[s] \in {"pending", "assigned"}
      /\ arbStatus' = [arbStatus EXCEPT ![s] = "assigned"] /\ arbiter' = [arbiter EXCEPT ![s] = p]
      /\ UNCHANGED <<policy, stage, policyVars, work, worker, mark, arbSame, arbScore, finals, txVars>>
  BY DEF AssignArbiter
<1>2. TypeOK'
  BY <1>t, <1>1 DEF TypeOK, VerdictTyped, policyVars, txVars
<1>3. ASSUME NEW t \in Tasks PROVE TaskSound(t)'
  BY <1>t, <1>1, TaskKept DEF SameTask, txVars
<1>4. ASSUME NEW z \in Sessions PROVE SessionSound(z)'
  <2>1. CASE z # s
    BY <1>t, <1>1, <2>1, SessionKept DEF SameSession, policyVars, VerdictTyped
  <2>2. CASE z = s
    <3>1. arbStatus'[s] = "assigned" /\ arbiter'[s] = p /\ stage'[s] = "needs_arbitration"
      BY <1>t, <1>1 DEF VerdictTyped, SessionSound
    <3> QED
      BY <1>t, <1>1, <2>2, <3>1 DEF SessionSound, Marked, policyVars, MayDiffer, Distance, Larger, Smaller, Exact
  <2> QED
    BY <2>1, <2>2
<1> QED
  BY <1>2, <1>3, <1>4 DEF Sound

LEMMA ArbitrationSound ==
  ASSUME Sound, NEW s \in Sessions, NEW x \in Scores, SubmitArbitration(s, x) PROVE Sound'
<1>t. /\ TypeOK /\ SessionTyped /\ TaskTyped /\ VerdictTyped /\ TxTyped
      /\ (\A u \in Tasks : TaskSound(u)) /\ (\A z \in Sessions : SessionSound(z))
  BY TypedParts DEF Sound
<1>1. /\ arbStatus[s] = "assigned"
      /\ arbStatus' = [arbStatus EXCEPT ![s] = "submitted"]
      /\ arbScore' = [arbScore EXCEPT ![s] = x]
      /\ finals' = Append(finals, FinalGrade(s, "arbitration", x))
      /\ stage' = [stage EXCEPT ![s] = "arbitrated"]
      /\ work' = CompleteTasks(s)
      /\ UNCHANGED <<policy, policyVars, worker, mark, arbiter, arbSame, txVars>>
  BY DEF SubmitArbitration
<1>2. x \in Nat
  BY ConstantsOK DEF ConstantsOK
<1>3. /\ \A u \in Tasks : u[1] # s => work'[u] = work[u] /\ stage'[u[1]] = stage[u[1]]
      /\ \A u \in Tasks : u[1] = s => work'[u] = "completed" /\ stage'[u[1]] = "arbitrated"
      /\ work' \in [Tasks -> {"absent", "submitted", "completed"} \cup Open]
  <2>1. /\ \A u \in Tasks : u[1] # s => work'[u] = work[u]
        /\ \A u \in Tasks : u[1] = s => work'[u] = "completed"
        /\ work' \in [Tasks -> {"absent", "submitted", "completed"} \cup Open]
    <3>1. /\ \A u \in Tasks : u[1] = s => u = <<s, 1>> \/ u = <<s, 2>>
          /\ <<s, 1>> \in Tasks /\ <<s, 2>> \in Tasks /\ <<s, 1>> # <<s, 2>>
          /\ <<s, 1>>[1] = s /\ <<s, 2>>[1] = s
      BY TaskPairs
    <3> QED
      BY <1>t, <1>1, <3>1 DEF CompleteTasks, TaskTyped
  <2>2. stage'[s] = "arbitrated" /\ \A z \in Sessions \ {s} : stage'[z] = stage[z]
    BY <1>t, <1>1 DEF SessionTyped
  <2> QED
    BY <2>1, <2>2, TaskPairs
<1>4. TaskTyped' /\ TxTyped' /\ SessionTyped'
  BY <1>t, <1>1, <1>3 DEF TaskTyped, TxTyped, SessionTyped, policyVars, txVars, Stages, Closed
<1>5. VerdictTyped'
  <2>1. finals' \in Seq([session : Sessions, source : {"double_mark_auto", "arbitration"}, score : Nat])
    BY <1>t, <1>1, <1>2 DEF VerdictTyped, FinalGrade
  <2> QED
    BY <1>t, <1>1, <1>2, <2>1 DEF VerdictTyped
<1>6. stage[s] = "needs_arbitration" /\ Marked(s, 1) /\ Marked(s, 2)
  BY <1>t, <1>1 DEF SessionSound
<1>7. ASSUME NEW t \in Tasks PROVE TaskSound(t)'
  <2>1. CASE t[1] # s
    BY <1>t, <1>1, <1>3, <2>1, TaskKept DEF SameTask, txVars
  <2>2. CASE t[1] = s
    <3>1. mark[t] # NoMark
      BY <1>6, <2>2, TaskPairs DEF Marked
    <3>2. txPhase[t] = "none" /\ mark[t].by = worker[t] /\ (work[t] # "absent" => worker[t] \in People)
      BY <1>t, <3>1 DEF TaskSound, TxTyped
    <3>3. worker[t] \in People
      BY <1>t, <3>1, <3>2, Scored DEF TaskTyped
    <3> QED
      BY <1>1, <1>3, <2>2, <3>1, <3>2, <3>3 DEF TaskSound, Open, Closed, txVars
  <2> QED
    BY <2>1, <2>2
<1>8. ASSUME NEW z \in Sessions PROVE SessionSound(z)'
  <2>1. CASE z # s
    BY <1>t, <1>1, <2>1, SessionKept DEF SameSession, policyVars, VerdictTyped, SessionTyped
  <2>2. CASE z = s
    <3>1. arbStatus'[s] = "submitted" /\ stage'[s] = "arbitrated"
      BY <1>t, <1>1 DEF VerdictTyped, SessionTyped
    <3> QED
      BY <1>t, <1>1, <1>6, <2>2, <3>1 DEF SessionSound, Marked, policyVars, MayDiffer, Distance, Larger, Smaller, Exact
  <2> QED
    BY <2>1, <2>2
<1> QED
  BY <1>4, <1>5, <1>7, <1>8, TypedParts DEF Sound, TypeOK, SessionTyped, TaskTyped, VerdictTyped, TxTyped

LEMMA NextSound == Sound /\ [Next]_vars => Sound'
<1> SUFFICES ASSUME Sound, [Next]_vars PROVE Sound'
  OBVIOUS
<1>1. CASE UNCHANGED vars
  <2>1. TypeOK'
    BY <1>1 DEF Sound, TypeOK, vars, policyVars, arbVars, txVars
  <2>2. \A t \in Tasks : TaskSound(t)'
    BY <1>1, TaskKept DEF Sound, SameTask, vars, txVars
  <2>3. \A s \in Sessions : SessionSound(s)'
    BY <1>1, SessionKept DEF Sound, SameSession, vars, policyVars, arbVars
  <2> QED
    BY <2>1, <2>2, <2>3 DEF Sound
<1>2. CASE Next
  BY <1>2, CreateSound, HandedOnSound, PolicySound, LockedSound, CommitFirstSound, CommitAgreedSound,
     CommitDisputedSound, ArbiterSound, ArbitrationSound DEF Next, Commit
<1> QED
  BY <1>1, <1>2

LEMMA AlwaysSound == Spec => []Sound
BY InitSound, NextSound, PTL DEF Spec

-----------------------------------------------------------------------------
(* Rows and transactions keep their types. *)
THEOREM Types == Spec => []TypeOK
<1>1. Sound => TypeOK
  BY DEF Sound
<1> QED
  BY AlwaysSound, <1>1, PTL

(* Of two concurrent SubmitGrades the second sees the first: the session's *)
(* status names exactly the marks that are there.                          *)
THEOREM MarksAreCompared == Spec => []BothMarksCompared
<1>1. Sound => BothMarksCompared
  BY DEF Sound, SessionSound, BothMarksCompared
<1> QED
  BY AlwaysSound, <1>1, PTL

(* The session, its tasks, their marks and the arbitration tell the same   *)
(* story, whoever assigns, returns, submits and arbitrates when.           *)
THEOREM TablesTellOneStory == Spec => []TablesAgree
<1>1. Sound => TablesAgree
  BY TaskPairs DEF Sound, TaskSound, SessionSound, TablesAgree, Marked
<1> QED
  BY AlwaysSound, <1>1, PTL

-----------------------------------------------------------------------------
(* What is over stays: the marks, and all that a final grade rests on. *)
Grounds(s) == <<mark[<<s, 1>>], mark[<<s, 2>>], limit[s], strategy[s], arbScore[s], stage[s]>>

(* A step adds no final grade and closes no pair. *)
NoVerdict ==
  /\ finals' = finals
  /\ \A s \in Sessions : /\ stage'[s] \in Closed <=> stage[s] \in Closed
                         /\ stage[s] \in Closed => Grounds(s)' = Grounds(s)

(* Or it closes one pair, with the final grade that the pair calls for. *)
NewVerdict(s) ==
  /\ stage[s] \notin Closed /\ stage'[s] \in Closed
  /\ \E g \in Verdicts(s)' : g.session = s /\ finals' = Append(finals, g)
  /\ Marked(s, 1)' /\ Marked(s, 2)'
  /\ \A z \in Sessions \ {s} : Grounds(z)' = Grounds(z)

MarksKept == \A t \in Tasks : mark[t] # NoMark => mark'[t] = mark[t] /\ worker'[t] = worker[t]

LEMMA QuietSteps ==
  ASSUME Sound, UNCHANGED <<mark, arbScore, finals>>,
         \/ UNCHANGED <<stage, limit, strategy>>
         \/ \E s \in Sessions, a, b \in People : CreateSession(s, a, b)
  PROVE  NoVerdict
<1>t. /\ TypeOK /\ SessionTyped /\ TaskTyped /\ VerdictTyped /\ TxTyped
      /\ (\A u \in Tasks : TaskSound(u)) /\ (\A z \in Sessions : SessionSound(z))
  BY TypedParts DEF Sound
<1>1. CASE UNCHANGED <<stage, limit, strategy>>
  BY <1>1 DEF NoVerdict, Grounds
<1>2. ASSUME NEW s \in Sessions, NEW a \in People, NEW b \in People, CreateSession(s, a, b)
      PROVE  NoVerdict
  BY <1>t, <1>2 DEF CreateSession, NoVerdict, Grounds, SessionTyped, Closed
<1> QED
  BY <1>1, <1>2

LEMMA CommitKeeps ==
  ASSUME Sound, NEW t \in Tasks, CommitFirst(t) \/ CommitDisputed(t)
  PROVE  MarksKept /\ NoVerdict
<1>t. /\ TypeOK /\ SessionTyped /\ TaskTyped /\ VerdictTyped /\ TxTyped
      /\ (\A u \in Tasks : TaskSound(u)) /\ (\A z \in Sessions : SessionSound(z))
  BY TypedParts DEF Sound
<1>1. /\ txPhase[t] = "deciding" /\ Committed(t) /\ UNCHANGED <<arbScore, finals>>
      /\ stage' = [stage EXCEPT ![t[1]] = stage'[t[1]]] /\ stage'[t[1]] \notin Closed
  <2>1. t[1] \in Sessions
    BY TaskPairs
  <2> QED
    BY <1>t, <2>1 DEF CommitFirst, CommitDisputed, KeepMark, Committed, SessionTyped, Closed, arbVars
<1>2. /\ mark[t] = NoMark /\ stage[t[1]] \notin Closed
  BY <1>1, Deciding DEF Closed
<1>3. \A u \in Tasks \ {t} : mark'[u] = mark[u]
  BY <1>1, CommittedKept
<1>4. MarksKept
  BY <1>1, <1>2, <1>3 DEF MarksKept, Committed
<1>5. ASSUME NEW z \in Sessions \ {t[1]} PROVE Grounds(z)' = Grounds(z)
  <2>1. <<z, 1>> \in Tasks \ {t} /\ <<z, 2>> \in Tasks \ {t} /\ stage'[z] = stage[z]
    BY <1>t, <1>1, <1>5, TaskPairs DEF SessionTyped
  <2> QED
    BY <1>1, <1>3, <2>1 DEF Grounds, Committed, policyVars
<1> QED
  BY <1>1, <1>2, <1>4, <1>5 DEF NoVerdict, Grounds

LEMMA AgreedKeeps ==
  ASSUME Sound, NEW t \in Tasks, CommitAgreed(t) PROVE MarksKept /\ NewVerdict(t[1])
<1>t. /\ TypeOK /\ SessionTyped /\ TaskTyped /\ VerdictTyped /\ TxTyped
      /\ (\A u \in Tasks : TaskSound(u)) /\ (\A z \in Sessions : SessionSound(z))
  BY TypedParts DEF Sound
<1>1. /\ txPhase[t] = "deciding" /\ saw[t] # NoMark /\ Committed(t)
      /\ MayAgree(First(t), Second(t), limit[t[1]])
      /\ stage' = [stage EXCEPT ![t[1]] = "auto_finalized"]
      /\ \E x \in ResolveScore(strategy[t[1]], First(t), Second(t)) :
           finals' = Append(finals, FinalGrade(t[1], "double_mark_auto", x))
      /\ UNCHANGED arbVars
  BY DEF CommitAgreed, KeepMark, Committed
<1>2. t[1] \in Sessions
  BY TaskPairs
<1>3. /\ mark[t] = NoMark /\ stage[t[1]] \notin Closed /\ stage'[t[1]] \in Closed
  BY <1>t, <1>1, <1>2, Deciding DEF Closed, SessionTyped
<1>4. \A u \in Tasks \ {t} : mark'[u] = mark[u]
  BY <1>1, CommittedKept
<1>5. MarksKept
  BY <1>1, <1>3, <1>4 DEF MarksKept, Committed
<1>6. ASSUME NEW z \in Sessions \ {t[1]} PROVE Grounds(z)' = Grounds(z)
  <2>1. <<z, 1>> \in Tasks \ {t} /\ <<z, 2>> \in Tasks \ {t} /\ stage'[z] = stage[z]
    BY <1>t, <1>1, <1>6, TaskPairs DEF SessionTyped
  <2> QED
    BY <1>1, <1>4, <2>1 DEF Grounds, Committed, policyVars, arbVars
<1>7. /\ Marked(t[1], 1)' /\ Marked(t[1], 2)'
      /\ mark'[<<t[1], 1>>].score = First(t) /\ mark'[<<t[1], 2>>].score = Second(t)
      /\ limit' = limit /\ strategy' = strategy
  BY <1>1, BothMarks DEF Committed, policyVars
<1>8. ASSUME NEW x \in ResolveScore(strategy[t[1]], First(t), Second(t))
      PROVE  FinalGrade(t[1], "double_mark_auto", x) \in Verdicts(t[1])'
  <2>1. /\ MayAgree(mark'[<<t[1], 1>>].score, mark'[<<t[1], 2>>].score, limit'[t[1]])
        /\ x \in ResolveScore(strategy'[t[1]], mark'[<<t[1], 1>>].score, mark'[<<t[1], 2>>].score)
    BY <1>1, <1>7, <1>8
  <2> QED
    BY <2>1 DEF Verdicts, FinalGrade, MayAgree, MayDiffer, ResolveScore, Distance, Larger, Smaller, Exact
<1>9. \E g \in Verdicts(t[1])' : g.session = t[1] /\ finals' = Append(finals, g)
  BY <1>1, <1>8 DEF FinalGrade
<1> QED
  BY <1>3, <1>5, <1>6, <1>7, <1>9 DEF NewVerdict

LEMMA ArbitrationKeeps ==
  ASSUME Sound, NEW s \in Sessions, NEW x \in Scores, SubmitArbitration(s, x)
  PROVE  MarksKept /\ NewVerdict(s)
<1>t. /\ TypeOK /\ SessionTyped /\ TaskTyped /\ VerdictTyped /\ TxTyped
      /\ (\A u \in Tasks : TaskSound(u)) /\ (\A z \in Sessions : SessionSound(z))
  BY TypedParts DEF Sound
<1>1. /\ arbStatus[s] = "assigned"
      /\ arbScore' = [arbScore EXCEPT ![s] = x]
      /\ finals' = Append(finals, FinalGrade(s, "arbitration", x))
      /\ stage' = [stage EXCEPT ![s] = "arbitrated"]
      /\ UNCHANGED <<policyVars, worker, mark>>
  BY DEF SubmitArbitration
<1>2. /\ stage[s] = "needs_arbitration" /\ Marked(s, 1) /\ Marked(s, 2)
      /\ MayDiffer(mark[<<s, 1>>].score, mark[<<s, 2>>].score, limit[s])
      /\ stage'[s] = "arbitrated" /\ arbScore'[s] = x
  BY <1>t, <1>1 DEF SessionSound, SessionTyped, VerdictTyped
<1>3. FinalGrade(s, "arbitration", x) \in Verdicts(s)'
  <2>1. MayDiffer(mark'[<<s, 1>>].score, mark'[<<s, 2>>].score, limit'[s]) /\ arbScore'[s] = x
    BY <1>1, <1>2 DEF policyVars
  <2> QED
    BY <2>1 DEF Verdicts, FinalGrade, MayAgree, MayDiffer, Distance, Larger, Smaller, Exact
<1>4. \A z \in Sessions \ {s} : Grounds(z)' = Grounds(z)
  BY <1>t, <1>1 DEF Grounds, policyVars, SessionTyped, VerdictTyped
<1>5. \E g \in Verdicts(s)' : g.session = s /\ finals' = Append(finals, g)
  BY <1>1, <1>3 DEF FinalGrade
<1>6. Marked(s, 1)' /\ Marked(s, 2)'
  BY <1>1, <1>2 DEF Marked
<1>7. stage[s] \notin Closed /\ stage'[s] \in Closed
  BY <1>2 DEF Closed
<1>8. MarksKept
  BY <1>1 DEF MarksKept
<1> QED
  BY <1>4, <1>5, <1>6, <1>7, <1>8 DEF NewVerdict

LEMMA StepsKeep ==
  Sound /\ [Next]_vars => MarksKept /\ (NoVerdict \/ \E s \in Sessions : NewVerdict(s))
<1> SUFFICES ASSUME Sound, [Next]_vars
             PROVE  MarksKept /\ (NoVerdict \/ \E s \in Sessions : NewVerdict(s))
  OBVIOUS
<1>t. /\ TypeOK /\ SessionTyped /\ TaskTyped /\ VerdictTyped /\ TxTyped
      /\ (\A u \in Tasks : TaskSound(u)) /\ (\A z \in Sessions : SessionSound(z))
  BY TypedParts DEF Sound
<1>1. CASE UNCHANGED vars
  BY <1>1, QuietSteps DEF MarksKept, vars, policyVars, arbVars
<1>2. ASSUME NEW s \in Sessions, NEW a \in People, NEW b \in People, CreateSession(s, a, b)
      PROVE  MarksKept /\ NoVerdict
  <2>1. NoVerdict
    BY <1>2, QuietSteps DEF CreateSession, arbVars
  <2>2. ASSUME NEW t \in Tasks, mark[t] # NoMark PROVE worker'[t] = worker[t]
    <3>1. t[1] # s
      <4>1. ~Marked(s, 1) /\ ~Marked(s, 2)
        BY <1>t, <1>2 DEF CreateSession, SessionSound
      <4> QED
        BY <2>2, <4>1, TaskPairs DEF Marked
    <3> QED
      BY <1>t, <1>2, <3>1, TaskPairs DEF CreateSession, TaskTyped
  <2> QED
    BY <1>2, <2>1, <2>2 DEF MarksKept, CreateSession
<1>3. ASSUME NEW p \in People, NEW batch \in SUBSET Tasks, Assign(batch, p) PROVE MarksKept /\ NoVerdict
  <2>1. NoVerdict
    BY <1>3, QuietSteps DEF Assign, arbVars, policyVars
  <2> QED
    BY <1>t, <1>3, <2>1 DEF Assign, MarksKept, TaskSound
<1>4. ASSUME NEW t \in Tasks,
             Return(t) \/ LockSession(t) \/ Abort(t) \/ \E x \in Scores : LockTask(t, x)
      PROVE  MarksKept /\ NoVerdict
  <2>1. UNCHANGED <<stage, limit, strategy, mark, worker, arbScore, finals>>
    BY <1>4 DEF Return, LockSession, Abort, LockTask, policyVars, arbVars
  <2> QED
    BY <2>1, QuietSteps DEF MarksKept
<1>5. ASSUME NEW p \in Policies, SetPolicy(p) PROVE MarksKept /\ NoVerdict
  BY <1>5, QuietSteps DEF SetPolicy, MarksKept, policyVars, arbVars
<1>6. ASSUME NEW s \in Sessions, NEW p \in People, AssignArbiter(s, p) PROVE MarksKept /\ NoVerdict
  BY <1>6, QuietSteps DEF AssignArbiter, MarksKept, policyVars
<1>7. ASSUME NEW t \in Tasks, Commit(t)
      PROVE  MarksKept /\ (NoVerdict \/ \E s \in Sessions : NewVerdict(s))
  BY <1>7, CommitKeeps, AgreedKeeps, TaskPairs DEF Commit
<1> QED
  BY <1>1, <1>2, <1>3, <1>4, <1>5, <1>6, <1>7, ArbitrationKeeps DEF Next

LEMMA VerdictsKept ==
  ASSUME NEW s \in Sessions, Grounds(s)' = Grounds(s)
  PROVE  Verdicts(s)' = Verdicts(s) /\ Marked(s, 1)' = Marked(s, 1) /\ Marked(s, 2)' = Marked(s, 2)
BY DEF Grounds, Verdicts, Marked, FinalGrade, MayAgree, MayDiffer, ResolveScore, Distance, Larger, Smaller, Exact

(* A mark, once given, is neither changed nor withdrawn, nor is a final    *)
(* grade: Assign and Return reach only work that has not been done.        *)
THEOREM MarksStay == Spec => MarksAreKept
<1>1. Sound /\ [Next]_vars =>
        [/\ \A t \in Tasks : mark[t] # NoMark => mark'[t] = mark[t] /\ worker'[t] = worker[t]
         /\ \A n \in 1..Len(finals) : finals'[n] = finals[n]]_vars
  <2> SUFFICES ASSUME Sound, [Next]_vars
               PROVE  /\ \A t \in Tasks : mark[t] # NoMark => mark'[t] = mark[t] /\ worker'[t] = worker[t]
                      /\ \A n \in 1..Len(finals) : finals'[n] = finals[n]
    OBVIOUS
  <2>1. MarksKept /\ (NoVerdict \/ \E s \in Sessions : NewVerdict(s))
    BY StepsKeep
  <2>2. finals \in Seq([session : Sessions, source : {"double_mark_auto", "arbitration"}, score : Nat])
    BY DEF Sound, TypeOK
  <2>3. finals' = finals \/ \E g : finals' = Append(finals, g)
    BY <2>1 DEF NoVerdict, NewVerdict
  <2> QED
    BY <2>1, <2>2, <2>3 DEF MarksKept
<1> QED
  BY AlwaysSound, <1>1, PTL DEF Spec, MarksAreKept

(* A pair has at most one final grade, none before it is closed, and it is *)
(* the one its two marks call for by the threshold and the strategy the    *)
(* pair was appointed under (SubmitGrade, SubmitArbitration).              *)
THEOREM GradesAreVerdicts == Spec => []FinalGradeIsVerdict
<1>1. Init => FinalGradeIsVerdict
  BY DEF Init, FinalGradeIsVerdict, Closed
<1>2. FinalGradeIsVerdict /\ Sound /\ [Next]_vars => FinalGradeIsVerdict'
  <2> SUFFICES ASSUME FinalGradeIsVerdict, Sound, [Next]_vars PROVE FinalGradeIsVerdict'
    OBVIOUS
  <2>t. \A n \in 1..Len(finals) : finals[n].session \in Sessions
    <3> DEFINE Rows == [session : Sessions, source : {"double_mark_auto", "arbitration"}, score : Nat]
    <3>1. finals \in Seq(Rows)
      BY DEF Sound, TypeOK
    <3>2. \A g \in Rows : g.session \in Sessions
      OBVIOUS
    <3> HIDE DEF Rows
    <3> QED
      BY <3>1, <3>2
  <2>s. Len(finals) \in Nat /\ \A g : /\ Len(Append(finals, g)) = Len(finals) + 1
                                     /\ Append(finals, g)[Len(finals) + 1] = g
                                     /\ \A n \in 1..Len(finals) : Append(finals, g)[n] = finals[n]
    BY DEF Sound, TypeOK
  <2>i. /\ \A s \in Sessions : stage[s] \in Closed <=> \E n \in 1..Len(finals) : finals[n].session = s
        /\ \A n \in 1..Len(finals) :
             /\ \A m \in 1..Len(finals) : finals[m].session = finals[n].session => m = n
             /\ Marked(finals[n].session, 1) /\ Marked(finals[n].session, 2)
             /\ finals[n] \in Verdicts(finals[n].session)
    BY DEF FinalGradeIsVerdict
  <2>1. CASE NoVerdict
    <3>1. ASSUME NEW z \in Sessions, stage[z] \in Closed, Marked(z, 1), Marked(z, 2)
          PROVE  Verdicts(z)' = Verdicts(z) /\ Marked(z, 1)' /\ Marked(z, 2)'
      BY <2>1, <3>1, VerdictsKept DEF NoVerdict
    <3>2. finals' = finals /\ \A z \in Sessions : stage'[z] \in Closed <=> stage[z] \in Closed
      BY <2>1 DEF NoVerdict
    <3>3. ASSUME NEW n \in 1..Len(finals), NEW z \in Sessions, z = finals[n].session
          PROVE  Marked(z, 1)' /\ Marked(z, 2)' /\ finals[n] \in Verdicts(z)'
      BY <2>i, <3>1, <3>3
    <3> QED
      BY <2>t, <2>i, <3>2, <3>3 DEF FinalGradeIsVerdict
  <2>2. ASSUME NEW s \in Sessions, NewVerdict(s) PROVE FinalGradeIsVerdict'
    <3>1. PICK g \in Verdicts(s)' : g.session = s /\ finals' = Append(finals, g)
      BY <2>2 DEF NewVerdict
    <3>2. /\ Len(finals') = Len(finals) + 1 /\ finals'[Len(finals) + 1] = g
          /\ \A n \in 1..Len(finals) : finals'[n] = finals[n] /\ finals[n].session # s
      BY <2>i, <2>s, <2>2, <3>1 DEF NewVerdict
    <3>3. \A z \in Sessions \ {s} : /\ stage'[z] = stage[z] /\ Verdicts(z)' = Verdicts(z)
                                   /\ Marked(z, 1)' = Marked(z, 1) /\ Marked(z, 2)' = Marked(z, 2)
      BY <2>2, VerdictsKept DEF NewVerdict, Grounds
    <3>4. ASSUME NEW n \in 1..Len(finals'), NEW z, z = finals'[n].session
          PROVE  Marked(z, 1)' /\ Marked(z, 2)' /\ finals'[n] \in Verdicts(z)'
      <4>1. CASE n = Len(finals) + 1
        BY <2>2, <3>1, <3>2, <3>4, <4>1 DEF NewVerdict
      <4>2. CASE n # Len(finals) + 1
        <5>1. n \in 1..Len(finals) /\ finals'[n] = finals[n] /\ z \in Sessions \ {s} /\ z = finals[n].session
          BY <2>t, <2>s, <3>2, <3>4, <4>2
        <5>2. Marked(z, 1) /\ Marked(z, 2) /\ finals[n] \in Verdicts(z)
          BY <2>i, <5>1
        <5> QED
          BY <3>3, <5>1, <5>2
      <4> QED
        BY <4>1, <4>2
    <3>5. ASSUME NEW n \in 1..Len(finals'), NEW m \in 1..Len(finals'),
                 finals'[m].session = finals'[n].session
          PROVE  m = n
      <4>1. \A k \in 1..Len(finals') : k \in 1..Len(finals) \/ k = Len(finals) + 1
        BY <2>s, <3>2
      <4> QED
        BY <2>i, <3>1, <3>2, <3>5, <4>1
    <3>6. ASSUME NEW z \in Sessions
          PROVE  stage'[z] \in Closed <=> \E n \in 1..Len(finals') : finals'[n].session = z
      <4>1. CASE z = s
        <5>1. Len(finals) + 1 \in 1..Len(finals') /\ finals'[Len(finals) + 1].session = z
          BY <2>s, <3>1, <3>2, <4>1
        <5> QED
          BY <2>2, <4>1, <5>1 DEF NewVerdict
      <4>2. CASE z # s
        <5>1. \A n \in 1..Len(finals') : finals'[n].session = z => n \in 1..Len(finals)
          BY <2>s, <3>1, <3>2, <4>2
        <5>2. \A n \in 1..Len(finals) : n \in 1..Len(finals')
          BY <2>s, <3>2
        <5> QED
          BY <2>i, <3>2, <3>3, <4>2, <5>1, <5>2
      <4> QED
        BY <4>1, <4>2
    <3> QED
      BY <3>4, <3>5, <3>6 DEF FinalGradeIsVerdict
  <2> QED
    BY <2>1, <2>2, StepsKeep
<1> QED
  BY AlwaysSound, <1>1, <1>2, PTL DEF Spec
=============================================================================
