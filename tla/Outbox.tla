------------------------------- MODULE Outbox -------------------------------
(***************************************************************************)
(* The transactional outbox of the API gateway (internal/outbox): every    *)
(* gateway process runs one dispatcher, a sequential loop that leases a    *)
(* batch of pending events, publishes them one by one and marks each row.  *)
(*                                                                         *)
(* Each store call is one SQL statement, hence one step; the publisher is  *)
(* called between statements, so a dispatcher can be slow, or be killed,   *)
(* anywhere in between.  A restarted process takes a new owner name.       *)
(* Time is relative: lockLeft is the number of ticks until lock_expires_at *)
(* (-1 once passed), waitLeft until next_attempt_at (0 once reached).      *)
(***************************************************************************)
EXTENDS Integers, FiniteSets

CONSTANTS
  Events, Dispatchers,
  NoOwner, Nothing,
  MaxAttempts,  \* max_attempts
  BatchSize, LeaseTTL, BaseBackoff, MaxBackoff,
  MaxLives      \* bound: how often a process may be started

ASSUME ConstantsOK ==
  /\ MaxAttempts \in Nat \ {0} /\ BatchSize \in Nat \ {0} /\ MaxLives \in Nat \ {0}
  /\ LeaseTTL \in Nat \ {0} /\ BaseBackoff \in Nat \ {0} /\ MaxBackoff \in Nat \ {0}

VARIABLES
  status,    \* per event: no row yet, or what published_at / dead_lettered_at say
  attempts,  \* attempt_count
  lockedBy,  \* locked_by
  lockLeft,  \* lock_expires_at
  waitLeft,  \* next_attempt_at
  batch,     \* per dispatcher, the claimed events it has not come to yet
  settling,  \* per dispatcher, the event published (or not) whose row is to be marked
  life,      \* per dispatcher, which incarnation of the process runs it
  delivered  \* history: per event, the attempts that handed it to the sink

rowVars == <<status, attempts, lockedBy, lockLeft, waitLeft>>
vars == <<rowVars, batch, settling, life, delivered>>

Owner(d) == <<d, life[d]>>
Owners == Dispatchers \X (1..MaxLives)
Claims == [event : Events, attempt : 1..MaxAttempts]
Outcomes == [event : Events, attempt : 1..MaxAttempts, ok : BOOLEAN]

Init ==
  /\ status   = [e \in Events |-> "absent"]
  /\ attempts = [e \in Events |-> 0]
  /\ lockedBy = [e \in Events |-> NoOwner]
  /\ lockLeft = [e \in Events |-> -1]
  /\ waitLeft = [e \in Events |-> 0]
  /\ batch    = [d \in Dispatchers |-> {}]
  /\ settling = [d \in Dispatchers |-> Nothing]
  /\ life     = [d \in Dispatchers |-> 1]
  /\ delivered = [e \in Events |-> {}]

-----------------------------------------------------------------------------

(* Exponential backoff after the n-th attempt. *)
Doubled(delay) ==
  IF delay >= MaxBackoff THEN delay
  ELSE IF 2 * delay > MaxBackoff THEN MaxBackoff ELSE 2 * delay

Backoff[n \in 1..MaxAttempts] ==
  IF n = 1 THEN BaseBackoff ELSE Doubled(Backoff[n - 1])

(* Faulty Claimable: the attempts are not limited; an expired lock is kept. *)
ClaimableForEver ==
  {e \in Events : /\ status[e] = "pending" /\ waitLeft[e] = 0
                  /\ lockedBy[e] = NoOwner \/ lockLeft[e] < 0}
ClaimableUnlocked ==
  {e \in Events : /\ status[e] = "pending" /\ attempts[e] < MaxAttempts
                  /\ waitLeft[e] = 0 /\ lockedBy[e] = NoOwner}

Claimable ==
  {e \in Events : /\ status[e] = "pending" /\ attempts[e] < MaxAttempts
                  /\ waitLeft[e] = 0
                  /\ lockedBy[e] = NoOwner \/ lockLeft[e] < 0}

(* Faulty HoldsLock: whoever marks, the row is locked by somebody. *)
SomeoneHoldsLock(d, e) == status[e] = "pending" /\ lockLeft[e] >= 0

(* The WHERE clause of both marks. *)
HoldsLock(d, e) ==
  /\ status[e] = "pending"
  /\ lockedBy[e] = Owner(d) /\ lockLeft[e] >= 0

Unlock(e) ==
  /\ lockedBy' = [lockedBy EXCEPT ![e] = NoOwner]
  /\ lockLeft' = [lockLeft EXCEPT ![e] = -1]

-----------------------------------------------------------------------------

(* A business transaction commits with its event (an audit trigger's, or   *)
(* the command's own INSERT).                                              *)
Record(e) ==
  /\ status[e] = "absent"
  /\ status' = [status EXCEPT ![e] = "pending"]
  /\ UNCHANGED <<attempts, lockedBy, lockLeft, waitLeft, batch, settling, life, delivered>>

(* RunOnce begins: a batch is leased.  Rows another claim has locked are   *)
(* skipped.  received is FALSE when the statement committed but its rows   *)
(* did not reach the dispatcher.                                           *)
Claim(d, picked, received) ==
  /\ batch[d] = {} /\ settling[d] = Nothing
  /\ picked # {} /\ picked \subseteq Claimable /\ Cardinality(picked) <= BatchSize
  /\ lockedBy' = [e \in Events |-> IF e \in picked THEN Owner(d) ELSE lockedBy[e]]
  /\ lockLeft' = [e \in Events |-> IF e \in picked THEN LeaseTTL ELSE lockLeft[e]]
  /\ attempts' = [e \in Events |-> IF e \in picked THEN attempts[e] + 1 ELSE attempts[e]]
  /\ batch' = [batch EXCEPT ![d] =
       IF received THEN {[event |-> e, attempt |-> attempts[e] + 1] : e \in picked} ELSE {}]
  /\ UNCHANGED <<status, waitLeft, settling, life, delivered>>

(* The next event of the batch is handed to the publisher, which may fail. *)
Publish(d, c, ok) ==
  /\ settling[d] = Nothing /\ c \in batch[d]
  /\ batch' = [batch EXCEPT ![d] = @ \ {c}]
  /\ settling' = [settling EXCEPT ![d] = [event |-> c.event, attempt |-> c.attempt, ok |-> ok]]
  /\ delivered' = IF ok THEN [delivered EXCEPT ![c.event] = @ \cup {c.attempt}] ELSE delivered
  /\ UNCHANGED <<rowVars, life>>

MarkPublished(e) ==
  /\ status' = [status EXCEPT ![e] = "published"]
  /\ Unlock(e)
  /\ UNCHANGED <<attempts, waitLeft>>

(* Faulty MarkFailed: gives up one attempt too early. *)
MarkFailedEarly(e, attempt) ==
  /\ IF attempts[e] + 1 >= MaxAttempts
       THEN status' = [status EXCEPT ![e] = "dead_lettered"] /\ UNCHANGED waitLeft
       ELSE waitLeft' = [waitLeft EXCEPT ![e] = Backoff[attempt]] /\ UNCHANGED status
  /\ Unlock(e)
  /\ UNCHANGED attempts

MarkFailed(e, attempt) ==
  /\ IF attempts[e] >= MaxAttempts
       THEN status' = [status EXCEPT ![e] = "dead_lettered"] /\ UNCHANGED waitLeft
       ELSE waitLeft' = [waitLeft EXCEPT ![e] = Backoff[attempt]] /\ UNCHANGED status
  /\ Unlock(e)
  /\ UNCHANGED attempts

Mark(x) == IF x.ok THEN MarkPublished(x.event) ELSE MarkFailed(x.event, x.attempt)

(* The row is marked, one row is affected, and the loop goes on. *)
Settle(d) ==
  /\ settling[d] # Nothing
  /\ HoldsLock(d, settling[d].event)
  /\ Mark(settling[d])
  /\ settling' = [settling EXCEPT ![d] = Nothing]
  /\ UNCHANGED <<batch, life, delivered>>

(* The mark returns an error, and RunOnce returns with the rest of the     *)
(* batch undone: the lease was lost, or the statement failed, or it took   *)
(* effect and only its answer was lost.                                    *)
GiveUp(d) ==
  /\ settling[d] # Nothing
  /\ \/ UNCHANGED rowVars
     \/ HoldsLock(d, settling[d].event) /\ Mark(settling[d])
  /\ settling' = [settling EXCEPT ![d] = Nothing]
  /\ batch' = [batch EXCEPT ![d] = {}]
  /\ UNCHANGED <<life, delivered>>

(* The process stops at any point and is started again. *)
Restart(d) ==
  /\ life[d] < MaxLives
  /\ life' = [life EXCEPT ![d] = @ + 1]
  /\ batch' = [batch EXCEPT ![d] = {}]
  /\ settling' = [settling EXCEPT ![d] = Nothing]
  /\ UNCHANGED <<rowVars, delivered>>

Tick ==
  /\ lockLeft' = [e \in Events |-> IF lockLeft[e] >= 0 THEN lockLeft[e] - 1 ELSE -1]
  /\ waitLeft' = [e \in Events |-> IF waitLeft[e] > 0 THEN waitLeft[e] - 1 ELSE 0]
  /\ UNCHANGED <<status, attempts, lockedBy, batch, settling, life, delivered>>

PublishNext(d) == \E c \in batch[d], ok \in BOOLEAN : Publish(d, c, ok)
ClaimSome(d) == \E picked \in SUBSET Claimable, received \in BOOLEAN : Claim(d, picked, received)

Next ==
  \/ Tick
  \/ \E e \in Events : Record(e)
  \/ \E d \in Dispatchers :
       ClaimSome(d) \/ PublishNext(d) \/ Settle(d) \/ GiveUp(d) \/ Restart(d)

Spec == Init /\ [][Next]_vars

(* The loop of every dispatcher goes on (Restart is never obliged), and a  *)
(* claimable event is not passed over by every claim for ever.             *)
ClaimOf(d, e) ==
  \E picked \in SUBSET Claimable, received \in BOOLEAN :
    e \in picked /\ Claim(d, picked, received)

FairSpec ==
  /\ Spec /\ WF_vars(Tick)
  /\ \A d \in Dispatchers :
       WF_vars(PublishNext(d)) /\ WF_vars(Settle(d) \/ GiveUp(d))
  /\ \A e \in Events : SF_vars(\E d \in Dispatchers : ClaimOf(d, e))

-----------------------------------------------------------------------------
(* Rows and local variables have the types of their columns and fields,    *)
(* and no event waits longer than the longest backoff that is configured.  *)
LongestBackoff == IF BaseBackoff > MaxBackoff THEN BaseBackoff ELSE MaxBackoff

TypeOK ==
  /\ status \in [Events -> {"absent", "pending", "published", "dead_lettered"}]
  /\ attempts \in [Events -> 0..MaxAttempts]
  /\ lockedBy \in [Events -> Owners \cup {NoOwner}]
  /\ lockLeft \in [Events -> -1..LeaseTTL]
  /\ waitLeft \in [Events -> 0..LongestBackoff]
  /\ batch \in [Dispatchers -> SUBSET Claims]
  /\ settling \in [Dispatchers -> Outcomes \cup {Nothing}]
  /\ life \in [Dispatchers -> 1..MaxLives]
  /\ delivered \in [Events -> SUBSET (1..MaxAttempts)]

(* The verdict on an event is the outcome of its last attempt, however     *)
(* slow the dispatchers that worked on earlier ones: a published event was *)
(* handed to the sink by the attempt that closed it, and a dead-lettered   *)
(* one used up its attempts and its last one did not reach the sink.       *)
VerdictOfLastAttempt ==
  \A e \in Events :
    /\ status[e] = "published" => attempts[e] \in delivered[e]
    /\ status[e] = "dead_lettered" => attempts[e] = MaxAttempts /\ MaxAttempts \notin delivered[e]

(* A dispatcher that lost its lease never marks a row: whoever marks an    *)
(* event does so for the attempt that is the newest of that event.         *)
OnlyNewestAttemptMarks ==
  [][\A d \in Dispatchers :
       /\ settling[d] # Nothing /\ settling'[d] = Nothing
       /\ lockedBy'[settling[d].event] # lockedBy[settling[d].event]
       => settling[d].attempt = attempts[settling[d].event]]_vars

(* What the loop guarantees: a recorded event is published or              *)
(* dead-lettered, unless its last attempt was lost with its dispatcher.    *)
Ended(e) == status[e] \in {"published", "dead_lettered"}
Stranded(e) == status[e] = "pending" /\ attempts[e] = MaxAttempts /\ lockLeft[e] < 0
EndsOrStranded ==
  \A e \in Events : status[e] = "pending" ~> (Ended(e) \/ Stranded(e))
=============================================================================
