---------------------------- MODULE CommandGate ----------------------------
(***************************************************************************)
(* One command of a client: every POST that carries the same tenant, actor *)
(* and Idempotency-Key, on a route that may be taken over.  Two layers     *)
(* guard it:                                                               *)
(*   - the idempotency middleware (internal/idempotency), which keeps a    *)
(*     reservation, then the response, per route, until they expire;       *)
(*   - the business receipt (internal/commandreceipt), written in the      *)
(*     business transaction and kept for ever.                             *)
(*                                                                         *)
(* A request is a handler running in some process; it may be slower than   *)
(* ProcessingTimeout, in which case another one takes the reservation over *)
(* while the first is still running, and its process may die anywhere.     *)
(* Reservation ages are counted in ticks.                                  *)
(***************************************************************************)
EXTENDS Integers, FiniteSets

CONSTANTS
  Requests,       \* slots for requests in flight; a slot is used again and again
  Routes,         \* recoverable routes of one family (review., score., report.)
  SnapshotRoutes, \* those whose business transaction is REPEATABLE READ
  Payloads, RouteOf,
  NoPayload, Free,
  ProcessingTimeout, TTL,
  MaxCrashes      \* bound: requests lost with their process

ASSUME ConstantsOK ==
  /\ SnapshotRoutes \subseteq Routes
  /\ RouteOf \in [Payloads -> Routes]
  /\ NoPayload \notin Payloads /\ Free \notin Requests
  /\ ProcessingTimeout \in Nat /\ TTL \in Nat /\ MaxCrashes \in Nat

VARIABLES
  stage,    \* idempotency_record, per route: state, or "none" when there is no row
  hash,     \*   request_hash
  answer,   \*   response_status and response_body
  quiet,    \*   ticks since updated_at
  ttl,      \*   ticks until expires_at
  receipt,  \* business_command_receipt: request_hash and result
  effects,  \* history: how many business transactions took effect
  lock,     \* who holds the command's advisory lock
  pc, payload, snap, second, outcome, \* per request: its handler's local state
  heard,    \* history: the successes that clients were told
  crashes

recordVars == <<stage, hash, answer, quiet, ttl>>
localVars  == <<pc, payload, snap, second, outcome>>
vars == <<recordVars, receipt, effects, lock, localVars, heard, crashes>>

Outcome == [kind : {"none", "ok", "refused", "again"}, result : Nat]
NoOutcome  == [kind |-> "none", result |-> 0]
Refused    == [kind |-> "refused", result |-> 0]  \* a 4xx that is cached
Again      == [kind |-> "again", result |-> 0]    \* 409, 429, 5xx: retry
Success(r) == [kind |-> "ok", result |-> r]

Receipt == [payload : Payloads \cup {NoPayload}, result : Nat]
NoReceipt == [payload |-> NoPayload, result |-> 0]

Init ==
  /\ stage  = [rt \in Routes |-> "none"]
  /\ hash   = [rt \in Routes |-> NoPayload]
  /\ answer = [rt \in Routes |-> NoOutcome]
  /\ quiet  = [rt \in Routes |-> 0]
  /\ ttl    = [rt \in Routes |-> 0]
  /\ receipt = NoReceipt /\ effects = 0 /\ lock = Free
  /\ pc = [q \in Requests |-> "idle"]
  /\ payload = [q \in Requests |-> NoPayload]
  /\ snap = [q \in Requests |-> NoReceipt]
  /\ second = [q \in Requests |-> FALSE]
  /\ outcome = [q \in Requests |-> NoOutcome]
  /\ heard = {} /\ crashes = 0

-----------------------------------------------------------------------------
(* The middleware. *)

Expired(rt) == stage[rt] = "completed" /\ ttl[rt] < 0
NeverStale(rt) == FALSE  \* faulty Stale: a dead handler's reservation is kept
Stale(rt)   == stage[rt] = "processing" /\ quiet[rt] > ProcessingTimeout

(* Every Begin that commits first deletes the tenant's expired responses. *)
SweptStage == [rt \in Routes |-> IF Expired(rt) THEN "none" ELSE stage[rt]]
Cleared(f, zero) == [rt \in Routes |-> IF Expired(rt) THEN zero ELSE f[rt]]

Reserve(rt, p) ==
  /\ stage' = [SweptStage EXCEPT ![rt] = "processing"]
  /\ hash' = [Cleared(hash, NoPayload) EXCEPT ![rt] = p]
  /\ answer' = Cleared(answer, NoOutcome)
  /\ quiet' = [Cleared(quiet, 0) EXCEPT ![rt] = 0]
  /\ ttl' = [Cleared(ttl, 0) EXCEPT ![rt] = TTL]

(* Begin: a new reservation, or an abandoned one with the same hash. *)
Admit(q, p) ==
  LET rt == RouteOf[p] IN
  /\ pc[q] = "idle"
  /\ \/ SweptStage[rt] = "none"
     \/ Stale(rt) /\ hash[rt] = p
  /\ Reserve(rt, p)
  /\ pc' = [pc EXCEPT ![q] = "admitted"]
  /\ payload' = [payload EXCEPT ![q] = p]
  /\ UNCHANGED <<receipt, effects, lock, snap, second, outcome, heard, crashes>>

(* Begin: the response is known and is replayed.  (A different request, or *)
(* one still in progress, is answered 409 and its transaction rolled back: *)
(* nothing changes.)                                                       *)
Hear(p, o) ==
  heard' = IF o.kind = "ok" THEN heard \cup {[payload |-> p, result |-> o.result]} ELSE heard

Replay(p) ==
  LET rt == RouteOf[p] IN
  /\ stage[rt] = "completed" /\ ~Expired(rt) /\ hash[rt] = p
  /\ Hear(p, answer[rt])
  /\ stage' = SweptStage
  /\ hash' = Cleared(hash, NoPayload) /\ answer' = Cleared(answer, NoOutcome)
  /\ quiet' = Cleared(quiet, 0) /\ ttl' = Cleared(ttl, 0)
  /\ UNCHANGED <<receipt, effects, lock, localVars, crashes>>

(* A Begin of another command of the tenant. *)
Sweep ==
  /\ \E rt \in Routes : Expired(rt)
  /\ stage' = SweptStage
  /\ hash' = Cleared(hash, NoPayload) /\ answer' = Cleared(answer, NoOutcome)
  /\ quiet' = Cleared(quiet, 0) /\ ttl' = Cleared(ttl, 0)
  /\ UNCHANGED <<receipt, effects, lock, localVars, heard, crashes>>

MineIsProcessing(q) ==
  LET rt == RouteOf[payload[q]] IN stage[rt] = "processing" /\ hash[rt] = payload[q]

Leave(q) ==
  /\ pc' = [pc EXCEPT ![q] = "idle"]
  /\ payload' = [payload EXCEPT ![q] = NoPayload]
  /\ snap' = [snap EXCEPT ![q] = NoReceipt]
  /\ second' = [second EXCEPT ![q] = FALSE]
  /\ outcome' = [outcome EXCEPT ![q] = NoOutcome]

(* The handler's answer is retryable, or a success too large to keep:      *)
(* Abort deletes the reservation, of whoever holds it now.                 *)
Abort(q) ==
  LET rt == RouteOf[payload[q]] IN
  /\ pc[q] = "answering" /\ outcome[q] # Refused
  /\ IF MineIsProcessing(q)
       THEN /\ stage' = [stage EXCEPT ![rt] = "none"]
            /\ hash' = [hash EXCEPT ![rt] = NoPayload]
            /\ quiet' = [quiet EXCEPT ![rt] = 0] /\ ttl' = [ttl EXCEPT ![rt] = 0]
            /\ UNCHANGED answer
       ELSE UNCHANGED recordVars
  /\ Leave(q)
  /\ UNCHANGED <<receipt, effects, lock, heard, crashes>>

(* The handler's answer is final: Complete stores it, then the client is   *)
(* told.  When no row is updated the client is told 503 instead.           *)
Complete(q) ==
  LET rt == RouteOf[payload[q]] IN
  /\ pc[q] = "answering" /\ outcome[q] # Again
  /\ IF MineIsProcessing(q)
       THEN /\ stage' = [stage EXCEPT ![rt] = "completed"]
            /\ answer' = [answer EXCEPT ![rt] = outcome[q]]
            /\ quiet' = [quiet EXCEPT ![rt] = 0]
            /\ Hear(payload[q], outcome[q])
            /\ UNCHANGED <<hash, ttl>>
       ELSE UNCHANGED <<recordVars, heard>>
  /\ Leave(q)
  /\ UNCHANGED <<receipt, effects, lock, crashes>>

(* Abort or Complete fails (the database, or the client that hung up); the *)
(* reservation stays.                                                      *)
Unrecorded(q) ==
  /\ pc[q] = "answering"
  /\ Leave(q)
  /\ UNCHANGED <<recordVars, receipt, effects, lock, heard, crashes>>

-----------------------------------------------------------------------------
(* The handler and its business transaction. *)

(* The handler answers without reaching the transaction. *)
TurnAway(q, o) ==
  /\ pc[q] = "admitted"
  /\ second[q] => o = Again
  /\ pc' = [pc EXCEPT ![q] = "answering"]
  /\ outcome' = [outcome EXCEPT ![q] = o]
  /\ UNCHANGED <<recordVars, receipt, effects, lock, payload, snap, second, heard, crashes>>

(* The transaction begins and Load asks for the command's advisory lock:   *)
(* under REPEATABLE READ the snapshot is taken now.                        *)
AskLock(q) ==
  /\ pc[q] = "admitted"
  /\ pc' = [pc EXCEPT ![q] = "waiting"]
  /\ snap' = [snap EXCEPT ![q] = receipt]
  /\ UNCHANGED <<recordVars, receipt, effects, lock, payload, second, outcome, heard, crashes>>

VisibleAtBegin(q) == snap[q]  \* faulty Visible: every route reads a snapshot
Visible(q) == IF RouteOf[payload[q]] \in SnapshotRoutes THEN snap[q] ELSE receipt

(* What a receipt is to a request: its own result, or a conflict. *)
SavedForAnyone(p, saved) == Success(saved.result)  \* faulty Saved: hashes not compared
Saved(p, saved) == IF saved.payload = p THEN Success(saved.result) ELSE Again

(* The lock is granted and the receipt read: none, so the command is to be *)
(* executed; or the transaction ends, with the saved result or a conflict. *)
Load(q) ==
  /\ pc[q] = "waiting" /\ lock = Free
  /\ IF Visible(q) = NoReceipt
       THEN /\ lock' = q
            /\ pc' = [pc EXCEPT ![q] = "working"]
            /\ UNCHANGED outcome
       ELSE /\ pc' = [pc EXCEPT ![q] = "answering"]
            /\ outcome' = [outcome EXCEPT ![q] = Saved(payload[q], Visible(q))]
            /\ UNCHANGED lock
  /\ UNCHANGED <<recordVars, receipt, effects, payload, snap, second, heard, crashes>>

(* Faulty RollBack: the session keeps the lock of its transaction. *)
RollBackHolding(q, o) ==
  /\ pc[q] = "working"
  /\ pc' = [pc EXCEPT ![q] = "answering"]
  /\ outcome' = [outcome EXCEPT ![q] = o]
  /\ UNCHANGED <<recordVars, receipt, effects, lock, payload, snap, second, heard, crashes>>

(* The business rules refuse, or a statement fails: rollback. *)
RollBack(q, o) ==
  /\ pc[q] = "working"
  /\ lock' = Free
  /\ pc' = [pc EXCEPT ![q] = "answering"]
  /\ outcome' = [outcome EXCEPT ![q] = o]
  /\ UNCHANGED <<recordVars, receipt, effects, payload, snap, second, heard, crashes>>

(* Faulty Commit: a receipt that is there already is overwritten. *)
CommitOverwriting(q, answered) ==
  /\ pc[q] = "working"
  /\ effects' = effects + 1
  /\ receipt' = [payload |-> payload[q], result |-> effects + 1]
  /\ lock' = Free
  /\ pc' = [pc EXCEPT ![q] = "answering"]
  /\ outcome' = [outcome EXCEPT ![q] = IF answered THEN Success(effects + 1) ELSE Again]
  /\ UNCHANGED <<recordVars, payload, snap, second, heard, crashes>>

(* Save inserts the receipt and the transaction commits, effect and all;   *)
(* the answer of the commit may be lost.                                   *)
Commit(q, answered) ==
  /\ pc[q] = "working" /\ receipt = NoReceipt
  /\ effects' = effects + 1
  /\ receipt' = [payload |-> payload[q], result |-> effects + 1]
  /\ lock' = Free
  /\ pc' = [pc EXCEPT ![q] = "answering"]
  /\ outcome' = [outcome EXCEPT ![q] = IF answered THEN Success(effects + 1) ELSE Again]
  /\ UNCHANGED <<recordVars, payload, snap, second, heard, crashes>>

(* Faulty Duplicate: the receipt that is there is taken for one's own. *)
DuplicateAnswered(q) ==
  /\ pc[q] = "working" /\ receipt # NoReceipt
  /\ lock' = Free
  /\ pc' = [pc EXCEPT ![q] = "answering"]
  /\ outcome' = [outcome EXCEPT ![q] = Success(receipt.result)]
  /\ UNCHANGED <<recordVars, receipt, effects, payload, snap, second, heard, crashes>>

(* Save meets the receipt of another request, which the snapshot did not   *)
(* show: rollback.  An export is tried once more, with a fresh snapshot.   *)
Duplicate(q) ==
  /\ pc[q] = "working" /\ receipt # NoReceipt
  /\ lock' = Free
  /\ IF RouteOf[payload[q]] \in SnapshotRoutes /\ ~second[q]
       THEN /\ pc' = [pc EXCEPT ![q] = "admitted"]
            /\ second' = [second EXCEPT ![q] = TRUE]
            /\ UNCHANGED outcome
       ELSE /\ pc' = [pc EXCEPT ![q] = "answering"]
            /\ outcome' = [outcome EXCEPT ![q] = Again]
            /\ UNCHANGED second
  /\ UNCHANGED <<recordVars, receipt, effects, payload, snap, heard, crashes>>

(* The process dies: its transaction, and the lock, with it. *)
Crash(q) ==
  /\ pc[q] # "idle" /\ crashes < MaxCrashes
  /\ crashes' = crashes + 1
  /\ lock' = IF lock = q THEN Free ELSE lock
  /\ Leave(q)
  /\ UNCHANGED <<recordVars, receipt, effects, heard>>

-----------------------------------------------------------------------------
(* Time: a processing row grows stale, any row expires.                    *)
Tick ==
  /\ quiet' = [rt \in Routes |-> IF stage[rt] = "processing" /\ quiet[rt] <= ProcessingTimeout
                                   THEN quiet[rt] + 1 ELSE quiet[rt]]
  /\ ttl' = [rt \in Routes |-> IF stage[rt] # "none" /\ ttl[rt] >= 0 THEN ttl[rt] - 1 ELSE ttl[rt]]
  /\ UNCHANGED <<stage, hash, answer, receipt, effects, lock, localVars, heard, crashes>>

Handle(q) ==
  \/ \E o \in {Refused, Again} : TurnAway(q, o) \/ RollBack(q, o)
  \/ AskLock(q) \/ Load(q) \/ Duplicate(q)
  \/ \E answered \in BOOLEAN : Commit(q, answered)

Answer(q) == Abort(q) \/ Complete(q) \/ Unrecorded(q)

Next ==
  \/ \E q \in Requests : (\E p \in Payloads : Admit(q, p)) \/ Handle(q) \/ Answer(q) \/ Crash(q)
  \/ \E p \in Payloads : Replay(p)
  \/ Sweep \/ Tick

Spec == Init /\ [][Next]_vars

(* A client that has no final answer sends its command again; handlers go  *)
(* on; the database does not refuse to record every answer for ever.       *)
FairSpec ==
  /\ Spec /\ WF_vars(Tick)
  /\ \A p \in Payloads :
       /\ SF_vars(\E q \in Requests : Admit(q, p))
       /\ SF_vars(\E q \in Requests : payload[q] = p /\ (Abort(q) \/ Complete(q)))
  /\ \A q \in Requests : SF_vars(Handle(q)) /\ WF_vars(Answer(q))

-----------------------------------------------------------------------------
(* Rows and local variables have the types of their columns and fields,    *)
(* and the command's lock is held by the one request that works on it.     *)
TypeOK ==
  /\ stage \in [Routes -> {"none", "processing", "completed"}]
  /\ hash \in [Routes -> Payloads \cup {NoPayload}]
  /\ answer \in [Routes -> Outcome]
  /\ quiet \in [Routes -> Nat] /\ ttl \in [Routes -> Int]
  /\ receipt \in Receipt /\ effects \in Nat
  /\ lock \in Requests \cup {Free}
  /\ \A q \in Requests : pc[q] = "working" <=> lock = q
  /\ pc \in [Requests -> {"idle", "admitted", "waiting", "working", "answering"}]
  /\ payload \in [Requests -> Payloads \cup {NoPayload}]
  /\ snap \in [Requests -> Receipt] /\ second \in [Requests -> BOOLEAN]
  /\ outcome \in [Requests -> Outcome]
  /\ heard \subseteq [payload : Payloads, result : Nat]
  /\ crashes \in Nat

(* However often a command is resent, taken over, aborted, expired and     *)
(* lost with its process, on whatever routes and with whatever payloads,   *)
(* it takes effect at most once, and its receipt is that effect's.         *)
OneEffect ==
  /\ effects <= 1
  /\ receipt = NoReceipt <=> effects = 0

(* Every client that hears of a success hears of the same one: the request *)
(* it sent is the one that took effect, and the result is its result.      *)
OneStory == \A h \in heard : h = receipt

(* A cached success is backed by the receipt of that very request, for as  *)
(* long as it is cached: the anomaly business_receipt_missing cannot       *)
(* exist in the database.                                                  *)
CachedSuccessHasReceipt ==
  \A rt \in Routes :
    stage[rt] = "completed" /\ answer[rt].kind = "ok" =>
      receipt = [payload |-> hash[rt], result |-> answer[rt].result]

(* Whoever passed Load will find no receipt in its way at Save, except an  *)
(* export whose snapshot is older than the commit of another request, and  *)
(* that only on its first try: a duplicate receipt is never an error the   *)
(* client sees.                                                            *)
OnlyOldSnapshotsCollide ==
  \A q \in Requests :
    pc[q] = "working" /\ receipt # NoReceipt =>
      RouteOf[payload[q]] \in SnapshotRoutes /\ ~second[q]

(* A reservation left by a dead handler does not block its command for     *)
(* ever: as long as the client resends, it is answered or released.        *)
ReservationsEnd ==
  \A rt \in Routes : stage[rt] = "processing" ~> stage[rt] # "processing"
=============================================================================
