-------------------------- MODULE CommandGateProofs --------------------------
(***************************************************************************)
(* Theorems about CommandGate, for any number of requests, payloads and    *)
(* routes, any time limits and any number of crashes.                      *)
(*                                                                         *)
(* What is known of a command is spread over its receipt, the cached       *)
(* responses, what clients were told and what every handler remembers;     *)
(* the invariant says that each of them tells the story of the receipt.    *)
(***************************************************************************)
EXTENDS CommandGate, TLAPS

(* The receipt is written once, with the one effect. *)
ReceiptOfEffect ==
  /\ OneEffect
  /\ receipt # NoReceipt => receipt.payload \in Payloads

(* A handler remembers the receipt, or that there was none; it tells of no *)
(* success but that of the receipt; and when it tries again, it has seen   *)
(* that there is a receipt.                                                *)
HandlerSound(q) ==
  /\ pc[q] # "idle" => payload[q] \in Payloads
  /\ snap[q] \in {NoReceipt, receipt}
  /\ outcome[q].kind = "ok" =>
       /\ pc[q] = "answering"
       /\ receipt = [payload |-> payload[q], result |-> outcome[q].result]
  /\ second[q] = TRUE => /\ pc[q] # "idle" /\ receipt # NoReceipt
                         /\ pc[q] = "waiting" => snap[q] = receipt
                         /\ RouteOf[payload[q]] \in SnapshotRoutes
  /\ pc[q] = "working" /\ receipt # NoReceipt =>
       RouteOf[payload[q]] \in SnapshotRoutes /\ second[q] = FALSE

RowSound(rt) ==
  /\ stage[rt] # "none" => hash[rt] \in Payloads
  /\ stage[rt] = "completed" /\ answer[rt].kind = "ok" =>
       receipt = [payload |-> hash[rt], result |-> answer[rt].result]

ToldSound == \A h \in heard : h = receipt /\ h.payload \in Payloads

Sound ==
  /\ TypeOK /\ ReceiptOfEffect /\ ToldSound
  /\ \A q \in Requests : HandlerSound(q)
  /\ \A rt \in Routes : RowSound(rt)

-----------------------------------------------------------------------------
(* Types. *)
LEMMA Constants ==
  /\ NoReceipt \in Receipt /\ NoOutcome \in Outcome /\ Refused \in Outcome /\ Again \in Outcome
  /\ \A r \in Nat : Success(r) \in Outcome
  /\ \A p \in Payloads : RouteOf[p] \in Routes
  /\ NoPayload \notin Payloads /\ Free \notin Requests
BY ConstantsOK DEF ConstantsOK, NoReceipt, Receipt, NoOutcome, Outcome, Refused, Again, Success

RecordTyped ==
  /\ stage \in [Routes -> {"none", "processing", "completed"}]
  /\ hash \in [Routes -> Payloads \cup {NoPayload}]
  /\ answer \in [Routes -> Outcome]
  /\ quiet \in [Routes -> Nat] /\ ttl \in [Routes -> Int]

LocalTyped ==
  /\ pc \in [Requests -> {"idle", "admitted", "waiting", "working", "answering"}]
  /\ payload \in [Requests -> Payloads \cup {NoPayload}]
  /\ snap \in [Requests -> Receipt] /\ outcome \in [Requests -> Outcome]

CommandTyped ==
  /\ receipt \in Receipt /\ effects \in Nat
  /\ lock \in Requests \cup {Free}
  /\ \A q \in Requests : pc[q] = "working" <=> lock = q
  /\ heard \subseteq [payload : Payloads, result : Nat]
  /\ crashes \in Nat

Typed == RecordTyped /\ LocalTyped /\ CommandTyped

LEMMA SweptTyped ==
  ASSUME RecordTyped
  PROVE  /\ SweptStage \in [Routes -> {"none", "processing", "completed"}]
         /\ Cleared(hash, NoPayload) \in [Routes -> Payloads \cup {NoPayload}]
         /\ Cleared(answer, NoOutcome) \in [Routes -> Outcome]
         /\ Cleared(quiet, 0) \in [Routes -> Nat] /\ Cleared(ttl, 0) \in [Routes -> Int]
BY Constants DEF RecordTyped, SweptStage, Cleared

LEMMA InitTyped == Init => TypeOK
<1> SUFFICES ASSUME Init PROVE TypeOK
  OBVIOUS
<1>1. /\ stage \in [Routes -> {"none", "processing", "completed"}]
      /\ hash \in [Routes -> Payloads \cup {NoPayload}]
      /\ answer \in [Routes -> Outcome]
      /\ quiet \in [Routes -> Nat] /\ ttl \in [Routes -> Int]
  BY Constants DEF Init
<1>2. /\ receipt \in Receipt /\ effects \in Nat /\ lock \in Requests \cup {Free}
      /\ \A q \in Requests : pc[q] = "working" <=> lock = q
  BY Constants DEF Init
<1>3. /\ pc \in [Requests -> {"idle", "admitted", "waiting", "working", "answering"}]
      /\ payload \in [Requests -> Payloads \cup {NoPayload}]
      /\ snap \in [Requests -> Receipt] /\ outcome \in [Requests -> Outcome]
      /\ second \in [Requests -> BOOLEAN]
  BY Constants DEF Init
<1>4. heard \subseteq [payload : Payloads, result : Nat] /\ crashes \in Nat
  BY DEF Init
<1> QED
  BY <1>1, <1>2, <1>3, <1>4 DEF TypeOK

(* Each kind of step, on the reservations and on one handler. *)
LEMMA NextTyped == ASSUME Sound, [Next]_vars PROVE TypeOK'
<1>t. RecordTyped /\ LocalTyped /\ CommandTyped /\ second \in [Requests -> BOOLEAN]
  BY DEF Sound, TypeOK, RecordTyped, LocalTyped, CommandTyped
<1>1. ASSUME NEW q \in Requests, NEW p \in Payloads, Admit(q, p) PROVE Typed'
  <2>1. RecordTyped'
    BY <1>1, <1>t, SweptTyped, Constants, ConstantsOK DEF Admit, Reserve, RecordTyped, ConstantsOK
  <2>2. LocalTyped' /\ CommandTyped'
    BY <1>1, <1>t, Constants DEF Admit, LocalTyped, CommandTyped
  <2> QED
    BY <2>1, <2>2 DEF Typed
<1>2. ASSUME NEW p \in Payloads, Replay(p) PROVE Typed'
  <2>1. RecordTyped'
    BY <1>2, <1>t, SweptTyped DEF Replay, RecordTyped
  <2>2. LocalTyped' /\ CommandTyped'
    BY <1>2, <1>t, Constants DEF Replay, Hear, LocalTyped, CommandTyped, RecordTyped, localVars, Outcome
  <2> QED
    BY <2>1, <2>2 DEF Typed
<1>3. ASSUME Sweep PROVE Typed'
  <2>1. RecordTyped'
    BY <1>3, <1>t, SweptTyped DEF Sweep, RecordTyped
  <2>2. LocalTyped' /\ CommandTyped'
    BY <1>3, <1>t DEF Sweep, LocalTyped, CommandTyped, localVars
  <2> QED
    BY <2>1, <2>2 DEF Typed
<1>4. ASSUME NEW q \in Requests, Answer(q) \/ Crash(q) PROVE Typed'
  <2>1. LocalTyped' /\ Leave(q)
    BY <1>4, <1>t, Constants DEF Answer, Abort, Complete, Unrecorded, Crash, Leave, LocalTyped
  <2>2. RecordTyped'
    BY <1>4, <1>t, Constants DEF Answer, Abort, Complete, Unrecorded, Crash, RecordTyped, recordVars, LocalTyped
  <2>3. CommandTyped'
    <3>1. payload[q] \in Payloads \/ pc[q] = "idle"
      BY DEF Sound, HandlerSound
    <3>2. heard' \subseteq [payload : Payloads, result : Nat]
      BY <1>4, <1>t, <3>1 DEF Answer, Abort, Complete, Unrecorded, Crash, Hear, CommandTyped, LocalTyped, Outcome
    <3>3. /\ UNCHANGED <<receipt, effects>> /\ crashes' \in Nat /\ lock' \in Requests \cup {Free}
          /\ \A c \in Requests : pc'[c] = "working" <=> lock' = c
      BY <1>4, <1>t, <2>1, Constants DEF Answer, Abort, Complete, Unrecorded, Crash, Leave, CommandTyped, LocalTyped
    <3> QED
      BY <1>t, <3>2, <3>3 DEF CommandTyped
  <2> QED
    BY <2>1, <2>2, <2>3 DEF Typed
<1>5. ASSUME NEW q \in Requests, Handle(q) PROVE Typed'
  <2>1. RecordTyped' /\ UNCHANGED <<heard, crashes>>
    BY <1>5, <1>t DEF Handle, TurnAway, RollBack, AskLock, Load, Duplicate, Commit, RecordTyped, recordVars
  <2>2. LocalTyped'
    <3>1. ASSUME NEW o \in {Refused, Again}, TurnAway(q, o) \/ RollBack(q, o) PROVE LocalTyped'
      BY <3>1, <1>t, Constants DEF TurnAway, RollBack, LocalTyped
    <3>2. ASSUME AskLock(q) \/ Duplicate(q) PROVE LocalTyped'
      BY <3>2, <1>t, Constants DEF AskLock, Duplicate, LocalTyped, CommandTyped
    <3>3. ASSUME Load(q) PROVE LocalTyped'
      <4>1. Visible(q).result \in Nat
        BY <1>t DEF Visible, LocalTyped, CommandTyped, Receipt
      <4>2. Saved(payload[q], Visible(q)) \in Outcome
        BY <4>1, Constants DEF Saved
      <4> QED
        BY <3>3, <4>2, <1>t DEF Load, LocalTyped
    <3>4. ASSUME NEW answered \in BOOLEAN, Commit(q, answered) PROVE LocalTyped'
      <4>1. /\ pc' = [pc EXCEPT ![q] = "answering"] /\ UNCHANGED <<payload, snap>>
            /\ \/ outcome' = [outcome EXCEPT ![q] = Success(effects + 1)]
               \/ outcome' = [outcome EXCEPT ![q] = Again]
        BY <3>4 DEF Commit
      <4>2. Success(effects + 1) \in Outcome
        BY <1>t, Constants DEF CommandTyped
      <4> QED
        BY <4>1, <4>2, <1>t, Constants DEF LocalTyped
    <3> QED
      BY <1>5, <3>1, <3>2, <3>3, <3>4 DEF Handle
  <2>3. receipt' \in Receipt /\ effects' \in Nat
    BY <1>5, <1>t DEF Handle, TurnAway, RollBack, AskLock, Load, Duplicate, Commit, CommandTyped, LocalTyped, Receipt
  <2>4. lock' \in Requests \cup {Free} /\ \A c \in Requests : pc'[c] = "working" <=> lock' = c
    BY <1>5, <1>t, Constants DEF Handle, TurnAway, RollBack, AskLock, Load, Duplicate, Commit, CommandTyped, LocalTyped
  <2> QED
    BY <1>t, <2>1, <2>2, <2>3, <2>4 DEF CommandTyped, Typed
<1>6. ASSUME Tick PROVE Typed'
  BY <1>6, <1>t DEF Tick, Typed, RecordTyped, LocalTyped, CommandTyped, localVars
<1>7. ASSUME UNCHANGED vars PROVE Typed'
  BY <1>7, <1>t DEF vars, recordVars, localVars, Typed, RecordTyped, LocalTyped, CommandTyped
<1>8. Typed'
  BY <1>1, <1>2, <1>3, <1>4, <1>5, <1>6, <1>7 DEF Next
<1>9. second' \in [Requests -> BOOLEAN]
  <2>1. \/ UNCHANGED second
        \/ \E q \in Requests : \/ second' = [second EXCEPT ![q] = TRUE]
                               \/ second' = [second EXCEPT ![q] = FALSE]
    <3>1. ASSUME NEW q \in Requests, Handle(q)
          PROVE  UNCHANGED second \/ second' = [second EXCEPT ![q] = TRUE]
      BY <3>1 DEF Handle, TurnAway, RollBack, AskLock, Load, Duplicate, Commit
    <3>2. ASSUME NEW q \in Requests, Answer(q) \/ Crash(q) PROVE second' = [second EXCEPT ![q] = FALSE]
      BY <3>2 DEF Answer, Abort, Complete, Unrecorded, Crash, Leave
    <3>3. ASSUME \/ \E q \in Requests, p \in Payloads : Admit(q, p)
                 \/ \E p \in Payloads : Replay(p)
                 \/ Sweep \/ Tick \/ UNCHANGED vars
          PROVE  UNCHANGED second
      BY <3>3 DEF Admit, Replay, Sweep, Tick, vars, localVars
    <3> QED
      BY <3>1, <3>2, <3>3 DEF Next
  <2> QED
    BY <2>1, <1>t
<1> QED
  BY <1>8, <1>9 DEF TypeOK, Typed, RecordTyped, LocalTyped, CommandTyped

-----------------------------------------------------------------------------
(* Frames: steps that leave the receipt alone. *)
LEMMA HandlersKept ==
  ASSUME \A q \in Requests : HandlerSound(q), UNCHANGED <<receipt, localVars>>
  PROVE  \A q \in Requests : HandlerSound(q)'
BY DEF HandlerSound, localVars

LEMMA OthersKept ==
  ASSUME TypeOK, \A c \in Requests : HandlerSound(c), NEW q \in Requests, HandlerSound(q)',
         UNCHANGED receipt,
         \A c \in Requests : c # q =>
           /\ pc'[c] = pc[c] /\ payload'[c] = payload[c] /\ snap'[c] = snap[c]
           /\ second'[c] = second[c] /\ outcome'[c] = outcome[c]
  PROVE  \A c \in Requests : HandlerSound(c)'
<1> SUFFICES ASSUME NEW c \in Requests, c # q PROVE HandlerSound(c)'
  OBVIOUS
<1> QED
  BY DEF HandlerSound

LEMMA RowsKept ==
  ASSUME \A rt \in Routes : RowSound(rt), UNCHANGED <<receipt, stage, hash, answer>>
  PROVE  \A rt \in Routes : RowSound(rt)'
BY DEF RowSound

LEMMA SweptSound ==
  ASSUME TypeOK, \A rt \in Routes : RowSound(rt), NEW rt \in Routes
  PROVE  /\ SweptStage[rt] # "none" =>
              /\ SweptStage[rt] = stage[rt] /\ Cleared(hash, NoPayload)[rt] = hash[rt]
              /\ Cleared(answer, NoOutcome)[rt] = answer[rt]
BY DEF SweptStage, Cleared

(* Once there is a receipt, snapshots of it and stories about it stand;    *)
(* before, there are none to stand.                                        *)
LEMMA NothingToldYet ==
  ASSUME Sound, receipt = NoReceipt
  PROVE  /\ heard = {} /\ effects = 0
         /\ \A q \in Requests : /\ snap[q] = NoReceipt /\ outcome[q].kind # "ok"
                                /\ second[q] # TRUE
         /\ \A rt \in Routes : ~(stage[rt] = "completed" /\ answer[rt].kind = "ok")
<1>1. NoReceipt.payload \notin Payloads
  BY Constants DEF NoReceipt
<1>2. heard = {} /\ effects = 0
  BY <1>1 DEF Sound, ToldSound, ReceiptOfEffect, OneEffect
<1>3. ASSUME NEW q \in Requests
      PROVE  snap[q] = NoReceipt /\ outcome[q].kind # "ok" /\ second[q] # TRUE
  <2>1. snap[q] = NoReceipt /\ second[q] # TRUE
    BY DEF Sound, HandlerSound
  <2>2. ASSUME outcome[q].kind = "ok" PROVE FALSE
    <3>1. /\ pc[q] = "answering" /\ payload[q] \in Payloads
          /\ NoReceipt = [payload |-> payload[q], result |-> outcome[q].result]
      BY <2>2 DEF Sound, HandlerSound
    <3>2. NoReceipt.payload = payload[q]
      BY <3>1
    <3> QED
      BY <1>1, <3>1, <3>2
  <2> QED
    BY <2>1, <2>2
<1>4. ASSUME NEW rt \in Routes, stage[rt] = "completed", answer[rt].kind = "ok" PROVE FALSE
  BY <1>1, <1>4 DEF Sound, RowSound
<1> QED
  BY <1>2, <1>3, <1>4

-----------------------------------------------------------------------------
LEMMA InitSound == Init => Sound
<1> SUFFICES ASSUME Init PROVE Sound
  OBVIOUS
<1>1. ReceiptOfEffect /\ ToldSound
  BY DEF Init, ReceiptOfEffect, OneEffect, ToldSound
<1>2. \A q \in Requests : HandlerSound(q)
  BY DEF Init, HandlerSound, NoOutcome
<1>3. \A rt \in Routes : RowSound(rt)
  BY DEF Init, RowSound
<1> QED
  BY <1>1, <1>2, <1>3, InitTyped DEF Sound

(* The handler: one step per statement of it. *)
LEMMA HandleSound ==
  ASSUME Sound, NEW q \in Requests, Handle(q)
  PROVE  /\ ReceiptOfEffect' /\ ToldSound'
         /\ \A c \in Requests : HandlerSound(c)'
         /\ \A rt \in Routes : RowSound(rt)'
<1> DEFINE others == \A c \in Requests : c # q =>
                       /\ pc'[c] = pc[c] /\ payload'[c] = payload[c] /\ snap'[c] = snap[c]
                       /\ second'[c] = second[c] /\ outcome'[c] = outcome[c]
<1>t. TypeOK /\ HandlerSound(q) /\ (\A c \in Requests : HandlerSound(c))
  BY DEF Sound
<1>k. others /\ UNCHANGED <<recordVars, heard, crashes>>
  BY <1>t DEF Handle, TurnAway, RollBack, AskLock, Load, Duplicate, Commit, TypeOK
<1>1. ASSUME UNCHANGED <<receipt, effects>>, HandlerSound(q)'
      PROVE  /\ ReceiptOfEffect' /\ ToldSound'
             /\ \A c \in Requests : HandlerSound(c)'
             /\ \A rt \in Routes : RowSound(rt)'
  <2>1. ReceiptOfEffect' /\ ToldSound'
    BY <1>1, <1>k DEF Sound, ReceiptOfEffect, OneEffect, ToldSound
  <2>2. \A c \in Requests : HandlerSound(c)'
    BY <1>1, <1>k, <1>t, OthersKept
  <2>3. \A rt \in Routes : RowSound(rt)'
    BY <1>1, <1>k, RowsKept DEF Sound, recordVars
  <2> QED
    BY <2>1, <2>2, <2>3
<1>2. ASSUME NEW o \in {Refused, Again}, TurnAway(q, o) \/ RollBack(q, o)
      PROVE  UNCHANGED <<receipt, effects>> /\ HandlerSound(q)'
  BY <1>2, <1>t DEF TurnAway, RollBack, HandlerSound, TypeOK, Refused, Again
<1>3. ASSUME AskLock(q) PROVE UNCHANGED <<receipt, effects>> /\ HandlerSound(q)'
  BY <1>3, <1>t DEF AskLock, HandlerSound, TypeOK
<1>4. ASSUME Load(q) PROVE UNCHANGED <<receipt, effects>> /\ HandlerSound(q)'
  <2>1. CASE Visible(q) = NoReceipt
    <3>1. receipt # NoReceipt => RouteOf[payload[q]] \in SnapshotRoutes /\ second[q] # TRUE
      BY <1>4, <1>t, <2>1 DEF Load, Visible, HandlerSound
    <3>2. second[q] \in BOOLEAN
      BY <1>t DEF TypeOK
    <3>3. receipt # NoReceipt => second[q] = FALSE
      BY <3>1, <3>2
    <3> QED
      BY <1>4, <1>t, <2>1, <3>1, <3>3 DEF Load, HandlerSound, TypeOK
  <2>2. CASE Visible(q) # NoReceipt
    <3>1. Visible(q) = receipt
      BY <1>t, <2>2 DEF Visible, HandlerSound
    <3>2. receipt = [payload |-> receipt.payload, result |-> receipt.result]
      BY <1>t DEF TypeOK, Receipt
    <3>3. Saved(payload[q], receipt).kind = "ok" =>
            receipt = [payload |-> payload[q], result |-> Saved(payload[q], receipt).result]
      BY <3>2 DEF Saved, Success, Again
    <3> QED
      BY <1>4, <1>t, <2>2, <3>1, <3>3 DEF Load, HandlerSound, TypeOK
  <2> QED
    BY <2>1, <2>2
<1>5. ASSUME Duplicate(q) PROVE UNCHANGED <<receipt, effects>> /\ HandlerSound(q)'
  BY <1>5, <1>t DEF Duplicate, HandlerSound, TypeOK, Again
<1>6. ASSUME NEW answered \in BOOLEAN, Commit(q, answered)
      PROVE  /\ ReceiptOfEffect' /\ ToldSound'
             /\ \A c \in Requests : HandlerSound(c)'
             /\ \A rt \in Routes : RowSound(rt)'
  <2>1. /\ receipt = NoReceipt /\ effects = 0 /\ heard = {}
        /\ receipt' = [payload |-> payload[q], result |-> 1] /\ effects' = 1
        /\ payload[q] \in Payloads
    BY <1>6, <1>t, NothingToldYet DEF Commit, HandlerSound
  <2>2. receipt' # NoReceipt
    BY <2>1, Constants DEF NoReceipt
  <2>3. ReceiptOfEffect' /\ ToldSound'
    BY <1>k, <2>1, <2>2 DEF ReceiptOfEffect, OneEffect, ToldSound
  <2>4. \A rt \in Routes : RowSound(rt)'
    BY <1>k, <2>1, NothingToldYet DEF Sound, RowSound, recordVars
  <2>5. ASSUME NEW c \in Requests, c # q PROVE HandlerSound(c)'
    <3>1. pc[c] # "working"
      BY <1>6, <1>t, <2>5 DEF Commit, TypeOK
    <3>2. snap[c] = NoReceipt /\ outcome[c].kind # "ok" /\ second[c] # TRUE
      BY <2>1, NothingToldYet
    <3> QED
      BY <1>k, <1>t, <2>5, <2>1, <3>1, <3>2 DEF HandlerSound
  <2>6. HandlerSound(q)'
    <3>1. snap[q] = NoReceipt /\ second[q] # TRUE
      BY <2>1, NothingToldYet
    <3>2. /\ pc'[q] = "answering" /\ payload'[q] = payload[q] /\ snap'[q] = snap[q]
          /\ second'[q] = second[q]
          /\ outcome'[q] = Success(1) \/ outcome'[q] = Again
      BY <1>6, <1>t, <2>1 DEF Commit, TypeOK
    <3>3. outcome'[q].kind = "ok" => outcome'[q].result = 1
      BY <3>2 DEF Success, Again
    <3>4. second'[q] # TRUE
      BY <3>1, <3>2
    <3>5. snap'[q] \in {NoReceipt, receipt'}
      BY <3>1, <3>2
    <3> QED
      BY <2>1, <3>2, <3>3, <3>4, <3>5 DEF HandlerSound
  <2> QED
    BY <2>3, <2>4, <2>5, <2>6
<1> HIDE DEF others
<1> QED
  BY <1>1, <1>2, <1>3, <1>4, <1>5, <1>6 DEF Handle

(* The middleware and the crash: the receipt is not touched. *)
LEMMA Left ==
  ASSUME Sound, NEW q \in Requests, Leave(q), UNCHANGED receipt
  PROVE  \A c \in Requests : HandlerSound(c)'
<1>1. TypeOK /\ \A c \in Requests : HandlerSound(c)
  BY DEF Sound
<1>2. HandlerSound(q)'
  BY <1>1 DEF Leave, HandlerSound, TypeOK, NoOutcome
<1>3. \A c \in Requests : c # q =>
        /\ pc'[c] = pc[c] /\ payload'[c] = payload[c] /\ snap'[c] = snap[c]
        /\ second'[c] = second[c] /\ outcome'[c] = outcome[c]
  BY <1>1 DEF Leave, TypeOK
<1> QED
  BY <1>1, <1>2, <1>3, OthersKept

LEMMA AnswerSound ==
  ASSUME Sound, NEW q \in Requests, Answer(q) \/ Crash(q)
  PROVE  /\ ReceiptOfEffect' /\ ToldSound'
         /\ \A c \in Requests : HandlerSound(c)'
         /\ \A rt \in Routes : RowSound(rt)'
<1>t. TypeOK /\ HandlerSound(q) /\ (\A rt \in Routes : RowSound(rt)) /\ ToldSound /\ ReceiptOfEffect
  BY DEF Sound
<1>1. UNCHANGED <<receipt, effects>> /\ Leave(q)
  BY DEF Answer, Abort, Complete, Unrecorded, Crash
<1>2. ReceiptOfEffect' /\ \A c \in Requests : HandlerSound(c)'
  BY <1>1, <1>t, Left DEF ReceiptOfEffect, OneEffect
<1>3. CASE Abort(q)
  <2>1. UNCHANGED heard /\ UNCHANGED answer
    BY <1>3 DEF Abort, recordVars
  <2>2. \A rt \in Routes : stage'[rt] # "none" => stage'[rt] = stage[rt] /\ hash'[rt] = hash[rt]
    BY <1>3, <1>t DEF Abort, recordVars, TypeOK
  <2> QED
    BY <1>1, <1>2, <1>t, <2>1, <2>2 DEF ToldSound, RowSound
<1>4. CASE Complete(q)
  <2>1. CASE MineIsProcessing(q)
    <3> DEFINE rt == RouteOf[payload[q]]
    <3>1. /\ payload[q] \in Payloads /\ rt \in Routes /\ hash[rt] = payload[q]
      BY <1>4, <1>t, <2>1, Constants DEF Complete, HandlerSound, MineIsProcessing
    <3>2. /\ UNCHANGED hash
          /\ stage' = [stage EXCEPT ![rt] = "completed"]
          /\ answer' = [answer EXCEPT ![rt] = outcome[q]]
          /\ Hear(payload[q], outcome[q])
      BY <1>4, <2>1 DEF Complete
    <3>3. outcome[q].kind = "ok" => receipt = [payload |-> payload[q], result |-> outcome[q].result]
      BY <1>t DEF HandlerSound
    <3> HIDE DEF rt
    <3>4. \A r \in Routes : RowSound(r)'
      BY <1>1, <1>t, <3>1, <3>2, <3>3 DEF RowSound, TypeOK
    <3>5. ToldSound'
      BY <1>1, <1>t, <3>1, <3>2, <3>3 DEF Hear, ToldSound
    <3> QED
      BY <1>2, <3>4, <3>5
  <2>2. CASE ~MineIsProcessing(q)
    <3>1. UNCHANGED <<recordVars, heard>>
      BY <1>4, <2>2 DEF Complete
    <3> QED
      BY <1>1, <1>2, <1>t, <3>1, RowsKept DEF ToldSound, recordVars
  <2> QED
    BY <2>1, <2>2
<1>5. CASE Unrecorded(q) \/ Crash(q)
  <2>1. UNCHANGED <<recordVars, heard>>
    BY <1>5 DEF Unrecorded, Crash
  <2> QED
    BY <1>1, <1>2, <1>t, <2>1, RowsKept DEF ToldSound, recordVars
<1> QED
  BY <1>3, <1>4, <1>5 DEF Answer

LEMMA NextSound == Sound /\ [Next]_vars => Sound'
<1> SUFFICES ASSUME Sound, [Next]_vars PROVE Sound'
  OBVIOUS
<1> DEFINE Told == /\ ReceiptOfEffect' /\ ToldSound'
                   /\ \A c \in Requests : HandlerSound(c)'
                   /\ \A rt \in Routes : RowSound(rt)'
<1>t. /\ TypeOK /\ ReceiptOfEffect /\ ToldSound
      /\ (\A q \in Requests : HandlerSound(q)) /\ (\A rt \in Routes : RowSound(rt))
  BY DEF Sound
<1>s. \A rt \in Routes : SweptStage[rt] # "none" =>
        /\ SweptStage[rt] = stage[rt] /\ Cleared(hash, NoPayload)[rt] = hash[rt]
        /\ Cleared(answer, NoOutcome)[rt] = answer[rt]
  BY <1>t, SweptSound
<1>1. ASSUME NEW q \in Requests, NEW p \in Payloads, Admit(q, p) PROVE Told
  <2>1. /\ UNCHANGED <<receipt, effects, heard, snap, second, outcome>>
        /\ pc[q] = "idle" /\ Reserve(RouteOf[p], p)
        /\ pc' = [pc EXCEPT ![q] = "admitted"] /\ payload' = [payload EXCEPT ![q] = p]
    BY <1>1 DEF Admit
  <2>2. ReceiptOfEffect' /\ ToldSound'
    BY <1>t, <2>1 DEF ReceiptOfEffect, OneEffect, ToldSound
  <2>3. \A rt \in Routes : RowSound(rt)'
    <3>1. RouteOf[p] \in Routes
      BY Constants
    <3>2. /\ SweptStage \in [Routes -> {"none", "processing", "completed"}]
          /\ Cleared(hash, NoPayload) \in [Routes -> Payloads \cup {NoPayload}]
      BY <1>t, SweptTyped DEF TypeOK, RecordTyped
    <3>3. \A rt \in Routes :
            /\ rt = RouteOf[p] => stage'[rt] = "processing" /\ hash'[rt] = p
            /\ rt # RouteOf[p] => /\ stage'[rt] = SweptStage[rt]
                                  /\ hash'[rt] = Cleared(hash, NoPayload)[rt]
                                  /\ answer'[rt] = Cleared(answer, NoOutcome)[rt]
      BY <2>1, <3>1, <3>2 DEF Reserve
    <3> QED
      BY <1>s, <1>t, <2>1, <3>3 DEF RowSound
  <2>4. HandlerSound(q)'
    <3>1. outcome[q].kind # "ok"
      BY <1>t, <2>1 DEF HandlerSound
    <3>2. second[q] # TRUE
      BY <1>t, <2>1 DEF HandlerSound
    <3> QED
      BY <1>t, <2>1, <3>1, <3>2 DEF HandlerSound, TypeOK
  <2>5. \A c \in Requests : HandlerSound(c)'
    BY <1>t, <2>1, <2>4, OthersKept DEF TypeOK
  <2> QED
    BY <2>2, <2>3, <2>5
<1>2. ASSUME NEW p \in Payloads, Replay(p) PROVE Told
  <2> DEFINE rt == RouteOf[p]
  <2>1. /\ UNCHANGED <<receipt, effects, localVars>>
        /\ stage' = SweptStage /\ hash' = Cleared(hash, NoPayload) /\ answer' = Cleared(answer, NoOutcome)
        /\ stage[rt] = "completed" /\ hash[rt] = p /\ Hear(p, answer[rt]) /\ rt \in Routes
    BY <1>2, Constants DEF Replay
  <2> HIDE DEF rt
  <2>2. answer[rt].kind = "ok" => receipt = [payload |-> p, result |-> answer[rt].result]
    BY <1>t, <2>1 DEF RowSound
  <2>3. ToldSound'
    BY <1>t, <2>1, <2>2 DEF Hear, ToldSound
  <2>4. \A r \in Routes : RowSound(r)'
    BY <1>s, <1>t, <2>1 DEF RowSound
  <2> QED
    BY <1>t, <2>1, <2>3, <2>4, HandlersKept DEF ReceiptOfEffect, OneEffect
<1>3. ASSUME Sweep PROVE Told
  <2>1. /\ UNCHANGED <<receipt, effects, heard, localVars>>
        /\ stage' = SweptStage /\ hash' = Cleared(hash, NoPayload) /\ answer' = Cleared(answer, NoOutcome)
    BY <1>3 DEF Sweep
  <2>2. \A r \in Routes : RowSound(r)'
    BY <1>s, <1>t, <2>1 DEF RowSound
  <2> QED
    BY <1>t, <2>1, <2>2, HandlersKept DEF ReceiptOfEffect, OneEffect, ToldSound
<1>4. ASSUME Tick \/ UNCHANGED vars PROVE Told
  <2>1. UNCHANGED <<receipt, effects, heard, localVars, stage, hash, answer>>
    BY <1>4 DEF Tick, vars, recordVars
  <2> QED
    BY <1>t, <2>1, HandlersKept, RowsKept DEF ReceiptOfEffect, OneEffect, ToldSound
<1>5. Told
  BY <1>1, <1>2, <1>3, <1>4, HandleSound, AnswerSound DEF Next
<1> QED
  BY <1>5, NextTyped DEF Sound

LEMMA AlwaysSound == Spec => []Sound
BY InitSound, NextSound, PTL DEF Spec

-----------------------------------------------------------------------------
(* Rows and local variables keep their types, and the advisory lock of the *)
(* command (commandreceipt.Load) has one holder, who is at work.           *)
THEOREM Types == Spec => []TypeOK
<1>1. Sound => TypeOK
  BY DEF Sound
<1> QED
  BY AlwaysSound, <1>1, PTL

(* A command takes effect at most once, whatever is resent, taken over     *)
(* (Begin), swept, aborted or lost with its process.                       *)
THEOREM AtMostOnce == Spec => []OneEffect
<1>1. Sound => OneEffect
  BY DEF Sound, ReceiptOfEffect
<1> QED
  BY AlwaysSound, <1>1, PTL

(* All clients that hear of a success, from Complete or from a replay,     *)
(* hear of the one in the receipt.                                         *)
THEOREM SameStory == Spec => []OneStory
<1>1. Sound => OneStory
  BY DEF Sound, ToldSound, OneStory
<1> QED
  BY AlwaysSound, <1>1, PTL

(* A cached success has its receipt: what receipt.go reports as missing    *)
(* cannot be in the database.                                              *)
THEOREM CachedIsBacked == Spec => []CachedSuccessHasReceipt
<1>1. Sound => CachedSuccessHasReceipt
  BY DEF Sound, RowSound, CachedSuccessHasReceipt
<1> QED
  BY AlwaysSound, <1>1, PTL

(* Save meets a receipt only on a first try that reads an old snapshot     *)
(* (errDuplicateReceipt), so the one retry of an export is enough.         *)
THEOREM RetryIsEnough == Spec => []OnlyOldSnapshotsCollide
<1>1. Sound => OnlyOldSnapshotsCollide
  <2>1. ASSUME Sound, NEW q \in Requests, pc[q] = "working", receipt # NoReceipt
        PROVE  RouteOf[payload[q]] \in SnapshotRoutes /\ ~second[q]
    BY <2>1 DEF Sound, HandlerSound
  <2> QED
    BY <2>1 DEF OnlyOldSnapshotsCollide
<1> QED
  BY AlwaysSound, <1>1, PTL
=============================================================================
