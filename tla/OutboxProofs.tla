----------------------------- MODULE OutboxProofs -----------------------------
(***************************************************************************)
(* Theorems about Outbox, for every set of events and dispatchers and      *)
(* every value of the bounds, lease and backoff.                           *)
(*                                                                         *)
(* The verdict on an event is not inductive by itself: a dispatcher that   *)
(* marks a row does so with the attempt number it remembers, and nothing   *)
(* in the row says that this is the newest, or that nobody else remembers  *)
(* the same.  Sound says both.                                             *)
(***************************************************************************)
EXTENDS Outbox, WellFoundedInduction, TLAPS

Attempts == 1..MaxAttempts
InBatch(d, e, n) == [event |-> e, attempt |-> n] \in batch[d]
Settles(d, e, n) == /\ settling[d] # Nothing
                    /\ settling[d].event = e /\ settling[d].attempt = n
Remembers(d, e, n) == InBatch(d, e, n) \/ Settles(d, e, n)

(* The types of TypeOK, but for waitLeft, which no other part needs. *)
Typed ==
  /\ status \in [Events -> {"absent", "pending", "published", "dead_lettered"}]
  /\ attempts \in [Events -> 0..MaxAttempts]
  /\ lockedBy \in [Events -> Owners \cup {NoOwner}]
  /\ lockLeft \in [Events -> -1..LeaseTTL]
  /\ batch \in [Dispatchers -> SUBSET Claims]
  /\ settling \in [Dispatchers -> Outcomes \cup {Nothing}]
  /\ life \in [Dispatchers -> 1..MaxLives]
  /\ delivered \in [Events -> SUBSET (1..MaxAttempts)]

(* Nobody remembers an attempt that is not made yet, and who has the lease *)
(* remembers the newest.                                                   *)
LockIsNewest ==
  \A d \in Dispatchers, e \in Events, n \in Attempts :
    Remembers(d, e, n) =>
      /\ n <= attempts[e]
      /\ (lockedBy[e] = Owner(d) /\ lockLeft[e] >= 0) => n = attempts[e]

(* An attempt is one dispatcher's, and is published once. *)
AttemptsApart ==
  \A d \in Dispatchers, e \in Events, n \in Attempts :
    /\ InBatch(d, e, n) => ~Settles(d, e, n)
    /\ \A c \in Dispatchers : Remembers(d, e, n) /\ Remembers(c, e, n) => c = d

DeliveredIsMade ==
  \A e \in Events, n \in Attempts :
    /\ n \in delivered[e] => n <= attempts[e]
    /\ \A d \in Dispatchers :
         /\ InBatch(d, e, n) => n \notin delivered[e]
         /\ Settles(d, e, n) => (settling[d].ok <=> n \in delivered[e])

LastIsForgotten ==
  \A d \in Dispatchers, e \in Events :
    status[e] = "dead_lettered" => ~Remembers(d, e, MaxAttempts)

Sound ==
  /\ Typed /\ LockIsNewest /\ AttemptsApart /\ DeliveredIsMade
  /\ VerdictOfLastAttempt /\ LastIsForgotten

-----------------------------------------------------------------------------
(* Backoff, which is defined by recursion: it is a function that satisfies *)
(* its equation, and its values do not exceed the longest backoff.         *)

(* Induction over the naturals, for a set. *)
LEMMA NatSet ==
  ASSUME NEW T \in SUBSET Nat, 0 \in T, \A n \in T : n + 1 \in T
  PROVE  T = Nat
<1> DEFINE R == OpToRel(<, Nat)
           Rest == Nat \ T
<1>1. IsWellFoundedOn(R, Nat)
  BY NatLessThanWellFounded
<1>2. \A i, j \in Nat : i < j => <<i, j>> \in R
  BY DEF OpToRel
<1> HIDE DEF R
<1>3. SUFFICES ASSUME Rest # {} PROVE FALSE
  OBVIOUS
<1>4. PICK m \in Rest : \A k \in Rest : <<k, m>> \notin R
  <2>1. Rest \subseteq Nat
    OBVIOUS
  <2> HIDE DEF Rest
  <2> QED
    BY <1>1, <1>3, <2>1, WFMin
<1>5. m - 1 \in Nat /\ m - 1 < m
  BY <1>4
<1>6. m - 1 \in T
  BY <1>2, <1>4, <1>5
<1> QED
  BY <1>4, <1>5, <1>6

Delays == 0..LongestBackoff

LEMMA DoubledIsDelay == BaseBackoff \in Delays /\ \A last \in Delays : Doubled(last) \in Delays
BY ConstantsOK DEF ConstantsOK, Delays, Doubled, LongestBackoff

LEMMA BackoffEquation ==
  Backoff = [n \in Attempts |-> IF n = 1 THEN BaseBackoff ELSE Doubled(Backoff[n - 1])]
<1> DEFINE Solves(g, k) == \A n \in 1..k : g[n] = IF n = 1 THEN BaseBackoff ELSE Doubled(g[n - 1])
           T == {k \in Nat : \E g \in [1..k -> Delays] : Solves(g, k)}
<1>1. 0 \in T
  <2>1. [n \in 1..0 |-> 0] \in [1..0 -> Delays] /\ Solves([n \in 1..0 |-> 0], 0)
    OBVIOUS
  <2> QED
    BY <2>1
<1>2. ASSUME NEW k \in T PROVE k + 1 \in T
  <2>1. PICK g \in [1..k -> Delays] : Solves(g, k)
    OBVIOUS
  <2> DEFINE new == IF k = 0 THEN BaseBackoff ELSE Doubled(g[k])
             h == [n \in 1..(k + 1) |-> IF n = k + 1 THEN new ELSE g[n]]
  <2>2. new \in Delays
    BY DoubledIsDelay
  <2>3. h \in [1..(k + 1) -> Delays]
    BY <2>2
  <2>4. Solves(h, k + 1)
    <3> SUFFICES ASSUME NEW n \in 1..(k + 1)
                 PROVE  h[n] = IF n = 1 THEN BaseBackoff ELSE Doubled(h[n - 1])
      OBVIOUS
    <3>1. CASE n = k + 1
      BY <3>1
    <3>2. CASE n # k + 1
      BY <2>1, <3>2
    <3> QED
      BY <3>1, <3>2
  <2> HIDE DEF h
  <2> QED
    BY <2>3, <2>4
<1>3. T = Nat
  <2> HIDE DEF T
  <2>1. T \in SUBSET Nat
    BY DEF T
  <2> QED
    BY <1>1, <1>2, <2>1, NatSet
<1>4. PICK g \in [Attempts -> Delays] : Solves(g, MaxAttempts)
  BY <1>3, ConstantsOK DEF ConstantsOK, Attempts
<1>5. g = [n \in Attempts |-> IF n = 1 THEN BaseBackoff ELSE Doubled(g[n - 1])]
  BY <1>4 DEF Attempts
<1>6. Backoff = CHOOSE f : f = [n \in Attempts |-> IF n = 1 THEN BaseBackoff ELSE Doubled(f[n - 1])]
  BY DEF Backoff, Attempts
<1> QED
  BY <1>5, <1>6

LEMMA BackoffBounded == \A n \in Attempts : Backoff[n] \in Delays
<1> DEFINE T == {n \in Nat : n + 1 \in Attempts => Backoff[n + 1] \in Delays}
<1>1. 0 \in T
  BY BackoffEquation, DoubledIsDelay
<1>2. ASSUME NEW n \in T PROVE n + 1 \in T
  <2>1. CASE n + 2 \in Attempts
    <3>1. n + 1 \in Attempts /\ n + 2 # 1 /\ (n + 2) - 1 = n + 1
      BY <2>1, ConstantsOK DEF ConstantsOK, Attempts
    <3>2. Backoff[n + 2] = Doubled(Backoff[n + 1])
      BY <2>1, <3>1, BackoffEquation
    <3>3. Backoff[n + 1] \in Delays
      BY <3>1
    <3> QED
      BY <3>2, <3>3, DoubledIsDelay
  <2> QED
    BY <2>1
<1>3. T = Nat
  <2> HIDE DEF T
  <2>1. T \in SUBSET Nat
    BY DEF T
  <2> QED
    BY <1>1, <1>2, <2>1, NatSet
<1>4. ASSUME NEW n \in Attempts PROVE Backoff[n] \in Delays
  <2>1. n - 1 \in Nat /\ (n - 1) + 1 = n
    BY ConstantsOK DEF ConstantsOK, Attempts
  <2>2. n - 1 \in T
    <3> HIDE DEF T
    <3> QED
      BY <1>3, <2>1
  <2> QED
    BY <2>1, <2>2
<1> QED
  BY <1>4

LEMMA InitSound == Init => Sound
<1> USE ConstantsOK DEF ConstantsOK
<1>1. Init => Typed
  BY DEF Init, Typed
<1>2. Init => LockIsNewest /\ AttemptsApart /\ LastIsForgotten
  BY DEF Init, LockIsNewest, AttemptsApart, LastIsForgotten, Remembers, InBatch, Settles
<1>3. Init => DeliveredIsMade /\ VerdictOfLastAttempt
  BY DEF Init, DeliveredIsMade, VerdictOfLastAttempt, InBatch, Settles
<1> QED
  BY <1>1, <1>2, <1>3 DEF Sound

(* Types. *)
LEMMA MarkTyped ==
  ASSUME Typed, NEW x \in Outcomes, Mark(x)
  PROVE  /\ status' \in [Events -> {"absent", "pending", "published", "dead_lettered"}]
         /\ attempts' = attempts
         /\ lockedBy' = [lockedBy EXCEPT ![x.event] = NoOwner]
         /\ lockLeft' \in [Events -> -1..LeaseTTL]
         /\ \A e \in Events : e # x.event => status'[e] = status[e]
         /\ status'[x.event] = IF x.ok THEN "published"
                               ELSE IF attempts[x.event] >= MaxAttempts THEN "dead_lettered"
                               ELSE status[x.event]
BY ConstantsOK DEF ConstantsOK, Typed, Mark, MarkPublished, MarkFailed, Unlock, Outcomes

LEMMA NextTyped == Typed /\ [Next]_vars => Typed'
<1> SUFFICES ASSUME Typed, [Next]_vars PROVE Typed'
  OBVIOUS
<1> USE ConstantsOK DEF ConstantsOK, Typed
<1>1. CASE Tick
  BY <1>1 DEF Tick
<1>2. ASSUME NEW e \in Events, Record(e) PROVE Typed'
  BY <1>2 DEF Record
<1>3. ASSUME NEW d \in Dispatchers, NEW picked \in SUBSET Claimable, NEW received \in BOOLEAN,
             Claim(d, picked, received)
      PROVE  Typed'
  <2>1. Owner(d) \in Owners
    BY DEF Owner, Owners
  <2>2. /\ attempts' \in [Events -> 0..MaxAttempts] /\ lockedBy' \in [Events -> Owners \cup {NoOwner}]
        /\ lockLeft' \in [Events -> -1..LeaseTTL]
    BY <1>3, <2>1 DEF Claim, Claimable
  <2>3. {[event |-> e, attempt |-> attempts[e] + 1] : e \in picked} \subseteq Claims
    BY <1>3 DEF Claimable, Claims
  <2>4. batch' \in [Dispatchers -> SUBSET Claims]
    BY <1>3, <2>3 DEF Claim
  <2> QED
    BY <1>3, <2>2, <2>4 DEF Claim
<1>4. ASSUME NEW d \in Dispatchers, NEW c \in batch[d], NEW ok \in BOOLEAN, Publish(d, c, ok)
      PROVE  Typed'
  <2>1. c \in Claims
    OBVIOUS
  <2>2. [event |-> c.event, attempt |-> c.attempt, ok |-> ok] \in Outcomes
    BY <2>1 DEF Claims, Outcomes
  <2>3. delivered' \in [Events -> SUBSET (1..MaxAttempts)]
    BY <1>4, <2>1 DEF Publish, Claims
  <2>4. settling' \in [Dispatchers -> Outcomes \cup {Nothing}] /\ batch' \in [Dispatchers -> SUBSET Claims]
    BY <1>4, <2>2 DEF Publish
  <2> QED
    BY <1>4, <2>3, <2>4 DEF Publish, rowVars
<1>5. ASSUME NEW d \in Dispatchers, Settle(d) PROVE Typed'
  BY <1>5, MarkTyped DEF Settle
<1>6. ASSUME NEW d \in Dispatchers, GiveUp(d) PROVE Typed'
  <2>1. /\ status' \in [Events -> {"absent", "pending", "published", "dead_lettered"}]
        /\ attempts' = attempts /\ lockedBy' \in [Events -> Owners \cup {NoOwner}]
        /\ lockLeft' \in [Events -> -1..LeaseTTL]
    BY <1>6, MarkTyped DEF GiveUp, rowVars
  <2> QED
    BY <1>6, <2>1 DEF GiveUp
<1>7. ASSUME NEW d \in Dispatchers, Restart(d) PROVE Typed'
  BY <1>7 DEF Restart, rowVars
<1>8. CASE UNCHANGED vars
  BY <1>8 DEF vars, rowVars
<1> QED
  BY <1>1, <1>2, <1>3, <1>4, <1>5, <1>6, <1>7, <1>8 DEF Next, ClaimSome, PublishNext

-----------------------------------------------------------------------------
(* The invariant is preserved. *)
LEMMA NextSound == Sound /\ [Next]_vars => Sound'
<1> SUFFICES ASSUME Sound, [Next]_vars PROVE Sound'
  OBVIOUS
<1>t. Typed /\ Typed'
  BY NextTyped DEF Sound
<1>m. MaxAttempts \in Attempts
  BY ConstantsOK DEF ConstantsOK, Attempts
<1>a. \A e \in Events : attempts[e] \in Nat /\ attempts'[e] \in Nat
  BY <1>t, ConstantsOK DEF Typed, ConstantsOK
<1>1. ASSUME NEW d \in Dispatchers, NEW picked \in SUBSET Claimable, NEW received \in BOOLEAN,
             Claim(d, picked, received)
      PROVE  Sound'
  <2>1. /\ picked \subseteq Events
        /\ \A e \in picked : status[e] = "pending" /\ attempts[e] < MaxAttempts
    BY DEF Claimable
  <2>2. /\ \A e \in Events : attempts'[e] = IF e \in picked THEN attempts[e] + 1 ELSE attempts[e]
        /\ \A e \in Events : lockedBy'[e] = IF e \in picked THEN Owner(d) ELSE lockedBy[e]
        /\ \A e \in Events : e \notin picked => lockLeft'[e] = lockLeft[e]
        /\ UNCHANGED <<status, settling, life, delivered>>
        /\ batch[d] = {} /\ settling[d] = Nothing
    BY <1>1, <1>t DEF Claim, Typed
  <2>3. \A c \in Dispatchers : Owner(c)' = Owner(c) /\ (c # d => Owner(c) # Owner(d))
    BY <2>2 DEF Owner
  <2>4. \A e \in Events, n \in Attempts : InBatch(d, e, n)' => e \in picked /\ n = attempts[e] + 1
    BY <1>1, <1>t DEF Claim, InBatch, Typed
  <2>5. \A c \in Dispatchers, e \in Events, n \in Attempts :
          /\ Settles(c, e, n)' <=> Settles(c, e, n)
          /\ ~Settles(d, e, n)
          /\ c # d => (InBatch(c, e, n)' <=> InBatch(c, e, n))
    BY <1>1, <1>t, <2>2 DEF Claim, InBatch, Settles, Typed
  <2>6. \A c \in Dispatchers, e \in Events, n \in Attempts :
          Remembers(c, e, n)' => \/ c = d /\ e \in picked /\ n = attempts[e] + 1
                                 \/ c # d /\ Remembers(c, e, n)
    BY <2>4, <2>5 DEF Remembers
  <2>7. LockIsNewest'
    BY <2>2, <2>3, <2>6, <1>a DEF Sound, LockIsNewest, Attempts
  <2>8. AttemptsApart'
    BY <1>a, <2>4, <2>5, <2>6 DEF Sound, AttemptsApart, LockIsNewest, Attempts
  <2>9. DeliveredIsMade'
    BY <1>a, <2>2, <2>4, <2>5 DEF Sound, DeliveredIsMade, Attempts
  <2>10. VerdictOfLastAttempt'
    BY <2>1, <2>2 DEF Sound, VerdictOfLastAttempt
  <2>11. LastIsForgotten'
    BY <1>m, <2>1, <2>2, <2>6 DEF Sound, LastIsForgotten
  <2> QED
    BY <1>t, <2>7, <2>8, <2>9, <2>10, <2>11 DEF Sound
<1>2. ASSUME NEW d \in Dispatchers, NEW c \in batch[d], NEW ok \in BOOLEAN, Publish(d, c, ok)
      PROVE  Sound'
  <2>1. c \in Claims /\ c.event \in Events /\ c.attempt \in Attempts
        /\ c = [event |-> c.event, attempt |-> c.attempt]
    BY <1>t DEF Typed, Claims, Attempts
  <2>2. /\ UNCHANGED <<status, attempts, lockedBy, lockLeft, life>>
        /\ \A b \in Dispatchers : Owner(b)' = Owner(b)
    BY <1>2 DEF Publish, rowVars, Owner
  <2>3. InBatch(d, c.event, c.attempt) /\ \A e \in Events, n \in Attempts : ~Settles(d, e, n)
    BY <1>2, <2>1 DEF Publish, InBatch, Settles
  <2>4. \A b \in Dispatchers, e \in Events, n \in Attempts :
          /\ InBatch(b, e, n)' => InBatch(b, e, n) /\ ~(b = d /\ e = c.event /\ n = c.attempt)
          /\ b # d => (Settles(b, e, n)' <=> Settles(b, e, n)) /\ settling'[b] = settling[b]
          /\ Settles(d, e, n)' => e = c.event /\ n = c.attempt /\ settling'[d].ok = ok
    BY <1>2, <1>t, <2>1 DEF Publish, InBatch, Settles, Typed
  <2>5. \A b \in Dispatchers, e \in Events, n \in Attempts : Remembers(b, e, n)' => Remembers(b, e, n)
    BY <2>3, <2>4 DEF Remembers
  <2>6. \A e \in Events, n \in Attempts :
          n \in delivered'[e] <=> n \in delivered[e] \/ (ok /\ e = c.event /\ n = c.attempt)
    BY <1>2, <1>t, <2>1 DEF Publish, Typed
  <2>7. LockIsNewest' /\ LastIsForgotten'
    BY <1>m, <2>2, <2>5 DEF Sound, LockIsNewest, LastIsForgotten
  <2>8. AttemptsApart'
    BY <2>4, <2>5 DEF Sound, AttemptsApart
  <2>9. DeliveredIsMade'
    <3>1. ASSUME NEW e \in Events, NEW n \in Attempts, n \in delivered'[e] PROVE n <= attempts'[e]
      BY <2>2, <2>3, <2>6, <3>1 DEF Sound, DeliveredIsMade, LockIsNewest, Remembers
    <3>2. ASSUME NEW e \in Events, NEW n \in Attempts, NEW b \in Dispatchers, InBatch(b, e, n)'
          PROVE  n \notin delivered'[e]
      BY <2>3, <2>4, <2>6, <3>2 DEF Sound, DeliveredIsMade, AttemptsApart, Remembers
    <3>3. ASSUME NEW e \in Events, NEW n \in Attempts, NEW b \in Dispatchers, Settles(b, e, n)'
          PROVE  settling'[b].ok <=> n \in delivered'[e]
      <4>1. CASE b = d
        BY <2>1, <2>3, <2>4, <2>6, <3>3, <4>1 DEF Sound, DeliveredIsMade
      <4>2. CASE b # d
        BY <2>1, <2>3, <2>4, <2>6, <3>3, <4>2 DEF Sound, DeliveredIsMade, AttemptsApart, Remembers
      <4> QED
        BY <4>1, <4>2
    <3> QED
      BY <3>1, <3>2, <3>3 DEF DeliveredIsMade
  <2>10. VerdictOfLastAttempt'
    <3>1. ASSUME NEW e \in Events, status[e] = "published" PROVE attempts[e] \in delivered'[e]
      BY <1>2, <1>t, <3>1, <2>1 DEF Publish, Typed, Sound, VerdictOfLastAttempt
    <3>2. ASSUME NEW e \in Events, status[e] = "dead_lettered"
          PROVE  attempts[e] = MaxAttempts /\ MaxAttempts \notin delivered'[e]
      BY <1>m, <2>3, <2>6, <3>2 DEF Sound, VerdictOfLastAttempt, LastIsForgotten, Remembers
    <3> QED
      BY <2>2, <3>1, <3>2 DEF VerdictOfLastAttempt
  <2> QED
    BY <1>t, <2>7, <2>8, <2>9, <2>10 DEF Sound
(* A dispatcher forgets what it remembered; it may have marked a row. *)
<1>3. ASSUME NEW d \in Dispatchers, Settle(d) \/ GiveUp(d) PROVE Sound'
  <2> DEFINE x == settling[d]
  <2>1. /\ x \in Outcomes /\ x.event \in Events /\ x.attempt \in Attempts
        /\ Settles(d, x.event, x.attempt)
    BY <1>3, <1>t DEF Settle, GiveUp, Typed, Outcomes, Attempts, Settles
  <2>2. \/ UNCHANGED rowVars
        \/ /\ HoldsLock(d, x.event) /\ Mark(x)
    BY <1>3 DEF Settle, GiveUp
  <2>3. /\ UNCHANGED <<attempts, life, delivered>> /\ \A b \in Dispatchers : Owner(b)' = Owner(b)
    BY <1>3, <2>1, <2>2, <1>t, MarkTyped DEF Settle, GiveUp, rowVars, Owner
  <2>4. \A e \in Events : \/ lockedBy'[e] = lockedBy[e] /\ lockLeft'[e] = lockLeft[e]
                          \/ lockLeft'[e] = -1
    BY <2>1, <2>2, <1>t DEF rowVars, Mark, MarkPublished, MarkFailed, Unlock, Typed
  <2>5. \A e \in Events :
          \/ status'[e] = status[e]
          \/ /\ e = x.event /\ attempts[e] = x.attempt
             /\ status'[e] = "published" /\ x.ok
          \/ /\ e = x.event /\ attempts[e] = x.attempt /\ attempts[e] >= MaxAttempts
             /\ status'[e] = "dead_lettered" /\ ~x.ok
    <3>1. CASE UNCHANGED rowVars
      BY <3>1 DEF rowVars
    <3>2. CASE HoldsLock(d, x.event) /\ Mark(x)
      <4>1. attempts[x.event] = x.attempt
        BY <2>1, <3>2 DEF Sound, LockIsNewest, HoldsLock, Remembers
      <4> QED
        BY <4>1, <3>2, <2>1, <1>t, MarkTyped
    <3> QED
      BY <2>2, <3>1, <3>2
  <2>6. \A b \in Dispatchers, e \in Events, n \in Attempts :
          /\ InBatch(b, e, n)' => InBatch(b, e, n)
          /\ Settles(b, e, n)' => b # d /\ Settles(b, e, n) /\ settling'[b] = settling[b]
    BY <1>3, <1>t DEF Settle, GiveUp, InBatch, Settles, Typed
  <2>7. \A b \in Dispatchers, e \in Events, n \in Attempts : Remembers(b, e, n)' => Remembers(b, e, n)
    BY <2>6 DEF Remembers
  <2> HIDE DEF x
  <2>8. LockIsNewest'
    BY <2>3, <2>4, <2>7 DEF Sound, LockIsNewest
  <2>9. AttemptsApart' /\ DeliveredIsMade'
    BY <2>3, <2>6, <2>7 DEF Sound, AttemptsApart, DeliveredIsMade
  <2>10. x.attempt \in delivered[x.event] <=> x.ok
    BY <2>1 DEF x, Sound, DeliveredIsMade
  <2>11. VerdictOfLastAttempt'
    BY <1>a, <1>t, <2>1, <2>3, <2>5, <2>10, ConstantsOK
       DEF Sound, VerdictOfLastAttempt, Typed, Attempts, ConstantsOK
  <2>12. LastIsForgotten'
    <3>1. ASSUME NEW b \in Dispatchers, NEW e \in Events, status'[e] = "dead_lettered",
                 Remembers(b, e, MaxAttempts)'
          PROVE  FALSE
      <4>0. status[e] # "dead_lettered"
        BY <1>m, <2>7, <3>1 DEF Sound, LastIsForgotten
      <4>a. attempts[e] \in Nat /\ attempts[e] <= MaxAttempts
        BY <1>t, ConstantsOK DEF Typed, ConstantsOK
      <4>1. e = x.event /\ x.attempt = MaxAttempts
        <5>1. e = x.event /\ attempts[e] = x.attempt /\ attempts[e] >= MaxAttempts
          BY <2>5, <3>1, <4>0
        <5> QED
          BY <5>1, <4>a, ConstantsOK DEF ConstantsOK
      <4>2. b = d
        BY <1>m, <2>1, <2>7, <3>1, <4>1 DEF Sound, AttemptsApart, Remembers
      <4>3. InBatch(d, e, MaxAttempts) /\ Settles(d, e, MaxAttempts)
        BY <1>m, <2>1, <2>6, <3>1, <4>1, <4>2 DEF Remembers
      <4> QED
        BY <1>m, <4>3 DEF Sound, AttemptsApart
    <3> QED
      BY <3>1 DEF LastIsForgotten
  <2> QED
    BY <1>t, <2>8, <2>9, <2>11, <2>12 DEF Sound
(* Steps that leave what is remembered and delivered alone, or forget it. *)
<1>4. ASSUME NEW d \in Dispatchers, Restart(d) PROVE Sound'
  <2>1. /\ UNCHANGED <<status, attempts, lockedBy, lockLeft, delivered>>
        /\ \A b \in Dispatchers : b # d => Owner(b)' = Owner(b)
    BY <1>4, <1>t DEF Restart, rowVars, Owner, Typed
  <2>2. \A b \in Dispatchers, e \in Events, n \in Attempts :
          /\ InBatch(b, e, n)' => b # d /\ InBatch(b, e, n)
          /\ Settles(b, e, n)' => b # d /\ Settles(b, e, n) /\ settling'[b] = settling[b]
    BY <1>4, <1>t DEF Restart, InBatch, Settles, Typed
  <2>3. LockIsNewest' /\ AttemptsApart' /\ LastIsForgotten'
    BY <1>m, <2>1, <2>2 DEF Sound, LockIsNewest, AttemptsApart, LastIsForgotten, Remembers
  <2>4. DeliveredIsMade' /\ VerdictOfLastAttempt'
    BY <2>1, <2>2 DEF Sound, DeliveredIsMade, VerdictOfLastAttempt
  <2> QED
    BY <1>t, <2>3, <2>4 DEF Sound
<1>5. CASE Tick \/ (\E e \in Events : Record(e)) \/ UNCHANGED vars
  <2>1. /\ UNCHANGED <<attempts, lockedBy, batch, settling, life, delivered>>
        /\ \A b \in Dispatchers : Owner(b)' = Owner(b)
    BY <1>5 DEF Tick, Record, vars, rowVars, Owner
  <2>2. \A e \in Events : lockLeft'[e] >= 0 => lockLeft[e] >= 0
    BY <1>5, <1>t DEF Tick, Record, vars, rowVars, Typed
  <2>3. \A e \in Events : status'[e] = status[e] \/ status'[e] = "pending"
    BY <1>5, <1>t DEF Tick, Record, vars, rowVars, Typed
  <2>4. \A b \in Dispatchers, e \in Events, n \in Attempts :
          /\ InBatch(b, e, n)' <=> InBatch(b, e, n)
          /\ Settles(b, e, n)' <=> Settles(b, e, n)
    BY <2>1 DEF InBatch, Settles
  <2>5. LockIsNewest' /\ AttemptsApart' /\ LastIsForgotten'
    BY <1>m, <2>1, <2>2, <2>3, <2>4 DEF Sound, LockIsNewest, AttemptsApart, LastIsForgotten, Remembers
  <2>6. DeliveredIsMade' /\ VerdictOfLastAttempt'
    BY <2>1, <2>3, <2>4 DEF Sound, DeliveredIsMade, VerdictOfLastAttempt
  <2> QED
    BY <1>t, <2>5, <2>6 DEF Sound
<1> QED
  BY <1>1, <1>2, <1>3, <1>4, <1>5 DEF Next, ClaimSome, PublishNext

LEMMA AlwaysSound == Spec => []Sound
<1> QED
  BY InitSound, NextSound, PTL DEF Spec

-----------------------------------------------------------------------------
(* Rows and local variables keep their types, and no event waits longer    *)
(* than the longest backoff: the dispatcher doubles the delay with every   *)
(* attempt (backoff) and caps it, unless the base is above the cap.        *)
THEOREM Types == Spec => []TypeOK
<1> DEFINE Waits == waitLeft \in [Events -> Delays]
<1>1. Init => Waits
  BY DoubledIsDelay, ConstantsOK DEF ConstantsOK, Init, Delays, LongestBackoff
<1>2. Typed /\ Waits /\ [Next]_vars => Waits'
  <2> SUFFICES ASSUME Typed, Waits, [Next]_vars PROVE Waits'
    OBVIOUS
  <2>1. ASSUME NEW x \in Outcomes, Mark(x) PROVE Waits'
    <3>1. x.event \in Events /\ Backoff[x.attempt] \in Delays
      BY BackoffBounded DEF Outcomes, Attempts
    <3> QED
      BY <2>1, <3>1 DEF Mark, MarkPublished, MarkFailed
  <2>2. ASSUME NEW d \in Dispatchers, Settle(d) \/ GiveUp(d) PROVE Waits'
    BY <2>1, <2>2 DEF Settle, GiveUp, rowVars, Typed
  <2>3. CASE Tick
    BY <2>3, ConstantsOK DEF ConstantsOK, Tick, Delays, LongestBackoff
  <2> QED
    BY <2>2, <2>3 DEF Next, Record, ClaimSome, Claim, PublishNext, Publish, Restart, vars, rowVars
<1>3. Typed /\ Waits => TypeOK
  BY DEF Typed, TypeOK, Delays
<1>4. Sound => Typed
  BY DEF Sound
<1> HIDE DEF Waits
<1> QED
  BY <1>1, <1>2, <1>3, <1>4, AlwaysSound, PTL DEF Spec

(* The verdict on an event is the outcome of its last attempt: however     *)
(* many dispatchers, however slow, and wherever they are killed between    *)
(* leasing, publishing and marking (markPublished, markFailed).            *)
THEOREM Verdict == Spec => []VerdictOfLastAttempt
<1>1. Sound => VerdictOfLastAttempt
  BY DEF Sound
<1> QED
  BY AlwaysSound, <1>1, PTL

(* Whoever marks an event does so for its newest attempt: the WHERE clause *)
(* of the marks is enough to keep out a dispatcher that lost its lease.    *)
THEOREM NewestMarks == Spec => OnlyNewestAttemptMarks
<1>1. Sound /\ [Next]_vars =>
        [\A d \in Dispatchers :
           /\ settling[d] # Nothing /\ settling'[d] = Nothing
           /\ lockedBy'[settling[d].event] # lockedBy[settling[d].event]
           => settling[d].attempt = attempts[settling[d].event]]_vars
  <2> SUFFICES ASSUME Sound, Next, NEW d \in Dispatchers,
                      settling[d] # Nothing, settling'[d] = Nothing,
                      lockedBy'[settling[d].event] # lockedBy[settling[d].event]
               PROVE  settling[d].attempt = attempts[settling[d].event]
    BY DEF vars
  <2> DEFINE x == settling[d]
  <2>1. Typed /\ x \in Outcomes /\ x.event \in Events /\ x.attempt \in Attempts
    BY DEF Sound, Typed, Outcomes, Attempts
  <2>2. HoldsLock(d, x.event)
    <3>1. Settle(d) \/ GiveUp(d) \/ UNCHANGED settling \/ UNCHANGED lockedBy
      <4>1. ASSUME NEW c \in Dispatchers, c # d, Settle(c) \/ GiveUp(c)
            PROVE  FALSE
        BY <2>1, <4>1 DEF Settle, GiveUp, Typed
      <4>2. ASSUME NEW c \in Dispatchers, PublishNext(c) PROVE UNCHANGED lockedBy
        BY <4>2 DEF PublishNext, Publish, rowVars
      <4>3. ASSUME NEW c \in Dispatchers, Restart(c) PROVE UNCHANGED lockedBy
        BY <4>3 DEF Restart, rowVars
      <4>4. ASSUME NEW c \in Dispatchers, ClaimSome(c) PROVE UNCHANGED settling
        BY <4>4 DEF ClaimSome, Claim
      <4>5. CASE Tick \/ \E e \in Events : Record(e)
        BY <4>5 DEF Tick, Record
      <4> QED
        BY <4>1, <4>2, <4>3, <4>4, <4>5 DEF Next
    <3>2. CASE Settle(d) \/ GiveUp(d)
      BY <3>2 DEF Settle, GiveUp, rowVars
    <3> QED
      BY <3>1, <3>2
  <2>3. Settles(d, x.event, x.attempt)
    BY DEF Settles
  <2> QED
    BY <2>1, <2>2, <2>3 DEF Sound, LockIsNewest, HoldsLock, Remembers
<1> QED
  BY <1>1, AlwaysSound, PTL DEF Spec, OnlyNewestAttemptMarks
=============================================================================
