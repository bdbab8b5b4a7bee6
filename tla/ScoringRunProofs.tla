--------------------------- MODULE ScoringRunProofs ---------------------------
(***************************************************************************)
(* Theorems about ScoringRun, for all sets of segments, every number of    *)
(* attempts and any number of faults.                                      *)
(*                                                                         *)
(* RowsAgree is not inductive: an item is shown as failed by a report that *)
(* was sent while its task was given up, so that one must know that the    *)
(* task stays so until the report is in; and a run is completed by         *)
(* counters, of which one must know that they are not zero while an item   *)
(* is outstanding.  Sound adds both.                                       *)
(***************************************************************************)
EXTENDS ScoringRun, FiniteSetTheorems, TLAPS

Outstanding == {s \in OMRSegments : omr[s] \in Unread \cup {"terminal_error"}}

(* A run that has not been started has nothing. *)
NothingYet ==
  run.status = "absent" =>
    /\ \A s \in OMRSegments : omr[s] = "absent" /\ task[s].phase = "absent" /\ reports[s] = {}
    /\ \A s \in Segments : review[s] = "none" /\ grade[s] = "none"
    /\ process = Idle /\ retryCall = NoRetry

(* Who reports the last failure of an item, or retries it, has given its   *)
(* task up, or has found it given up, and it stays so; not both at once.   *)
GivenUp ==
  \A s \in OMRSegments :
    /\ "terminal_error" \in reports[s] \/ s \in retryCall.prepared =>
         task[s].phase = "stopped" /\ omr[s] # "terminal_error"
    /\ s \in retryCall.prepared => "terminal_error" \notin reports[s]

(* The counters know whether there is an outstanding item. *)
OutstandingIsCounted ==
  Outstanding # {} => run.status # "completed" /\ (run.queued > 0 \/ run.failed > 0)

(* What is left to humans has a review task, and what they have submitted  *)
(* a grade.                                                                *)
HumansAreAsked ==
  run.status # "absent" =>
    \A s \in Segments \ (OMRSegments \cup sure) :
      grade[s] # "none" \/ review[s] \in {"open", "cancelled"}

ItemsStarted == run.status # "absent" => \A s \in OMRSegments : omr[s] # "absent"

Sound ==
  /\ TypeOK /\ process.todo \subseteq sure
  /\ NothingYet /\ ItemsStarted /\ ReadingsHaveNextStep /\ GivenUp
  /\ OutstandingIsCounted /\ HumansAreAsked
-----------------------------------------------------------------------------
(* Counting. *)

LEMMA Counts ==
  /\ Cardinality(OMRSegments) \in Nat /\ Cardinality(Segments) \in Nat
  /\ \A T \in SUBSET OMRSegments :
       /\ Cardinality(T) \in 0..Cardinality(OMRSegments)
       /\ Cardinality(T) = 0 <=> T = {}
  /\ \A T \in SUBSET Segments : Cardinality(T) \in 0..Cardinality(Segments)
<1>1. IsFiniteSet(Segments) /\ OMRSegments \in SUBSET Segments
  BY ConstantsOK DEF ConstantsOK, Segments
<1>2. IsFiniteSet(OMRSegments)
  BY <1>1, FS_Subset
<1>3. Cardinality(OMRSegments) \in Nat /\ Cardinality(Segments) \in Nat
  BY <1>1, <1>2, FS_CardinalityType
<1>4. ASSUME NEW S, IsFiniteSet(S), NEW T \in SUBSET S
      PROVE  Cardinality(T) \in 0..Cardinality(S) /\ (Cardinality(T) = 0 <=> T = {})
  <2>1. IsFiniteSet(T) /\ Cardinality(T) <= Cardinality(S)
    BY <1>4, FS_Subset
  <2>2. Cardinality(T) \in Nat /\ Cardinality(S) \in Nat
    BY <1>4, <2>1, FS_CardinalityType
  <2> QED
    BY <2>1, <2>2, FS_EmptySet
<1> QED
  BY <1>1, <1>2, <1>3, <1>4

(* What a recount writes, for any tables. *)
LEMMA CountsOfTables ==
  ASSUME NEW om, NEW rv, NEW g
  PROVE  /\ QueuedCount(om) \in 0..Cardinality(OMRSegments)
         /\ FailedCount(om) \in 0..Cardinality(OMRSegments)
         /\ ReviewCount(rv) \in 0..Cardinality(Segments)
         /\ GradedCount(g) \in 0..Cardinality(Segments)
         /\ QueuedCount(om) > 0 <=> \E s \in OMRSegments : om[s] \in Unread
         /\ FailedCount(om) > 0 <=> \E s \in OMRSegments : om[s] = "terminal_error"
<1> DEFINE Q == {s \in OMRSegments : om[s] \in Unread}
           F == {s \in OMRSegments : om[s] = "terminal_error"}
           R == {s \in Segments : rv[s] = "open"}
           G == {s \in Segments : g[s] # "none"}
<1>1. Q \in SUBSET OMRSegments /\ F \in SUBSET OMRSegments
      /\ R \in SUBSET Segments /\ G \in SUBSET Segments
  OBVIOUS
<1>2. /\ Q # {} <=> \E s \in OMRSegments : om[s] \in Unread
      /\ F # {} <=> \E s \in OMRSegments : om[s] = "terminal_error"
  OBVIOUS
<1>3. /\ QueuedCount(om) = Cardinality(Q) /\ FailedCount(om) = Cardinality(F)
      /\ ReviewCount(rv) = Cardinality(R) /\ GradedCount(g) = Cardinality(G)
  BY DEF QueuedCount, FailedCount, ReviewCount, GradedCount
<1> HIDE DEF Q, F, R, G
<1>4. /\ Cardinality(Q) \in 0..Cardinality(OMRSegments) /\ (Cardinality(Q) = 0 <=> Q = {})
      /\ Cardinality(F) \in 0..Cardinality(OMRSegments) /\ (Cardinality(F) = 0 <=> F = {})
  BY <1>1, Counts
<1>5. Cardinality(R) \in 0..Cardinality(Segments) /\ Cardinality(G) \in 0..Cardinality(Segments)
  BY <1>1, Counts
<1> QED
  BY <1>2, <1>3, <1>4, <1>5, Counts

RunTypes == [status : Unresolved \cup {"absent", "completed", "cancelled"},
             queued : 0..Cardinality(OMRSegments), review : 0..Cardinality(Segments),
             failed : 0..Cardinality(OMRSegments), graded : 0..Cardinality(Segments)]

(* A row that is counted anew knows of every outstanding item. *)
LEMMA RecountSound ==
  /\ Recount \in RunTypes
  /\ Recount.status \in {"failed", "processing", "needs_review", "completed"}
  /\ Outstanding' # {} => Recount.status # "completed" /\ (Recount.queued > 0 \/ Recount.failed > 0)
<1>1. Recount \in RunTypes /\ Recount.status \in {"failed", "processing", "needs_review", "completed"}
  BY CountsOfTables DEF Recount, RunTypes, Unresolved
<1>2. Outstanding' # {} => QueuedCount(omr') > 0 \/ FailedCount(omr') > 0
  BY CountsOfTables DEF Outstanding
<1> QED
  BY <1>1, <1>2 DEF Recount
LEMMA RefreshSound ==
  ASSUME run \in RunTypes, run.status # "absent", Refresh \/ TryRefresh
  PROVE  /\ run' \in RunTypes /\ run'.status # "absent"
         /\ run' = run \/ (Outstanding' # {} =>
              run'.status # "completed" /\ (run'.queued > 0 \/ run'.failed > 0))
         /\ run.status \in Cancelling => run' = run
<1>1. run' = run \/ (run' = Recount /\ run.status \notin Cancelling)
  BY DEF Refresh, TryRefresh, Refreshed
<1> QED
  BY <1>1, RecountSound

-----------------------------------------------------------------------------
(* Every action keeps Sound. *)

LEMMA InitSound == Init => Sound
<1> SUFFICES ASSUME Init PROVE Sound
  OBVIOUS
<1> USE ConstantsOK, Counts DEF ConstantsOK, Init
<1>1. TypeOK
  BY DEF TypeOK, Idle, NotCalled, NoRetry
<1>2. process.todo \subseteq sure /\ NothingYet /\ ItemsStarted /\ HumansAreAsked
  BY DEF NothingYet, ItemsStarted, HumansAreAsked, Idle, NoRetry
<1>3. ReadingsHaveNextStep /\ GivenUp
  BY DEF ReadingsHaveNextStep, GivenUp, NoRetry
<1>4. OutstandingIsCounted
  BY DEF OutstandingIsCounted, Outstanding, Unread
<1> QED
  BY <1>1, <1>2, <1>3, <1>4 DEF Sound

LEMMA StartSound ==
  ASSUME Sound, NEW confirmed \in SUBSET TextSegments, StartScoringRun(confirmed)
  PROVE  Sound'
<1> DEFINE human == PaperSegments \cup (TextSegments \ confirmed)
<1> USE ConstantsOK DEF ConstantsOK, Sound
<1>1. human \in SUBSET Segments /\ OMRSegments \in SUBSET OMRSegments
  BY DEF Segments
<1>2. Cardinality(human) \in 0..Cardinality(Segments) /\ Cardinality(OMRSegments) \in Nat
      /\ (OMRSegments # {} => Cardinality(OMRSegments) > 0)
  BY <1>1, Counts
<1>3. /\ run'.status \in {"needs_review", "processing"} /\ run' \in RunTypes
      /\ run'.queued = Cardinality(OMRSegments)
  BY <1>2, Counts DEF StartScoringRun, RunTypes, Unresolved
<1>4. TypeOK'
  BY <1>3 DEF StartScoringRun, TypeOK, RunTypes, Unread, LivePhases
<1>5. (process.todo \subseteq sure)' /\ NothingYet' /\ ItemsStarted'
  BY <1>3 DEF StartScoringRun, NothingYet, ItemsStarted
<1>6. ReadingsHaveNextStep' /\ GivenUp'
  BY DEF StartScoringRun, ReadingsHaveNextStep, GivenUp, NothingYet, NoRetry
<1>7. OutstandingIsCounted'
  BY <1>2, <1>3 DEF OutstandingIsCounted, Outstanding
<1>8. HumansAreAsked'
  BY DEF StartScoringRun, HumansAreAsked, Segments
<1> QED
  BY <1>4, <1>5, <1>6, <1>7, <1>8

(* Processing by rule. *)

LEMMA RulesSound ==
  ASSUME Sound, Rules
  PROVE  Sound'
<1> USE DEF Sound
<1>1. run \in RunTypes
  BY DEF TypeOK, RunTypes
<1>2. ASSUME ListCandidates \/ CountingFails \/ StartIsRepeated PROVE Sound'
  <2>1. UNCHANGED <<tables, reports, cancelCall, retryCall>> /\ run.status # "absent"
        /\ process' \in [at : {"idle", "called", "loop", "count"}, todo : SUBSET TextSegments]
        /\ process'.todo \subseteq sure
    BY <1>2 DEF ListCandidates, CountingFails, StartIsRepeated, TypeOK, Idle, NothingYet
  <2>2. TypeOK'
    BY <2>1 DEF TypeOK, tables
  <2> QED
    BY <2>1, <2>2 DEF tables, NothingYet, ItemsStarted, ReadingsHaveNextStep, GivenUp,
                      OutstandingIsCounted, Outstanding, HumansAreAsked
<1>3. ASSUME ProcessingEnds PROVE Sound'
  <2>1. UNCHANGED <<omr, task, review, sure, grade, reports, cancelCall, retryCall>>
        /\ run.status # "absent" /\ process' = Idle
    BY <1>3 DEF ProcessingEnds, NothingYet, Idle
  <2>2. /\ run' \in RunTypes /\ run'.status # "absent"
        /\ run' = run \/ (Outstanding' # {} =>
              run'.status # "completed" /\ (run'.queued > 0 \/ run'.failed > 0))
    BY <1>1, <1>3, <2>1, RefreshSound DEF ProcessingEnds
  <2>3. TypeOK'
    BY <2>1, <2>2 DEF TypeOK, RunTypes, Idle
  <2>4. OutstandingIsCounted'
    BY <2>1, <2>2 DEF OutstandingIsCounted, Outstanding
  <2> QED
    BY <2>1, <2>2, <2>3, <2>4 DEF NothingYet, ItemsStarted, ReadingsHaveNextStep, GivenUp,
                                  HumansAreAsked, Idle
<1>4. ASSUME CountReview PROVE Sound'
  <2>1. UNCHANGED <<omr, task, review, sure, grade, reports, cancelCall, retryCall>>
        /\ run.status # "absent" /\ process' = [process EXCEPT !.at = "loop"]
        /\ run' = [run EXCEPT !.review = @ + 1] /\ Fits(run')
    BY <1>4 DEF CountReview, NothingYet, Idle
  <2>2. /\ run' \in RunTypes /\ run'.status = run.status
        /\ run'.queued = run.queued /\ run'.failed = run.failed
    BY <1>1, <2>1, Counts DEF RunTypes, Fits
  <2>3. TypeOK'
    BY <2>1, <2>2 DEF TypeOK, RunTypes
  <2> QED
    BY <2>1, <2>2, <2>3 DEF TypeOK, NothingYet, ItemsStarted, ReadingsHaveNextStep, GivenUp,
                            OutstandingIsCounted, Outstanding, HumansAreAsked
<1>5. ASSUME NEW s \in TextSegments, ConfirmRuleGrade(s) PROVE Sound'
  <2>1. UNCHANGED <<omr, task, review, sure, reports, cancelCall, retryCall>>
        /\ process' = [process EXCEPT !.todo = @ \ {s}] /\ grade' = [grade EXCEPT ![s] = "rule"]
    BY <1>5 DEF ConfirmRuleGrade
  <2>2. run.status # "absent"
    BY <1>5 DEF ConfirmRuleGrade, NothingYet, Idle
  <2>3. /\ run' \in RunTypes /\ run'.queued = run.queued /\ run'.failed = run.failed
        /\ run'.status \in {run.status, "completed", "needs_review"}
        /\ run'.status = "completed" => run.status = "completed" \/ (run.queued = 0 /\ run.failed = 0)
    <3> DEFINE st == IF Done(run) THEN "completed"
                     ELSE IF run.queued = 0 /\ run.review > 0 THEN "needs_review" ELSE run.status
               counted == [run EXCEPT !.graded = @ + 1, !.status = st]
    <3>1. run' = run \/ (run' = counted /\ Fits(counted))
      BY <1>5 DEF ConfirmRuleGrade
    <3>2. /\ counted.queued = run.queued /\ counted.failed = run.failed
          /\ counted.review = run.review /\ counted.graded = run.graded + 1 /\ counted.status = st
      BY <1>1 DEF RunTypes
    <3>3. Fits(counted) => counted \in RunTypes
      <4>1. st \in Unresolved \cup {"absent", "completed", "cancelled"}
        BY <1>1 DEF RunTypes, Unresolved
      <4>2. Fits(counted) => run.graded + 1 \in 0..Cardinality(Segments)
        BY <1>1, <3>2, Counts DEF RunTypes, Fits
      <4> QED
        BY <1>1, <4>1, <4>2 DEF RunTypes
    <3>4. /\ st \in {run.status, "completed", "needs_review"}
          /\ st = "completed" => run.status = "completed" \/ (run.queued = 0 /\ run.failed = 0)
      BY DEF Done
    <3> HIDE DEF st, counted
    <3> QED
      BY <1>1, <3>1, <3>2, <3>3, <3>4
  <2>4. s \in Segments
    BY DEF Segments
  <2>5. TypeOK'
    BY <2>1, <2>3, <2>4 DEF TypeOK, RunTypes
  <2>6. NothingYet' /\ ItemsStarted'
    BY <2>1, <2>2, <2>3 DEF NothingYet, ItemsStarted
  <2>7. ReadingsHaveNextStep' /\ GivenUp'
    BY <2>1, <2>4 DEF TypeOK, ReadingsHaveNextStep, GivenUp, Segments
  <2>8. OutstandingIsCounted'
    BY <1>1, <2>1, <2>3 DEF RunTypes, OutstandingIsCounted, Outstanding
  <2>9. HumansAreAsked' /\ (process.todo \subseteq sure)'
    BY <2>1, <2>2, <2>4 DEF TypeOK, HumansAreAsked
  <2> QED
    BY <2>5, <2>6, <2>7, <2>8, <2>9
<1>6. ASSUME NEW s \in TextSegments, AskForReview(s) PROVE Sound'
  <2>1. UNCHANGED <<run, omr, task, sure, grade, reports, cancelCall, retryCall>>
        /\ process'.todo \subseteq process.todo
        /\ process' \in [at : {"idle", "called", "loop", "count"}, todo : SUBSET TextSegments]
        /\ review' = [review EXCEPT ![s] = "open"] /\ process.at = "loop"
    BY <1>6 DEF AskForReview, TypeOK
  <2>2. run.status # "absent" /\ s \in Segments
    BY <2>1 DEF NothingYet, Idle, Segments
  <2>3. TypeOK'
    BY <2>1, <2>2 DEF TypeOK
  <2>4. ReadingsHaveNextStep' /\ GivenUp' /\ HumansAreAsked'
    BY <2>1, <2>2 DEF TypeOK, ReadingsHaveNextStep, GivenUp, HumansAreAsked, Segments
  <2> QED
    BY <2>1, <2>2, <2>3, <2>4 DEF NothingYet, ItemsStarted, OutstandingIsCounted, Outstanding
<1> QED
  BY <1>2, <1>3, <1>4, <1>5, <1>6 DEF Rules
-----------------------------------------------------------------------------
(* The workers. *)

LEMMA ClaimSound ==
  ASSUME Sound, NEW s \in OMRSegments, ClaimTask(s)
  PROVE  Sound'
<1> USE ConstantsOK DEF ConstantsOK, Sound
<1>1. /\ UNCHANGED <<run, omr, review, sure, grade, calls>>
      /\ task[s].phase \in LivePhases /\ task'[s].phase \in {"held", "stopped"}
      /\ \A r \in OMRSegments : r # s => task'[r] = task[r]
  BY DEF ClaimTask, TypeOK
<1>2. task' \in [OMRSegments -> [phase : LivePhases \cup {"absent", "succeeded", "stopped", "cancelled"},
                                 left : 0..Attempts]]
  BY DEF ClaimTask, TypeOK, LivePhases
<1>3. TypeOK'
  BY <1>1, <1>2 DEF TypeOK, calls
<1>4. ReadingsHaveNextStep' /\ GivenUp' /\ NothingYet'
  BY <1>1 DEF ReadingsHaveNextStep, GivenUp, NothingYet, calls, LivePhases
<1> QED
  BY <1>1, <1>3, <1>4 DEF calls, ItemsStarted, OutstandingIsCounted, Outstanding, HumansAreAsked

LEMMA ResultSound ==
  ASSUME Sound, NEW s \in OMRSegments, NEW certain \in BOOLEAN, ApplyOMRResult(s, certain)
  PROVE  Sound'
<1> USE DEF Sound
<1>1. /\ UNCHANGED <<sure, reports, process, cancelCall, retryCall>>
      /\ run.status = "processing" /\ task[s].phase = "held" /\ omr[s] = "queued"
      /\ omr' = [omr EXCEPT ![s] = "completed"] /\ task' = [task EXCEPT ![s].phase = "succeeded"]
      /\ \/ grade' = [grade EXCEPT ![s] = "rule"] /\ review' = review
         \/ review' = [review EXCEPT ![s] = "open"] /\ grade' = grade
      /\ Refresh
  BY DEF ApplyOMRResult, Awaited, calls
<1>2. s \in Segments /\ run \in RunTypes
  BY DEF TypeOK, Segments, RunTypes
<1>3. /\ run' \in RunTypes /\ run'.status # "absent"
      /\ Outstanding' # {} => run'.status # "completed" /\ (run'.queued > 0 \/ run'.failed > 0)
  <2>1. run' = Recount
    BY <1>1 DEF Refresh, Refreshed, Cancelling
  <2> QED
    BY <2>1, RecountSound
<1>4. TypeOK'
  BY <1>1, <1>2, <1>3 DEF TypeOK, RunTypes
<1>5. NothingYet' /\ ItemsStarted'
  BY <1>1, <1>3 DEF NothingYet, ItemsStarted, TypeOK
<1>6. ReadingsHaveNextStep'
  BY <1>1, <1>2 DEF ReadingsHaveNextStep, TypeOK, Segments
<1>7. GivenUp'
  BY <1>1 DEF GivenUp, TypeOK
<1>8. HumansAreAsked'
  BY <1>1, <1>2 DEF HumansAreAsked, TypeOK
<1>9. OutstandingIsCounted'
  BY <1>3 DEF OutstandingIsCounted
<1> QED
  BY <1>1, <1>4, <1>5, <1>6, <1>7, <1>8, <1>9

LEMMA FailedTaskSound ==
  ASSUME Sound, NEW s \in OMRSegments, NEW retryable \in BOOLEAN, FailedTask(s, retryable)
  PROVE  Sound'
<1> USE DEF Sound
<1>1. /\ UNCHANGED <<run, omr, review, sure, grade, process, cancelCall, retryCall>>
      /\ task[s].phase = "held"
      /\ \E st \in Failures :
           /\ reports' = [reports EXCEPT ![s] = @ \cup {st}]
           /\ task' = [task EXCEPT ![s].phase =
                IF st = "retryable_error" THEN "queued" ELSE "stopped"]
  <2> DEFINE again == retryable /\ task[s].left > 0
  <2>1. CASE again
    BY <2>1 DEF FailedTask, Failures
  <2>2. CASE ~again
    BY <2>2 DEF FailedTask, Failures
  <2> QED
    BY <2>1, <2>2
<1>2. PICK st \in Failures :
         /\ reports' = [reports EXCEPT ![s] = @ \cup {st}]
         /\ task' = [task EXCEPT ![s].phase = IF st = "retryable_error" THEN "queued" ELSE "stopped"]
  BY <1>1
<1>3. TypeOK'
  BY <1>1, <1>2 DEF TypeOK, LivePhases
<1>4. run.status # "absent" /\ omr[s] # "terminal_error"
  BY <1>1 DEF NothingYet, ReadingsHaveNextStep
<1>5. ReadingsHaveNextStep'
  BY <1>1, <1>2, <1>4 DEF ReadingsHaveNextStep, TypeOK
<1>6. GivenUp'
  BY <1>1, <1>2, <1>4 DEF GivenUp, TypeOK, Failures
<1> QED
  BY <1>1, <1>3, <1>4, <1>5, <1>6 DEF NothingYet, ItemsStarted, OutstandingIsCounted, Outstanding,
                                      HumansAreAsked

LEMMA FailureSound ==
  ASSUME Sound, NEW s \in OMRSegments, NEW st \in Failures,
         ApplyOMRFailure(s, st) \/ ReportIsLost(s, st)
  PROVE  Sound'
<1> USE DEF Sound
<1>1. /\ UNCHANGED <<task, review, sure, grade, process, cancelCall, retryCall>>
      /\ st \in reports[s] /\ reports' = [reports EXCEPT ![s] = @ \ {st}]
  BY DEF ApplyOMRFailure, ReportIsLost, tables
<1>2. run.status # "absent"
  BY <1>1 DEF NothingYet
<1>3. CASE UNCHANGED <<run, omr>>
  <2>1. TypeOK'
    BY <1>1, <1>3 DEF TypeOK
  <2>2. GivenUp'
    BY <1>1, <1>3 DEF GivenUp, TypeOK
  <2> QED
    BY <1>1, <1>2, <1>3, <2>1, <2>2 DEF NothingYet, ItemsStarted, OutstandingIsCounted, Outstanding,
                                        HumansAreAsked, ReadingsHaveNextStep
<1>4. CASE /\ omr[s] \in Unread /\ run.status = "processing"
           /\ omr' = [omr EXCEPT ![s] = st]
           /\ Refresh
  <2>1. run' = Recount
    BY <1>4 DEF Refresh, Refreshed, Cancelling
  <2>2. TypeOK'
    BY <1>1, <1>4, <2>1, RecountSound DEF TypeOK, RunTypes, Failures, Unread
  <2>3. NothingYet' /\ ItemsStarted'
    BY <1>4, <2>1, RecountSound DEF NothingYet, ItemsStarted, TypeOK, Failures
  <2>4. GivenUp'
    BY <1>1, <1>4 DEF GivenUp, TypeOK, Failures, Unread
  <2>5. ReadingsHaveNextStep'
    BY <1>1, <1>4 DEF ReadingsHaveNextStep, GivenUp, TypeOK, Failures, Unread
  <2>6. OutstandingIsCounted'
    BY <2>1, RecountSound DEF OutstandingIsCounted
  <2> QED
    BY <1>1, <1>2, <2>2, <2>3, <2>4, <2>5, <2>6 DEF HumansAreAsked
<1> QED
  BY <1>3, <1>4 DEF ApplyOMRFailure, ReportIsLost, tables

-----------------------------------------------------------------------------
(* Humans. *)

LEMMA HumansSound ==
  ASSUME Sound, NEW s \in Segments, SubmitGrade(s) \/ ReassignCancelled(s)
  PROVE  Sound'
<1> USE DEF Sound
<1>1. run \in RunTypes
  BY DEF TypeOK, RunTypes
<1>2. run.status # "absent"
  BY DEF SubmitGrade, ReassignCancelled, NothingYet
<1>3. CASE ReassignCancelled(s)
  <2>1. TypeOK'
    BY <1>3 DEF ReassignCancelled, TypeOK, calls
  <2>2. ReadingsHaveNextStep' /\ HumansAreAsked'
    BY <1>3 DEF ReassignCancelled, TypeOK, ReadingsHaveNextStep, HumansAreAsked, Segments
  <2> QED
    BY <1>2, <1>3, <2>1, <2>2 DEF ReassignCancelled, calls, NothingYet, ItemsStarted, GivenUp,
                                  OutstandingIsCounted, Outstanding
<1>4. CASE SubmitGrade(s)
  <2> DEFINE counted == [run EXCEPT !.review = IF @ > 0 THEN @ - 1 ELSE 0, !.graded = @ + 1]
             st == IF Done(counted) THEN "completed"
                   ELSE IF run.queued = 0 THEN "needs_review" ELSE run.status
  <2>1. /\ UNCHANGED <<omr, task, sure, reports, process, cancelCall, retryCall>>
        /\ Fits(counted) /\ run' = [counted EXCEPT !.status = st]
        /\ review' = [review EXCEPT ![s] = "submitted"] /\ grade' = [grade EXCEPT ![s] = "human"]
    BY <1>4 DEF SubmitGrade, calls
  <2>2. /\ counted.queued = run.queued /\ counted.failed = run.failed /\ counted.status = run.status
        /\ counted.review \in 0..Cardinality(Segments) /\ counted.graded = run.graded + 1
    BY <1>1, Counts DEF RunTypes
  <2>3. counted \in RunTypes
    <3>1. run.graded + 1 \in 0..Cardinality(Segments)
      BY <1>1, <2>1, <2>2, Counts DEF RunTypes, Fits
    <3> QED
      BY <1>1, <2>2, <3>1, Counts DEF RunTypes
  <2>4. /\ st \in {run.status, "completed", "needs_review"}
        /\ st = "completed" => run.status = "completed" \/ (run.queued = 0 /\ run.failed = 0)
    BY <2>2 DEF Done
  <2> HIDE DEF st, counted
  <2>5. /\ run' \in RunTypes /\ run'.queued = run.queued /\ run'.failed = run.failed
        /\ run'.status = st
    BY <1>1, <2>1, <2>2, <2>3, <2>4 DEF RunTypes, Unresolved
  <2>6. TypeOK'
    BY <2>1, <2>5 DEF TypeOK, RunTypes
  <2>7. ReadingsHaveNextStep' /\ HumansAreAsked'
    BY <1>2, <2>1 DEF TypeOK, ReadingsHaveNextStep, HumansAreAsked, Segments
  <2>8. OutstandingIsCounted'
    BY <1>1, <2>1, <2>4, <2>5 DEF OutstandingIsCounted, Outstanding, RunTypes
  <2> QED
    BY <1>2, <2>1, <2>4, <2>5, <2>6, <2>7, <2>8 DEF NothingYet, ItemsStarted, GivenUp
<1> QED
  BY <1>3, <1>4

-----------------------------------------------------------------------------
(* Cancellation and retry. *)

LEMMA CancelSound ==
  ASSUME Sound, Cancel
  PROVE  Sound'
<1> USE DEF Sound
<1>1. run \in RunTypes
  BY DEF TypeOK, RunTypes
<1>2. ASSUME BeginCancellation PROVE Sound'
  <2>1. TypeOK'
    BY <1>2 DEF BeginCancellation, TypeOK, Unresolved
  <2> QED
    BY <1>2, <2>1 DEF BeginCancellation, TypeOK, NothingYet, ItemsStarted, ReadingsHaveNextStep, GivenUp,
                      OutstandingIsCounted, Outstanding, HumansAreAsked, Unresolved
<1>3. ASSUME CancellationBreaks PROVE Sound'
  <2>1. TypeOK'
    BY <1>3 DEF CancellationBreaks, TypeOK, NotCalled, tables
  <2> QED
    BY <1>3, <2>1 DEF CancellationBreaks, tables, NothingYet, ItemsStarted, ReadingsHaveNextStep,
                      GivenUp, OutstandingIsCounted, Outstanding, HumansAreAsked
<1>4. ASSUME NEW s \in OMRSegments, CancelTask(s) PROVE Sound'
  <2>1. TypeOK'
    BY <1>4 DEF CancelTask, TypeOK, LivePhases
  <2>2. ReadingsHaveNextStep' /\ GivenUp' /\ NothingYet'
    BY <1>4 DEF CancelTask, TypeOK, LivePhases, ReadingsHaveNextStep, GivenUp, NothingYet
  <2> QED
    BY <1>4, <2>1, <2>2 DEF CancelTask, ItemsStarted, OutstandingIsCounted, Outstanding, HumansAreAsked
<1>5. ASSUME FinalizeCancellation PROVE Sound'
  <2>1. UNCHANGED <<task, sure, grade, reports, process, retryCall>> /\ cancelCall' = NotCalled
    BY <1>5 DEF FinalizeCancellation
  <2>2. CASE UNCHANGED <<omr, review, run>>
    <3>1. TypeOK'
      BY <2>1, <2>2 DEF TypeOK, NotCalled
    <3> QED
      BY <2>1, <2>2, <3>1 DEF NothingYet, ItemsStarted, ReadingsHaveNextStep, GivenUp,
                              OutstandingIsCounted, Outstanding, HumansAreAsked
  <2>3. CASE /\ run.status = "cancelling"
             /\ omr' = [s \in OMRSegments |->
                  IF omr[s] \in Unread \cup {"terminal_error"} THEN "invalidated" ELSE omr[s]]
             /\ review' = [s \in Segments |-> IF review[s] = "open" THEN "cancelled" ELSE review[s]]
             /\ run' = [run EXCEPT !.status = "cancelled", !.queued = 0, !.review = 0]
    <3>1. TypeOK'
      <4>1. run' \in RunTypes
        <5>1. 0 \in 0..Cardinality(OMRSegments) /\ 0 \in 0..Cardinality(Segments)
          BY Counts
        <5> QED
          BY <1>1, <2>3, <5>1 DEF RunTypes
      <4>2. omr' \in [OMRSegments -> Unread \cup {"absent", "completed", "terminal_error", "invalidated"}]
        BY <2>3 DEF TypeOK
      <4>3. review' \in [Segments -> {"none", "open", "submitted", "cancelled"}]
        BY <2>3 DEF TypeOK
      <4> QED
        BY <2>1, <4>1, <4>2, <4>3 DEF TypeOK, RunTypes, NotCalled
    <3>2. NothingYet' /\ ItemsStarted' /\ GivenUp' /\ OutstandingIsCounted'
      BY <2>1, <2>3 DEF TypeOK, NothingYet, ItemsStarted, GivenUp, OutstandingIsCounted, Outstanding,
                        Unread
    <3>3. ReadingsHaveNextStep' /\ HumansAreAsked'
      BY <2>1, <2>3 DEF TypeOK, ReadingsHaveNextStep, HumansAreAsked, Unread, Segments
    <3> QED
      BY <2>1, <3>1, <3>2, <3>3
  <2> QED
    BY <1>5, <2>2, <2>3 DEF FinalizeCancellation
<1> QED
  BY <1>2, <1>3, <1>4, <1>5 DEF Cancel

LEMMA RetrySound ==
  ASSUME Sound, Retry
  PROVE  Sound'
<1> USE DEF Sound
<1>1. run \in RunTypes
  BY DEF TypeOK, RunTypes
<1>2. ASSUME ListFailed PROVE Sound'
  <2>1. TypeOK'
    BY <1>2 DEF ListFailed, TypeOK, NoRetry, tables
  <2> QED
    BY <1>2, <2>1 DEF ListFailed, NoRetry, tables, NothingYet, ItemsStarted, ReadingsHaveNextStep,
                      GivenUp, OutstandingIsCounted, Outstanding, HumansAreAsked
<1>3. ASSUME RetryBreaks PROVE Sound'
  <2>1. TypeOK'
    BY <1>3 DEF RetryBreaks, TypeOK, NoRetry, tables
  <2> QED
    BY <1>3, <2>1 DEF RetryBreaks, NoRetry, tables, NothingYet, ItemsStarted, ReadingsHaveNextStep,
                      GivenUp, OutstandingIsCounted, Outstanding, HumansAreAsked
<1>4. ASSUME RetryEnds PROVE Sound'
  <2>1. UNCHANGED <<omr, task, review, sure, grade, reports, process, cancelCall>>
        /\ retryCall' = NoRetry /\ run.status # "absent"
    BY <1>4 DEF RetryEnds, NothingYet, NoRetry
  <2>2. /\ run' \in RunTypes /\ run'.status # "absent"
        /\ run' = run \/ (Outstanding' # {} =>
              run'.status # "completed" /\ (run'.queued > 0 \/ run'.failed > 0))
    BY <1>1, <1>4, <2>1, RefreshSound DEF RetryEnds
  <2>3. TypeOK'
    BY <2>1, <2>2 DEF TypeOK, RunTypes, NoRetry
  <2>4. OutstandingIsCounted'
    BY <2>1, <2>2 DEF OutstandingIsCounted, Outstanding
  <2> QED
    BY <2>1, <2>2, <2>3, <2>4 DEF NothingYet, ItemsStarted, ReadingsHaveNextStep, GivenUp,
                                  HumansAreAsked, NoRetry
<1>5. ASSUME NEW s \in OMRSegments, PrepareRetry(s) PROVE Sound'
  <2>1. UNCHANGED <<run, task, review, sure, grade, reports, process, cancelCall>>
    BY <1>5 DEF PrepareRetry
  <2>2. run.status # "absent"
    BY <1>5 DEF PrepareRetry, NothingYet, NoRetry
  <2>3. \/ omr' = omr /\ retryCall'.prepared = {}
        \/ /\ omr[s] = "terminal_error" /\ omr' = [omr EXCEPT ![s] = "queued"]
           /\ retryCall'.prepared = {s}
    BY <1>5 DEF PrepareRetry, TypeOK
  <2>4. TypeOK'
    BY <1>5 DEF PrepareRetry, TypeOK, Unread
  <2>5. ReadingsHaveNextStep' /\ GivenUp' /\ ItemsStarted'
    BY <2>1, <2>3 DEF ReadingsHaveNextStep, GivenUp, ItemsStarted, TypeOK
  <2>6. OutstandingIsCounted'
    BY <2>1, <2>3 DEF OutstandingIsCounted, Outstanding, TypeOK, Unread
  <2> QED
    BY <2>1, <2>2, <2>4, <2>5, <2>6 DEF NothingYet, HumansAreAsked
<1>6. ASSUME NEW s \in OMRSegments, RequeueTask(s) PROVE Sound'
  <2>1. /\ UNCHANGED <<run, omr, review, sure, grade, reports, process, cancelCall>>
        /\ s \in retryCall.prepared /\ task[s].phase = "stopped"
        /\ task'[s].phase = "queued" /\ \A r \in OMRSegments : r # s => task'[r] = task[r]
        /\ retryCall' = [retryCall EXCEPT !.prepared = {}]
    BY <1>6 DEF RequeueTask, TypeOK
  <2>2. run.status # "absent"
    BY <2>1 DEF NothingYet, NoRetry
  <2>3. TypeOK'
    <3>1. task' \in [OMRSegments -> [phase : LivePhases \cup {"absent", "succeeded", "stopped", "cancelled"},
                                     left : 0..Attempts]]
      BY <1>6, ConstantsOK DEF ConstantsOK, RequeueTask, TypeOK, LivePhases
    <3>2. retryCall' \in [on : BOOLEAN, todo : SUBSET OMRSegments, prepared : SUBSET OMRSegments]
      BY <2>1 DEF TypeOK
    <3> QED
      BY <2>1, <3>1, <3>2 DEF TypeOK
  <2>4. GivenUp'
    BY <2>1 DEF GivenUp, TypeOK
  <2>5. ReadingsHaveNextStep'
    BY <2>1 DEF ReadingsHaveNextStep, GivenUp, TypeOK
  <2>6. (process.todo \subseteq sure)' /\ NothingYet' /\ ItemsStarted' /\ OutstandingIsCounted'
    BY <2>1, <2>2 DEF NothingYet, ItemsStarted, OutstandingIsCounted, Outstanding
  <2>7. HumansAreAsked'
    BY <2>1 DEF HumansAreAsked
  <2> QED
    BY <2>3, <2>4, <2>5, <2>6, <2>7
<1>7. ASSUME NEW s \in OMRSegments, RestoreRetry(s) PROVE Sound'
  <2>1. /\ UNCHANGED <<run, task, review, sure, grade, reports, process, cancelCall>>
        /\ s \in retryCall.prepared /\ retryCall' = [retryCall EXCEPT !.prepared = {}]
        /\ omr' = omr \/ (omr[s] = "queued" /\ omr' = [omr EXCEPT ![s] = "terminal_error"])
    BY <1>7 DEF RestoreRetry
  <2>2. run.status # "absent"
    BY <2>1 DEF NothingYet, NoRetry
  <2>3. TypeOK'
    BY <2>1 DEF TypeOK
  <2>4. ReadingsHaveNextStep' /\ GivenUp' /\ ItemsStarted'
    BY <2>1 DEF ReadingsHaveNextStep, GivenUp, ItemsStarted, TypeOK
  <2>5. OutstandingIsCounted'
    BY <2>1 DEF OutstandingIsCounted, Outstanding, TypeOK, Unread
  <2> QED
    BY <2>1, <2>2, <2>3, <2>4, <2>5 DEF NothingYet, HumansAreAsked
<1> QED
  BY <1>2, <1>3, <1>4, <1>5, <1>6, <1>7 DEF Retry

LEMMA NextSound == Sound /\ [Next]_vars => Sound'
<1> SUFFICES ASSUME Sound, [Next]_vars PROVE Sound'
  OBVIOUS
<1>1. CASE UNCHANGED vars
  BY <1>1 DEF vars, tables, calls, Sound, TypeOK, NothingYet, ItemsStarted, ReadingsHaveNextStep, GivenUp,
              OutstandingIsCounted, Outstanding, HumansAreAsked
<1>2. ASSUME NEW s \in OMRSegments, Worker(s) PROVE Sound'
  BY <1>2, ClaimSound, ResultSound, FailedTaskSound, FailureSound
  DEF Worker, FailTask, ReportRefusal
<1> QED
  BY <1>1, <1>2, StartSound, RulesSound, CancelSound, RetrySound, HumansSound DEF Next

LEMMA AlwaysSound == Spec => []Sound
<1> QED
  BY InitSound, NextSound, PTL DEF Spec

-----------------------------------------------------------------------------
(* The rows of a run, its items, their tasks, review tasks and grades tell *)
(* one story in every reachable state: what has been read has a next step, *)
(* an item shown as failed can be requeued, and a run that says it is      *)
(* completed has asked a human or has a grade for every segment, but for   *)
(* those the rules had yet to grade.                                       *)
THEOREM OneStoryOfRun == Spec => []RowsAgree
<1>1. Sound => RowsAgree
  <2> SUFFICES ASSUME Sound PROVE RowsAgree
    OBVIOUS
  <2>1. ASSUME run.status = "completed", NEW s \in Segments \ sure
        PROVE  \/ grade[s] # "none"
               \/ review[s] \in {"open", "cancelled"}
               \/ s \in OMRSegments /\ omr[s] = "invalidated"
    <3>1. CASE s \in OMRSegments
      <4>1. omr[s] # "absent" /\ s \notin Outstanding
        BY <2>1, <3>1 DEF Sound, ItemsStarted, OutstandingIsCounted
      <4>2. omr[s] \in {"completed", "invalidated"}
        BY <3>1, <4>1 DEF Sound, TypeOK, Outstanding
      <4> QED
        BY <3>1, <4>2 DEF Sound, ReadingsHaveNextStep
    <3>2. CASE s \notin OMRSegments
      BY <2>1, <3>2 DEF Sound, HumansAreAsked
    <3> QED
      BY <3>1, <3>2
  <2> QED
    BY <2>1 DEF Sound, RowsAgree, CompletedMeansDone
<1> QED
  BY <1>1, AlwaysSound, PTL

(* No result, failure, retry or refresh that is still under way brings a   *)
(* cancelled run back; only a grade recorded late does.                    *)
THEOREM StaysCancelled == Spec => OnlyLateGradesReopen
<1> DEFINE Late == \E s \in Segments : \/ grade'[s] # grade[s]
                                       \/ review[s] = "open" /\ review'[s] = "submitted"
<1>1. Sound /\ [Next]_vars =>
        [run.status = "cancelled" /\ run'.status # "cancelled" =>
          \E s \in Segments : \/ grade'[s] # grade[s]
                              \/ review[s] = "open" /\ review'[s] = "submitted"]_vars
  <2> SUFFICES ASSUME Sound, Next, run.status = "cancelled", run'.status # "cancelled"
               PROVE  Late
    OBVIOUS
  <2>1. run' # run /\ run \in RunTypes
    BY DEF Sound, TypeOK, RunTypes
  <2>2. ~(Refresh \/ TryRefresh)
    BY <2>1, RefreshSound DEF Cancelling
  <2>3. ~ \E confirmed \in SUBSET TextSegments : StartScoringRun(confirmed)
    BY DEF StartScoringRun
  <2>4. ASSUME Rules PROVE Late
    <3>1. PICK s \in TextSegments : ConfirmRuleGrade(s)
      BY <2>1, <2>2, <2>4 DEF Rules, ListCandidates, CountReview, CountingFails, ProcessingEnds,
                              StartIsRepeated, AskForReview, tables, RunTypes
    <3>2. grade[s] # "rule" /\ grade' = [grade EXCEPT ![s] = "rule"] /\ s \in Segments
      BY <2>1, <3>1 DEF ConfirmRuleGrade, Segments
    <3> QED
      BY <3>2 DEF Sound, TypeOK
  <2>5. ~Cancel
    BY <2>1 DEF Cancel, BeginCancellation, CancelTask, FinalizeCancellation, CancellationBreaks,
                tables, Unresolved
  <2>6. ~Retry
    BY <2>1, <2>2 DEF Retry, ListFailed, PrepareRetry, RequeueTask, RestoreRetry, RetryEnds, RetryBreaks,
                      tables
  <2>7. ASSUME NEW s \in OMRSegments PROVE ~Worker(s)
    BY <2>1, <2>2 DEF Worker, ClaimTask, ReportRefusal, ApplyOMRResult, FailTask, FailedTask,
                      ApplyOMRFailure, ReportIsLost, tables, calls
  <2>8. ASSUME NEW s \in Segments, SubmitGrade(s) \/ ReassignCancelled(s) PROVE Late
    <3>1. review[s] = "open" /\ review' = [review EXCEPT ![s] = "submitted"]
      BY <2>1, <2>8 DEF SubmitGrade, ReassignCancelled
    <3> QED
      BY <3>1 DEF Sound, TypeOK
  <2> QED
    BY <2>3, <2>4, <2>5, <2>6, <2>7, <2>8 DEF Next
<1> QED
  BY <1>1, AlwaysSound, PTL DEF Spec, OnlyLateGradesReopen
=============================================================================
