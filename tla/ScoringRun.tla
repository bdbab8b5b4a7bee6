----------------------------- MODULE ScoringRun -----------------------------
(***************************************************************************)
(* One scoring run of an exam (internal/grading, PostgreSQL store).  It    *)
(* sends every answer segment down one of three roads: optical marks are   *)
(* read by a worker (omr_run and a task of the worker runtime), short text *)
(* is graded by rule in the request that started the run, and the rest     *)
(* goes to a human (review_task).  The run row has counters and a status   *)
(* derived from them, which every road updates for itself.                 *)
(*                                                                         *)
(* The worker runtime is here what FencedTask says of it: only the holder  *)
(* of a task has its result or failure taken, a holder may be replaced at  *)
(* any time, and a task with no attempt left is given up at the next claim.*)
(***************************************************************************)
EXTENDS Integers, FiniteSets

CONSTANTS
  OMRSegments,   \* choice questions with a rule and option regions
  TextSegments,  \* blanks and numbers with a rule and a recognised answer
  PaperSegments, \* everything else: a human grades it
  Attempts,      \* max_attempts of an omr_extract task
  MaxFaults      \* bound: how often a worker fails or is lost and a request breaks off

ASSUME ConstantsOK ==
  /\ Attempts \in Nat \ {0} /\ MaxFaults \in Nat
  /\ OMRSegments \cap TextSegments = {}
  /\ PaperSegments \cap (OMRSegments \cup TextSegments) = {}
  /\ IsFiniteSet(OMRSegments \cup TextSegments \cup PaperSegments)
  /\ OMRSegments \cup TextSegments \cup PaperSegments # {}

Segments == OMRSegments \cup TextSegments \cup PaperSegments

VARIABLES
  run,        \* scoring_run: status and counters
  omr,        \* omr_run.status of each segment that is read by a worker
  task,       \* agent_worker_task: its phase and the attempts it has left
  review,     \* review_task: the state of each segment's newest one
  sure,       \* text segments whose answer_candidate is confirmed
  grade,      \* the source of each segment's current question_grade
  reports,    \* FailOMR requests between the runtime's transaction and the run's
  process,    \* ProcessRuleCandidates: where it is, what it has listed
  cancelCall, \* CancelScoringRun: the tasks it has yet to cancel
  retryCall,  \* RetryFailedScoringRun: items listed, item prepared
  faults      \* how many of the faults have happened

tables == <<run, omr, task, review, sure, grade>>
calls == <<reports, process, cancelCall, retryCall>>
vars == <<tables, calls, faults>>

Unresolved == {"processing", "needs_review", "failed", "cancelling"}
CancellationUnderWay == {"cancelling"}  \* faulty Cancelling: one that is through is forgotten
Cancelling == {"cancelling", "cancelled"}

LivePhases == {"queued", "held"}
Unread     == {"queued", "retryable_error"}  \* omr_run rows not finished

NotCalled == [on |-> FALSE, todo |-> {}]
NoRetry   == [on |-> FALSE, todo |-> {}, prepared |-> {}]
Idle      == [at |-> "idle", todo |-> {}]

Init ==
  /\ run = [status |-> "absent", queued |-> 0, review |-> 0, failed |-> 0, graded |-> 0]
  /\ omr = [s \in OMRSegments |-> "absent"]
  /\ task = [s \in OMRSegments |-> [phase |-> "absent", left |-> 0]]
  /\ review = [s \in Segments |-> "none"]
  /\ sure = {}
  /\ grade = [s \in Segments |-> "none"]
  /\ reports = [s \in OMRSegments |-> {}]
  /\ process = Idle /\ cancelCall = NotCalled /\ retryCall = NoRetry
  /\ faults = 0

-----------------------------------------------------------------------------
(* What can go wrong, and does so a bounded number of times. *)
Fault == faults < MaxFaults /\ faults' = faults + 1

(* refreshScoringRunTx: counters and status from the tables as they are in *)
(* this transaction; a run being cancelled is left alone.                  *)

QueuedCount(om) == Cardinality({s \in OMRSegments : om[s] \in Unread})
ReviewCount(rv) == Cardinality({s \in Segments : rv[s] = "open"})
FailedCount(om) == Cardinality({s \in OMRSegments : om[s] = "terminal_error"})

GradedCount(g) == Cardinality({s \in Segments : g[s] # "none"})

MoreThanAllGraded(g) == GradedCount(g) > Cardinality(Segments)  \* faulty AllGraded: off by one
AllGraded(g) == GradedCount(g) >= Cardinality(Segments)

Recount ==
  [status |-> IF FailedCount(omr') > 0 THEN "failed"
              ELSE IF QueuedCount(omr') > 0 THEN "processing"
              ELSE IF ReviewCount(review') > 0 THEN "needs_review"
              ELSE IF AllGraded(grade') THEN "completed"
              ELSE "processing",
   queued |-> QueuedCount(omr'), review |-> ReviewCount(review'), failed |-> FailedCount(omr'),
   graded |-> GradedCount(grade')]

(* The capacity constraint of the row: an update that counts more items    *)
(* than there are fails, and its transaction with it.                      *)
Fits(rec) == rec.graded + rec.review + rec.failed <= Cardinality(Segments)

Refreshed  == IF run.status \in Cancelling THEN run ELSE Recount
Refresh    == Fits(Refreshed) /\ run' = Refreshed
TryRefresh == run' = IF Fits(Refreshed) THEN Refreshed ELSE run

(* The roads that do not recount go by the counters. *)
DoneReviewing(rec) == rec.review = 0 /\ rec.failed = 0  \* faulty Done: items are queued
Done(rec) == rec.queued = 0 /\ rec.review = 0 /\ rec.failed = 0

-----------------------------------------------------------------------------
(* StartScoringRun.  confirmed are the text answers that are certain       *)
(* enough to be graded by rule.                                            *)
StartScoringRun(confirmed) ==
  LET human == PaperSegments \cup (TextSegments \ confirmed)
  IN /\ run.status = "absent"
     /\ run' = [status |-> IF OMRSegments = {} /\ human # {} THEN "needs_review" ELSE "processing",
                queued |-> Cardinality(OMRSegments), review |-> Cardinality(human),
                failed |-> 0, graded |-> 0]
     /\ omr' = [s \in OMRSegments |-> "queued"]
     /\ task' = [s \in OMRSegments |-> [phase |-> "queued", left |-> Attempts]]
     /\ review' = [s \in Segments |-> IF s \in human THEN "open" ELSE "none"]
     /\ sure' = confirmed
     /\ process' = [at |-> "called", todo |-> {}]
     /\ UNCHANGED <<grade, reports, cancelCall, retryCall, faults>>

-----------------------------------------------------------------------------
(* ProcessRuleCandidates: called by the request that starts the run, and   *)
(* by every repetition of that request.  Each segment is its own           *)
(* transaction.                                                            *)

ListCandidates ==
  /\ process.at = "called"
  /\ process' = IF run.status \in {"processing", "needs_review"}
                  THEN [at |-> "loop", todo |-> {s \in sure : grade[s] # "rule"}]
                  ELSE Idle
  /\ UNCHANGED <<tables, reports, cancelCall, retryCall, faults>>

(* ConfirmRuleGrade, whatever has become of the run in the meantime. *)
ConfirmRuleGrade(s) ==
  LET counted == [run EXCEPT !.graded = @ + 1, !.status =
                    IF Done(run) THEN "completed"
                    ELSE IF run.queued = 0 /\ run.review > 0 THEN "needs_review" ELSE @]
      already == grade[s] = "rule"
  IN /\ process.at = "loop" /\ s \in process.todo
     /\ already \/ Fits(counted)
     /\ process' = [process EXCEPT !.todo = @ \ {s}]
     /\ grade' = [grade EXCEPT ![s] = "rule"]
     /\ run' = IF already THEN run ELSE counted
     /\ UNCHANGED <<omr, task, review, sure, reports, cancelCall, retryCall, faults>>

(* The rules leave the answer to a human, unless a review task is open     *)
(* for it; counting a new one is a statement of its own.                   *)
AskForReview(s) ==
  /\ process.at = "loop" /\ s \in process.todo
  /\ review' = [review EXCEPT ![s] = "open"]
  /\ process' = [at |-> IF review[s] = "open" THEN "loop" ELSE "count",
                 todo |-> process.todo \ {s}]
  /\ UNCHANGED <<run, omr, task, sure, grade, reports, cancelCall, retryCall, faults>>

CountReview ==
  LET counted == [run EXCEPT !.review = @ + 1]
  IN /\ process.at = "count" /\ Fits(counted)
     /\ run' = counted
     /\ process' = [process EXCEPT !.at = "loop"]
     /\ UNCHANGED <<omr, task, review, sure, grade, reports, cancelCall, retryCall, faults>>

(* The counters are full: the request fails and leaves the rest undone. *)
CountingFails ==
  /\ \/ process.at = "count"
     \/ process.at = "loop" /\ \E s \in process.todo : grade[s] # "rule"
  /\ run.graded + run.review + run.failed = Cardinality(Segments)
  /\ process' = Idle
  /\ UNCHANGED <<tables, reports, cancelCall, retryCall, faults>>

ProcessingEnds ==
  /\ process.at = "loop" /\ process.todo = {}
  /\ process' = Idle
  /\ UNCHANGED <<omr, task, review, sure, grade, reports, cancelCall, retryCall, faults>>
  /\ TryRefresh

(* A statement fails, the engine refuses, or the process dies, and the     *)
(* client sends the request again, which it also does when the answer of   *)
(* one that went well is lost.                                             *)
StartIsRepeated ==
  /\ process.at # "called" /\ run.status # "absent"
  /\ process' = [at |-> "called", todo |-> {}]
  /\ UNCHANGED <<tables, reports, cancelCall, retryCall>> /\ Fault

-----------------------------------------------------------------------------
(* Workers that read marks. *)

(* A worker takes the task from the queue, or from a holder whose lease    *)
(* has run out; with no attempt left the task is dead-lettered instead.    *)
ClaimTask(s) ==
  /\ task[s].phase \in LivePhases
  /\ task' = [task EXCEPT ![s] =
       IF @.left > 0 THEN [phase |-> "held", left |-> @.left - 1]
       ELSE [@ EXCEPT !.phase = "stopped"]]
  /\ IF task[s].phase = "held" THEN Fault ELSE UNCHANGED faults
  /\ UNCHANGED <<run, omr, review, sure, grade, calls>>

(* ApplyOMRResult: task, reading, grade or review task, and run in one     *)
(* transaction, which fails as a whole unless row and run wait for it and  *)
(* the rows leave room for one more.                                       *)
Awaited(s) == omr[s] = "queued" /\ run.status = "processing"
Room == GradedCount(grade) + ReviewCount(review) + FailedCount(omr) < Cardinality(Segments)

ApplyOMRResult(s, certain) ==
  /\ task[s].phase = "held" /\ Awaited(s) /\ Room
  /\ task' = [task EXCEPT ![s].phase = "succeeded"]
  /\ omr' = [omr EXCEPT ![s] = "completed"]
  /\ IF certain THEN grade' = [grade EXCEPT ![s] = "rule"] /\ UNCHANGED review
                ELSE review' = [review EXCEPT ![s] = "open"] /\ UNCHANGED grade
  /\ UNCHANGED <<sure, calls, faults>>
  /\ Refresh

(* FailOMR, first transaction: the runtime takes the failure. *)
FailedTask(s, retryable) ==
  LET again == retryable /\ task[s].left > 0
  IN /\ task[s].phase = "held"
     /\ task' = [task EXCEPT ![s].phase = IF again THEN "queued" ELSE "stopped"]
     /\ reports' = [reports EXCEPT ![s] = @ \cup
          {IF again THEN "retryable_error" ELSE "terminal_error"}]
     /\ UNCHANGED <<run, omr, review, sure, grade, process, cancelCall, retryCall>>

FailTask(s, retryable) == FailedTask(s, retryable) /\ Fault

(* To the worker a result that is refused is one more retryable failure. *)
ReportRefusal(s) == ~(Awaited(s) /\ Room) /\ FailedTask(s, TRUE) /\ UNCHANGED faults

(* Second transaction, ApplyOMRFailure: it may come late, and be refused. *)
ApplyOMRFailure(s, st) ==
  /\ st \in reports[s]
  /\ reports' = [reports EXCEPT ![s] = @ \ {st}]
  /\ UNCHANGED <<task, review, sure, grade, process, cancelCall, retryCall, faults>>
  /\ \/ /\ omr[s] \in Unread /\ run.status = "processing"
        /\ omr' = [omr EXCEPT ![s] = st]
        /\ Refresh
     \/ /\ ~(omr[s] \in Unread /\ run.status = "processing" /\ (st = "retryable_error" \/ Room))
        /\ UNCHANGED <<omr, run>>

ReportIsLost(s, st) ==
  /\ st \in reports[s]
  /\ reports' = [reports EXCEPT ![s] = @ \ {st}]
  /\ UNCHANGED <<tables, process, cancelCall, retryCall>> /\ Fault

-----------------------------------------------------------------------------
(* Humans. *)

(* SubmitGrade of a single-round task, whatever has become of the run. *)
SubmitGrade(s) ==
  LET counted == [run EXCEPT !.review = IF @ > 0 THEN @ - 1 ELSE 0, !.graded = @ + 1]
      status == IF Done(counted) THEN "completed"
                ELSE IF run.queued = 0 THEN "needs_review" ELSE run.status
  IN /\ review[s] = "open" /\ Fits(counted)
     /\ review' = [review EXCEPT ![s] = "submitted"]
     /\ grade' = [grade EXCEPT ![s] = "human"]
     /\ run' = [counted EXCEPT !.status = status]
     /\ UNCHANGED <<omr, task, sure, calls, faults>>

(* AssignTask and ReturnTask refuse a submitted task, not a cancelled one. *)
ReassignCancelled(s) ==
  /\ review[s] = "cancelled"
  /\ review' = [review EXCEPT ![s] = "open"]
  /\ UNCHANGED <<run, omr, task, sure, grade, calls, faults>>

-----------------------------------------------------------------------------
(* CancelScoringRun: begin, cancel the live tasks one by one, finalize. *)

BeginCancellation ==
  /\ ~cancelCall.on /\ run.status \in Unresolved
  /\ run' = [run EXCEPT !.status = "cancelling"]
  /\ cancelCall' = [on |-> TRUE, todo |-> {s \in OMRSegments : task[s].phase \in LivePhases}]
  /\ UNCHANGED <<omr, task, review, sure, grade, reports, process, retryCall, faults>>

CancelTask(s) ==
  /\ s \in cancelCall.todo
  /\ cancelCall' = [cancelCall EXCEPT !.todo = @ \ {s}]
  /\ task' = IF task[s].phase \in LivePhases
               THEN [task EXCEPT ![s].phase = "cancelled"] ELSE task
  /\ UNCHANGED <<run, omr, review, sure, grade, reports, process, retryCall, faults>>

FinalizeCancellation ==
  /\ cancelCall.on /\ cancelCall.todo = {}
  /\ cancelCall' = NotCalled
  /\ UNCHANGED <<task, sure, grade, reports, process, retryCall, faults>>
  /\ IF /\ run.status = "cancelling"
        /\ \A s \in OMRSegments : task[s].phase \notin LivePhases
       THEN /\ omr' = [s \in OMRSegments |->
                 IF omr[s] \in Unread \cup {"terminal_error"} THEN "invalidated" ELSE omr[s]]
            /\ review' = [s \in Segments |->
                 IF review[s] = "open" THEN "cancelled" ELSE review[s]]
            /\ run' = [run EXCEPT !.status = "cancelled", !.queued = 0, !.review = 0]
       ELSE UNCHANGED <<omr, review, run>>

CancellationBreaks ==
  /\ cancelCall.on
  /\ cancelCall' = NotCalled
  /\ UNCHANGED <<tables, reports, process, retryCall>> /\ Fault

-----------------------------------------------------------------------------
(* RetryFailedScoringRun: for each failed item, reopen the item, requeue   *)
(* the task in the runtime, and take the first step back if that fails.    *)

ListFailed ==
  /\ ~retryCall.on /\ run.status \notin Cancelling \cup {"absent"}
  /\ retryCall' = [NoRetry EXCEPT !.on = TRUE,
       !.todo = {s \in OMRSegments : omr[s] = "terminal_error" /\ task[s].phase = "stopped"}]
  /\ UNCHANGED <<tables, reports, process, cancelCall, faults>>

PrepareRetry(s) ==
  LET may == run.status \notin Cancelling /\ omr[s] = "terminal_error"
  IN /\ s \in retryCall.todo /\ retryCall.prepared = {}
     /\ omr' = IF may THEN [omr EXCEPT ![s] = "queued"] ELSE omr
     /\ retryCall' = [retryCall EXCEPT !.todo = @ \ {s}, !.prepared = IF may THEN {s} ELSE {}]
     /\ UNCHANGED <<run, task, review, sure, grade, reports, process, cancelCall, faults>>

RequeueTask(s) ==
  /\ s \in retryCall.prepared /\ task[s].phase = "stopped"
  /\ task' = [task EXCEPT ![s] = [phase |-> "queued", left |-> IF @.left = 0 THEN 1 ELSE @.left]]
  /\ retryCall' = [retryCall EXCEPT !.prepared = {}]
  /\ UNCHANGED <<run, omr, review, sure, grade, reports, process, cancelCall, faults>>

RestoreRetry(s) ==
  /\ s \in retryCall.prepared
  /\ omr' = IF omr[s] = "queued" THEN [omr EXCEPT ![s] = "terminal_error"] ELSE omr
  /\ retryCall' = [retryCall EXCEPT !.prepared = {}]
  /\ UNCHANGED <<run, task, review, sure, grade, reports, process, cancelCall, faults>>

RetryEnds ==
  /\ retryCall.on /\ retryCall.todo = {} /\ retryCall.prepared = {}
  /\ retryCall' = NoRetry
  /\ UNCHANGED <<omr, task, review, sure, grade, reports, process, cancelCall, faults>>
  /\ TryRefresh

RetryBreaks ==
  /\ retryCall.on
  /\ retryCall' = NoRetry
  /\ UNCHANGED <<tables, reports, process, cancelCall>> /\ Fault

-----------------------------------------------------------------------------
Failures == {"retryable_error", "terminal_error"}

Rules ==
  \/ ListCandidates \/ CountReview \/ CountingFails \/ ProcessingEnds \/ StartIsRepeated
  \/ \E s \in TextSegments : ConfirmRuleGrade(s) \/ AskForReview(s)

Worker(s) ==
  \/ ClaimTask(s) \/ ReportRefusal(s)
  \/ \E certain \in BOOLEAN : ApplyOMRResult(s, certain)
  \/ \E retryable \in BOOLEAN : FailTask(s, retryable)
  \/ \E st \in Failures : ApplyOMRFailure(s, st) \/ ReportIsLost(s, st)

Cancel ==
  \/ BeginCancellation \/ FinalizeCancellation \/ CancellationBreaks
  \/ \E s \in OMRSegments : CancelTask(s)

Retry ==
  \/ ListFailed \/ RetryEnds \/ RetryBreaks
  \/ \E s \in OMRSegments : PrepareRetry(s) \/ RequeueTask(s) \/ RestoreRetry(s)

Next ==
  \/ \E confirmed \in SUBSET TextSegments : StartScoringRun(confirmed)
  \/ Rules \/ Cancel \/ Retry
  \/ \E s \in OMRSegments : Worker(s)
  \/ \E s \in Segments : SubmitGrade(s) \/ ReassignCancelled(s)

Spec == Init /\ [][Next]_vars

-----------------------------------------------------------------------------
(* Fairness.  Requests that have begun go on; an operator repeats a        *)
(* cancellation that is pending and retries while the run shows failures,  *)
(* and a requeue that is tried again and again succeeds; workers claim     *)
(* what is queued and, if they are not lost, report what they have read;   *)
(* humans do the reviews that are open.                                    *)

FairSpec ==
  /\ Spec
  /\ WF_vars(ListCandidates) /\ WF_vars(CountReview \/ CountingFails) /\ WF_vars(ProcessingEnds)
  /\ WF_vars(\E s \in TextSegments : ConfirmRuleGrade(s) \/ AskForReview(s))
  /\ WF_vars(run.status = "cancelling" /\ BeginCancellation)
  /\ WF_vars(\E s \in OMRSegments : CancelTask(s)) /\ WF_vars(FinalizeCancellation)
  /\ WF_vars(run.failed > 0 /\ ListFailed) /\ WF_vars(RetryEnds)
  /\ WF_vars(\E s \in OMRSegments : PrepareRetry(s))
  /\ SF_vars(\E s \in OMRSegments : RequeueTask(s))
  /\ WF_vars(\E s \in OMRSegments, st \in Failures : ApplyOMRFailure(s, st))
  /\ \A s \in OMRSegments :
       /\ WF_vars(task[s].phase = "queued" /\ ClaimTask(s))
       /\ WF_vars(ReportRefusal(s) \/ \E certain \in BOOLEAN : ApplyOMRResult(s, certain))
  /\ WF_vars(\E s \in Segments : SubmitGrade(s))

-----------------------------------------------------------------------------
(* The columns keep their types. *)
TypeOK ==
  /\ run \in [status : Unresolved \cup {"absent", "completed", "cancelled"},
              queued : 0..Cardinality(OMRSegments), review : 0..Cardinality(Segments),
              failed : 0..Cardinality(OMRSegments), graded : 0..Cardinality(Segments)]
  /\ omr \in [OMRSegments -> Unread \cup {"absent", "completed", "terminal_error", "invalidated"}]
  /\ task \in [OMRSegments -> [phase : LivePhases \cup {"absent", "succeeded", "stopped", "cancelled"},
                               left : 0..Attempts]]
  /\ review \in [Segments -> {"none", "open", "submitted", "cancelled"}]
  /\ sure \in SUBSET TextSegments
  /\ grade \in [Segments -> {"none", "rule", "human"}]
  /\ reports \in [OMRSegments -> SUBSET Failures]
  /\ process \in [at : {"idle", "called", "loop", "count"}, todo : SUBSET TextSegments]
  /\ cancelCall \in [on : BOOLEAN, todo : SUBSET OMRSegments]
  /\ retryCall \in [on : BOOLEAN, todo : SUBSET OMRSegments, prepared : SUBSET OMRSegments]

(* What a worker has read has a next step: the segment has its grade or a  *)
(* review task that is open (or was, until the run was cancelled); a task  *)
(* has succeeded exactly when its reading is recorded, and an item that is *)
(* shown as failed has a task that can be requeued.                        *)
ReadingsHaveNextStep ==
  \A s \in OMRSegments :
    /\ (task[s].phase = "succeeded") <=> (omr[s] = "completed")
    /\ omr[s] = "completed" => grade[s] # "none" \/ review[s] \in {"open", "cancelled"}
    /\ omr[s] = "terminal_error" => task[s].phase = "stopped"

(* A run that says it is completed has a grade for every segment, but for  *)
(* answers the rules had yet to grade (SubmitGrade does not ask for them)  *)
(* and what a cancellation had put aside.                                  *)
CompletedMeansDone ==
  run.status = "completed" =>
    \A s \in Segments \ sure :
      \/ grade[s] # "none"
      \/ review[s] \in {"open", "cancelled"}
      \/ s \in OMRSegments /\ omr[s] = "invalidated"

(* However workers, graders, retries and a cancellation overlap, the run,  *)
(* its items, their tasks and grades tell one story.                       *)
RowsAgree == TypeOK /\ ReadingsHaveNextStep /\ CompletedMeansDone

(* A cancelled run never comes back by itself: no result, failure, retry   *)
(* or refresh that is still under way revives it.  Only a grade that is    *)
(* recorded late does, by the rules or by a human: neither statement looks *)
(* at the run's status.                                                    *)
OnlyLateGradesReopen ==
  [][run.status = "cancelled" /\ run'.status # "cancelled" =>
       \E s \in Segments : \/ grade'[s] # grade[s]
                           \/ review[s] = "open" /\ review'[s] = "submitted"]_vars

-----------------------------------------------------------------------------
(* The ways in which a run can be stuck until somebody cancels it.         *)

(* The item waits for a task that has been given up and is not shown as    *)
(* failed, so that a retry does not find it: the last failure was reported *)
(* while the run was not in progress, or was not reported at all, or a     *)
(* retry broke off.                                                        *)
Orphaned(s) == omr[s] \in Unread /\ task[s].phase = "stopped"

(* The answer is recognised and certain, and nobody is going to grade it:  *)
(* repeating the start does nothing unless the run is in progress.         *)
Forgotten(s) == s \in sure /\ grade[s] = "none" /\ review[s] # "open" /\ process = Idle

(* The run's counters are not those of its rows, and nobody recounts.      *)
Miscounted ==
  [run EXCEPT !.queued = QueuedCount(omr), !.review = ReviewCount(review),
              !.failed = FailedCount(omr), !.graded = GradedCount(grade)] # run

Stalled ==
  \/ Miscounted
  \/ \E s \in OMRSegments : Orphaned(s)
  \/ \E s \in TextSegments : Forgotten(s)

(* A worker reads an item whose result will be refused. *)
Wasted == \E s \in OMRSegments : task[s].phase = "held" /\ ~Awaited(s)

(* A run that nobody cancels is completed, or stuck in one of these ways,  *)
(* or the failure of one item makes the results of others be refused, the  *)
(* reports of that fail the run when those items are retried, and so on.   *)
(* A cancellation that is asked for goes through or is overtaken by a      *)
(* grade.                                                                  *)
RunEndsOrStalls ==
  /\ [](run.status # "cancelling") =>
       []<>(run.status \notin Unresolved) \/ <>[]Stalled \/ []<>Wasted
  /\ run.status = "cancelling" ~> run.status # "cancelling"

(* What docs/stories/STORY-056 promises of a failure (line 266): that of   *)
(* one item touches no other.  An item whose own worker never fails is     *)
(* read, unless the run is cancelled.                                      *)
FailuresStayLocal ==
  \A s \in OMRSegments :
    omr[s] = "queued" ~> omr[s] # "queued" \/ run.status \in Cancelling
=============================================================================
