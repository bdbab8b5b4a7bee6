------------------------------ MODULE ScoreBook ------------------------------
(***************************************************************************)
(* The score book of one exam (internal/score and the classic appeals of   *)
(* internal/appeal, PostgreSQL stores): question scores (final_grade) are  *)
(* added up into totals (submission_grade), confirmed, published with the  *)
(* exam, and changed afterwards only by appeals.                           *)
(*                                                                         *)
(* Finalize, Confirm, Publish and SetAttendance hold the advisory lock of  *)
(* the exam to the end of their transaction and are one step each.  Double *)
(* marking (module DoubleMark) records its final grades without that lock, *)
(* at any time.  Reviewers of appeals do not take it either: they lock the *)
(* appeal and the final grade, and are two steps here.                     *)
(***************************************************************************)
EXTENDS Integers, Sequences, FiniteSets, Functions

CONSTANTS
  Students,    \* exam_candidate_snapshot
  Submissions, \* the students who have handed in a paper
  Questions,
  Route,       \* how a question is marked: "single", "rule" or "double"
  Scores,      \* scores a question allows
  NoScore,
  Appeals,     \* appeal rows that may be filed
  NoRow,
  MaxPairs     \* bound: the pairs of graders an answer may be given to

ASSUME ConstantsOK ==
  /\ Submissions \subseteq Students /\ IsFiniteSet(Submissions) /\ IsFiniteSet(Questions)
  /\ Route \in [Questions -> {"single", "rule", "double"}]
  /\ Scores \subseteq Nat /\ NoScore \notin Scores
  /\ MaxPairs \in Nat
  /\ NoRow \notin (Submissions \X Questions) \X Nat

Answers == Submissions \X Questions
AnswersOf(s) == {s} \X Questions
Rows == Answers \X Nat  \* the n-th final grade of an answer

VARIABLES
  given,      \* the mark of a single review, or the score of a rule
  atWork,     \* answers with an unfinished review or arbitration task
  finals,     \* final_grade rows of each answer, oldest first
  total,      \* submission_grade.total_score
  status,     \*   status, "none" when there is no row
  exam,       \* exam.status: "open" until it is "published"
  attendance, \* exam_student_attendance.status
  appeal,     \* appeal.status, "none" when there is no row
  subject,    \*   submission_id
  target,     \*   final_grade_id
  reviewing,  \* the row a reviewer's transaction has locked, per appeal
  saw,        \*   the score it read there
  ledger,     \* score_adjustment rows
  counted     \* history: rows each answer had when it was last added up

appealVars == <<appeal, subject, target>>
txVars == <<reviewing, saw>>
vars == <<given, atWork, finals, total, status, exam, attendance, appealVars, txVars, ledger, counted>>

Undecided == {"submitted", "under_review", "need_more_info"}
Handled == {"under_review", "need_more_info", "accepted", "rejected"}

Init ==
  /\ given = [a \in Answers |-> NoScore]
  /\ atWork = {}
  /\ finals = [a \in Answers |-> <<>>]
  /\ total = [s \in Submissions |-> 0]
  /\ status = [s \in Submissions |-> "none"]
  /\ exam = "open"
  /\ attendance = [p \in Students |-> "expected"]
  /\ appeal = [i \in Appeals |-> "none"]
  /\ subject \in [Appeals -> Submissions]
  /\ target = [i \in Appeals |-> NoRow]
  /\ reviewing = [i \in Appeals |-> NoRow]
  /\ saw = [i \in Appeals |-> 0]
  /\ ledger = <<>>
  /\ counted = [a \in Answers |-> 0]

-----------------------------------------------------------------------------
(* Marking, which goes on beside everything else. *)

(* Review tasks are created: one, or those of a pair of graders. *)
Appoint(a) ==
  /\ a \notin atWork
  /\ \/ Route[a[2]] = "single" /\ given[a] = NoScore
     \/ Route[a[2]] = "double" /\ Len(finals[a]) < MaxPairs
  /\ atWork' = atWork \cup {a}
  /\ UNCHANGED <<given, finals, total, status, exam, attendance, appealVars, txVars, ledger, counted>>

SubmitSingle(a, x) ==
  /\ a \in atWork /\ Route[a[2]] = "single"
  /\ given' = [given EXCEPT ![a] = x]
  /\ atWork' = atWork \ {a}
  /\ UNCHANGED <<finals, total, status, exam, attendance, appealVars, txVars, ledger, counted>>

PassRule(a, x) ==
  /\ given[a] = NoScore /\ Route[a[2]] = "rule"
  /\ given' = [given EXCEPT ![a] = x]
  /\ UNCHANGED <<atWork, finals, total, status, exam, attendance, appealVars, txVars, ledger, counted>>

FinalGradeSwapped(x) == [score |-> x, status |-> "double_mark_auto"]  \* faulty: source for status
FinalGrade(x) == [score |-> x, status |-> "pending_confirmation"]

(* The verdict of a pair or its arbitrator: a row of its own. *)
SettlePair(a, x) ==
  /\ a \in atWork /\ Route[a[2]] = "double"
  /\ finals' = [finals EXCEPT ![a] = Append(@, FinalGrade(x))]
  /\ atWork' = atWork \ {a}
  /\ UNCHANGED <<given, total, status, exam, attendance, appealVars, txVars, ledger, counted>>

-----------------------------------------------------------------------------
(* Adding up, confirming, publishing. *)

Sum(f) == FoldFunctionOnSet(+, 0, f, DOMAIN f)
Newest(rows) == rows[Len(rows)].score
SumNewest(book, s) ==
  Sum([a \in {b \in AnswersOf(s) : book[b] # <<>>} |-> Newest(book[a])])

Rated(s) == status[s] # "none"
HasLockedGrades == \E s \in Submissions : status[s] = "published"
AllInStatus(allowed) == \A s \in Submissions : Rated(s) => status[s] \in allowed

(* Faulty CreateFinals: forgets the answers that a rule has marked. *)
CreateHumanFinals ==
  [a \in Answers |-> IF finals[a] = <<>> /\ given[a] # NoScore /\ Route[a[2]] = "single"
                     THEN <<FinalGrade(given[a])>> ELSE finals[a]]
CreateFinals ==
  [a \in Answers |-> IF finals[a] = <<>> /\ given[a] # NoScore
                     THEN <<FinalGrade(given[a])>> ELSE finals[a]]

FinalizeExam ==
  LET book == CreateFinals
      added == {s \in Submissions : \E a \in AnswersOf(s) : book[a] # <<>>}
  IN
  /\ ~HasLockedGrades
  /\ AllInStatus({"pending_confirmation"})
  /\ finals' = book
  /\ total' = [s \in Submissions |-> IF s \in added THEN SumNewest(book, s) ELSE total[s]]
  /\ status' = [s \in Submissions |-> IF s \in added THEN "pending_confirmation" ELSE status[s]]
  /\ counted' = [a \in Answers |-> Len(book[a])]
  /\ UNCHANGED <<given, atWork, exam, attendance, appealVars, txVars, ledger>>

NothingMissing == atWork = {} /\ \A a \in Answers : finals[a] # <<>>
AnybodyPresent == \A p \in Students : attendance[p] = "absent" => p \notin Submissions  \* faulty
RosterSettled == \A p \in Students : attendance[p] = "absent" <=> p \notin Submissions

Stamp(from, to) ==
  [a \in Answers |-> [n \in DOMAIN finals[a] |->
     IF finals[a][n].status \in from THEN [finals[a][n] EXCEPT !.status = to] ELSE finals[a][n]]]

ConfirmGrades ==
  /\ NothingMissing
  /\ \E s \in Submissions : Rated(s)
  /\ AllInStatus({"pending_confirmation"})
  /\ status' = [s \in Submissions |-> IF Rated(s) THEN "confirmed" ELSE status[s]]
  /\ finals' = Stamp({"pending_confirmation"}, "confirmed")
  /\ UNCHANGED <<given, atWork, total, exam, attendance, appealVars, txVars, ledger, counted>>

PublishGrades ==
  /\ ~HasLockedGrades
  /\ NothingMissing /\ RosterSettled
  /\ \E s \in Submissions : Rated(s)
  /\ AllInStatus({"confirmed"})
  /\ exam = "open"
  /\ status' = [s \in Submissions |-> IF Rated(s) THEN "published" ELSE status[s]]
  /\ finals' = Stamp({"pending_confirmation", "confirmed"}, "locked")
  /\ exam' = "published"
  /\ UNCHANGED <<given, atWork, total, attendance, appealVars, txVars, ledger, counted>>

SetAttendance(p, how) ==
  /\ exam # "published"
  /\ attendance' = [attendance EXCEPT ![p] = how]
  /\ UNCHANGED <<given, atWork, finals, total, status, exam, appealVars, txVars, ledger, counted>>

-----------------------------------------------------------------------------
(* Appeals.  One that names no final grade concerns the whole exam.        *)

RowsOf(s) == UNION {{a} \X DOMAIN finals[a] : a \in AnswersOf(s)}
Unlocked(i) == reviewing[i] = NoRow

CreateAppeal(i, r) ==
  /\ appeal[i] = "none" /\ status[subject[i]] = "published"
  /\ appeal' = [appeal EXCEPT ![i] = "submitted"]
  /\ target' = [target EXCEPT ![i] = r]
  /\ UNCHANGED <<given, atWork, finals, total, status, exam, attendance, subject, txVars, ledger, counted>>

SetAppeal(i, next) ==
  /\ appeal' = [appeal EXCEPT ![i] = next]
  /\ UNCHANGED <<given, atWork, finals, total, status, exam, attendance, subject, target, txVars, ledger, counted>>

AssignAppeal(i) == Unlocked(i) /\ appeal[i] \in Undecided /\ SetAppeal(i, "under_review")

(* A decision that leaves the score alone. *)
ReviewAppeal(i, next) ==
  Unlocked(i) /\ appeal[i] \in Undecided /\ next \in Handled /\ SetAppeal(i, next)

CloseAppeal(i) == Unlocked(i) /\ appeal[i] \notin {"none", "closed"} /\ SetAppeal(i, "closed")

(* A decision that changes it: the appeal and the final grade, of the      *)
(* reviewer's choice among those of the paper, are locked and read.        *)
RowNeverLocked(r) == TRUE  \* faulty RowFree: no FOR UPDATE
RowFree(r) == \A i \in Appeals : reviewing[i] # r

LockFinal(i, r) ==
  /\ Unlocked(i) /\ appeal[i] \in Undecided /\ RowFree(r)
  /\ reviewing' = [reviewing EXCEPT ![i] = r]
  /\ saw' = [saw EXCEPT ![i] = finals[r[1]][r[2]].score]
  /\ UNCHANGED <<given, atWork, finals, total, status, exam, attendance, appealVars, ledger, counted>>

EndReview(i) ==
  /\ reviewing' = [reviewing EXCEPT ![i] = NoRow]
  /\ saw' = [saw EXCEPT ![i] = 0]

FullScore(i, x) == x         \* faulty Delta: the new score is added
Delta(i, x) == x - saw[i]

(* The CHECK constraint on submission_grade: a total within full marks. *)
FullMarks(s) ==
  Sum([a \in {b \in AnswersOf(s) : counted[b] > 0} |-> CHOOSE m \in Scores : \A x \in Scores : x <= m])

Adjust(i, x) ==
  LET r == reviewing[i] s == subject[i] IN
  /\ r # NoRow
  /\ total[s] + Delta(i, x) \in 0..FullMarks(s)
  /\ finals' = [finals EXCEPT ![r[1]][r[2]] = [score |-> x, status |-> "locked"]]
  /\ total' = [total EXCEPT ![s] = @ + Delta(i, x)]
  /\ status' = [status EXCEPT ![s] = "published"]
  /\ ledger' = Append(ledger, [appeal |-> i, row |-> r, previous |-> saw[i], adjusted |-> x])
  /\ appeal' = [appeal EXCEPT ![i] = "score_adjusted"]
  /\ target' = [target EXCEPT ![i] = r]
  /\ EndReview(i)
  /\ UNCHANGED <<given, atWork, exam, attendance, subject, counted>>

AbortReview(i) ==
  /\ reviewing[i] # NoRow
  /\ EndReview(i)
  /\ UNCHANGED <<given, atWork, finals, total, status, exam, attendance, appealVars, ledger, counted>>

Mark(a) == \E x \in Scores : SubmitSingle(a, x) \/ PassRule(a, x) \/ SettlePair(a, x)

Next ==
  \/ \E a \in Answers : Appoint(a) \/ Mark(a)
  \/ FinalizeExam \/ ConfirmGrades \/ PublishGrades
  \/ \E p \in Students, how \in {"expected", "absent"} : SetAttendance(p, how)
  \/ \E i \in Appeals :
       \/ \E r \in RowsOf(subject[i]) : CreateAppeal(i, r) \/ LockFinal(i, r)
       \/ CreateAppeal(i, NoRow) \/ AssignAppeal(i) \/ CloseAppeal(i) \/ AbortReview(i)
       \/ \E next \in Handled : ReviewAppeal(i, next)
       \/ \E x \in Scores : Adjust(i, x)

Spec == Init /\ [][Next]_vars

(* The staff do their part: answers are given out and marked, and an exam  *)
(* that may be finalized, confirmed or published again and again is so in  *)
(* the end.                                                                *)
FairSpec ==
  /\ Spec
  /\ \A a \in Answers : WF_vars(Appoint(a) /\ finals[a] = <<>>) /\ WF_vars(Mark(a))
  /\ SF_vars(FinalizeExam) /\ SF_vars(ConfirmGrades) /\ SF_vars(PublishGrades)

-----------------------------------------------------------------------------
Final == [score : Scores, status : {"pending_confirmation", "confirmed", "locked"}]
Adjustment == [appeal : Appeals, row : Rows, previous : Scores, adjusted : Scores]

(* Rows and transactions have the types of their columns. *)
TypeOK ==
  /\ given \in [Answers -> Scores \cup {NoScore}]
  /\ atWork \subseteq Answers
  /\ finals \in [Answers -> Seq(Final)]
  /\ total \in [Submissions -> Nat]
  /\ status \in [Submissions -> {"none", "pending_confirmation", "confirmed", "published"}]
  /\ exam \in {"open", "published"}
  /\ attendance \in [Students -> {"expected", "absent"}]
  /\ appeal \in [Appeals -> {"none", "score_adjusted", "closed", "submitted"} \cup Handled]
  /\ subject \in [Appeals -> Submissions]
  /\ target \in [Appeals -> Rows \cup {NoRow}] /\ reviewing \in [Appeals -> Rows \cup {NoRow}]
  /\ saw \in [Appeals -> Nat]
  /\ ledger \in Seq(Adjustment)
  /\ counted \in [Answers -> Nat]

(* The books balance: a total is the sum of the final grades that were the *)
(* newest of their answers when they were last added up, at what appeals   *)
(* have made of them since, plus what appeals changed in other rows.  So   *)
(* a published total misses exactly the final grades that double marking   *)
(* recorded after the last Finalize, and nothing else.                     *)
CountedRow(a) == <<a, counted[a]>>
StrayDelta(n, s) ==
  IF ledger[n].row[1][1] = s /\ ledger[n].row # CountedRow(ledger[n].row[1])
  THEN ledger[n].adjusted - ledger[n].previous ELSE 0
BooksBalance ==
  \A s \in Submissions :
    Rated(s) => total[s] =
      Sum([a \in {b \in AnswersOf(s) : counted[b] > 0} |-> finals[a][counted[a]].score])
        + Sum([n \in DOMAIN ledger |-> StrayDelta(n, s)])

(* Adjustments leave an unbroken trail, whatever appeals are reviewed at   *)
(* the same time: each starts from the score the one before it on the same *)
(* final grade left, the last one left what the row says, and an appeal    *)
(* adjusts one score once.                                                 *)
AdjustmentsChain ==
  \A m \in DOMAIN ledger :
    LET later == {n \in DOMAIN ledger : n > m /\ ledger[n].row = ledger[m].row}
        r == ledger[m].row
    IN /\ IF later = {} THEN finals[r[1]][r[2]] = [score |-> ledger[m].adjusted, status |-> "locked"]
          ELSE \E n \in later : (\A k \in later : n <= k) /\ ledger[n].previous = ledger[m].adjusted
       /\ appeal[ledger[m].appeal] \in {"score_adjusted", "closed"}
       /\ \A n \in DOMAIN ledger : ledger[n].appeal = ledger[m].appeal => n = m

(* A publication covers the exam: every paper is by somebody present, all  *)
(* others are absent, every answer has a final grade, and from then on     *)
(* totals, question scores and the roster move only with an adjustment.    *)
Published == exam = "published"
PublishedStandsFirm ==
  [][Published =>
       /\ \A p \in Students : attendance[p] = "absent" <=> p \notin Submissions
       /\ attendance' = attendance /\ exam' = exam
       /\ \A a \in Answers : finals[a] # <<>> /\ Len(finals[a]) <= Len(finals'[a])
       /\ \/ Len(ledger') = Len(ledger) + 1
          \/ /\ <<total, status>>' = <<total, status>>
             /\ \A a \in Answers : \A n \in DOMAIN finals[a] : finals'[a][n] = finals[a][n]]_vars

(* No exam runs into a dead end on its way to publication, once attendance *)
(* has been put right.                                                     *)
ExamIsPublished == <>[]RosterSettled => <>Published

(* What the documents say: the published total of every paper is the sum   *)
(* of its question scores.                                                 *)
PublishedTotalIsSum ==
  Published => \A s \in Submissions : status[s] = "published" /\ total[s] = SumNewest(finals, s)
=============================================================================
