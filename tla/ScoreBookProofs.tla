--------------------------- MODULE ScoreBookProofs ---------------------------
(***************************************************************************)
(* Theorems about ScoreBook, for any students, questions, scores and       *)
(* appeals.                                                                *)
(*                                                                         *)
(* The trail of the adjustments rests on the two locks of a review: as     *)
(* long as it holds them its appeal is undecided, no other review is at    *)
(* the same final grade, and the score it read is still there.             *)
(*                                                                         *)
(* That the books balance rests on this trail too: an adjustment moves the *)
(* total by the new score minus the one it read, so that one must still be *)
(* what the total was made of.  The rest of the argument is about sums     *)
(* over finite sets, the subject of the last lemmas before the theorems.   *)
(***************************************************************************)
EXTENDS ScoreBook, SequenceTheorems, FiniteSetTheorems, WellFoundedInduction, TLAPS

Statuses == {"none", "pending_confirmation", "confirmed", "published"}
AppealStatuses == {"none", "score_adjusted", "closed", "submitted"} \cup Handled
Entry == [appeal : Appeals, row : Rows, previous : Nat, adjusted : Scores]

Typed ==
  /\ given \in [Answers -> Scores \cup {NoScore}]
  /\ finals \in [Answers -> Seq(Final)]
  /\ status \in [Submissions -> Statuses]
  /\ appeal \in [Appeals -> AppealStatuses]
  /\ subject \in [Appeals -> Submissions]
  /\ reviewing \in [Appeals -> Rows \cup {NoRow}]
  /\ saw \in [Appeals -> Nat]
  /\ ledger \in Seq(Entry)

Exists(r) == r \in Rows /\ r[2] \in DOMAIN finals[r[1]]
ScoreAt(r) == finals[r[1]][r[2]].score

ReviewSound(i) ==
  reviewing[i] # NoRow =>
    /\ Exists(reviewing[i]) /\ saw[i] = ScoreAt(reviewing[i])
    /\ appeal[i] \in Undecided
    /\ \A j \in Appeals : reviewing[j] = reviewing[i] => j = i

AppealsOnce ==
  \A m \in DOMAIN ledger :
    /\ Exists(ledger[m].row)
    /\ appeal[ledger[m].appeal] \in {"score_adjusted", "closed"}
    /\ \A n \in DOMAIN ledger : ledger[n].appeal = ledger[m].appeal => n = m

(* The next adjustment of the same row starts where this one ended; after  *)
(* the last, the row says what it has made of it.                          *)
Later(m) == {n \in DOMAIN ledger : n > m /\ ledger[n].row = ledger[m].row}
Linked(m) ==
  IF Later(m) = {}
    THEN finals[ledger[m].row[1]][ledger[m].row[2]] = [score |-> ledger[m].adjusted, status |-> "locked"]
    ELSE \E n \in Later(m) : (\A k \in Later(m) : n <= k) /\ ledger[n].previous = ledger[m].adjusted

Covered ==
  Published => /\ RosterSettled /\ HasLockedGrades
               /\ \A a \in Answers : finals[a] # <<>>

Sound ==
  /\ Typed /\ AppealsOnce /\ Covered
  /\ \A i \in Appeals : ReviewSound(i)
  /\ \A m \in DOMAIN ledger : Linked(m)

(* What a step does to final grades: none is removed, and none that is     *)
(* there gets another score, nor a locked one another status.              *)
RowsKept ==
  \A a \in Answers :
    /\ Len(finals[a]) <= Len(finals'[a])
    /\ \A n \in DOMAIN finals[a] :
         /\ n \in DOMAIN finals'[a] /\ finals'[a][n].score = finals[a][n].score
         /\ finals[a][n].status = "locked" => finals'[a][n] = finals[a][n]

-----------------------------------------------------------------------------
LEMMA InitSound == Init => Sound
<1> SUFFICES ASSUME Init PROVE Sound
  OBVIOUS
<1>1. Typed
  BY DEF Init, Typed, Statuses, AppealStatuses
<1>2. AppealsOnce /\ \A m \in DOMAIN ledger : Linked(m)
  BY DEF Init, AppealsOnce
<1>3. Covered /\ \A i \in Appeals : ReviewSound(i)
  BY DEF Init, Covered, Published, ReviewSound
<1> QED
  BY <1>1, <1>2, <1>3 DEF Sound

LEMMA RowParts ==
  ASSUME Typed, NEW r, Exists(r)
  PROVE  /\ r \in Rows /\ r # NoRow /\ r[1] \in Answers /\ r[2] \in Nat
         /\ r[2] \in DOMAIN finals[r[1]] /\ r = <<r[1], r[2]>>
         /\ finals[r[1]] \in Seq(Final) /\ finals[r[1]][r[2]] \in Final
<1>1. r \in Rows /\ r[2] \in DOMAIN finals[r[1]]
  BY DEF Exists
<1>2. r[1] \in Answers /\ r[2] \in Nat /\ r = <<r[1], r[2]>>
  BY <1>1 DEF Rows
<1>3. r # NoRow
  BY <1>1, ConstantsOK DEF ConstantsOK, Rows, Answers
<1>4. finals[r[1]] \in Seq(Final)
  BY <1>2 DEF Typed
<1>5. finals[r[1]][r[2]] \in Final
  BY <1>1, <1>4, ElementOfSeq
<1> QED
  BY <1>1, <1>2, <1>3, <1>4, <1>5

(* Rows that are kept keep the trail. *)
LEMMA TrailKept ==
  ASSUME Sound, RowsKept, UNCHANGED ledger, Typed'
  PROVE  /\ \A r : Exists(r) => Exists(r)' /\ ScoreAt(r)' = ScoreAt(r)
         /\ \A m \in DOMAIN ledger : Linked(m)'
<1>t. Typed
  BY DEF Sound
<1>1. ASSUME NEW r, Exists(r) PROVE Exists(r)' /\ ScoreAt(r)' = ScoreAt(r)
  BY <1>t, <1>1, RowParts DEF Exists, ScoreAt, RowsKept
<1>2. ASSUME NEW m \in DOMAIN ledger PROVE Linked(m)'
  <2>1. Linked(m) /\ Exists(ledger[m].row)
    BY DEF Sound, AppealsOnce
  <2>2. Later(m)' = Later(m)
    BY DEF Later
  <2>3. CASE Later(m) = {}
    <3> DEFINE r == ledger[m].row
    <3>1. finals[r[1]][r[2]] = [score |-> ledger[m].adjusted, status |-> "locked"]
      BY <2>1, <2>3 DEF Linked
    <3>2. r[1] \in Answers /\ r[2] \in DOMAIN finals[r[1]]
      BY <1>t, <2>1, RowParts
    <3>3. finals'[r[1]][r[2]] = finals[r[1]][r[2]]
      BY <3>1, <3>2 DEF RowsKept
    <3> QED
      BY <2>2, <2>3, <3>1, <3>3 DEF Linked
  <2>4. CASE Later(m) # {}
    BY <2>1, <2>2, <2>4 DEF Linked
  <2> QED
    BY <2>3, <2>4
<1> QED
  BY <1>1, <1>2

(* A step that leaves reviews, decisions and the ledger alone. *)
LEMMA QuietSound ==
  ASSUME Sound, RowsKept, Typed', Covered',
         UNCHANGED <<appeal, subject, reviewing, saw, ledger>>
  PROVE  Sound'
<1>1. /\ \A r : Exists(r) => Exists(r)' /\ ScoreAt(r)' = ScoreAt(r)
      /\ \A m \in DOMAIN ledger : Linked(m)'
  BY TrailKept
<1>2. AppealsOnce'
  BY <1>1 DEF Sound, AppealsOnce
<1>3. ASSUME NEW i \in Appeals PROVE ReviewSound(i)'
  BY <1>1 DEF Sound, ReviewSound
<1> QED
  BY <1>1, <1>2, <1>3 DEF Sound

-----------------------------------------------------------------------------
(* Marking. *)
LEMMA MarkSound ==
  ASSUME Sound, NEW a \in Answers, Appoint(a) \/ Mark(a)
  PROVE  Sound' /\ RowsKept /\ UNCHANGED <<total, status, exam, attendance, ledger>>
<1>t. Typed /\ Covered
  BY DEF Sound
<1>1. UNCHANGED <<total, status, exam, attendance, appeal, subject, reviewing, saw, ledger>>
  BY DEF Appoint, Mark, SubmitSingle, PassRule, SettlePair, appealVars, txVars
<1>2. given' \in [Answers -> Scores \cup {NoScore}]
  BY <1>t DEF Typed, Appoint, Mark, SubmitSingle, PassRule, SettlePair
<1>3. finals' = finals \/ \E x \in Scores : finals' = [finals EXCEPT ![a] = Append(@, FinalGrade(x))]
  BY DEF Appoint, Mark, SubmitSingle, PassRule, SettlePair
<1>4. finals' \in [Answers -> Seq(Final)] /\ RowsKept /\ \A b \in Answers : finals[b] # <<>> => finals'[b] # <<>>
  <2>1. CASE finals' = finals
    BY <1>t, <2>1 DEF Typed, RowsKept
  <2>2. ASSUME NEW x \in Scores, finals' = [finals EXCEPT ![a] = Append(@, FinalGrade(x))]
        PROVE  finals' \in [Answers -> Seq(Final)] /\ RowsKept /\ \A b \in Answers : finals[b] # <<>> => finals'[b] # <<>>
    <3> DEFINE g == FinalGrade(x)
    <3>1. g \in Final /\ finals[a] \in Seq(Final)
      BY <1>t DEF FinalGrade, Final, Typed
    <3> HIDE DEF g
    <3>2. /\ Append(finals[a], g) \in Seq(Final) /\ Len(Append(finals[a], g)) = Len(finals[a]) + 1
          /\ \A n \in DOMAIN finals[a] : n \in DOMAIN Append(finals[a], g) /\ Append(finals[a], g)[n] = finals[a][n]
      BY <3>1
    <3>3. finals' = [finals EXCEPT ![a] = Append(finals[a], g)]
      BY <2>2 DEF g
    <3>4. finals' \in [Answers -> Seq(Final)] /\ finals'[a] = Append(finals[a], g) /\ \A b \in Answers \ {a} : finals'[b] = finals[b]
      BY <1>t, <3>2, <3>3 DEF Typed
    <3>5. \A b \in Answers : Len(finals[b]) \in Nat
      BY <1>t DEF Typed
    <3>6. RowsKept
      BY <3>2, <3>4, <3>5 DEF RowsKept
    <3>7. finals'[a] # <<>>
      BY <3>1, <3>2, <3>4
    <3> QED
      BY <3>4, <3>6, <3>7
  <2> QED
    BY <1>3, <2>1, <2>2
<1>5. Typed'
  BY <1>t, <1>1, <1>2, <1>4 DEF Typed
<1>6. Covered'
  BY <1>t, <1>1, <1>4 DEF Covered, Published, RosterSettled, HasLockedGrades
<1> QED
  BY <1>1, <1>4, <1>5, <1>6, QuietSound

(* Finalize adds rows to answers that have none. *)
LEMMA FinalizeSound ==
  ASSUME Sound, FinalizeExam PROVE Sound' /\ RowsKept /\ ~Published
<1>t. Typed /\ Covered
  BY DEF Sound
<1>1. /\ ~HasLockedGrades /\ finals' = CreateFinals
      /\ UNCHANGED <<given, exam, attendance, appeal, subject, reviewing, saw, ledger>>
  BY DEF FinalizeExam, appealVars, txVars
<1>2. ~Published /\ ~Published'
  BY <1>t, <1>1 DEF Covered, Published
<1>3. status' \in [Submissions -> Statuses]
  BY <1>t DEF FinalizeExam, Typed, Statuses
<1>4. ASSUME NEW a \in Answers
      PROVE  finals'[a] \in Seq(Final) /\ (finals[a] # <<>> => finals'[a] = finals[a])
  <2>1. finals'[a] = IF finals[a] = <<>> /\ given[a] # NoScore THEN <<FinalGrade(given[a])>> ELSE finals[a]
    BY <1>1 DEF CreateFinals
  <2>2. given[a] # NoScore => FinalGrade(given[a]) \in Final
    BY <1>t DEF Typed, FinalGrade, Final
  <2>3. given[a] # NoScore => <<FinalGrade(given[a])>> \in Seq(Final)
    BY <2>2
  <2> QED
    BY <1>t, <2>1, <2>3 DEF Typed
<1>5. finals' \in [Answers -> Seq(Final)]
  BY <1>1, <1>4 DEF CreateFinals
<1>6. RowsKept
  <2> SUFFICES ASSUME NEW a \in Answers
               PROVE  /\ Len(finals[a]) <= Len(finals'[a])
                      /\ \A n \in DOMAIN finals[a] : n \in DOMAIN finals'[a] /\ finals'[a][n] = finals[a][n]
    BY DEF RowsKept
  <2>1. CASE finals[a] # <<>>
    BY <1>t, <1>4, <2>1 DEF Typed
  <2>2. CASE finals[a] = <<>>
    BY <1>4, <2>2
  <2> QED
    BY <2>1, <2>2
<1>7. Typed' /\ Covered'
  BY <1>t, <1>1, <1>2, <1>3, <1>5 DEF Typed, Covered
<1> QED
  BY <1>1, <1>2, <1>6, <1>7, QuietSound

(* Confirm and Publish stamp rows, but no locked one. *)
LEMMA Stamped ==
  ASSUME Typed, NEW from \in SUBSET {"pending_confirmation", "confirmed"}, NEW to \in {"confirmed", "locked"},
         finals' = Stamp(from, to)
  PROVE  /\ finals' \in [Answers -> Seq(Final)] /\ RowsKept
         /\ \A a \in Answers : finals[a] # <<>> => finals'[a] # <<>>
<1>1. ASSUME NEW a \in Answers
      PROVE  /\ finals'[a] \in Seq(Final) /\ Len(finals'[a]) = Len(finals[a])
             /\ \A n \in DOMAIN finals[a] :
                  /\ n \in DOMAIN finals'[a] /\ finals'[a][n].score = finals[a][n].score
                  /\ finals[a][n].status = "locked" => finals'[a][n] = finals[a][n]
  <2> DEFINE rows == finals[a]
             new(n) == IF rows[n].status \in from THEN [rows[n] EXCEPT !.status = to] ELSE rows[n]
  <2>1. rows \in Seq(Final) /\ Len(rows) \in Nat /\ DOMAIN rows = 1..Len(rows)
    BY DEF Typed
  <2>2. finals'[a] = [n \in 1..Len(rows) |-> new(n)]
    BY <2>1 DEF Stamp
  <2>3. ASSUME NEW n \in 1..Len(rows)
        PROVE  new(n) \in Final /\ new(n).score = rows[n].score /\ (rows[n].status = "locked" => new(n) = rows[n])
    <3>1. rows[n] \in Final
      BY <2>1
    <3> QED
      BY <3>1 DEF Final
  <2> HIDE DEF new, rows
  <2>4. finals'[a] \in [1..Len(rows) -> Final]
    BY <2>2, <2>3
  <2>5. finals'[a] \in Seq(Final) /\ Len(finals'[a]) = Len(rows) /\ DOMAIN finals'[a] = 1..Len(rows)
    BY <2>1, <2>4
  <2>6. \A n \in 1..Len(rows) : finals'[a][n] = new(n)
    BY <2>2
  <2> QED
    BY <2>1, <2>3, <2>5, <2>6 DEF rows
<1>2. finals' \in [Answers -> Seq(Final)]
  BY <1>1 DEF Stamp
<1>3. RowsKept
  BY <1>1 DEF RowsKept, Typed
<1>4. \A a \in Answers : finals[a] # <<>> => finals'[a] # <<>>
  <2> SUFFICES ASSUME NEW a \in Answers, finals[a] # <<>> PROVE finals'[a] # <<>>
    OBVIOUS
  <2>1. finals[a] \in Seq(Final) /\ finals'[a] \in Seq(Final) /\ Len(finals'[a]) = Len(finals[a])
    BY <1>1 DEF Typed
  <2> QED
    BY <2>1
<1> QED
  BY <1>2, <1>3, <1>4

LEMMA ConfirmSound ==
  ASSUME Sound, ConfirmGrades PROVE Sound' /\ RowsKept /\ ~Published
<1>t. Typed /\ Covered
  BY DEF Sound
<1>1. /\ AllInStatus({"pending_confirmation"})
      /\ status' = [s \in Submissions |-> IF Rated(s) THEN "confirmed" ELSE status[s]]
      /\ finals' = Stamp({"pending_confirmation"}, "confirmed")
      /\ UNCHANGED <<given, exam, attendance, appeal, subject, reviewing, saw, ledger>>
  BY DEF ConfirmGrades, appealVars, txVars
<1>2. ~Published /\ ~Published'
  BY <1>t, <1>1 DEF Covered, Published, HasLockedGrades, AllInStatus, Rated
<1>3. status' \in [Submissions -> Statuses]
  BY <1>t, <1>1 DEF Typed, Statuses
<1>4. finals' \in [Answers -> Seq(Final)] /\ RowsKept
  BY <1>t, <1>1, Stamped
<1>5. Typed' /\ Covered'
  BY <1>t, <1>1, <1>2, <1>3, <1>4 DEF Typed, Covered
<1> QED
  BY <1>1, <1>2, <1>4, <1>5, QuietSound

LEMMA PublishSound ==
  ASSUME Sound, PublishGrades PROVE Sound' /\ RowsKept /\ ~Published
<1>t. Typed /\ Covered
  BY DEF Sound
<1>1. /\ NothingMissing /\ RosterSettled /\ (\E s \in Submissions : Rated(s)) /\ exam = "open"
      /\ status' = [s \in Submissions |-> IF Rated(s) THEN "published" ELSE status[s]]
      /\ finals' = Stamp({"pending_confirmation", "confirmed"}, "locked")
      /\ UNCHANGED <<given, attendance, appeal, subject, reviewing, saw, ledger>>
  BY DEF PublishGrades, appealVars, txVars
<1>2. status' \in [Submissions -> Statuses]
  BY <1>t, <1>1 DEF Typed, Statuses
<1>3. /\ finals' \in [Answers -> Seq(Final)] /\ RowsKept
      /\ \A a \in Answers : finals[a] # <<>> => finals'[a] # <<>>
  BY <1>t, <1>1, Stamped
<1>4. Typed'
  BY <1>t, <1>1, <1>2, <1>3 DEF Typed
<1>5. RosterSettled' /\ HasLockedGrades' /\ \A a \in Answers : finals'[a] # <<>>
  <2>1. RosterSettled'
    BY <1>1 DEF RosterSettled
  <2>2. HasLockedGrades'
    BY <1>1 DEF HasLockedGrades
  <2> QED
    BY <1>1, <1>3, <2>1, <2>2 DEF NothingMissing
<1> QED
  BY <1>1, <1>3, <1>4, <1>5, QuietSound DEF Covered, Published

LEMMA AttendanceSound ==
  ASSUME Sound, NEW p \in Students, NEW how \in {"expected", "absent"}, SetAttendance(p, how)
  PROVE  Sound' /\ RowsKept /\ ~Published
<1>1. /\ ~Published
      /\ UNCHANGED <<given, finals, status, exam, appeal, subject, reviewing, saw, ledger>>
  BY DEF SetAttendance, Published, appealVars, txVars
<1>2. RowsKept
  BY <1>1 DEF RowsKept, Sound, Typed
<1>3. Typed' /\ Covered'
  BY <1>1 DEF Sound, Typed, Covered, Published
<1> QED
  BY <1>1, <1>2, <1>3, QuietSound

-----------------------------------------------------------------------------
(* Appeals. *)

(* All that is not an appeal's stays as it is. *)
BookStays ==
  UNCHANGED <<given, atWork, finals, total, status, exam, attendance, subject, ledger, counted>>

LEMMA BookStaysSound ==
  ASSUME Sound, BookStays
  PROVE  /\ RowsKept /\ Covered'
         /\ \A r : Exists(r)' <=> Exists(r)
         /\ \A r : ScoreAt(r)' = ScoreAt(r)
         /\ \A m \in DOMAIN ledger : Linked(m)'
<1>1. RowsKept
  BY DEF Sound, Typed, RowsKept, BookStays
<1>2. Covered'
  BY DEF Sound, Covered, Published, RosterSettled, HasLockedGrades, BookStays
<1>3. (\A r : Exists(r)' <=> Exists(r)) /\ (\A r : ScoreAt(r)' = ScoreAt(r))
  BY DEF Exists, ScoreAt, BookStays
<1>4. \A m \in DOMAIN ledger : Linked(m)'
  BY DEF Sound, Linked, Later, BookStays
<1> QED
  BY <1>1, <1>2, <1>3, <1>4

(* A new status of one that is not being reviewed. *)
LEMMA StatusSound ==
  ASSUME Sound, BookStays, NEW i \in Appeals, NEW next \in AppealStatuses,
         appeal' = [appeal EXCEPT ![i] = next], UNCHANGED <<reviewing, saw>>,
         reviewing[i] = NoRow,
         appeal[i] \in {"score_adjusted", "closed"} => next = "closed"
  PROVE  Sound'
<1>t. Typed
  BY DEF Sound
<1>b. /\ RowsKept /\ Covered'
      /\ (\A r : Exists(r)' <=> Exists(r)) /\ (\A r : ScoreAt(r)' = ScoreAt(r))
      /\ \A m \in DOMAIN ledger : Linked(m)'
  BY BookStaysSound
<1>1. /\ appeal' \in [Appeals -> AppealStatuses] /\ appeal'[i] = next
      /\ \A j \in Appeals \ {i} : appeal'[j] = appeal[j]
  BY <1>t DEF Typed
<1>2. Typed'
  BY <1>t, <1>1 DEF Typed, BookStays
<1>3. ASSUME NEW j \in Appeals PROVE ReviewSound(j)'
  <2>1. ReviewSound(j)
    BY DEF Sound
  <2>2. CASE j = i
    BY <2>2 DEF ReviewSound
  <2>3. CASE j # i
    <3>1. appeal'[j] = appeal[j] /\ reviewing'[j] = reviewing[j] /\ saw'[j] = saw[j]
      BY <1>1, <2>3
    <3>2. \A k \in Appeals : reviewing'[k] = reviewing[k]
      OBVIOUS
    <3> QED
      BY <1>b, <2>1, <3>1, <3>2 DEF ReviewSound
  <2> QED
    BY <2>2, <2>3
<1>4. AppealsOnce'
  <2>1. \A m \in DOMAIN ledger : ledger[m].appeal \in Appeals
    <3> SUFFICES ASSUME NEW m \in DOMAIN ledger PROVE ledger[m].appeal \in Appeals
      OBVIOUS
    <3>1. ledger[m] \in Entry
      BY <1>t DEF Typed
    <3> QED
      BY <3>1 DEF Entry
  <2>2. UNCHANGED ledger
    BY DEF BookStays
  <2>3. ASSUME NEW m \in DOMAIN ledger PROVE appeal'[ledger[m].appeal] \in {"score_adjusted", "closed"}
    <3>1. appeal[ledger[m].appeal] \in {"score_adjusted", "closed"}
      BY DEF Sound, AppealsOnce
    <3> QED
      BY <1>1, <2>1, <3>1
  <2> QED
    BY <1>b, <2>2, <2>3 DEF Sound, AppealsOnce
<1>5. \A m \in DOMAIN ledger' : Linked(m)'
  BY <1>b DEF BookStays
<1> QED
  BY <1>b, <1>2, <1>3, <1>4, <1>5 DEF Sound

LEMMA FileSound ==
  ASSUME Sound, NEW i \in Appeals, NEW r, CreateAppeal(i, r) PROVE Sound' /\ BookStays
<1>1. /\ BookStays /\ appeal[i] = "none" /\ appeal' = [appeal EXCEPT ![i] = "submitted"]
      /\ UNCHANGED <<reviewing, saw>>
  BY DEF CreateAppeal, BookStays, txVars
<1>2. reviewing[i] = NoRow
  BY <1>1 DEF Sound, ReviewSound, Undecided
<1> QED
  BY <1>1, <1>2, StatusSound DEF AppealStatuses

LEMMA DecideSound ==
  ASSUME Sound, NEW i \in Appeals,
         AssignAppeal(i) \/ CloseAppeal(i) \/ \E next \in Handled : ReviewAppeal(i, next)
  PROVE  Sound' /\ BookStays
<1>1. PICK next \in AppealStatuses :
        /\ reviewing[i] = NoRow /\ SetAppeal(i, next)
        /\ appeal[i] \in {"score_adjusted", "closed"} => next = "closed"
  <2>1. CASE AssignAppeal(i)
    BY <2>1 DEF AssignAppeal, Unlocked, Undecided, AppealStatuses, Handled
  <2>2. CASE CloseAppeal(i)
    BY <2>2 DEF CloseAppeal, Unlocked, AppealStatuses
  <2>3. CASE \E next \in Handled : ReviewAppeal(i, next)
    BY <2>3 DEF ReviewAppeal, Unlocked, Undecided, AppealStatuses
  <2> QED
    BY <2>1, <2>2, <2>3
<1>2. BookStays /\ appeal' = [appeal EXCEPT ![i] = next] /\ UNCHANGED <<reviewing, saw>>
  BY <1>1 DEF SetAppeal, BookStays, txVars
<1> QED
  BY <1>1, <1>2, StatusSound

(* A review takes its locks, or gives them up. *)
LEMMA LockFinalSound ==
  ASSUME Sound, NEW i \in Appeals, NEW r \in RowsOf(subject[i]), LockFinal(i, r)
  PROVE  Sound' /\ BookStays
<1>t. Typed
  BY DEF Sound
<1>1. /\ BookStays /\ appeal[i] \in Undecided /\ RowFree(r) /\ UNCHANGED appeal
      /\ reviewing' = [reviewing EXCEPT ![i] = r] /\ saw' = [saw EXCEPT ![i] = ScoreAt(r)]
  BY DEF LockFinal, BookStays, appealVars, ScoreAt
<1>b. /\ Covered' /\ (\A q : Exists(q)' <=> Exists(q)) /\ (\A q : ScoreAt(q)' = ScoreAt(q))
      /\ \A m \in DOMAIN ledger : Linked(m)'
  BY <1>1, BookStaysSound
<1>2. Exists(r)
  <2>1. subject[i] \in Submissions
    BY <1>t DEF Typed
  <2>2. PICK a \in AnswersOf(subject[i]) : r \in {a} \X DOMAIN finals[a]
    BY DEF RowsOf
  <2>3. a \in Answers /\ r = <<a, r[2]>> /\ r[1] = a /\ r[2] \in DOMAIN finals[a]
    BY <2>1, <2>2 DEF AnswersOf, Answers
  <2>4. DOMAIN finals[a] \subseteq Nat
    BY <1>t, <2>3 DEF Typed
  <2> QED
    BY <2>3, <2>4 DEF Exists, Rows
<1>3. ScoreAt(r) \in Nat /\ r \in Rows /\ r # NoRow
  BY <1>t, <1>2, RowParts, ConstantsOK DEF ScoreAt, Final, ConstantsOK
<1>4. /\ reviewing' \in [Appeals -> Rows \cup {NoRow}] /\ saw' \in [Appeals -> Nat]
      /\ reviewing'[i] = r /\ saw'[i] = ScoreAt(r)
      /\ \A j \in Appeals \ {i} : reviewing'[j] = reviewing[j] /\ saw'[j] = saw[j]
  BY <1>t, <1>1, <1>3 DEF Typed
<1>5. Typed'
  BY <1>t, <1>1, <1>4 DEF Typed, BookStays
<1>6. ASSUME NEW j \in Appeals PROVE ReviewSound(j)'
  <2>1. ReviewSound(j)
    BY DEF Sound
  <2>2. CASE j = i
    BY <1>1, <1>2, <1>b, <1>4, <2>2 DEF ReviewSound, RowFree
  <2>3. CASE j # i
    BY <1>1, <1>b, <1>4, <2>1, <2>3 DEF ReviewSound, RowFree
  <2> QED
    BY <2>2, <2>3
<1>7. AppealsOnce' /\ \A m \in DOMAIN ledger' : Linked(m)'
  BY <1>1, <1>b DEF Sound, AppealsOnce, BookStays
<1> QED
  BY <1>1, <1>b, <1>5, <1>6, <1>7 DEF Sound

LEMMA AbortSound ==
  ASSUME Sound, NEW i \in Appeals, AbortReview(i) PROVE Sound' /\ BookStays
<1>t. Typed
  BY DEF Sound
<1>1. /\ BookStays /\ UNCHANGED appeal
      /\ reviewing' = [reviewing EXCEPT ![i] = NoRow] /\ saw' = [saw EXCEPT ![i] = 0]
  BY DEF AbortReview, EndReview, BookStays, appealVars
<1>b. /\ Covered' /\ (\A q : Exists(q)' <=> Exists(q)) /\ (\A q : ScoreAt(q)' = ScoreAt(q))
      /\ \A m \in DOMAIN ledger : Linked(m)'
  BY <1>1, BookStaysSound
<1>2. /\ reviewing' \in [Appeals -> Rows \cup {NoRow}] /\ saw' \in [Appeals -> Nat]
      /\ reviewing'[i] = NoRow
      /\ \A j \in Appeals \ {i} : reviewing'[j] = reviewing[j] /\ saw'[j] = saw[j]
  BY <1>t, <1>1 DEF Typed
<1>3. Typed'
  BY <1>t, <1>1, <1>2 DEF Typed, BookStays
<1>4. ASSUME NEW j \in Appeals PROVE ReviewSound(j)'
  <2>1. ReviewSound(j)
    BY DEF Sound
  <2>2. CASE j = i
    BY <1>2, <2>2 DEF ReviewSound
  <2>3. CASE j # i
    BY <1>1, <1>b, <1>2, <2>1, <2>3 DEF ReviewSound
  <2> QED
    BY <2>2, <2>3
<1>5. AppealsOnce' /\ \A m \in DOMAIN ledger' : Linked(m)'
  BY <1>1, <1>b DEF Sound, AppealsOnce, BookStays
<1> QED
  BY <1>1, <1>b, <1>3, <1>4, <1>5 DEF Sound

(* The adjustment itself: one row, one more entry, one appeal decided.     *)
AdjustedTo(x) == [score |-> x, status |-> "locked"]
EntryOf(i, x) == [appeal |-> i, row |-> reviewing[i], previous |-> saw[i], adjusted |-> x]

LEMMA AdjustEffect ==
  ASSUME Typed, NEW i \in Appeals, NEW x \in Scores, Adjust(i, x), Exists(reviewing[i])
  PROVE  /\ finals' \in [Answers -> Seq(Final)]
         /\ finals'[reviewing[i][1]][reviewing[i][2]] = AdjustedTo(x)
         /\ \A a \in Answers :
              /\ DOMAIN finals'[a] = DOMAIN finals[a] /\ Len(finals'[a]) = Len(finals[a])
              /\ \A n \in DOMAIN finals[a] : <<a, n>> # reviewing[i] => finals'[a][n] = finals[a][n]
         /\ ledger' \in Seq(Entry) /\ Len(ledger) \in Nat /\ Len(ledger') = Len(ledger) + 1
         /\ DOMAIN ledger = 1..Len(ledger) /\ DOMAIN ledger' = DOMAIN ledger \cup {Len(ledger) + 1}
         /\ Len(ledger) + 1 \notin DOMAIN ledger /\ ledger'[Len(ledger) + 1] = EntryOf(i, x)
         /\ \A m \in DOMAIN ledger : ledger'[m] = ledger[m] /\ ledger[m] \in Entry
<1> DEFINE r == reviewing[i]
           g == AdjustedTo(x)
           e == EntryOf(i, x)
           last == Len(ledger) + 1
<1>t. Typed
  OBVIOUS
<1>1. finals' = [finals EXCEPT ![r[1]][r[2]] = g] /\ ledger' = Append(ledger, e)
  BY DEF Adjust, AdjustedTo, EntryOf
<1>3. /\ r \in Rows /\ r[1] \in Answers /\ r[2] \in DOMAIN finals[r[1]] /\ r = <<r[1], r[2]>>
      /\ finals[r[1]] \in Seq(Final)
  BY RowParts
<1>g. g \in Final
  BY DEF Final, AdjustedTo
<1>e. e \in Entry
  BY <1>3 DEF Entry, Typed, EntryOf
<1> HIDE DEF e, g, r
<1>4. /\ finals' \in [Answers -> Seq(Final)] /\ finals'[r[1]][r[2]] = g
      /\ \A a \in Answers :
           /\ DOMAIN finals'[a] = DOMAIN finals[a] /\ Len(finals'[a]) = Len(finals[a])
           /\ \A n \in DOMAIN finals[a] : <<a, n>> # r => finals'[a][n] = finals[a][n]
  <2>1. [finals[r[1]] EXCEPT ![r[2]] = g] \in Seq(Final) /\ Len([finals[r[1]] EXCEPT ![r[2]] = g]) = Len(finals[r[1]])
    BY <1>3, <1>g, ExceptSeq
  <2>2. /\ finals' \in [Answers -> Seq(Final)] /\ finals'[r[1]] = [finals[r[1]] EXCEPT ![r[2]] = g]
        /\ \A a \in Answers \ {r[1]} : finals'[a] = finals[a]
    BY <1>t, <1>1, <1>3, <2>1 DEF Typed
  <2>3. ASSUME NEW a \in Answers
        PROVE  /\ DOMAIN finals'[a] = DOMAIN finals[a] /\ Len(finals'[a]) = Len(finals[a])
               /\ \A n \in DOMAIN finals[a] : <<a, n>> # r => finals'[a][n] = finals[a][n]
    <3>1. CASE a = r[1]
      <4>1. finals'[a] = [finals[a] EXCEPT ![r[2]] = g] /\ Len(finals'[a]) = Len(finals[a])
        BY <2>1, <2>2, <3>1
      <4>2. ASSUME NEW n \in DOMAIN finals[a], <<a, n>> # r PROVE finals'[a][n] = finals[a][n]
        <5>1. n # r[2]
          BY <1>3, <3>1, <4>2
        <5> QED
          BY <4>1, <5>1
      <4> QED
        BY <4>1, <4>2
    <3>2. CASE a # r[1]
      BY <2>2, <3>2
    <3> QED
      BY <3>1, <3>2
  <2>4. finals'[r[1]][r[2]] = g
    BY <1>3, <2>2
  <2> QED
    BY <2>2, <2>3, <2>4
<1>5. /\ ledger' \in Seq(Entry) /\ Len(ledger) \in Nat /\ Len(ledger') = last
      /\ DOMAIN ledger = 1..Len(ledger) /\ DOMAIN ledger' = DOMAIN ledger \cup {last}
      /\ last \notin DOMAIN ledger /\ ledger'[last] = e
      /\ \A m \in DOMAIN ledger : ledger'[m] = ledger[m] /\ ledger[m] \in Entry
  BY <1>t, <1>1, <1>e DEF Typed
<1> QED
  BY <1>4, <1>5 DEF e, g, r

LEMMA AdjustSound ==
  ASSUME Sound, NEW i \in Appeals, NEW x \in Scores, Adjust(i, x)
  PROVE  /\ Sound' /\ Len(ledger') = Len(ledger) + 1 /\ UNCHANGED <<exam, attendance>>
         /\ \A a \in Answers : Len(finals[a]) <= Len(finals'[a])
<1> DEFINE r == reviewing[i]
           g == AdjustedTo(x)
           e == EntryOf(i, x)
           last == Len(ledger) + 1
<1>t. Typed /\ Covered /\ AppealsOnce /\ (\A j \in Appeals : ReviewSound(j)) /\ \A m \in DOMAIN ledger : Linked(m)
  BY DEF Sound
<1>1. /\ r # NoRow
      /\ status' = [status EXCEPT ![subject[i]] = "published"]
      /\ appeal' = [appeal EXCEPT ![i] = "score_adjusted"]
      /\ reviewing' = [reviewing EXCEPT ![i] = NoRow] /\ saw' = [saw EXCEPT ![i] = 0]
      /\ UNCHANGED <<given, exam, attendance, subject>>
  BY DEF Adjust, EndReview
<1>2. /\ Exists(r) /\ saw[i] = ScoreAt(r) /\ appeal[i] \in Undecided
      /\ \A j \in Appeals : reviewing[j] = r => j = i
  BY <1>t, <1>1 DEF ReviewSound
<1>3. /\ r \in Rows /\ r[1] \in Answers /\ r[2] \in DOMAIN finals[r[1]] /\ r = <<r[1], r[2]>>
      /\ finals[r[1]] \in Seq(Final)
  BY <1>t, <1>2, RowParts
<1>e. e \in Entry /\ e.appeal = i /\ e.row = r /\ e.previous = saw[i] /\ e.adjusted = x
  BY <1>t, <1>3 DEF Entry, EntryOf, Typed
<1> HIDE DEF e, g, r
<1>4. /\ finals' \in [Answers -> Seq(Final)] /\ finals'[r[1]][r[2]] = g
      /\ \A a \in Answers :
           /\ DOMAIN finals'[a] = DOMAIN finals[a] /\ Len(finals'[a]) = Len(finals[a])
           /\ \A n \in DOMAIN finals[a] : <<a, n>> # r => finals'[a][n] = finals[a][n]
  BY <1>t, <1>2, AdjustEffect DEF g, r
<1>5. /\ ledger' \in Seq(Entry) /\ Len(ledger) \in Nat /\ Len(ledger') = last
      /\ DOMAIN ledger = 1..Len(ledger) /\ DOMAIN ledger' = DOMAIN ledger \cup {last}
      /\ last \notin DOMAIN ledger /\ ledger'[last] = e
      /\ \A m \in DOMAIN ledger : ledger'[m] = ledger[m] /\ ledger[m] \in Entry
  BY <1>t, <1>2, AdjustEffect DEF e, r
<1>6. /\ appeal' \in [Appeals -> AppealStatuses] /\ appeal'[i] = "score_adjusted"
      /\ reviewing' \in [Appeals -> Rows \cup {NoRow}] /\ saw' \in [Appeals -> Nat]
      /\ reviewing'[i] = NoRow
      /\ \A j \in Appeals \ {i} : appeal'[j] = appeal[j] /\ reviewing'[j] = reviewing[j] /\ saw'[j] = saw[j]
  BY <1>t, <1>1 DEF Typed, AppealStatuses
<1>7. Typed'
  <2>1. status' \in [Submissions -> Statuses]
    BY <1>t, <1>1 DEF Typed, Statuses
  <2> QED
    BY <1>t, <1>1, <1>4, <1>5, <1>6, <2>1 DEF Typed
<1>8. \A q : Exists(q) => Exists(q)' /\ (q # r => finals'[q[1]][q[2]] = finals[q[1]][q[2]])
  <2> SUFFICES ASSUME NEW q, Exists(q) PROVE Exists(q)' /\ (q # r => finals'[q[1]][q[2]] = finals[q[1]][q[2]])
    OBVIOUS
  <2>1. q \in Rows /\ q[1] \in Answers /\ q[2] \in DOMAIN finals[q[1]] /\ q = <<q[1], q[2]>>
    BY <1>t, RowParts
  <2> QED
    BY <1>4, <2>1 DEF Exists
<1>9. ASSUME NEW j \in Appeals PROVE ReviewSound(j)'
  <2>1. CASE j = i
    BY <1>6, <2>1 DEF ReviewSound
  <2>2. CASE j # i
    <3> SUFFICES ASSUME reviewing'[j] # NoRow
                 PROVE  /\ Exists(reviewing[j])' /\ saw'[j] = ScoreAt(reviewing[j])'
                        /\ appeal'[j] \in Undecided
                        /\ \A k \in Appeals : reviewing'[k] = reviewing'[j] => k = j
      BY <1>6, <2>2 DEF ReviewSound, Exists, ScoreAt
    <3>1. appeal'[j] = appeal[j] /\ reviewing'[j] = reviewing[j] /\ saw'[j] = saw[j]
      BY <1>6, <2>2
    <3>2. /\ Exists(reviewing[j]) /\ saw[j] = ScoreAt(reviewing[j]) /\ appeal[j] \in Undecided
          /\ \A k \in Appeals : reviewing[k] = reviewing[j] => k = j
      BY <1>t, <3>1 DEF ReviewSound
    <3>3. reviewing[j] # r
      BY <1>2, <2>2
    <3>4. Exists(reviewing[j])' /\ ScoreAt(reviewing[j])' = ScoreAt(reviewing[j])
      BY <1>8, <3>1, <3>2, <3>3 DEF Exists, ScoreAt
    <3>5. \A k \in Appeals : reviewing'[k] = reviewing'[j] => k = j
      BY <1>6, <3>1, <3>2
    <3> QED
      BY <3>1, <3>2, <3>4, <3>5
  <2> QED
    BY <2>1, <2>2
<1>10. \A m \in DOMAIN ledger : ledger[m].appeal \in Appeals \ {i}
  BY <1>t, <1>2, <1>5 DEF AppealsOnce, Entry, Undecided
<1>11. AppealsOnce'
  <2> DEFINE There(q) == q \in Rows /\ q[2] \in DOMAIN finals'[q[1]]
  <2>0. \A q : Exists(q) => There(q)
    BY <1>8 DEF Exists
  <2> HIDE DEF There
  <2>1. ASSUME NEW m \in DOMAIN ledger'
        PROVE  /\ There(ledger'[m].row) /\ appeal'[ledger'[m].appeal] \in {"score_adjusted", "closed"}
               /\ \A n \in DOMAIN ledger' : ledger'[n].appeal = ledger'[m].appeal => n = m
    <3>1. CASE m = last
      BY <1>2, <1>5, <1>6, <2>0, <1>10, <1>e, <3>1
    <3>2. CASE m \in DOMAIN ledger
      <4>1. /\ Exists(ledger[m].row) /\ appeal[ledger[m].appeal] \in {"score_adjusted", "closed"}
            /\ \A n \in DOMAIN ledger : ledger[n].appeal = ledger[m].appeal => n = m
        BY <1>t, <3>2 DEF AppealsOnce
      <4>2. There(ledger'[m].row)
        BY <1>5, <2>0, <3>2, <4>1
      <4>3. appeal'[ledger'[m].appeal] \in {"score_adjusted", "closed"}
        BY <1>5, <1>6, <1>10, <3>2, <4>1
      <4>4. \A n \in DOMAIN ledger' : ledger'[n].appeal = ledger'[m].appeal => n = m
        BY <1>5, <1>10, <1>e, <3>2, <4>1
      <4> QED
        BY <4>2, <4>3, <4>4
    <3> QED
      BY <1>5, <3>1, <3>2
  <2> QED
    BY <2>1 DEF AppealsOnce, Exists, There
<1>12. ASSUME NEW m \in DOMAIN ledger' PROVE Linked(m)'
  <2>1. CASE m = last
    <3>1. Later(m)' = {}
      BY <1>5, <2>1 DEF Later
    <3>2. ledger'[m].row = r /\ ledger'[m].adjusted = x
      BY <1>5, <1>e, <2>1
    <3> QED
      BY <1>4, <3>1, <3>2 DEF Linked, g, AdjustedTo
  <2>2. CASE m \in DOMAIN ledger /\ ledger[m].row # r
    <3>1. Later(m)' = Later(m)
      BY <1>5, <1>e, <2>2 DEF Later
    <3>2. Linked(m) /\ Exists(ledger[m].row) /\ ledger'[m] = ledger[m] /\ Later(m) \subseteq DOMAIN ledger
      BY <1>t, <1>5, <2>2 DEF AppealsOnce, Later
    <3>3. finals'[ledger[m].row[1]][ledger[m].row[2]] = finals[ledger[m].row[1]][ledger[m].row[2]]
      BY <1>8, <2>2, <3>2
    <3>4. CASE Later(m) = {}
      BY <3>1, <3>2, <3>3, <3>4 DEF Linked
    <3>5. CASE Later(m) # {}
      BY <1>5, <3>1, <3>2, <3>5 DEF Linked
    <3> QED
      BY <3>4, <3>5
  <2>3. CASE m \in DOMAIN ledger /\ ledger[m].row = r
    <3>1. Later(m)' = Later(m) \cup {last}
      BY <1>5, <1>e, <2>3 DEF Later
    <3>2. Linked(m) /\ ledger'[m] = ledger[m] /\ Later(m) \subseteq DOMAIN ledger
      BY <1>t, <1>5, <2>3 DEF Later
    <3>3. \A k \in Later(m) : k <= last
      BY <1>5, <3>2
    <3>4. CASE Later(m) = {}
      <4>1. finals[r[1]][r[2]] = [score |-> ledger[m].adjusted, status |-> "locked"]
        BY <2>3, <3>2, <3>4 DEF Linked
      <4>2. ledger'[last].previous = ledger'[m].adjusted
        BY <1>2, <1>5, <1>e, <3>2, <4>1 DEF ScoreAt
      <4>3. Later(m)' = {last} /\ last \in Nat
        BY <1>5, <3>1, <3>4
      <4> QED
        BY <4>2, <4>3 DEF Linked
    <3>5. CASE Later(m) # {}
      <4>1. PICK n \in Later(m) : (\A k \in Later(m) : n <= k) /\ ledger[n].previous = ledger[m].adjusted
        BY <3>2, <3>5 DEF Linked
      <4>2. \A k \in Later(m)' : n <= k
        BY <3>1, <3>3, <4>1
      <4>3. n \in Later(m)' /\ ledger'[n].previous = ledger'[m].adjusted
        BY <1>5, <3>1, <3>2, <4>1
      <4> QED
        BY <4>2, <4>3 DEF Linked
    <3> QED
      BY <3>4, <3>5
  <2> QED
    BY <1>5, <2>1, <2>2, <2>3
<1>13. Covered'
  <2> SUFFICES ASSUME Published PROVE RosterSettled' /\ HasLockedGrades' /\ \A a \in Answers : finals'[a] # <<>>
    BY <1>1 DEF Covered, Published
  <2>1. RosterSettled'
    BY <1>t, <1>1 DEF Covered, RosterSettled
  <2>2. HasLockedGrades'
    BY <1>t, <1>1 DEF Typed, HasLockedGrades
  <2>3. ASSUME NEW a \in Answers PROVE finals'[a] # <<>>
    <3>1. finals[a] # <<>> /\ finals[a] \in Seq(Final) /\ finals'[a] \in Seq(Final) /\ Len(finals'[a]) = Len(finals[a])
      BY <1>t, <1>4 DEF Covered, Typed
    <3> QED
      BY <3>1
  <2> QED
    BY <2>1, <2>2, <2>3
<1>14. \A a \in Answers : Len(finals[a]) <= Len(finals'[a])
  BY <1>4, <1>t DEF Typed
<1>15. Sound'
  BY <1>7, <1>9, <1>11, <1>12, <1>13 DEF Sound
<1> QED
  BY <1>1, <1>5, <1>14, <1>15

-----------------------------------------------------------------------------
(* What a publication rules out, of a step that is not an adjustment.      *)
Firm ==
  /\ attendance' = attendance /\ exam' = exam
  /\ \A a \in Answers : Len(finals[a]) <= Len(finals'[a])
  /\ \/ Len(ledger') = Len(ledger) + 1
     \/ /\ <<total, status>>' = <<total, status>>
        /\ \A a \in Answers : \A n \in DOMAIN finals[a] : finals'[a][n] = finals[a][n]

LEMMA BookFirm == ASSUME Sound, BookStays PROVE Firm
  BY DEF Sound, Typed, BookStays, Firm

LEMMA MarkFirm ==
  ASSUME Sound, NEW a \in Answers, Appoint(a) \/ Mark(a) PROVE Firm
<1>1. RowsKept /\ UNCHANGED <<total, status, exam, attendance>>
  BY MarkSound
<1>2. ASSUME NEW b \in Answers, NEW n \in DOMAIN finals[b] PROVE finals'[b][n] = finals[b][n]
  <2>1. finals \in [Answers -> Seq(Final)] /\ finals[b] \in Seq(Final)
    BY DEF Sound, Typed
  <2>2. finals' = finals \/ \E g : finals' = [finals EXCEPT ![a] = Append(@, g)]
    BY DEF Appoint, Mark, SubmitSingle, PassRule, SettlePair
  <2>3. ASSUME NEW g, finals' = [finals EXCEPT ![a] = Append(@, g)] PROVE finals'[b][n] = finals[b][n]
    <3>1. CASE b # a
      BY <2>1, <2>3, <3>1
    <3>2. CASE b = a
      <4>1. finals'[b] = Append(finals[b], g)
        BY <2>1, <2>3, <3>2
      <4> QED
        BY <2>1, <4>1
    <3> QED
      BY <3>1, <3>2
  <2> QED
    BY <2>2, <2>3
<1> QED
  BY <1>1, <1>2 DEF Firm, RowsKept

LEMMA NextSound ==
  ASSUME Sound, [Next]_vars PROVE Sound' /\ (Published => Firm)
<1>1. ASSUME UNCHANGED vars PROVE Sound' /\ (Published => Firm)
  <2>1. BookStays /\ UNCHANGED <<appeal, reviewing, saw>>
    BY <1>1 DEF vars, BookStays, appealVars, txVars
  <2>2. RowsKept /\ Covered' /\ Typed'
    BY <2>1, BookStaysSound DEF Sound, Typed, BookStays
  <2>3. Sound'
    BY <2>1, <2>2, QuietSound DEF BookStays
  <2> QED
    BY <2>1, <2>3, BookFirm
<1>2. ASSUME NEW a \in Answers, Appoint(a) \/ Mark(a) PROVE Sound' /\ Firm
  BY <1>2, MarkSound, MarkFirm
<1>3. ASSUME FinalizeExam \/ ConfirmGrades \/ PublishGrades PROVE Sound' /\ ~Published
  BY <1>3, FinalizeSound, ConfirmSound, PublishSound
<1>4. ASSUME NEW p \in Students, NEW how \in {"expected", "absent"}, SetAttendance(p, how)
      PROVE  Sound' /\ ~Published
  BY <1>4, AttendanceSound
<1>5. ASSUME NEW i \in Appeals, NEW r \in RowsOf(subject[i]), CreateAppeal(i, r) \/ LockFinal(i, r)
      PROVE  Sound' /\ Firm
  BY <1>5, FileSound, LockFinalSound, BookFirm
<1>6. ASSUME NEW i \in Appeals,
             CreateAppeal(i, NoRow) \/ AssignAppeal(i) \/ CloseAppeal(i) \/ AbortReview(i)
               \/ \E next \in Handled : ReviewAppeal(i, next)
      PROVE  Sound' /\ Firm
  BY <1>6, FileSound, DecideSound, AbortSound, BookFirm
<1>7. ASSUME NEW i \in Appeals, NEW x \in Scores, Adjust(i, x) PROVE Sound' /\ Firm
  BY <1>7, AdjustSound DEF Firm
<1> QED
  BY <1>1, <1>2, <1>3, <1>4, <1>5, <1>6, <1>7 DEF Next

(* Every reachable state is sound.                                         *)
LEMMA AlwaysSound == Spec => []Sound
  BY InitSound, NextSound, PTL DEF Spec

-----------------------------------------------------------------------------
(* Sums.  Sum is a fold that picks the elements of a finite set in an      *)
(* order of its own; what follows says that the order does not matter.     *)

(* Induction over the naturals, for a set. *)
LEMMA NatSet ==
  ASSUME NEW T \in SUBSET Nat, 0 \in T, \A n \in T : n + 1 \in T
  PROVE  T = Nat
<1> DEFINE R == OpToRel(<, Nat)
           Missing == Nat \ T
<1>1. IsWellFoundedOn(R, Nat)
  BY NatLessThanWellFounded
<1>2. \A i, j \in Nat : i < j => <<i, j>> \in R
  BY DEF OpToRel
<1> HIDE DEF R
<1>3. SUFFICES ASSUME Missing # {} PROVE FALSE
  OBVIOUS
<1>4. PICK m \in Missing : \A k \in Missing : <<k, m>> \notin R
  <2>1. Missing \subseteq Nat
    OBVIOUS
  <2> HIDE DEF Missing
  <2> QED
    BY <1>1, <1>3, <2>1, WFMin
<1>5. m - 1 \in Nat /\ m - 1 < m
  BY <1>4
<1>6. m - 1 \in T
  BY <1>2, <1>4, <1>5
<1> QED
  BY <1>4, <1>5, <1>6

(* Induction over the subsets of a finite set. *)
LEMMA SubsetInduction ==
  ASSUME NEW S, IsFiniteSet(S), NEW T \in SUBSET (SUBSET S),
         \A s \in SUBSET S : (\A x \in s : s \ {x} \in T) => s \in T
  PROVE  T = SUBSET S
<1> DEFINE R == OpToRel(<, Nat)
           Sizes == {n \in Nat : \E s \in SUBSET S : s \notin T /\ Cardinality(s) = n}
<1>1. IsWellFoundedOn(R, Nat)
  BY NatLessThanWellFounded
<1>r. \A i, j \in Nat : i < j => <<i, j>> \in R
  BY DEF OpToRel
<1> HIDE DEF R
<1>2. \A s \in SUBSET S : IsFiniteSet(s) /\ Cardinality(s) \in Nat
  BY FS_Subset, FS_CardinalityType
<1>3. Sizes = {}
  <2>1. SUFFICES ASSUME Sizes # {} PROVE FALSE
    OBVIOUS
  <2>2. PICK n \in Sizes : \A m \in Sizes : <<m, n>> \notin R
    <3>1. Sizes \subseteq Nat
      OBVIOUS
    <3> HIDE DEF Sizes
    <3> QED
      BY <1>1, <2>1, <3>1, WFMin
  <2>3. PICK s \in SUBSET S : s \notin T /\ Cardinality(s) = n
    BY <2>2
  <2>4. PICK x \in s : s \ {x} \notin T
    BY <2>3
  <2>5. Cardinality(s \ {x}) = n - 1 /\ Cardinality(s \ {x}) \in Nat /\ n \in Nat
    BY <1>2, <2>2, <2>3, FS_RemoveElement
  <2>6. n - 1 \in Sizes /\ n - 1 < n
    BY <2>4, <2>5
  <2> HIDE DEF Sizes
  <2> QED
    BY <1>r, <2>2, <2>5, <2>6
<1> QED
  BY <1>2, <1>3

(* The recursion by which Sum is defined, for the sums of all subsets. *)
Picked(s) == CHOOSE x \in s : TRUE
Others(s) == s \ {Picked(s)}
Sums(g, f, S) ==
  /\ g \in [SUBSET S -> Int]
  /\ \A s \in SUBSET S : g[s] = IF s = {} THEN 0 ELSE f[Picked(s)] + g[Others(s)]

LEMMA PickedIsIn == \A s : s # {} => Picked(s) \in s
BY DEF Picked

LEMMA SumsExist ==
  ASSUME NEW S, IsFiniteSet(S), NEW f \in [S -> Int]
  PROVE  \E g : Sums(g, f, S)
<1> DEFINE Upto(n) == {s \in SUBSET S : Cardinality(s) <= n}
           Good(g, n) == /\ g \in [SUBSET S -> Int]
                         /\ \A s \in Upto(n) : g[s] = IF s = {} THEN 0 ELSE f[Picked(s)] + g[Others(s)]
           T == {n \in Nat : \E g : Good(g, n)}
<1>1. \A s \in SUBSET S : IsFiniteSet(s) /\ Cardinality(s) \in Nat /\ Cardinality(s) <= Cardinality(S)
  BY FS_Subset, FS_CardinalityType
<1>2. \A s \in SUBSET S : s # {} => /\ Picked(s) \in S /\ Others(s) \in SUBSET S
                                    /\ Cardinality(Others(s)) = Cardinality(s) - 1
  BY <1>1, PickedIsIn, FS_RemoveElement DEF Others
<1>3. 0 \in T
  <2> DEFINE g == [s \in SUBSET S |-> 0]
  <2>1. g \in [SUBSET S -> Int]
    OBVIOUS
  <2>2. \A s \in Upto(0) : s = {} /\ g[s] = 0
    BY <1>1, FS_EmptySet
  <2>3. Good(g, 0)
    BY <2>1, <2>2
  <2> HIDE DEF g, Good
  <2> QED
    BY <2>3
<1>4. ASSUME NEW n \in T PROVE n + 1 \in T
  <2>1. PICK g : Good(g, n)
    OBVIOUS
  <2> DEFINE h == [s \in SUBSET S |-> IF s = {} THEN 0 ELSE f[Picked(s)] + g[Others(s)]]
  <2>2. h \in [SUBSET S -> Int]
    BY <1>2, <2>1
  <2>3. ASSUME NEW s \in Upto(n + 1) PROVE h[s] = IF s = {} THEN 0 ELSE f[Picked(s)] + h[Others(s)]
    <3>1. CASE s # {}
      <4>1. Others(s) \in Upto(n)
        BY <1>1, <1>2, <3>1
      <4>2. h[Others(s)] = g[Others(s)]
        BY <2>1, <4>1
      <4> QED
        BY <3>1, <4>2
    <3> QED
      BY <3>1
  <2>4. Good(h, n + 1)
    BY <2>2, <2>3
  <2> HIDE DEF h, Good
  <2> QED
    BY <2>4
<1>5. Cardinality(S) \in T
  <2>1. T = Nat
    <3> HIDE DEF T
    <3>1. T \in SUBSET Nat
      BY DEF T
    <3> QED
      BY <1>3, <1>4, <3>1, NatSet
  <2> HIDE DEF T
  <2> QED
    BY <2>1, FS_CardinalityType
<1>6. PICK g : Good(g, Cardinality(S))
  BY <1>5
<1>7. \A s \in SUBSET S : s \in Upto(Cardinality(S))
  BY <1>1
<1> QED
  BY <1>6, <1>7 DEF Sums

(* Any element may be taken out of a sum first. *)
Splits(g, f, S) == \A s \in SUBSET S : \A x \in s : g[s] = f[x] + g[s \ {x}]

LEMMA SumsSplit ==
  ASSUME NEW S, IsFiniteSet(S), NEW f \in [S -> Int], NEW g, Sums(g, f, S)
  PROVE  Splits(g, f, S)
<1> DEFINE T == {s \in SUBSET S : \A x \in s : g[s] = f[x] + g[s \ {x}]}
<1>1. T \in SUBSET (SUBSET S)
  OBVIOUS
<1>2. ASSUME NEW s \in SUBSET S, \A x \in s : s \ {x} \in T PROVE s \in T
  <2> SUFFICES ASSUME NEW x \in s PROVE g[s] = f[x] + g[s \ {x}]
    OBVIOUS
  <2> DEFINE y == Picked(s)
  <2>1. y \in s /\ g[s] = f[y] + g[s \ {y}]
    BY PickedIsIn DEF Sums, Others
  <2> HIDE DEF y
  <2>2. CASE x # y
    <3>1. g[s \ {y}] = f[x] + g[(s \ {y}) \ {x}]
      BY <1>2, <2>1, <2>2
    <3>2. g[s \ {x}] = f[y] + g[(s \ {x}) \ {y}]
      BY <1>2, <2>1, <2>2
    <3> DEFINE t == (s \ {x}) \ {y}
    <3>3. (s \ {y}) \ {x} = t /\ t \in SUBSET S
      OBVIOUS
    <3>4. f[x] \in Int /\ f[y] \in Int /\ g[t] \in Int
      BY <2>1, <3>3 DEF Sums
    <3> HIDE DEF t
    <3>5. g[s \ {y}] = f[x] + g[t]
      BY <3>1, <3>3
    <3>6. g[s \ {x}] = f[y] + g[t]
      BY <3>2 DEF t
    <3> QED
      BY <2>1, <3>4, <3>5, <3>6
  <2> QED
    BY <2>1, <2>2
<1>3. T = SUBSET S
  <2> HIDE DEF T
  <2> QED
    BY <1>1, <1>2, SubsetInduction
<1> QED
  BY <1>3 DEF Splits

LEMMA SumIs ==
  ASSUME NEW S, IsFiniteSet(S), NEW f \in [S -> Int], NEW g, Sums(g, f, S)
  PROVE  Sum(f) = g[S]
<1> DEFINE Eqn(h) == h = [s \in SUBSET S |-> IF s = {} THEN 0 ELSE f[Picked(s)] + h[Others(s)]]
<1>1. Sum(f) = (CHOOSE h : Eqn(h))[S]
  BY DEF Sum, FoldFunctionOnSet, MapThenFoldSet, Picked, Others
<1>2. Eqn(g)
  BY DEF Sums
<1> DEFINE k == CHOOSE h : Eqn(h)
<1>3. Eqn(k)
  BY <1>2
<1> HIDE DEF k
<1>4. \A s \in SUBSET S : k[s] = IF s = {} THEN 0 ELSE f[Picked(s)] + k[Others(s)]
  BY <1>3
<1> DEFINE T == {s \in SUBSET S : g[s] = k[s]}
<1>5. ASSUME NEW s \in SUBSET S, \A x \in s : s \ {x} \in T PROVE s \in T
  <2>1. CASE s = {}
    BY <1>4, <2>1 DEF Sums
  <2>2. CASE s # {}
    BY <1>4, <1>5, <2>2, PickedIsIn DEF Sums, Others
  <2> QED
    BY <2>1, <2>2
<1>6. T = SUBSET S
  <2>1. T \in SUBSET (SUBSET S)
    OBVIOUS
  <2> HIDE DEF T
  <2> QED
    BY <1>5, <2>1, SubsetInduction
<1>7. k[S] = g[S]
  BY <1>6
<1> QED
  BY <1>1, <1>7 DEF k

LEMMA SumEmpty == ASSUME NEW f \in [{} -> Int] PROVE Sum(f) = 0
<1>1. IsFiniteSet({})
  BY FS_EmptySet
<1>2. PICK g : Sums(g, f, {})
  BY <1>1, SumsExist
<1> QED
  BY <1>1, <1>2, SumIs DEF Sums

(* A function without one of its arguments. *)
Without(f, x) == [y \in DOMAIN f \ {x} |-> f[y]]

LEMMA SumSplit ==
  ASSUME NEW S, IsFiniteSet(S), NEW f \in [S -> Int], NEW x \in S
  PROVE  /\ Sum(f) \in Int
         /\ Sum(f) = f[x] + Sum(Without(f, x))
<1>1. PICK g : Sums(g, f, S)
  BY SumsExist
<1>2. Sum(f) = g[S]
  BY <1>1, SumIs
<1>3. g[S] = f[x] + g[S \ {x}]
  <2>1. Splits(g, f, S)
    BY <1>1, SumsSplit
  <2> QED
    BY <2>1 DEF Splits
<1> DEFINE r == Without(f, x)
           h == [s \in SUBSET (S \ {x}) |-> g[s]]
<1>4. r \in [S \ {x} -> Int] /\ IsFiniteSet(S \ {x}) /\ \A y \in S \ {x} : r[y] = f[y]
  BY FS_RemoveElement DEF Without
<1>5. Sums(h, r, S \ {x})
  <2>1. h \in [SUBSET (S \ {x}) -> Int]
    BY <1>1 DEF Sums
  <2>2. ASSUME NEW s \in SUBSET (S \ {x}), s # {} PROVE h[s] = r[Picked(s)] + h[Others(s)]
    <3>1. s \in SUBSET S /\ Picked(s) \in S \ {x} /\ Others(s) \in SUBSET (S \ {x})
      BY <2>2, PickedIsIn DEF Others
    <3> QED
      BY <1>1, <1>4, <2>2, <3>1 DEF Sums
  <2>3. {} \in SUBSET (S \ {x}) /\ h[{}] = 0
    BY <1>1 DEF Sums
  <2> QED
    BY <2>1, <2>2, <2>3 DEF Sums
<1>6. Sum(f) = g[S] /\ g[S] = f[x] + g[S \ {x}] /\ g[S] \in Int
  BY <1>1, <1>2, <1>3 DEF Sums
<1>7. h[S \ {x}] = g[S \ {x}]
  OBVIOUS
<1> HIDE DEF h, r
<1>8. Sum(r) = h[S \ {x}]
  BY <1>4, <1>5, SumIs
<1> QED
  BY <1>6, <1>7, <1>8 DEF r

LEMMA SumInt ==
  ASSUME NEW S, IsFiniteSet(S), NEW f \in [S -> Int]
  PROVE  Sum(f) \in Int /\ (f \in [S -> Nat] => Sum(f) \in Nat)
<1>1. PICK g : Sums(g, f, S)
  BY SumsExist
<1> DEFINE T == {s \in SUBSET S : g[s] >= 0}
<1>2. Sum(f) = g[S] /\ g[S] \in Int
  BY <1>1, SumIs DEF Sums
<1>3. ASSUME f \in [S -> Nat], NEW s \in SUBSET S, \A x \in s : s \ {x} \in T PROVE s \in T
  <2>1. CASE s = {}
    BY <1>1, <2>1 DEF Sums
  <2>2. CASE s # {}
    <3>1. Picked(s) \in s /\ g[s] = f[Picked(s)] + g[s \ {Picked(s)}]
      BY <1>1, <2>2, PickedIsIn DEF Sums, Others
    <3>2. g[s \ {Picked(s)}] \in Int /\ g[s \ {Picked(s)}] >= 0
      BY <1>1, <1>3, <3>1 DEF Sums
    <3>3. f[Picked(s)] \in Nat
      BY <1>3, <3>1
    <3> QED
      BY <3>1, <3>2, <3>3
  <2> QED
    BY <2>1, <2>2
<1>4. ASSUME f \in [S -> Nat] PROVE T = SUBSET S
  <2>1. T \in SUBSET (SUBSET S)
    OBVIOUS
  <2> HIDE DEF T
  <2> QED
    BY <1>3, <1>4, <2>1, SubsetInduction
<1> QED
  BY <1>2, <1>4

(* What one change of a function does to its sum. *)
LEMMA SumChange ==
  ASSUME NEW S, IsFiniteSet(S), NEW f \in [S -> Int], NEW g \in [S -> Int], NEW x \in S,
         \A y \in S \ {x} : g[y] = f[y]
  PROVE  Sum(g) = Sum(f) + (g[x] - f[x])
<1>1. /\ Without(f, x) = Without(g, x) /\ Without(f, x) \in [S \ {x} -> Int]
      /\ IsFiniteSet(S \ {x})
  BY FS_RemoveElement DEF Without
<1>2. Sum(f) = f[x] + Sum(Without(f, x))
  BY SumSplit
<1>3. Sum(g) = g[x] + Sum(Without(g, x))
  BY SumSplit
<1>4. Sum(Without(f, x)) \in Int
  BY <1>1, SumInt
<1> QED
  BY <1>1, <1>2, <1>3, <1>4

LEMMA SumExtend ==
  ASSUME NEW S, IsFiniteSet(S), NEW f \in [S -> Int], NEW x, x \notin S,
         NEW g \in [S \cup {x} -> Int], \A y \in S : g[y] = f[y]
  PROVE  Sum(g) = Sum(f) + g[x]
<1> DEFINE T == S \cup {x}
<1>1. IsFiniteSet(T) /\ x \in T /\ g \in [T -> Int]
  BY FS_AddElement
<1>2. Without(g, x) = f
  <2>1. DOMAIN g \ {x} = S
    OBVIOUS
  <2> QED
    BY <2>1 DEF Without
<1> HIDE DEF T
<1>3. Sum(g) = g[x] + Sum(Without(g, x))
  BY <1>1, SumSplit
<1>4. Sum(f) \in Int
  BY SumInt
<1> QED
  BY <1>1, <1>2, <1>3, <1>4

LEMMA SumZero ==
  ASSUME NEW S, IsFiniteSet(S), NEW f \in [S -> Int], \A x \in S : f[x] = 0
  PROVE  Sum(f) = 0
<1>1. PICK g : Sums(g, f, S)
  BY SumsExist
<1> DEFINE T == {s \in SUBSET S : g[s] = 0}
<1>2. ASSUME NEW s \in SUBSET S, \A x \in s : s \ {x} \in T PROVE s \in T
  <2>1. CASE s = {}
    BY <1>1, <2>1 DEF Sums
  <2>2. CASE s # {}
    <3>1. Picked(s) \in s /\ g[s] = f[Picked(s)] + g[s \ {Picked(s)}]
      BY <1>1, <2>2, PickedIsIn DEF Sums, Others
    <3>2. g[s \ {Picked(s)}] = 0 /\ f[Picked(s)] = 0
      BY <1>2, <3>1
    <3> QED
      BY <3>1, <3>2
  <2> QED
    BY <2>1, <2>2
<1>3. T = SUBSET S
  <2>1. T \in SUBSET (SUBSET S)
    OBVIOUS
  <2> HIDE DEF T
  <2> QED
    BY <1>2, <2>1, SubsetInduction
<1>4. g[S] = 0
  BY <1>3
<1> QED
  BY <1>1, <1>4, SumIs

-----------------------------------------------------------------------------
(* The two sums of which a total is made: what counts of the paper, and    *)
(* what was changed elsewhere.                                             *)
Counted(s) == {a \in AnswersOf(s) : counted[a] > 0}
Standing(s) == [a \in Counted(s) |-> finals[a][counted[a]].score]
Stray(s) == [n \in DOMAIN ledger |-> StrayDelta(n, s)]

(* The books, and what keeps them: nobody appeals before there is a total, *)
(* a reviewer changes the paper the appeal is about, and once scores are   *)
(* adjusted nothing is added up again.                                     *)
Audited ==
  /\ total \in [Submissions -> Nat] /\ counted \in [Answers -> Nat]
  /\ \A a \in Answers : counted[a] <= Len(finals[a])
  /\ ledger # <<>> => HasLockedGrades
  /\ \A n \in DOMAIN ledger : ledger[n].previous \in Scores
  /\ \A i \in Appeals : appeal[i] # "none" => Rated(subject[i])
  /\ \A i \in Appeals : reviewing[i] # NoRow => reviewing[i][1][1] = subject[i]
  /\ BooksBalance

LEMMA Balancing ==
  BooksBalance <=> \A s \in Submissions : Rated(s) => total[s] = Sum(Standing(s)) + Sum(Stray(s))
BY DEF BooksBalance, Standing, Stray, Counted

LEMMA FinitePaper ==
  ASSUME NEW s \in Submissions
  PROVE  AnswersOf(s) \subseteq Answers /\ IsFiniteSet(AnswersOf(s))
<1>1. IsFiniteSet({s}) /\ IsFiniteSet(Questions)
  BY ConstantsOK, FS_Singleton DEF ConstantsOK
<1>2. IsFiniteSet({s} \X Questions)
  BY <1>1, FS_Product
<1> QED
  BY <1>2 DEF AnswersOf, Answers

LEMMA ScoreOfRow ==
  ASSUME NEW rows \in Seq(Final), NEW n \in 1..Len(rows)
  PROVE  rows[n].score \in Scores /\ rows[n].score \in Nat
<1>1. rows[n] \in Final
  OBVIOUS
<1> QED
  BY <1>1, ConstantsOK DEF Final, ConstantsOK

(* The sums are sums of integers over finite sets.                         *)
LEMMA SumsTyped ==
  ASSUME Sound, Audited, NEW s \in Submissions
  PROVE  /\ Counted(s) \subseteq Answers /\ IsFiniteSet(Counted(s)) /\ IsFiniteSet(DOMAIN ledger)
         /\ Standing(s) \in [Counted(s) -> Int] /\ Stray(s) \in [DOMAIN ledger -> Int]
         /\ Sum(Standing(s)) \in Int /\ Sum(Stray(s)) \in Int
<1>t. Typed
  BY DEF Sound
<1>1. Counted(s) \subseteq AnswersOf(s) /\ Counted(s) \subseteq Answers /\ IsFiniteSet(Counted(s))
  BY FinitePaper, FS_Subset DEF Counted
<1>2. ledger \in Seq(Entry) /\ DOMAIN ledger = 1..Len(ledger) /\ Len(ledger) \in Nat
  BY <1>t DEF Typed
<1>3. IsFiniteSet(DOMAIN ledger)
  BY <1>2, FS_Interval
<1>4. Standing(s) \in [Counted(s) -> Int]
  <2>1. ASSUME NEW a \in Counted(s) PROVE finals[a][counted[a]].score \in Int
    <3>1. a \in Answers /\ counted[a] \in Nat /\ counted[a] > 0 /\ counted[a] <= Len(finals[a])
      BY <1>1 DEF Counted, Audited
    <3>2. finals[a] \in Seq(Final) /\ Len(finals[a]) \in Nat
      BY <1>t, <3>1 DEF Typed
    <3>3. counted[a] \in 1..Len(finals[a])
      BY <3>1, <3>2
    <3> QED
      BY <3>2, <3>3, ScoreOfRow
  <2> QED
    BY <2>1 DEF Standing
<1>5. Stray(s) \in [DOMAIN ledger -> Int]
  <2>1. ASSUME NEW n \in DOMAIN ledger PROVE StrayDelta(n, s) \in Int
    <3>1. ledger[n] \in Entry
      BY <1>2
    <3>s. Scores \subseteq Nat
      BY ConstantsOK DEF ConstantsOK
    <3>2. ledger[n].adjusted \in Scores /\ ledger[n].previous \in Nat
      BY <3>1 DEF Entry
    <3>3. ledger[n].adjusted \in Nat /\ ledger[n].previous \in Nat
      BY <3>s, <3>2
    <3>4. ledger[n].adjusted - ledger[n].previous \in Int /\ 0 \in Int
      BY <3>3
    <3> QED
      BY <3>4, Zenon DEF StrayDelta
  <2> QED
    BY <2>1 DEF Stray
<1>6. Sum(Standing(s)) \in Int
  BY <1>1, <1>4, SumInt
<1>7. Sum(Stray(s)) \in Int
  BY <1>3, <1>5, SumInt
<1> QED
  BY <1>1, <1>3, <1>4, <1>5, <1>6, <1>7

LEMMA InitAudited == Init => Audited
<1> SUFFICES ASSUME Init PROVE Audited
  OBVIOUS
<1>1. total \in [Submissions -> Nat] /\ counted \in [Answers -> Nat]
  BY DEF Init
<1>2. \A a \in Answers : counted[a] <= Len(finals[a])
  BY DEF Init
<1>3. ledger = <<>> /\ BooksBalance
  BY DEF Init, BooksBalance, Rated
<1>4. \A i \in Appeals : appeal[i] = "none" /\ reviewing[i] = NoRow
  BY DEF Init
<1> QED
  BY <1>1, <1>2, <1>3, <1>4 DEF Audited

-----------------------------------------------------------------------------
(* A step that keeps rows, and what has been made of them, keeps the sums. *)
LEMMA QuietSums ==
  ASSUME Sound, Audited, RowsKept, UNCHANGED <<ledger, counted>>, NEW s \in Submissions
  PROVE  Standing(s)' = Standing(s) /\ Stray(s)' = Stray(s)
<1>1. Counted(s)' = Counted(s) /\ Counted(s) \subseteq Answers
  BY FinitePaper DEF Counted
<1>2. ASSUME NEW a \in Counted(s) PROVE finals'[a][counted[a]].score = finals[a][counted[a]].score
  <2>1. a \in Answers /\ counted[a] \in Nat /\ counted[a] > 0 /\ counted[a] <= Len(finals[a])
    BY <1>1 DEF Counted, Audited
  <2>2. finals[a] \in Seq(Final)
    BY <2>1 DEF Sound, Typed
  <2>3. counted[a] \in DOMAIN finals[a]
    BY <2>1, <2>2
  <2> QED
    BY <2>1, <2>3 DEF RowsKept
<1>3. Standing(s)' = Standing(s)
  BY <1>1, <1>2 DEF Standing
<1>4. Stray(s)' = Stray(s)
  BY DEF Stray, StrayDelta, CountedRow
<1> QED
  BY <1>3, <1>4

(* Such a step, when totals stay and no rated paper becomes unrated.       *)
LEMMA QuietAudited ==
  ASSUME Sound, Audited, Sound', RowsKept, UNCHANGED <<total, subject, ledger, counted>>,
         \A s \in Submissions : Rated(s)' <=> Rated(s),
         HasLockedGrades => HasLockedGrades',
         \A i \in Appeals : appeal'[i] # "none" => appeal[i] # "none" \/ Rated(subject[i]),
         \A i \in Appeals : reviewing'[i] \notin {NoRow, reviewing[i]} => reviewing'[i][1][1] = subject[i]
  PROVE  Audited'
<1>1. total' \in [Submissions -> Nat] /\ counted' \in [Answers -> Nat]
  BY DEF Audited
<1>2. \A a \in Answers : counted'[a] <= Len(finals'[a])
  <2> SUFFICES ASSUME NEW a \in Answers PROVE counted[a] <= Len(finals'[a])
    OBVIOUS
  <2>1. counted[a] \in Nat /\ Len(finals[a]) \in Nat /\ Len(finals'[a]) \in Nat
    BY DEF Audited, Sound, Typed
  <2>2. counted[a] <= Len(finals[a]) /\ Len(finals[a]) <= Len(finals'[a])
    BY DEF Audited, RowsKept
  <2> QED
    BY <2>1, <2>2
<1>3. (ledger' # <<>> => HasLockedGrades') /\ \A n \in DOMAIN ledger' : ledger'[n].previous \in Scores
  BY DEF Audited
<1>4. ASSUME NEW i \in Appeals
      PROVE  /\ appeal'[i] # "none" => Rated(subject[i])'
             /\ reviewing'[i] # NoRow => reviewing'[i][1][1] = subject'[i]
  <2>1. subject[i] \in Submissions /\ subject' = subject
    BY DEF Sound, Typed
  <2>2. Rated(subject[i])' <=> Rated(subject[i])
    BY <2>1
  <2>3. /\ appeal[i] # "none" => Rated(subject[i])
        /\ reviewing[i] # NoRow => reviewing[i][1][1] = subject[i]
    BY DEF Audited
  <2> QED
    BY <2>1, <2>2, <2>3
<1>5. BooksBalance'
  <2>1. \A s \in Submissions : Standing(s)' = Standing(s) /\ Stray(s)' = Stray(s)
    BY QuietSums
  <2>2. \A s \in Submissions : Rated(s) => total[s] = Sum(Standing(s)) + Sum(Stray(s))
    BY Balancing DEF Audited
  <2>3. \A s \in Submissions : Rated(s)' => total'[s] = Sum(Standing(s)') + Sum(Stray(s)')
    BY <2>1, <2>2
  <2> QED
    BY <2>3 DEF BooksBalance, Standing, Stray, Counted
<1> QED
  BY <1>1, <1>2, <1>3, <1>4, <1>5 DEF Audited

LEMMA MarkAudited ==
  ASSUME Sound, Audited, NEW a \in Answers, Appoint(a) \/ Mark(a) PROVE Audited'
<1>1. /\ Sound' /\ RowsKept
      /\ UNCHANGED <<total, subject, ledger, counted, status, appeal, reviewing>>
  BY MarkSound DEF Appoint, Mark, SubmitSingle, PassRule, SettlePair, appealVars, txVars
<1> QED
  BY <1>1, QuietAudited DEF Rated, HasLockedGrades

LEMMA ConfirmAudited ==
  ASSUME Sound, Audited, ConfirmGrades \/ PublishGrades PROVE Audited'
<1>1. Sound' /\ RowsKept
  BY ConfirmSound, PublishSound
<1>2. /\ UNCHANGED <<total, subject, ledger, counted, appeal, reviewing>>
      /\ ~HasLockedGrades
  BY DEF ConfirmGrades, PublishGrades, appealVars, txVars, AllInStatus, HasLockedGrades, Rated
<1>3. ASSUME NEW s \in Submissions PROVE Rated(s)' <=> Rated(s)
  BY DEF ConfirmGrades, PublishGrades, Rated
<1> QED
  BY <1>1, <1>2, <1>3, QuietAudited

LEMMA AttendanceAudited ==
  ASSUME Sound, Audited, NEW p \in Students, NEW how \in {"expected", "absent"}, SetAttendance(p, how)
  PROVE  Audited'
<1>1. /\ Sound' /\ RowsKept
      /\ UNCHANGED <<total, subject, ledger, counted, status, appeal, reviewing>>
  BY AttendanceSound DEF SetAttendance, appealVars, txVars
<1> QED
  BY <1>1, QuietAudited DEF Rated, HasLockedGrades

(* Filing, deciding, locking and letting go leave the book as it is.       *)
LEMMA BookStaysAudited ==
  ASSUME Sound, Audited, Sound', BookStays,
         \A i \in Appeals : appeal'[i] # "none" => appeal[i] # "none" \/ Rated(subject[i]),
         \A i \in Appeals : reviewing'[i] \notin {NoRow, reviewing[i]} => reviewing'[i][1][1] = subject[i]
  PROVE  Audited'
<1>1. RowsKept
  BY BookStaysSound
<1>2. UNCHANGED <<total, subject, ledger, counted, status>>
  BY DEF BookStays
<1> QED
  BY <1>1, <1>2, QuietAudited DEF Rated, HasLockedGrades

LEMMA AppealAudited ==
  ASSUME Sound, Audited, NEW i \in Appeals,
         \/ \E r \in RowsOf(subject[i]) \cup {NoRow} : CreateAppeal(i, r)
         \/ AssignAppeal(i) \/ CloseAppeal(i) \/ AbortReview(i)
         \/ \E next \in Handled : ReviewAppeal(i, next)
         \/ \E r \in RowsOf(subject[i]) : LockFinal(i, r)
  PROVE  Audited'
<1>t. /\ appeal \in [Appeals -> AppealStatuses] /\ reviewing \in [Appeals -> Rows \cup {NoRow}]
      /\ subject \in [Appeals -> Submissions]
  BY DEF Sound, Typed
<1>1. ASSUME NEW r \in RowsOf(subject[i]) \cup {NoRow}, CreateAppeal(i, r) PROVE Audited'
  <2>1. Sound' /\ BookStays
    BY <1>1, FileSound
  <2>2. /\ status[subject[i]] = "published" /\ appeal' = [appeal EXCEPT ![i] = "submitted"]
        /\ UNCHANGED reviewing
    BY <1>1 DEF CreateAppeal, txVars
  <2>3. \A j \in Appeals : appeal'[j] # "none" => appeal[j] # "none" \/ Rated(subject[j])
    BY <1>t, <2>2 DEF Rated
  <2> QED
    BY <2>1, <2>2, <2>3, BookStaysAudited
<1>2. ASSUME AssignAppeal(i) \/ CloseAppeal(i) \/ \E next \in Handled : ReviewAppeal(i, next)
      PROVE  Audited'
  <2>1. Sound' /\ BookStays
    BY <1>2, DecideSound
  <2>2. /\ appeal[i] # "none" /\ \E next : appeal' = [appeal EXCEPT ![i] = next]
        /\ UNCHANGED reviewing
    BY <1>2 DEF AssignAppeal, CloseAppeal, ReviewAppeal, SetAppeal, Undecided, txVars
  <2>3. \A j \in Appeals : appeal'[j] # "none" => appeal[j] # "none" \/ Rated(subject[j])
    BY <1>t, <2>2
  <2> QED
    BY <2>1, <2>2, <2>3, BookStaysAudited
<1>3. ASSUME AbortReview(i) PROVE Audited'
  <2>1. Sound' /\ BookStays
    BY <1>3, AbortSound
  <2>2. UNCHANGED appeal /\ reviewing' = [reviewing EXCEPT ![i] = NoRow]
    BY <1>3 DEF AbortReview, EndReview, appealVars
  <2>3. \A j \in Appeals : reviewing'[j] \in {NoRow, reviewing[j]}
    BY <1>t, <2>2
  <2> QED
    BY <2>1, <2>2, <2>3, BookStaysAudited
<1>4. ASSUME NEW r \in RowsOf(subject[i]), LockFinal(i, r) PROVE Audited'
  <2>1. Sound' /\ BookStays
    BY <1>4, LockFinalSound
  <2>2. UNCHANGED appeal /\ reviewing' = [reviewing EXCEPT ![i] = r]
    BY <1>4 DEF LockFinal, appealVars
  <2>3. r[1][1] = subject[i]
    <3>1. PICK a \in AnswersOf(subject[i]) : r \in {a} \X DOMAIN finals[a]
      BY DEF RowsOf
    <3>2. a[1] = subject[i]
      BY <3>1 DEF AnswersOf
    <3> QED
      BY <3>1, <3>2
  <2>4. \A j \in Appeals : reviewing'[j] \notin {NoRow, reviewing[j]} => reviewing'[j][1][1] = subject[j]
    BY <1>t, <2>2, <2>3
  <2> QED
    BY <2>1, <2>2, <2>4, BookStaysAudited
<1> QED
  BY <1>1, <1>2, <1>3, <1>4

(* Finalize adds up what there is; it is over before anything is adjusted. *)
LEMMA FinalizeAudited == ASSUME Sound, Audited, FinalizeExam PROVE Audited'
<1> DEFINE book == CreateFinals
           added == {s \in Submissions : \E a \in AnswersOf(s) : book[a] # <<>>}
           newest(s) == [a \in {b \in AnswersOf(s) : book[b] # <<>>} |-> Newest(book[a])]
<1>1. /\ ~HasLockedGrades /\ finals' = book
      /\ total' = [s \in Submissions |-> IF s \in added THEN Sum(newest(s)) ELSE total[s]]
      /\ status' = [s \in Submissions |-> IF s \in added THEN "pending_confirmation" ELSE status[s]]
      /\ counted' = [a \in Answers |-> Len(book[a])]
      /\ UNCHANGED <<appeal, subject, reviewing, ledger>>
  BY DEF FinalizeExam, SumNewest, appealVars, txVars
<1>2. Sound' /\ RowsKept
  BY FinalizeSound
<1>3. ledger = <<>>
  BY <1>1 DEF Audited
<1>4. book \in [Answers -> Seq(Final)] /\ finals \in [Answers -> Seq(Final)]
  BY <1>1, <1>2 DEF Sound, Typed
<1> HIDE DEF book
<1>5. ASSUME NEW a \in Answers
      PROVE  /\ counted'[a] \in Nat /\ counted'[a] = Len(book[a])
             /\ counted'[a] > 0 <=> book[a] # <<>>
  BY <1>1, <1>4
<1>6. ASSUME NEW s \in Submissions
      PROVE  /\ Standing(s)' = newest(s) /\ Sum(newest(s)) \in Nat
             /\ s \notin added => Sum(newest(s)) = 0
  <2> DEFINE S == {b \in AnswersOf(s) : book[b] # <<>>}
  <2>1. S \subseteq Answers /\ IsFiniteSet(S)
    BY FinitePaper, FS_Subset
  <2>2. Counted(s)' = S
    BY <1>5, FinitePaper DEF Counted
  <2>3. ASSUME NEW a \in S PROVE book[a][counted'[a]].score = Newest(book[a]) /\ Newest(book[a]) \in Nat
    <3>1. a \in Answers /\ book[a] # <<>> /\ book[a] \in Seq(Final)
      BY <1>4, <2>1
    <3>2. Len(book[a]) \in 1..Len(book[a])
      BY <3>1
    <3> QED
      BY <1>5, <3>1, <3>2, ScoreOfRow DEF Newest
  <2>4. Standing(s)' = newest(s)
    BY <1>1, <2>2, <2>3 DEF Standing
  <2>5. newest(s) \in [S -> Nat] /\ newest(s) \in [S -> Int]
    BY <2>3
  <2>6. s \notin added => newest(s) \in [{} -> Int]
    BY <2>5
  <2> HIDE DEF newest, S
  <2>7. Sum(newest(s)) \in Nat
    BY <2>1, <2>5, SumInt
  <2> QED
    BY <2>4, <2>6, <2>7, SumEmpty
<1>7. ASSUME NEW s \in Submissions PROVE Sum(Stray(s)) = 0 /\ Stray(s)' \in [{} -> Int]
  <2>1. DOMAIN ledger = {} /\ DOMAIN ledger' = {}
    BY <1>1, <1>3
  <2>2. Stray(s) \in [{} -> Int] /\ Stray(s)' \in [{} -> Int]
    BY <2>1 DEF Stray
  <2> QED
    BY <2>2, SumEmpty
<1>8. ASSUME NEW s \in Submissions, Rated(s), s \notin added PROVE total[s] = 0
  <2>1. ASSUME NEW a \in AnswersOf(s) PROVE ~(counted[a] > 0)
    <3>1. a \in Answers /\ book[a] = <<>>
      BY <1>8, FinitePaper
    <3>2. Len(finals[a]) <= 0 /\ Len(finals[a]) \in Nat
      BY <1>1, <1>2, <1>4, <3>1 DEF RowsKept
    <3>3. counted[a] \in Nat /\ counted[a] <= Len(finals[a])
      BY <3>1 DEF Audited
    <3> QED
      BY <3>2, <3>3
  <2>2. Standing(s) \in [{} -> Int]
    BY <2>1 DEF Standing, Counted
  <2>3. total[s] = Sum(Standing(s)) + Sum(Stray(s))
    BY <1>8, Balancing DEF Audited
  <2> QED
    BY <1>7, <2>2, <2>3, SumEmpty
<1>9. BooksBalance'
  <2>1. ASSUME NEW s \in Submissions, Rated(s)' PROVE total'[s] = Sum(Standing(s)') + Sum(Stray(s)')
    <3>1. Sum(Stray(s)') = 0
      BY <1>7, SumEmpty
    <3>2. total'[s] = Sum(newest(s))
      <4>1. CASE s \in added
        BY <1>1, <4>1
      <4>2. CASE s \notin added
        <5>1. total'[s] = total[s] /\ status'[s] = status[s]
          BY <1>1, <4>2
        <5>2. total[s] = 0
          BY <1>8, <2>1, <4>2, <5>1 DEF Rated
        <5> QED
          BY <1>6, <4>2, <5>1, <5>2
      <4> QED
        BY <4>1, <4>2
    <3>3. Sum(Standing(s)') = Sum(newest(s)) /\ Sum(newest(s)) \in Nat
      BY <1>6
    <3> HIDE DEF newest
    <3> QED
      BY <3>1, <3>2, <3>3
  <2> QED
    BY <2>1 DEF BooksBalance, Standing, Stray, Counted
<1>10. total' \in [Submissions -> Nat] /\ counted' \in [Answers -> Nat]
  <2>1. ASSUME NEW s \in Submissions PROVE total'[s] \in Nat
    BY <1>1, <1>6 DEF Audited
  <2> QED
    BY <1>1, <1>5, <2>1
<1>11. \A a \in Answers : counted'[a] <= Len(finals'[a])
  BY <1>1, <1>5
<1>12. ASSUME NEW i \in Appeals
       PROVE  /\ appeal'[i] # "none" => Rated(subject[i])'
              /\ reviewing'[i] # NoRow => reviewing'[i][1][1] = subject'[i]
  <2>1. subject[i] \in Submissions
    BY DEF Sound, Typed
  <2>2. Rated(subject[i]) => Rated(subject[i])'
    BY <1>1, <2>1 DEF Rated
  <2> QED
    BY <1>1, <2>2 DEF Audited
<1>13. (ledger' # <<>> => HasLockedGrades') /\ \A n \in DOMAIN ledger' : ledger'[n].previous \in Scores
  BY <1>1, <1>3
<1> QED
  BY <1>9, <1>10, <1>11, <1>12, <1>13 DEF Audited

(* An adjustment moves a total by as much as one of its two sums.          *)
LEMMA AdjustAudited ==
  ASSUME Sound, Audited, NEW i \in Appeals, NEW x \in Scores, Adjust(i, x) PROVE Audited'
<1> DEFINE r == reviewing[i]
           paper == subject[i]
           delta == x - saw[i]
           last == Len(ledger) + 1
           Moves(s) == IF s = paper /\ r = CountedRow(r[1]) THEN delta ELSE 0
           Strays(s) == IF s = paper /\ r # CountedRow(r[1]) THEN delta ELSE 0
<1>t. Typed /\ \A j \in Appeals : ReviewSound(j)
  BY DEF Sound
<1>1. /\ r # NoRow
      /\ total[paper] + delta \in 0..FullMarks(paper)
      /\ total' = [total EXCEPT ![paper] = @ + delta]
      /\ status' = [status EXCEPT ![paper] = "published"]
      /\ appeal' = [appeal EXCEPT ![i] = "score_adjusted"]
      /\ reviewing' = [reviewing EXCEPT ![i] = NoRow]
      /\ UNCHANGED <<subject, counted>>
  BY DEF Adjust, Delta, EndReview
<1>2. Exists(r) /\ saw[i] = ScoreAt(r) /\ appeal[i] \in Undecided
  BY <1>t, <1>1 DEF ReviewSound
<1>3. /\ r[1] \in Answers /\ r[2] \in DOMAIN finals[r[1]] /\ r = <<r[1], r[2]>>
      /\ finals[r[1]] \in Seq(Final)
  BY <1>t, <1>2, RowParts
<1>4. r[1][1] = paper /\ paper \in Submissions /\ r[1] \in AnswersOf(paper)
  <2>1. r[1][1] = paper /\ paper \in Submissions
    BY <1>t, <1>1 DEF Audited, Typed
  <2> QED
    BY <1>3, <2>1 DEF Answers, AnswersOf
<1>5. saw[i] \in Scores /\ saw[i] \in Nat /\ x \in Nat /\ delta \in Int
  <2>1. r[2] \in 1..Len(finals[r[1]])
    BY <1>3
  <2>2. ScoreAt(r) \in Scores /\ ScoreAt(r) \in Nat
    BY <1>3, <2>1, ScoreOfRow DEF ScoreAt
  <2>3. x \in Nat
    BY ConstantsOK DEF ConstantsOK
  <2> QED
    BY <1>2, <2>2, <2>3
<1>6. /\ finals'[r[1]][r[2]].score = x
      /\ \A a \in Answers :
           /\ Len(finals'[a]) = Len(finals[a])
           /\ \A n \in DOMAIN finals[a] : <<a, n>> # r => finals'[a][n] = finals[a][n]
  <2>1. /\ finals'[reviewing[i][1]][reviewing[i][2]] = AdjustedTo(x)
        /\ \A a \in Answers :
             /\ DOMAIN finals'[a] = DOMAIN finals[a] /\ Len(finals'[a]) = Len(finals[a])
             /\ \A n \in DOMAIN finals[a] : <<a, n>> # reviewing[i] => finals'[a][n] = finals[a][n]
    BY <1>t, <1>2, AdjustEffect
  <2>2. AdjustedTo(x).score = x
    BY DEF AdjustedTo
  <2> QED
    BY <2>1, <2>2
<1>7. /\ DOMAIN ledger' = DOMAIN ledger \cup {last} /\ last \notin DOMAIN ledger
      /\ ledger'[last].row = r /\ ledger'[last].previous = saw[i] /\ ledger'[last].adjusted = x
      /\ \A m \in DOMAIN ledger : ledger'[m] = ledger[m]
  <2>1. /\ DOMAIN ledger' = DOMAIN ledger \cup {Len(ledger) + 1}
        /\ Len(ledger) + 1 \notin DOMAIN ledger /\ ledger'[Len(ledger) + 1] = EntryOf(i, x)
        /\ \A m \in DOMAIN ledger : ledger'[m] = ledger[m] /\ ledger[m] \in Entry
    BY <1>t, <1>2, AdjustEffect
  <2>2. EntryOf(i, x).row = r /\ EntryOf(i, x).previous = saw[i] /\ EntryOf(i, x).adjusted = x
    BY DEF EntryOf
  <2> HIDE DEF r
  <2> QED
    BY <2>1, <2>2
<1> HIDE DEF r, paper, last
<1>8. ASSUME NEW s \in Submissions
      PROVE  Sum(Standing(s)') = Sum(Standing(s)) + Moves(s) /\ Sum(Standing(s)) \in Int
  <2>t. /\ Counted(s) \subseteq Answers /\ IsFiniteSet(Counted(s))
        /\ Standing(s) \in [Counted(s) -> Int] /\ Sum(Standing(s)) \in Int
    BY SumsTyped
  <2>1. Counted(s)' = Counted(s)
    BY <1>1 DEF Counted
  <2>2. ASSUME NEW a \in Counted(s), <<a, counted[a]>> # r PROVE Standing(s)'[a] = Standing(s)[a]
    <3>1. /\ a \in Answers /\ counted[a] \in Nat /\ counted[a] > 0 /\ counted[a] <= Len(finals[a])
          /\ finals[a] \in Seq(Final)
      BY <1>t, <2>t DEF Counted, Audited, Typed
    <3>2. counted[a] \in DOMAIN finals[a]
      BY <3>1
    <3>3. finals'[a][counted[a]] = finals[a][counted[a]]
      BY <1>6, <2>2, <3>1, <3>2
    <3> QED
      BY <1>1, <2>1, <3>3 DEF Standing
  <2>3. DOMAIN Standing(s)' = Counted(s) /\ Standing(s)' = [a \in Counted(s) |-> Standing(s)'[a]]
    BY <2>1 DEF Standing
  <2>4. CASE s = paper /\ r = CountedRow(r[1])
    <3>1. r[1] \in Counted(s) /\ counted[r[1]] = r[2]
      BY <1>3, <1>4, <2>4 DEF Counted, CountedRow
    <3>2. Standing(s)'[r[1]] = x /\ Standing(s)[r[1]] = saw[i]
      BY <1>1, <1>2, <1>6, <2>1, <3>1 DEF Standing, ScoreAt
    <3>3. \A a \in Counted(s) \ {r[1]} : Standing(s)'[a] = Standing(s)[a]
      BY <1>3, <2>2
    <3>4. Standing(s)' \in [Counted(s) -> Int]
      <4>1. \A a \in Counted(s) : Standing(s)'[a] \in Int
        BY <1>5, <2>t, <3>2, <3>3
      <4> QED
        BY <2>3, <4>1
    <3>5. Sum(Standing(s)') = Sum(Standing(s)) + (x - saw[i])
      BY <2>t, <3>1, <3>2, <3>3, <3>4, SumChange
    <3> QED
      BY <2>t, <2>4, <3>5
  <2>5. CASE ~(s = paper /\ r = CountedRow(r[1]))
    <3>1. ASSUME NEW a \in Counted(s) PROVE <<a, counted[a]>> # r
      BY <1>3, <1>4, <2>5 DEF Counted, AnswersOf, CountedRow
    <3>2. Standing(s)' = Standing(s)
      BY <2>t, <2>2, <2>3, <3>1
    <3> QED
      BY <2>t, <2>5, <3>2
  <2> QED
    BY <2>4, <2>5
<1>9. ASSUME NEW s \in Submissions
      PROVE  Sum(Stray(s)') = Sum(Stray(s)) + Strays(s) /\ Sum(Stray(s)) \in Int
  <2>t. IsFiniteSet(DOMAIN ledger) /\ Stray(s) \in [DOMAIN ledger -> Int] /\ Sum(Stray(s)) \in Int
    BY SumsTyped
  <2>1. Stray(s)'[last] = Strays(s)
    BY <1>1, <1>4, <1>7 DEF Stray, StrayDelta, CountedRow
  <2>2. \A n \in DOMAIN ledger : Stray(s)'[n] = Stray(s)[n]
    BY <1>1, <1>7 DEF Stray, StrayDelta, CountedRow
  <2>3. Stray(s)' \in [DOMAIN ledger \cup {last} -> Int]
    <3>1. Strays(s) \in Int
      BY <1>5
    <3>2. \A n \in DOMAIN ledger \cup {last} : Stray(s)'[n] \in Int
      BY <2>t, <2>1, <2>2, <3>1
    <3>3. Stray(s)' = [n \in DOMAIN ledger \cup {last} |-> Stray(s)'[n]]
      BY <1>7 DEF Stray
    <3> QED
      BY <3>2, <3>3
  <2> HIDE DEF Strays
  <2>4. Sum(Stray(s)') = Sum(Stray(s)) + Stray(s)'[last]
    <3> DEFINE S == DOMAIN ledger
               f == Stray(s)
               g == [n \in S \cup {last} |-> Stray(s)'[n]]
    <3>1. g = Stray(s)'
      BY <2>3
    <3>2. /\ IsFiniteSet(S) /\ f \in [S -> Int] /\ last \notin S
          /\ g \in [S \cup {last} -> Int] /\ \A n \in S : g[n] = f[n]
      BY <1>7, <2>t, <2>2, <2>3
    <3> HIDE DEF S, f, g
    <3>3. Sum(g) = Sum(f) + g[last]
      BY <3>2, SumExtend
    <3> QED
      BY <3>1, <3>3 DEF f
  <2> QED
    BY <2>t, <2>1, <2>4
<1>10. /\ total' \in [Submissions -> Nat] /\ total'[paper] = total[paper] + delta
       /\ \A s \in Submissions \ {paper} : total'[s] = total[s]
  BY <1>1, <1>4 DEF Audited
<1>11. /\ Rated(paper) /\ status'[paper] = "published"
       /\ \A s \in Submissions \ {paper} : status'[s] = status[s]
  <2>1. appeal[i] # "none"
    BY <1>2 DEF Undecided
  <2>2. Rated(paper)
    BY <2>1 DEF Audited, paper
  <2> QED
    BY <1>t, <1>1, <1>4, <2>2 DEF Typed
<1>12. BooksBalance'
  <2>1. ASSUME NEW s \in Submissions, Rated(s)' PROVE total'[s] = Sum(Standing(s)') + Sum(Stray(s)')
    <3>1. total[s] = Sum(Standing(s)) + Sum(Stray(s)) /\ total[s] \in Nat
      BY <1>11, <2>1, Balancing DEF Audited, Rated
    <3>2. Moves(s) + Strays(s) = IF s = paper THEN delta ELSE 0
      BY <1>5
    <3>3. Moves(s) \in Int /\ Strays(s) \in Int
      BY <1>5
    <3>4. total'[s] = total[s] + (Moves(s) + Strays(s))
      BY <1>10, <3>1, <3>2
    <3>5. /\ Sum(Standing(s)') = Sum(Standing(s)) + Moves(s) /\ Sum(Standing(s)) \in Int
          /\ Sum(Stray(s)') = Sum(Stray(s)) + Strays(s) /\ Sum(Stray(s)) \in Int
      BY <1>8, <1>9
    <3> HIDE DEF Moves, Strays
    <3> QED
      BY <3>1, <3>3, <3>4, <3>5
  <2> QED
    BY <2>1 DEF BooksBalance, Standing, Stray, Counted
<1>13. /\ counted' \in [Answers -> Nat] /\ \A a \in Answers : counted'[a] <= Len(finals'[a])
  BY <1>1, <1>6 DEF Audited
<1>14. HasLockedGrades' /\ \A n \in DOMAIN ledger' : ledger'[n].previous \in Scores
  <2>1. HasLockedGrades'
    BY <1>t, <1>1, <1>4 DEF HasLockedGrades, Typed
  <2> QED
    BY <1>5, <1>7, <2>1 DEF Audited
<1>15. ASSUME NEW j \in Appeals
       PROVE  /\ appeal'[j] # "none" => Rated(subject[j])'
              /\ reviewing'[j] # NoRow => reviewing'[j][1][1] = subject'[j]
  <2>1. subject[j] \in Submissions /\ subject' = subject
    BY <1>t, <1>1 DEF Typed
  <2>2. CASE j = i
    BY <1>t, <1>1, <1>11, <2>1, <2>2 DEF Typed, Rated, paper
  <2>3. CASE j # i
    <3>1. appeal'[j] = appeal[j] /\ reviewing'[j] = reviewing[j]
      BY <1>t, <1>1, <2>3 DEF Typed
    <3> QED
      BY <1>11, <2>1, <3>1 DEF Audited, Rated
  <2> QED
    BY <2>2, <2>3
<1> QED
  BY <1>10, <1>12, <1>13, <1>14, <1>15 DEF Audited

LEMMA NextAudited == ASSUME Sound, Audited, [Next]_vars PROVE Audited'
<1>1. CASE UNCHANGED vars
  <2>1. BookStays /\ UNCHANGED <<appeal, reviewing>> /\ Sound'
    BY <1>1, NextSound DEF vars, BookStays, appealVars, txVars
  <2> QED
    BY <2>1, BookStaysAudited
<1>2. ASSUME NEW a \in Answers, Appoint(a) \/ Mark(a) PROVE Audited'
  BY <1>2, MarkAudited
<1>3. CASE FinalizeExam
  BY <1>3, FinalizeAudited
<1>4. CASE ConfirmGrades \/ PublishGrades
  BY <1>4, ConfirmAudited
<1>5. ASSUME NEW p \in Students, NEW how \in {"expected", "absent"}, SetAttendance(p, how) PROVE Audited'
  BY <1>5, AttendanceAudited
<1>6. ASSUME NEW i \in Appeals, NEW r \in RowsOf(subject[i]), CreateAppeal(i, r) \/ LockFinal(i, r)
      PROVE  Audited'
  BY <1>6, AppealAudited
<1>7. ASSUME NEW i \in Appeals,
             CreateAppeal(i, NoRow) \/ AssignAppeal(i) \/ CloseAppeal(i) \/ AbortReview(i)
               \/ \E next \in Handled : ReviewAppeal(i, next)
      PROVE  Audited'
  BY <1>7, AppealAudited
<1>8. ASSUME NEW i \in Appeals, NEW x \in Scores, Adjust(i, x) PROVE Audited'
  BY <1>8, AdjustAudited
<1> QED
  BY <1>1, <1>2, <1>3, <1>4, <1>5, <1>6, <1>7, <1>8 DEF Next

LEMMA AlwaysAudited == Spec => []Audited
<1>1. Init => Audited
  BY InitAudited
<1>2. Sound /\ Audited /\ [Next]_vars => Audited'
  BY NextAudited
<1> QED
  BY <1>1, <1>2, AlwaysSound, PTL DEF Spec

(* The columns nothing above depends on.                                   *)
Columns ==
  /\ atWork \subseteq Answers
  /\ exam \in {"open", "published"}
  /\ attendance \in [Students -> {"expected", "absent"}]
  /\ target \in [Appeals -> Rows \cup {NoRow}]

LEMMA NextColumns == ASSUME Sound, Columns, [Next]_vars PROVE Columns'
<1>1. atWork' \subseteq Answers
  <2>1. \/ atWork' = atWork
        \/ \E a \in Answers : atWork' = atWork \cup {a} \/ atWork' = atWork \ {a}
    BY DEF Next, vars, Appoint, Mark, SubmitSingle, PassRule, SettlePair, FinalizeExam, ConfirmGrades,
           PublishGrades, SetAttendance, CreateAppeal, SetAppeal, AssignAppeal, ReviewAppeal, CloseAppeal,
           LockFinal, Adjust, AbortReview
  <2> QED
    BY <2>1 DEF Columns
<1>2. exam' \in {"open", "published"}
  BY DEF Columns, Next, vars, Appoint, Mark, SubmitSingle, PassRule, SettlePair, FinalizeExam, ConfirmGrades,
         PublishGrades, SetAttendance, CreateAppeal, SetAppeal, AssignAppeal, ReviewAppeal, CloseAppeal,
         LockFinal, Adjust, AbortReview
<1>3. attendance' \in [Students -> {"expected", "absent"}]
  BY DEF Columns, Next, vars, Appoint, Mark, SubmitSingle, PassRule, SettlePair, FinalizeExam, ConfirmGrades,
         PublishGrades, SetAttendance, CreateAppeal, SetAppeal, AssignAppeal, ReviewAppeal, CloseAppeal,
         LockFinal, Adjust, AbortReview
<1>4. target' \in [Appeals -> Rows \cup {NoRow}]
  <2>1. \/ target' = target
        \/ \E i \in Appeals : \E r \in RowsOf(subject[i]) \cup {NoRow} : target' = [target EXCEPT ![i] = r]
        \/ \E i \in Appeals : target' = [target EXCEPT ![i] = reviewing[i]]
    BY DEF Next, vars, appealVars, Appoint, Mark, SubmitSingle, PassRule, SettlePair, FinalizeExam,
           ConfirmGrades, PublishGrades, SetAttendance, CreateAppeal, SetAppeal, AssignAppeal, ReviewAppeal,
           CloseAppeal, LockFinal, Adjust, AbortReview
  <2>2. ASSUME NEW i \in Appeals PROVE RowsOf(subject[i]) \subseteq Rows /\ reviewing[i] \in Rows \cup {NoRow}
    <3>1. reviewing[i] \in Rows \cup {NoRow} /\ subject[i] \in Submissions
      BY DEF Sound, Typed
    <3>2. ASSUME NEW a \in AnswersOf(subject[i]) PROVE {a} \X DOMAIN finals[a] \subseteq Rows
      <4>1. a \in Answers
        BY <3>1, FinitePaper
      <4>2. finals[a] \in Seq(Final)
        BY <4>1 DEF Sound, Typed
      <4> QED
        BY <4>1, <4>2 DEF Rows
    <3> QED
      BY <3>1, <3>2 DEF RowsOf
  <2> QED
    BY <2>1, <2>2 DEF Columns
<1> QED
  BY <1>1, <1>2, <1>3, <1>4 DEF Columns

-----------------------------------------------------------------------------
(* However reviews of appeals overlap, the adjustments of a question score *)
(* form an unbroken chain that ends with the score it has, and no appeal   *)
(* is decided twice.                                                       *)
THEOREM Trail == Spec => []AdjustmentsChain
<1>1. Sound => AdjustmentsChain
  <2> SUFFICES ASSUME Sound, NEW m \in DOMAIN ledger
               PROVE  /\ Linked(m) /\ appeal[ledger[m].appeal] \in {"score_adjusted", "closed"}
                      /\ \A n \in DOMAIN ledger : ledger[n].appeal = ledger[m].appeal => n = m
    BY DEF AdjustmentsChain, Linked, Later
  <2> QED
    BY DEF Sound, AppealsOnce
<1> QED
  BY <1>1, AlwaysSound, PTL

(* A published exam is complete, and stays as it was published but for     *)
(* adjustments.                                                            *)
THEOREM StandsFirm == Spec => PublishedStandsFirm
<1>1. Sound /\ [Next]_vars =>
        [Published =>
           /\ \A p \in Students : attendance[p] = "absent" <=> p \notin Submissions
           /\ attendance' = attendance /\ exam' = exam
           /\ \A a \in Answers : finals[a] # <<>> /\ Len(finals[a]) <= Len(finals'[a])
           /\ \/ Len(ledger') = Len(ledger) + 1
              \/ /\ <<total, status>>' = <<total, status>>
                 /\ \A a \in Answers : \A n \in DOMAIN finals[a] : finals'[a][n] = finals[a][n]]_vars
  <2> SUFFICES ASSUME Sound, [Next]_vars, Published
               PROVE  /\ \A p \in Students : attendance[p] = "absent" <=> p \notin Submissions
                      /\ attendance' = attendance /\ exam' = exam
                      /\ \A a \in Answers : finals[a] # <<>> /\ Len(finals[a]) <= Len(finals'[a])
                      /\ \/ Len(ledger') = Len(ledger) + 1
                         \/ /\ <<total, status>>' = <<total, status>>
                            /\ \A a \in Answers : \A n \in DOMAIN finals[a] : finals'[a][n] = finals[a][n]
    OBVIOUS
  <2>1. Firm
    BY NextSound
  <2>2. RosterSettled /\ \A a \in Answers : finals[a] # <<>>
    BY DEF Sound, Covered
  <2> QED
    BY <2>1, <2>2 DEF Firm, RosterSettled
<1> QED
  BY <1>1, AlwaysSound, PTL DEF Spec, PublishedStandsFirm

(* Rows and transactions have the types of their columns, totals and       *)
(* scores included.                                                        *)
THEOREM Types == Spec => []TypeOK
<1>1. Sound /\ Audited /\ Columns => TypeOK
  <2> SUFFICES ASSUME Sound, Audited, Columns PROVE TypeOK
    OBVIOUS
  <2>1. ledger \in Seq(Adjustment)
    <3>1. ledger \in Seq(Entry) /\ Len(ledger) \in Nat /\ DOMAIN ledger = 1..Len(ledger)
      BY DEF Sound, Typed
    <3>2. ASSUME NEW n \in 1..Len(ledger) PROVE ledger[n] \in Adjustment
      <4>1. ledger[n] \in Entry /\ ledger[n].previous \in Scores
        BY <3>1 DEF Audited
      <4> QED
        BY <4>1 DEF Entry, Adjustment
    <3>3. ledger \in [1..Len(ledger) -> Adjustment]
      BY <3>1, <3>2
    <3> QED
      BY <3>1, <3>3
  <2> QED
    BY <2>1 DEF Sound, Typed, Audited, Columns, TypeOK, Statuses, AppealStatuses
<1>2. Init => Columns
  BY DEF Init, Columns
<1>3. Sound /\ Columns /\ [Next]_vars => Columns'
  BY NextColumns
<1> QED
  BY <1>1, <1>2, <1>3, AlwaysSound, AlwaysAudited, PTL DEF Spec

(* The books balance at any time: every rated total is the sum of the      *)
(* final grades it was last made of, at what appeals have made of them,    *)
(* plus what appeals changed in other rows of the paper.  So a total       *)
(* misses what double marking records after the last Finalize, and nothing *)
(* else, whatever appeals are reviewed side by side.                       *)
THEOREM Balance == Spec => []BooksBalance
<1>1. Audited => BooksBalance
  BY DEF Audited
<1> QED
  BY <1>1, AlwaysAudited, PTL

AddedUp(s) == \A a \in AnswersOf(s) : counted[a] = Len(finals[a])
NoneAstray(s) ==
  \A n \in DOMAIN ledger :
    ledger[n].row[1][1] = s => ledger[n].row = CountedRow(ledger[n].row[1])

(* The only ways for a total not to be the sum of the question scores in   *)
(* force: a final grade that came after the paper was last added up, or an *)
(* appeal that adjusted a row which was not the newest one then.           *)
THEOREM OnlyLateGradesMissing ==
  Spec => [](\A s \in Submissions :
               Rated(s) /\ AddedUp(s) /\ NoneAstray(s) => total[s] = SumNewest(finals, s))
<1>1. ASSUME Sound, Audited
      PROVE  \A s \in Submissions :
               Rated(s) /\ AddedUp(s) /\ NoneAstray(s) => total[s] = SumNewest(finals, s)
  <2> SUFFICES ASSUME NEW s \in Submissions, Rated(s), AddedUp(s), NoneAstray(s)
               PROVE  total[s] = SumNewest(finals, s)
    OBVIOUS
  <2>1. total[s] = Sum(Standing(s)) + Sum(Stray(s))
    BY <1>1, Balancing DEF Audited
  <2>2. Sum(Stray(s)) = 0
    <3>1. IsFiniteSet(DOMAIN ledger) /\ Stray(s) \in [DOMAIN ledger -> Int]
      BY <1>1, SumsTyped
    <3>2. \A n \in DOMAIN ledger : Stray(s)[n] = 0
      BY DEF Stray, StrayDelta, NoneAstray
    <3> QED
      BY <3>1, <3>2, SumZero
  <2>3. Standing(s) = [a \in {b \in AnswersOf(s) : finals[b] # <<>>} |-> Newest(finals[a])]
    <3>1. ASSUME NEW a \in AnswersOf(s)
          PROVE  counted[a] = Len(finals[a]) /\ (counted[a] > 0 <=> finals[a] # <<>>)
      <4>1. finals[a] \in Seq(Final) /\ counted[a] = Len(finals[a])
        BY <1>1, FinitePaper DEF AddedUp, Sound, Typed
      <4> QED
        BY <4>1
    <3>2. Counted(s) = {b \in AnswersOf(s) : finals[b] # <<>>}
      BY <3>1 DEF Counted
    <3>3. \A a \in Counted(s) : finals[a][counted[a]].score = Newest(finals[a])
      BY <3>1 DEF Counted, Newest
    <3> QED
      BY <3>2, <3>3 DEF Standing
  <2>4. Sum(Standing(s)) = SumNewest(finals, s) /\ Sum(Standing(s)) \in Int
    BY <1>1, <2>3, SumsTyped DEF SumNewest
  <2> QED
    BY <2>1, <2>2, <2>4
<1>2. Sound /\ Audited =>
        \A s \in Submissions :
          Rated(s) /\ AddedUp(s) /\ NoneAstray(s) => total[s] = SumNewest(finals, s)
  BY <1>1
<1> QED
  BY <1>2, AlwaysSound, AlwaysAudited, PTL
=============================================================================
