---------------------------- MODULE RegradeProofs ----------------------------
(***************************************************************************)
(* Theorems about Regrade and the releases it works on, for every set of   *)
(* papers, scores and jobs and any number of releases.                     *)
(***************************************************************************)
EXTENDS Regrade, SequenceTheorems, TLAPS

(* A job regrades what was public when it was created. *)
SourcePublished == \A j \in Jobs : job[j] # "none" => IsPublished(source[j])

ReadyClosed == \A j \in Jobs : Ready(j) => \A p \in Items(j) : item[j][p] = "resolved"

(* What a coordinator saw finished stays finished. *)
ClearedSawReady == \A r \in DOMAIN cleared : \A j \in cleared[r] : Ready(j)

Bounded == Len(releases) <= MaxReleases

Sound ==
  /\ TypeOK /\ SourcePublished /\ ReadyClosed /\ ClearedSawReady /\ Bounded
  /\ SuccessorsFollowSource

(* What no step does: take back or edit a release, or reopen a job. *)
ReleasesKept ==
  /\ Versions \subseteq Versions'
  /\ \A r \in Versions :
       /\ releases'[r].sheet = releases[r].sheet /\ releases'[r].base = releases[r].base
       /\ releases'[r].job = releases[r].job
       /\ IsPublished(r) => releases'[r] = releases[r]

JobsKept ==
  \A j \in Jobs :
    /\ job[j] # "none" => job'[j] # "none" /\ source'[j] = source[j]
    /\ Ready(j) => /\ job'[j] = job[j] /\ source'[j] = source[j]
                   /\ item'[j] = item[j] /\ revised'[j] = revised[j]

-----------------------------------------------------------------------------
LEMMA VersionTyped ==
  ASSUME TypeOK
  PROVE  /\ Versions = 1..Len(releases) /\ Len(releases) \in Nat
         /\ \A r \in Versions : releases[r] \in Release
BY DEF TypeOK, ReleaseTypeOK, Versions

(* The two ways in which releases change. *)
LEMMA DraftAdded ==
  ASSUME TypeOK, Bounded, NEW sheet \in Sheets, NEW base \in Nat, NEW k \in Jobs \cup {NoJob},
         AddDraft(sheet, base, k)
  PROVE  /\ releases' \in Seq(Release) /\ Len(releases') = Len(releases) + 1
         /\ Len(releases) < MaxReleases
         /\ \A r \in Versions : releases'[r] = releases[r]
         /\ releases'[Len(releases')] = Draft(sheet, base, k)
<1>1. releases \in Seq(Release)
  BY DEF TypeOK, ReleaseTypeOK
<1>2. Draft(sheet, base, k) \in Release
  BY DEF Draft, Release
<1>3. Len(releases) < MaxReleases /\ releases' = Append(releases, Draft(sheet, base, k))
  BY DEF AddDraft
<1>4. Versions = 1..Len(releases)
  BY <1>1 DEF Versions
<1> HIDE DEF Draft
<1> QED
  BY <1>1, <1>2, <1>3, <1>4, AppendProperties

LEMMA DraftPublished ==
  ASSUME TypeOK, NEW r \in Versions, Publish(r)
  PROVE  /\ releases' \in Seq(Release) /\ Len(releases') = Len(releases)
         /\ \A v \in Versions : v # r => releases'[v] = releases[v]
         /\ releases'[r] = [releases[r] EXCEPT !.status = "published", !.supersedes = current]
<1>1. releases \in Seq(Release) /\ r \in 1..Len(releases) /\ releases[r] \in Release /\ current \in Nat
      /\ Versions = 1..Len(releases)
  BY DEF TypeOK, ReleaseTypeOK, Versions
<1> DEFINE public == [releases[r] EXCEPT !.status = "published", !.supersedes = current]
<1>2. public \in Release
  BY <1>1 DEF Release
<1>3. releases' = [releases EXCEPT ![r] = public]
  BY <1>1 DEF Publish, MarkPublished
<1> HIDE DEF public
<1>4. /\ releases' \in Seq(Release) /\ Len(releases') = Len(releases) /\ releases'[r] = public
      /\ \A v \in 1..Len(releases) : v # r => releases'[v] = releases[v]
  BY <1>1, <1>2, <1>3, ExceptSeq
<1> QED
  BY <1>1, <1>4 DEF public

-----------------------------------------------------------------------------
(* Types. *)
LEMMA InitTyped == Init => TypeOK
<1> SUFFICES ASSUME Init PROVE TypeOK
  OBVIOUS
<1> USE ReleaseConstantsOK, RegradeConstantsOK
        DEF ReleaseConstantsOK, RegradeConstantsOK, Init, ReleaseInit
<1>1. releases \in Seq(Release) /\ Len(releases) = 0 /\ DOMAIN cleared = {}
  OBVIOUS
<1>2. book \in Sheets /\ current \in 0..Len(releases)
  BY <1>1 DEF Sheets
<1>d. doubled \in BOOLEAN
  OBVIOUS
<1>3. ReleaseTypeOK
  BY <1>1, <1>2, <1>d DEF ReleaseTypeOK
<1>4. job \in [Jobs -> JobStatus] /\ item \in [Jobs -> [Papers -> ItemStatus]]
  BY DEF JobStatus, ItemStatus
<1> QED
  BY <1>1, <1>3, <1>4 DEF TypeOK

(* The coordinator's list, when a release is added to it or taken off it. *)
ClearedTyped == DOMAIN cleared \subseteq Versions /\ \A r \in DOMAIN cleared : cleared[r] \subseteq Jobs

LEMMA ClearEffect ==
  ASSUME NEW r, NEW finished, Clear(r, finished)
  PROVE  /\ DOMAIN cleared' = DOMAIN cleared \cup {r}
         /\ cleared'[r] = finished
         /\ \A v \in DOMAIN cleared : v # r => cleared'[v] = cleared[v]
BY DEF Clear

LEMMA ForgetEffect ==
  ASSUME NEW r, Forget(r)
  PROVE  /\ DOMAIN cleared' = DOMAIN cleared \ {r}
         /\ \A v \in DOMAIN cleared' : cleared'[v] = cleared[v]
BY DEF Forget

(* The sheet of a successor is a sheet. *)
LEMMA ChangesTyped ==
  ASSUME TypeOK, NEW j \in Jobs, NEW r \in Versions
  PROVE  /\ ApplyChanges(r, Plan(j)) \in Sheets
         /\ \A p \in Papers : ApplyChanges(r, Plan(j))[p] =
              IF p \in Changed(j) THEN revised[j][p] ELSE releases[r].sheet[p]
<1>1. releases[r].sheet \in [Papers -> Scores]
  BY VersionTyped DEF Release, Sheets
<1>2. Changed(j) \subseteq Papers /\ \A p \in Changed(j) : revised[j][p] \in Scores
  BY DEF TypeOK, Changed, Items
<1> QED
  BY <1>1, <1>2 DEF ApplyChanges, Corrected, Plan, Sheets

(* What a step does to the releases. *)
NewDraft ==
  \E sheet \in Sheets, base \in Nat, k \in Jobs \cup {NoJob} : AddDraft(sheet, base, k)
NewPublic == \E r \in Versions : Publish(r)

LEMMA ReleaseSteps ==
  ASSUME TypeOK, [Next]_vars
  PROVE  NewDraft \/ NewPublic \/ UNCHANGED <<releases, current>>
<1>1. ASSUME Create PROVE NewDraft
  <2>1. book \in Sheets
    BY DEF TypeOK, ReleaseTypeOK
  <2> QED
    BY <1>1, <2>1 DEF Create, NewDraft
<1>2. ASSUME NEW r \in Versions, CreateRollback(r) PROVE NewDraft
  BY <1>2, VersionTyped DEF CreateRollback, NewDraft, Release
<1>3. ASSUME NEW j \in Jobs, CreateSuccessor(j) PROVE NewDraft
  <2>1. source[j] \in Versions /\ source[j] \in Nat
    BY <1>3 DEF CreateSuccessor, CreateFromRegrade, IsPublished, TypeOK
  <2> QED
    BY <1>3, <2>1, ChangesTyped DEF CreateSuccessor, CreateFromRegrade, NewDraft
<1>4. ASSUME NEW j \in Jobs,
             \/ \E r \in Versions, selected \in SUBSET Papers : CreateJob(j, r, selected)
             \/ Approve(j) \/ Start(j) \/ Pause(j) \/ Resume(j) \/ Finalize(j) \/ Work(j)
      PROVE  UNCHANGED <<releases, current>>
  BY <1>4 DEF CreateJob, Approve, Start, Pause, Resume, Finalize, Move, Work, Claim,
              RecordCandidate, Review, Accept, Decline, releaseVars
<1>5. ASSUME \/ \E p \in Papers, x \in Scores : Adjust(p, x)
             \/ GradeAgain
             \/ \E r \in Versions : PublishNot(r) \/ RecheckForPublish(r)
             \/ UNCHANGED vars
      PROVE  UNCHANGED <<releases, current>>
  BY <1>5 DEF Adjust, GradeAgain, PublishNot, RecheckForPublish, Clear, vars, releaseVars
<1> QED
  BY <1>1, <1>2, <1>3, <1>4, <1>5 DEF Next, ReleaseNext, NewPublic

LEMMA ReleasesTyped ==
  ASSUME TypeOK, Bounded, [Next]_vars
  PROVE  /\ releases' \in Seq(Release) /\ Len(releases) <= Len(releases') /\ Bounded'
         /\ current' \in 0..Len(releases')
         /\ Versions = 1..Len(releases) /\ Versions' = 1..Len(releases')
         /\ ReleasesKept
<1>1. /\ releases \in Seq(Release) /\ current \in 0..Len(releases) /\ Versions = 1..Len(releases)
      /\ Len(releases) \in Nat
  BY DEF TypeOK, ReleaseTypeOK, Versions
<1>2. releases' \in Seq(Release) => Versions' = 1..Len(releases')
  BY DEF Versions
<1>3. CASE NewDraft
  <2> PICK sheet \in Sheets, base \in Nat, k \in Jobs \cup {NoJob} : AddDraft(sheet, base, k)
    BY <1>3 DEF NewDraft
  <2>1. UNCHANGED current
    BY DEF AddDraft
  <2> QED
    BY <1>1, <1>2, <2>1, DraftAdded, ReleaseConstantsOK DEF ReleaseConstantsOK, Bounded, ReleasesKept
<1>4. CASE NewPublic
  <2> PICK r \in Versions : Publish(r)
    BY <1>4 DEF NewPublic
  <2>1. current' = r /\ releases[r].status = "draft" /\ ~IsPublished(r)
    BY DEF Publish, IsPublished
  <2>2. releases[r] \in Release
    BY <1>1
  <2>3. /\ releases'[r].sheet = releases[r].sheet /\ releases'[r].base = releases[r].base
        /\ releases'[r].job = releases[r].job
    BY <2>2, DraftPublished DEF Release
  <2>4. /\ releases' \in Seq(Release) /\ Len(releases') = Len(releases)
        /\ \A v \in Versions : v # r => releases'[v] = releases[v]
    BY DraftPublished
  <2>5. ReleasesKept
    BY <1>1, <1>2, <2>1, <2>3, <2>4 DEF ReleasesKept
  <2> QED
    BY <1>1, <1>2, <2>1, <2>4, <2>5 DEF Bounded
<1>5. CASE UNCHANGED <<releases, current>>
  <2>1. releases' = releases /\ current' = current
    BY <1>5
  <2>2. ReleasesKept
    BY <2>1 DEF ReleasesKept, Versions
  <2> QED
    BY <1>1, <1>2, <2>1, <2>2 DEF Bounded
<1> QED
  BY <1>3, <1>4, <1>5, ReleaseSteps

(* Which steps change the score book, and which the coordinator's list. *)
LEMMA OtherSteps ==
  ASSUME [Next]_vars
  PROVE  /\ \/ \E p \in Papers, x \in Scores : Adjust(p, x)
            \/ GradeAgain
            \/ UNCHANGED bookVars
         /\ \/ \E r \in Versions : RecheckForPublish(r) \/ Publish(r) \/ PublishNot(r)
            \/ UNCHANGED cleared
<1>1. ASSUME Create \/ \E r \in Versions : CreateRollback(r) PROVE UNCHANGED <<bookVars, cleared>>
  BY <1>1 DEF Create, CreateRollback, AddDraft
<1>2. ASSUME NEW j \in Jobs, CreateSuccessor(j) PROVE UNCHANGED <<bookVars, cleared>>
  BY <1>2 DEF CreateSuccessor, CreateFromRegrade, AddDraft
<1>3. ASSUME NEW j \in Jobs,
             \/ \E r \in Versions, selected \in SUBSET Papers : CreateJob(j, r, selected)
             \/ Approve(j) \/ Start(j) \/ Pause(j) \/ Resume(j) \/ Finalize(j) \/ Work(j)
      PROVE  UNCHANGED <<bookVars, cleared>>
  BY <1>3 DEF CreateJob, Approve, Start, Pause, Resume, Finalize, Move, Work, Claim,
              RecordCandidate, Review, Accept, Decline, releaseVars
<1>4. ASSUME NEW r \in Versions, RecheckForPublish(r) \/ Publish(r) \/ PublishNot(r)
      PROVE  UNCHANGED bookVars
  BY <1>4 DEF RecheckForPublish, Clear, Publish, PublishNot
<1>5. ASSUME (\E p \in Papers, x \in Scores : Adjust(p, x)) \/ GradeAgain PROVE UNCHANGED cleared
  BY <1>5 DEF Adjust, GradeAgain
<1>6. ASSUME UNCHANGED vars PROVE UNCHANGED <<bookVars, cleared>>
  BY <1>6 DEF vars, releaseVars
<1> QED
  BY <1>1, <1>2, <1>3, <1>4, <1>5, <1>6 DEF Next, ReleaseNext

LEMMA ClearedIsTyped ==
  ASSUME TypeOK, Bounded, [Next]_vars
  PROVE  DOMAIN cleared' \subseteq Versions' /\ \A r \in DOMAIN cleared' : cleared'[r] \subseteq Jobs
<1>1. DOMAIN cleared \subseteq Versions' /\ \A r \in DOMAIN cleared : cleared[r] \subseteq Jobs
  BY ReleasesTyped DEF TypeOK, ReleaseTypeOK, ReleasesKept
<1>2. ASSUME NEW r \in Versions, RecheckForPublish(r) PROVE DOMAIN cleared' \subseteq Versions'
                                  /\ \A v \in DOMAIN cleared' : cleared'[v] \subseteq Jobs
  <2>1. Clear(r, Created) /\ Created \subseteq Jobs
    BY <1>2 DEF RecheckForPublish, Created
  <2>2. /\ DOMAIN cleared' = DOMAIN cleared \cup {r} /\ cleared'[r] = Created
        /\ \A v \in DOMAIN cleared : v # r => cleared'[v] = cleared[v]
    BY <2>1, ClearEffect
  <2>3. r \in Versions'
    BY ReleasesTyped DEF ReleasesKept
  <2> QED
    BY <1>1, <2>1, <2>2, <2>3
<1>3. ASSUME NEW r \in Versions, Publish(r) \/ PublishNot(r)
      PROVE  DOMAIN cleared' \subseteq Versions' /\ \A v \in DOMAIN cleared' : cleared'[v] \subseteq Jobs
  BY <1>1, <1>3, ForgetEffect DEF Publish, PublishNot
<1>4. CASE UNCHANGED cleared
  BY <1>1, <1>4
<1> QED
  BY <1>2, <1>3, <1>4, OtherSteps

JobTyped ==
  /\ job \in [Jobs -> JobStatus] /\ source \in [Jobs -> 0..Len(releases)]
  /\ item \in [Jobs -> [Papers -> ItemStatus]]
  /\ revised \in [Jobs -> [Papers -> Scores \cup {NoScore}]]

LEMMA JobsTyped == ASSUME TypeOK, Bounded, [Next]_vars PROVE JobTyped'
<1>1. /\ job \in [Jobs -> JobStatus] /\ source \in [Jobs -> 0..Len(releases')]
      /\ item \in [Jobs -> [Papers -> ItemStatus]]
      /\ revised \in [Jobs -> [Papers -> Scores \cup {NoScore}]]
  BY ReleasesTyped, VersionTyped DEF TypeOK
<1>2. ASSUME NEW j \in Jobs, NEW r \in Versions, NEW selected \in SUBSET Papers,
             CreateJob(j, r, selected)
      PROVE  JobTyped'
  <2>1. r \in 0..Len(releases')
    BY ReleasesTyped, VersionTyped
  <2> QED
    BY <1>1, <1>2, <2>1 DEF CreateJob, JobStatus, ItemStatus, JobTyped
<1>3. ASSUME NEW j \in Jobs, Approve(j) \/ Start(j) \/ Pause(j) \/ Resume(j) \/ Finalize(j)
      PROVE  JobTyped'
  BY <1>1, <1>3 DEF Approve, Start, Pause, Resume, Finalize, Move, JobStatus, JobTyped
<1>4. ASSUME NEW j \in Jobs, Work(j) PROVE JobTyped'
  <2> PICK p \in Papers : Claim(j, p) \/ RecordCandidate(j, p) \/ Review(j, p)
    BY <1>4 DEF Work
  <2>1. /\ UNCHANGED source
        /\ \E x \in ItemStatus : item' = [item EXCEPT ![j][p] = x]
        /\ \E x \in JobStatus : job' = job \/ job' = [job EXCEPT ![j] = x]
        /\ \E x \in Scores \cup {NoScore} : revised' = revised \/ revised' = [revised EXCEPT ![j][p] = x]
    BY DEF Claim, RecordCandidate, Review, Accept, Decline, ItemStatus, JobStatus
  <2>2. item' \in [Jobs -> [Papers -> ItemStatus]]
    <3> PICK x \in ItemStatus : item' = [item EXCEPT ![j][p] = x]
      BY <2>1
    <3>1. [item[j] EXCEPT ![p] = x] \in [Papers -> ItemStatus]
      BY <1>1
    <3> QED
      BY <1>1, <3>1
  <2>3. revised' \in [Jobs -> [Papers -> Scores \cup {NoScore}]]
    <3> PICK x \in Scores \cup {NoScore} : revised' = revised \/ revised' = [revised EXCEPT ![j][p] = x]
      BY <2>1
    <3>1. [revised[j] EXCEPT ![p] = x] \in [Papers -> Scores \cup {NoScore}]
      BY <1>1
    <3> QED
      BY <1>1, <3>1
  <2>4. job' \in [Jobs -> JobStatus]
    BY <1>1, <2>1
  <2> QED
    BY <1>1, <2>1, <2>2, <2>3, <2>4 DEF JobTyped
<1>5. CASE UNCHANGED jobVars
  BY <1>1, <1>5 DEF jobVars, JobTyped
<1>6. \/ UNCHANGED jobVars
      \/ \E j \in Jobs :
           \/ \E r \in Versions, selected \in SUBSET Papers : CreateJob(j, r, selected)
           \/ Approve(j) \/ Start(j) \/ Pause(j) \/ Resume(j) \/ Finalize(j)
           \/ Work(j)
  BY DEF Next, RecheckForPublish, CreateSuccessor, vars
<1> QED
  BY <1>2, <1>3, <1>4, <1>5, <1>6

LEMMA NextTyped == ASSUME TypeOK, Bounded, [Next]_vars PROVE TypeOK'
<1>1. book \in Sheets /\ doubled \in BOOLEAN
  BY DEF TypeOK, ReleaseTypeOK
<1>2. book' \in Sheets
  BY <1>1, OtherSteps DEF Adjust, GradeAgain, bookVars, Sheets
<1>3. doubled' = TRUE \/ doubled' = doubled
  BY OtherSteps DEF Adjust, GradeAgain, bookVars
<1>4. doubled' \in BOOLEAN
  BY <1>1, <1>3, Zenon
<1>5. Sheets' = Sheets /\ Release' = Release
  BY DEF Sheets, Release
<1>6. ReleaseTypeOK'
  BY <1>2, <1>4, <1>5, ReleasesTyped, ClearedIsTyped DEF ReleaseTypeOK
<1> QED
  BY <1>6, JobsTyped DEF TypeOK, JobTyped

-----------------------------------------------------------------------------
(* What a step may do to the jobs. *)
LEMMA JobSteps ==
  ASSUME [Next]_vars
  PROVE  \/ UNCHANGED jobVars
         \/ \E j \in Jobs :
              \/ \E r \in Versions, selected \in SUBSET Papers : CreateJob(j, r, selected)
              \/ Approve(j) \/ Start(j) \/ Pause(j) \/ Resume(j) \/ Finalize(j)
              \/ Work(j)
BY DEF Next, RecheckForPublish, CreateSuccessor, vars

LEMMA NextJobsKept == ASSUME TypeOK, [Next]_vars PROVE JobsKept
<1>1. ASSUME NEW j \in Jobs, NEW r \in Versions, NEW selected \in SUBSET Papers,
             CreateJob(j, r, selected)
      PROVE  JobsKept
  BY <1>1 DEF CreateJob, JobsKept, Ready, TypeOK
<1>2. ASSUME NEW j \in Jobs, Approve(j) \/ Start(j) \/ Pause(j) \/ Resume(j) \/ Finalize(j)
      PROVE  JobsKept
  BY <1>2 DEF Approve, Start, Pause, Resume, Finalize, Move, JobsKept, Ready, TypeOK
<1>3. ASSUME NEW j \in Jobs, Work(j) PROVE JobsKept
  <2>1. /\ UNCHANGED source /\ Working(j)
        /\ \A k \in Jobs : k # j => item'[k] = item[k] /\ revised'[k] = revised[k]
        /\ job' = job \/ job' = [job EXCEPT ![j] = "diff_review"]
    BY <1>3 DEF Work, Claim, Claimable, RecordCandidate, Review, Accept, Decline, TypeOK
  <2>2. job[j] # "none" /\ ~Ready(j)
    BY <2>1 DEF Working, Ready
  <2>3. \A k \in Jobs : (k # j => job'[k] = job[k]) /\ (job[k] # "none" => job'[k] # "none")
    BY <2>1 DEF TypeOK
  <2> QED
    BY <2>1, <2>2, <2>3 DEF JobsKept
<1>4. CASE UNCHANGED jobVars
  BY <1>4 DEF jobVars, JobsKept
<1> QED
  BY <1>1, <1>2, <1>3, <1>4, JobSteps

LEMMA NextSourcePublished ==
  ASSUME TypeOK, Bounded, SourcePublished, [Next]_vars PROVE SourcePublished'
<1>1. ASSUME NEW k \in Jobs, job'[k] # "none" PROVE IsPublished(source[k])'
  <2>1. CASE job[k] # "none"
    <3>1. IsPublished(source[k]) /\ source'[k] = source[k]
      BY <2>1, NextJobsKept DEF JobsKept, SourcePublished
    <3> QED
      BY <3>1, ReleasesTyped DEF ReleasesKept, IsPublished
  <2>2. CASE job[k] = "none"
    <3>1. \E r \in Versions, selected \in SUBSET Papers : CreateJob(k, r, selected)
      <4>1. ASSUME NEW j \in Jobs, NEW r \in Versions, NEW selected \in SUBSET Papers,
                   CreateJob(j, r, selected)
            PROVE  j = k
        BY <1>1, <2>2, <4>1 DEF CreateJob, TypeOK
      <4>2. ASSUME NEW j \in Jobs, Approve(j) \/ Start(j) \/ Pause(j) \/ Resume(j) \/ Finalize(j)
            PROVE  FALSE
        BY <1>1, <2>2, <4>2 DEF Approve, Start, Pause, Resume, Finalize, Move, TypeOK
      <4>3. ASSUME NEW j \in Jobs, Work(j) PROVE FALSE
        BY <1>1, <2>2, <4>3 DEF Work, Claim, Claimable, RecordCandidate, Review, Accept, Decline, Working, TypeOK
      <4>4. ~ UNCHANGED jobVars
        BY <1>1, <2>2 DEF jobVars
      <4> QED
        BY <4>1, <4>2, <4>3, <4>4, JobSteps
    <3>2. IsPublished(source'[k]) /\ UNCHANGED releases
      BY <3>1 DEF CreateJob, TypeOK, releaseVars
    <3> QED
      BY <3>2 DEF IsPublished, Versions
  <2> QED
    BY <2>1, <2>2
<1> QED
  BY <1>1 DEF SourcePublished

LEMMA NextReadyClosed == ASSUME TypeOK, ReadyClosed, [Next]_vars PROVE ReadyClosed'
<1> SUFFICES ASSUME NEW k \in Jobs, Ready(k)', NEW p \in Items(k)' PROVE item'[k][p] = "resolved"
  BY DEF ReadyClosed
<1>1. CASE Ready(k)
  BY <1>1, NextJobsKept DEF JobsKept, ReadyClosed, Items
<1>2. CASE ~Ready(k)
  <2>1. Finalize(k)
    <3>1. ASSUME NEW j \in Jobs, NEW r \in Versions, NEW selected \in SUBSET Papers,
                 CreateJob(j, r, selected)
          PROVE  FALSE
      BY <1>2, <3>1 DEF CreateJob, Ready, TypeOK
    <3>2. ASSUME NEW j \in Jobs, Approve(j) \/ Start(j) \/ Pause(j) \/ Resume(j) PROVE FALSE
      BY <1>2, <3>2 DEF Approve, Start, Pause, Resume, Move, Ready, TypeOK
    <3>3. ASSUME NEW j \in Jobs, Work(j) PROVE FALSE
      BY <1>2, <3>3 DEF Work, Claim, RecordCandidate, Review, Accept, Decline, Ready, TypeOK
    <3>4. ~ UNCHANGED jobVars
      BY <1>2 DEF jobVars, Ready
    <3>5. ASSUME NEW j \in Jobs, Finalize(j) PROVE j = k
      BY <1>2, <3>5 DEF Finalize, Move, Ready, TypeOK
    <3> QED
      BY <3>1, <3>2, <3>3, <3>4, <3>5, JobSteps
  <2> QED
    BY <2>1 DEF Finalize, Move, Outstanding, Items
<1> QED
  BY <1>1, <1>2

LEMMA NextClearedSawReady ==
  ASSUME TypeOK, ClearedSawReady, [Next]_vars PROVE ClearedSawReady'
<1>1. \A r \in DOMAIN cleared : \A j \in cleared[r] : Ready(j)'
  BY NextJobsKept DEF ClearedSawReady, JobsKept, Ready, TypeOK, ReleaseTypeOK
<1>2. ASSUME NEW r \in Versions, RecheckForPublish(r) PROVE ClearedSawReady'
  <2>1. Clear(r, Created) /\ \A j \in Created : Ready(j)'
    BY <1>2 DEF RecheckForPublish, BlockingRegrades, Created, Ready, jobVars
  <2>2. /\ DOMAIN cleared' = DOMAIN cleared \cup {r} /\ cleared'[r] = Created
        /\ \A v \in DOMAIN cleared : v # r => cleared'[v] = cleared[v]
    BY <2>1, ClearEffect
  <2> QED
    BY <1>1, <2>1, <2>2 DEF ClearedSawReady
<1>3. ASSUME NEW r \in Versions, Publish(r) \/ PublishNot(r) PROVE ClearedSawReady'
  BY <1>1, <1>3, ForgetEffect DEF Publish, PublishNot, ClearedSawReady
<1>4. CASE UNCHANGED cleared
  BY <1>1, <1>4 DEF ClearedSawReady
<1> QED
  BY <1>2, <1>3, <1>4, OtherSteps

-----------------------------------------------------------------------------
(* SuccessorsFollowSource, one release at a time. *)
Follows(r) ==
  LET base == releases[r].base j == releases[r].job IN
  base # 0 =>
    /\ base < r /\ IsPublished(base)
    /\ j = NoJob => releases[r].sheet = releases[base].sheet
    /\ j # NoJob =>
         /\ Ready(j) /\ source[j] = base
         /\ \A p \in Papers : releases[r].sheet[p] =
              IF p \in Changed(j) THEN revised[j][p] ELSE releases[base].sheet[p]

LEMMA NewVersions ==
  ASSUME [Next]_vars
  PROVE  \/ Create
         \/ \E r \in Versions : CreateRollback(r)
         \/ \E j \in Jobs : CreateSuccessor(j)
         \/ \E r \in Versions : Publish(r)
         \/ UNCHANGED releases
<1>1. ASSUME NEW j \in Jobs,
             \/ \E r \in Versions, selected \in SUBSET Papers : CreateJob(j, r, selected)
             \/ Approve(j) \/ Start(j) \/ Pause(j) \/ Resume(j) \/ Finalize(j) \/ Work(j)
      PROVE  UNCHANGED releases
  BY <1>1 DEF CreateJob, Approve, Start, Pause, Resume, Finalize, Move, Work, Claim,
              RecordCandidate, Review, Accept, Decline, releaseVars
<1>2. ASSUME \/ \E p \in Papers, x \in Scores : Adjust(p, x)
             \/ GradeAgain
             \/ \E r \in Versions : PublishNot(r) \/ RecheckForPublish(r)
             \/ UNCHANGED vars
      PROVE  UNCHANGED releases
  BY <1>2 DEF Adjust, GradeAgain, PublishNot, RecheckForPublish, Clear, vars, releaseVars
<1> QED
  BY <1>1, <1>2 DEF Next, ReleaseNext

LEMMA OldFollows ==
  ASSUME TypeOK, Bounded, [Next]_vars, NEW r \in Versions, Follows(r) PROVE Follows(r)'
<1>1. /\ releases'[r].sheet = releases[r].sheet /\ releases'[r].base = releases[r].base
      /\ releases'[r].job = releases[r].job
  BY ReleasesTyped DEF ReleasesKept
<1> DEFINE base == releases[r].base
           j == releases[r].job
<1>2. SUFFICES ASSUME base # 0 PROVE Follows(r)'
  BY <1>1 DEF Follows
<1>3. /\ base < r /\ IsPublished(base)
      /\ IsPublished(base)' /\ releases'[base].sheet = releases[base].sheet
  BY <1>2, ReleasesTyped DEF Follows, ReleasesKept, IsPublished
<1>4. CASE j = NoJob
  BY <1>1, <1>2, <1>3, <1>4 DEF Follows
<1>5. CASE j # NoJob
  <2>1. j \in Jobs /\ Ready(j) /\ source[j] = base
    BY <1>2, <1>5, VersionTyped DEF Follows, Release
  <2>2. /\ job'[j] = job[j] /\ source'[j] = source[j]
        /\ item'[j] = item[j] /\ revised'[j] = revised[j]
    BY <2>1, NextJobsKept DEF JobsKept
  <2>3. Ready(j)' /\ Changed(j)' = Changed(j)
    BY <1>1, <2>1, <2>2 DEF Ready, Changed, Items
  <2>4. \A p \in Papers : releases[r].sheet[p] =
          IF p \in Changed(j) THEN revised[j][p] ELSE releases[base].sheet[p]
    BY <1>2, <1>5 DEF Follows
  <2> QED
    BY <1>1, <1>3, <1>5, <2>1, <2>2, <2>3, <2>4 DEF Follows
<1> QED
  BY <1>4, <1>5

LEMMA NewFollows ==
  ASSUME TypeOK, Bounded, SourcePublished, [Next]_vars, NEW r \in Versions', r \notin Versions
  PROVE  Follows(r)'
<1>1. Versions = 1..Len(releases) /\ Len(releases) \in Nat
  BY VersionTyped
<1>2. ASSUME NEW sheet \in Sheets, NEW base \in Nat, NEW k \in Jobs \cup {NoJob},
             AddDraft(sheet, base, k)
      PROVE  /\ r = Len(releases) + 1
             /\ releases'[r].sheet = sheet /\ releases'[r].base = base /\ releases'[r].job = k
             /\ \A v \in Versions : releases'[v] = releases[v]
  <2>1. /\ Len(releases') = Len(releases) + 1 /\ Versions' = 1..Len(releases')
        /\ \A v \in Versions : releases'[v] = releases[v]
        /\ releases'[Len(releases')] = Draft(sheet, base, k)
    BY <1>2, DraftAdded, ReleasesTyped
  <2>2. r = Len(releases) + 1
    BY <1>1, <2>1
  <2> QED
    BY <2>1, <2>2 DEF Draft
<1>3. CASE Create
  <2>1. book \in Sheets /\ AddDraft(book, 0, NoJob)
    BY <1>3 DEF Create, TypeOK, ReleaseTypeOK
  <2> QED
    BY <1>2, <2>1 DEF Follows
<1>4. ASSUME NEW q \in Versions, CreateRollback(q) PROVE Follows(r)'
  <2>1. /\ IsPublished(q) /\ AddDraft(releases[q].sheet, q, NoJob)
        /\ releases[q].sheet \in Sheets /\ q \in Nat /\ q <= Len(releases)
    BY <1>1, <1>4, VersionTyped DEF CreateRollback, Release
  <2>2. /\ r = Len(releases) + 1
        /\ releases'[r].sheet = releases[q].sheet /\ releases'[r].base = q /\ releases'[r].job = NoJob
        /\ releases'[q] = releases[q]
    BY <1>2, <2>1
  <2>3. IsPublished(q)'
    BY <2>1, <2>2, ReleasesTyped DEF IsPublished, ReleasesKept
  <2> QED
    BY <1>1, <2>1, <2>2, <2>3 DEF Follows
<1>5. ASSUME NEW j \in Jobs, CreateSuccessor(j) PROVE Follows(r)'
  <2> DEFINE base == source[j]
             sheet == ApplyChanges(base, Plan(j))
  <2>1. /\ Ready(j) /\ IsPublished(base) /\ AddDraft(sheet, base, j) /\ UNCHANGED jobVars
    BY <1>5 DEF CreateSuccessor, CreateFromRegrade
  <2>2. base \in Versions /\ base \in Nat /\ base <= Len(releases)
    BY <1>1, <2>1 DEF IsPublished
  <2>3. /\ sheet \in Sheets
        /\ \A p \in Papers : sheet[p] = IF p \in Changed(j) THEN revised[j][p] ELSE releases[base].sheet[p]
    BY <2>2, ChangesTyped
  <2> HIDE DEF sheet
  <2>4. /\ r = Len(releases) + 1
        /\ releases'[r].sheet = sheet /\ releases'[r].base = base /\ releases'[r].job = j
        /\ releases'[base] = releases[base]
    BY <1>2, <2>1, <2>2, <2>3
  <2>5. IsPublished(base)'
    BY <2>1, <2>2, <2>4, ReleasesTyped DEF IsPublished, ReleasesKept, jobVars
  <2>6. Ready(j)' /\ source'[j] = base /\ Changed(j)' = Changed(j) /\ revised' = revised
    BY <2>1 DEF jobVars, Ready, Changed, Items
  <2>7. j # NoJob
    BY ReleaseConstantsOK DEF ReleaseConstantsOK
  <2> QED
    BY <1>1, <2>2, <2>3, <2>4, <2>5, <2>6, <2>7 DEF Follows
<1>6. ASSUME NEW q \in Versions, Publish(q) PROVE FALSE
  BY <1>1, <1>6, DraftPublished, ReleasesTyped
<1>7. CASE UNCHANGED releases
  BY <1>7 DEF Versions
<1> QED
  BY <1>3, <1>4, <1>5, <1>6, <1>7, NewVersions

-----------------------------------------------------------------------------
LEMMA InitSound == Init => Sound
<1> SUFFICES ASSUME Init PROVE Sound
  OBVIOUS
<1>1. TypeOK
  BY InitTyped
<1>2. releases = <<>> /\ cleared = <<>> /\ \A j \in Jobs : job[j] = "none"
  BY DEF Init, ReleaseInit
<1>3. SourcePublished /\ ReadyClosed /\ ClearedSawReady
  BY <1>2 DEF SourcePublished, ReadyClosed, ClearedSawReady, Ready
<1>4. Bounded /\ SuccessorsFollowSource
  BY <1>2, ReleaseConstantsOK DEF ReleaseConstantsOK, Bounded, SuccessorsFollowSource, Versions
<1> QED
  BY <1>1, <1>3, <1>4 DEF Sound

LEMMA NextSound == Sound /\ [Next]_vars => Sound'
<1> SUFFICES ASSUME Sound, [Next]_vars PROVE Sound'
  OBVIOUS
<1>1. /\ TypeOK /\ Bounded /\ SourcePublished /\ ReadyClosed /\ ClearedSawReady
      /\ \A r \in Versions : Follows(r)
  BY DEF Sound, SuccessorsFollowSource, Follows
<1>2. TypeOK' /\ Bounded'
  BY <1>1, NextTyped, ReleasesTyped
<1>3. SourcePublished' /\ ReadyClosed' /\ ClearedSawReady'
  BY <1>1, NextSourcePublished, NextReadyClosed, NextClearedSawReady
<1>4. \A r \in Versions' : Follows(r)'
  BY <1>1, OldFollows, NewFollows
<1>5. SuccessorsFollowSource'
  BY <1>4 DEF SuccessorsFollowSource, Follows
<1> QED
  BY <1>2, <1>3, <1>5 DEF Sound

LEMMA AlwaysSound == Spec => []Sound
BY InitSound, NextSound, PTL DEF Spec

(* Rows keep their types: the advisory lock and the row locks of           *)
(* scorerelease and regrade are enough for every number of jobs.           *)
THEOREM Types == Spec => []TypeOK
<1>1. Sound => TypeOK
  BY DEF Sound
<1> QED
  BY AlwaysSound, <1>1, PTL

(* A rollback repeats the release it goes back to, and the successor made  *)
(* by CreateFromRegrade is its source with the accepted items of its job.  *)
THEOREM Successors == Spec => []SuccessorsFollowSource
<1>1. Sound => SuccessorsFollowSource
  BY DEF Sound
<1> QED
  BY AlwaysSound, <1>1, PTL

(* A job that Finalize has closed has no open item and never changes.      *)
THEOREM PlansFrozen == Spec => ReadyPlansFrozen
<1>1. Sound /\ [Next]_vars =>
        [\A j \in Jobs : Ready(j) =>
           /\ \A p \in Items(j) : item[j][p] = "resolved"
           /\ <<job[j], source[j], item[j], revised[j]>>' = <<job[j], source[j], item[j], revised[j]>>]_vars
  BY NextJobsKept DEF Sound, ReadyClosed, JobsKept
<1> QED
  BY <1>1, AlwaysSound, PTL DEF Spec, ReadyPlansFrozen

(* What the coordinator's recheck saw unfinished keeps it from publishing, *)
(* however long the publication takes to follow.                           *)
THEOREM OnlyNewSlipIn == Spec => OnlyNewRegradesSlipIn
<1>1. Sound /\ [Next]_vars =>
        [\A r \in Versions : ~IsPublished(r) /\ IsPublished(r)' => \A j \in cleared[r] : Ready(j)]_vars
  <2> SUFFICES ASSUME Sound, Next, NEW r \in Versions, ~IsPublished(r), IsPublished(r)'
               PROVE  \A j \in cleared[r] : Ready(j)
    OBVIOUS
  <2>t. TypeOK /\ Bounded
    BY DEF Sound
  <2>1. ASSUME NEW q \in Versions, Publish(q) PROVE r = q
    BY <2>1, <2>t, DraftPublished, ReleasesTyped DEF IsPublished
  <2>2. ASSUME NewDraft PROVE FALSE
    BY <2>2, <2>t, DraftAdded DEF NewDraft, IsPublished
  <2>3. ASSUME UNCHANGED <<releases, current>> PROVE FALSE
    BY <2>3 DEF IsPublished, Versions
  <2>4. Publish(r)
    BY <2>1, <2>2, <2>3, <2>t, ReleaseSteps DEF NewPublic
  <2> QED
    BY <2>4 DEF Publish, Sound, ClearedSawReady
<1> QED
  BY <1>1, AlwaysSound, PTL DEF Spec, OnlyNewRegradesSlipIn

-----------------------------------------------------------------------------
(* The public releases implement ResultHistory: every publication replaces *)
(* what was shown, and nothing else that happens is visible.               *)
LEMMA InitHistory == Init => History!Init
<1> SUFFICES ASSUME Init PROVE History!Init
  OBVIOUS
<1>1. releases = <<>> /\ current = 0
  BY DEF Init, ReleaseInit
<1>2. {v \in Versions : IsPublished(v)} = {}
  BY <1>1 DEF Versions
<1>3. PublicHistory = <<>>
  BY <1>2 DEF PublicHistory
<1> QED
  BY <1>1, <1>3 DEF History!Init

LEMMA NextHistory == ASSUME TypeOK, Bounded, [Next]_vars PROVE [History!Next]_(History!historyVars)
<1>1. CASE NewPublic
  <2> PICK r \in Versions : Publish(r)
    BY <1>1 DEF NewPublic
  <2>1. /\ Versions = 1..Len(releases) /\ Versions' = Versions /\ r \in 1..MaxReleases
        /\ releases[r] \in Release
    <3>1. Versions = 1..Len(releases) /\ Len(releases) \in Nat /\ releases[r] \in Release
      BY VersionTyped
    <3>2. Len(releases') = Len(releases) /\ Versions' = 1..Len(releases')
      BY DraftPublished, ReleasesTyped
    <3> QED
      BY <3>1, <3>2, ReleaseConstantsOK DEF Bounded, ReleaseConstantsOK
  <2>2. /\ releases'[r].status = "published" /\ releases'[r].sheet = releases[r].sheet
        /\ releases'[r].supersedes = current /\ releases[r].sheet \in Sheets
    BY <2>1, DraftPublished DEF Release
  <2>3. \A v \in Versions : v # r => releases'[v] = releases[v]
    BY DraftPublished
  <2>4. ~IsPublished(r) /\ current' = r
    BY DEF Publish, IsPublished
  <2>5. {v \in Versions : IsPublished(v)}' = {v \in Versions : IsPublished(v)} \cup {r}
    BY <2>1, <2>2, <2>3 DEF IsPublished
  <2>6. PublicHistory' = [v \in DOMAIN PublicHistory \cup {r} |->
                            IF v = r THEN [sheet |-> releases[r].sheet, replaces |-> current]
                            ELSE PublicHistory[v]]
    BY <2>2, <2>3, <2>5 DEF PublicHistory
  <2>7. r \notin DOMAIN PublicHistory
    BY <2>4 DEF PublicHistory
  <2>8. History!Publish(r, releases[r].sheet)
    BY <2>4, <2>6, <2>7 DEF History!Publish
  <2> QED
    BY <2>1, <2>2, <2>8 DEF History!Next
<1>2. CASE NewDraft
  <2> PICK sheet \in Sheets, base \in Nat, k \in Jobs \cup {NoJob} : AddDraft(sheet, base, k)
    BY <1>2 DEF NewDraft
  <2>1. /\ Versions = 1..Len(releases) /\ Versions' = 1..(Len(releases) + 1) /\ Len(releases) \in Nat
        /\ \A v \in Versions : releases'[v] = releases[v]
        /\ releases'[Len(releases) + 1] = Draft(sheet, base, k)
        /\ UNCHANGED current
    BY VersionTyped, DraftAdded, ReleasesTyped DEF AddDraft
  <2>2. {v \in Versions : IsPublished(v)}' = {v \in Versions : IsPublished(v)}
    BY <2>1 DEF IsPublished, Draft
  <2>3. PublicHistory' = PublicHistory
    BY <2>1, <2>2 DEF PublicHistory
  <2> QED
    BY <2>1, <2>3 DEF History!historyVars
<1>3. CASE UNCHANGED <<releases, current>>
  BY <1>3 DEF History!historyVars, PublicHistory, IsPublished, Versions
<1> QED
  BY <1>1, <1>2, <1>3, ReleaseSteps

(* Releases and regrades keep the promise of ResultHistory to those who     *)
(* have seen a result: Publish only adds to what is public, and names the  *)
(* release it takes over from.                                             *)
THEOREM Refinement == Spec => ImplementsHistory
<1>1. Sound /\ [Next]_vars => [History!Next]_(History!historyVars)
  BY NextHistory DEF Sound
<1> QED
  BY <1>1, InitHistory, AlwaysSound, PTL DEF Spec, ImplementsHistory, History!Spec
=============================================================================
