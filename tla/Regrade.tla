------------------------------- MODULE Regrade -------------------------------
(***************************************************************************)
(* Regrading a question after its scores are public (internal/regrade) and *)
(* the hand-over to a successor release (internal/regraderelease), on top  *)
(* of ScoreRelease.  Every call holds the row lock of the job and is one   *)
(* step; the job is created under the advisory lock of the exam.           *)
(***************************************************************************)
EXTENDS ScoreRelease

CONSTANT NoScore

ASSUME RegradeConstantsOK == NoScore \notin Scores

VARIABLES
  job,      \* regrade_job.status, "none" when there is no row
  source,   \*   source_release_id
  item,     \* regrade_item.status of each paper, "out" when not selected
  revised   \*   reviewed_score

jobVars == <<job, source, item, revised>>
vars == <<releaseVars, jobVars>>

Items(j) == {p \in Papers : item[j][p] # "out"}
Working(j) == job[j] \in {"running", "diff_review"}
Ready(j) == job[j] = "ready_for_release"
Created == {j \in Jobs : job[j] # "none"}

Init ==
  /\ ReleaseInit
  /\ job = [j \in Jobs |-> "none"]
  /\ source = [j \in Jobs |-> 0]
  /\ item = [j \in Jobs |-> [p \in Papers |-> "out"]]
  /\ revised = [j \in Jobs |-> [p \in Papers |-> NoScore]]

-----------------------------------------------------------------------------
CreateJob(j, r, selected) ==
  /\ job[j] = "none" /\ IsPublished(r) /\ selected # {}
  /\ job' = [job EXCEPT ![j] = "awaiting_approval"]
  /\ source' = [source EXCEPT ![j] = r]
  /\ item' = [item EXCEPT ![j] = [p \in Papers |-> IF p \in selected THEN "pending" ELSE "out"]]
  /\ UNCHANGED <<releaseVars, revised>>

Move(j, from, to) ==
  /\ job[j] \in from
  /\ job' = [job EXCEPT ![j] = to]
  /\ UNCHANGED <<releaseVars, source, item, revised>>

Approve(j) == Move(j, {"awaiting_approval"}, "approved")
Start(j) == Move(j, {"approved"}, "running")
Pause(j) == Move(j, {"running", "diff_review"}, "paused")
Resume(j) == Move(j, {"paused"}, "running")

OutstandingIgnored(j) == FALSE  \* faulty: a plan may be frozen with open items
Outstanding(j) == \E p \in Items(j) : item[j][p] # "resolved"
Finalize(j) == ~Outstanding(j) /\ Move(j, {"diff_review"}, "ready_for_release")

ClaimableFirst(j) == job[j] = "running"  \* faulty: no more claims after a candidate
Claimable(j) == Working(j)

Claim(j, p) ==
  /\ Claimable(j) /\ item[j][p] = "pending"
  /\ item' = [item EXCEPT ![j][p] = "claimed"]
  /\ UNCHANGED <<releaseVars, job, source, revised>>

RecordCandidate(j, p) ==
  /\ Working(j) /\ item[j][p] = "claimed"
  /\ item' = [item EXCEPT ![j][p] = "awaiting_review"]
  /\ job' = [job EXCEPT ![j] = "diff_review"]
  /\ UNCHANGED <<releaseVars, source, revised>>

(* Accepted with a score, rejected without one, or marked an exception. *)
Accept(j, p, x) ==
  /\ Working(j) /\ item[j][p] = "awaiting_review"
  /\ item' = [item EXCEPT ![j][p] = "resolved"]
  /\ revised' = [revised EXCEPT ![j][p] = x]
  /\ UNCHANGED <<releaseVars, job, source>>

Decline(j, p, outcome) ==
  /\ Working(j) /\ item[j][p] = "awaiting_review"
  /\ item' = [item EXCEPT ![j][p] = outcome]
  /\ UNCHANGED <<releaseVars, job, source, revised>>

Review(j, p) ==
  \/ \E x \in Scores : Accept(j, p, x)
  \/ \E outcome \in {"resolved", "exception"} : Decline(j, p, outcome)

Work(j) == \E p \in Papers : Claim(j, p) \/ RecordCandidate(j, p) \/ Review(j, p)

(* The plan of a finished job: its accepted scores. *)
Changed(j) == {p \in Items(j) : revised[j][p] # NoScore}
Plan(j) == [p \in Changed(j) |-> revised[j][p]]

CreateSuccessor(j) ==
  /\ Ready(j) /\ Changed(j) # {}
  /\ CreateFromRegrade(source[j], Plan(j), j)
  /\ UNCHANGED jobVars

BlockingActive == {j \in Jobs : job[j] \in {"approved", "running", "diff_review"}}  \* faulty
BlockingRegrades == {j \in Created : ~Ready(j)}

RecheckForPublish(r) ==
  /\ BlockingRegrades = {}
  /\ Clear(r, Created)
  /\ UNCHANGED jobVars

Next ==
  \/ ReleaseNext /\ UNCHANGED jobVars
  \/ \E r \in Versions : RecheckForPublish(r)
  \/ \E j \in Jobs :
       \/ \E r \in Versions, selected \in SUBSET Papers : CreateJob(j, r, selected)
       \/ Approve(j) \/ Start(j) \/ Pause(j) \/ Resume(j) \/ Finalize(j)
       \/ Work(j) \/ CreateSuccessor(j)

Spec == Init /\ [][Next]_vars

(* Staff attend to every job that is open to them again and again; whoever *)
(* pauses a job resumes it.                                                *)
FairSpec ==
  /\ Spec
  /\ \A j \in Jobs :
       WF_vars(Approve(j) \/ Start(j) \/ Resume(j)) /\ SF_vars(Work(j) \/ Finalize(j))

-----------------------------------------------------------------------------
JobStatus == {"none", "awaiting_approval", "approved", "running", "paused", "diff_review", "ready_for_release"}
ItemStatus == {"out", "pending", "claimed", "awaiting_review", "resolved", "exception"}

(* Jobs, items and releases have the types of their columns. *)
TypeOK ==
  /\ ReleaseTypeOK
  /\ job \in [Jobs -> JobStatus]
  /\ source \in [Jobs -> 0..Len(releases)]
  /\ item \in [Jobs -> [Papers -> ItemStatus]]
  /\ revised \in [Jobs -> [Papers -> Scores \cup {NoScore}]]

(* A successor is made of its source and nothing else: a rollback repeats  *)
(* it, and the release of a regrade differs from it in the accepted items  *)
(* of its job only, whatever has happened to the score book meanwhile and  *)
(* whatever happens to the job afterwards.                                 *)
SuccessorsFollowSource ==
  \A r \in Versions :
    LET base == releases[r].base j == releases[r].job IN
    base # 0 =>
      /\ base < r /\ IsPublished(base)
      /\ j = NoJob => releases[r].sheet = releases[base].sheet
      /\ j # NoJob =>
           /\ Ready(j) /\ source[j] = base
           /\ \A p \in Papers : releases[r].sheet[p] =
                IF p \in Changed(j) THEN revised[j][p] ELSE releases[base].sheet[p]

(* A finished job is closed: none of its items is open, and it and they    *)
(* never change again, so that every release made from it is the same.     *)
ReadyPlansFrozen ==
  [][\A j \in Jobs : Ready(j) =>
       /\ \A p \in Items(j) : item[j][p] = "resolved"
       /\ <<job[j], source[j], item[j], revised[j]>>' = <<job[j], source[j], item[j], revised[j]>>]_vars

(* The recheck and the publication are two steps, and a regrade may be     *)
(* opened in between; but no release is published over a regrade that was  *)
(* there when the coordinator looked and is not finished yet.              *)
OnlyNewRegradesSlipIn ==
  [][\A r \in Versions :
       ~IsPublished(r) /\ IsPublished(r)' => \A j \in cleared[r] : Ready(j)]_vars

(* A regrade comes to an end, or is stranded in one of two ways: an item   *)
(* was marked an exception, or it was paused after its last candidate and  *)
(* Resume set it to running, which Finalize does not take.                 *)
Handled(j) == j \in Created /\ \A p \in Items(j) : item[j][p] \in {"resolved", "exception"}
Stranded(j) ==
  /\ Handled(j)
  /\ job[j] = "running" \/ \E p \in Items(j) : item[j][p] = "exception"
EveryRegradeEnds == \A j \in Jobs : j \in Created ~> Ready(j) \/ Stranded(j)

(* What the documents say: a job can be completed once all its items have *)
(* been accepted or rejected.                                              *)
Decided(j) == j \in Created /\ \A p \in Items(j) : item[j][p] = "resolved"
DecidedJobsFinish == \A j \in Jobs : Decided(j) ~> Ready(j)
=============================================================================
