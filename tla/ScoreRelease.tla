---------------------------- MODULE ScoreRelease -----------------------------
(***************************************************************************)
(* Score releases of one exam (internal/scorerelease) and the coordinator  *)
(* that publishes them after a quality gate (internal/releasegate): a      *)
(* release is a copy of the scores, made as a draft and published later;   *)
(* students see the one that score_release_current names.  Releases are    *)
(* numbered by their version.                                              *)
(*                                                                         *)
(* A sheet is the score of one question on each paper; totals are summed   *)
(* from it.  Creating and publishing hold the advisory lock of the exam    *)
(* and are one step each; the coordinator's recheck is a step of its own.  *)
(***************************************************************************)
EXTENDS Integers, Sequences

CONSTANTS
  Papers,
  Scores,
  Jobs,        \* regrade jobs a release may come from (module Regrade)
  NoJob,
  FirstBook,   \* the scores when they are confirmed
  MaxReleases  \* bound: releases created

ASSUME ReleaseConstantsOK == NoJob \notin Jobs /\ FirstBook \in [Papers -> Scores] /\ MaxReleases \in Nat

VARIABLES
  book,     \* final_grade: the score of each paper now
  doubled,  \* some paper has two final grades for the question
  releases, \* score_release by version, with its items
  current,  \* score_release_current, 0 when there is no row
  cleared   \* releases a coordinator is about to publish, with the jobs it
            \* saw finished (history)

bookVars == <<book, doubled>>
releaseVars == <<bookVars, releases, current, cleared>>

Sheets == [Papers -> Scores]
Versions == DOMAIN releases
IsPublished(r) == r \in Versions /\ releases[r].status = "published"

ReleaseInit ==
  /\ book = FirstBook
  /\ doubled = FALSE
  /\ releases = <<>>
  /\ current = 0
  /\ cleared = <<>>

-----------------------------------------------------------------------------
(* The score book changes beside the releases (module ScoreBook). *)

Adjust(p, x) ==
  /\ book' = [book EXCEPT ![p] = x]
  /\ UNCHANGED <<doubled, releases, current, cleared>>

(* A second pair of graders settles on a paper that has its final grade. *)
GradeAgain ==
  /\ doubled' = TRUE
  /\ UNCHANGED <<book, releases, current, cleared>>

-----------------------------------------------------------------------------
Draft(sheet, base, job) ==
  [status |-> "draft", sheet |-> sheet, base |-> base, job |-> job, supersedes |-> 0]

AddDraft(sheet, base, job) ==
  /\ Len(releases) < MaxReleases
  /\ releases' = Append(releases, Draft(sheet, base, job))
  /\ UNCHANGED <<bookVars, current, cleared>>

(* A draft holds one score per question: UNIQUE on score_release_question. *)
Create == ~doubled /\ AddDraft(book, 0, NoJob)

CreateRollback(r) == IsPublished(r) /\ AddDraft(releases[r].sheet, r, NoJob)

Corrected(sheet, changes) ==
  [p \in Papers |-> IF p \in DOMAIN changes THEN changes[p] ELSE sheet[p]]
ApplyOnly(r, changes) == changes                   \* faulty: other papers are left out
ApplyBook(r, changes) == Corrected(book, changes)  \* faulty: on the scores of today
ApplyChanges(r, changes) == Corrected(releases[r].sheet, changes)

CreateFromRegrade(r, changes, job) ==
  IsPublished(r) /\ AddDraft(ApplyChanges(r, changes), r, job)

(* The gate on the scores of today: every paper has one final grade. *)
GateOpen == ~doubled

(* The coordinator has rechecked the gate; it saw these jobs, all finished. *)
Clear(r, finished) ==
  /\ GateOpen
  /\ cleared' = [v \in DOMAIN cleared \cup {r} |-> IF v = r THEN finished ELSE cleared[v]]
  /\ UNCHANGED <<bookVars, releases, current>>

Forget(r) == cleared' = [v \in DOMAIN cleared \ {r} |-> cleared[v]]

MarkPublishedOnly(r) == [releases EXCEPT ![r].status = "published"]  \* faulty: link left out
MarkPublished(r) ==
  [releases EXCEPT ![r].status = "published", ![r].supersedes = current]

Publish(r) ==
  /\ r \in DOMAIN cleared /\ releases[r].status = "draft" /\ GateOpen
  /\ releases' = MarkPublished(r)
  /\ current' = r
  /\ Forget(r)
  /\ UNCHANGED bookVars

(* Published before, by another call, or refused by the gate. *)
PublishNot(r) ==
  /\ r \in DOMAIN cleared
  /\ IsPublished(r) \/ ~GateOpen
  /\ Forget(r)
  /\ UNCHANGED <<bookVars, releases, current>>

ReleaseNext ==
  \/ \E p \in Papers, x \in Scores : Adjust(p, x)
  \/ GradeAgain
  \/ Create
  \/ \E r \in Versions : CreateRollback(r) \/ Publish(r) \/ PublishNot(r)

-----------------------------------------------------------------------------
Release ==
  [status : {"draft", "published"}, sheet : Sheets, base : Nat, job : Jobs \cup {NoJob}, supersedes : Nat]

ReleaseTypeOK ==
  /\ book \in Sheets /\ doubled \in BOOLEAN
  /\ releases \in Seq(Release)
  /\ current \in 0..Len(releases)
  /\ DOMAIN cleared \subseteq Versions /\ \A r \in DOMAIN cleared : cleared[r] \subseteq Jobs

(* Whatever drafts, rollbacks and regrades are made and published in what  *)
(* order, what students see is a history that only grows: a public sheet   *)
(* is never changed or hidden without another that says it replaces it.    *)
PublicHistory ==
  [r \in {v \in Versions : IsPublished(v)} |->
     [sheet |-> releases[r].sheet, replaces |-> releases[r].supersedes]]
History == INSTANCE ResultHistory WITH Ids <- 1..MaxReleases, history <- PublicHistory, shown <- current
ImplementsHistory == History!Spec
=============================================================================
