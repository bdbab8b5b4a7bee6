---------------------------- MODULE CaptureUpload ----------------------------
(***************************************************************************)
(* How a scan gets from the workstation into a capture batch               *)
(* (internal/captureupload, apps/desktop-client).  The workstation sends   *)
(* the original in chunks to a session that confirms an offset, then asks  *)
(* the server to complete it.  The server checks the bytes it has kept,    *)
(* stores them as a file asset (FileStore), registers that asset with the  *)
(* batch and marks the session completed, each in a transaction of its     *)
(* own.  The workstation keeps its original until it hears "completed".    *)
(*                                                                         *)
(* The scans are copies of one page in one batch, so that they share an    *)
(* asset.  Requests are lost, or handled after the workstation has given   *)
(* them up; the process that completes a session may die at any step.      *)
(***************************************************************************)
EXTENDS FileStore, Sequences

CONSTANTS
  Chunks,     \* the number of chunks of a scan
  MaxBad,     \* bound on the chunks sent that are not what was hashed
  MaxTroubles \* bound on requests given up and on failing calls

Scans == Runs

ASSUME CaptureConstantsOK == Chunks \in Nat \ {0} /\ MaxBad \in Nat /\ MaxTroubles \in Nat

VARIABLES
  desk,    \* the workstation: idle, sending, asking, served, done
  at,      \*   the offset it knows to be confirmed
  good,    \*   whether the chunk it sends is the original that was hashed
  late,    \* requests given up that may still reach the server
  session, \* capture_upload_session.status, "none" when there is no session
  chunks,  \* capture_upload_chunk: for each chunk, whether it is the original
  file,    \* capture_file: its status, "none" when there is no row
  asset,   \*   its file_asset_id
  batch,   \* capture_batch: open, or closed (completed, cancelled)
  bad, troubles \* how often the bounded events have happened

deskVars    == <<desk, at, good, bad>>
sessionVars == <<session, chunks>>
batchVars   == <<file, asset, batch>>
captureVars == <<deskVars, late, sessionVars, batchVars, troubles>>
vars        == <<storeVars, captureVars>>

Init ==
  /\ InitStore
  /\ desk = [s \in Scans |-> "idle"] /\ at = [s \in Scans |-> 0]
  /\ good = [s \in Scans |-> TRUE] /\ bad = 0
  /\ late = {}
  /\ session = [s \in Scans |-> "none"] /\ chunks = [s \in Scans |-> <<>>]
  /\ file = [s \in Scans |-> "none"] /\ asset = [s \in Scans |-> 0] /\ batch = "open"
  /\ troubles = 0

-----------------------------------------------------------------------------
(* The workstation: resumeCaptureUpload, started over after every error.   *)

Offset(s) == Len(chunks[s])
Trouble == troubles < MaxTroubles /\ troubles' = troubles + 1

(* Init: refused when the batch is closed; it adds no second session. *)
InitSession(s) ==
  /\ desk[s] = "idle" /\ session[s] = "none" /\ batch = "open"
  /\ session' = [session EXCEPT ![s] = "uploading"]
  /\ UNCHANGED <<storeVars, deskVars, late, chunks, batchVars, troubles>>

(* The next request, from the offset the server has answered. *)
Continue(s, offset) ==
  /\ at' = [at EXCEPT ![s] = offset]
  /\ IF offset = Chunks
       THEN desk' = [desk EXCEPT ![s] = "asking"] /\ UNCHANGED <<good, bad>>
       ELSE /\ desk' = [desk EXCEPT ![s] = "sending"]
            /\ \/ good' = [good EXCEPT ![s] = TRUE] /\ UNCHANGED bad
               \/ bad < MaxBad /\ bad' = bad + 1 /\ good' = [good EXCEPT ![s] = FALSE]

(* Whatever the workstation hears else, it no longer needs the offset. *)
Hear(s, what) ==
  /\ desk' = [desk EXCEPT ![s] = what]
  /\ at' = [at EXCEPT ![s] = 0] /\ good' = [good EXCEPT ![s] = TRUE]
  /\ UNCHANGED bad

(* Init of a session there is, or the recovery query. *)
Open(s) ==
  /\ desk[s] = "idle"
  /\ \/ session[s] = "uploading" /\ Continue(s, Offset(s))
     \/ session[s] = "completed" /\ Hear(s, "done")
  /\ UNCHANGED <<storeVars, late, sessionVars, batchVars, troubles>>

(* The workstation stops waiting, or is started again: the request is lost *)
(* or still on its way.                                                    *)
Request(s) == [scan |-> s, offset |-> at[s], good |-> good[s]]
GiveUp(s, lost) ==
  /\ desk[s] \in {"sending", "asking", "served"} /\ Trouble
  /\ Hear(s, "idle")
  /\ late' = IF lost \/ desk[s] = "served" THEN late ELSE late \cup {Request(s)}
  /\ UNCHANGED <<storeVars, sessionVars, batchVars>>

-----------------------------------------------------------------------------
(* The requests at the server; `awaited` says that the workstation waits   *)
(* for this one.                                                           *)

Answer(s, awaited, what) == IF awaited THEN Hear(s, what) ELSE UNCHANGED deskVars
Confirm(s, awaited, offset) == IF awaited THEN Continue(s, offset) ELSE UNCHANGED deskVars

AppendsAnywhere(m) == session[m.scan] = "uploading"  \* faulty Appends: at any offset
Appends(m) == session[m.scan] = "uploading" /\ m.offset = Offset(m.scan)
Replays(m) ==
  \/ session[m.scan] = "completed"
  \/ /\ session[m.scan] = "uploading" /\ m.offset < Offset(m.scan)
     /\ chunks[m.scan][m.offset + 1] = m.good

AppendChunk(m, awaited) ==
  LET s == m.scan IN
  /\ m.offset < Chunks
  /\ \/ /\ Appends(m)
        /\ chunks' = [chunks EXCEPT ![s] = Append(@, m.good)]
        /\ Confirm(s, awaited, m.offset + 1)
     \/ /\ Replays(m)
        /\ Confirm(s, awaited, IF session[s] = "completed" THEN Chunks ELSE Offset(s))
        /\ UNCHANGED chunks
     \/ ~Appends(m) /\ ~Replays(m) /\ Answer(s, awaited, "idle") /\ UNCHANGED chunks
  /\ UNCHANGED <<step, session>>

(* BeginComplete: one request at a time gets to complete a session. *)
Ready(s) == session[s] = "uploading" /\ Offset(s) = Chunks
BeginComplete(m, awaited) ==
  LET s == m.scan IN
  /\ m.offset = Chunks
  /\ \/ /\ Ready(s)
        /\ session' = [session EXCEPT ![s] = "finalizing"]
        /\ Go(s, "verify") /\ Answer(s, awaited, "served")
     \/ /\ session[s] = "completed"
        /\ Answer(s, awaited, "done") /\ UNCHANGED <<session, step>>
     \/ /\ ~Ready(s) /\ session[s] # "completed"
        /\ Answer(s, awaited, "idle") /\ UNCHANGED <<session, step>>
  /\ UNCHANGED chunks

Serve(m, awaited) ==
  /\ AppendChunk(m, awaited) \/ BeginComplete(m, awaited)
  /\ UNCHANGED <<fileVars, objects, drawn, slotVars, listed, adopted, batchVars, troubles>>

Deliver(s) ==
  /\ desk[s] \in {"sending", "asking"}
  /\ Serve(Request(s), TRUE) /\ UNCHANGED late
DeliverLate(m) ==
  /\ m \in late
  /\ Serve(m, FALSE) /\ late' = late \ {m}

-----------------------------------------------------------------------------
(* Complete, once the session is its own. *)

Whole(s) == \A i \in 1..Len(chunks[s]) : chunks[s][i]
Unverified(s) == TRUE  \* faulty Verified: the hash is not compared
Verified(s) == Whole(s)
Stored(s) == IF Whole(s) THEN "right" ELSE "wrong"

(* The handler ends: whoever still waits for it is answered. *)
End(s, status, what) ==
  /\ session[s] = "finalizing"
  /\ session' = [session EXCEPT ![s] = status]
  /\ chunks' = IF status = "uploading" THEN chunks ELSE [chunks EXCEPT ![s] = <<>>]
  /\ Turn(s, "idle") /\ Answer(s, desk[s] = "served", what)
  /\ UNCHANGED <<fileVars, objects, drawn, listed, adopted, late, batchVars, troubles>>

Verify(s) ==
  /\ step[s] = "verify"
  /\ IF Verified(s)
       THEN Turn(s, "prepare") /\ UNCHANGED <<fileVars, objects, drawn, listed, adopted, captureVars>>
       ELSE End(s, "failed", "idle")

(* findOrCreateAsset: nothing but an active asset is used again. *)
AnyAsset(r) == TRUE     \* faulty Usable: an upload under way will do
NoAsset(r) == FALSE     \* faulty Usable: nor is an active one
Usable(r) == life[r] = "active"
Prepare(s) ==
  /\ step[s] = "prepare"
  /\ \/ /\ Found # 0 /\ Usable(Found)
        /\ row' = [row EXCEPT ![s] = Found] /\ Go(s, "register")
        /\ UNCHANGED <<drawn, key>>
     \/ /\ Found # 0 /\ ~Usable(Found)
        /\ Go(s, "resume") /\ UNCHANGED <<row, drawn, key>>
     \/ Found = 0 /\ DrawKey(s) /\ Go(s, "create") /\ UNCHANGED row
  /\ UNCHANGED <<fileVars, objects, seen, listed, adopted, captureVars>>

CreateAsset(s) == Create(s, "resume") /\ UNCHANGED captureVars
Put(s) ==
  /\ \/ PutSucceeds(s, Stored(s))
     \/ \E stored \in BOOLEAN : PutFails(s, Stored(s), stored, "resume")
  /\ UNCHANGED captureVars
ActivateAsset(s) ==
  /\ Activate(s, IF Activated(s) THEN "register" ELSE "resume")
  /\ UNCHANGED captureVars

(* RegisterFile, under the lock of the batch: the first row of the content *)
(* is live, the next is a duplicate; a second call finds the row.          *)
NoneLive(s) == \A t \in Scans : file[t] # "uploaded"
Register(s) ==
  /\ step[s] = "register"
  /\ IF batch = "open"
       THEN /\ IF file[s] = "none"
                 THEN /\ file' = [file EXCEPT ![s] = IF NoneLive(s) THEN "uploaded" ELSE "duplicate"]
                      /\ asset' = [asset EXCEPT ![s] = row[s]]
                 ELSE UNCHANGED <<file, asset>>
            /\ Go(s, "complete")
       ELSE Go(s, "resume") /\ UNCHANGED <<file, asset>>
  /\ UNCHANGED <<fileVars, objects, drawn, slotVars, listed, adopted, deskVars, late,
                 sessionVars, batch, troubles>>

Complete(s) == step[s] = "complete" /\ End(s, "completed", "done")
Resume(s) == step[s] = "resume" /\ End(s, "uploading", "idle")

(* The call of this step fails, or the answer of the one before is lost    *)
(* after it took effect.                                                   *)
CallFails(s) ==
  /\ step[s] \notin {"idle", "resume"} /\ Trouble
  /\ Go(s, "resume")
  /\ UNCHANGED <<fileVars, objects, drawn, slotVars, listed, adopted, deskVars, late,
                 sessionVars, batchVars>>

(* The handler ends without a word: its process dies, or the workstation   *)
(* hangs up and the calls that are left find their context cancelled.      *)
Abandon(s) ==
  /\ step[s] # "idle" /\ Turn(s, "idle")
  /\ Answer(s, desk[s] = "served", "idle")
  /\ UNCHANGED <<fileVars, objects, drawn, listed, adopted, late, sessionVars,
                 batchVars, troubles>>

SetBatchStatus ==
  /\ batch' = IF batch = "open" THEN "closed" ELSE "open"
  /\ UNCHANGED <<storeVars, deskVars, late, sessionVars, file, asset, troubles>>

-----------------------------------------------------------------------------
Desk(s) == InitSession(s) \/ Open(s) \/ Deliver(s)
Work(s) ==
  \/ Verify(s) \/ Prepare(s) \/ CreateAsset(s) \/ Put(s) \/ ActivateAsset(s)
  \/ Register(s) \/ Complete(s) \/ Resume(s)

Next ==
  \/ \E s \in Scans :
       \/ Desk(s) \/ Work(s)
       \/ \E lost \in BOOLEAN : GiveUp(s, lost)
       \/ CallFails(s) \/ Abandon(s)
  \/ \E m \in late : DeliverLate(m)
  \/ SetBatchStatus
  \/ NextStore /\ UNCHANGED captureVars

Spec == Init /\ [][Next]_vars

(* A workstation that is on starts over and its requests arrive unless it  *)
(* gives them up; a server that runs takes its next step.                  *)
FairSpec == Spec /\ \A s \in Scans : WF_vars(Desk(s)) /\ WF_vars(Work(s))

-----------------------------------------------------------------------------
TypeOK ==
  /\ TypeOKStore
  /\ desk \in [Scans -> {"idle", "sending", "asking", "served", "done"}]
  /\ at \in [Scans -> 0..Chunks] /\ good \in [Scans -> BOOLEAN]
  /\ late \subseteq [scan : Scans, offset : 0..Chunks, good : BOOLEAN]
  /\ session \in [Scans -> {"none", "uploading", "finalizing", "completed", "failed"}]
  /\ chunks \in [Scans -> Seq(BOOLEAN)] /\ \A s \in Scans : Offset(s) <= Chunks
  /\ file \in [Scans -> {"none", "uploaded", "duplicate"}]
  /\ asset \in [Scans -> Rows \cup {0}] /\ batch \in {"open", "closed"}
  /\ bad \in 0..MaxBad /\ troubles \in 0..MaxTroubles

(* A workstation that has heard "completed", and may let go of the         *)
(* original, has left a registered file behind, and the asset of that file *)
(* did reach the store: it is active, or has been since.                   *)
DoneIsRegistered == \A s \in Scans :
  /\ desk[s] = "done" => session[s] = "completed"
  /\ session[s] = "completed" => file[s] # "none"
  /\ file[s] # "none" => life[asset[s]] \notin Unfinished \cup {"none", "orphan_recovered"}

(* Of the copies of a page, one is live in the batch, however often and in *)
(* whatever order their sessions are completed.                            *)
OneLiveFile ==
  (\E s \in Scans : file[s] # "none") => \E s \in Scans : /\ file[s] = "uploaded"
                                                         /\ \A t \in Scans \ {s} : file[t] # "uploaded"

(* A scan ends, confirmed or refused for its bytes, if from some time on   *)
(* the batch is open, its session has not been left in "finalizing", and   *)
(* the asset of the content is active or on its way to it.                 *)
Workable(s) ==
  /\ batch = "open"
  /\ session[s] = "finalizing" => step[s] # "idle"
  /\ IF Found = 0
       THEN Free # {} /\ drawn + 1 \in Keys  \* the bounds
       ELSE life[Found] = "active" \/ \E t \in Scans : row[t] = Found /\ step[t] \in {"put", "activate"}
Ended(s) == desk[s] = "done" \/ session[s] = "failed"
EveryScanEnds == \A s \in Scans : <>[]Workable(s) => <>Ended(s)
=============================================================================
