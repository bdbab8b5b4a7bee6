------------------------------ MODULE FileStore ------------------------------
(***************************************************************************)
(* The file assets of one owner with one content (internal/files), and the *)
(* objects their bytes are stored in.  Metadata and objects are kept by    *)
(* two systems without a common transaction: every handler goes through    *)
(* lifecycle states, each change guarded by the row's revision, and an     *)
(* operator's repair run compares the two and settles what was left over.  *)
(*                                                                         *)
(* Requests are slots: a slot serves an upload or a deletion at a time,    *)
(* and may be lost with its process anywhere.  A storage key is random;    *)
(* keys are numbered in the order they are drawn.                          *)
(***************************************************************************)
EXTENDS Integers, FiniteSets

CONSTANTS
  Rows,        \* 1..n: the rows that may be inserted, in this order
  Keys,        \* 1..n: the storage keys that may be drawn
  Requests,    \* slots for upload and delete requests
  Runs,        \* other processes that store files: sessions of CaptureUpload
  MaxRevision  \* bound on the revision of a row

ASSUME FileConstantsOK ==
  /\ IsFiniteSet(Rows) /\ Rows = 1..Cardinality(Rows)
  /\ IsFiniteSet(Keys) /\ Keys = 1..Cardinality(Keys)
  /\ MaxRevision \in Nat /\ Requests \cap Runs = {}

VARIABLES
  life,     \* file_asset.lifecycle_status, "none" when there is no row
  revision, \*   revision
  home,     \*   storage_key
  objects,  \* object storage: what is stored under each key
  drawn,    \* how many keys have been drawn
  step,     \* per request or run: what it does next
  row, seen, key, \*   its asset, the revision it read, the key it stores under
  listed,   \* the repair run's copy of a row: number, lifecycle, revision
  adopted   \* history: rows whose upload was taken up by a later request

fileVars  == <<life, revision, home>>
slotVars  == <<row, seen, key>>
storeVars == <<fileVars, objects, drawn, step, slotVars, listed, adopted>>

Slots == Requests \cup Runs
Unfinished == {"pending_upload", "upload_failed"}
Lives == Unfinished \cup {"none", "active", "pending_delete", "delete_failed", "deleted",
                          "missing_object", "orphan_recovered"}
Bytes == {"absent", "right", "wrong"}

InitStore ==
  /\ life = [r \in Rows |-> "none"]
  /\ revision = [r \in Rows |-> 0] /\ home = [r \in Rows |-> 0]
  /\ objects = [k \in Keys |-> "absent"] /\ drawn = 0
  /\ step = [a \in Slots |-> "idle"]
  /\ row = [a \in Slots |-> 0] /\ seen = [a \in Slots |-> 0] /\ key = [a \in Slots |-> 0]
  /\ listed = [row |-> 0, life |-> "none", revision |-> 0]
  /\ adopted = {}

-----------------------------------------------------------------------------
(* What the handlers share. *)

(* FindDuplicate: the newest row that is not deleted, 0 when there is none. *)
Standing == {r \in Rows : life[r] \notin {"none", "deleted"}}
Found == IF Standing = {} THEN 0 ELSE CHOOSE r \in Standing : \A q \in Standing : q <= r

Free == {r \in Rows : life[r] = "none"}
NextRow == CHOOSE r \in Free : \A q \in Free : r <= q

(* transition: one UPDATE, of the revision that was read or of nothing. *)
AnyRevision(r, rev) == TRUE  \* faulty Unchanged: the revision is not compared
Unchanged(r, rev) == revision[r] = rev
Move(r, rev, from, to) ==
  IF life[r] \in from /\ Unchanged(r, rev)
    THEN /\ life' = [life EXCEPT ![r] = to]
         /\ revision' = [revision EXCEPT ![r] = @ + 1]
         /\ UNCHANGED home
    ELSE UNCHANGED fileVars

(* CreatePending, after it found no row: a row with the key drawn. *)
Insert(a) ==
  /\ life' = [life EXCEPT ![NextRow] = "pending_upload"]
  /\ home' = [home EXCEPT ![NextRow] = key[a]]
  /\ row' = [row EXCEPT ![a] = NextRow]
  /\ seen' = [seen EXCEPT ![a] = 0]
  /\ UNCHANGED revision

DrawKey(a) ==
  /\ drawn + 1 \in Keys
  /\ drawn' = drawn + 1
  /\ key' = [key EXCEPT ![a] = drawn + 1]

Go(a, next) == step' = [step EXCEPT ![a] = next]

(* An idle slot remembers nothing. *)
Forget(a) ==
  /\ row' = [row EXCEPT ![a] = 0]
  /\ seen' = [seen EXCEPT ![a] = 0]
  /\ key' = [key EXCEPT ![a] = 0]
Turn(a, next) ==
  /\ Go(a, next)
  /\ IF next = "idle" THEN Forget(a) ELSE UNCHANGED slotVars

(* Put, of these bytes; an answer that is lost leaves the object stored. *)
Store(a, bytes) == objects' = [objects EXCEPT ![key[a]] = bytes]
PutSucceeds(a, bytes) ==
  /\ step[a] = "put"
  /\ Store(a, bytes) /\ Turn(a, "activate")
  /\ UNCHANGED <<fileVars, drawn, listed, adopted>>
PutFails(a, bytes, stored, next) ==
  /\ step[a] = "put"
  /\ IF stored THEN Store(a, bytes) ELSE UNCHANGED objects
  /\ Move(row[a], seen[a], {"pending_upload"}, "upload_failed")
  /\ Turn(a, next)
  /\ UNCHANGED <<drawn, listed, adopted>>

Activated(a) == life[row[a]] \in Unfinished /\ Unchanged(row[a], seen[a])
Activate(a, next) ==
  /\ step[a] = "activate"
  /\ Move(row[a], seen[a], Unfinished, "active")
  /\ Turn(a, next)
  /\ UNCHANGED <<objects, drawn, listed, adopted>>

-----------------------------------------------------------------------------
(* Upload, of the content itself. *)

(* FindDuplicate: an active asset ends the request (200 or 409); an        *)
(* unfinished one is taken over; anything else, or nothing, goes on to     *)
(* CreatePending.  The new key is drawn in any case.                       *)
BeginUpload(q) ==
  /\ step[q] = "idle" /\ (Found # 0 => life[Found] # "active")
  /\ DrawKey(q)
  /\ IF Found # 0 /\ life[Found] \in Unfinished
       THEN /\ row' = [row EXCEPT ![q] = Found]
            /\ seen' = [seen EXCEPT ![q] = revision[Found]]
            /\ adopted' = adopted \cup {Found}
            /\ Go(q, "put")
       ELSE Go(q, "create") /\ UNCHANGED <<row, seen, adopted>>
  /\ UNCHANGED <<fileVars, objects, listed>>

(* CreatePending: refused when a row has appeared, or was there all along. *)
Create(a, refused) ==
  /\ step[a] = "create" /\ (Found = 0 => Free # {})
  /\ IF Found = 0
       THEN Insert(a) /\ Go(a, "put") /\ UNCHANGED key
       ELSE Turn(a, refused) /\ UNCHANGED fileVars
  /\ UNCHANGED <<objects, drawn, listed, adopted>>

-----------------------------------------------------------------------------
(* Delete. *)

BeginDelete(q, r) ==
  /\ step[q] = "idle" /\ life[r] \in {"active", "delete_failed"}
  /\ revision[r] < MaxRevision
  /\ Move(r, revision[r], {"active", "delete_failed"}, "pending_delete")
  /\ row' = [row EXCEPT ![q] = r]
  /\ seen' = [seen EXCEPT ![q] = revision[r] + 1]
  /\ Go(q, "remove")
  /\ UNCHANGED <<objects, drawn, key, listed, adopted>>

Remove(r) == objects' = [objects EXCEPT ![home[r]] = "absent"]
RemoveSucceeds(q) ==
  /\ step[q] = "remove"
  /\ Remove(row[q]) /\ Turn(q, "erase")
  /\ UNCHANGED <<fileVars, drawn, listed, adopted>>
RemoveFails(q) ==
  /\ step[q] = "remove"
  /\ Move(row[q], seen[q], {"pending_delete"}, "delete_failed") /\ Turn(q, "idle")
  /\ UNCHANGED <<objects, drawn, listed, adopted>>

CompleteDelete(q) ==
  /\ step[q] = "erase"
  /\ Move(row[q], seen[q], {"pending_delete"}, "deleted") /\ Turn(q, "idle")
  /\ UNCHANGED <<objects, drawn, listed, adopted>>

(* The process that serves the request dies. *)
Lose(q) ==
  /\ step[q] # "idle" /\ Turn(q, "idle")
  /\ UNCHANGED <<fileVars, objects, drawn, listed, adopted>>

-----------------------------------------------------------------------------
(* A repair run lists the rows first and inspects them later. *)

List(r) ==
  /\ r \in Standing
  /\ listed' = [row |-> r, life |-> life[r], revision |-> revision[r]]
  /\ UNCHANGED <<fileVars, objects, drawn, step, slotVars, adopted>>

(* setLifecycle and markDeleted: whatever the lifecycle is, of the         *)
(* revision listed.                                                        *)
Settle(to) == Move(listed.row, listed.revision, Lives \ {"deleted"}, to)

Inspect ==
  LET r == listed.row
      there == objects[home[r]] = "right"
  IN
  /\ r # 0 /\ listed.revision < MaxRevision
  /\ \/ /\ ~there /\ listed.life \in {"active", "orphan_recovered"}
        /\ Settle("missing_object") /\ UNCHANGED objects
     \/ /\ there /\ listed.life \in Unfinished
        /\ Settle("orphan_recovered") /\ UNCHANGED objects
     \/ /\ there /\ listed.life = "missing_object"
        /\ Settle("active") /\ UNCHANGED objects
     \/ /\ listed.life \in {"pending_delete", "delete_failed"}
        /\ Remove(r) /\ Settle("deleted")
     \/ /\ there /\ listed.life \in {"pending_delete", "delete_failed"}  \* Remove fails
        /\ Settle("delete_failed") /\ UNCHANGED objects
  /\ listed' = [row |-> 0, life |-> "none", revision |-> 0]
  /\ UNCHANGED <<drawn, step, slotVars, adopted>>

NextStore ==
  \/ \E q \in Requests :
       \/ BeginUpload(q) \/ Create(q, "idle")
       \/ PutSucceeds(q, "right") \/ Activate(q, "idle")
       \/ \E stored \in BOOLEAN : PutFails(q, "right", stored, "idle")
       \/ \E r \in Rows : BeginDelete(q, r)
       \/ RemoveSucceeds(q) \/ RemoveFails(q) \/ CompleteDelete(q)
       \/ Lose(q)
  \/ \E r \in Rows : List(r)
  \/ Inspect

-----------------------------------------------------------------------------
TypeOKStore ==
  /\ life \in [Rows -> Lives]
  /\ revision \in [Rows -> Nat]
  /\ home \in [Rows -> Keys \cup {0}]
  /\ objects \in [Keys -> Bytes]
  /\ drawn \in Keys \cup {0}
  /\ step \in [Slots -> {"idle", "create", "put", "activate", "remove", "erase",
                         "verify", "prepare", "resume", "register", "complete"}]
  /\ row \in [Slots -> Rows \cup {0}] /\ seen \in [Slots -> Nat]
  /\ key \in [Slots -> Keys \cup {0}]
  /\ listed \in [row : Rows \cup {0}, life : Lives, revision : Nat]
  /\ adopted \subseteq Rows

Kept(r) == life[r] = "active" => home[r] # 0 /\ objects[home[r]] = "right"

(* The bytes of every active asset are where its row says they are.        *)
ActiveHasObject == \A r \in Rows : Kept(r)

(* They are, whoever uploads, deletes and repairs at the same time and     *)
(* whatever gets lost in between, unless a later upload of the same        *)
(* content took the asset over.                                            *)
OnlyAdoptedLoseObjects == \A r \in Rows \ adopted : Kept(r)
=============================================================================
