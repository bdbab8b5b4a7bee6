------------------------- MODULE CaptureUploadProofs -------------------------
(***************************************************************************)
(* Theorems about CaptureUpload and FileStore, for any number of scans,    *)
(* chunks, requests, rows, keys and troubles.                              *)
(*                                                                         *)
(* The store's part of the invariant: a lifecycle only moves along its     *)
(* arrows, and never back from a deletion; homes are drawn once; and what  *)
(* a handler remembers of its row is still true of it, or the row has      *)
(* moved on in a way that its revision shows.  The capture's part ties     *)
(* the step of the handler to the session and to the registered file.      *)
(***************************************************************************)
EXTENDS CaptureUpload, FiniteSetTheorems, WellFoundedInduction, TLAPS

Doomed  == {"pending_delete", "delete_failed", "deleted"}
Settled == {"active", "missing_object"} \cup Doomed

(* What a handler may rely on when it takes its next step. *)
SlotSound(a) ==
  /\ step[a] \in {"put", "activate"} =>
       /\ row[a] \in Rows /\ life[row[a]] # "none" /\ key[a] # 0
       /\ row[a] \notin adopted => home[row[a]] = key[a]
  /\ step[a] = "activate" /\ row[a] \notin adopted /\ life[row[a]] \notin Doomed =>
       objects[home[row[a]]] = "right"
  /\ step[a] \in {"remove", "erase"} => row[a] \in Rows /\ life[row[a]] \in Doomed
  /\ step[a] = "create" => key[a] # 0 /\ \A r \in Rows : home[r] # key[a]
  /\ step[a] = "register" => row[a] \in Rows /\ life[row[a]] \in Settled

KeysSound ==
  /\ \A a, b \in Slots : step[a] = "create" /\ step[b] = "create" /\ key[a] = key[b] => a = b
  /\ \A r, q \in Rows : home[r] = home[q] /\ home[r] # 0 => r = q
  /\ \A a \in Slots : key[a] <= drawn
  /\ \A r \in Rows : home[r] <= drawn

RowSound(r) == life[r] # "none" => home[r] # 0 /\ (r \notin adopted => Kept(r))

(* A copy of a row is of its present state, or of an earlier revision. *)
ListedSound ==
  LET r == listed.row IN
  r # 0 => /\ life[r] # "none" /\ listed.revision <= revision[r]
           /\ listed.revision = revision[r] => listed.life = life[r]
           /\ listed.life \in Doomed => life[r] \in Doomed

StoreSound ==
  /\ TypeOKStore /\ KeysSound /\ ListedSound
  /\ \A a \in Slots : SlotSound(a)
  /\ \A r \in Rows : RowSound(r)

-----------------------------------------------------------------------------
LEMMA Numbers ==
  /\ Rows \subseteq Nat /\ Keys \subseteq Nat /\ 0 \notin Rows /\ 0 \notin Keys
  /\ \A d \in Keys \cup {0} : d \in Nat
BY FileConstantsOK, FS_CardinalityType DEF FileConstantsOK

LEMMA LeastNumber ==
  ASSUME NEW T \in SUBSET Nat, T # {} PROVE \E m \in T : \A n \in T : m <= n
<1> DEFINE Less == OpToRel(<, Nat)
<1>1. IsWellFoundedOn(Less, Nat)
  BY NatLessThanWellFounded
<1>2. \A x, y \in Nat : y < x => <<y, x>> \in Less
  BY DEF OpToRel
<1> HIDE DEF Less
<1>3. PICK m \in T : \A n \in T : ~(<<n, m>> \in Less)
  BY <1>1, WFMin
<1>4. ASSUME NEW n \in T PROVE m <= n
  <2>1. m \in Nat /\ n \in Nat
    BY <1>3
  <2>2. ~(n < m)
    BY <1>2, <1>3, <2>1
  <2> QED
    BY <2>1, <2>2
<1> QED
  BY <1>4

(* The newest row that stands, and the next that is free. *)
LEMMA SomeRow ==
  /\ Found # 0 => Found \in Standing
  /\ Free # {} => NextRow \in Free
<1> DEFINE Rest == {Cardinality(Rows) - r : r \in Standing}
<1>1. ASSUME Standing # {} PROVE \E r \in Standing : \A q \in Standing : q <= r
  <2>1. Cardinality(Rows) \in Nat /\ Rows = 1..Cardinality(Rows) /\ Standing \subseteq Rows
    BY FileConstantsOK, FS_CardinalityType DEF FileConstantsOK, Standing
  <2>2. Rest \in SUBSET Nat /\ Rest # {}
    <3>1. \A r \in Standing : Cardinality(Rows) - r \in Nat
      BY <2>1
    <3> QED
      BY <1>1, <3>1
  <2> HIDE DEF Rest
  <2>3. PICK m \in Rest : \A n \in Rest : m <= n
    BY <2>2, LeastNumber
  <2>4. PICK r \in Standing : m = Cardinality(Rows) - r
    BY <2>3 DEF Rest
  <2>5. ASSUME NEW q \in Standing PROVE q <= r
    <3>1. Cardinality(Rows) - q \in Rest
      BY DEF Rest
    <3>2. r \in Nat /\ q \in Nat
      BY <2>1
    <3> QED
      BY <2>1, <2>3, <2>4, <3>1, <3>2
  <2> QED
    BY <2>5
<1>2. ASSUME Free # {} PROVE \E r \in Free : \A q \in Free : r <= q
  <2>1. Free \in SUBSET Nat
    BY Numbers DEF Free
  <2> QED
    BY <1>2, <2>1, LeastNumber
<1>3. Found # 0 => Found \in Standing
  BY <1>1 DEF Found
<1>4. Free # {} => NextRow \in Free
  BY <1>2 DEF NextRow
<1> QED
  BY <1>3, <1>4

-----------------------------------------------------------------------------
(* What one step may do to the rows. *)
Arrow(from, to) ==
  \/ from = to
  \/ from = "none" /\ to = "pending_upload"
  \/ from \in Unfinished /\ to \in {"upload_failed", "active", "orphan_recovered"}
  \/ from \in {"active", "orphan_recovered"} /\ to = "missing_object"
  \/ from = "active" /\ to = "pending_delete"
  \/ from = "missing_object" /\ to = "active"
  \/ from \in Doomed /\ to \in Doomed

RowsMove ==
  \A r \in Rows :
    /\ Arrow(life[r], life'[r])
    /\ life[r] # "none" => home'[r] = home[r]
    /\ revision[r] <= revision'[r]
    /\ life[r] # "none" /\ life'[r] # life[r] => revision[r] < revision'[r]

(* One row changes at most, if its revision is the one that is known. *)
MovesOne(r, rev, from, to) ==
  \/ UNCHANGED fileVars
  \/ /\ life[r] \in from /\ revision[r] = rev /\ UNCHANGED home
     /\ life' = [life EXCEPT ![r] = to] /\ revision' = [revision EXCEPT ![r] = @ + 1]

LEMMA MoveRows ==
  ASSUME TypeOKStore, NEW r \in Rows, NEW rev, NEW from \in SUBSET Lives, NEW to \in Lives,
         Move(r, rev, from, to)
  PROVE  MovesOne(r, rev, from, to)
BY DEF Move, MovesOne, Unchanged

LEMMA MovedRows ==
  ASSUME TypeOKStore, NEW r \in Rows, NEW rev, NEW from \in SUBSET Lives, NEW to \in Lives,
         MovesOne(r, rev, from, to), \A l \in from : l = life[r] => l # "none" /\ Arrow(l, to)
  PROVE  /\ RowsMove /\ UNCHANGED home
         /\ life' \in [Rows -> Lives] /\ revision' \in [Rows -> Nat]
         /\ \A q \in Rows \ {r} : life'[q] = life[q]
         /\ life'[r] # life[r] => life'[r] = to
<1>1. life \in [Rows -> Lives] /\ revision \in [Rows -> Nat]
  BY DEF TypeOKStore
<1>2. CASE UNCHANGED fileVars
  BY <1>1, <1>2 DEF fileVars, RowsMove, Arrow
<1>3. CASE /\ life[r] \in from /\ revision[r] = rev /\ UNCHANGED home
           /\ life' = [life EXCEPT ![r] = to] /\ revision' = [revision EXCEPT ![r] = @ + 1]
  <2>1. /\ life' \in [Rows -> Lives] /\ revision' \in [Rows -> Nat]
        /\ life'[r] = to /\ revision'[r] = revision[r] + 1
        /\ \A q \in Rows \ {r} : life'[q] = life[q] /\ revision'[q] = revision[q]
    BY <1>1, <1>3
  <2>2. life[r] # "none" /\ Arrow(life[r], to)
    BY <1>3
  <2>3. ASSUME NEW q \in Rows PROVE Arrow(life[q], life'[q]) /\ revision[q] <= revision'[q]
                                    /\ (life'[q] # life[q] => revision[q] < revision'[q])
    BY <1>1, <2>1, <2>2 DEF Arrow
  <2> QED
    BY <1>3, <2>1, <2>3 DEF RowsMove
<1> QED
  BY <1>2, <1>3 DEF MovesOne

LEMMA Arrows ==
  ASSUME NEW from, NEW to, Arrow(from, to)
  PROVE  /\ from \in Doomed => to \in Doomed
         /\ from \in Settled => to \in Settled
         /\ from # "none" => to # "none"
BY DEF Arrow, Doomed, Settled, Unfinished

(* A copy that was true of its row stays so. *)
LEMMA ListedKept ==
  ASSUME StoreSound, RowsMove, UNCHANGED listed, revision' \in [Rows -> Nat]
  PROVE  ListedSound'
<1>1. listed.row # 0 => listed.row \in Rows /\ listed.revision \in Nat
  BY DEF StoreSound, TypeOKStore
<1>2. ASSUME NEW r \in Rows, listed.row = r, r # 0
      PROVE  /\ life'[r] # "none" /\ listed.revision <= revision'[r]
             /\ listed.revision = revision'[r] => listed.life = life'[r]
             /\ listed.life \in Doomed => life'[r] \in Doomed
  <2>1. /\ life[r] # "none" /\ listed.revision <= revision[r] /\ listed.revision \in Nat
        /\ listed.revision = revision[r] => listed.life = life[r]
        /\ listed.life \in Doomed => life[r] \in Doomed
        /\ revision[r] \in Nat /\ revision'[r] \in Nat
    BY <1>1, <1>2 DEF StoreSound, ListedSound, TypeOKStore
  <2>2. /\ Arrow(life[r], life'[r]) /\ revision[r] <= revision'[r]
        /\ life'[r] # life[r] => revision[r] < revision'[r]
    BY <2>1 DEF RowsMove
  <2> QED
    BY <2>1, <2>2, Arrows
<1> QED
  BY <1>1, <1>2 DEF ListedSound

-----------------------------------------------------------------------------
(* No object goes that a row which is not being deleted may need; and no   *)
(* row becomes active before its bytes are there.                          *)
ObjectsSafe ==
  \A r \in Rows : /\ life[r] \notin Doomed /\ home[r] # 0 /\ objects[home[r]] = "right"
                 => objects'[home[r]] = "right"

ActiveSafe ==
  \A r \in Rows : life'[r] = "active" /\ life[r] # "active" =>
                   r \in adopted \/ objects'[home[r]] = "right"

Same(b) == step'[b] = step[b] /\ row'[b] = row[b] /\ key'[b] = key[b]

LEMMA SlotKept ==
  ASSUME StoreSound, RowsMove, ObjectsSafe, adopted \subseteq adopted',
         NEW b \in Slots, Same(b),
         step[b] = "create" => \A r \in Rows : home'[r] # key[b]
  PROVE  SlotSound(b)'
<1> DEFINE r == row[b]
<1>1. SlotSound(b)
  BY DEF StoreSound
<1>2. ASSUME r \in Rows, life[r] # "none"
      PROVE  /\ life'[r] # "none" /\ home'[r] = home[r] /\ home[r] # 0
             /\ life[r] \in Doomed => life'[r] \in Doomed
             /\ life[r] \in Settled => life'[r] \in Settled
  <2>1. Arrow(life[r], life'[r]) /\ home'[r] = home[r]
    BY <1>2 DEF RowsMove
  <2>2. home[r] # 0
    BY <1>2 DEF StoreSound, RowSound
  <2> QED
    BY <1>2, <2>1, <2>2, Arrows
<1>3. CASE step[b] \in {"put", "activate"}
  <2>1. r \in Rows /\ life[r] # "none" /\ key[b] # 0 /\ (r \notin adopted => home[r] = key[b])
    BY <1>1, <1>3 DEF SlotSound
  <2>2. ASSUME step[b] = "activate", r \notin adopted', life'[r] \notin Doomed
        PROVE  objects'[home[r]] = "right"
    <3>1. objects[home[r]] = "right" /\ life[r] \notin Doomed
      BY <1>1, <1>2, <2>1, <2>2 DEF SlotSound
    <3> QED
      BY <1>2, <2>1, <3>1 DEF ObjectsSafe
  <2>3. /\ row'[b] = r /\ step'[b] = step[b] /\ key'[b] = key[b] /\ (r \notin adopted' => r \notin adopted)
        /\ life'[r] # "none" /\ home'[r] = home[r]
    BY <1>2, <2>1 DEF Same
  <2> HIDE DEF r
  <2> QED
    BY <1>3, <2>1, <2>2, <2>3 DEF SlotSound
<1>4. CASE step[b] \in {"remove", "erase", "register"}
  <2>1. r \in Rows /\ (step[b] = "register" => life[r] \in Settled)
        /\ (step[b] # "register" => life[r] \in Doomed)
    BY <1>1, <1>4 DEF SlotSound
  <2>2. life[r] # "none"
    BY <2>1, <1>4 DEF Settled, Doomed
  <2>3. row'[b] = r /\ step'[b] = step[b] /\ key'[b] = key[b]
    BY DEF Same
  <2> HIDE DEF r
  <2> QED
    BY <1>2, <1>4, <2>1, <2>2, <2>3 DEF SlotSound
<1>5. CASE step[b] = "create"
  BY <1>1, <1>5 DEF SlotSound, Same
<1>6. CASE step[b] \notin {"put", "activate", "remove", "erase", "register", "create"}
  BY <1>6 DEF SlotSound, Same
<1> QED
  BY <1>3, <1>4, <1>5, <1>6

LEMMA RowKept ==
  ASSUME StoreSound, RowsMove, ObjectsSafe, ActiveSafe, adopted \subseteq adopted',
         NEW r \in Rows, life[r] # "none"
  PROVE  RowSound(r)'
<1>1. home'[r] = home[r] /\ home[r] # 0 /\ (r \notin adopted => Kept(r))
  BY DEF RowsMove, StoreSound, RowSound
<1>2. ASSUME r \notin adopted', life'[r] = "active" PROVE objects'[home[r]] = "right"
  <2>1. CASE life[r] = "active"
    BY <1>1, <1>2, <2>1 DEF Kept, ObjectsSafe, Doomed
  <2>2. CASE life[r] # "active"
    BY <1>2, <2>2 DEF ActiveSafe
  <2> QED
    BY <2>1, <2>2
<1> QED
  BY <1>1, <1>2 DEF RowSound, Kept

(* A step of some slots that draws no key and inserts no row. *)
LEMMA PlainStep ==
  ASSUME StoreSound, NEW A \in SUBSET Slots,
         TypeOKStore', RowsMove, ObjectsSafe, ActiveSafe,
         UNCHANGED <<home, drawn, adopted>>, \A r \in Rows : life[r] = "none" => life'[r] = "none",
         \A b \in Slots \ A : Same(b),
         \A b \in A : step'[b] # "create" /\ key'[b] \in {key[b], 0} /\ SlotSound(b)'
  PROVE  KeysSound' /\ (\A b \in Slots : SlotSound(b)') /\ (\A r \in Rows : RowSound(r)')
<1>1. \A b \in Slots : key'[b] \in {key[b], 0} /\ (step'[b] = "create" => step[b] = "create" /\ Same(b))
  BY DEF Same
<1>2. KeysSound'
  <2>1. drawn \in Nat
    BY Numbers DEF StoreSound, TypeOKStore
  <2> QED
    BY <1>1, <2>1 DEF StoreSound, KeysSound, Same
<1>3. ASSUME NEW b \in Slots PROVE SlotSound(b)'
  <2>1. CASE b \in A
    BY <2>1
  <2>2. CASE b \notin A
    <3>1. step[b] = "create" => \A r \in Rows : home'[r] # key[b]
      BY DEF StoreSound, SlotSound
    <3> QED
      BY <2>2, <3>1, SlotKept
  <2> QED
    BY <2>1, <2>2
<1>4. ASSUME NEW r \in Rows PROVE RowSound(r)'
  <2>1. CASE life[r] # "none"
    BY <2>1, RowKept
  <2>2. CASE life[r] = "none"
    BY <2>2 DEF RowSound
  <2> QED
    BY <2>1, <2>2
<1> QED
  BY <1>2, <1>3, <1>4

Steps == {"idle", "create", "put", "activate", "remove", "erase",
          "verify", "prepare", "resume", "register", "complete"}
SlotsTyped ==
  /\ step \in [Slots -> Steps] /\ row \in [Slots -> Rows \cup {0}]
  /\ seen \in [Slots -> Nat] /\ key \in [Slots -> Keys \cup {0}]
RowsTyped == life \in [Rows -> Lives] /\ revision \in [Rows -> Nat] /\ home \in [Rows -> Keys \cup {0}]
RestTyped ==
  /\ objects \in [Keys -> Bytes] /\ drawn \in Keys \cup {0}
  /\ listed \in [row : Rows \cup {0}, life : Lives, revision : Nat] /\ adopted \subseteq Rows

LEMMA StoreParts ==
  /\ TypeOKStore <=> RowsTyped /\ SlotsTyped /\ RestTyped
  /\ TypeOKStore' <=> RowsTyped' /\ SlotsTyped' /\ RestTyped'
BY DEF TypeOKStore, RowsTyped, SlotsTyped, RestTyped, Steps

(* A handler that goes on, or ends and forgets. *)
LEMMA Turned ==
  ASSUME SlotsTyped, NEW a \in Slots, NEW next \in Steps, Turn(a, next)
  PROVE  /\ SlotsTyped' /\ \A b \in Slots \ {a} : Same(b)
         /\ step'[a] = next /\ key'[a] \in {key[a], 0}
         /\ next # "idle" => row'[a] = row[a] /\ key'[a] = key[a]
BY DEF SlotsTyped, Turn, Go, Forget, slotVars, Same

LEMMA Still ==
  ASSUME RowsTyped, UNCHANGED fileVars
  PROVE  /\ RowsMove /\ ActiveSafe /\ RowsTyped' /\ UNCHANGED home
         /\ \A r \in Rows : life[r] = "none" => life'[r] = "none"
BY DEF RowsMove, Arrow, fileVars, ActiveSafe, RowsTyped

LEMMA PutSound ==
  ASSUME StoreSound, NEW a \in Slots, PutSucceeds(a, "right")
  PROVE  StoreSound' /\ RowsMove
<1>t. RowsTyped /\ SlotsTyped /\ RestTyped /\ SlotSound(a)
  BY StoreParts DEF StoreSound
<1>1. /\ step[a] = "put" /\ objects' = [objects EXCEPT ![key[a]] = "right"] /\ Turn(a, "activate")
      /\ UNCHANGED <<fileVars, drawn, listed, adopted>>
  BY DEF PutSucceeds, Store
<1>2. /\ SlotsTyped' /\ (\A b \in Slots \ {a} : Same(b))
      /\ step'[a] = "activate" /\ row'[a] = row[a] /\ key'[a] = key[a]
  BY <1>t, <1>1, Turned DEF Steps
<1>3. /\ RowsMove /\ ActiveSafe /\ RowsTyped' /\ UNCHANGED home
      /\ \A r \in Rows : life[r] = "none" => life'[r] = "none"
  BY <1>t, <1>1, Still
<1>4. /\ row[a] \in Rows /\ life[row[a]] # "none" /\ key[a] \in Keys
      /\ row[a] \notin adopted => home[row[a]] = key[a]
  BY <1>t, <1>1 DEF SlotSound, SlotsTyped
<1>5. objects' \in [Keys -> Bytes] /\ objects'[key[a]] = "right" /\ \A k \in Keys : objects'[k] \in {objects[k], "right"}
  BY <1>t, <1>1, <1>4 DEF RestTyped, Bytes
<1>6. RestTyped' /\ ObjectsSafe
  <2>1. RestTyped'
    BY <1>t, <1>1, <1>5 DEF RestTyped
  <2>2. \A r \in Rows : home[r] # 0 => home[r] \in Keys
    BY <1>t DEF RowsTyped
  <2> QED
    BY <1>5, <2>1, <2>2 DEF ObjectsSafe
<1>7. SlotSound(a)'
  <2> DEFINE r == row[a]
  <2>1. /\ row'[a] = r /\ life'[r] = life[r] /\ home'[r] = home[r] /\ adopted' = adopted
        /\ r \notin adopted => objects'[home[r]] = "right"
    BY <1>1, <1>2, <1>3, <1>4, <1>5 DEF fileVars
  <2>2. r \in Rows /\ life[r] # "none" /\ key[a] # 0 /\ (r \notin adopted => home[r] = key[a])
    BY <1>4, Numbers
  <2>3. step'[a] = "activate" /\ key'[a] = key[a]
    BY <1>2
  <2> HIDE DEF r
  <2>4. /\ row'[a] \in Rows /\ life'[row'[a]] # "none" /\ key'[a] # 0
        /\ row'[a] \notin adopted' => home'[row'[a]] = key'[a] /\ objects'[home'[row'[a]]] = "right"
    BY <2>1, <2>2, <2>3
  <2> QED
    BY <2>3, <2>4 DEF SlotSound
<1>8. TypeOKStore'
  BY <1>2, <1>3, <1>6, StoreParts
<1>9. KeysSound' /\ (\A b \in Slots : SlotSound(b)') /\ (\A r \in Rows : RowSound(r)')
  <2> DEFINE A == {a}
  <2>1. (\A b \in Slots \ A : Same(b)) /\ A \in SUBSET Slots /\ UNCHANGED <<home, drawn, adopted>>
    BY <1>1, <1>2, <1>3
  <2>2. \A b \in A : step'[b] # "create" /\ key'[b] \in {key[b], 0} /\ SlotSound(b)'
    BY <1>2, <1>7
  <2> HIDE DEF A
  <2> QED
    BY <1>3, <1>6, <1>8, <2>1, <2>2, PlainStep
<1> QED
  BY <1>1, <1>3, <1>8, <1>9, ListedKept DEF StoreSound, RowsTyped

(* A handler, or the repair run, moves its row. *)
LEMMA MoveSound ==
  ASSUME StoreSound, NEW A \in SUBSET Slots, NEW r \in Rows, NEW rev, NEW from \in SUBSET Lives,
         NEW to \in Lives, Move(r, rev, from, to),
         \A l \in from : l = life[r] => l # "none" /\ Arrow(l, to),
         SlotsTyped', RestTyped', ObjectsSafe, UNCHANGED <<drawn, adopted>>,
         to = "active" /\ life[r] \in from /\ r \notin adopted => objects'[home[r]] = "right",
         \A b \in Slots \ A : Same(b),
         \A b \in A : step'[b] # "create" /\ key'[b] \in {key[b], 0} /\ SlotSound(b)'
  PROVE  /\ TypeOKStore' /\ KeysSound' /\ RowsMove
         /\ (\A b \in Slots : SlotSound(b)') /\ (\A q \in Rows : RowSound(q)')
<1>t. TypeOKStore /\ RowsTyped
  BY StoreParts DEF StoreSound
<1>1. MovesOne(r, rev, from, to)
  BY <1>t, MoveRows
<1>2. /\ RowsMove /\ UNCHANGED home
      /\ life' \in [Rows -> Lives] /\ revision' \in [Rows -> Nat]
      /\ \A q \in Rows \ {r} : life'[q] = life[q]
      /\ life'[r] # life[r] => life'[r] = to
  BY <1>t, <1>1, MovedRows
<1>3. life'[r] # life[r] => life[r] \in from
  BY <1>1 DEF MovesOne, fileVars
<1>4. TypeOKStore'
  BY <1>t, <1>2, StoreParts DEF RowsTyped
<1>5. ActiveSafe
  BY <1>2, <1>3 DEF ActiveSafe
<1>6. \A q \in Rows : life[q] = "none" => life'[q] = "none"
  BY <1>2, <1>3
<1> QED
  BY <1>2, <1>4, <1>5, <1>6, PlainStep

LEMMA PutFailsSound ==
  ASSUME StoreSound, NEW a \in Slots, NEW stored \in BOOLEAN, NEW next \in {"idle", "resume"},
         PutFails(a, "right", stored, next)
  PROVE  StoreSound' /\ RowsMove
<1>t. RowsTyped /\ SlotsTyped /\ RestTyped /\ SlotSound(a)
  BY StoreParts DEF StoreSound
<1>1. /\ step[a] = "put"
      /\ UNCHANGED objects \/ objects' = [objects EXCEPT ![key[a]] = "right"]
      /\ Move(row[a], seen[a], {"pending_upload"}, "upload_failed") /\ Turn(a, next)
      /\ UNCHANGED <<drawn, listed, adopted>>
  BY DEF PutFails, Store
<1>2. /\ SlotsTyped' /\ (\A b \in Slots \ {a} : Same(b))
      /\ step'[a] = next /\ key'[a] \in {key[a], 0}
  BY <1>t, <1>1, Turned DEF Steps
<1>3. row[a] \in Rows
  BY <1>t, <1>1 DEF SlotSound
<1>4. objects' \in [Keys -> Bytes] /\ \A k \in Keys : objects'[k] \in {objects[k], "right"}
  BY <1>t, <1>1 DEF RestTyped, Bytes
<1>5. RestTyped' /\ ObjectsSafe
  <2>1. RestTyped'
    BY <1>t, <1>1, <1>4 DEF RestTyped
  <2>2. \A r \in Rows : home[r] # 0 => home[r] \in Keys
    BY <1>t DEF RowsTyped
  <2> QED
    BY <1>4, <2>1, <2>2 DEF ObjectsSafe
<1>6. SlotSound(a)'
  BY <1>2 DEF SlotSound
<1>7. /\ TypeOKStore' /\ KeysSound' /\ RowsMove
      /\ (\A b \in Slots : SlotSound(b)') /\ (\A q \in Rows : RowSound(q)')
  <2> DEFINE from == {"pending_upload"} to == "upload_failed" A == {a}
  <2>1. /\ from \in SUBSET Lives /\ to \in Lives /\ A \in SUBSET Slots
        /\ \A l \in from : l = life[row[a]] => l # "none" /\ Arrow(l, to)
        /\ Move(row[a], seen[a], from, to) /\ to # "active"
    BY <1>1 DEF Lives, Unfinished, Arrow
  <2>2. /\ \A b \in Slots \ A : Same(b)
        /\ \A b \in A : step'[b] # "create" /\ key'[b] \in {key[b], 0} /\ SlotSound(b)'
    BY <1>2, <1>6
  <2> HIDE DEF from, to, A
  <2> QED
    BY <1>1, <1>2, <1>3, <1>5, <2>1, <2>2, MoveSound
<1> QED
  BY <1>1, <1>7, ListedKept, StoreParts DEF StoreSound, RowsTyped

LEMMA ActivateSound ==
  ASSUME StoreSound, NEW a \in Slots, NEW next \in {"idle", "resume", "register"},
         Activate(a, next), next = "register" => Activated(a)
  PROVE  StoreSound' /\ RowsMove
<1>t. RowsTyped /\ SlotsTyped /\ RestTyped /\ SlotSound(a)
  BY StoreParts DEF StoreSound
<1>1. /\ step[a] = "activate" /\ Move(row[a], seen[a], Unfinished, "active") /\ Turn(a, next)
      /\ UNCHANGED <<objects, drawn, listed, adopted>>
  BY DEF Activate
<1>2. /\ SlotsTyped' /\ (\A b \in Slots \ {a} : Same(b))
      /\ step'[a] = next /\ key'[a] \in {key[a], 0}
      /\ next # "idle" => row'[a] = row[a]
  BY <1>t, <1>1, Turned DEF Steps
<1>3. row[a] \in Rows /\ (row[a] \notin adopted /\ life[row[a]] \notin Doomed => objects[home[row[a]]] = "right")
  BY <1>t, <1>1 DEF SlotSound
<1>4. RestTyped' /\ ObjectsSafe
  BY <1>t, <1>1 DEF RestTyped, ObjectsSafe
<1>5. SlotSound(a)'
  <2>1. CASE next # "register"
    BY <1>2, <2>1 DEF SlotSound
  <2>2. CASE next = "register"
    <3>1. life' = [life EXCEPT ![row[a]] = "active"]
      BY <1>1, <2>2 DEF Activated, Move
    <3>2. life'[row'[a]] = "active" /\ row'[a] \in Rows
      BY <1>t, <1>2, <1>3, <2>2, <3>1 DEF RowsTyped
    <3> QED
      BY <1>2, <2>2, <3>2 DEF SlotSound, Settled
  <2> QED
    BY <2>1, <2>2
<1>6. /\ TypeOKStore' /\ KeysSound' /\ RowsMove
      /\ (\A b \in Slots : SlotSound(b)') /\ (\A q \in Rows : RowSound(q)')
  <2> DEFINE from == Unfinished to == "active" A == {a}
  <2>1. /\ from \in SUBSET Lives /\ to \in Lives /\ A \in SUBSET Slots
        /\ \A l \in from : l = life[row[a]] => l # "none" /\ Arrow(l, to)
        /\ Move(row[a], seen[a], from, to)
        /\ \A l \in from : l \notin Doomed
    BY <1>1 DEF Lives, Unfinished, Arrow, Doomed
  <2>2. /\ \A b \in Slots \ A : Same(b)
        /\ \A b \in A : step'[b] # "create" /\ key'[b] \in {key[b], 0} /\ SlotSound(b)'
    BY <1>2, <1>5
  <2>3. life[row[a]] \in from /\ row[a] \notin adopted => objects'[home[row[a]]] = "right"
    BY <1>1, <1>3, <2>1
  <2> HIDE DEF from, to, A
  <2> QED
    BY <1>1, <1>2, <1>3, <1>4, <2>1, <2>2, <2>3, MoveSound
<1> QED
  BY <1>1, <1>6, ListedKept, StoreParts DEF StoreSound, RowsTyped

(* Deletion. *)
LEMMA BeginDeleteSound ==
  ASSUME StoreSound, NEW q \in Requests, NEW r \in Rows, BeginDelete(q, r)
  PROVE  StoreSound' /\ RowsMove
<1>t. RowsTyped /\ SlotsTyped /\ RestTyped /\ q \in Slots
  BY StoreParts DEF StoreSound, Slots
<1>1. /\ step[q] = "idle" /\ life[r] \in {"active", "delete_failed"}
      /\ Move(r, revision[r], {"active", "delete_failed"}, "pending_delete")
      /\ row' = [row EXCEPT ![q] = r] /\ seen' = [seen EXCEPT ![q] = revision[r] + 1]
      /\ step' = [step EXCEPT ![q] = "remove"]
      /\ UNCHANGED <<objects, drawn, key, listed, adopted>>
  BY DEF BeginDelete, Go
<1>2. /\ SlotsTyped' /\ (\A b \in Slots \ {q} : Same(b))
      /\ step'[q] = "remove" /\ row'[q] = r /\ key'[q] = key[q]
  BY <1>t, <1>1 DEF SlotsTyped, RowsTyped, Same, Steps
<1>3. RestTyped' /\ ObjectsSafe
  BY <1>t, <1>1 DEF RestTyped, ObjectsSafe
<1>4. SlotSound(q)'
  <2>1. life' = [life EXCEPT ![r] = "pending_delete"]
    BY <1>1 DEF Move, Unchanged
  <2> QED
    BY <1>t, <1>2, <2>1 DEF SlotSound, Doomed, RowsTyped
<1>5. /\ TypeOKStore' /\ KeysSound' /\ RowsMove
      /\ (\A b \in Slots : SlotSound(b)') /\ (\A z \in Rows : RowSound(z)')
  <2> DEFINE from == {"active", "delete_failed"} to == "pending_delete" A == {q}
  <2>1. /\ from \in SUBSET Lives /\ to \in Lives /\ A \in SUBSET Slots
        /\ \A l \in from : l = life[r] => l # "none" /\ Arrow(l, to)
        /\ Move(r, revision[r], from, to) /\ to # "active"
    BY <1>t, <1>1 DEF Lives, Unfinished, Arrow, Doomed
  <2>2. /\ \A b \in Slots \ A : Same(b)
        /\ \A b \in A : step'[b] # "create" /\ key'[b] \in {key[b], 0} /\ SlotSound(b)'
    BY <1>2, <1>4
  <2> HIDE DEF from, to, A
  <2> QED
    BY <1>1, <1>2, <1>3, <2>1, <2>2, MoveSound
<1> QED
  BY <1>1, <1>5, ListedKept, StoreParts DEF StoreSound, RowsTyped

LEMMA EndDeleteSound ==
  ASSUME StoreSound, NEW q \in Requests, RemoveFails(q) \/ CompleteDelete(q)
  PROVE  StoreSound' /\ RowsMove
<1>t. RowsTyped /\ SlotsTyped /\ RestTyped /\ q \in Slots /\ SlotSound(q)
  BY StoreParts DEF StoreSound, Slots
<1>1. PICK to \in {"deleted", "delete_failed"} :
         /\ step[q] \in {"remove", "erase"} /\ Move(row[q], seen[q], {"pending_delete"}, to)
         /\ Turn(q, "idle") /\ UNCHANGED <<objects, drawn, listed, adopted>>
  BY DEF RemoveFails, CompleteDelete
<1>2. /\ SlotsTyped' /\ (\A b \in Slots \ {q} : Same(b))
      /\ step'[q] = "idle" /\ key'[q] \in {key[q], 0}
  BY <1>t, <1>1, Turned DEF Steps
<1>3. RestTyped' /\ ObjectsSafe /\ row[q] \in Rows /\ SlotSound(q)'
  BY <1>t, <1>1, <1>2 DEF RestTyped, ObjectsSafe, SlotSound
<1>4. /\ TypeOKStore' /\ KeysSound' /\ RowsMove
      /\ (\A b \in Slots : SlotSound(b)') /\ (\A z \in Rows : RowSound(z)')
  <2> DEFINE from == {"pending_delete"} A == {q}
  <2>1. /\ from \in SUBSET Lives /\ to \in Lives /\ A \in SUBSET Slots
        /\ \A l \in from : l = life[row[q]] => l # "none" /\ Arrow(l, to)
        /\ Move(row[q], seen[q], from, to) /\ to # "active"
    BY <1>t, <1>1 DEF Lives, Unfinished, Arrow, Doomed
  <2>2. /\ \A b \in Slots \ A : Same(b)
        /\ \A b \in A : step'[b] # "create" /\ key'[b] \in {key[b], 0} /\ SlotSound(b)'
    BY <1>2, <1>3
  <2> HIDE DEF from, A
  <2> QED
    BY <1>1, <1>2, <1>3, <2>1, <2>2, MoveSound
<1> QED
  BY <1>1, <1>4, ListedKept, StoreParts DEF StoreSound, RowsTyped

(* An object is removed for a row that will never be active again. *)
LEMMA RemovedObjects ==
  ASSUME StoreSound, NEW r \in Rows, life[r] \in Doomed, Remove(r)
  PROVE  objects' \in [Keys -> Bytes] /\ ObjectsSafe
<1>1. objects \in [Keys -> Bytes] /\ home \in [Rows -> Keys \cup {0}]
  BY DEF StoreSound, TypeOKStore
<1>2. life[r] # "none" /\ home[r] # 0
  BY DEF Doomed, StoreSound, RowSound
<1>3. \A q \in Rows : life[q] \notin Doomed /\ home[q] # 0 => home[q] # home[r] /\ home[q] \in Keys
  BY <1>1, <1>2 DEF StoreSound, KeysSound
<1>4. objects' = [objects EXCEPT ![home[r]] = "absent"]
  BY DEF Remove
<1> QED
  BY <1>1, <1>3, <1>4 DEF ObjectsSafe, Bytes

LEMMA RemoveSound ==
  ASSUME StoreSound, NEW q \in Requests, RemoveSucceeds(q)
  PROVE  StoreSound' /\ RowsMove
<1>t. RowsTyped /\ SlotsTyped /\ RestTyped /\ q \in Slots /\ SlotSound(q)
  BY StoreParts DEF StoreSound, Slots
<1>1. /\ step[q] = "remove" /\ Remove(row[q]) /\ Turn(q, "erase")
      /\ UNCHANGED <<fileVars, drawn, listed, adopted>>
  BY DEF RemoveSucceeds
<1>2. /\ SlotsTyped' /\ (\A b \in Slots \ {q} : Same(b))
      /\ step'[q] = "erase" /\ row'[q] = row[q] /\ key'[q] = key[q]
  BY <1>t, <1>1, Turned DEF Steps
<1>3. row[q] \in Rows /\ life[row[q]] \in Doomed
  BY <1>t, <1>1 DEF SlotSound
<1>4. /\ RowsMove /\ ActiveSafe /\ RowsTyped' /\ UNCHANGED home
      /\ \A r \in Rows : life[r] = "none" => life'[r] = "none"
  BY <1>t, <1>1, Still
<1>5. RestTyped' /\ ObjectsSafe
  BY <1>t, <1>1, <1>3, RemovedObjects DEF RestTyped
<1>6. TypeOKStore'
  BY <1>2, <1>4, <1>5, StoreParts
<1>7. KeysSound' /\ (\A b \in Slots : SlotSound(b)') /\ (\A r \in Rows : RowSound(r)')
  <2> DEFINE A == {q}
  <2>1. (\A b \in Slots \ A : Same(b)) /\ A \in SUBSET Slots /\ UNCHANGED <<home, drawn, adopted>>
    BY <1>t, <1>1, <1>2, <1>4
  <2>2. SlotSound(q)'
    BY <1>1, <1>2, <1>3 DEF SlotSound, fileVars
  <2>3. \A b \in A : step'[b] # "create" /\ key'[b] \in {key[b], 0} /\ SlotSound(b)'
    BY <1>2, <2>2
  <2> HIDE DEF A
  <2> QED
    BY <1>4, <1>5, <1>6, <2>1, <2>3, PlainStep
<1> QED
  BY <1>1, <1>4, <1>6, <1>7, ListedKept DEF StoreSound, RowsTyped

(* A handler whose next step concerns neither rows nor objects. *)
LEMMA AsideSound ==
  ASSUME StoreSound, NEW a \in Slots, SlotsTyped', \A b \in Slots \ {a} : Same(b),
         step'[a] \in {"idle", "verify", "prepare", "resume", "complete"}, key'[a] \in {key[a], 0},
         UNCHANGED <<fileVars, objects, drawn, listed, adopted>>
  PROVE  StoreSound' /\ RowsMove
<1>t. RowsTyped /\ RestTyped
  BY StoreParts DEF StoreSound
<1>1. /\ RowsMove /\ ActiveSafe /\ RowsTyped' /\ UNCHANGED home
      /\ \A r \in Rows : life[r] = "none" => life'[r] = "none"
  BY <1>t, Still
<1>2. RestTyped' /\ ObjectsSafe
  BY <1>t DEF RestTyped, ObjectsSafe
<1>3. TypeOKStore'
  BY <1>1, <1>2, StoreParts
<1>4. KeysSound' /\ (\A b \in Slots : SlotSound(b)') /\ (\A r \in Rows : RowSound(r)')
  <2> DEFINE A == {a}
  <2>1. (\A b \in Slots \ A : Same(b)) /\ A \in SUBSET Slots /\ UNCHANGED <<home, drawn, adopted>>
    BY <1>1
  <2>2. SlotSound(a)'
    BY DEF SlotSound
  <2>3. \A b \in A : step'[b] # "create" /\ key'[b] \in {key[b], 0} /\ SlotSound(b)'
    BY <2>2
  <2> HIDE DEF A
  <2> QED
    BY <1>1, <1>2, <1>3, <2>1, <2>3, PlainStep
<1> QED
  BY <1>1, <1>3, <1>4, ListedKept DEF StoreSound, RowsTyped

-----------------------------------------------------------------------------
(* The repair run. *)
LEMMA ListSound == ASSUME StoreSound, NEW r \in Rows, List(r) PROVE StoreSound' /\ RowsMove
<1>t. RowsTyped /\ SlotsTyped /\ RestTyped
  BY StoreParts DEF StoreSound
<1>1. /\ r \in Standing /\ listed' = [row |-> r, life |-> life[r], revision |-> revision[r]]
      /\ UNCHANGED <<fileVars, objects, drawn, step, slotVars, adopted>>
  BY DEF List
<1>2. /\ RowsMove /\ ActiveSafe /\ RowsTyped' /\ UNCHANGED home
      /\ \A q \in Rows : life[q] = "none" => life'[q] = "none"
  BY <1>t, <1>1, Still
<1>3. SlotsTyped' /\ RestTyped' /\ ObjectsSafe /\ \A b \in Slots : Same(b)
  BY <1>t, <1>1 DEF SlotsTyped, RestTyped, RowsTyped, ObjectsSafe, slotVars, Same
<1>4. ListedSound'
  BY <1>t, <1>1, Numbers DEF ListedSound, Standing, fileVars, RowsTyped
<1>5. KeysSound' /\ (\A b \in Slots : SlotSound(b)') /\ (\A q \in Rows : RowSound(q)')
  <2> DEFINE A == {}
  <2>1. /\ A \in SUBSET Slots /\ (\A b \in Slots \ A : Same(b)) /\ UNCHANGED <<home, drawn, adopted>>
        /\ \A b \in A : step'[b] # "create" /\ key'[b] \in {key[b], 0} /\ SlotSound(b)'
        /\ TypeOKStore'
    BY <1>1, <1>2, <1>3, StoreParts
  <2> HIDE DEF A
  <2> QED
    BY <1>2, <1>3, <2>1, PlainStep
<1> QED
  BY <1>2, <1>3, <1>4, <1>5, StoreParts DEF StoreSound

(* What a run settles, it settles along an arrow: the copy is not stale.   *)
Settles(from, to) ==
  \/ from \in {"active", "orphan_recovered"} /\ to = "missing_object"
  \/ from \in Unfinished /\ to = "orphan_recovered"
  \/ from = "missing_object" /\ to = "active"
  \/ from \in {"pending_delete", "delete_failed"} /\ to \in {"deleted", "delete_failed"}

LEMMA InspectSound == ASSUME StoreSound, Inspect PROVE StoreSound' /\ RowsMove
<1> DEFINE r == listed.row
<1>t. RowsTyped /\ SlotsTyped /\ RestTyped
  BY StoreParts DEF StoreSound
<1>1. /\ r # 0 /\ listed' = [row |-> 0, life |-> "none", revision |-> 0]
      /\ UNCHANGED <<drawn, step, slotVars, adopted>>
  BY DEF Inspect
<1>2. PICK to \in Lives :
        /\ Settles(listed.life, to) /\ Move(r, listed.revision, Lives \ {"deleted"}, to)
        /\ to = "active" => objects[home[r]] = "right" /\ UNCHANGED objects
        /\ \/ UNCHANGED objects
           \/ listed.life \in {"pending_delete", "delete_failed"} /\ Remove(r)
  BY DEF Inspect, Settle, Settles, Lives, Unfinished
<1>3. /\ r \in Rows /\ life[r] # "none" /\ (listed.revision = revision[r] => listed.life = life[r])
      /\ listed.life \in Doomed => life[r] \in Doomed
  BY <1>t, <1>1 DEF RestTyped, StoreSound, ListedSound
<1> HIDE DEF r
<1>4. SlotsTyped' /\ \A b \in Slots : Same(b)
  BY <1>t, <1>1 DEF SlotsTyped, slotVars, Same
<1>5. RestTyped' /\ ObjectsSafe
  <2>1. CASE UNCHANGED objects
    BY <1>t, <1>1, <2>1 DEF RestTyped, ObjectsSafe, Lives
  <2>2. CASE listed.life \in {"pending_delete", "delete_failed"} /\ Remove(r)
    <3>1. objects' \in [Keys -> Bytes] /\ ObjectsSafe
      BY <1>3, <2>2, RemovedObjects DEF Doomed
    <3> QED
      BY <1>t, <1>1, <3>1 DEF RestTyped, Lives
  <2> QED
    BY <1>2, <2>1, <2>2
<1>6. /\ TypeOKStore' /\ KeysSound' /\ RowsMove
      /\ (\A b \in Slots : SlotSound(b)') /\ (\A q \in Rows : RowSound(q)')
  <2> DEFINE from == IF listed.revision = revision[r] THEN {life[r]} \ {"deleted"} ELSE {}
             A == {}
  <2>1. Move(r, listed.revision, from, to)
    BY <1>2, <1>3, <1>t DEF Move, Unchanged, RowsTyped
  <2>2. from \in SUBSET Lives /\ \A l \in from : l = life[r] => l # "none" /\ Arrow(l, to)
    BY <1>t, <1>2, <1>3 DEF RowsTyped, Settles, Arrow, Doomed, Unfinished
  <2>3. to = "active" => objects'[home[r]] = "right"
    BY <1>2
  <2>4. /\ A \in SUBSET Slots /\ \A b \in Slots \ A : Same(b)
        /\ \A b \in A : step'[b] # "create" /\ key'[b] \in {key[b], 0} /\ SlotSound(b)'
    BY <1>4
  <2> HIDE DEF from, A
  <2> QED
    BY <1>1, <1>3, <1>4, <1>5, <2>1, <2>2, <2>3, <2>4, MoveSound
<1>7. ListedSound'
  BY <1>1 DEF ListedSound
<1> QED
  BY <1>6, <1>7 DEF StoreSound

-----------------------------------------------------------------------------
(* A key is drawn: no row and no other handler has it. *)
LEMMA DrawnSound ==
  ASSUME StoreSound, NEW a \in Slots, DrawKey(a), NEW next \in {"create", "put"},
         step' = [step EXCEPT ![a] = next],
         row' \in [Slots -> Rows \cup {0}], seen' \in [Slots -> Nat],
         \A b \in Slots \ {a} : row'[b] = row[b],
         UNCHANGED <<fileVars, objects, listed>>, adopted \subseteq adopted', adopted' \subseteq Rows,
         next = "put" => row'[a] \in adopted' /\ life[row'[a]] # "none"
  PROVE  StoreSound' /\ RowsMove
<1>t. RowsTyped /\ SlotsTyped /\ RestTyped
  BY StoreParts DEF StoreSound
<1>1. /\ drawn + 1 \in Keys /\ drawn' = drawn + 1 /\ drawn \in Nat
      /\ key' = [key EXCEPT ![a] = drawn + 1]
  BY <1>t, Numbers DEF DrawKey, RestTyped
<1>2. /\ SlotsTyped' /\ (\A b \in Slots \ {a} : Same(b))
      /\ step'[a] = next /\ key'[a] = drawn + 1
  BY <1>t, <1>1 DEF SlotsTyped, Same, Steps
<1>3. /\ RowsMove /\ ActiveSafe /\ RowsTyped' /\ UNCHANGED home
      /\ \A r \in Rows : life[r] = "none" => life'[r] = "none"
  BY <1>t, Still
<1>4. RestTyped' /\ ObjectsSafe
  BY <1>t, <1>1 DEF RestTyped, ObjectsSafe
<1>5. /\ \A b \in Slots : key[b] \in Nat /\ key[b] <= drawn
      /\ \A r \in Rows : home[r] \in Nat /\ home[r] <= drawn
  BY <1>t, Numbers DEF SlotsTyped, RowsTyped, StoreSound, KeysSound
<1>6. KeysSound'
  <2>1. \A b \in Slots \ {a} : key'[b] = key[b] /\ step'[b] = step[b]
    BY <1>2 DEF Same
  <2>2. ASSUME NEW b \in Slots, NEW c \in Slots, step'[b] = "create", step'[c] = "create", key'[b] = key'[c]
        PROVE  b = c
    <3>1. CASE b # a /\ c # a
      BY <2>1, <2>2, <3>1 DEF StoreSound, KeysSound
    <3>2. CASE b = a \/ c = a
      BY <1>1, <1>2, <1>5, <2>1, <2>2, <3>2
    <3> QED
      BY <3>1, <3>2
  <2>3. (\A b \in Slots : key'[b] <= drawn') /\ (\A r \in Rows : home'[r] <= drawn')
    BY <1>1, <1>2, <1>3, <1>5, <2>1
  <2>4. \A r, q \in Rows : home'[r] = home'[q] /\ home'[r] # 0 => r = q
    BY <1>3 DEF StoreSound, KeysSound
  <2> QED
    BY <2>2, <2>3, <2>4 DEF KeysSound
<1>7. SlotSound(a)'
  <2>1. CASE next = "create"
    BY <1>1, <1>2, <1>3, <1>5, <2>1 DEF SlotSound
  <2>2. CASE next = "put"
    BY <1>1, <1>2, <2>2 DEF SlotSound, fileVars
  <2> QED
    BY <2>1, <2>2
<1>8. ASSUME NEW b \in Slots PROVE SlotSound(b)'
  <2>1. CASE b # a
    <3>1. Same(b) /\ (step[b] = "create" => \A r \in Rows : home'[r] # key[b])
      BY <1>2, <1>3, <2>1 DEF StoreSound, SlotSound
    <3> QED
      BY <1>3, <1>4, <3>1, SlotKept
  <2> QED
    BY <1>7, <2>1
<1>9. ASSUME NEW r \in Rows PROVE RowSound(r)'
  <2>1. CASE life[r] # "none"
    BY <1>3, <1>4, <2>1, RowKept
  <2>2. CASE life[r] = "none"
    BY <1>3, <2>2 DEF RowSound
  <2> QED
    BY <2>1, <2>2
<1>10. ListedSound'
  BY <1>3, ListedKept DEF RowsTyped
<1> QED
  BY <1>2, <1>3, <1>4, <1>6, <1>8, <1>9, <1>10, StoreParts DEF StoreSound

LEMMA BeginUploadSound == ASSUME StoreSound, NEW q \in Requests, BeginUpload(q) PROVE StoreSound' /\ RowsMove
<1>t. RowsTyped /\ SlotsTyped /\ RestTyped /\ q \in Slots
  BY StoreParts DEF StoreSound, Slots
<1>1. DrawKey(q) /\ UNCHANGED <<fileVars, objects, listed>>
  BY DEF BeginUpload
<1>2. CASE Found # 0 /\ life[Found] \in Unfinished
  <2>1. /\ row' = [row EXCEPT ![q] = Found] /\ seen' = [seen EXCEPT ![q] = revision[Found]]
        /\ adopted' = adopted \cup {Found} /\ step' = [step EXCEPT ![q] = "put"]
    BY <1>2 DEF BeginUpload, Go
  <2>2. Found \in Rows /\ life[Found] # "none"
    BY <1>2, SomeRow DEF Standing
  <2>3. /\ row' \in [Slots -> Rows \cup {0}] /\ seen' \in [Slots -> Nat] /\ row'[q] = Found
        /\ \A b \in Slots \ {q} : row'[b] = row[b]
    BY <1>t, <2>1, <2>2 DEF SlotsTyped, RowsTyped
  <2>4. adopted \subseteq adopted' /\ adopted' \subseteq Rows /\ row'[q] \in adopted' /\ life[row'[q]] # "none"
    BY <1>t, <2>1, <2>2, <2>3 DEF RestTyped
  <2> QED
    BY <1>t, <1>1, <2>1, <2>3, <2>4, DrawnSound
<1>3. CASE ~(Found # 0 /\ life[Found] \in Unfinished)
  <2>1. step' = [step EXCEPT ![q] = "create"] /\ UNCHANGED <<row, seen, adopted>>
    BY <1>3 DEF BeginUpload, Go
  <2>2. /\ row' \in [Slots -> Rows \cup {0}] /\ seen' \in [Slots -> Nat]
        /\ \A b \in Slots \ {q} : row'[b] = row[b]
        /\ adopted \subseteq adopted' /\ adopted' \subseteq Rows
    BY <1>t, <2>1 DEF SlotsTyped, RestTyped
  <2> QED
    BY <1>t, <1>1, <2>1, <2>2, DrawnSound
<1> QED
  BY <1>2, <1>3

LEMMA CreateSound ==
  ASSUME StoreSound, NEW a \in Slots, NEW refused \in {"idle", "resume"}, Create(a, refused)
  PROVE  StoreSound' /\ RowsMove
<1>t. RowsTyped /\ SlotsTyped /\ RestTyped /\ SlotSound(a)
  BY StoreParts DEF StoreSound
<1>1. step[a] = "create" /\ UNCHANGED <<objects, drawn, listed, adopted>>
  BY DEF Create
<1>2. CASE Found # 0
  <2>1. Turn(a, refused) /\ UNCHANGED fileVars
    BY <1>2 DEF Create
  <2> QED
    BY <1>t, <1>1, <2>1, Turned, AsideSound DEF Steps
<1>3. CASE Found = 0
  <2>1. Free # {} /\ Insert(a) /\ step' = [step EXCEPT ![a] = "put"] /\ UNCHANGED key
    BY <1>3 DEF Create, Go
  <2> DEFINE n == NextRow
  <2>2. n \in Rows /\ life[n] = "none"
    BY <2>1, SomeRow DEF Free
  <2>3. /\ life' = [life EXCEPT ![n] = "pending_upload"] /\ home' = [home EXCEPT ![n] = key[a]]
        /\ row' = [row EXCEPT ![a] = n] /\ seen' = [seen EXCEPT ![a] = 0] /\ UNCHANGED revision
    BY <2>1 DEF Insert
  <2> HIDE DEF n
  <2>4. /\ RowsTyped' /\ SlotsTyped' /\ RestTyped'
        /\ life'[n] = "pending_upload" /\ home'[n] = key[a]
        /\ \A r \in Rows \ {n} : life'[r] = life[r] /\ home'[r] = home[r]
        /\ step'[a] = "put" /\ row'[a] = n /\ key'[a] = key[a]
        /\ \A b \in Slots \ {a} : Same(b)
    <3>1. /\ RowsTyped' /\ life'[n] = "pending_upload" /\ home'[n] = key[a]
          /\ \A r \in Rows \ {n} : life'[r] = life[r] /\ home'[r] = home[r]
      BY <1>t, <2>2, <2>3 DEF RowsTyped, SlotsTyped, Lives, Unfinished
    <3>2. /\ SlotsTyped' /\ step'[a] = "put" /\ row'[a] = n /\ key'[a] = key[a]
          /\ \A b \in Slots \ {a} : Same(b)
      BY <1>t, <2>1, <2>2, <2>3 DEF SlotsTyped, Steps, Same
    <3> QED
      BY <1>t, <1>1, <3>1, <3>2 DEF RestTyped
  <2>5. /\ key[a] # 0 /\ (\A r \in Rows : home[r] # key[a]) /\ key[a] <= drawn
    BY <1>t, <1>1 DEF SlotSound, StoreSound, KeysSound
  <2>6. RowsMove /\ ObjectsSafe /\ ActiveSafe
    <3>1. \A r \in Rows : revision[r] \in Nat
      BY <1>t DEF RowsTyped
    <3> QED
      BY <1>1, <2>2, <2>3, <2>4, <3>1 DEF RowsMove, Arrow, ObjectsSafe, ActiveSafe
  <2>7. KeysSound'
    <3>1. ASSUME NEW b \in Slots, NEW c \in Slots, step'[b] = "create", step'[c] = "create", key'[b] = key'[c]
          PROVE  b = c
      BY <2>4, <3>1 DEF StoreSound, KeysSound, Same
    <3>2. ASSUME NEW r \in Rows, NEW q \in Rows, home'[r] = home'[q], home'[r] # 0 PROVE r = q
      BY <2>4, <2>5, <3>2 DEF StoreSound, KeysSound
    <3>3. (\A b \in Slots : key'[b] <= drawn') /\ (\A r \in Rows : home'[r] <= drawn')
      BY <1>1, <2>1, <2>4, <2>5 DEF StoreSound, KeysSound
    <3> QED
      BY <3>1, <3>2, <3>3 DEF KeysSound
  <2>8. SlotSound(a)'
    BY <2>2, <2>4, <2>5 DEF SlotSound
  <2>9. ASSUME NEW b \in Slots PROVE SlotSound(b)'
    <3>1. CASE b # a
      <4>1. Same(b)
        BY <2>4, <3>1
      <4>2. step[b] = "create" => key[b] # key[a] /\ \A r \in Rows : home[r] # key[b]
        BY <1>1, <3>1 DEF StoreSound, KeysSound, SlotSound
      <4>3. step[b] = "create" => \A r \in Rows : home'[r] # key[b]
        BY <2>4, <4>2
      <4> QED
        BY <1>1, <2>6, <4>1, <4>3, SlotKept
    <3> QED
      BY <2>8, <3>1
  <2>10. ASSUME NEW r \in Rows PROVE RowSound(r)'
    <3>1. CASE r = n
      BY <2>4, <2>5, <3>1 DEF RowSound, Kept
    <3>2. CASE r # n /\ life[r] # "none"
      BY <1>1, <2>6, <3>2, RowKept
    <3>3. CASE r # n /\ life[r] = "none"
      BY <2>4, <3>3 DEF RowSound
    <3> QED
      BY <3>1, <3>2, <3>3
  <2>11. ListedSound'
    BY <1>1, <2>4, <2>6, ListedKept DEF RowsTyped
  <2> QED
    BY <2>4, <2>6, <2>7, <2>9, <2>10, <2>11, StoreParts DEF StoreSound
<1> QED
  BY <1>2, <1>3

-----------------------------------------------------------------------------
(* The scans.  A handler at work has the session to itself, and beyond     *)
(* "verify" its bytes are the original's.                                  *)
ScanSound(s) ==
  /\ step[s] # "idle" => session[s] = "finalizing"
  /\ step[s] \notin {"idle", "verify", "resume"} => Whole(s)
  /\ step[s] = "complete" => file[s] # "none"
  /\ desk[s] = "done" => session[s] = "completed"
  /\ session[s] = "completed" => file[s] # "none"
  /\ file[s] # "none" => asset[s] \in Rows /\ life[asset[s]] \in Settled

DeskTyped ==
  /\ desk \in [Scans -> {"idle", "sending", "asking", "served", "done"}]
  /\ at \in [Scans -> 0..Chunks] /\ good \in [Scans -> BOOLEAN] /\ bad \in 0..MaxBad
SessionsTyped ==
  /\ session \in [Scans -> {"none", "uploading", "finalizing", "completed", "failed"}]
  /\ chunks \in [Scans -> Seq(BOOLEAN)] /\ \A s \in Scans : Offset(s) <= Chunks
LateTyped ==
  /\ late \subseteq [scan : Scans, offset : 0..Chunks, good : BOOLEAN]
  /\ troubles \in 0..MaxTroubles
BatchTyped ==
  /\ file \in [Scans -> {"none", "uploaded", "duplicate"}]
  /\ asset \in [Scans -> Rows \cup {0}] /\ batch \in {"open", "closed"}

Sound ==
  /\ StoreSound /\ TypeOK /\ OneLiveFile
  /\ \A s \in Scans : ScanSound(s)

LEMMA CaptureParts ==
  /\ TypeOK <=> TypeOKStore /\ DeskTyped /\ SessionsTyped /\ LateTyped /\ BatchTyped
  /\ TypeOK' <=> TypeOKStore' /\ DeskTyped' /\ SessionsTyped' /\ LateTyped' /\ BatchTyped'
BY DEF TypeOK, DeskTyped, SessionsTyped, LateTyped, BatchTyped

LEMMA InitSound == Init => Sound
<1> SUFFICES ASSUME Init PROVE Sound
  OBVIOUS
<1>1. TypeOKStore
  <2>1. RowsTyped /\ RestTyped
    BY DEF Init, InitStore, RowsTyped, RestTyped, Lives, Bytes
  <2>2. SlotsTyped
    BY DEF Init, InitStore, SlotsTyped, Steps
  <2> QED
    BY <2>1, <2>2, StoreParts
<1>2. KeysSound /\ ListedSound
  BY DEF Init, InitStore, KeysSound, ListedSound
<1>3. (\A a \in Slots : SlotSound(a)) /\ (\A r \in Rows : RowSound(r))
  BY DEF Init, InitStore, SlotSound, RowSound
<1>4. DeskTyped /\ SessionsTyped /\ LateTyped /\ BatchTyped
  <2>1. DeskTyped
    BY CaptureConstantsOK DEF Init, DeskTyped, CaptureConstantsOK
  <2>2. SessionsTyped
    BY CaptureConstantsOK DEF Init, SessionsTyped, Offset, CaptureConstantsOK
  <2>3. LateTyped /\ BatchTyped
    BY CaptureConstantsOK DEF Init, LateTyped, BatchTyped, CaptureConstantsOK
  <2> QED
    BY <2>1, <2>2, <2>3
<1>5. ASSUME NEW s \in Scans PROVE ScanSound(s)
  BY DEF Init, InitStore, ScanSound, Scans, Slots
<1>6. OneLiveFile
  BY DEF Init, OneLiveFile
<1> QED
  BY <1>1, <1>2, <1>3, <1>4, <1>5, <1>6, CaptureParts DEF Sound, StoreSound

(* A scan that a step does not concern. *)
SameScan(s) ==
  /\ step'[s] = step[s] /\ session'[s] = session[s] /\ chunks'[s] = chunks[s]
  /\ desk'[s] = desk[s] /\ file'[s] = file[s] /\ asset'[s] = asset[s]

LEMMA WholeKept == ASSUME NEW s, chunks'[s] = chunks[s] PROVE Whole(s)' <=> Whole(s)
BY DEF Whole

LEMMA AssetKept ==
  ASSUME RowsMove, NEW r \in Rows, life[r] \in Settled PROVE life'[r] \in Settled
BY Arrows DEF RowsMove

LEMMA ScanKept ==
  ASSUME RowsMove, NEW s \in Scans, ScanSound(s), SameScan(s) PROVE ScanSound(s)'
<1>1. Whole(s)' <=> Whole(s)
  BY WholeKept DEF SameScan
<1>2. file[s] # "none" => asset[s] \in Rows /\ life'[asset[s]] \in Settled
  BY AssetKept DEF ScanSound
<1> QED
  BY <1>1, <1>2 DEF ScanSound, SameScan

-----------------------------------------------------------------------------
(* The store, under every step of the whole. *)
LEMMA StillSound ==
  ASSUME StoreSound, UNCHANGED storeVars PROVE StoreSound' /\ RowsMove
<1>t. RowsTyped /\ SlotsTyped /\ RestTyped
  BY StoreParts DEF StoreSound
<1>1. /\ RowsMove /\ ActiveSafe /\ RowsTyped' /\ UNCHANGED home
      /\ \A q \in Rows : life[q] = "none" => life'[q] = "none"
  BY <1>t, Still DEF storeVars
<1>2. SlotsTyped' /\ RestTyped' /\ ObjectsSafe /\ \A b \in Slots : Same(b)
  BY <1>t DEF SlotsTyped, RestTyped, ObjectsSafe, storeVars, slotVars, Same
<1>3. ListedSound'
  BY <1>1, ListedKept DEF storeVars, RowsTyped
<1>4. KeysSound' /\ (\A b \in Slots : SlotSound(b)') /\ (\A q \in Rows : RowSound(q)')
  <2> DEFINE A == {}
  <2>1. /\ A \in SUBSET Slots /\ (\A b \in Slots \ A : Same(b)) /\ UNCHANGED <<home, drawn, adopted>>
        /\ \A b \in A : step'[b] # "create" /\ key'[b] \in {key[b], 0} /\ SlotSound(b)'
        /\ TypeOKStore'
    BY <1>1, <1>2, StoreParts DEF storeVars
  <2> HIDE DEF A
  <2> QED
    BY <1>1, <1>2, <2>1, PlainStep
<1> QED
  BY <1>1, <1>2, <1>3, <1>4, StoreParts DEF StoreSound

LEMMA NextStoreSound == ASSUME StoreSound, NextStore PROVE StoreSound' /\ RowsMove
<1>t. SlotsTyped /\ \A q \in Requests : q \in Slots
  BY StoreParts DEF StoreSound, Slots
<1>1. ASSUME NEW q \in Requests, Lose(q) PROVE StoreSound' /\ RowsMove
  <2>1. Turn(q, "idle") /\ UNCHANGED <<fileVars, objects, drawn, listed, adopted>>
    BY <1>1 DEF Lose
  <2> QED
    BY <1>t, <2>1, Turned, AsideSound DEF Steps
<1>2. ASSUME NEW q \in Requests,
             \/ BeginUpload(q) \/ Create(q, "idle")
             \/ PutSucceeds(q, "right") \/ Activate(q, "idle")
             \/ \E stored \in BOOLEAN : PutFails(q, "right", stored, "idle")
      PROVE  StoreSound' /\ RowsMove
  BY <1>t, <1>2, BeginUploadSound, CreateSound, PutSound, ActivateSound, PutFailsSound
<1>3. ASSUME NEW q \in Requests,
             \/ \E r \in Rows : BeginDelete(q, r)
             \/ RemoveSucceeds(q) \/ RemoveFails(q) \/ CompleteDelete(q)
      PROVE  StoreSound' /\ RowsMove
  BY <1>3, BeginDeleteSound, RemoveSound, EndDeleteSound
<1> QED
  BY <1>1, <1>2, <1>3, ListSound, InspectSound DEF NextStore

(* Requests are not runs. *)
LEMMA NextStoreScans == ASSUME StoreSound, NextStore, NEW s \in Scans PROVE step'[s] = step[s]
<1>1. s \in Slots /\ s \notin Requests /\ step \in [Slots -> Steps]
  BY FileConstantsOK, StoreParts DEF FileConstantsOK, Scans, Slots, StoreSound, SlotsTyped
<1>2. (\E q \in Requests : \E next : step' = [step EXCEPT ![q] = next]) \/ step' = step
  BY DEF NextStore, BeginUpload, Create, PutSucceeds, Activate, PutFails, BeginDelete, RemoveSucceeds,
         RemoveFails, CompleteDelete, Lose, List, Inspect, Go, Turn
<1> QED
  BY <1>1, <1>2

-----------------------------------------------------------------------------
(* What the workstation may hear. *)
Desks == {"idle", "sending", "asking", "served", "done"}

LEMMA DeskMoves ==
  ASSUME DeskTyped, NEW s \in Scans, NEW offset \in 0..Chunks, NEW what \in Desks,
         Continue(s, offset) \/ Hear(s, what) \/ UNCHANGED deskVars
  PROVE  /\ DeskTyped' /\ \A t \in Scans \ {s} : desk'[t] = desk[t]
         /\ desk'[s] \in {"sending", "asking", what, desk[s]}
<1>1. CASE Continue(s, offset)
  <2>1. /\ at' \in [Scans -> 0..Chunks]
        /\ desk' \in [Scans -> Desks] /\ desk'[s] \in {"sending", "asking"}
        /\ \A t \in Scans \ {s} : desk'[t] = desk[t]
    BY <1>1 DEF Continue, DeskTyped, Desks
  <2>2. \/ good' = good /\ bad' = bad
        \/ good' = [good EXCEPT ![s] = TRUE] /\ bad' = bad
        \/ bad < MaxBad /\ bad' = bad + 1 /\ good' = [good EXCEPT ![s] = FALSE]
    <3>1. CASE offset = Chunks
      BY <1>1, <3>1 DEF Continue
    <3>2. CASE offset # Chunks
      BY <1>1, <3>2, Zenon DEF Continue
    <3> QED
      BY <3>1, <3>2, Zenon
  <2>3. bad' = bad \/ (bad < MaxBad /\ bad' = bad + 1)
    BY <2>2, Zenon
  <2>4. good' \in [Scans -> BOOLEAN]
    BY <2>2, Zenon DEF DeskTyped
  <2>5. bad' \in 0..MaxBad
    BY <2>3, CaptureConstantsOK DEF DeskTyped, CaptureConstantsOK
  <2> QED
    BY <2>1, <2>4, <2>5 DEF DeskTyped, Desks
<1>2. CASE Hear(s, what)
  BY <1>2, CaptureConstantsOK DEF Hear, DeskTyped, Desks, CaptureConstantsOK
<1>3. CASE UNCHANGED deskVars
  BY <1>3 DEF deskVars, DeskTyped
<1> QED
  BY <1>1, <1>2, <1>3

(* A request is one of the workstation's. *)
LEMMA RequestTyped ==
  ASSUME DeskTyped, NEW s \in Scans
  PROVE  Request(s) \in [scan : Scans, offset : 0..Chunks, good : BOOLEAN]
BY DEF DeskTyped, Request

LEMMA OffsetTyped ==
  ASSUME SessionsTyped, NEW s \in Scans PROVE Offset(s) \in 0..Chunks
BY CaptureConstantsOK DEF SessionsTyped, Offset, CaptureConstantsOK

LEMMA ChunkTyped ==
  ASSUME SessionsTyped, NEW s \in Scans, NEW b \in BOOLEAN, Offset(s) < Chunks,
         chunks' = [chunks EXCEPT ![s] = Append(@, b)], UNCHANGED session
  PROVE  SessionsTyped'
<1>1. chunks[s] \in Seq(BOOLEAN) /\ Chunks \in Nat /\ Len(chunks[s]) < Chunks
  BY CaptureConstantsOK DEF SessionsTyped, Offset, CaptureConstantsOK
<1> DEFINE q == Append(chunks[s], b)
<1>2. q \in Seq(BOOLEAN) /\ Len(q) <= Chunks
  BY <1>1
<1>3. chunks' = [chunks EXCEPT ![s] = q]
  OBVIOUS
<1> HIDE DEF q
<1>4. chunks' \in [Scans -> Seq(BOOLEAN)] /\ chunks'[s] = q /\ \A t \in Scans \ {s} : chunks'[t] = chunks[t]
  BY <1>2, <1>3 DEF SessionsTyped
<1>5. \A t \in Scans : Len(chunks'[t]) <= Chunks
  BY <1>2, <1>4 DEF SessionsTyped, Offset
<1> QED
  BY <1>4, <1>5 DEF SessionsTyped, Offset

LEMMA ForgotTyped ==
  ASSUME SessionsTyped, NEW s \in Scans, NEW status \in {"uploading", "completed", "failed"},
         session' = [session EXCEPT ![s] = status],
         chunks' = chunks \/ chunks' = [chunks EXCEPT ![s] = <<>>]
  PROVE  SessionsTyped'
<1>1. session' \in [Scans -> {"none", "uploading", "finalizing", "completed", "failed"}]
  BY DEF SessionsTyped
<1>2. chunks' \in [Scans -> Seq(BOOLEAN)] /\ \A t \in Scans : chunks'[t] = chunks[t] \/ chunks'[t] = <<>>
  <2> DEFINE none == <<>>
  <2>1. none \in Seq(BOOLEAN)
    OBVIOUS
  <2> HIDE DEF none
  <2>2. chunks \in [Scans -> Seq(BOOLEAN)] /\ (chunks' = chunks \/ chunks' = [chunks EXCEPT ![s] = none])
    BY DEF SessionsTyped, none
  <2>3. chunks' \in [Scans -> Seq(BOOLEAN)] /\ \A t \in Scans : chunks'[t] = chunks[t] \/ chunks'[t] = none
    BY <2>1, <2>2
  <2> QED
    BY <2>3 DEF none
<1>3. \A t \in Scans : Len(chunks'[t]) <= Chunks
  BY <1>2, CaptureConstantsOK DEF SessionsTyped, Offset, CaptureConstantsOK
<1> QED
  BY <1>1, <1>2, <1>3 DEF SessionsTyped, Offset

-----------------------------------------------------------------------------
(* The workstation's side. *)
LEMMA DeskSound ==
  ASSUME Sound, NEW s \in Scans,
         InitSession(s) \/ Open(s) \/ \E lost \in BOOLEAN : GiveUp(s, lost)
  PROVE  Sound'
<1>t. /\ StoreSound /\ DeskTyped /\ SessionsTyped /\ LateTyped /\ BatchTyped /\ OneLiveFile
      /\ \A t \in Scans : ScanSound(t)
  BY CaptureParts DEF Sound
<1>1. UNCHANGED <<storeVars, batchVars, chunks>>
  BY DEF InitSession, Open, GiveUp, sessionVars
<1>2. StoreSound' /\ RowsMove /\ UNCHANGED step
  BY <1>t, <1>1, StillSound DEF storeVars
<1>3. BatchTyped' /\ OneLiveFile'
  BY <1>t, <1>1 DEF batchVars, BatchTyped, OneLiveFile
<1>4. /\ session' \in [Scans -> {"none", "uploading", "finalizing", "completed", "failed"}]
      /\ \A t \in Scans : session'[t] = session[t] \/ (session[t] = "none" /\ session'[t] = "uploading")
  <2>t. session \in [Scans -> {"none", "uploading", "finalizing", "completed", "failed"}]
    BY <1>t DEF SessionsTyped
  <2>1. CASE InitSession(s)
    <3>1. session[s] = "none" /\ session' = [session EXCEPT ![s] = "uploading"]
      BY <2>1 DEF InitSession
    <3> QED
      BY <2>t, <3>1
  <2>2. CASE UNCHANGED session
    BY <2>t, <2>2
  <2> QED
    BY <2>1, <2>2 DEF Open, GiveUp, sessionVars
<1>5. SessionsTyped'
  BY <1>t, <1>1, <1>4 DEF SessionsTyped, Offset
<1>6. LateTyped'
  <2>1. CASE InitSession(s) \/ Open(s)
    BY <1>t, <2>1 DEF InitSession, Open, LateTyped
  <2>2. ASSUME NEW lost \in BOOLEAN, GiveUp(s, lost) PROVE LateTyped'
    <3>1. late' = late \/ late' = late \cup {Request(s)}
      BY <2>2 DEF GiveUp
    <3>2. troubles' \in 0..MaxTroubles
      BY <1>t, <2>2, CaptureConstantsOK DEF GiveUp, Trouble, LateTyped, CaptureConstantsOK
    <3> QED
      BY <1>t, <3>1, <3>2, RequestTyped DEF LateTyped
  <2> QED
    BY <2>1, <2>2
<1>7. /\ DeskTyped' /\ \A t \in Scans \ {s} : desk'[t] = desk[t]
      /\ desk'[s] = "done" => desk[s] = "done" \/ session[s] = "completed"
  <2>1. CASE InitSession(s)
    BY <1>t, <2>1 DEF InitSession, deskVars, DeskTyped
  <2>2. CASE Open(s) /\ session[s] = "uploading" /\ Continue(s, Offset(s))
    <3>1. Offset(s) \in 0..Chunks /\ "idle" \in Desks
      BY <1>t, OffsetTyped DEF Desks
    <3> QED
      BY <1>t, <2>2, <3>1, DeskMoves
  <2>3. CASE Open(s) /\ session[s] = "completed" /\ Hear(s, "done")
    <3>1. 0 \in 0..Chunks /\ "done" \in Desks
      BY CaptureConstantsOK DEF Desks, CaptureConstantsOK
    <3> QED
      BY <1>t, <2>3, <3>1, DeskMoves
  <2>4. CASE Hear(s, "idle")
    <3>1. 0 \in 0..Chunks /\ "idle" \in Desks
      BY CaptureConstantsOK DEF Desks, CaptureConstantsOK
    <3> QED
      BY <1>t, <2>4, <3>1, DeskMoves
  <2> QED
    BY <2>1, <2>2, <2>3, <2>4 DEF Open, GiveUp
<1>8. ASSUME NEW t \in Scans PROVE ScanSound(t)'
  <2>1. step'[t] = step[t] /\ chunks'[t] = chunks[t] /\ file'[t] = file[t] /\ asset'[t] = asset[t]
    BY <1>1, <1>2 DEF batchVars
  <2>2. Whole(t)' <=> Whole(t)
    BY <2>1, WholeKept
  <2>3. file[t] # "none" => asset[t] \in Rows /\ life'[asset[t]] \in Settled
    BY <1>t, <1>2, AssetKept DEF ScanSound
  <2>4. desk'[t] = "done" => desk[t] = "done" \/ session[t] = "completed"
    BY <1>7
  <2>5. session'[t] = session[t] \/ (session[t] = "none" /\ session'[t] = "uploading")
    BY <1>4
  <2> QED
    BY <1>t, <2>1, <2>2, <2>3, <2>4, <2>5 DEF ScanSound
<1> QED
  BY <1>2, <1>3, <1>5, <1>6, <1>7, <1>8, CaptureParts DEF Sound, StoreSound

-----------------------------------------------------------------------------
(* The server's side. *)
SoundButLate ==
  /\ StoreSound /\ DeskTyped /\ SessionsTyped /\ BatchTyped /\ OneLiveFile
  /\ \A s \in Scans : ScanSound(s)

LEMMA SoundParts ==
  /\ Sound <=> SoundButLate /\ LateTyped
  /\ Sound' <=> SoundButLate' /\ LateTyped'
BY CaptureParts DEF Sound, SoundButLate, StoreSound

LEMMA Heard ==
  ASSUME NEW s, NEW awaited, NEW what
  PROVE  /\ Answer(s, awaited, what) => Hear(s, what) \/ UNCHANGED deskVars
         /\ \A offset : Confirm(s, awaited, offset) => Continue(s, offset) \/ UNCHANGED deskVars
<1>1. Answer(s, awaited, what) => Hear(s, what) \/ UNCHANGED deskVars
  BY Zenon DEF Answer
<1>2. \A offset : Confirm(s, awaited, offset) => Continue(s, offset) \/ UNCHANGED deskVars
  BY Zenon DEF Confirm
<1> QED
  BY <1>1, <1>2

LEMMA AppendSound ==
  ASSUME SoundButLate, NEW m \in [scan : Scans, offset : 0..Chunks, good : BOOLEAN], NEW awaited,
         AppendChunk(m, awaited),
         UNCHANGED <<fileVars, objects, drawn, slotVars, listed, adopted, batchVars>>
  PROVE  SoundButLate'
<1> DEFINE s == m.scan
<1>t. /\ StoreSound /\ DeskTyped /\ SessionsTyped /\ BatchTyped /\ OneLiveFile
      /\ s \in Scans /\ m.good \in BOOLEAN /\ m.offset \in 0..Chunks /\ m.offset < Chunks
      /\ \A t \in Scans : ScanSound(t)
  BY DEF SoundButLate, AppendChunk
<1>1. UNCHANGED <<storeVars, batchVars, step, session>>
  BY DEF AppendChunk, storeVars
<1>2. StoreSound' /\ RowsMove
  BY <1>t, <1>1, StillSound
<1>3. BatchTyped' /\ OneLiveFile'
  BY <1>t, <1>1 DEF batchVars, BatchTyped, OneLiveFile
<1>4. \/ Appends(m) /\ chunks' = [chunks EXCEPT ![s] = Append(@, m.good)]
      \/ UNCHANGED chunks
  BY DEF AppendChunk
<1>5. /\ SessionsTyped' /\ \A t \in Scans \ {s} : chunks'[t] = chunks[t]
      /\ chunks'[s] = chunks[s] \/ session[s] = "uploading"
  <2>1. CASE UNCHANGED chunks
    BY <1>t, <1>1, <2>1 DEF SessionsTyped, Offset
  <2>2. CASE Appends(m) /\ chunks' = [chunks EXCEPT ![s] = Append(@, m.good)]
    <3>1. session[s] = "uploading" /\ Offset(s) < Chunks
      BY <1>t, <2>2 DEF Appends
    <3>2. SessionsTyped'
      BY <1>t, <1>1, <2>2, <3>1, ChunkTyped
    <3>3. \A t \in Scans \ {s} : chunks'[t] = chunks[t]
      BY <1>t, <2>2 DEF SessionsTyped
    <3> QED
      BY <3>1, <3>2, <3>3
  <2> QED
    BY <1>4, <2>1, <2>2
<1>6. \/ \E offset \in 0..Chunks : Continue(s, offset)
      \/ Hear(s, "idle")
      \/ UNCHANGED deskVars
  <2>0. Offset(s) \in 0..Chunks /\ m.offset + 1 \in 0..Chunks /\ Chunks \in 0..Chunks
    BY <1>t, OffsetTyped, CaptureConstantsOK DEF CaptureConstantsOK
  <2>1. \/ Confirm(s, awaited, m.offset + 1)
        \/ Confirm(s, awaited, Chunks) \/ Confirm(s, awaited, Offset(s))
        \/ Answer(s, awaited, "idle")
    BY Zenon DEF AppendChunk
  <2> QED
    BY <2>0, <2>1, Heard
<1>7. /\ DeskTyped' /\ \A t \in Scans \ {s} : desk'[t] = desk[t]
      /\ desk'[s] \in {"sending", "asking", "idle", desk[s]}
  <2>0. 0 \in 0..Chunks /\ "idle" \in Desks
    BY CaptureConstantsOK DEF CaptureConstantsOK, Desks
  <2> HIDE DEF s
  <2>1. CASE \E offset \in 0..Chunks : Continue(s, offset)
    BY <1>t, <2>0, <2>1, DeskMoves
  <2>2. CASE Hear(s, "idle") \/ UNCHANGED deskVars
    BY <1>t, <2>0, <2>2, DeskMoves
  <2> QED
    BY <1>6, <2>1, <2>2
<1>8. ASSUME NEW t \in Scans PROVE ScanSound(t)'
  <2>1. step'[t] = step[t] /\ session'[t] = session[t] /\ file'[t] = file[t] /\ asset'[t] = asset[t]
    BY <1>1 DEF batchVars
  <2>2. file[t] # "none" => asset[t] \in Rows /\ life'[asset[t]] \in Settled
    BY <1>t, <1>2, AssetKept DEF ScanSound
  <2>3. desk'[t] = "done" => session[t] = "completed"
    BY <1>t, <1>7 DEF ScanSound
  <2>4. step[t] \notin {"idle", "verify", "resume"} => Whole(t)'
    <3>1. CASE chunks'[t] = chunks[t]
      BY <1>t, <3>1, WholeKept DEF ScanSound
    <3>2. CASE chunks'[t] # chunks[t]
      BY <1>t, <1>5, <3>2 DEF ScanSound
    <3> QED
      BY <3>1, <3>2
  <2> QED
    BY <1>t, <2>1, <2>2, <2>3, <2>4 DEF ScanSound
<1> QED
  BY <1>2, <1>3, <1>5, <1>7, <1>8 DEF SoundButLate

LEMMA BeginSound ==
  ASSUME SoundButLate, NEW m \in [scan : Scans, offset : 0..Chunks, good : BOOLEAN], NEW awaited,
         BeginComplete(m, awaited),
         UNCHANGED <<fileVars, objects, drawn, slotVars, listed, adopted, batchVars>>
  PROVE  SoundButLate'
<1> DEFINE s == m.scan
<1>t. /\ StoreSound /\ DeskTyped /\ SessionsTyped /\ BatchTyped /\ OneLiveFile
      /\ s \in Scans /\ s \in Slots /\ SlotsTyped
      /\ \A t \in Scans : ScanSound(t)
  BY StoreParts DEF SoundButLate, StoreSound, Scans, Slots
<1>1. UNCHANGED <<batchVars, chunks>>
  BY DEF BeginComplete
<1>2. \/ /\ session[s] = "uploading" /\ session' = [session EXCEPT ![s] = "finalizing"]
         /\ step' = [step EXCEPT ![s] = "verify"] /\ Answer(s, awaited, "served")
      \/ session[s] = "completed" /\ Answer(s, awaited, "done") /\ UNCHANGED <<session, step>>
      \/ Answer(s, awaited, "idle") /\ UNCHANGED <<session, step>>
  BY DEF BeginComplete, Ready, Go
<1>3. /\ DeskTyped' /\ \A t \in Scans \ {s} : desk'[t] = desk[t]
      /\ desk'[s] = "done" => desk[s] = "done" \/ session[s] = "completed"
  <2> HIDE DEF s
  <2>0. 0 \in 0..Chunks /\ "idle" \in Desks /\ "served" \in Desks /\ "done" \in Desks
    BY CaptureConstantsOK DEF CaptureConstantsOK, Desks
  <2>1. CASE Answer(s, awaited, "served")
    <3>1. Hear(s, "served") \/ UNCHANGED deskVars
      BY <2>1, Heard
    <3> QED
      BY <1>t, <2>0, <3>1, DeskMoves
  <2>2. CASE Answer(s, awaited, "done") /\ session[s] = "completed"
    <3>1. Hear(s, "done") \/ UNCHANGED deskVars
      BY <2>2, Heard
    <3> QED
      BY <1>t, <2>0, <2>2, <3>1, DeskMoves
  <2>3. CASE Answer(s, awaited, "idle")
    <3>1. Hear(s, "idle") \/ UNCHANGED deskVars
      BY <2>3, Heard
    <3> QED
      BY <1>t, <2>0, <3>1, DeskMoves
  <2> QED
    BY <1>2, <2>1, <2>2, <2>3
<1>4. CASE /\ session[s] = "uploading" /\ session' = [session EXCEPT ![s] = "finalizing"]
           /\ step' = [step EXCEPT ![s] = "verify"]
  <2> HIDE DEF s
  <2>1. SlotsTyped' /\ step'[s] = "verify" /\ \A b \in Slots \ {s} : Same(b)
    BY <1>t, <1>4 DEF SlotsTyped, Steps, slotVars, Same
  <2>2. StoreSound' /\ RowsMove
    <3>1. key'[s] = key[s]
      BY DEF slotVars
    <3> QED
      BY <1>t, <2>1, <3>1, AsideSound
  <2>3. /\ SessionsTyped' /\ session'[s] = "finalizing"
        /\ \A t \in Scans \ {s} : session'[t] = session[t]
    BY <1>t, <1>1, <1>4 DEF SessionsTyped, Offset
  <2>4. ScanSound(s)'
    <3>1. ScanSound(s) /\ file'[s] = file[s] /\ asset'[s] = asset[s]
      BY <1>t, <1>1 DEF batchVars
    <3>2. file[s] # "none" => asset[s] \in Rows /\ life'[asset[s]] \in Settled
      BY <1>t, <2>2, AssetKept DEF ScanSound
    <3>3. desk'[s] # "done"
      BY <1>3, <1>4, <3>1 DEF ScanSound
    <3> QED
      BY <2>1, <2>3, <3>1, <3>2, <3>3 DEF ScanSound
  <2>5. ASSUME NEW t \in Scans \ {s} PROVE ScanSound(t)'
    <3>1. SameScan(t)
      BY <1>1, <1>3, <1>4, <2>1, <2>3 DEF SameScan, batchVars, Same, Scans, Slots
    <3> QED
      BY <1>t, <2>2, <3>1, ScanKept
  <2>6. BatchTyped' /\ OneLiveFile'
    BY <1>t, <1>1 DEF batchVars, BatchTyped, OneLiveFile
  <2> QED
    BY <1>3, <2>2, <2>3, <2>4, <2>5, <2>6 DEF SoundButLate
<1>5. CASE UNCHANGED <<session, step>>
  <2>1. StoreSound' /\ RowsMove
    BY <1>t, <1>5, StillSound DEF storeVars
  <2>2. SessionsTyped' /\ BatchTyped' /\ OneLiveFile'
    BY <1>t, <1>1, <1>5 DEF batchVars, BatchTyped, OneLiveFile, SessionsTyped, Offset
  <2>3. ASSUME NEW t \in Scans PROVE ScanSound(t)'
    <3>1. /\ step'[t] = step[t] /\ session'[t] = session[t] /\ chunks'[t] = chunks[t]
          /\ file'[t] = file[t] /\ asset'[t] = asset[t]
      BY <1>1, <1>5 DEF batchVars
    <3>2. file[t] # "none" => asset[t] \in Rows /\ life'[asset[t]] \in Settled
      BY <1>t, <2>1, AssetKept DEF ScanSound
    <3>3. desk'[t] = "done" => session[t] = "completed"
      BY <1>t, <1>3 DEF ScanSound
    <3> QED
      BY <1>t, <3>1, <3>2, <3>3, WholeKept DEF ScanSound
  <2> QED
    BY <1>3, <2>1, <2>2, <2>3 DEF SoundButLate
<1> QED
  BY <1>2, <1>4, <1>5

LEMMA ServedSound ==
  ASSUME Sound, NEW m \in [scan : Scans, offset : 0..Chunks, good : BOOLEAN], NEW awaited,
         Serve(m, awaited), late' \subseteq late
  PROVE  Sound'
<1>1. SoundButLate /\ LateTyped
  BY SoundParts
<1>2. LateTyped'
  BY <1>1 DEF Serve, LateTyped
<1>3. SoundButLate'
  BY <1>1, AppendSound, BeginSound DEF Serve
<1> QED
  BY <1>2, <1>3, SoundParts

-----------------------------------------------------------------------------
(* The handler's steps. *)
HandlerVars == <<deskVars, sessionVars, batchVars>>

(* A step that concerns the store, and the step of this scan at most. *)
LEMMA StepSound ==
  ASSUME Sound, NEW s \in Scans, StoreSound', RowsMove, LateTyped', UNCHANGED HandlerVars,
         \A t \in Scans \ {s} : step'[t] = step[t],
         step'[s] # step[s] => /\ step[s] # "idle" /\ step'[s] # "complete"
                               /\ step'[s] \in {"idle", "verify", "resume"} \/ Whole(s)
  PROVE  Sound'
<1>t. /\ DeskTyped /\ SessionsTyped /\ BatchTyped /\ OneLiveFile
      /\ \A t \in Scans : ScanSound(t)
  BY SoundParts DEF SoundButLate
<1>1. UNCHANGED <<desk, at, good, bad, session, chunks, file, asset, batch>>
  BY DEF HandlerVars, deskVars, sessionVars, batchVars
<1>2. DeskTyped' /\ SessionsTyped' /\ BatchTyped' /\ OneLiveFile'
  BY <1>t, <1>1 DEF DeskTyped, SessionsTyped, BatchTyped, OneLiveFile, Offset
<1>3. ASSUME NEW t \in Scans PROVE ScanSound(t)'
  <2>1. Whole(t)' <=> Whole(t)
    BY <1>1, WholeKept
  <2>2. file[t] # "none" => asset[t] \in Rows /\ life'[asset[t]] \in Settled
    BY <1>t, AssetKept DEF ScanSound
  <2>3. CASE step'[t] = step[t]
    BY <1>t, <1>1, <2>1, <2>2, <2>3 DEF ScanSound
  <2>4. CASE step'[t] # step[t]
    BY <1>t, <1>1, <2>1, <2>2, <2>4 DEF ScanSound
  <2> QED
    BY <2>3, <2>4
<1> QED
  BY <1>2, <1>3, SoundParts DEF SoundButLate

(* A handler that ends, with the session as it leaves it. *)
LEMMA EndSound ==
  ASSUME Sound, NEW s \in Scans, NEW status \in {"uploading", "completed", "failed"},
         NEW what \in {"idle", "done"}, End(s, status, what),
         what = "done" => status = "completed", status = "completed" => file[s] # "none"
  PROVE  Sound'
<1>t. /\ StoreSound /\ DeskTyped /\ SessionsTyped /\ BatchTyped /\ OneLiveFile /\ LateTyped
      /\ s \in Slots /\ SlotsTyped
      /\ \A t \in Scans : ScanSound(t)
  BY SoundParts, StoreParts DEF SoundButLate, StoreSound, Scans, Slots
<1>1. /\ session[s] = "finalizing" /\ session' = [session EXCEPT ![s] = status]
      /\ chunks' = chunks \/ chunks' = [chunks EXCEPT ![s] = <<>>]
      /\ Turn(s, "idle") /\ Answer(s, desk[s] = "served", what)
      /\ UNCHANGED <<fileVars, objects, drawn, listed, adopted, late, batchVars, troubles>>
  BY DEF End
<1>2. SessionsTyped'
  BY <1>t, <1>1, ForgotTyped
<1>3. /\ \A t \in Scans \ {s} : session'[t] = session[t] /\ chunks'[t] = chunks[t]
      /\ session'[s] = status
  BY <1>t, <1>1 DEF SessionsTyped
<1>4. SlotsTyped' /\ step'[s] = "idle" /\ key'[s] \in {key[s], 0} /\ \A b \in Slots \ {s} : Same(b)
  BY <1>t, <1>1, Turned DEF Steps
<1>5. StoreSound' /\ RowsMove
  BY <1>t, <1>1, <1>4, AsideSound
<1>6. /\ DeskTyped' /\ \A t \in Scans \ {s} : desk'[t] = desk[t]
      /\ desk'[s] = "done" => desk[s] = "done" \/ what = "done"
  <2>1. Hear(s, what) \/ UNCHANGED deskVars
    BY <1>1, Heard
  <2>2. 0 \in 0..Chunks /\ what \in Desks
    BY CaptureConstantsOK DEF CaptureConstantsOK, Desks
  <2> QED
    BY <1>t, <2>1, <2>2, DeskMoves
<1>7. ScanSound(s)'
  <2>1. ScanSound(s) /\ file'[s] = file[s] /\ asset'[s] = asset[s]
    BY <1>t, <1>1 DEF batchVars
  <2>2. file[s] # "none" => asset[s] \in Rows /\ life'[asset[s]] \in Settled
    BY <1>t, <1>5, AssetKept DEF ScanSound
  <2>3. desk'[s] = "done" => status = "completed"
    BY <1>1, <1>6, <2>1 DEF ScanSound
  <2> QED
    BY <1>3, <1>4, <2>1, <2>2, <2>3 DEF ScanSound
<1>8. ASSUME NEW t \in Scans \ {s} PROVE ScanSound(t)'
  <2>1. SameScan(t)
    BY <1>1, <1>3, <1>4, <1>6 DEF SameScan, batchVars, Same, Scans, Slots
  <2> QED
    BY <1>t, <1>5, <2>1, ScanKept
<1>9. BatchTyped' /\ OneLiveFile' /\ LateTyped'
  BY <1>t, <1>1 DEF batchVars, BatchTyped, OneLiveFile, LateTyped
<1> QED
  BY <1>2, <1>5, <1>6, <1>7, <1>8, <1>9, SoundParts DEF SoundButLate

LEMMA AbandonSound == ASSUME Sound, NEW s \in Scans, Abandon(s) PROVE Sound'
<1>t. /\ StoreSound /\ DeskTyped /\ SessionsTyped /\ BatchTyped /\ OneLiveFile /\ LateTyped
      /\ s \in Slots /\ SlotsTyped
      /\ \A t \in Scans : ScanSound(t)
  BY SoundParts, StoreParts DEF SoundButLate, StoreSound, Scans, Slots
<1>1. /\ Turn(s, "idle") /\ Answer(s, desk[s] = "served", "idle")
      /\ UNCHANGED <<fileVars, objects, drawn, listed, adopted, late, session, chunks,
                     file, asset, batch, troubles>>
  BY DEF Abandon, sessionVars, batchVars
<1>2. SlotsTyped' /\ step'[s] = "idle" /\ key'[s] \in {key[s], 0} /\ \A b \in Slots \ {s} : Same(b)
  BY <1>t, <1>1, Turned DEF Steps
<1>3. StoreSound' /\ RowsMove
  BY <1>t, <1>1, <1>2, AsideSound
<1>4. /\ DeskTyped' /\ \A t \in Scans \ {s} : desk'[t] = desk[t]
      /\ desk'[s] = "done" => desk[s] = "done"
  <2>1. Hear(s, "idle") \/ UNCHANGED deskVars
    BY <1>1, Heard
  <2>2. 0 \in 0..Chunks /\ "idle" \in Desks
    BY CaptureConstantsOK DEF CaptureConstantsOK, Desks
  <2> QED
    BY <1>t, <2>1, <2>2, DeskMoves
<1>5. ASSUME NEW t \in Scans PROVE ScanSound(t)'
  <2>1. /\ session'[t] = session[t] /\ chunks'[t] = chunks[t]
        /\ file'[t] = file[t] /\ asset'[t] = asset[t]
        /\ step'[t] \in {step[t], "idle"} /\ (desk'[t] = "done" => desk[t] = "done")
    BY <1>1, <1>2, <1>4 DEF Same, Scans, Slots
  <2>2. file[t] # "none" => asset[t] \in Rows /\ life'[asset[t]] \in Settled
    BY <1>t, <1>3, AssetKept DEF ScanSound
  <2>3. Whole(t)' <=> Whole(t)
    BY <2>1, WholeKept
  <2> QED
    BY <1>t, <2>1, <2>2, <2>3 DEF ScanSound
<1>6. SessionsTyped' /\ BatchTyped' /\ OneLiveFile' /\ LateTyped'
  BY <1>t, <1>1 DEF BatchTyped, OneLiveFile, LateTyped, SessionsTyped, Offset
<1> QED
  BY <1>3, <1>4, <1>5, <1>6, SoundParts DEF SoundButLate

(* An active asset is used again. *)
LEMMA ReuseSound ==
  ASSUME StoreSound, NEW s \in Scans, Found # 0, life[Found] = "active",
         row' = [row EXCEPT ![s] = Found], step' = [step EXCEPT ![s] = "register"],
         UNCHANGED <<fileVars, objects, drawn, seen, key, listed, adopted>>
  PROVE  StoreSound' /\ RowsMove
<1>t. RowsTyped /\ SlotsTyped /\ RestTyped /\ s \in Slots /\ Found \in Rows
  BY StoreParts, SomeRow DEF StoreSound, Scans, Slots, Standing
<1>1. /\ RowsMove /\ ActiveSafe /\ RowsTyped' /\ UNCHANGED home
      /\ \A r \in Rows : life[r] = "none" => life'[r] = "none"
  BY <1>t, Still
<1>2. /\ SlotsTyped' /\ step'[s] = "register" /\ row'[s] = Found /\ \A b \in Slots \ {s} : Same(b)
  BY <1>t DEF SlotsTyped, Steps, Same
<1>3. RestTyped' /\ ObjectsSafe
  BY <1>t DEF RestTyped, ObjectsSafe
<1>4. TypeOKStore'
  BY <1>1, <1>2, <1>3, StoreParts
<1>5. SlotSound(s)'
  <2>1. life'[Found] = "active"
    BY DEF fileVars
  <2> QED
    BY <1>t, <1>2, <2>1 DEF SlotSound, Settled
<1>6. KeysSound' /\ (\A b \in Slots : SlotSound(b)') /\ (\A r \in Rows : RowSound(r)')
  <2> DEFINE A == {s}
  <2>1. /\ A \in SUBSET Slots /\ (\A b \in Slots \ A : Same(b)) /\ UNCHANGED <<home, drawn, adopted>>
        /\ \A b \in A : step'[b] # "create" /\ key'[b] \in {key[b], 0} /\ SlotSound(b)'
    BY <1>t, <1>1, <1>2, <1>5
  <2> HIDE DEF A
  <2> QED
    BY <1>1, <1>3, <1>4, <2>1, PlainStep
<1> QED
  BY <1>1, <1>4, <1>6, ListedKept DEF StoreSound, RowsTyped

LEMMA PrepareSound == ASSUME Sound, NEW s \in Scans, Prepare(s) PROVE Sound'
<1>t. /\ StoreSound /\ LateTyped /\ s \in Slots /\ SlotsTyped /\ RestTyped /\ ScanSound(s)
  BY SoundParts, StoreParts DEF SoundButLate, StoreSound, Scans, Slots
<1>1. /\ step[s] = "prepare" /\ Whole(s)
      /\ UNCHANGED <<fileVars, objects, seen, listed, adopted, captureVars>>
  BY <1>t DEF Prepare, ScanSound
<1>2. /\ StoreSound' /\ RowsMove /\ step'[s] # "complete"
      /\ \A t \in Scans \ {s} : step'[t] = step[t]
  <2>1. CASE Found # 0 /\ Usable(Found)
    <3>1. /\ life[Found] = "active" /\ row' = [row EXCEPT ![s] = Found]
          /\ step' = [step EXCEPT ![s] = "register"] /\ UNCHANGED <<drawn, key>>
      BY <2>1 DEF Prepare, Usable, Go
    <3> QED
      BY <1>t, <1>1, <2>1, <3>1, ReuseSound DEF SlotsTyped, Scans, Slots
  <2>2. CASE Found # 0 /\ ~Usable(Found)
    <3>1. step' = [step EXCEPT ![s] = "resume"] /\ UNCHANGED <<row, drawn, key>>
      BY <2>2 DEF Prepare, Go
    <3>2. SlotsTyped' /\ step'[s] = "resume" /\ \A b \in Slots \ {s} : Same(b)
      BY <1>t, <1>1, <3>1 DEF SlotsTyped, Steps, Same
    <3>3. StoreSound' /\ RowsMove
      BY <1>t, <1>1, <3>1, <3>2, AsideSound
    <3> QED
      BY <3>2, <3>3 DEF Same, Scans, Slots
  <2>3. CASE Found = 0
    <3>1. DrawKey(s) /\ step' = [step EXCEPT ![s] = "create"] /\ UNCHANGED row
      BY <2>3 DEF Prepare, Go
    <3>2. adopted \subseteq adopted' /\ adopted' \subseteq Rows /\ "create" \in {"create", "put"}
      BY <1>t, <1>1 DEF RestTyped
    <3>3. row' \in [Slots -> Rows \cup {0}] /\ seen' \in [Slots -> Nat]
      BY <1>t, <1>1, <3>1 DEF SlotsTyped
    <3>4. StoreSound' /\ RowsMove
      BY <1>t, <1>1, <3>1, <3>2, <3>3, DrawnSound
    <3> QED
      BY <1>t, <3>1, <3>4 DEF SlotsTyped, Scans, Slots
  <2> QED
    BY <2>1, <2>2, <2>3
<1>3. LateTyped' /\ UNCHANGED HandlerVars
  BY <1>t, <1>1 DEF captureVars, HandlerVars, LateTyped
<1> QED
  BY <1>1, <1>2, <1>3, StepSound

(* The steps at the asset. *)
LEMMA AssetSound ==
  ASSUME Sound, NEW s \in Scans, CreateAsset(s) \/ Put(s) \/ ActivateAsset(s) PROVE Sound'
<1>t. /\ StoreSound /\ LateTyped /\ s \in Slots /\ SlotsTyped /\ ScanSound(s)
  BY SoundParts, StoreParts DEF SoundButLate, StoreSound, Scans, Slots
<1>1. UNCHANGED captureVars
  BY DEF CreateAsset, Put, ActivateAsset
<1>2. LateTyped' /\ UNCHANGED HandlerVars
  BY <1>t, <1>1 DEF captureVars, HandlerVars, LateTyped
<1>3. step[s] \in {"create", "put", "activate"} /\ Whole(s)
  BY <1>t DEF CreateAsset, Put, ActivateAsset, Create, PutSucceeds, PutFails, Activate, ScanSound
<1>4. \E next \in {"put", "activate", "register", "resume"} : step' = [step EXCEPT ![s] = next]
  <2>1. CASE CreateAsset(s)
    BY <2>1 DEF CreateAsset, Create, Turn, Go
  <2>2. CASE Put(s)
    BY <2>2 DEF Put, PutSucceeds, PutFails, Turn, Go
  <2>3. CASE ActivateAsset(s)
    <3>1. CASE Activated(s)
      BY <2>3, <3>1 DEF ActivateAsset, Activate, Turn, Go
    <3>2. CASE ~Activated(s)
      BY <2>3, <3>2 DEF ActivateAsset, Activate, Turn, Go
    <3> QED
      BY <3>1, <3>2
  <2> QED
    BY <2>1, <2>2, <2>3
<1>5. step'[s] # "complete" /\ \A t \in Scans \ {s} : step'[t] = step[t]
  BY <1>t, <1>4 DEF SlotsTyped, Scans, Slots
<1>6. StoreSound' /\ RowsMove
  <2>1. CASE CreateAsset(s)
    BY <1>t, <2>1, CreateSound DEF CreateAsset
  <2>2. CASE Put(s)
    <3>1. Stored(s) = "right"
      BY <1>3 DEF Stored
    <3>2. PutSucceeds(s, "right") \/ \E stored \in BOOLEAN : PutFails(s, "right", stored, "resume")
      BY <2>2, <3>1 DEF Put
    <3> QED
      BY <1>t, <3>2, PutSound, PutFailsSound
  <2>3. CASE ActivateAsset(s)
    <3>1. CASE Activated(s)
      BY <1>t, <2>3, <3>1, ActivateSound DEF ActivateAsset
    <3>2. CASE ~Activated(s)
      BY <1>t, <2>3, <3>2, ActivateSound DEF ActivateAsset
    <3> QED
      BY <3>1, <3>2
  <2> QED
    BY <2>1, <2>2, <2>3
<1> QED
  BY <1>2, <1>3, <1>5, <1>6, StepSound

LEMMA RegisterSound == ASSUME Sound, NEW s \in Scans, Register(s) PROVE Sound'
<1>t. /\ StoreSound /\ DeskTyped /\ SessionsTyped /\ BatchTyped /\ OneLiveFile /\ LateTyped
      /\ s \in Slots /\ SlotsTyped /\ SlotSound(s)
      /\ \A t \in Scans : ScanSound(t)
  BY SoundParts, StoreParts DEF SoundButLate, StoreSound, Scans, Slots
<1>1. /\ step[s] = "register" /\ Whole(s) /\ session[s] = "finalizing"
      /\ row[s] \in Rows /\ life[row[s]] \in Settled
      /\ UNCHANGED <<fileVars, objects, drawn, slotVars, listed, adopted, desk, at, good, bad,
                     late, session, chunks, batch, troubles>>
  BY <1>t DEF Register, ScanSound, SlotSound, deskVars, sessionVars
<1>2. /\ step' \in {[step EXCEPT ![s] = "complete"], [step EXCEPT ![s] = "resume"]}
      /\ \/ UNCHANGED <<file, asset>>
         \/ /\ file[s] = "none" /\ asset' = [asset EXCEPT ![s] = row[s]]
            /\ \/ file' = [file EXCEPT ![s] = "uploaded"] /\ NoneLive(s)
               \/ file' = [file EXCEPT ![s] = "duplicate"] /\ ~NoneLive(s)
  BY DEF Register, Go
<1>3. step'[s] = "complete" => file'[s] # "none"
  <2>1. CASE batch = "open"
    BY <1>t, <2>1 DEF Register, BatchTyped
  <2>2. CASE batch # "open"
    BY <1>t, <2>2 DEF Register, Go, SlotsTyped
  <2> QED
    BY <2>1, <2>2
<1>4. SlotsTyped' /\ step'[s] \in {"complete", "resume"} /\ \A b \in Slots \ {s} : Same(b)
  BY <1>t, <1>1, <1>2 DEF SlotsTyped, Steps, slotVars, Same
<1>5. StoreSound' /\ RowsMove
  <2>1. key'[s] = key[s]
    BY <1>1 DEF slotVars
  <2> QED
    BY <1>t, <1>1, <1>4, <2>1, AsideSound
<1>6. DeskTyped' /\ SessionsTyped' /\ LateTyped'
  BY <1>t, <1>1 DEF DeskTyped, SessionsTyped, LateTyped, Offset
<1>7. /\ BatchTyped'
      /\ \A t \in Scans \ {s} : file'[t] = file[t] /\ asset'[t] = asset[t]
      /\ \/ file'[s] = file[s] /\ asset'[s] = asset[s]
         \/ file[s] = "none" /\ asset'[s] = row[s] /\ file'[s] \in {"uploaded", "duplicate"}
  BY <1>t, <1>1, <1>2 DEF BatchTyped
<1>8. OneLiveFile'
  <2>1. CASE UNCHANGED file
    BY <1>t, <2>1 DEF OneLiveFile
  <2>2. CASE file[s] = "none" /\ file' = [file EXCEPT ![s] = "uploaded"] /\ NoneLive(s)
    BY <1>t, <2>2 DEF OneLiveFile, NoneLive, BatchTyped
  <2>3. CASE file[s] = "none" /\ file' = [file EXCEPT ![s] = "duplicate"] /\ ~NoneLive(s)
    <3>1. PICK l \in Scans : file[l] = "uploaded" /\ \A t \in Scans \ {l} : file[t] # "uploaded"
      BY <1>t, <2>3 DEF OneLiveFile, NoneLive
    <3>2. file'[l] = "uploaded" /\ \A t \in Scans \ {l} : file'[t] # "uploaded"
      BY <1>t, <2>3, <3>1 DEF BatchTyped
    <3> QED
      BY <3>2 DEF OneLiveFile
  <2> QED
    BY <1>2, <2>1, <2>2, <2>3
<1>9. ASSUME NEW t \in Scans PROVE ScanSound(t)'
  <2>1. Whole(t)' <=> Whole(t)
    BY <1>1, WholeKept
  <2>2. file[t] # "none" => asset[t] \in Rows /\ life'[asset[t]] \in Settled
    BY <1>t, <1>5, AssetKept DEF ScanSound
  <2>3. life'[row[s]] \in Settled
    BY <1>1 DEF fileVars
  <2>4. CASE t = s
    BY <1>t, <1>1, <1>3, <1>4, <1>7, <2>1, <2>2, <2>3, <2>4 DEF ScanSound
  <2>5. CASE t # s
    <3>1. SameScan(t)
      BY <1>1, <1>4, <1>7, <2>5 DEF SameScan, Same, Scans, Slots
    <3> QED
      BY <1>t, <1>5, <3>1, ScanKept
  <2> QED
    BY <2>4, <2>5
<1> QED
  BY <1>5, <1>6, <1>7, <1>8, <1>9, SoundParts DEF SoundButLate

LEMMA WorkSound == ASSUME Sound, NEW s \in Scans, Work(s) PROVE Sound'
<1>t. StoreSound /\ LateTyped /\ s \in Slots /\ SlotsTyped /\ ScanSound(s)
  BY SoundParts, StoreParts DEF SoundButLate, StoreSound, Scans, Slots
<1>1. CASE Verify(s)
  <2>1. CASE Verified(s)
    <3>1. /\ step[s] = "verify" /\ Turn(s, "prepare") /\ Whole(s)
          /\ UNCHANGED <<fileVars, objects, drawn, listed, adopted, captureVars>>
      BY <1>1, <2>1 DEF Verify, Verified
    <3>2. SlotsTyped' /\ step'[s] = "prepare" /\ key'[s] \in {key[s], 0} /\ \A b \in Slots \ {s} : Same(b)
      BY <1>t, <3>1, Turned DEF Steps
    <3>3. StoreSound' /\ RowsMove
      BY <1>t, <3>1, <3>2, AsideSound
    <3>4. LateTyped' /\ UNCHANGED HandlerVars /\ \A t \in Scans \ {s} : step'[t] = step[t]
      BY <1>t, <3>1, <3>2 DEF captureVars, HandlerVars, LateTyped, Same, Scans, Slots
    <3> QED
      BY <3>1, <3>2, <3>3, <3>4, StepSound
  <2>2. CASE ~Verified(s)
    BY <1>1, <2>2, EndSound DEF Verify
  <2> QED
    BY <2>1, <2>2
<1>2. CASE Prepare(s)
  BY <1>2, PrepareSound
<1>3. CASE CreateAsset(s) \/ Put(s) \/ ActivateAsset(s)
  BY <1>3, AssetSound
<1>4. CASE Register(s)
  BY <1>4, RegisterSound
<1>5. CASE Complete(s)
  BY <1>t, <1>5, EndSound DEF Complete, ScanSound
<1>6. CASE Resume(s)
  BY <1>6, EndSound DEF Resume
<1> QED
  BY <1>1, <1>2, <1>3, <1>4, <1>5, <1>6 DEF Work

LEMMA CallFailsSound == ASSUME Sound, NEW s \in Scans, CallFails(s) PROVE Sound'
<1>t. StoreSound /\ LateTyped /\ s \in Slots /\ SlotsTyped
  BY SoundParts, StoreParts DEF SoundButLate, StoreSound, Scans, Slots
<1>1. /\ step[s] # "idle" /\ Trouble /\ step' = [step EXCEPT ![s] = "resume"]
      /\ UNCHANGED <<fileVars, objects, drawn, slotVars, listed, adopted, deskVars, late,
                     sessionVars, batchVars>>
  BY DEF CallFails, Go
<1>2. SlotsTyped' /\ step'[s] = "resume" /\ key'[s] = key[s] /\ \A b \in Slots \ {s} : Same(b)
  BY <1>t, <1>1 DEF SlotsTyped, Steps, slotVars, Same
<1>3. StoreSound' /\ RowsMove
  BY <1>t, <1>1, <1>2, AsideSound
<1>4. LateTyped' /\ UNCHANGED HandlerVars /\ \A t \in Scans \ {s} : step'[t] = step[t]
  BY <1>t, <1>1, <1>2, CaptureConstantsOK DEF Trouble, HandlerVars, LateTyped, Same, Scans, Slots, CaptureConstantsOK
<1> QED
  BY <1>1, <1>2, <1>3, <1>4, StepSound

LEMMA SetBatchStatusSound == ASSUME Sound, SetBatchStatus PROVE Sound'
<1>t. /\ StoreSound /\ DeskTyped /\ SessionsTyped /\ BatchTyped /\ OneLiveFile /\ LateTyped
      /\ \A t \in Scans : ScanSound(t)
  BY SoundParts DEF SoundButLate
<1>1. /\ UNCHANGED <<storeVars, step, desk, at, good, bad, late, session, chunks, file, asset, troubles>>
      /\ batch' \in {"open", "closed"}
  BY DEF SetBatchStatus, storeVars, deskVars, sessionVars
<1>2. StoreSound' /\ RowsMove
  BY <1>t, <1>1, StillSound
<1>3. DeskTyped' /\ SessionsTyped' /\ BatchTyped' /\ OneLiveFile' /\ LateTyped'
  BY <1>t, <1>1 DEF DeskTyped, SessionsTyped, BatchTyped, OneLiveFile, LateTyped, Offset
<1>4. ASSUME NEW t \in Scans PROVE ScanSound(t)'
  <2>1. SameScan(t)
    BY <1>1 DEF SameScan
  <2> QED
    BY <1>t, <1>2, <2>1, ScanKept
<1> QED
  BY <1>2, <1>3, <1>4, SoundParts DEF SoundButLate

-----------------------------------------------------------------------------
LEMMA NextSound == ASSUME Sound, [Next]_vars PROVE Sound'
<1>t. StoreSound /\ LateTyped /\ DeskTyped /\ \A t \in Scans : ScanSound(t)
  BY SoundParts DEF SoundButLate
<1>1. ASSUME NEW s \in Scans, Desk(s) \/ \E lost \in BOOLEAN : GiveUp(s, lost) PROVE Sound'
  <2>1. CASE Deliver(s)
    <3>1. Request(s) \in [scan : Scans, offset : 0..Chunks, good : BOOLEAN]
      BY <1>t, RequestTyped
    <3>2. Serve(Request(s), TRUE) /\ late' \subseteq late
      BY <2>1 DEF Deliver
    <3> QED
      BY <3>1, <3>2, ServedSound
  <2>2. CASE InitSession(s) \/ Open(s) \/ \E lost \in BOOLEAN : GiveUp(s, lost)
    BY <2>2, DeskSound
  <2> QED
    BY <1>1, <2>1, <2>2 DEF Desk
<1>2. ASSUME NEW s \in Scans, Work(s) \/ CallFails(s) \/ Abandon(s) PROVE Sound'
  BY <1>2, WorkSound, CallFailsSound, AbandonSound
<1>3. ASSUME NEW m \in late, DeliverLate(m) PROVE Sound'
  <2>1. m \in [scan : Scans, offset : 0..Chunks, good : BOOLEAN]
    BY <1>t DEF LateTyped
  <2>2. Serve(m, FALSE) /\ late' \subseteq late
    BY <1>3 DEF DeliverLate
  <2> QED
    BY <2>1, <2>2, ServedSound
<1>4. CASE NextStore /\ UNCHANGED captureVars
  <2>1. StoreSound' /\ RowsMove
    BY <1>t, <1>4, NextStoreSound
  <2>2. \A t \in Scans : step'[t] = step[t]
    BY <1>t, <1>4, NextStoreScans
  <2>3. \A t \in Scans : SameScan(t)
    BY <1>4, <2>2 DEF SameScan, captureVars, deskVars, sessionVars, batchVars
  <2>4. \A t \in Scans : ScanSound(t)'
    BY <1>t, <2>1, <2>3, ScanKept
  <2>5. DeskTyped' /\ SessionsTyped' /\ BatchTyped' /\ OneLiveFile' /\ LateTyped'
    <3>1. SessionsTyped /\ BatchTyped /\ OneLiveFile
      BY SoundParts DEF SoundButLate
    <3>2. UNCHANGED <<desk, at, good, bad, late, session, chunks, file, asset, batch, troubles>>
      BY <1>4 DEF captureVars, deskVars, sessionVars, batchVars
    <3> QED
      BY <1>t, <3>1, <3>2 DEF DeskTyped, SessionsTyped, BatchTyped, OneLiveFile, LateTyped, Offset
  <2> QED
    BY <2>1, <2>4, <2>5, SoundParts DEF SoundButLate
<1>5. CASE UNCHANGED vars
  <2>1. UNCHANGED <<storeVars, captureVars>>
    BY <1>5 DEF vars
  <2>2. StoreSound' /\ RowsMove
    BY <1>t, <2>1, StillSound
  <2>3. UNCHANGED <<step, desk, at, good, bad, late, session, chunks, file, asset, batch, troubles>>
    BY <2>1 DEF storeVars, captureVars, deskVars, sessionVars, batchVars
  <2>4. \A t \in Scans : ScanSound(t)'
    BY <1>t, <2>2, <2>3, ScanKept DEF SameScan
  <2>5. DeskTyped' /\ SessionsTyped' /\ BatchTyped' /\ OneLiveFile' /\ LateTyped'
    <3>1. SessionsTyped /\ BatchTyped /\ OneLiveFile
      BY SoundParts DEF SoundButLate
    <3> QED
      BY <1>t, <2>3, <3>1 DEF DeskTyped, SessionsTyped, BatchTyped, OneLiveFile, LateTyped, Offset
  <2> QED
    BY <2>2, <2>4, <2>5, SoundParts DEF SoundButLate
<1> QED
  BY <1>1, <1>2, <1>3, <1>4, <1>5, SetBatchStatusSound DEF Next

LEMMA AlwaysSound == Spec => []Sound
<1>1. Sound /\ [Next]_vars => Sound'
  BY NextSound
<1> QED
  BY <1>1, InitSound, PTL DEF Spec

(* The variables of the files and of the capture keep their types.         *)
THEOREM Types == Spec => []TypeOK
<1>1. Sound => TypeOK
  BY DEF Sound
<1> QED
  BY <1>1, AlwaysSound, PTL

(* An active asset that no later upload of the same content took over has  *)
(* its bytes where its row says, through concurrent uploads, deletions,    *)
(* repair runs, and requests and processes lost between their two halves.  *)
THEOREM AdoptedOnly == Spec => []OnlyAdoptedLoseObjects
<1>1. Sound => OnlyAdoptedLoseObjects
  BY DEF Sound, StoreSound, RowSound, OnlyAdoptedLoseObjects, Kept
<1> QED
  BY <1>1, AlwaysSound, PTL

(* A workstation that has heard "completed" has left a registered file     *)
(* behind, whose asset did reach the store.                                *)
THEOREM DoneIsBacked == Spec => []DoneIsRegistered
<1>1. Sound => DoneIsRegistered
  BY DEF Sound, ScanSound, DoneIsRegistered, Settled, Doomed, Unfinished
<1> QED
  BY <1>1, AlwaysSound, PTL

(* Of the copies of a page that are registered with a batch, exactly one   *)
(* is live, in whatever order their sessions are completed and retried.    *)
THEOREM OneIsLive == Spec => []OneLiveFile
<1>1. Sound => OneLiveFile
  BY DEF Sound
<1> QED
  BY <1>1, AlwaysSound, PTL
=============================================================================
