----------------------------- MODULE UserItems -----------------------------
(***************************************************************************)
(* auth/postgres.go, with its callers in auth/service.go: the JSON         *)
(* collections of a user, synth_configs and melodies, each a JSONB array   *)
(* in the user's row.                                                      *)
(*                                                                         *)
(* Adding an item is one UPDATE that appends to the array; PostgreSQL      *)
(* makes it atomic and serialises it with the other updates of the row.    *)
(* Deleting an item is two statements without a transaction: does an item  *)
(* with this id exist, then an UPDATE that keeps the items whose id is     *)
(* different.  An item is any JSON object, so it need not have an id, and  *)
(* several may have the same.  A melody carries snapshots of the sounds it *)
(* is played with; its notes, its own and those of its tracks, refer to    *)
(* them, which AddMelody checks before anything is stored.                 *)
(*                                                                         *)
(* A request may lose its connection or run out of time at any point: the  *)
(* UPDATE of a request that was answered with an error may still have been *)
(* committed.                                                              *)
(***************************************************************************)
EXTENDS Integers, Sequences, SequencesExt

CONSTANTS
  Collections,     \* one for each user and column
  Melodies,        \* those of them that hold melodies
  Sounds,          \* ids of sound snapshots
  Absent, Invalid, \* instead of one: none or null; not a string, or blank
  Contents,        \* the melodies that users submit
  ItemIds, NoId,   \* the "id" of an item; NoId is SQL's NULL
  Requests,        \* concurrent DELETE requests
  NoRequest,
  MaxItems         \* bound: items added in all

ASSUME CollectionsAssumption == Melodies \subseteq Collections
ASSUME ItemsAssumption == MaxItems \in Nat
ASSUME NoIdAssumption == NoId \notin ItemIds
ASSUME SoundsAssumption == {Absent, Invalid} \cap Sounds = {} /\ Absent # Invalid

References == Seq(Sounds \cup {Absent, Invalid})

\* What AddMelody looks at: the ids of sound_snapshots, and the
\* sound_snapshot_id of each of the notes, and of each track's.
Content == [snapshots : References, notes : References, tracks : Seq(References)]

ASSUME ContentsAssumption == Contents \subseteq Content

\* The content of a synth configuration: nothing is asked of it.
Plain == [snapshots |-> << >>, notes |-> << >>, tracks |-> << >>]

VARIABLES
  table,           \* the arrays
  req,             \* a DELETE between its two statements
  added,           \* history: the items added, with their collection
  deleted          \* history: the deletes made: collection, id, and how many
                   \* items had been added by then

vars == <<table, req, added, deleted>>

\* `tag' tells apart items that are equal to the program.
Item == [id : ItemIds \cup {NoId}, tag : 1..MaxItems,
         content : Contents \cup {Plain}]

Count == Cardinality(added)

Init ==
  /\ table = [c \in Collections |-> << >>]
  /\ req = [r \in Requests |-> NoRequest]
  /\ added = {} /\ deleted = {}

-----------------------------------------------------------------------------
\* Adding.

collectSnapshotIDs(content) == ToSet(content.snapshots)

validateNotesSnapshotReferences(notes, ids) == ToSet(notes) \ {Absent} \subseteq ids

\* Mutant: only the notes of the first track are looked at.
validateTracksSnapshotReferences_First(tracks, ids) ==
  tracks # << >> => validateNotesSnapshotReferences(tracks[1], ids)

validateTracksSnapshotReferences(tracks, ids) ==
  \A track \in ToSet(tracks) : validateNotesSnapshotReferences(track, ids)

validateMelodySnapshotReferences(content) ==
  LET ids == collectSnapshotIDs(content) IN
  /\ ids \subseteq Sounds
  /\ validateNotesSnapshotReferences(content.notes, ids)
  /\ validateTracksSnapshotReferences(content.tracks, ids)

NewItem(id, content) == [id |-> id, tag |-> Count + 1, content |-> content]

\* Mutant: the new item is put first.
addJSONItem_Prepend(c, item) ==
  /\ Count < MaxItems
  /\ table' = [table EXCEPT ![c] = <<item>> \o @]
  /\ added' = added \cup {[collection |-> c, item |-> item]}
  /\ UNCHANGED <<req, deleted>>

\* SET column = column || jsonb_build_array(item).
addJSONItem(c, item) ==
  /\ Count < MaxItems
  /\ table' = [table EXCEPT ![c] = Append(@, item)]
  /\ added' = added \cup {[collection |-> c, item |-> item]}
  /\ UNCHANGED <<req, deleted>>

AddSynthConfig(c, id) ==
  c \notin Melodies /\ addJSONItem(c, NewItem(id, Plain))

\* A melody that is not valid is answered with validation_error.
AddMelody(c, id, content) ==
  /\ c \in Melodies
  /\ validateMelodySnapshotReferences(content)
  /\ addJSONItem(c, NewItem(id, content))

-----------------------------------------------------------------------------
\* Deleting.

\* The first statement of deleteJSONItem.  When no item has the id the
\* request is answered with not_found; an item without an id has none.
CheckItemExists(r, c, id) ==
  /\ req[r] = NoRequest
  /\ \E i \in DOMAIN table[c] : table[c][i].id = id
  /\ req' = [req EXCEPT ![r] = [collection |-> c, id |-> id]]
  /\ UNCHANGED <<table, added, deleted>>

\* The WHERE clause of the second statement: item->>'id' <> $2.  For an item
\* without an id the comparison is NULL, which is not true.
IdDiffers(item, id) == item.id # NoId /\ item.id # id

\* How many of the places in `kept' come up to place i.
Rank(kept, i) == Cardinality({j \in kept : j <= i})

\* What the UPDATE leaves: the items whose id is different, in their order.
KeptItems(items, id) ==
  LET kept == {i \in DOMAIN items : IdDiffers(items[i], id)} IN
  [k \in 1..Cardinality(kept) |-> items[CHOOSE i \in kept : Rank(kept, i) = k]]

\* Mutant: the statement is run on every collection.
DeleteItem_Everywhere(r) ==
  /\ req[r] # NoRequest
  /\ table' = [c \in Collections |-> KeptItems(table[c], req[r].id)]
  /\ deleted' = deleted \cup
       {[collection |-> req[r].collection, id |-> req[r].id, after |-> Count]}
  /\ req' = [req EXCEPT ![r] = NoRequest]
  /\ UNCHANGED added

\* The second statement of deleteJSONItem.
DeleteItem(r) ==
  /\ req[r] # NoRequest
  /\ table' = [table EXCEPT ![req[r].collection] = KeptItems(@, req[r].id)]
  /\ deleted' = deleted \cup
       {[collection |-> req[r].collection, id |-> req[r].id, after |-> Count]}
  /\ req' = [req EXCEPT ![r] = NoRequest]
  /\ UNCHANGED added

\* The request ends before its second statement is run.
Fail(r) ==
  /\ req[r] # NoRequest
  /\ req' = [req EXCEPT ![r] = NoRequest]
  /\ UNCHANGED <<table, added, deleted>>

Next ==
  \/ \E c \in Collections, id \in ItemIds \cup {NoId} :
       AddSynthConfig(c, id) \/ \E content \in Contents : AddMelody(c, id, content)
  \/ \E r \in Requests, c \in Collections, id \in ItemIds : CheckItemExists(r, c, id)
  \/ \E r \in Requests : DeleteItem(r) \/ Fail(r)

Spec == Init /\ [][Next]_vars

-----------------------------------------------------------------------------

(***************************************************************************)
(* No interleaving of the requests loses an item that has an id: it stays  *)
(* in its collection until a delete of that id in that collection, made    *)
(* after it was added.                                                     *)
(***************************************************************************)
KeptUntilDeleted ==
  \A a \in added :
    \/ a.item.id = NoId
    \/ \E i \in DOMAIN table[a.collection] : table[a.collection][i] = a.item
    \/ \E d \in deleted : /\ d.collection = a.collection
                          /\ d.id = a.item.id
                          /\ d.after >= a.item.tag

(***************************************************************************)
(* A delete is final: no later request brings back an item that was there  *)
(* when its id was deleted, and a collection never shows an item twice or  *)
(* in another order than they were added in.                               *)
(***************************************************************************)
DeletedStaysDeleted ==
  \A c \in Collections :
    /\ \A i, j \in DOMAIN table[c] : i < j => table[c][i].tag < table[c][j].tag
    /\ \A i \in DOMAIN table[c], d \in deleted :
         d.collection = c /\ d.id = table[c][i].id => d.after < table[c][i].tag

(***************************************************************************)
(* Every melody that is stored can be played: whatever note of it, in      *)
(* whichever track, names a sound, the melody has a snapshot of that       *)
(* sound, and none of its snapshots is without a name.                     *)
(***************************************************************************)
SoundsResolve ==
  \A c \in Melodies : \A item \in ToSet(table[c]) :
    LET named == UNION {ToSet(notes) :
          notes \in {item.content.notes} \cup ToSet(item.content.tracks)} IN
    named \subseteq {Absent} \cup (ToSet(item.content.snapshots) \ {Invalid})

(***************************************************************************)
(* Deleting an item removes the items that have the id it was asked to     *)
(* delete, and no others.  The code also removes every item that has no    *)
(* id, because its filter is NULL for these.                               *)
(***************************************************************************)
DeletesOnlyTheItem ==
  [][\A c \in Collections : \A item \in ToSet(table[c]) \ ToSet(table'[c]) :
       \E r \in Requests : req[r] # NoRequest /\ req[r].id = item.id]_vars
=============================================================================
