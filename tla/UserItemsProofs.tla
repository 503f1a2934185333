--------------------------- MODULE UserItemsProofs ---------------------------
(***************************************************************************)
(* What holds of a user's collections for any number of collections,       *)
(* requests and items.  The filter of a DELETE is not recursive: its k-th  *)
(* item is found by counting, so that what it keeps, and in which order,   *)
(* follows from the theorems on cardinalities.                             *)
(***************************************************************************)
EXTENDS UserItems, FiniteSetTheorems, TLAPS

Entry == [id : ItemIds \cup {NoId}, tag : Nat, content : Content]

\* The variables' types.  The tags are what additions were counted with.
TypeInv ==
  /\ table \in [Collections -> Seq(Entry)]
  /\ req \in [Requests -> {NoRequest} \cup [collection : Collections, id : ItemIds]]
  /\ IsFiniteSet(added)
  /\ \A a \in added : /\ a.collection \in Collections /\ a.item \in Entry
                      /\ a.item.tag \in 1..Count
  /\ \A d \in deleted : d.after \in 0..Count

\* What a collection holds was added before.
TagInv ==
  \A c \in Collections : \A i \in DOMAIN table[c] : table[c][i].tag \in 1..Count

\* Every melody in a collection has passed AddMelody's checks.
CheckedInv ==
  \A c \in Melodies : \A i \in DOMAIN table[c] :
    validateMelodySnapshotReferences(table[c][i].content)

ItemsInv == TypeInv /\ TagInv /\ CheckedInv /\ KeptUntilDeleted /\ DeletedStaysDeleted

-----------------------------------------------------------------------------
\* The filter of a DELETE.

\* Counting the places of a set of them numbers these from 1 to their number,
\* in their order, and leaves out no number.
LEMMA RankNumbers ==
  ASSUME NEW n \in Nat, NEW kept \in SUBSET (1..n)
  PROVE  /\ IsFiniteSet(kept) /\ Cardinality(kept) \in Nat
         /\ \A i \in kept : Rank(kept, i) \in 1..Cardinality(kept)
         /\ \A i, j \in kept : Rank(kept, i) < Rank(kept, j) => i < j
         /\ \A i, j \in kept : Rank(kept, i) = Rank(kept, j) => i = j
         /\ \A k \in 1..Cardinality(kept) : \E i \in kept : Rank(kept, i) = k
<1> DEFINE UpTo(i) == {j \in kept : j <= i}
<1>1. IsFiniteSet(kept) /\ Cardinality(kept) \in Nat
  <2>1. IsFiniteSet(1..n)
    BY FS_Interval
  <2> QED  BY <2>1, FS_Subset, FS_CardinalityType
<1>2. \A i \in kept : /\ IsFiniteSet(UpTo(i)) /\ UpTo(i) \subseteq kept
                      /\ Rank(kept, i) = Cardinality(UpTo(i))
                      /\ Rank(kept, i) \in 1..Cardinality(kept)
  <2> SUFFICES ASSUME NEW i \in kept
               PROVE  /\ IsFiniteSet(UpTo(i)) /\ UpTo(i) \subseteq kept
                      /\ Rank(kept, i) = Cardinality(UpTo(i))
                      /\ Rank(kept, i) \in 1..Cardinality(kept)
    OBVIOUS
  <2>1. UpTo(i) \in SUBSET kept /\ i \in UpTo(i)
    OBVIOUS
  <2>2. /\ IsFiniteSet(UpTo(i)) /\ Cardinality(UpTo(i)) <= Cardinality(kept)
        /\ Cardinality(UpTo(i)) \in Nat
    BY <1>1, <2>1, FS_Subset, FS_CardinalityType
  <2>3. Cardinality(UpTo(i)) # 0
    BY <2>1, <2>2, FS_EmptySet
  <2> QED  BY <1>1, <2>1, <2>2, <2>3 DEF Rank
<1>3. \A i, j \in kept : i < j => Rank(kept, i) < Rank(kept, j)
  <2> SUFFICES ASSUME NEW i \in kept, NEW j \in kept, i < j
               PROVE  Rank(kept, i) < Rank(kept, j)
    OBVIOUS
  <2> i \in Int /\ j \in Int /\ \A k \in kept : k \in Int
    OBVIOUS
  <2>0. \A k \in kept : k <= i => k <= j
    OBVIOUS
  <2>1. UpTo(i) \in SUBSET UpTo(j) /\ j \in UpTo(j) /\ j \notin UpTo(i)
    <3>1. j <= j /\ ~(j <= i)
      OBVIOUS
    <3> QED  BY <2>0, <3>1, Zenon
  <2>2. /\ Cardinality(UpTo(i)) <= Cardinality(UpTo(j))
        /\ Cardinality(UpTo(j)) # Cardinality(UpTo(i))
    BY <1>2, <2>1, FS_Subset
  <2> QED  BY <1>2, <2>2
<1>4. /\ \A i, j \in kept : Rank(kept, i) < Rank(kept, j) => i < j
      /\ \A i, j \in kept : Rank(kept, i) = Rank(kept, j) => i = j
  <2> SUFFICES ASSUME NEW i \in kept, NEW j \in kept
               PROVE  /\ Rank(kept, i) < Rank(kept, j) => i < j
                      /\ Rank(kept, i) = Rank(kept, j) => i = j
    OBVIOUS
  <2>1. i < j \/ i = j \/ j < i
    OBVIOUS
  <2>2. Rank(kept, i) \in Int /\ Rank(kept, j) \in Int
    <3>1. \A m \in kept : Rank(kept, m) \in 1..Cardinality(kept)
      BY <1>2
    <3> QED  BY <3>1
  <2>3. /\ i < j => Rank(kept, i) < Rank(kept, j)
        /\ j < i => Rank(kept, j) < Rank(kept, i)
    BY <1>3
  <2> QED  BY <2>1, <2>2, <2>3
<1>5. \A k \in 1..Cardinality(kept) : \E i \in kept : Rank(kept, i) = k
  <2> DEFINE N == 1..Cardinality(kept)
             f == [i \in kept |-> Rank(kept, i)]
  <2>1. f \in Injection(kept, N)
    <3>1. f \in [kept -> N]
      BY <1>2
    <3>2. IsInjective(f)
      BY <1>4 DEF IsInjective
    <3> HIDE DEF f, N
    <3> QED  BY <3>1, <3>2 DEF Injection
  <2>2. IsFiniteSet(N) /\ Cardinality(N) = Cardinality(kept)
    BY <1>1, FS_Interval
  <2>3. f \in Surjection(kept, N)
    BY <2>1, <2>2, FS_Injection
  <2> QED  BY <2>3 DEF Surjection
<1> QED  BY <1>1, <1>2, <1>4, <1>5

\* What a DELETE leaves of a collection: the items whose id is different, all
\* of them, and in the order they were in.
LEMMA KeptItemsAre ==
  ASSUME NEW S, NEW s \in Seq(S), NEW id, NEW t, t = KeptItems(s, id)
  PROVE  /\ t \in Seq(S)
         /\ \A k \in DOMAIN t : /\ IdDiffers(t[k], id)
                                /\ \E i \in DOMAIN s : t[k] = s[i]
         /\ \A k, l \in DOMAIN t :
              k < l => \E i, j \in DOMAIN s : i < j /\ t[k] = s[i] /\ t[l] = s[j]
         /\ \A i \in DOMAIN s : IdDiffers(s[i], id) => \E k \in DOMAIN t : t[k] = s[i]
<1> DEFINE kept == {i \in DOMAIN s : IdDiffers(s[i], id)}
           Place(k) == CHOOSE i \in kept : Rank(kept, i) = k
           n == Cardinality(kept)
<1>1. Len(s) \in Nat /\ DOMAIN s = 1..Len(s) /\ \A i \in DOMAIN s : s[i] \in S
  OBVIOUS
<1>2. kept \in SUBSET (1..Len(s)) /\ kept \subseteq DOMAIN s
  BY <1>1
<1>3. /\ n \in Nat
      /\ \A i \in kept : Rank(kept, i) \in 1..n
      /\ \A i, j \in kept : Rank(kept, i) < Rank(kept, j) => i < j
      /\ \A i, j \in kept : Rank(kept, i) = Rank(kept, j) => i = j
      /\ \A k \in 1..n : \E i \in kept : Rank(kept, i) = k
  BY <1>1, <1>2, RankNumbers
<1>4. \A k \in 1..n : Place(k) \in kept /\ Rank(kept, Place(k)) = k
  BY <1>3
<1>5. t = [k \in 1..n |-> s[Place(k)]]
  BY DEF KeptItems
<1>6. \A i \in kept : IdDiffers(s[i], id)
  OBVIOUS
<1>7. \A i \in DOMAIN s : IdDiffers(s[i], id) => i \in kept
  OBVIOUS
<1> HIDE DEF kept, Place, n
<1>8. t \in Seq(S)
  BY <1>1, <1>2, <1>3, <1>4, <1>5
<1>9. DOMAIN t = 1..n /\ \A k \in 1..n : t[k] = s[Place(k)]
  BY <1>5
<1>10. \A k, l \in 1..n : k < l => Place(k) < Place(l)
  BY <1>3, <1>4
<1>11. \A i \in kept : \E k \in 1..n : t[k] = s[i]
  BY <1>3, <1>4, <1>9
<1>12. \A k \in DOMAIN t : IdDiffers(t[k], id) /\ \E i \in DOMAIN s : t[k] = s[i]
  BY <1>2, <1>4, <1>6, <1>9
<1>13. \A k, l \in DOMAIN t :
         k < l => \E i, j \in DOMAIN s : i < j /\ t[k] = s[i] /\ t[l] = s[j]
  BY <1>2, <1>4, <1>9, <1>10
<1>14. \A i \in DOMAIN s : IdDiffers(s[i], id) => \E k \in DOMAIN t : t[k] = s[i]
  BY <1>7, <1>9, <1>11
<1> QED  BY <1>8, <1>12, <1>13, <1>14

-----------------------------------------------------------------------------
\* The types, and the count of the additions.

\* The additions can be counted.
LEMMA CountIs ==
  ASSUME TypeInv
  PROVE  Count \in Nat
  BY FS_CardinalityType DEF TypeInv, Count

\* What the contents of an item can be.
LEMMA ContentsAre ==
  /\ Contents \subseteq Content /\ Plain \in Content
  BY ContentsAssumption DEF Plain, Content, References

\* It holds of empty collections.
LEMMA ItemsInvInit ==
  ASSUME Init
  PROVE  ItemsInv
<1>1. Count = 0 /\ IsFiniteSet(added)
  BY FS_EmptySet DEF Init, Count
<1> QED
  BY <1>1, CollectionsAssumption
     DEF Init, ItemsInv, TypeInv, TagInv, CheckedInv, KeptUntilDeleted, DeletedStaysDeleted

\* What an addition does: `item' is a new one, and the last of collection c.
Added(c, id, content) ==
  /\ c \in Collections /\ id \in ItemIds \cup {NoId} /\ content \in Content
  /\ c \in Melodies => validateMelodySnapshotReferences(content)
  /\ addJSONItem(c, NewItem(id, content))

\* An addition appends an item that is new, and counts it.
LEMMA AddedIs ==
  ASSUME TypeInv, TagInv, NEW c, NEW id, NEW content, Added(c, id, content)
  PROVE  \E item \in Entry :
           /\ c \in Collections /\ item.tag = Count + 1 /\ item.content = content
           /\ item \notin {a.item : a \in added}
           /\ Count' = Count + 1 /\ Count \in Nat
           /\ table' = [table EXCEPT ![c] = Append(table[c], item)]
           /\ added' = added \cup {[collection |-> c, item |-> item]}
           /\ IsFiniteSet(added')
           /\ req' = req /\ deleted' = deleted
<1> DEFINE item == NewItem(id, content)
           a == [collection |-> c, item |-> item]
<1>1. Count \in Nat
  BY CountIs
<1>2. item \in Entry /\ item.tag = Count + 1 /\ item.content = content
  BY <1>1 DEF Added, NewItem, Entry
<1>3. item \notin {b.item : b \in added}
  BY <1>1, <1>2 DEF TypeInv
<1>4. a \notin added
  BY <1>3
<1>5. /\ c \in Collections /\ req' = req /\ deleted' = deleted /\ added' = added \cup {a}
      /\ table' = [table EXCEPT ![c] = Append(table[c], item)]
  BY DEF Added, addJSONItem
<1>6. IsFiniteSet(added') /\ Count' = Count + 1
  BY <1>4, <1>5, FS_AddElement DEF TypeInv, Count
<1> QED  BY <1>1, <1>2, <1>3, <1>5, <1>6

\* The steps, with both kinds of addition as one.
LEMMA NextIs ==
  ASSUME [Next]_vars
  PROVE  \/ UNCHANGED vars
         \/ \E c \in Collections, id \in ItemIds \cup {NoId}, content \in Content :
              Added(c, id, content)
         \/ \E r \in Requests, c \in Collections, id \in ItemIds : CheckItemExists(r, c, id)
         \/ \E r \in Requests : DeleteItem(r)
         \/ \E r \in Requests : Fail(r)
  BY ContentsAre DEF Next, AddSynthConfig, AddMelody, Added

-----------------------------------------------------------------------------
\* What the actions preserve.

\* An addition keeps the invariant.
LEMMA AddPreserves ==
  ASSUME ItemsInv, NEW c, NEW id, NEW content, Added(c, id, content)
  PROVE  ItemsInv'
<1>1. TypeInv /\ TagInv /\ CheckedInv /\ KeptUntilDeleted /\ DeletedStaysDeleted
  BY DEF ItemsInv
<1>2. PICK item \in Entry :
        /\ c \in Collections /\ item.tag = Count + 1 /\ item.content = content
        /\ item \notin {a.item : a \in added}
        /\ Count' = Count + 1 /\ Count \in Nat
        /\ table' = [table EXCEPT ![c] = Append(table[c], item)]
        /\ added' = added \cup {[collection |-> c, item |-> item]}
        /\ IsFiniteSet(added')
        /\ req' = req /\ deleted' = deleted
  BY <1>1, AddedIs
<1>3. /\ table' \in [Collections -> Seq(Entry)]
      /\ \A e \in Collections : e # c => table'[e] = table[e]
      /\ Len(table[c]) \in Nat /\ DOMAIN table[c] = 1..Len(table[c])
      /\ DOMAIN table'[c] = 1..(Len(table[c]) + 1)
      /\ table'[c][Len(table[c]) + 1] = item
      /\ \A i \in DOMAIN table[c] : table'[c][i] = table[c][i]
  <2>1. table[c] \in Seq(Entry) /\ table'[c] = Append(table[c], item)
    BY <1>1, <1>2 DEF TypeInv
  <2>2. /\ table' \in [Collections -> Seq(Entry)]
        /\ \A e \in Collections : e # c => table'[e] = table[e]
    BY <1>1, <1>2, <2>1 DEF TypeInv
  <2>3. /\ Len(table[c]) \in Nat /\ DOMAIN table[c] = 1..Len(table[c])
        /\ DOMAIN Append(table[c], item) = 1..(Len(table[c]) + 1)
        /\ Append(table[c], item)[Len(table[c]) + 1] = item
        /\ \A i \in DOMAIN table[c] : Append(table[c], item)[i] = table[c][i]
    BY <2>1
  <2> QED  BY <2>1, <2>2, <2>3
<1>4. \A i \in DOMAIN table'[c] : i \in DOMAIN table[c] \/ i = Len(table[c]) + 1
  BY <1>3
<1>5. \A e \in Collections : \A i \in DOMAIN table[e] : table[e][i].tag \in 1..Count
  BY <1>1 DEF TagInv
<1>6. TypeInv'
  BY <1>1, <1>2, <1>3 DEF TypeInv
<1>7. TagInv'
  BY <1>2, <1>3, <1>4, <1>5 DEF TagInv
<1>8. CheckedInv'
  <2>1. c \in Melodies => validateMelodySnapshotReferences(item.content)
    BY <1>2 DEF Added
  <2> QED
    BY <1>1, <1>3, <1>4, <2>1, CollectionsAssumption DEF CheckedInv
<1>9. KeptUntilDeleted'
  <2> SUFFICES ASSUME NEW a \in added', a.item.id # NoId
               PROVE  \/ \E i \in DOMAIN table'[a.collection] : table'[a.collection][i] = a.item
                      \/ \E d \in deleted : /\ d.collection = a.collection
                                            /\ d.id = a.item.id
                                            /\ d.after >= a.item.tag
    BY <1>2 DEF KeptUntilDeleted
  <2>1. CASE a \in added
    <3>1. \A i \in DOMAIN table[a.collection] :
            /\ i \in DOMAIN table'[a.collection]
            /\ table'[a.collection][i] = table[a.collection][i]
      <4>1. a.collection \in Collections
        BY <1>1, <2>1 DEF TypeInv
      <4>2. CASE a.collection # c
        BY <1>3, <4>1, <4>2
      <4>3. CASE a.collection = c
        BY <1>3, <4>3
      <4> QED  BY <4>2, <4>3
    <3> QED  BY <1>1, <2>1, <3>1 DEF KeptUntilDeleted
  <2>2. CASE a = [collection |-> c, item |-> item]
    BY <1>3, <2>2
  <2> QED  BY <1>2, <2>1, <2>2
<1>10. DeletedStaysDeleted'
  <2> SUFFICES ASSUME NEW e \in Collections
               PROVE  /\ \A i, j \in DOMAIN table'[e] :
                           i < j => table'[e][i].tag < table'[e][j].tag
                      /\ \A i \in DOMAIN table'[e], d \in deleted :
                           d.collection = e /\ d.id = table'[e][i].id =>
                             d.after < table'[e][i].tag
    BY <1>2 DEF DeletedStaysDeleted
  <2>1. CASE e # c
    BY <1>1, <1>3, <2>1 DEF DeletedStaysDeleted
  <2>2. ASSUME e = c, NEW i \in DOMAIN table'[c], NEW j \in DOMAIN table'[c], i < j
        PROVE  table'[c][i].tag < table'[c][j].tag
    <3>1. i \in DOMAIN table[c]
      BY <1>3, <2>2
    <3>2. CASE j \in DOMAIN table[c]
      BY <1>1, <1>2, <1>3, <2>2, <3>1, <3>2 DEF DeletedStaysDeleted
    <3>3. CASE j = Len(table[c]) + 1
      BY <1>2, <1>3, <1>5, <3>1, <3>3
    <3> QED  BY <1>4, <3>2, <3>3
  <2>3. ASSUME e = c, NEW i \in DOMAIN table'[c], NEW d \in deleted,
               d.collection = c, d.id = table'[c][i].id
        PROVE  d.after < table'[c][i].tag
    <3>1. CASE i \in DOMAIN table[c]
      BY <1>1, <1>2, <1>3, <2>3, <3>1 DEF DeletedStaysDeleted
    <3>2. CASE i = Len(table[c]) + 1
      BY <1>1, <1>2, <1>3, <3>2 DEF TypeInv
    <3> QED  BY <1>4, <3>1, <3>2
  <2> QED  BY <2>1, <2>2, <2>3
<1> QED  BY <1>6, <1>7, <1>8, <1>9, <1>10 DEF ItemsInv

\* What a DELETE leaves in each collection: some of its items, in their order,
\* and all but those that have the id or none.
LEMMA DeleteIs ==
  ASSUME TypeInv, NEW r \in Requests, DeleteItem(r)
  PROVE  /\ req[r] \in [collection : Collections, id : ItemIds]
         /\ table' \in [Collections -> Seq(Entry)]
         /\ \A c \in Collections :
              /\ \A k \in DOMAIN table'[c] : \E i \in DOMAIN table[c] : table'[c][k] = table[c][i]
              /\ \A k, l \in DOMAIN table'[c] :
                   k < l => \E i, j \in DOMAIN table[c] :
                              i < j /\ table'[c][k] = table[c][i] /\ table'[c][l] = table[c][j]
              /\ \A i \in DOMAIN table[c] :
                   \/ \E k \in DOMAIN table'[c] : table'[c][k] = table[c][i]
                   \/ table[c][i].id = NoId
                   \/ c = req[r].collection /\ table[c][i].id = req[r].id
              /\ \A k \in DOMAIN table'[c] :
                   c = req[r].collection => table'[c][k].id # req[r].id
<1>1. req[r] \in [collection : Collections, id : ItemIds]
  BY DEF DeleteItem, TypeInv
<1>2. PICK e \in Collections : e = req[r].collection
  BY <1>1
<1>3. PICK id \in ItemIds : id = req[r].id
  BY <1>1
<1>4. PICK s \in Seq(Entry) : s = table[e]
  BY DEF TypeInv
<1>5. PICK t : t = KeptItems(s, id)
  OBVIOUS
<1>6. /\ t \in Seq(Entry)
      /\ \A k \in DOMAIN t : IdDiffers(t[k], id) /\ \E i \in DOMAIN s : t[k] = s[i]
      /\ \A k, l \in DOMAIN t :
           k < l => \E i, j \in DOMAIN s : i < j /\ t[k] = s[i] /\ t[l] = s[j]
      /\ \A i \in DOMAIN s : IdDiffers(s[i], id) => \E k \in DOMAIN t : t[k] = s[i]
  BY <1>5, KeptItemsAre
<1>7. /\ table' \in [Collections -> Seq(Entry)] /\ table'[e] = t
      /\ \A c \in Collections : c # e => table'[c] = table[c]
  <2>1. table' = [table EXCEPT ![e] = t]
    BY <1>2, <1>3, <1>4, <1>5 DEF DeleteItem
  <2> QED  BY <1>6, <2>1 DEF TypeInv
<1>8. /\ \A i \in DOMAIN s :
            (\E k \in DOMAIN t : t[k] = s[i]) \/ s[i].id = NoId \/ s[i].id = id
      /\ \A k \in DOMAIN t : t[k].id # id
  BY <1>6 DEF IdDiffers
<1> SUFFICES ASSUME NEW c \in Collections
             PROVE
    /\ \A k \in DOMAIN table'[c] : \E i \in DOMAIN table[c] : table'[c][k] = table[c][i]
    /\ \A k, l \in DOMAIN table'[c] :
         k < l => \E i, j \in DOMAIN table[c] :
                    i < j /\ table'[c][k] = table[c][i] /\ table'[c][l] = table[c][j]
    /\ \A i \in DOMAIN table[c] :
         \/ \E k \in DOMAIN table'[c] : table'[c][k] = table[c][i]
         \/ table[c][i].id = NoId
         \/ c = req[r].collection /\ table[c][i].id = req[r].id
    /\ \A k \in DOMAIN table'[c] : c = req[r].collection => table'[c][k].id # req[r].id
  BY <1>1, <1>7
<1>9. CASE c = e
  <2>1. table[c] = s /\ table'[c] = t
    BY <1>4, <1>7, <1>9
  <2> QED  BY <1>2, <1>3, <1>6, <1>8, <1>9, <2>1
<1>10. CASE c # e
  <2>1. table'[c] = table[c]
    BY <1>7, <1>10
  <2> QED  BY <1>2, <1>10, <2>1
<1> QED  BY <1>9, <1>10

\* A delete keeps the invariant.
LEMMA DeletePreserves ==
  ASSUME ItemsInv, NEW r \in Requests, DeleteItem(r)
  PROVE  ItemsInv'
<1>1. TypeInv /\ TagInv /\ CheckedInv /\ KeptUntilDeleted /\ DeletedStaysDeleted
  BY DEF ItemsInv
<1>2. PICK e \in Collections, id \in ItemIds : req[r].collection = e /\ req[r].id = id
  BY <1>1, DeleteIs
<1>3. /\ table' \in [Collections -> Seq(Entry)]
      /\ added' = added /\ Count' = Count /\ Count \in Nat
      /\ req' = [req EXCEPT ![r] = NoRequest]
      /\ deleted' = deleted \cup {[collection |-> e, id |-> id, after |-> Count]}
  BY <1>1, <1>2, CountIs, DeleteIs DEF DeleteItem, Count
<1>4. ASSUME NEW c \in Collections
      PROVE
        /\ \A k \in DOMAIN table'[c] : \E i \in DOMAIN table[c] : table'[c][k] = table[c][i]
        /\ \A k, l \in DOMAIN table'[c] :
             k < l => \E i, j \in DOMAIN table[c] :
                        i < j /\ table'[c][k] = table[c][i] /\ table'[c][l] = table[c][j]
        /\ \A i \in DOMAIN table[c] :
             \/ \E k \in DOMAIN table'[c] : table'[c][k] = table[c][i]
             \/ table[c][i].id = NoId
             \/ c = e /\ table[c][i].id = id
        /\ \A k \in DOMAIN table'[c] : c = e => table'[c][k].id # id
  BY <1>1, <1>2, <1>4, DeleteIs
<1>5. TypeInv'
  BY <1>1, <1>3 DEF TypeInv
<1>6. TagInv'
  BY <1>1, <1>3, <1>4 DEF TagInv
<1>7. CheckedInv'
  BY <1>1, <1>4, CollectionsAssumption DEF CheckedInv
<1>8. KeptUntilDeleted'
  <2> SUFFICES ASSUME NEW a \in added, a.item.id # NoId
               PROVE  \/ \E i \in DOMAIN table'[a.collection] : table'[a.collection][i] = a.item
                      \/ \E d \in deleted' : /\ d.collection = a.collection
                                             /\ d.id = a.item.id
                                             /\ d.after >= a.item.tag
    BY <1>3 DEF KeptUntilDeleted
  <2>1. a.collection \in Collections /\ a.item.tag \in 1..Count
    BY <1>1 DEF TypeInv
  <2>2. CASE \E i \in DOMAIN table[a.collection] : table[a.collection][i] = a.item
    <3>1. PICK i \in DOMAIN table[a.collection] : table[a.collection][i] = a.item
      BY <2>2
    <3>2. CASE a.collection = e /\ a.item.id = id
      <4> DEFINE d == [collection |-> e, id |-> id, after |-> Count]
      <4>1. d \in deleted'
        BY <1>3
      <4>2. d.collection = a.collection /\ d.id = a.item.id /\ d.after >= a.item.tag
        BY <1>3, <2>1, <3>2
      <4> QED  BY <4>1, <4>2
    <3>3. CASE ~(a.collection = e /\ a.item.id = id)
      BY <1>4, <2>1, <3>1, <3>3
    <3> QED  BY <3>2, <3>3
  <2>3. CASE \E d \in deleted : /\ d.collection = a.collection
                               /\ d.id = a.item.id
                               /\ d.after >= a.item.tag
    BY <1>3, <2>3
  <2> QED  BY <1>1, <2>2, <2>3 DEF KeptUntilDeleted
<1>9. DeletedStaysDeleted'
  <2> SUFFICES ASSUME NEW c \in Collections
               PROVE  /\ \A k, l \in DOMAIN table'[c] :
                           k < l => table'[c][k].tag < table'[c][l].tag
                      /\ \A k \in DOMAIN table'[c], d \in deleted' :
                           d.collection = c /\ d.id = table'[c][k].id =>
                             d.after < table'[c][k].tag
    BY DEF DeletedStaysDeleted
  <2>1. \A k, l \in DOMAIN table'[c] : k < l => table'[c][k].tag < table'[c][l].tag
    BY <1>1, <1>4 DEF DeletedStaysDeleted
  <2>2. ASSUME NEW k \in DOMAIN table'[c], NEW d \in deleted',
               d.collection = c, d.id = table'[c][k].id
        PROVE  d.after < table'[c][k].tag
    <3>1. CASE d \in deleted
      BY <1>1, <1>4, <2>2, <3>1 DEF DeletedStaysDeleted
    <3>2. CASE d = [collection |-> e, id |-> id, after |-> Count]
      BY <1>4, <2>2, <3>2
    <3> QED  BY <1>3, <3>1, <3>2
  <2> QED  BY <2>1, <2>2
<1> QED  BY <1>5, <1>6, <1>7, <1>8, <1>9 DEF ItemsInv

-----------------------------------------------------------------------------

(***************************************************************************)
(* The inductive invariant, of any number of collections, concurrent       *)
(* requests, sounds and items.                                             *)
(***************************************************************************)
THEOREM ItemsInvariant == Spec => []ItemsInv
<1>1. ItemsInv /\ [Next]_vars => ItemsInv'
  <2> SUFFICES ASSUME ItemsInv, [Next]_vars PROVE ItemsInv'
    OBVIOUS
  <2>1. CASE UNCHANGED vars
    BY <2>1 DEF ItemsInv, TypeInv, TagInv, CheckedInv, KeptUntilDeleted, DeletedStaysDeleted,
                Count, vars
  <2>2. ASSUME NEW c \in Collections, NEW id \in ItemIds \cup {NoId}, NEW content \in Content,
               Added(c, id, content)
        PROVE  ItemsInv'
    BY <2>2, AddPreserves
  <2>3. ASSUME NEW r \in Requests, NEW c \in Collections, NEW id \in ItemIds,
               CheckItemExists(r, c, id)
        PROVE  ItemsInv'
    <3>1. UNCHANGED <<table, added, deleted>>
      BY <2>3 DEF CheckItemExists
    <3>2. req' \in [Requests -> {NoRequest} \cup [collection : Collections, id : ItemIds]]
      BY <2>3 DEF CheckItemExists, ItemsInv, TypeInv
    <3> QED
      BY <3>1, <3>2 DEF ItemsInv, TypeInv, TagInv, CheckedInv, KeptUntilDeleted,
                        DeletedStaysDeleted, Count
  <2>4. ASSUME NEW r \in Requests, Fail(r) PROVE ItemsInv'
    <3>1. UNCHANGED <<table, added, deleted>>
      BY <2>4 DEF Fail
    <3>2. req' \in [Requests -> {NoRequest} \cup [collection : Collections, id : ItemIds]]
      BY <2>4 DEF Fail, ItemsInv, TypeInv
    <3> QED
      BY <3>1, <3>2 DEF ItemsInv, TypeInv, TagInv, CheckedInv, KeptUntilDeleted,
                        DeletedStaysDeleted, Count
  <2>5. ASSUME NEW r \in Requests, DeleteItem(r) PROVE ItemsInv'
    BY <2>5, DeletePreserves
  <2> QED  BY <2>1, <2>2, <2>3, <2>4, <2>5, NextIs
<1> QED  BY <1>1, ItemsInvInit, PTL DEF Spec

(***************************************************************************)
(* An item that has an id stays until a later delete of that id, however   *)
(* many requests overlap, and however many are lost halfway.               *)
(***************************************************************************)
THEOREM NothingIsLost == Spec => []KeptUntilDeleted
<1>1. ItemsInv => KeptUntilDeleted
  BY DEF ItemsInv
<1> QED  BY <1>1, ItemsInvariant, PTL

(***************************************************************************)
(* A delete is final, and a collection keeps the order of the additions,   *)
(* however many requests overlap.                                          *)
(***************************************************************************)
THEOREM DeletesAreFinal == Spec => []DeletedStaysDeleted
<1>1. ItemsInv => DeletedStaysDeleted
  BY DEF ItemsInv
<1> QED  BY <1>1, ItemsInvariant, PTL

(***************************************************************************)
(* Every melody that is stored can be played, whatever melodies are        *)
(* submitted: AddMelody's checks of the notes, track by track, are enough. *)
(***************************************************************************)
THEOREM MelodiesCanBePlayed == Spec => []SoundsResolve
<1>1. ItemsInv => SoundsResolve
  <2> SUFFICES ASSUME ItemsInv, NEW c \in Melodies, NEW item \in ToSet(table[c]),
                      NEW notes \in {item.content.notes} \cup ToSet(item.content.tracks)
               PROVE  ToSet(notes) \subseteq
                        {Absent} \cup (ToSet(item.content.snapshots) \ {Invalid})
    BY DEF SoundsResolve
  <2>1. validateMelodySnapshotReferences(item.content)
    BY DEF ItemsInv, CheckedInv, ToSet
  <2>2. ToSet(item.content.snapshots) \subseteq Sounds
    BY <2>1 DEF validateMelodySnapshotReferences, collectSnapshotIDs
  <2>3. ToSet(notes) \ {Absent} \subseteq ToSet(item.content.snapshots)
    BY <2>1 DEF validateMelodySnapshotReferences, collectSnapshotIDs,
                validateNotesSnapshotReferences, validateTracksSnapshotReferences
  <2> QED  BY <2>2, <2>3, SoundsAssumption
<1> QED  BY <1>1, ItemsInvariant, PTL
=============================================================================
