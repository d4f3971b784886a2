-------------------------- MODULE BruteForceProofs --------------------------
(***************************************************************************)
(* BruteForce for any threads, labels, vectors and sizes, as long as callers    *)
(* do not add a label again whose last element is marked removed and clone      *)
(* only an array without leftovers.                                         *)
(***************************************************************************)
EXTENDS BruteForce, LabelTableProofs

Row == [label : Label \cup {None}, vec : Vec \cup {None}, id : InnerId, moved : BOOLEAN]

Types ==
  /\ codes \in [InnerId -> Vec \cup {None}]
  /\ total_count \in 0 .. MaxIds
  /\ max_capacity \in 0 .. RoundUp(MaxIds)
  /\ pc \in [Thread -> {"idle", "claim", "write", "writing"}]
  /\ row \in [Thread -> Row]
  /\ \A t \in Thread : pc[t] # "idle" => row[t].label \in Label /\ row[t].vec \in Vec

(* Every slot in use has an entry of its own in the label table, and back. *)
TableInv ==
  /\ Agrees(labels, total_count, Ids(total_count))
  /\ delete_count = Cardinality(labels.deleted)

(* A thread between its first look at a label and claim_slot holds no tombstone's label. *)
ClaimInv ==
  \A t \in Thread :
    pc[t] = "claim" /\ row[t].label \in DOMAIN labels.remap => CheckLabel(labels, row[t].label)

IInv == Types /\ TableInv /\ ClaimInv

-----------------------------------------------------------------------------
(* The capacities an array of at most MaxIds elements reaches. *)
LEMMA CapacityBounds ==
  ASSUME NEW n \in 0 .. MaxIds
  PROVE  /\ RoundUp(n) \in 0 .. RoundUp(MaxIds) /\ n \in 0 .. RoundUp(MaxIds)
         /\ Ids(n) \subseteq InnerId /\ 0 \in InnerId /\ n \in Nat
<1>1. /\ RoundUp(n) \in Nat /\ RoundUp(n) >= n
      /\ RoundUp(MaxIds) \in Nat /\ RoundUp(MaxIds) >= MaxIds
  BY SizesArePositive, DivisionCovers DEF RoundUp
<1>2. RoundUp(n) <= RoundUp(MaxIds)
  <2>1. /\ n + ResizeStep - 1 \in Nat /\ MaxIds + ResizeStep - 1 \in Nat
        /\ n + ResizeStep - 1 <= MaxIds + ResizeStep - 1
    BY SizesArePositive
  <2> QED BY <2>1, SizesArePositive, DivisionMonotone DEF RoundUp
<1> QED BY <1>1, <1>2, SizesArePositive DEF Ids, InnerId

(* What claim_slot makes of the rows: the caller gets its slot, and the threads that were  *)
(* copying learn of a new buffer.                                                    *)
LEMMA RowsAfterClaim ==
  ASSUME NEW t \in Thread, Types, claim_slot(t)
  PROVE  /\ total_count \in InnerId /\ row' \in [Thread -> Row]
         /\ \A u \in Thread :
              /\ row'[u].label = row[u].label /\ row'[u].vec = row[u].vec
              /\ row'[u].id = (IF u = t THEN total_count ELSE row[u].id)
              /\ \/ max_capacity < RoundUp(total_count + 1) /\ row'[u].moved = (pc[u] = "writing")
                 \/ row'[u].moved = row[u].moved
<1>1. total_count \in InnerId
  BY SizesArePositive DEF claim_slot, InnerId, Types
<1>2. PICK n : n = total_count
  BY Zenon
<1>3. PICK b : b = IF max_capacity < RoundUp(total_count + 1) THEN Reallocated ELSE row
  BY Zenon
<1>4. PICK c : c = [b[t] EXCEPT !.id = n]
  BY Zenon
<1>5. PICK q : q = [b EXCEPT ![t] = c]
  BY Zenon
<1>6. row' = q
  BY Zenon, <1>2, <1>3, <1>4, <1>5 DEF claim_slot
<1> DEFINE G == max_capacity < RoundUp(total_count + 1)
<1>7. /\ b \in [Thread -> Row]
      /\ \A u \in Thread : /\ b[u].label = row[u].label /\ b[u].vec = row[u].vec
                           /\ b[u].id = row[u].id
                           /\ (G /\ b[u].moved = (pc[u] = "writing")) \/ b[u].moved = row[u].moved
  <2>1. CASE G
    <3>1. b = [u \in Thread |-> [row[u] EXCEPT !.moved = pc[u] = "writing"]]
      BY Zenon, <1>3, <2>1 DEF Reallocated
    <3>2. ASSUME NEW u \in Thread
          PROVE  /\ b[u].label = row[u].label /\ b[u].vec = row[u].vec /\ b[u].id = row[u].id
                 /\ b[u].moved = (pc[u] = "writing") /\ b[u] \in Row
      <4>1. PICK m : m = (pc[u] = "writing")
        BY Zenon
      <4>2. m \in BOOLEAN
        BY Zenon, <4>1
      <4>3. row[u] \in Row
        BY Zenon DEF Types
      <4>4. b[u] = [row[u] EXCEPT !.moved = m]
        BY Zenon, <3>1, <4>1
      <4>5. b[u].label = row[u].label /\ b[u].vec = row[u].vec /\ b[u].id = row[u].id
        BY SMT, <4>3, <4>4 DEF Row
      <4>6. b[u].moved = m
        BY SMT, <4>3, <4>4 DEF Row
      <4>7. b[u] \in Row
        BY SMT, <4>2, <4>3, <4>4 DEF Row
      <4> QED BY Zenon, <4>1, <4>5, <4>6, <4>7
    <3>3. b \in [Thread -> Row]
      BY Zenon, <3>1, <3>2
    <3> HIDE DEF G
    <3> QED BY Zenon, <2>1, <3>2, <3>3
  <2>2. CASE ~G
    BY Zenon, <1>3, <2>2 DEF Types
  <2> QED BY Zenon, <2>1, <2>2
<1> HIDE DEF G
<1>8. b[t] \in Row /\ n \in InnerId
  BY Zenon, <1>1, <1>2, <1>7
<1>9. c \in Row /\ c.label = b[t].label /\ c.vec = b[t].vec /\ c.id = n /\ c.moved = b[t].moved
  BY SMT, <1>4, <1>8 DEF Row
<1>10. q[t] = c /\ (\A u \in Thread : u # t => q[u] = b[u]) /\ q \in [Thread -> Row]
  BY Zenon, <1>5, <1>7, <1>9
<1>11. ASSUME NEW u \in Thread
       PROVE  /\ q[u].label = b[u].label /\ q[u].vec = b[u].vec /\ q[u].moved = b[u].moved
              /\ q[u].id = (IF u = t THEN n ELSE b[u].id)
  <2>1. CASE u = t
    <3>1. q[u] = c /\ b[u] = b[t]
      BY Zenon, <1>10, <2>1
    <3>2. q[u].id = n
      BY Zenon, <1>9, <3>1
    <3> QED BY Zenon, <1>9, <2>1, <3>1, <3>2
  <2>2. CASE u # t
    BY Zenon, <1>10, <2>2
  <2> QED BY Zenon, <2>1, <2>2
<1>12. ASSUME NEW u \in Thread
       PROVE  /\ row'[u].label = row[u].label /\ row'[u].vec = row[u].vec
              /\ row'[u].id = (IF u = t THEN total_count ELSE row[u].id)
              /\ \/ G /\ row'[u].moved = (pc[u] = "writing")
                 \/ row'[u].moved = row[u].moved
  <2>1. /\ b[u].label = row[u].label /\ b[u].vec = row[u].vec /\ b[u].id = row[u].id
        /\ (G /\ b[u].moved = (pc[u] = "writing")) \/ b[u].moved = row[u].moved
    BY Zenon, <1>7
  <2>2. q[u].label = b[u].label /\ q[u].vec = b[u].vec /\ q[u].moved = b[u].moved
        /\ q[u].id = (IF u = t THEN n ELSE b[u].id)
    BY Zenon, <1>11
  <2>3. row'[u].id = (IF u = t THEN total_count ELSE row[u].id)
    BY Zenon, <1>2, <1>6, <2>1, <2>2
  <2> QED BY Zenon, <1>6, <2>1, <2>2, <2>3
<1> QED BY Zenon, <1>1, <1>6, <1>10, <1>12 DEF G

-----------------------------------------------------------------------------
(* The types hold at first. *)
LEMMA TypesInit == Init => Types
<1> SUFFICES ASSUME Init PROVE Types
  OBVIOUS
<1>1. 0 \in 0 .. MaxIds
  BY SizesArePositive
<1>2. 0 \in 0 .. RoundUp(MaxIds) /\ 0 \in InnerId
  BY <1>1, CapacityBounds
<1>3. NoRow \in Row
  BY <1>2 DEF NoRow, Row
<1> QED BY <1>1, <1>2, <1>3 DEF Init, Types

(* Every step keeps the types. *)
LEMMA TypesStep ==
  ASSUME Types, TableInv, [Next]_vars
  PROVE  Types'
<1> USE DEF Types
<1>0. /\ 0 \in InnerId /\ NoRow \in Row
  <2>1. 0 \in InnerId
    BY CapacityBounds
  <2> QED BY <2>1 DEF NoRow, Row
<1>1. ASSUME NEW t \in Thread, NEW l \in Label, NEW v \in Vec, Add(t, l, v) PROVE Types'
  <2>1. PICK r : r = [label |-> l, vec |-> v, id |-> 0, moved |-> FALSE]
    BY Zenon
  <2>2. r \in Row /\ r.label = l /\ r.vec = v
    BY <1>0, <2>1 DEF Row
  <2>3. row' = [row EXCEPT ![t] = r] /\ pc' = [pc EXCEPT ![t] = "claim"]
    BY Zenon, <1>1, <2>1 DEF Add
  <2> QED BY ZenonT(40), <1>1, <2>2, <2>3 DEF Add
<1>2. ASSUME NEW t \in Thread, ClaimFails(t) PROVE Types'
  BY Zenon, <1>0, <1>2 DEF ClaimFails
<1>3. ASSUME NEW t \in Thread, claim_slot(t) PROVE Types'
  <2>2. total_count + 1 \in 0 .. MaxIds
    BY <1>3, SizesArePositive DEF claim_slot
  <2>3. /\ row' \in [Thread -> Row]
        /\ \A u \in Thread : row'[u].label = row[u].label /\ row'[u].vec = row[u].vec
    <3> HIDE DEF Types
    <3> QED BY Zenon, <1>3, RowsAfterClaim
  <2>4. max_capacity' \in 0 .. RoundUp(MaxIds)
    <3>1. RoundUp(total_count + 1) \in 0 .. RoundUp(MaxIds)
      BY <2>2, CapacityBounds
    <3> QED BY Zenon, <1>3, <3>1 DEF claim_slot
  <2>5. /\ total_count' \in 0 .. MaxIds /\ codes' = codes
        /\ pc' = [pc EXCEPT ![t] = "write"] /\ pc[t] = "claim"
    BY Zenon, <1>3, <2>2 DEF claim_slot
  <2>6. \A u \in Thread : pc'[u] # "idle" => pc[u] # "idle"
    BY Zenon, <2>5
  <2>7. pc' \in [Thread -> {"idle", "claim", "write", "writing"}]
    BY Zenon, <2>5
  <2> QED BY Zenon, <2>3, <2>4, <2>5, <2>6, <2>7
<1>4. ASSUME NEW t \in Thread, BeginWrite(t) PROVE Types'
  BY Zenon, <1>4 DEF BeginWrite
<1>5. ASSUME NEW t \in Thread, EndWrite(t) PROVE Types'
  <2>1. pc[t] = "writing" /\ row[t].vec \in Vec /\ row[t].id \in InnerId
    BY <1>5 DEF EndWrite, Row
  <2>2. codes' \in [InnerId -> Vec \cup {None}]
    BY <1>5, <2>1 DEF EndWrite
  <2> QED BY Zenon, <1>0, <1>5, <2>2 DEF EndWrite
<1>6. ASSUME NEW l \in Label, MarkRemoveOne(l) PROVE Types'
  BY Zenon, <1>6 DEF MarkRemoveOne
<1>7. ASSUME NEW l \in Label, ForceRemoveOne(l) PROVE Types'
  <2>1. PICK id : id = TryGetIdByLabel(labels, l, TRUE)
    BY Zenon
  <2>2. id \in Ids(total_count)
    <3>1. l \in DOMAIN labels.remap /\ id = labels.remap[l]
      BY Zenon, <1>7, <2>1 DEF ForceRemoveOne, TryGetIdByLabel, Find, INVALID_ID
    <3> QED BY Zenon, <3>1 DEF TableInv, Agrees, Shape
  <2>3. id \in InnerId /\ total_count - 1 \in InnerId /\ total_count - 1 \in 0 .. MaxIds
    BY <2>2, SizesArePositive DEF Ids, InnerId
  <2>4. codes' = SlotFilled(id, total_count - 1) /\ total_count' = total_count - 1
        /\ UNCHANGED <<pc, row>>
    BY Zenon, <1>7, <2>1 DEF ForceRemoveOne
  <2>5. codes' \in [InnerId -> Vec \cup {None}]
    BY <2>3, <2>4 DEF SlotFilled
  <2>6. max_capacity' \in 0 .. RoundUp(MaxIds)
    <3>1. total_count - 1 \in 0 .. RoundUp(MaxIds)
      BY <2>3, CapacityBounds
    <3> QED BY Zenon, <1>7, <3>1 DEF ForceRemoveOne
  <2> QED BY Zenon, <2>3, <2>4, <2>5, <2>6
<1>8. ASSUME NEW l \in Label, NEW v \in Vec, UpdateVector(l, v) PROVE Types'
  <2>1. codes' \in [InnerId -> Vec \cup {None}]
    <3>1. PICK i : codes' = [codes EXCEPT ![i] = v]
      BY Zenon, <1>8 DEF UpdateVector
    <3>2. codes \in [InnerId -> Vec \cup {None}]
      BY Zenon
    <3> HIDE DEF Types
    <3> QED BY Zenon, <3>1, <3>2
  <2> QED BY Zenon, <1>8, <2>1 DEF UpdateVector
<1>9. ASSUME NEW old \in Label, NEW new \in Label, UpdateId(old, new) PROVE Types'
  BY Zenon, <1>9 DEF UpdateId
<1>10. ASSUME Clone PROVE Types'
  <2>1. 0 \in 0 .. RoundUp(MaxIds)
    <3>1. 0 \in 0 .. MaxIds
      BY SizesArePositive
    <3> QED BY Zenon, <3>1, CapacityBounds
  <2> QED BY Zenon, <1>10, <2>1 DEF Clone
<1>11. ASSUME UNCHANGED vars PROVE Types'
  BY Zenon, <1>11 DEF vars
<1> QED BY Zenon, <1>1, <1>2, <1>3, <1>4, <1>5, <1>6, <1>7, <1>8, <1>9, <1>10, <1>11 DEF Next

-----------------------------------------------------------------------------
(* What the operations make of the label table. *)

(* claim_slot inserts a label that no element has. *)
LEMMA Claimed ==
  ASSUME Types, TableInv, ClaimInv, NEW t \in Thread, claim_slot(t)
  PROVE  /\ row[t].label \in Label /\ row[t].label \notin DOMAIN labels.remap
         /\ Agrees(labels', total_count + 1, Ids(total_count + 1))
         /\ labels'.remap = InsertOrAssign(labels.remap, row[t].label, total_count)
         /\ labels'.deleted = labels.deleted /\ total_count \notin labels.deleted
         /\ \A k : CheckLabel(labels', k) <=> k = row[t].label \/ CheckLabel(labels, k)
<1>1. PICK n, l : n = total_count /\ l = row[t].label
  BY Zenon
<1>2. n \in Nat /\ Ids(n + 1) = Ids(n) \cup {n} /\ n \notin Ids(n)
  BY <1>1 DEF Types, Ids
<1>3. l \in Label /\ l \notin DOMAIN labels.remap
  BY Zenon, <1>1 DEF Types, ClaimInv, claim_slot
<1>4. Agrees(labels, n, Ids(n)) /\ Ids(n) \in SUBSET Ids(n)
  BY Zenon, <1>1 DEF TableInv
<1>5. \A i \in Ids(n) : labels.table[i] # l
  BY Zenon, <1>3, <1>4 DEF Agrees, Resolves
<1>6. labels' = Insert(labels, n, l)
  BY Zenon, <1>1 DEF claim_slot
<1>7. /\ Agrees(Insert(labels, n, l), n + 1, Ids(n) \cup {n})
      /\ Insert(labels, n, l).remap = InsertOrAssign(labels.remap, l, n)
      /\ Insert(labels, n, l).deleted = labels.deleted
  BY Zenon, <1>2, <1>3, <1>4, <1>5, InsertAgrees
<1>8. \A k : CheckLabel(Insert(labels, n, l), k) <=> k = l \/ CheckLabel(labels, k)
  <2>1. ChecksAlso(Insert(labels, n, l), labels, l)
    BY Zenon, <1>2, <1>3, <1>4, <1>5, InsertChecks
  <2> QED BY Zenon, <2>1 DEF ChecksAlso
<1>9. n \notin labels.deleted
  BY Zenon, <1>2, <1>4 DEF Agrees, Shape
<1> QED BY Zenon, <1>1, <1>2, <1>3, <1>6, <1>7, <1>8, <1>9

(* MarkRemove turns one element into a tombstone, or does nothing. *)
LEMMA Marked ==
  ASSUME Types, TableInv, NEW l \in Label, MarkRemoveOne(l)
  PROVE  /\ Agrees(labels', total_count, Ids(total_count))
         /\ labels'.remap = labels.remap /\ l \in DOMAIN labels.remap
         /\ labels'.deleted = labels.deleted \cup {labels.remap[l]}
         /\ delete_count' = Cardinality(labels'.deleted)
         /\ \A k : CheckLabel(labels', k) <=> k # l /\ CheckLabel(labels, k)
<1>1. PICK n : n = total_count
  BY Zenon
<1>2. /\ n \in Nat /\ Agrees(labels, n, Ids(n)) /\ Ids(n) \in SUBSET Ids(n)
      /\ IsFiniteSet(labels.deleted) /\ Cardinality(labels.deleted) \in Nat
  <2>1. n \in Nat /\ Agrees(labels, n, Ids(n))
    BY <1>1 DEF Types, TableInv
  <2>2. IsFiniteSet(labels.deleted)
    <3>1. IsFiniteSet(Ids(n)) /\ labels.deleted \in SUBSET Ids(n)
      BY Zenon, <2>1, IdsCount DEF Agrees, Shape
    <3> QED BY Zenon, <3>1, FS_Subset
  <2> QED BY Zenon, <2>1, <2>2, FS_CardinalityType
<1>3. labels' = MarkRemove(labels, {l}) /\ l \in DOMAIN labels.remap
  BY Zenon DEF MarkRemoveOne
<1>4. /\ Agrees(labels', n, Ids(n))
      /\ labels'.remap = labels.remap
      /\ labels'.deleted = labels.deleted \cup {labels.remap[l]}
  BY Zenon, <1>2, <1>3, MarkRemoveAgrees
<1>5. \A k : CheckLabel(labels', k) <=> k # l /\ CheckLabel(labels, k)
  BY Zenon, <1>2, <1>3, MarkRemoveChecks
<1>6. delete_count' = Cardinality(labels'.deleted)
  <2>1. PICK id, D : id = labels.remap[l] /\ D = labels.deleted
    BY Zenon
  <2>2. delete_count' = Cardinality(D) + Cardinality(NewlyRemoved(labels, {l}))
    BY Zenon, <2>1 DEF MarkRemoveOne, CountedRemoved, TableInv
  <2>3. NewlyRemoved(labels, {l}) = {id} \ D
    BY SMT, <1>3, <2>1 DEF NewlyRemoved
  <2>4. Cardinality(D \cup {id}) = IF id \in D THEN Cardinality(D) ELSE Cardinality(D) + 1
    BY Zenon, <1>2, <2>1, FS_AddElement
  <2>5. CASE id \in D
    <3>1. {id} \ D = {}
      BY Zenon, <2>5
    <3>2. Cardinality({id} \ D) = 0
      BY Zenon, <3>1, FS_EmptySet
    <3> QED BY SMT, <1>2, <1>4, <2>1, <2>2, <2>3, <2>4, <2>5, <3>2
  <2>6. CASE id \notin D
    <3>1. {id} \ D = {id}
      BY Zenon, <2>6
    <3>2. Cardinality({id} \ D) = 1
      BY Zenon, <3>1, FS_Singleton
    <3> QED BY Zenon, <1>4, <2>1, <2>2, <2>3, <2>4, <2>6, <3>2
  <2> QED BY Zenon, <2>5, <2>6
<1> QED BY Zenon, <1>1, <1>3, <1>4, <1>5, <1>6

(* A physical removal takes out one element and gives the last one its slot. *)
LEMMA ForceRemoved ==
  ASSUME Types, TableInv, NEW l \in Label, ForceRemoveOne(l)
  PROVE  /\ total_count' = total_count - 1 /\ total_count' \in Nat
         /\ Agrees(labels', total_count', Ids(total_count'))
         /\ l \in DOMAIN labels.remap /\ delete_count' = Cardinality(labels'.deleted)
         /\ DOMAIN labels'.remap = DOMAIN labels.remap \ {l}
         /\ \A k : CheckLabel(labels', k) <=> k # l /\ CheckLabel(labels, k)
         /\ \A k \in DOMAIN labels.remap \ {l} :
              labels'.remap[k] = IF labels.remap[k] = total_count - 1 THEN labels.remap[l]
                                 ELSE labels.remap[k]
         /\ codes' = [codes EXCEPT ![labels.remap[l]] = codes[total_count - 1]]
<1>1. PICK n, id, last : n = total_count /\ id = labels.remap[l] /\ last = n - 1
  BY Zenon
<1>2. n \in Nat /\ Agrees(labels, n, Ids(n))
  BY <1>1 DEF Types, TableInv
<1>3. l \in DOMAIN labels.remap /\ TryGetIdByLabel(labels, l, TRUE) = id /\ id \in Ids(n)
  <2>1. l \in DOMAIN labels.remap /\ TryGetIdByLabel(labels, l, TRUE) = id
    BY Zenon, <1>1 DEF ForceRemoveOne, TryGetIdByLabel, Find, INVALID_ID
  <2> QED BY Zenon, <1>1, <1>2, <2>1 DEF Agrees, Shape
<1>4. PICK r : r = Removed(labels, n, l)
  BY Zenon
<1>5. last \in Nat /\ Agrees(r, last, Ids(last))
  BY Zenon, <1>1, <1>2, <1>3, <1>4, RemovedAgrees
<1>6. labels' = r \/ labels' = [r EXCEPT !.table = ResizeVector(r.table, last)]
  <2>1. CASE id = last
    <3>1. r = ForceRemove(labels, l, id)
      BY Zenon, <1>1, <1>4, <2>1 DEF Removed, Move
    <3>2. ~(id < last)
      BY <1>5, <2>1
    <3> QED BY Zenon, <1>1, <1>3, <3>1, <3>2 DEF ForceRemoveOne, ShrinkToFit
  <2>2. CASE id # last
    <3>1. id < last
      BY <1>1, <1>2, <1>3, <2>2 DEF Ids
    <3>2. r = Move(ForceRemove(labels, l, id), last, id)
      BY Zenon, <1>1, <1>4 DEF Removed
    <3> QED BY Zenon, <1>1, <1>3, <3>1, <3>2 DEF ForceRemoveOne, ShrinkToFit
  <2> QED BY Zenon, <2>1, <2>2
<1>7. /\ Agrees(labels', last, Ids(last))
      /\ labels'.remap = r.remap /\ labels'.deleted = r.deleted
  <2>1. CASE labels' = r
    BY Zenon, <1>5, <2>1
  <2>2. CASE labels' = [r EXCEPT !.table = ResizeVector(r.table, last)]
    <3>1. last <= last /\ Ids(last) \in SUBSET Ids(last) /\ IsTable(r)
      BY <1>5 DEF Agrees, Shape
    <3>2. Agrees(labels', last, Ids(last))
      BY Zenon, <1>5, <2>2, <3>1, ResizeAgrees
    <3>3. PICK T, u : T = ResizeVector(r.table, last) /\ u = labels'
      BY Zenon
    <3>4. u = [table |-> T, remap |-> r.remap, deleted |-> r.deleted, count |-> r.count]
      BY Zenon, <2>2, <3>1, <3>3, Replaced
    <3>5. u.remap = r.remap /\ u.deleted = r.deleted
      BY SMT, <3>4
    <3> QED BY Zenon, <3>2, <3>3, <3>5
  <2> QED BY Zenon, <1>6, <2>1, <2>2
<1>8. \A k : CheckLabel(labels', k) <=> k # l /\ CheckLabel(labels, k)
  <2>1. \A k : CheckLabel(r, k) <=> k # l /\ CheckLabel(labels, k)
    BY Zenon, <1>2, <1>3, <1>4, RemovedChecks
  <2> QED BY Zenon, <1>7, <2>1 DEF CheckLabel
<1>9. delete_count' = Cardinality(labels'.deleted)
  <2>1. /\ id \in labels.deleted => Cardinality(labels.deleted) > 0
        /\ Cardinality(r.deleted) = IF id \in labels.deleted THEN Cardinality(labels.deleted) - 1
                                    ELSE Cardinality(labels.deleted)
    BY ZenonT(40), <1>1, <1>2, <1>3, <1>4, RemovedTombstones
  <2>2. delete_count' = DeleteCountWithout(id) /\ delete_count = Cardinality(labels.deleted)
    BY Zenon, <1>3 DEF ForceRemoveOne, TableInv
  <2> QED BY Zenon, <1>7, <2>1, <2>2 DEF DeleteCountWithout
<1>10. /\ DOMAIN labels'.remap = DOMAIN labels.remap \ {l}
       /\ \A k \in DOMAIN labels.remap \ {l} :
            labels'.remap[k] = IF labels.remap[k] = last THEN id ELSE labels.remap[k]
  <2>1. /\ IsTable(r) /\ r.count = last
        /\ r.table = [i \in DOMAIN labels.table |->
                        IF i = id THEN labels.table[last] ELSE labels.table[i]]
        /\ r.remap = [k \in DOMAIN labels.remap \ {l} |->
                        IF labels.remap[k] = last THEN id ELSE labels.remap[k]]
        /\ r.deleted = (labels.deleted \ {id, last}) \cup
                         (IF last \in labels.deleted /\ last # id THEN {id} ELSE {})
    BY SMT, <1>1, <1>2, <1>3, <1>4, RemovedMembers
  <2> QED BY ZenonT(40), <1>7, <2>1
<1>11. total_count' = last /\ codes' = [codes EXCEPT ![id] = codes[last]]
  BY Zenon, <1>1, <1>3 DEF ForceRemoveOne, SlotFilled
<1> QED BY Zenon, <1>1, <1>3, <1>5, <1>7, <1>8, <1>9, <1>10, <1>11

(* UpdateId renames one element, or leaves every lookup as it is. *)
LEMMA Renamed ==
  ASSUME ~ReAdd, Types, TableInv, NEW old \in Label, NEW new \in Label, UpdateId(old, new)
  PROVE  /\ Agrees(labels', total_count, Ids(total_count)) /\ labels'.deleted = labels.deleted
         /\ \/ labels'.remap = labels.remap
            \/ /\ old \in DOMAIN labels.remap /\ new \notin DOMAIN labels.remap /\ old # new
               /\ labels'.remap =
                    InsertOrAssign(Erase(labels.remap, old), new, labels.remap[old])
<1>1. PICK n : n = total_count
  BY Zenon
<1>2. n \in Nat /\ Agrees(labels, n, Ids(n)) /\ Ids(n) \in SUBSET Ids(n)
  BY <1>1 DEF Types, TableInv
<1>3. /\ old # new /\ labels' = UpdateLabel(labels, old, new)
      /\ CheckLabel(labels, new) \/ new \notin DOMAIN labels.remap
  BY Zenon DEF UpdateId, MayUse
<1>4. CheckLabel(labels, new) \/ \A i \in Ids(n) : labels.table[i] # new
  BY Zenon, <1>2, <1>3 DEF Agrees, Resolves
<1>5. /\ Agrees(labels', n, Ids(n)) /\ labels'.deleted = labels.deleted
      /\ IF CheckLabel(labels, new) \/ old \notin DOMAIN labels.remap
         THEN labels'.remap = labels.remap
         ELSE labels'.remap = InsertOrAssign(Erase(labels.remap, old), new, labels.remap[old])
  <2>1. PICK u : u = UpdateLabel(labels, old, new)
    BY Zenon
  <2>2. /\ Agrees(u, n, Ids(n)) /\ u.deleted = labels.deleted
        /\ DOMAIN u.table = DOMAIN labels.table
        /\ IF CheckLabel(labels, new) \/ old \notin DOMAIN labels.remap
           THEN u.remap = labels.remap
           ELSE u.remap = InsertOrAssign(Erase(labels.remap, old), new, labels.remap[old])
    BY SMT, <1>2, <1>3, <1>4, <2>1, UpdateLabelAgrees
  <2> QED BY Zenon, <1>3, <2>1, <2>2
<1> QED BY Zenon, <1>1, <1>3, <1>5

(* An array without leftovers is cloned with its label table. *)
LEMMA Cloned ==
  ASSUME CloneWhen # "no_tombstones", Types, TableInv, Clone
  PROVE  labels' = labels /\ delete_count' = delete_count
<1>1. CloneWhen = "no_leftovers"
  BY ClonesExist DEF Clone
<1>2. total_count \in Nat
  BY DEF Types
<1>3. LoadTableFormat(labels) = labels
  BY Zenon, <1>1, <1>2, LoadTableFormatSame DEF Clone, TableInv
<1> QED BY Zenon, <1>3 DEF Clone, TableInv

(* Every step keeps the label table and the counters in agreement. *)
LEMMA TableStep ==
  ASSUME ~ReAdd, CloneWhen # "no_tombstones", Types, TableInv, ClaimInv, [Next]_vars
  PROVE  TableInv'
<1>1. ASSUME UNCHANGED <<labels, total_count, delete_count>> PROVE TableInv'
  BY Zenon, <1>1 DEF TableInv
<1>2. ASSUME NEW t \in Thread, NEW l \in Label, NEW v \in Vec, Add(t, l, v) PROVE TableInv'
  BY Zenon, <1>1, <1>2 DEF Add
<1>3. ASSUME NEW t \in Thread, ClaimFails(t) PROVE TableInv'
  BY Zenon, <1>1, <1>3 DEF ClaimFails
<1>4. ASSUME NEW t \in Thread, claim_slot(t) PROVE TableInv'
  <2>1. /\ Agrees(labels', total_count + 1, Ids(total_count + 1))
        /\ labels'.deleted = labels.deleted
    BY Zenon, <1>4, Claimed
  <2>2. total_count' = total_count + 1 /\ delete_count' = delete_count
    BY Zenon, <1>4 DEF claim_slot
  <2> QED BY Zenon, <2>1, <2>2 DEF TableInv
<1>5. ASSUME NEW t \in Thread, BeginWrite(t) PROVE TableInv'
  BY Zenon, <1>1, <1>5 DEF BeginWrite
<1>6. ASSUME NEW t \in Thread, EndWrite(t) PROVE TableInv'
  BY Zenon, <1>1, <1>6 DEF EndWrite
<1>7. ASSUME NEW l \in Label, MarkRemoveOne(l) PROVE TableInv'
  <2>1. /\ Agrees(labels', total_count, Ids(total_count))
        /\ delete_count' = Cardinality(labels'.deleted)
    BY Zenon, <1>7, Marked
  <2>2. total_count' = total_count
    BY Zenon, <1>7 DEF MarkRemoveOne
  <2> QED BY Zenon, <2>1, <2>2 DEF TableInv
<1>8. ASSUME NEW l \in Label, ForceRemoveOne(l) PROVE TableInv'
  BY Zenon, <1>8, ForceRemoved DEF TableInv
<1>9. ASSUME NEW l \in Label, NEW v \in Vec, UpdateVector(l, v) PROVE TableInv'
  BY Zenon, <1>1, <1>9 DEF UpdateVector
<1>10. ASSUME NEW old \in Label, NEW new \in Label, UpdateId(old, new) PROVE TableInv'
  <2>1. Agrees(labels', total_count, Ids(total_count)) /\ labels'.deleted = labels.deleted
    BY Zenon, <1>10, Renamed
  <2>2. total_count' = total_count /\ delete_count' = delete_count
    BY Zenon, <1>10 DEF UpdateId
  <2> QED BY Zenon, <2>1, <2>2 DEF TableInv
<1>11. ASSUME Clone PROVE TableInv'
  <2>1. labels' = labels /\ delete_count' = delete_count
    BY Zenon, <1>11, Cloned
  <2> QED BY Zenon, <1>1, <1>11, <2>1 DEF Clone
<1>12. ASSUME UNCHANGED vars PROVE TableInv'
  BY Zenon, <1>1, <1>12 DEF vars
<1> QED BY Zenon, <1>2, <1>3, <1>4, <1>5, <1>6, <1>7, <1>8, <1>9, <1>10, <1>11, <1>12 DEF Next

(* Where every label that lookups found and that is still there is found, no thread's label      *)
(* becomes a tombstone's.                                                                *)
LEMMA ClaimKept ==
  ASSUME ClaimInv,
         \A t \in Thread : pc'[t] = "claim" => pc[t] = "claim" /\ row'[t].label = row[t].label,
         \A t \in Thread : pc[t] = "claim" /\ row[t].label \in DOMAIN labels'.remap =>
           row[t].label \in DOMAIN labels.remap \/ CheckLabel(labels', row[t].label),
         \A t \in Thread : pc[t] = "claim" /\ CheckLabel(labels, row[t].label) /\
           row[t].label \in DOMAIN labels'.remap => CheckLabel(labels', row[t].label)
  PROVE  ClaimInv'
<1> SUFFICES ASSUME NEW t \in Thread, pc'[t] = "claim", row'[t].label \in DOMAIN labels'.remap
             PROVE  CheckLabel(labels', row'[t].label)
  BY Zenon DEF ClaimInv
<1>1. pc[t] = "claim" /\ row'[t].label = row[t].label
  BY Zenon
<1>2. row[t].label \in DOMAIN labels.remap \/ CheckLabel(labels', row[t].label)
  BY Zenon, <1>1
<1>3. row[t].label \in DOMAIN labels.remap => CheckLabel(labels, row[t].label)
  BY Zenon, <1>1 DEF ClaimInv
<1>4. CheckLabel(labels, row[t].label) => CheckLabel(labels', row[t].label)
  BY Zenon, <1>1
<1> QED BY Zenon, <1>1, <1>2, <1>3, <1>4

(* Every step keeps the labels that threads are about to claim free of tombstones. *)
LEMMA ClaimStep ==
  ASSUME ~ReAdd, CloneWhen # "no_tombstones", Types, TableInv, ClaimInv, [Next]_vars
  PROVE  ClaimInv'
<1>0. pc \in [Thread -> {"idle", "claim", "write", "writing"}] /\ row \in [Thread -> Row]
  BY Zenon DEF Types
<1>1. ASSUME UNCHANGED labels,
             \A t \in Thread : pc'[t] = "claim" => pc[t] = "claim" /\ row'[t].label = row[t].label
      PROVE  ClaimInv'
  BY Zenon, <1>1, ClaimKept DEF CheckLabel
<1>2. ASSUME NEW t \in Thread, NEW l \in Label, NEW v \in Vec, Add(t, l, v) PROVE ClaimInv'
  <2>1. PICK r : r = [label |-> l, vec |-> v, id |-> 0, moved |-> FALSE]
    BY Zenon
  <2>2. r.label = l
    BY <2>1
  <2>3. row' = [row EXCEPT ![t] = r] /\ pc' = [pc EXCEPT ![t] = "claim"] /\ labels' = labels
    BY Zenon, <1>2, <2>1 DEF Add
  <2>4. l \in DOMAIN labels.remap => CheckLabel(labels, l)
    BY Zenon, <1>2 DEF Add, MayUse
  <2>5. ASSUME NEW u \in Thread, pc'[u] = "claim", row'[u].label \in DOMAIN labels.remap
        PROVE  CheckLabel(labels, row'[u].label)
    <3>1. CASE u = t
      BY Zenon, <1>0, <2>2, <2>3, <2>4, <2>5, <3>1
    <3>2. CASE u # t
      BY Zenon, <1>0, <2>3, <2>5, <3>2 DEF ClaimInv
    <3> QED BY Zenon, <3>1, <3>2
  <2> QED BY Zenon, <2>3, <2>5 DEF ClaimInv
<1>3. ASSUME NEW t \in Thread, ClaimFails(t) PROVE ClaimInv'
  <2>1. UNCHANGED labels /\ pc' = [pc EXCEPT ![t] = "idle"] /\ row' = [row EXCEPT ![t] = NoRow]
    BY Zenon, <1>3 DEF ClaimFails
  <2>2. \A u \in Thread : pc'[u] = "claim" => pc[u] = "claim" /\ row'[u].label = row[u].label
    BY Zenon, <1>0, <2>1
  <2> QED BY Zenon, <1>1, <2>1, <2>2
<1>4. ASSUME NEW t \in Thread, claim_slot(t) PROVE ClaimInv'
  <2>1. /\ labels'.remap = InsertOrAssign(labels.remap, row[t].label, total_count)
        /\ \A k : CheckLabel(labels', k) <=> k = row[t].label \/ CheckLabel(labels, k)
    BY Zenon, <1>4, Claimed
  <2>2. DOMAIN labels'.remap = DOMAIN labels.remap \cup {row[t].label}
    BY Zenon, <2>1 DEF InsertOrAssign
  <2>3. \A u \in Thread : pc'[u] = "claim" => pc[u] = "claim" /\ row'[u].label = row[u].label
    <3>1. pc' = [pc EXCEPT ![t] = "write"]
      BY Zenon, <1>4 DEF claim_slot
    <3>2. \A u \in Thread : row'[u].label = row[u].label
      BY Zenon, <1>4, RowsAfterClaim
    <3> QED BY Zenon, <1>0, <3>1, <3>2
  <2> QED BY Zenon, <2>1, <2>2, <2>3, ClaimKept
<1>5. ASSUME NEW t \in Thread, BeginWrite(t) PROVE ClaimInv'
  <2>1. UNCHANGED <<labels, row>> /\ pc' = [pc EXCEPT ![t] = "writing"]
    BY Zenon, <1>5 DEF BeginWrite
  <2>2. \A u \in Thread : pc'[u] = "claim" => pc[u] = "claim" /\ row'[u].label = row[u].label
    BY Zenon, <1>0, <2>1
  <2> QED BY Zenon, <1>1, <2>1, <2>2
<1>6. ASSUME NEW t \in Thread, EndWrite(t) PROVE ClaimInv'
  <2>1. UNCHANGED labels /\ pc' = [pc EXCEPT ![t] = "idle"] /\ row' = [row EXCEPT ![t] = NoRow]
    BY Zenon, <1>6 DEF EndWrite
  <2>2. \A u \in Thread : pc'[u] = "claim" => pc[u] = "claim" /\ row'[u].label = row[u].label
    BY Zenon, <1>0, <2>1
  <2> QED BY Zenon, <1>1, <2>1, <2>2
<1>7. ASSUME NEW l \in Label, MarkRemoveOne(l) PROVE ClaimInv'
  <2>1. /\ labels'.remap = labels.remap
        /\ \A k : CheckLabel(labels', k) <=> k # l /\ CheckLabel(labels, k)
    BY Zenon, <1>7, Marked
  <2>2. UNCHANGED <<pc, row>> /\ \A t \in Thread : pc[t] = "claim" => row[t].label # l
    BY Zenon, <1>7 DEF MarkRemoveOne, IsIdle
  <2> QED BY Zenon, <2>1, <2>2, ClaimKept
<1>8. ASSUME NEW l \in Label, ForceRemoveOne(l) PROVE ClaimInv'
  <2>1. \A k : CheckLabel(labels', k) <=> k # l /\ CheckLabel(labels, k)
    BY Zenon, <1>8, ForceRemoved
  <2>2. UNCHANGED <<pc, row>>
    BY Zenon, <1>8 DEF ForceRemoveOne
  <2>3. DOMAIN labels'.remap = DOMAIN labels.remap \ {l}
    BY Zenon, <1>8, ForceRemoved
  <2> QED BY Zenon, <2>1, <2>2, <2>3, ClaimKept
<1>9. ASSUME NEW l \in Label, NEW v \in Vec, UpdateVector(l, v) PROVE ClaimInv'
  BY Zenon, <1>1, <1>9 DEF UpdateVector
<1>10. ASSUME NEW old \in Label, NEW new \in Label, UpdateId(old, new) PROVE ClaimInv'
  <2>1. \A t \in Thread : pc'[t] # "claim"
    BY Zenon, <1>10 DEF UpdateId, IsIdle
  <2> QED BY Zenon, <2>1 DEF ClaimInv
<1>11. ASSUME Clone PROVE ClaimInv'
  <2>1. \A t \in Thread : pc'[t] # "claim"
    BY Zenon, <1>11 DEF Clone, IsIdle
  <2> QED BY Zenon, <2>1 DEF ClaimInv
<1>12. ASSUME UNCHANGED vars PROVE ClaimInv'
  BY Zenon, <1>1, <1>12 DEF vars
<1> QED BY Zenon, <1>2, <1>3, <1>4, <1>5, <1>6, <1>7, <1>8, <1>9, <1>10, <1>11, <1>12 DEF Next

-----------------------------------------------------------------------------
(* The invariant holds at first. *)
LEMMA InvInit == Init => IInv
<1> SUFFICES ASSUME Init PROVE IInv
  OBVIOUS
<1>1. TableInv
  <2>1. labels = EmptyLabelTable /\ total_count = 0 /\ delete_count = 0
    BY Zenon DEF Init
  <2>2. EmptyLabelTable.deleted = {}
    BY DEF EmptyLabelTable
  <2> QED BY Zenon, <2>1, <2>2, EmptyAgrees, FS_EmptySet DEF TableInv
<1>2. ClaimInv
  BY Zenon DEF Init, ClaimInv
<1> QED BY Zenon, <1>1, <1>2, TypesInit DEF IInv

(* The invariant holds always. *)
LEMMA InvAlways ==
  ASSUME ~ReAdd, CloneWhen # "no_tombstones"
  PROVE  Spec => []IInv
<1>1. IInv /\ [Next]_vars => IInv'
  BY Zenon, TypesStep, TableStep, ClaimStep DEF IInv
<1> QED BY InvInit, <1>1, PTL DEF Spec

(* The invariant gives the agreement of searches, lookups and counters. *)
LEMMA InvAgrees == IInv => LookupsAgree
<1> SUFFICES ASSUME IInv PROVE LookupsAgree
  OBVIOUS
<1>1. PICK n : n = total_count
  BY Zenon
<1>2. /\ n \in Nat /\ Agrees(labels, n, Ids(n)) /\ Ids(n) \subseteq InnerId
      /\ n \in 0 .. MaxIds
  <2>1. n \in 0 .. MaxIds /\ Agrees(labels, n, Ids(n))
    BY Zenon, <1>1 DEF IInv, Types, TableInv
  <2> QED BY Zenon, <2>1, CapacityBounds
<1>3. /\ \A l \in DOMAIN labels.remap : l \in Label /\ labels.remap[l] \in Ids(n)
      /\ \A i \in Ids(n) : labels.table[i] \in DOMAIN labels.remap
                           /\ labels.remap[labels.table[i]] = i
      /\ labels.deleted \subseteq Ids(n) /\ labels.count = n
  BY Zenon, <1>2 DEF Agrees, Shape, Resolves
<1>4. IsFiniteSet(labels.deleted) /\ Cardinality(labels.deleted) \in Nat
  <2>1. IsFiniteSet(Ids(n)) /\ labels.deleted \in SUBSET Ids(n)
    BY Zenon, <1>2, <1>3, IdsCount
  <2> QED BY Zenon, <2>1, FS_Subset, FS_CardinalityType
<1>5. TypeOK
  <2>1. labels.table \in [0 .. TableSize(labels) - 1 -> Label]
    <3>1. PICK m \in Nat : labels.table \in [Ids(m) -> Label]
      BY Zenon, <1>2 DEF Agrees, Shape
    <3>2. TableSize(labels) = m
      BY <3>1, IdsCount DEF TableSize
    <3> QED BY Zenon, <3>1, <3>2 DEF Ids
  <2>2. delete_count \in Nat
    BY Zenon, <1>4 DEF IInv, TableInv
  <2> QED BY Zenon, <1>1, <1>2, <1>3, <2>1, <2>2 DEF IInv, Types, TypeOK, Row
<1>6. SearchAgreesWithLookup
  <2>1. ASSUME NEW i \in Searched
        PROVE  TryGetIdByLabel(labels, labels.table[i], FALSE) = i
    <3>1. i \in Ids(n) /\ i \notin labels.deleted
      BY Zenon, <1>1 DEF Searched, Ids
    <3>2. Find(labels.remap, labels.table[i]) = i
      BY Zenon, <1>3, <3>1 DEF Find
    <3> QED BY Zenon, <3>1, <3>2 DEF TryGetIdByLabel
  <2>2. ASSUME NEW l \in Found PROVE labels.remap[l] \in Searched
    BY Zenon, <1>1, <1>3 DEF Found, CheckLabel, Searched, Ids
  <2> QED BY Zenon, <2>1, <2>2 DEF SearchAgreesWithLookup
<1>7. CountsAgree
  <2>1. Agrees(labels, n, Ids(n) \ labels.deleted)
    <3>1. Ids(n) \ labels.deleted \subseteq Ids(n)
      BY Zenon
    <3> QED BY Zenon, <1>2, <3>1, AgreesOnFewer
  <2>2. Cardinality(Found) = n - Cardinality(labels.deleted)
    BY Zenon, <1>2, <2>1, FoundCount DEF Found
  <2> QED BY Zenon, <1>1, <1>3, <2>2 DEF CountsAgree, IInv, TableInv
<1> QED BY Zenon, <1>5, <1>6, <1>7 DEF LookupsAgree

(* Searches and id lookups reach the same elements under the same slots, and the counters      *)
(* count them, whatever Adds run beside each other and beside removals and updates of either   *)
(* kind, for callers who do not add a tombstone's label again and clone without leftovers.    *)
THEOREM LookupsStayInAgreement ==
  ASSUME ~ReAdd, CloneWhen # "no_tombstones"
  PROVE  Spec => []LookupsAgree
<1>1. Spec => []IInv
  BY InvAlways
<1> QED BY <1>1, InvAgrees, PTL

-----------------------------------------------------------------------------
(* Callers that do not grow the array, remove or update beside a running Add. *)

(* Every thread that still writes owns a slot that no other has, and every other slot in use  *)
(* has its vector.                                                                   *)
WriterInv ==
  /\ \A t \in Thread : ~row[t].moved
  /\ \A t \in Writers : /\ row[t].label \in DOMAIN labels.remap
                        /\ labels.remap[row[t].label] = row[t].id
                        /\ row[t].id \notin labels.deleted
  /\ \A t, u \in Writers : row[t].label = row[u].label => t = u
  /\ \A i \in Ids(total_count) : codes[i] \in Vec \/ \E t \in Writers : row[t].id = i

(* Without threads that write. *)
LEMMA NoWriters ==
  ASSUME Writers' = {}, \A t \in Thread : ~row'[t].moved,
         \A i \in Ids(total_count') : codes'[i] \in Vec
  PROVE  WriterInv'
  BY Zenon DEF WriterInv

(* A step that leaves the writers, their rows, the labels and the codes alone. *)
LEMMA WritersKept ==
  ASSUME WriterInv, Writers' = Writers, \A t \in Thread : ~row'[t].moved,
         \A t \in Writers : row'[t] = row[t], UNCHANGED <<labels, codes, total_count>>
  PROVE  WriterInv'
<1>1. /\ \A t \in Writers' : /\ row'[t].label \in DOMAIN labels'.remap
                             /\ labels'.remap[row'[t].label] = row'[t].id
                             /\ row'[t].id \notin labels'.deleted
  BY Zenon DEF WriterInv
<1>2. \A t, u \in Writers' : row'[t].label = row'[u].label => t = u
  <2> SUFFICES ASSUME NEW t \in Writers', NEW u \in Writers', row'[t].label = row'[u].label
               PROVE  t = u
    BY Zenon
  <2>1. row'[t] = row[t] /\ row'[u] = row[u] /\ t \in Writers /\ u \in Writers
    BY Zenon
  <2>2. row[t].label = row[u].label
    BY Zenon, <2>1
  <2> QED BY Zenon, <2>1, <2>2 DEF WriterInv
<1>3. \A i \in Ids(total_count') : codes'[i] \in Vec \/ \E t \in Writers' : row'[t].id = i
  <2> SUFFICES ASSUME NEW i \in Ids(total_count), codes[i] \notin Vec
               PROVE  \E t \in Writers : row'[t].id = i
    BY Zenon
  <2>1. PICK t \in Writers : row[t].id = i
    BY Zenon DEF WriterInv
  <2> QED BY Zenon, <2>1
<1> QED BY Zenon, <1>1, <1>2, <1>3 DEF WriterInv

(* Every step keeps the writers' slots their own. *)
LEMMA WriterStep ==
  ASSUME Overlap = {}, ~ReAdd, CloneWhen # "no_tombstones", IInv, WriterInv, [Next]_vars
  PROVE  WriterInv'
<1>0. /\ Types /\ TableInv /\ ClaimInv
      /\ pc \in [Thread -> {"idle", "claim", "write", "writing"}] /\ row \in [Thread -> Row]
  BY Zenon DEF IInv, Types
<1>1. ASSUME NEW t \in Thread, NEW l \in Label, NEW v \in Vec, Add(t, l, v) PROVE WriterInv'
  <2>1. PICK r : r = [label |-> l, vec |-> v, id |-> 0, moved |-> FALSE]
    BY Zenon
  <2>2. r.moved = FALSE
    BY Zenon, <2>1
  <2>3. /\ row' = [row EXCEPT ![t] = r] /\ pc' = [pc EXCEPT ![t] = "claim"] /\ pc[t] = "idle"
        /\ UNCHANGED <<labels, codes, total_count>>
    BY Zenon, <1>1, <2>1 DEF Add, IsIdle
  <2>4. Writers' = Writers
    BY Zenon, <1>0, <2>3 DEF Writers
  <2>5. \A u \in Writers : u # t /\ row'[u] = row[u]
    BY Zenon, <1>0, <2>3 DEF Writers
  <2>6. \A u \in Thread : ~row'[u].moved
    BY Zenon, <1>0, <2>2, <2>3 DEF WriterInv
  <2> QED BY Zenon, <2>3, <2>4, <2>5, <2>6, WritersKept
<1>2. ASSUME NEW t \in Thread, ClaimFails(t) PROVE WriterInv'
  <2>1. /\ row' = [row EXCEPT ![t] = NoRow] /\ pc' = [pc EXCEPT ![t] = "idle"] /\ pc[t] = "claim"
        /\ UNCHANGED <<labels, codes, total_count>>
    BY Zenon, <1>2 DEF ClaimFails
  <2>2. Writers' = Writers
    BY Zenon, <1>0, <2>1 DEF Writers
  <2>3. \A u \in Writers : u # t /\ row'[u] = row[u]
    BY Zenon, <1>0, <2>1 DEF Writers
  <2>4. \A u \in Thread : ~row'[u].moved
    BY Zenon, <1>0, <2>1 DEF WriterInv, NoRow
  <2> QED BY Zenon, <2>1, <2>2, <2>3, <2>4, WritersKept
<1>3. ASSUME NEW t \in Thread, claim_slot(t) PROVE WriterInv'
  <2>1. PICK n, l : n = total_count /\ l = row[t].label
    BY Zenon
  <2>2. /\ l \notin DOMAIN labels.remap /\ n \notin labels.deleted /\ labels'.deleted = labels.deleted
        /\ labels'.remap = InsertOrAssign(labels.remap, l, n)
    BY Zenon, <1>0, <1>3, <2>1, Claimed
  <2>3. /\ labels'.remap[l] = n /\ DOMAIN labels'.remap = DOMAIN labels.remap \cup {l}
        /\ \A k \in DOMAIN labels.remap : labels'.remap[k] = labels.remap[k]
    BY Zenon, <2>2 DEF InsertOrAssign
  <2>4. \A u \in Thread :
          /\ row'[u].label = row[u].label /\ row'[u].vec = row[u].vec
          /\ row'[u].id = (IF u = t THEN n ELSE row[u].id)
          /\ \/ max_capacity < RoundUp(n + 1) /\ row'[u].moved = (pc[u] = "writing")
             \/ row'[u].moved = row[u].moved
    BY Zenon, <1>0, <1>3, <2>1, RowsAfterClaim
  <2>5. /\ pc' = [pc EXCEPT ![t] = "write"] /\ pc[t] = "claim" /\ codes' = codes
        /\ total_count' = n + 1 /\ (max_capacity < RoundUp(n + 1) => Writers = {})
    BY Zenon, <1>3, <2>1 DEF claim_slot, Allowed
  <2>6. Writers' = Writers \cup {t} /\ t \notin Writers
    BY Zenon, <1>0, <2>5 DEF Writers
  <2>7. ASSUME NEW u \in Thread PROVE ~row'[u].moved
    <3>1. ~row[u].moved
      BY Zenon DEF WriterInv
    <3>2. max_capacity < RoundUp(n + 1) => pc[u] # "writing"
      BY Zenon, <2>5 DEF Writers
    <3> QED BY Zenon, <2>4, <3>1, <3>2
  <2>8. row'[t].label = l /\ row'[t].id = n
    BY Zenon, <2>1, <2>4
  <2>9. ASSUME NEW u \in Writers
        PROVE  /\ u # t /\ row'[u].label = row[u].label /\ row'[u].id = row[u].id
               /\ row[u].label \in DOMAIN labels.remap /\ row[u].label # l
               /\ labels.remap[row[u].label] = row[u].id /\ row[u].id \notin labels.deleted
    <3>1. u # t /\ u \in Thread
      BY Zenon, <2>6 DEF Writers
    <3>2. row[u].label \in DOMAIN labels.remap
          /\ labels.remap[row[u].label] = row[u].id /\ row[u].id \notin labels.deleted
      BY Zenon DEF WriterInv
    <3> QED BY Zenon, <2>2, <2>4, <3>1, <3>2
  <2>10. ASSUME NEW u \in Writers'
         PROVE  /\ row'[u].label \in DOMAIN labels'.remap
                /\ labels'.remap[row'[u].label] = row'[u].id
                /\ row'[u].id \notin labels'.deleted
    <3>1. CASE u = t
      BY Zenon, <2>2, <2>3, <2>8, <3>1
    <3>2. CASE u # t
      BY Zenon, <2>2, <2>3, <2>6, <2>9, <3>2
    <3> QED BY Zenon, <3>1, <3>2
  <2>11. ASSUME NEW u \in Writers', NEW w \in Writers', row'[u].label = row'[w].label PROVE u = w
    <3>1. CASE u = t \/ w = t
      BY Zenon, <2>6, <2>8, <2>9, <2>11, <3>1
    <3>2. CASE u # t /\ w # t
      <4>1. u \in Writers /\ w \in Writers /\ row[u].label = row[w].label
        BY Zenon, <2>6, <2>9, <2>11, <3>2
      <4> QED BY Zenon, <4>1 DEF WriterInv
    <3> QED BY Zenon, <3>1, <3>2
  <2>12. ASSUME NEW i \in Ids(n + 1), codes[i] \notin Vec PROVE \E u \in Writers' : row'[u].id = i
    <3>1. CASE i = n
      BY Zenon, <2>6, <2>8, <3>1
    <3>2. CASE i # n
      <4>1. i \in Ids(n)
        BY <1>0, <2>1, <3>2 DEF Types, Ids
      <4>2. PICK u \in Writers : row[u].id = i
        BY Zenon, <2>1, <2>12, <4>1 DEF WriterInv
      <4> QED BY Zenon, <2>6, <2>9, <4>2
    <3> QED BY Zenon, <3>1, <3>2
  <2>13. \A i \in Ids(total_count') : codes'[i] \in Vec \/ \E u \in Writers' : row'[u].id = i
    BY Zenon, <2>5, <2>12
  <2> QED BY Zenon, <2>7, <2>10, <2>11, <2>13 DEF WriterInv
<1>4. ASSUME NEW t \in Thread, BeginWrite(t) PROVE WriterInv'
  <2>1. /\ pc' = [pc EXCEPT ![t] = "writing"] /\ pc[t] = "write"
        /\ UNCHANGED <<row, labels, codes, total_count>>
    BY Zenon, <1>4 DEF BeginWrite
  <2>2. Writers' = Writers
    BY Zenon, <1>0, <2>1 DEF Writers
  <2>3. \A u \in Thread : ~row'[u].moved
    BY Zenon, <2>1 DEF WriterInv
  <2> QED BY Zenon, <2>1, <2>2, <2>3, WritersKept
<1>5. ASSUME NEW t \in Thread, EndWrite(t) PROVE WriterInv'
  <2>1. /\ row' = [row EXCEPT ![t] = NoRow] /\ pc' = [pc EXCEPT ![t] = "idle"] /\ pc[t] = "writing"
        /\ UNCHANGED <<labels, total_count>> /\ ~row[t].moved
        /\ codes' = [codes EXCEPT ![row[t].id] = row[t].vec]
    BY Zenon, <1>5 DEF EndWrite, WriterInv
  <2>2. Writers' = Writers \ {t} /\ t \in Writers
    BY Zenon, <1>0, <2>1 DEF Writers
  <2>3. \A u \in Writers' : u # t /\ row'[u] = row[u] /\ u \in Writers
    BY Zenon, <1>0, <2>1, <2>2 DEF Writers
  <2>4. \A u \in Thread : ~row'[u].moved
    BY Zenon, <1>0, <2>1 DEF WriterInv, NoRow
  <2>5. \A u \in Writers' : /\ row'[u].label \in DOMAIN labels'.remap
                            /\ labels'.remap[row'[u].label] = row'[u].id
                            /\ row'[u].id \notin labels'.deleted
    BY ZenonT(40), <2>1, <2>3 DEF WriterInv
  <2>6. ASSUME NEW u \in Writers', NEW w \in Writers', row'[u].label = row'[w].label PROVE u = w
    <3>1. u \in Writers /\ w \in Writers /\ row[u].label = row[w].label
      BY Zenon, <2>3, <2>6
    <3> QED BY Zenon, <3>1 DEF WriterInv
  <2>7. row[t].vec \in Vec /\ codes \in [InnerId -> Vec \cup {None}] /\ Ids(total_count) \subseteq InnerId
    BY Zenon, <1>0, <2>1, CapacityBounds DEF Types
  <2>8. ASSUME NEW i \in Ids(total_count), codes'[i] \notin Vec
        PROVE  \E u \in Writers' : row'[u].id = i
    <3>1. i # row[t].id /\ codes'[i] = codes[i]
      BY Zenon, <2>1, <2>7, <2>8
    <3>2. PICK u \in Writers : row[u].id = i
      BY Zenon, <2>8, <3>1 DEF WriterInv
    <3> QED BY Zenon, <2>2, <2>3, <3>1, <3>2
  <2>9. \A i \in Ids(total_count') : codes'[i] \in Vec \/ \E u \in Writers' : row'[u].id = i
    BY Zenon, <2>1, <2>8
  <2> QED BY Zenon, <2>4, <2>5, <2>6, <2>9 DEF WriterInv
<1>6. ASSUME UNCHANGED <<pc, row>>, Writers = {}, \A i \in Ids(total_count') : codes'[i] \in Vec
      PROVE  WriterInv'
  <2>1. Writers' = {} /\ \A t \in Thread : ~row'[t].moved
    BY Zenon, <1>6 DEF Writers, WriterInv
  <2> QED BY Zenon, <1>6, <2>1, NoWriters
<1>7. Writers = {} => \A i \in Ids(total_count) : codes[i] \in Vec
  BY Zenon DEF WriterInv
<1>8. ASSUME NEW l \in Label, MarkRemoveOne(l) PROVE WriterInv'
  BY Zenon, <1>6, <1>7, <1>8 DEF MarkRemoveOne, Allowed
<1>9. ASSUME NEW l \in Label, ForceRemoveOne(l) PROVE WriterInv'
  <2>1. Writers = {} /\ UNCHANGED <<pc, row>>
    BY Zenon, <1>9 DEF ForceRemoveOne, Allowed
  <2>2. PICK n, id : n = total_count /\ id = labels.remap[l]
    BY Zenon
  <2>3. /\ total_count' = n - 1 /\ n - 1 \in Nat
        /\ codes' = [codes EXCEPT ![id] = codes[n - 1]]
    BY Zenon, <1>0, <1>9, <2>2, ForceRemoved
  <2>4. n - 1 \in Ids(n) /\ Ids(n - 1) \subseteq Ids(n)
    BY <1>0, <2>2, <2>3 DEF Ids, Types
  <2>5. codes \in [InnerId -> Vec \cup {None}] /\ Ids(n) \subseteq InnerId
    BY Zenon, <1>0, <2>2, CapacityBounds DEF Types
  <2>6. ASSUME NEW i \in Ids(n - 1) PROVE codes'[i] \in Vec
    <3>1. codes[i] \in Vec /\ codes[n - 1] \in Vec /\ i \in InnerId
      BY Zenon, <1>7, <2>1, <2>2, <2>4, <2>5
    <3> QED BY Zenon, <2>3, <2>5, <3>1
  <2> QED BY Zenon, <1>6, <2>1, <2>3, <2>6
<1>10. ASSUME NEW l \in Label, NEW v \in Vec, UpdateVector(l, v) PROVE WriterInv'
  <2>1. Writers = {} /\ UNCHANGED <<pc, row, total_count>>
    BY Zenon, <1>10 DEF UpdateVector, Allowed
  <2>2. PICK id : codes' = [codes EXCEPT ![id] = v]
    BY Zenon, <1>10 DEF UpdateVector
  <2>3. codes \in [InnerId -> Vec \cup {None}] /\ Ids(total_count) \subseteq InnerId
    BY Zenon, <1>0, CapacityBounds DEF Types
  <2>4. \A i \in Ids(total_count) : codes'[i] \in Vec
    BY Zenon, <1>7, <2>1, <2>2, <2>3
  <2> QED BY Zenon, <1>6, <2>1, <2>4
<1>11. ASSUME \A t \in Thread : IsIdle(t) PROVE Writers = {}
  BY Zenon, <1>11 DEF Writers, IsIdle
<1>12. ASSUME NEW old \in Label, NEW new \in Label, UpdateId(old, new) PROVE WriterInv'
  BY Zenon, <1>6, <1>7, <1>11, <1>12 DEF UpdateId
<1>13. ASSUME Clone PROVE WriterInv'
  BY Zenon, <1>6, <1>7, <1>11, <1>13 DEF Clone
<1>14. ASSUME UNCHANGED vars PROVE WriterInv'
  BY Zenon, <1>14 DEF vars, WriterInv, Writers
<1> QED BY Zenon, <1>1, <1>2, <1>3, <1>4, <1>5, <1>8, <1>9, <1>10, <1>12, <1>13, <1>14 DEF Next

(* The writers' slots are their own always. *)
LEMMA WriterAlways ==
  ASSUME Overlap = {}, ~ReAdd, CloneWhen # "no_tombstones"
  PROVE  Spec => [](IInv /\ WriterInv)
<1>1. Init => WriterInv
  <2> SUFFICES ASSUME Init PROVE WriterInv
    OBVIOUS
  <2>1. Writers = {} /\ Ids(total_count) = {}
    BY DEF Init, Writers, Ids
  <2>2. \A t \in Thread : ~row[t].moved
    BY Zenon DEF Init, NoRow
  <2> QED BY Zenon, <2>1, <2>2 DEF WriterInv
<1>2. IInv /\ WriterInv /\ [Next]_vars => WriterInv'
  BY Zenon, WriterStep
<1>3. Spec => []IInv
  BY InvAlways
<1> QED BY <1>1, <1>2, <1>3, PTL DEF Spec

(* No vector is lost: an element whose Add has returned has its vector, although add_one     *)
(* writes it without a lock, as long as nothing grows or moves the array beside it.        *)
THEOREM AddedVectorsStay ==
  ASSUME Overlap = {}, ~ReAdd, CloneWhen # "no_tombstones"
  PROVE  Spec => []ContentIsWritten
<1>1. IInv /\ WriterInv => ContentIsWritten
  <2> SUFFICES ASSUME IInv, WriterInv, NEW l \in Found, \A t \in Writers : row[t].label # l
               PROVE  codes[labels.remap[l]] \in Vec
    BY Zenon DEF ContentIsWritten, Content
  <2>1. l \in DOMAIN labels.remap /\ labels.remap[l] \in Ids(total_count)
    BY Zenon DEF Found, CheckLabel, IInv, TableInv, Agrees, Shape
  <2>2. \A t \in Writers : /\ row[t].label \in DOMAIN labels.remap
                           /\ labels.remap[row[t].label] = row[t].id
    BY Zenon DEF WriterInv
  <2>3. Names(labels)
    BY Zenon DEF IInv, TableInv, Agrees
  <2>4. ASSUME NEW t \in Writers PROVE row[t].id # labels.remap[l]
    BY Zenon, <2>1, <2>2, <2>3, NamesDiffer
  <2> QED BY Zenon, <2>1, <2>4 DEF WriterInv
<1>2. Spec => [](IInv /\ WriterInv)
  BY WriterAlways
<1> QED BY <1>1, <1>2, PTL

-----------------------------------------------------------------------------
(* The labels whose Add has returned. *)
Held == Found \ {row[t].label : t \in Writers}

(* A step of a map from labels to vectors. *)
Abs == Abstract!Next \/ Abstract!Rewrite

(* Content by its members. *)
LEMMA ContentMembers ==
  /\ DOMAIN Content = Held /\ \A k \in Held : Content[k] = codes[labels.remap[k]]
  /\ Content = [k \in Held |-> codes[labels.remap[k]]]
  BY Zenon DEF Content, Held

(* The same after a step. *)
LEMMA ContentAfter == Content' = [k \in Held' |-> codes'[labels'.remap[k]]]
  BY Zenon DEF Content, Held

(* A step that changes no vector of a label that is held. *)
LEMMA ContentKept ==
  ASSUME Held' = Held, \A k \in Held : codes'[labels'.remap[k]] = codes[labels.remap[k]]
  PROVE  UNCHANGED Content
  BY SMT, ContentMembers, ContentAfter

(* A step that changes the vector of one label. *)
LEMMA ContentRewritten ==
  ASSUME NEW l \in Held, NEW v \in Vec, l \in Label, Held' = Held,
         codes'[labels'.remap[l]] = v,
         \A k \in Held \ {l} : codes'[labels'.remap[k]] = codes[labels.remap[k]]
  PROVE  Abs
<1>1. Content' = [Content EXCEPT ![l] = v] /\ l \in DOMAIN Content
  BY SMT, ContentMembers, ContentAfter
<1>2. Abstract!UpdateVector(l, v)
  BY Zenon, <1>1 DEF Abstract!UpdateVector
<1> QED BY Zenon, <1>2 DEF Abs, Abstract!Rewrite

(* A step after which one more label is held. *)
LEMMA ContentAdded ==
  ASSUME NEW l \in Label, NEW v \in Vec, l \notin Held, Held' = Held \cup {l},
         codes'[labels'.remap[l]] = v,
         \A k \in Held : codes'[labels'.remap[k]] = codes[labels.remap[k]]
  PROVE  Abs
<1>1. /\ l \notin DOMAIN Content
      /\ Content' = [k \in DOMAIN Content \cup {l} |-> IF k = l THEN v ELSE Content[k]]
  BY SMT, ContentMembers, ContentAfter
<1>2. Abstract!Add(l, v)
  BY Zenon, <1>1 DEF Abstract!Add
<1> QED BY Zenon, <1>2 DEF Abs, Abstract!Next

(* A step after which one label less is held, or none. *)
LEMMA ContentRemoved ==
  ASSUME NEW l \in Label, Held' = Held \ {l},
         \A k \in Held \ {l} : codes'[labels'.remap[k]] = codes[labels.remap[k]]
  PROVE  Abs \/ UNCHANGED Content
<1>1. CASE l \in Held
  <2>1. l \in DOMAIN Content /\ Content' = [k \in DOMAIN Content \ {l} |-> Content[k]]
    BY SMT, <1>1, ContentMembers, ContentAfter
  <2>2. Abstract!Remove(l)
    BY Zenon, <2>1 DEF Abstract!Remove
  <2> QED BY Zenon, <2>2 DEF Abs, Abstract!Next
<1>2. CASE l \notin Held
  <2>1. Held' = Held /\ \A k \in Held : codes'[labels'.remap[k]] = codes[labels.remap[k]]
    BY Zenon, <1>2
  <2> QED BY Zenon, <2>1, ContentKept
<1> QED BY Zenon, <1>1, <1>2

(* A step after which a label is held in the place of another. *)
LEMMA ContentRenamed ==
  ASSUME NEW old \in Label, NEW new \in Label, old \in Held, new \notin Held,
         Held' = (Held \ {old}) \cup {new},
         codes'[labels'.remap[new]] = codes[labels.remap[old]],
         \A k \in Held \ {old} : codes'[labels'.remap[k]] = codes[labels.remap[k]]
  PROVE  Abs
<1>1. /\ old \in DOMAIN Content /\ new \notin DOMAIN Content
      /\ Content' = [k \in (DOMAIN Content \ {old}) \cup {new} |->
                       Content[IF k = new THEN old ELSE k]]
  BY SMT, ContentMembers, ContentAfter
<1>2. Abstract!UpdateId(old, new)
  BY Zenon, <1>1 DEF Abstract!UpdateId
<1> QED BY Zenon, <1>2 DEF Abs, Abstract!Next

(* What it is for a label to be held, before and after a step. *)
LEMMA HeldMember ==
  \A k : k \in Held <=>
    k \in Label /\ CheckLabel(labels, k) /\ \A t \in Writers : row[t].label # k
  BY Zenon DEF Held, Found

(* The same after a step. *)
LEMMA HeldAfter ==
  \A k : k \in Held' <=>
    k \in Label /\ CheckLabel(labels', k) /\ \A t \in Writers' : row'[t].label # k
  BY Zenon DEF Held, Found

(* Every step is one of a map from labels to vectors, or none. *)
LEMMA RefinementStep ==
  ASSUME Overlap = {}, ~ReAdd, CloneWhen # "no_tombstones", IInv, WriterInv, [Next]_vars
  PROVE  Abs \/ UNCHANGED Content
<1>0. /\ Types /\ TableInv /\ ClaimInv /\ Names(labels)
      /\ pc \in [Thread -> {"idle", "claim", "write", "writing"}] /\ row \in [Thread -> Row]
  BY Zenon DEF IInv, Types, TableInv, Agrees
<1>a. codes \in [InnerId -> Vec \cup {None}] /\ Ids(total_count) \subseteq InnerId
  BY Zenon, <1>0, CapacityBounds DEF Types
<1>b. ASSUME NEW k, CheckLabel(labels, k)
      PROVE  k \in DOMAIN labels.remap /\ labels.remap[k] \in InnerId
  BY Zenon, <1>0, <1>a, <1>b DEF CheckLabel, TableInv, Agrees, Shape
<1>c. \A k \in Held : k \in Label /\ k \in DOMAIN labels.remap /\ labels.remap[k] \in InnerId
  BY Zenon, <1>b, HeldMember
<1>d. ASSUME Writers' = Writers, \A t \in Writers : row'[t].label = row[t].label,
             UNCHANGED <<labels, codes>>
      PROVE  UNCHANGED Content
  <2>1. ASSUME NEW k PROVE k \in Held' <=> k \in Held
    <3>1. (\A t \in Writers' : row'[t].label # k) <=> (\A t \in Writers : row[t].label # k)
      BY Zenon, <1>d
    <3> QED BY Zenon, <1>d, <3>1, HeldMember, HeldAfter
  <2>2. Held' = Held
    BY Zenon, <2>1
  <2> QED BY Zenon, <1>d, <2>2, ContentKept
<1>1. ASSUME NEW t \in Thread, NEW l \in Label, NEW v \in Vec, Add(t, l, v)
      PROVE  UNCHANGED Content
  <2>1. PICK r : row' = [row EXCEPT ![t] = r]
    BY Zenon, <1>1 DEF Add
  <2>2. pc' = [pc EXCEPT ![t] = "claim"] /\ pc[t] = "idle" /\ UNCHANGED <<labels, codes>>
    BY Zenon, <1>1 DEF Add, IsIdle
  <2>3. Writers' = Writers /\ \A u \in Writers : row'[u] = row[u]
    BY Zenon, <1>0, <2>1, <2>2 DEF Writers
  <2> QED BY Zenon, <1>d, <2>2, <2>3
<1>2. ASSUME NEW t \in Thread, ClaimFails(t) PROVE UNCHANGED Content
  <2>1. /\ row' = [row EXCEPT ![t] = NoRow] /\ pc' = [pc EXCEPT ![t] = "idle"] /\ pc[t] = "claim"
        /\ UNCHANGED <<labels, codes>>
    BY Zenon, <1>2 DEF ClaimFails
  <2>2. Writers' = Writers /\ \A u \in Writers : row'[u] = row[u]
    BY Zenon, <1>0, <2>1 DEF Writers
  <2> QED BY Zenon, <1>d, <2>1, <2>2
<1>3. ASSUME NEW t \in Thread, claim_slot(t) PROVE UNCHANGED Content
  <2>1. PICK n, l : n = total_count /\ l = row[t].label
    BY Zenon
  <2>2. /\ l \notin DOMAIN labels.remap /\ labels'.remap = InsertOrAssign(labels.remap, l, n)
        /\ \A k : CheckLabel(labels', k) <=> k = l \/ CheckLabel(labels, k)
    BY Zenon, <1>0, <1>3, <2>1, Claimed
  <2>3. \A k \in DOMAIN labels.remap : labels'.remap[k] = labels.remap[k]
    BY Zenon, <2>2 DEF InsertOrAssign
  <2>4. \A u \in Thread : row'[u].label = row[u].label
    BY Zenon, <1>0, <1>3, RowsAfterClaim
  <2>5. pc' = [pc EXCEPT ![t] = "write"] /\ pc[t] = "claim" /\ codes' = codes
    BY Zenon, <1>3 DEF claim_slot
  <2>6. Writers' = Writers \cup {t} /\ Writers \subseteq Thread
    BY Zenon, <1>0, <2>5 DEF Writers
  <2>7. \A u \in Writers' : row'[u].label = row[u].label
    BY Zenon, <2>4, <2>6
  <2>8. ASSUME NEW k PROVE k \in Held' <=> k \in Held
    <3>1. CASE k = l
      <4>1. k \notin Held'
        BY Zenon, <2>1, <2>6, <2>7, <3>1, HeldAfter
      <4>2. k \notin Held
        BY Zenon, <1>c, <2>2, <3>1
      <4> QED BY Zenon, <4>1, <4>2
    <3>2. CASE k # l
      <4>1. CheckLabel(labels', k) <=> CheckLabel(labels, k)
        BY Zenon, <2>2, <3>2
      <4>2. (\A u \in Writers' : row'[u].label # k) <=> (\A u \in Writers : row[u].label # k)
        BY Zenon, <2>1, <2>6, <2>7, <3>2
      <4> QED BY Zenon, <4>1, <4>2, HeldMember, HeldAfter
    <3> QED BY Zenon, <3>1, <3>2
  <2>9. Held' = Held
    BY Zenon, <2>8
  <2> QED BY Zenon, <1>c, <2>3, <2>5, <2>9, ContentKept
<1>4. ASSUME NEW t \in Thread, BeginWrite(t) PROVE UNCHANGED Content
  <2>1. /\ pc' = [pc EXCEPT ![t] = "writing"] /\ pc[t] = "write" /\ UNCHANGED <<row, labels, codes>>
    BY Zenon, <1>4 DEF BeginWrite
  <2>2. Writers' = Writers
    BY Zenon, <1>0, <2>1 DEF Writers
  <2> QED BY Zenon, <1>d, <2>1, <2>2
<1>5. ASSUME NEW t \in Thread, EndWrite(t) PROVE Abs
  <2>1. /\ row' = [row EXCEPT ![t] = NoRow] /\ pc' = [pc EXCEPT ![t] = "idle"] /\ pc[t] = "writing"
        /\ labels' = labels /\ codes' = [codes EXCEPT ![row[t].id] = row[t].vec]
    BY Zenon, <1>5 DEF EndWrite, WriterInv
  <2>2. PICK l, v, id : l = row[t].label /\ v = row[t].vec /\ id = row[t].id
    BY Zenon
  <2>3. l \in Label /\ v \in Vec
    BY Zenon, <1>0, <2>1, <2>2 DEF Types
  <2>4. Writers' = Writers \ {t} /\ t \in Writers /\ Writers \subseteq Thread
    BY Zenon, <1>0, <2>1 DEF Writers
  <2>5. \A u \in Writers' : row'[u] = row[u] /\ row[u].label # l
    <3>1. \A u \in Writers' : u # t /\ u \in Writers /\ u \in Thread
      BY Zenon, <2>4
    <3>2. \A u \in Writers' : row'[u] = row[u]
      BY Zenon, <1>0, <2>1, <3>1
    <3> QED BY Zenon, <2>2, <2>4, <3>1, <3>2 DEF WriterInv
  <2>6. l \in DOMAIN labels.remap /\ labels.remap[l] = id /\ CheckLabel(labels, l)
    BY Zenon, <2>2, <2>4 DEF WriterInv, CheckLabel
  <2>7. id \in InnerId
    BY Zenon, <1>b, <2>6
  <2>8. l \notin Held
    BY Zenon, <2>2, <2>4, HeldMember
  <2>9. ASSUME NEW k PROVE k \in Held' <=> k \in Held \cup {l}
    <3>1. CASE k = l
      <4>1. \A u \in Writers' : row'[u].label # k
        BY Zenon, <2>5, <3>1
      <4> QED BY Zenon, <2>1, <2>3, <2>6, <3>1, <4>1, HeldAfter
    <3>2. CASE k # l
      <4>1. (\A u \in Writers' : row'[u].label # k) <=> (\A u \in Writers : row[u].label # k)
        BY Zenon, <2>2, <2>4, <2>5, <3>2
      <4> QED BY Zenon, <2>1, <3>2, <4>1, HeldMember, HeldAfter
    <3> QED BY Zenon, <3>1, <3>2
  <2>10. Held' = Held \cup {l}
    BY Zenon, <2>9
  <2>11. codes'[labels'.remap[l]] = v
    BY Zenon, <1>a, <2>1, <2>2, <2>6, <2>7
  <2>12. ASSUME NEW k \in Held PROVE codes'[labels'.remap[k]] = codes[labels.remap[k]]
    <3>1. k \in DOMAIN labels.remap /\ labels.remap[k] \in InnerId /\ k # l
      BY Zenon, <1>c, <2>8
    <3>2. labels.remap[k] # id
      BY Zenon, <1>0, <2>6, <3>1, NamesDiffer
    <3> QED BY Zenon, <1>a, <2>1, <2>2, <3>1, <3>2
  <2> QED BY Zenon, <2>3, <2>8, <2>10, <2>11, <2>12, ContentAdded
<1>e. ASSUME Writers = {}, UNCHANGED <<pc, row>>
      PROVE  /\ \A k : k \in Held <=> k \in Label /\ CheckLabel(labels, k)
             /\ \A k : k \in Held' <=> k \in Label /\ CheckLabel(labels', k)
  <2>1. Writers' = {}
    BY Zenon, <1>e DEF Writers
  <2> QED BY Zenon, <1>e, <2>1, HeldMember, HeldAfter
<1>6. ASSUME NEW l \in Label, MarkRemoveOne(l) PROVE Abs \/ UNCHANGED Content
  <2>1. Writers = {} /\ UNCHANGED <<pc, row, codes>>
    BY Zenon, <1>6 DEF MarkRemoveOne, Allowed
  <2>2. /\ labels'.remap = labels.remap
        /\ \A k : CheckLabel(labels', k) <=> k # l /\ CheckLabel(labels, k)
    BY Zenon, <1>0, <1>6, Marked
  <2>3. Held' = Held \ {l}
    BY Zenon, <1>e, <2>1, <2>2
  <2> QED BY Zenon, <2>1, <2>2, <2>3, ContentRemoved
<1>7. ASSUME NEW l \in Label, ForceRemoveOne(l) PROVE Abs \/ UNCHANGED Content
  <2>1. Writers = {} /\ UNCHANGED <<pc, row>>
    BY Zenon, <1>7 DEF ForceRemoveOne, Allowed
  <2>2. PICK last, id : last = total_count - 1 /\ id = labels.remap[l]
    BY Zenon
  <2>3. \A k : CheckLabel(labels', k) <=> k # l /\ CheckLabel(labels, k)
    BY Zenon, <1>0, <1>7, ForceRemoved
  <2>4. /\ l \in DOMAIN labels.remap
        /\ \A k \in DOMAIN labels.remap \ {l} :
             labels'.remap[k] = IF labels.remap[k] = last THEN id ELSE labels.remap[k]
        /\ codes' = [codes EXCEPT ![id] = codes[last]]
    BY Zenon, <1>0, <1>7, <2>2, ForceRemoved
  <2>5. id \in InnerId
    BY Zenon, <1>0, <1>a, <2>2, <2>4 DEF TableInv, Agrees, Shape
  <2>6. Held' = Held \ {l}
    BY Zenon, <1>e, <2>1, <2>3
  <2>7. ASSUME NEW k \in Held \ {l} PROVE codes'[labels'.remap[k]] = codes[labels.remap[k]]
    <3>1. k \in DOMAIN labels.remap /\ labels.remap[k] \in InnerId /\ k # l
      BY Zenon, <1>c
    <3>2. labels.remap[k] # id
      BY Zenon, <1>0, <2>2, <2>4, <3>1, NamesDiffer
    <3>3. CASE labels.remap[k] = last
      BY Zenon, <1>a, <2>4, <2>5, <3>1, <3>3
    <3>4. CASE labels.remap[k] # last
      BY Zenon, <1>a, <2>4, <3>1, <3>2, <3>4
    <3> QED BY Zenon, <3>3, <3>4
  <2> QED BY Zenon, <2>6, <2>7, ContentRemoved
<1>8. ASSUME NEW l \in Label, NEW v \in Vec, UpdateVector(l, v) PROVE Abs
  <2>1. Writers = {} /\ UNCHANGED <<pc, row, labels>> /\ CheckLabel(labels, l)
    BY Zenon, <1>8 DEF UpdateVector, Allowed
  <2>2. l \in DOMAIN labels.remap /\ labels.remap[l] \in InnerId
    BY Zenon, <1>b, <2>1
  <2>3. codes' = [codes EXCEPT ![labels.remap[l]] = v]
    BY Zenon, <1>8, <2>1, <2>2 DEF UpdateVector, TryGetIdByLabel, Find, CheckLabel
  <2>4. Held' = Held /\ l \in Held
    BY Zenon, <1>e, <2>1
  <2>5. codes'[labels'.remap[l]] = v
    BY Zenon, <1>a, <2>1, <2>2, <2>3
  <2>6. ASSUME NEW k \in Held \ {l} PROVE codes'[labels'.remap[k]] = codes[labels.remap[k]]
    <3>1. k \in DOMAIN labels.remap /\ labels.remap[k] \in InnerId /\ k # l
      BY Zenon, <1>c
    <3>2. labels.remap[k] # labels.remap[l]
      BY Zenon, <1>0, <2>2, <3>1, NamesDiffer
    <3> QED BY Zenon, <1>a, <2>1, <2>3, <3>1, <3>2
  <2> QED BY Zenon, <2>4, <2>5, <2>6, ContentRewritten
<1>f. ASSUME \A t \in Thread : IsIdle(t) PROVE Writers = {}
  BY Zenon, <1>f DEF Writers, IsIdle
<1>9. ASSUME NEW old \in Label, NEW new \in Label, UpdateId(old, new)
      PROVE  Abs \/ UNCHANGED Content
  <2>1. Writers = {} /\ UNCHANGED <<pc, row, codes>>
    BY Zenon, <1>9, <1>f DEF UpdateId
  <2>2. /\ labels'.deleted = labels.deleted
        /\ \/ labels'.remap = labels.remap
           \/ /\ old \in DOMAIN labels.remap /\ new \notin DOMAIN labels.remap /\ old # new
              /\ labels'.remap = InsertOrAssign(Erase(labels.remap, old), new, labels.remap[old])
    BY Zenon, <1>0, <1>9, Renamed
  <2>3. CASE labels'.remap = labels.remap
    <3>1. \A k : CheckLabel(labels', k) <=> CheckLabel(labels, k)
      BY Zenon, <2>2, <2>3 DEF CheckLabel
    <3>2. Held' = Held
      BY Zenon, <1>e, <2>1, <3>1
    <3> QED BY Zenon, <2>1, <2>3, <3>2, ContentKept
  <2>4. CASE /\ old \in DOMAIN labels.remap /\ new \notin DOMAIN labels.remap /\ old # new
             /\ labels'.remap = InsertOrAssign(Erase(labels.remap, old), new, labels.remap[old])
    <3>1. /\ DOMAIN labels'.remap = (DOMAIN labels.remap \ {old}) \cup {new}
          /\ labels'.remap[new] = labels.remap[old]
          /\ \A k \in DOMAIN labels.remap \ {old} : labels'.remap[k] = labels.remap[k]
      BY SMT, <2>4 DEF InsertOrAssign, Erase
    <3>2. CheckLabel(labels', new) <=> CheckLabel(labels, old)
      BY Zenon, <2>2, <2>4, <3>1 DEF CheckLabel
    <3>3. \A k : k # new => (CheckLabel(labels', k) <=> k # old /\ CheckLabel(labels, k))
      BY Zenon, <2>2, <2>4, <3>1 DEF CheckLabel
    <3>4. \A k \in Held \ {old} : codes'[labels'.remap[k]] = codes[labels.remap[k]]
      BY Zenon, <1>c, <2>1, <3>1
    <3>5. new \notin Held
      BY Zenon, <1>c, <2>4
    <3>6. CASE CheckLabel(labels, old)
      <4>1. old \in Held
        BY Zenon, <1>e, <2>1, <3>6
      <4>2. Held' = (Held \ {old}) \cup {new}
        BY Zenon, <1>e, <2>1, <3>2, <3>3, <3>6
      <4>3. codes'[labels'.remap[new]] = codes[labels.remap[old]]
        BY Zenon, <2>1, <3>1
      <4> QED BY Zenon, <3>4, <3>5, <4>1, <4>2, <4>3, ContentRenamed
    <3>7. CASE ~CheckLabel(labels, old)
      <4>1. old \notin Held
        BY Zenon, <1>e, <2>1, <3>7
      <4>2. Held' = Held
        BY Zenon, <1>e, <2>1, <3>2, <3>3, <3>5, <3>7, <4>1
      <4> QED BY Zenon, <3>4, <4>1, <4>2, ContentKept
    <3> QED BY Zenon, <3>6, <3>7
  <2> QED BY Zenon, <2>2, <2>3, <2>4
<1>10. ASSUME Clone PROVE UNCHANGED Content
  <2>1. Writers = {} /\ UNCHANGED <<pc, row, codes>>
    BY Zenon, <1>10, <1>f DEF Clone
  <2>2. labels' = labels
    BY Zenon, <1>0, <1>10, Cloned
  <2>3. Held' = Held
    BY Zenon, <1>e, <2>1, <2>2
  <2> QED BY Zenon, <2>1, <2>2, <2>3, ContentKept
<1>11. ASSUME UNCHANGED vars PROVE UNCHANGED Content
  <2>1. UNCHANGED <<pc, row, labels, codes>>
    BY Zenon, <1>11 DEF vars
  <2>2. Writers' = Writers
    BY Zenon, <2>1 DEF Writers
  <2> QED BY Zenon, <1>d, <2>1, <2>2
<1> QED BY Zenon, <1>1, <1>2, <1>3, <1>4, <1>5, <1>6, <1>7, <1>8, <1>9, <1>10, <1>11 DEF Next

(* The array is a map from labels to vectors to its callers: although Remove moves the last   *)
(* element into the freed slot and Adds write without a lock, every operation changes the    *)
(* element it names and no other, and a clone holds what its source holds.                 *)
THEOREM ArrayImplementsVectorIndex ==
  ASSUME Overlap = {}, ~ReAdd, CloneWhen # "no_tombstones"
  PROVE  Spec => ImplementsVectorIndex
<1>1. Init => Abstract!Init
  <2> SUFFICES ASSUME Init PROVE Content = [l \in {} |-> CHOOSE v \in Vec : TRUE]
    BY Zenon DEF Abstract!Init
  <2>1. \A k : k \notin Held
    <3>1. DOMAIN labels.remap = {}
      BY DEF Init, EmptyLabelTable
    <3> QED BY Zenon, <3>1, HeldMember DEF CheckLabel
  <2>2. Held = {}
    BY Zenon, <2>1
  <2> QED BY SMT, <2>2, ContentMembers
<1>2. IInv /\ WriterInv /\ [Next]_vars => Abs \/ UNCHANGED Content
  BY Zenon, RefinementStep
<1>3. Abs \/ UNCHANGED Content => [Abstract!Next \/ Abstract!Rewrite]_Content
  BY Zenon DEF Abs
<1>4. Spec => [](IInv /\ WriterInv)
  BY WriterAlways
<1> QED BY <1>1, <1>2, <1>3, <1>4, PTL DEF Spec, ImplementsVectorIndex, Abstract!SpecWithUpdates

=============================================================================
