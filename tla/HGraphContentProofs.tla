------------------------- MODULE HGraphContentProofs -------------------------
(***************************************************************************)
(* Two halves of the proofs about HGraph.                                      *)
(*                                                                         *)
(* The labels, counters and codes for any labels, vectors and sizes, as long as    *)
(* a caller removes in one of the two modes and clones an index from which        *)
(* nothing is removed.                                                       *)
(*                                                                         *)
(* What the graph operations keep, for any number of ids and any degrees:         *)
(* publishing a new node, taking one out of the lists and moving the last one to   *)
(* its place leave a graph whose reverse edges are exact, whose lists are within   *)
(* their degree and in which nobody points to what is gone.                      *)
(***************************************************************************)
EXTENDS HGraph, LabelTableProofs


(* The callers the results are about. *)
OneMode ==
  \A u \in Uses : u.removes # {"MARK_REMOVE", "FORCE_REMOVE"} /\ u.clones # "always"

(* label_table_ is an array, no longer than the capacity for MaxIds elements. *)
TableSpan(t) == \E m \in 0 .. RoundUp(MaxIds) : DOMAIN t.table = Ids(m)

Counters ==
  /\ use \in Uses
  /\ total_count \in 0 .. MaxIds
  /\ code_count \in 0 .. MaxIds
  /\ max_capacity \in 0 .. RoundUp(MaxIds)
  /\ TableSpan(labels)

(* Every element that is not a tombstone is found under its label, and where elements *)
(* are removed physically there are no tombstones.                               *)
TableInv ==
  /\ Agrees(labels, total_count, Ids(total_count) \ labels.deleted)
  /\ delete_count = Cardinality(labels.deleted)
  /\ "FORCE_REMOVE" \in use.removes => labels.deleted = {}

CodesInv ==
  /\ codes \in [InnerId -> Vec \cup {NoVec}]
  /\ \A i \in Ids(total_count) : codes[i] \in Vec

LabelInv == Counters /\ TableInv /\ CodesInv

-----------------------------------------------------------------------------
(* The capacities an index of at most MaxIds elements reaches. *)
LEMMA CapacityBounds ==
  ASSUME NEW n \in 0 .. MaxIds
  PROVE  /\ RoundUp(n) \in 0 .. RoundUp(MaxIds) /\ RoundUp(n) >= n /\ RoundUp(n) \in Nat
         /\ n \in 0 .. RoundUp(MaxIds) /\ n \in Nat /\ Ids(n) \subseteq InnerId
<1>1. /\ RoundUp(n) \in Nat /\ RoundUp(n) >= n
      /\ RoundUp(MaxIds) \in Nat /\ RoundUp(MaxIds) >= MaxIds
  BY MaxIdsIsPositive, ResizeStepIsPositive, DivisionCovers DEF RoundUp
<1>2. RoundUp(n) <= RoundUp(MaxIds)
  <2>1. /\ n + ResizeStep - 1 \in Nat /\ MaxIds + ResizeStep - 1 \in Nat
        /\ n + ResizeStep - 1 <= MaxIds + ResizeStep - 1
    BY MaxIdsIsPositive, ResizeStepIsPositive
  <2> QED BY <2>1, MaxIdsIsPositive, ResizeStepIsPositive, DivisionMonotone DEF RoundUp
<1> QED BY <1>1, <1>2, MaxIdsIsPositive DEF Ids, InnerId

(* The elements that are not tombstones are elements. *)
LEMMA TableFacts ==
  ASSUME LabelInv
  PROVE  /\ total_count \in Nat /\ Ids(total_count) \subseteq InnerId
         /\ Ids(total_count) \ labels.deleted \in SUBSET Ids(total_count)
         /\ IsFiniteSet(labels.deleted) /\ Cardinality(labels.deleted) \in Nat
         /\ IsTable(labels) /\ labels.count = total_count
         /\ Names(labels) /\ labels.deleted \subseteq Ids(total_count)
         /\ \A l \in DOMAIN labels.remap : l \in Label /\ labels.remap[l] \in Ids(total_count)
         /\ LiveId = Ids(total_count)
<1>1. total_count \in Nat /\ Ids(total_count) \subseteq InnerId
  BY Zenon, CapacityBounds DEF LabelInv, Counters
<1>2. /\ IsTable(labels) /\ labels.count = total_count /\ Names(labels)
      /\ labels.deleted \subseteq Ids(total_count)
      /\ \A l \in DOMAIN labels.remap : l \in Label /\ labels.remap[l] \in Ids(total_count)
  BY Zenon DEF LabelInv, TableInv, Agrees, Shape
<1>3. IsFiniteSet(labels.deleted)
  <2>1. IsFiniteSet(Ids(total_count)) /\ labels.deleted \in SUBSET Ids(total_count)
    BY Zenon, <1>1, <1>2, IdsCount
  <2> QED BY Zenon, <2>1, FS_Subset
<1>4. Cardinality(labels.deleted) \in Nat
  BY Zenon, <1>3, FS_CardinalityType
<1> QED BY Zenon, <1>1, <1>2, <1>3, <1>4 DEF LiveId, Ids

(* No element that is found has a label that no lookup finds. *)
LEMMA FreeLabel ==
  ASSUME LabelInv, NEW l, ~CheckLabel(labels, l)
  PROVE  \A i \in Ids(total_count) \ labels.deleted : labels.table[i] # l
  BY Zenon DEF LabelInv, TableInv, Agrees, Resolves, CheckLabel

(* Insert keeps label_table_ an array, however long it was. *)
LEMMA InsertSpan ==
  ASSUME NEW t, NEW n \in 0 .. MaxIds - 1, NEW l, TableSpan(t)
  PROVE  TableSpan(Insert(t, n, l))
<1>1. PICK T : T = IF n + 1 > TableSize(t) THEN ResizeVector(t.table, n + 1) ELSE t.table
  BY Zenon
<1>2. DOMAIN Insert(t, n, l).table = DOMAIN T
  BY Zenon, <1>1 DEF Insert
<1>3. n + 1 \in 0 .. MaxIds
  BY MaxIdsIsPositive
<1>4. n + 1 \in 0 .. RoundUp(MaxIds)
  BY Zenon, <1>3, CapacityBounds
<1>5. DOMAIN ResizeVector(t.table, n + 1) = Ids(n + 1)
  BY Zenon DEF ResizeVector, Ids
<1> QED BY Zenon, <1>1, <1>2, <1>4, <1>5 DEF TableSpan

-----------------------------------------------------------------------------
(* What the operations make of the label table. *)

(* Add inserts a label that no lookup finds, into an array that is long enough. *)
LEMMA Added ==
  ASSUME LabelInv, NEW l \in Label, NEW v \in Vec, NEW level, Add(l, v, level)
  PROVE  /\ total_count \in InnerId /\ total_count + 1 \in 0 .. MaxIds
         /\ Agrees(labels', total_count + 1, Ids(total_count + 1) \ labels.deleted)
         /\ labels'.deleted = labels.deleted /\ TableSpan(labels')
         /\ labels'.remap = InsertOrAssign(labels.remap, l, total_count)
         /\ ~CheckLabel(labels, l)
         /\ \A k : CheckLabel(labels', k) <=> k = l \/ CheckLabel(labels, k)
<1>1. PICK n, S, size : n = total_count /\ S = Ids(n) \ labels.deleted /\ size = RoundUp(n + 1)
  BY Zenon
<1>2. n \in Nat /\ n \in InnerId /\ n \in 0 .. MaxIds - 1 /\ n + 1 \in 0 .. MaxIds
  <2>1. n < MaxIds /\ n \in 0 .. MaxIds
    BY Zenon, <1>1 DEF Add, LabelInv, Counters
  <2> QED BY <2>1, MaxIdsIsPositive DEF InnerId
<1>3. size \in 0 .. RoundUp(MaxIds) /\ size \in Nat /\ n <= size /\ ~(size < n)
  <2>1. size \in 0 .. RoundUp(MaxIds) /\ size >= n + 1 /\ size \in Nat
    BY Zenon, <1>1, <1>2, CapacityBounds
  <2> QED BY <1>2, <2>1
<1>4. ~CheckLabel(labels, l)
  <2>1. TryGetIdByLabel(labels, l, FALSE) = INVALID_ID
    BY Zenon DEF Add
  <2>2. l \in DOMAIN labels.remap => labels.remap[l] # INVALID_ID
    BY TableFacts DEF Ids, INVALID_ID
  <2> QED BY Zenon, <2>1, <2>2 DEF TryGetIdByLabel, Find, CheckLabel
<1>5. S \in SUBSET Ids(n) /\ Agrees(labels, n, S) /\ IsTable(labels) /\ labels.count = n
  BY Zenon, <1>1, TableFacts DEF LabelInv, TableInv
<1>6. \A i \in S : labels.table[i] # l
  BY Zenon, <1>1, <1>4, FreeLabel
<1>7. PICK b : b = IF max_capacity < size THEN Resize(labels, size) ELSE labels
  BY Zenon
<1>8. /\ Agrees(b, n, S) /\ b.remap = labels.remap /\ b.deleted = labels.deleted /\ TableSpan(b)
      /\ \A i \in S : b.table[i] = labels.table[i]
  <2>1. CASE ~(max_capacity < size)
    BY Zenon, <1>5, <1>7, <2>1 DEF LabelInv, Counters
  <2>2. CASE max_capacity < size
    <3>1. PICK T : T = ResizeVector(labels.table, size)
      BY Zenon
    <3>2. b = [labels EXCEPT !.table = T]
      BY Zenon, <1>3, <1>5, <1>7, <2>2, <3>1 DEF Resize
    <3>3. b = [table |-> T, remap |-> labels.remap, deleted |-> labels.deleted, count |-> labels.count]
      BY Zenon, <1>5, <3>2, Replaced
    <3>4. b.table = T /\ b.remap = labels.remap /\ b.deleted = labels.deleted
      BY SMT, <3>3
    <3>5. /\ Agrees([labels EXCEPT !.table = ResizeVector(labels.table, size)], n, S)
          /\ ResizeVector(labels.table, size) \in [Ids(size) -> Label]
          /\ \A i \in Ids(n) : ResizeVector(labels.table, size)[i] = labels.table[i]
      BY SMT, <1>2, <1>3, <1>5, ResizeAgrees
    <3>6. DOMAIN T = Ids(size)
      BY Zenon, <3>1, <3>5
    <3> QED BY Zenon, <1>3, <1>5, <3>1, <3>2, <3>4, <3>5, <3>6 DEF TableSpan
  <2> QED BY Zenon, <2>1, <2>2
<1>9. labels' = Insert(b, n, l)
  BY Zenon, <1>1, <1>7 DEF Add
<1>10. \A i \in S : b.table[i] # l
  BY Zenon, <1>6, <1>8
<1>a. n \in Nat /\ S \in SUBSET Ids(n) /\ Agrees(b, n, S)
  BY Zenon, <1>2, <1>5, <1>8
<1>11. /\ Agrees(Insert(b, n, l), n + 1, S \cup {n})
       /\ Insert(b, n, l).remap = InsertOrAssign(b.remap, l, n)
       /\ Insert(b, n, l).deleted = b.deleted
  BY Zenon, <1>a, <1>10, InsertAgrees
<1>12. \A k : CheckLabel(Insert(b, n, l), k) <=> k = l \/ CheckLabel(b, k)
  <2>1. ChecksAlso(Insert(b, n, l), b, l)
    BY Zenon, <1>a, <1>10, InsertChecks
  <2> QED BY Zenon, <2>1 DEF ChecksAlso
<1>13. \A k : CheckLabel(b, k) <=> CheckLabel(labels, k)
  BY Zenon, <1>8 DEF CheckLabel
<1>14. Ids(n + 1) \ labels.deleted = S \cup {n}
  <2>1. Ids(n + 1) = Ids(n) \cup {n} /\ n \notin Ids(n)
    BY <1>2 DEF Ids
  <2>2. n \notin labels.deleted
    BY Zenon, <1>1, <2>1, TableFacts
  <2> QED BY Zenon, <1>1, <2>1, <2>2
<1>15. TableSpan(labels')
  BY Zenon, <1>2, <1>8, <1>9, InsertSpan
<1> QED BY Zenon, <1>1, <1>2, <1>4, <1>8, <1>9, <1>11, <1>12, <1>13, <1>14, <1>15

(* MarkRemove turns one element into a tombstone, or does nothing. *)
LEMMA Marked ==
  ASSUME LabelInv, NEW l \in Label, RemoveMark(l)
  PROVE  /\ Agrees(labels', total_count, Ids(total_count) \ labels'.deleted)
         /\ labels'.remap = labels.remap /\ TableSpan(labels')
         /\ delete_count' = Cardinality(labels'.deleted)
         /\ \A k : CheckLabel(labels', k) <=> k # l /\ CheckLabel(labels, k)
<1>1. PICK n, D, S : n = total_count /\ D = labels.deleted /\ S = Ids(n) \ D
  BY Zenon
<1>2. /\ n \in Nat /\ S \in SUBSET Ids(n) /\ Agrees(labels, n, S)
  BY Zenon, <1>1, TableFacts DEF LabelInv, TableInv
<1>3. IsFiniteSet(D) /\ Cardinality(D) \in Nat
  BY Zenon, <1>1, TableFacts
<1>4. PICK r : r = MarkRemove(labels, {l}) /\ labels' = r
  BY Zenon DEF RemoveMark
<1>5. /\ Agrees(r, n, S) /\ r.remap = labels.remap /\ r.table = labels.table
      /\ r.deleted = D \cup (IF l \in DOMAIN labels.remap THEN {labels.remap[l]} ELSE {})
  BY Zenon, <1>1, <1>2, <1>4, MarkRemoveAgrees
<1>6. \A k : CheckLabel(r, k) <=> k # l /\ CheckLabel(labels, k)
  BY Zenon, <1>2, <1>4, MarkRemoveChecks
<1>7. Agrees(r, n, Ids(n) \ r.deleted)
  <2>1. Ids(n) \ r.deleted \subseteq S
    BY Zenon, <1>1, <1>5
  <2> QED BY Zenon, <1>5, <2>1, AgreesOnFewer
<1>8. TableSpan(r)
  BY Zenon, <1>5 DEF LabelInv, Counters, TableSpan
<1>9. delete_count' = Cardinality(r.deleted)
  <2>1. delete_count' = Cardinality(D) + Cardinality(NewlyRemoved(labels, {l}))
    BY Zenon, <1>1 DEF RemoveMark, CountedRemoved, LabelInv, TableInv
  <2>2. CASE l \notin DOMAIN labels.remap
    <3>1. NewlyRemoved(labels, {l}) = {}
      BY SMT, <2>2 DEF NewlyRemoved
    <3>2. r.deleted = D /\ Cardinality(NewlyRemoved(labels, {l})) = 0
      BY Zenon, <1>5, <2>2, <3>1, FS_EmptySet
    <3> QED BY SMT, <1>3, <2>1, <3>2
  <2>3. CASE l \in DOMAIN labels.remap
    <3>1. PICK id : id = labels.remap[l]
      BY Zenon
    <3>2. NewlyRemoved(labels, {l}) = {id} \ D
      BY SMT, <1>1, <2>3, <3>1 DEF NewlyRemoved
    <3>3. Cardinality(D \cup {id}) = IF id \in D THEN Cardinality(D) ELSE Cardinality(D) + 1
      BY Zenon, <1>3, FS_AddElement
    <3>4. r.deleted = D \cup {id}
      BY Zenon, <1>5, <2>3, <3>1
    <3>5. CASE id \in D
      <4>1. {id} \ D = {}
        BY Zenon, <3>5
      <4>2. Cardinality({id} \ D) = 0
        BY Zenon, <4>1, FS_EmptySet
      <4> QED BY SMT, <1>3, <2>1, <3>2, <3>3, <3>4, <3>5, <4>2
    <3>6. CASE id \notin D
      <4>1. {id} \ D = {id}
        BY Zenon, <3>6
      <4>2. Cardinality({id} \ D) = 1
        BY Zenon, <4>1, FS_Singleton
      <4> QED BY Zenon, <2>1, <3>2, <3>3, <3>4, <3>6, <4>2
    <3> QED BY Zenon, <3>5, <3>6
  <2> QED BY Zenon, <2>2, <2>3
<1> QED BY Zenon, <1>1, <1>4, <1>5, <1>6, <1>7, <1>8, <1>9

(* A physical removal takes out one element and gives the last one its id. *)
LEMMA ForceRemoved ==
  ASSUME LabelInv, NEW l \in Label, RemoveForce(l)
  PROVE  /\ l \in DOMAIN labels.remap /\ TryGetIdByLabel(labels, l, TRUE) = labels.remap[l]
         /\ total_count - 1 \in 0 .. MaxIds /\ total_count' = total_count - 1
         /\ labels.remap[l] \in Ids(total_count) /\ total_count - 1 \in Ids(total_count)
         /\ Agrees(labels', total_count - 1, Ids(total_count - 1)) /\ TableSpan(labels')
         /\ labels.deleted = {} /\ labels'.deleted = {} /\ delete_count' = delete_count
         /\ \A k : CheckLabel(labels', k) <=> k # l /\ CheckLabel(labels, k)
         /\ \A k \in DOMAIN labels.remap \ {l} :
              labels'.remap[k] = IF labels.remap[k] = total_count - 1 THEN labels.remap[l]
                                 ELSE labels.remap[k]
         /\ codes' = [codes EXCEPT ![labels.remap[l]] = codes[total_count - 1]]
<1>1. PICK n, id, last : n = total_count /\ id = labels.remap[l] /\ last = n - 1
  BY Zenon
<1>2. labels.deleted = {}
  BY Zenon DEF RemoveForce, LabelInv, TableInv
<1>3. n \in Nat /\ Agrees(labels, n, Ids(n))
  <2>1. Ids(n) \ labels.deleted = Ids(n)
    BY Zenon, <1>2
  <2> QED BY Zenon, <1>1, <2>1, TableFacts DEF LabelInv, TableInv
<1>4. l \in DOMAIN labels.remap /\ TryGetIdByLabel(labels, l, TRUE) = id
  <2>1. TryGetIdByLabel(labels, l, TRUE) # INVALID_ID
    BY Zenon DEF RemoveForce
  <2> QED BY Zenon, <1>1, <2>1 DEF TryGetIdByLabel, Find
<1>5. id \in Ids(n) /\ last \in Ids(n)
  <2>1. id \in Ids(n)
    BY Zenon, <1>1, <1>4, TableFacts
  <2> QED BY <1>1, <1>3, <2>1 DEF Ids
<1>6. PICK r : r = Removed(labels, n, l)
  BY Zenon
<1>7. last \in Nat /\ Agrees(r, last, Ids(last))
  BY Zenon, <1>1, <1>3, <1>4, <1>6, RemovedAgrees
<1>8. labels' = [r EXCEPT !.table = ResizeVector(r.table, last)]
  <2>1. labels' = ShrinkToFit(Move(ForceRemove(labels, l, TryGetIdByLabel(labels, l, TRUE)),
                                   total_count - 1, TryGetIdByLabel(labels, l, TRUE)),
                              total_count - 1)
    BY Zenon DEF RemoveForce
  <2>2. labels' = ShrinkToFit(r, last)
    BY Zenon, <1>1, <1>4, <1>6, <2>1 DEF Removed
  <2> QED BY Zenon, <2>2 DEF ShrinkToFit
<1>9. last \in 0 .. MaxIds
  <2>1. n \in 0 .. MaxIds
    BY Zenon, <1>1 DEF LabelInv, Counters
  <2> QED BY <1>1, <1>7, <2>1, MaxIdsIsPositive
<1>10. /\ Agrees(labels', last, Ids(last)) /\ TableSpan(labels')
       /\ labels'.remap = r.remap /\ labels'.deleted = r.deleted
  <2>1. last <= last /\ Ids(last) \in SUBSET Ids(last) /\ IsTable(r)
    BY <1>7 DEF Agrees, Shape
  <2>2. PICK T, u : T = ResizeVector(r.table, last) /\ u = labels'
    BY Zenon
  <2>3. Agrees(u, last, Ids(last)) /\ T \in [Ids(last) -> Label]
    BY Zenon, <1>7, <1>8, <2>1, <2>2, ResizeAgrees
  <2>4. u = [table |-> T, remap |-> r.remap, deleted |-> r.deleted, count |-> r.count]
    BY Zenon, <1>8, <2>1, <2>2, Replaced
  <2>5. u.table = T /\ u.remap = r.remap /\ u.deleted = r.deleted
    BY SMT, <2>4
  <2>6. last \in 0 .. RoundUp(MaxIds)
    BY Zenon, <1>9, CapacityBounds
  <2>7. TableSpan(u)
    BY Zenon, <2>3, <2>5, <2>6 DEF TableSpan
  <2> QED BY Zenon, <2>2, <2>3, <2>5, <2>7
<1>11. \A k : CheckLabel(labels', k) <=> k # l /\ CheckLabel(labels, k)
  <2>1. \A k : CheckLabel(r, k) <=> k # l /\ CheckLabel(labels, k)
    BY Zenon, <1>3, <1>4, <1>6, RemovedChecks
  <2> QED BY Zenon, <1>10, <2>1 DEF CheckLabel
<1>12. /\ labels'.deleted = {}
       /\ \A k \in DOMAIN labels.remap \ {l} :
            labels'.remap[k] = IF labels.remap[k] = last THEN id ELSE labels.remap[k]
  <2>1. /\ IsTable(r) /\ r.count = last
        /\ r.table = [i \in DOMAIN labels.table |->
                        IF i = id THEN labels.table[last] ELSE labels.table[i]]
        /\ r.remap = [k \in DOMAIN labels.remap \ {l} |->
                        IF labels.remap[k] = last THEN id ELSE labels.remap[k]]
        /\ r.deleted = (labels.deleted \ {id, last}) \cup
                         (IF last \in labels.deleted /\ last # id THEN {id} ELSE {})
    BY SMT, <1>1, <1>3, <1>4, <1>6, RemovedMembers
  <2> QED BY ZenonT(40), <1>2, <1>10, <2>1
<1>13. codes' = [codes EXCEPT ![id] = codes[last]] /\ total_count' = last
       /\ delete_count' = delete_count
  BY Zenon, <1>1, <1>2, <1>4 DEF RemoveForce, CodesMoved
<1> QED BY Zenon, <1>1, <1>2, <1>4, <1>5, <1>9, <1>10, <1>11, <1>12, <1>13

(* UpdateId renames one element, or leaves every lookup as it is. *)
LEMMA Renamed ==
  ASSUME LabelInv, NEW old \in Label, NEW new \in Label, UpdateId(old, new)
  PROVE  /\ Agrees(labels', total_count, Ids(total_count) \ labels.deleted)
         /\ labels'.deleted = labels.deleted /\ TableSpan(labels')
         /\ \/ labels'.remap = labels.remap
            \/ /\ ~CheckLabel(labels, new) /\ old # new
               /\ labels'.remap[new] = labels.remap[old]
               /\ \A k \in DOMAIN labels.remap \ {old, new} : labels'.remap[k] = labels.remap[k]
               /\ \A k : CheckLabel(labels', k) <=> \/ k = new /\ CheckLabel(labels, old)
                                                    \/ k \notin {old, new} /\ CheckLabel(labels, k)
<1>1. PICK n, S : n = total_count /\ S = Ids(n) \ labels.deleted
  BY Zenon
<1>2. n \in Nat /\ S \in SUBSET Ids(n) /\ Agrees(labels, n, S)
  BY Zenon, <1>1, TableFacts DEF LabelInv, TableInv
<1>3. PICK u : u = UpdateLabel(labels, old, new) /\ labels' = u /\ old # new
  BY Zenon DEF UpdateId
<1>4. CheckLabel(labels, new) \/ \A i \in S : labels.table[i] # new
  BY Zenon, <1>1, FreeLabel
<1>5. /\ Agrees(u, n, S) /\ u.deleted = labels.deleted
      /\ DOMAIN u.table = DOMAIN labels.table
      /\ IF CheckLabel(labels, new) \/ old \notin DOMAIN labels.remap
         THEN u.remap = labels.remap
         ELSE u.remap = InsertOrAssign(Erase(labels.remap, old), new, labels.remap[old])
  BY SMT, <1>2, <1>3, <1>4, UpdateLabelAgrees
<1>6. TableSpan(u)
  BY Zenon, <1>5 DEF LabelInv, Counters, TableSpan
<1>7. CASE CheckLabel(labels, new) \/ old \notin DOMAIN labels.remap
  BY Zenon, <1>1, <1>3, <1>5, <1>6, <1>7
<1>8. CASE ~CheckLabel(labels, new) /\ old \in DOMAIN labels.remap
  <2>1. u.remap = InsertOrAssign(Erase(labels.remap, old), new, labels.remap[old])
    BY Zenon, <1>5, <1>8
  <2>2. /\ u.remap[new] = labels.remap[old]
        /\ \A k \in DOMAIN labels.remap \ {old, new} : u.remap[k] = labels.remap[k]
    BY SMT, <2>1 DEF InsertOrAssign, Erase
  <2>3. \A i \in S : labels.table[i] # new
    BY Zenon, <1>4, <1>8
  <2>4. \A k : CheckLabel(u, k) <=> \/ k = new /\ CheckLabel(labels, old)
                                    \/ k \notin {old, new} /\ CheckLabel(labels, k)
    <3>1. old # new /\ ~CheckLabel(labels, new) /\ old \in DOMAIN labels.remap
      BY Zenon, <1>3, <1>8
    <3>2. ASSUME NEW k
          PROVE  CheckLabel(UpdateLabel(labels, old, new), k) <=>
                   \/ k = new /\ CheckLabel(labels, old)
                   \/ k \notin {old, new} /\ CheckLabel(labels, k)
      BY SMT, <1>2, <2>3, <3>1, UpdateLabelChecks
    <3> QED BY Zenon, <1>3, <3>2
  <2> QED BY Zenon, <1>1, <1>3, <1>5, <1>6, <1>8, <2>2, <2>4
<1> QED BY Zenon, <1>7, <1>8

(* An index from which nothing is removed is cloned with its label table. *)
LEMMA Cloned ==
  ASSUME OneMode, LabelInv, Clone
  PROVE  labels' = labels /\ delete_count' = delete_count /\ total_count' = total_count
         /\ delete_count = 0
<1>1. use.clones \in {"never", "nothing_removed", "always"} /\ use.clones # "always"
  BY UsesExist DEF OneMode, LabelInv, Counters, Use
<1>2. use.clones = "nothing_removed"
  BY Zenon, <1>1 DEF Clone
<1>3. delete_count = 0 /\ code_count = total_count
  BY Zenon, <1>2 DEF Clone
<1>4. labels.deleted = {}
  <2>1. IsFiniteSet(labels.deleted) /\ Cardinality(labels.deleted) = 0
    BY Zenon, <1>3, TableFacts DEF LabelInv, TableInv
  <2> QED BY Zenon, <2>1, FS_EmptySet
<1>5. PICK n : n = total_count
  BY Zenon
<1>6. n \in Nat /\ Agrees(labels, n, Ids(n) \ labels.deleted) /\ IsTable(labels) /\ labels.count = n
  BY Zenon, <1>5, TableFacts DEF LabelInv, TableInv
<1>7. Cardinality(DOMAIN labels.remap) = n
  <2>1. {l \in Label : CheckLabel(labels, l)} = DOMAIN labels.remap
    BY Zenon, <1>4, TableFacts DEF CheckLabel
  <2>2. Cardinality({l \in Label : CheckLabel(labels, l)}) = n - Cardinality(labels.deleted)
    BY Zenon, <1>6, FoundCount
  <2>3. Cardinality(labels.deleted) = 0
    BY Zenon, <1>4, FS_EmptySet
  <2>4. Cardinality(DOMAIN labels.remap) = n - 0
    BY Zenon, <2>1, <2>2, <2>3
  <2>5. n - 0 = n
    BY <1>6
  <2> QED BY Zenon, <2>4, <2>5
<1>8. labels' = [table |-> labels.table, remap |-> labels.remap, deleted |-> labels.deleted,
                 count |-> labels.count]
  BY Zenon, <1>4, <1>6, <1>7 DEF Clone, LoadRemapFormat
<1> QED BY Zenon, <1>3, <1>6, <1>8 DEF Clone, IsTable

-----------------------------------------------------------------------------
(* Every step keeps the counters in their ranges. *)
LEMMA CountersStep ==
  ASSUME OneMode, LabelInv, [Next]_vars
  PROVE  Counters'
<1>0. Counters
  BY Zenon DEF LabelInv
<1>1. ASSUME UNCHANGED <<total_count, code_count, max_capacity, use>>, TableSpan(labels')
      PROVE  Counters'
  BY Zenon, <1>0, <1>1 DEF Counters
<1>2. ASSUME NEW l \in Label, NEW v \in Vec, NEW level \in use.levels, Add(l, v, level)
      PROVE  Counters'
  <2>1. total_count + 1 \in 0 .. MaxIds /\ TableSpan(labels')
    BY Zenon, <1>2, Added
  <2>2. RoundUp(total_count + 1) \in 0 .. RoundUp(MaxIds)
    BY Zenon, <2>1, CapacityBounds
  <2>3. /\ total_count' = total_count + 1 /\ use' = use
        /\ code_count' = total_count + 1 \/ code_count' = code_count
        /\ max_capacity' = RoundUp(total_count + 1) \/ max_capacity' = max_capacity
    BY Zenon, <1>2 DEF Add
  <2> QED BY Zenon, <1>0, <2>1, <2>2, <2>3 DEF Counters
<1>3. ASSUME NEW l \in Label, RemoveMark(l) PROVE Counters'
  BY Zenon, <1>1, <1>3, Marked DEF RemoveMark
<1>4. ASSUME NEW l \in Label, RemoveForce(l) PROVE Counters'
  <2>1. total_count - 1 \in 0 .. MaxIds /\ total_count' = total_count - 1 /\ TableSpan(labels')
    BY Zenon, <1>4, ForceRemoved
  <2>2. UNCHANGED <<code_count, max_capacity, use>>
    BY Zenon, <1>4 DEF RemoveForce
  <2> QED BY Zenon, <1>0, <2>1, <2>2 DEF Counters
<1>5. ASSUME NEW old \in Label, NEW new \in Label, UpdateId(old, new) PROVE Counters'
  BY Zenon, <1>1, <1>5, Renamed DEF UpdateId
<1>6. ASSUME Clone PROVE Counters'
  <2>1. labels' = labels /\ total_count' = total_count
    BY Zenon, <1>6, Cloned
  <2>2. UNCHANGED <<code_count, max_capacity, use>>
    BY Zenon, <1>6 DEF Clone
  <2> QED BY Zenon, <1>0, <1>1, <2>1, <2>2 DEF Counters
<1>7. ASSUME UNCHANGED vars PROVE Counters'
  BY Zenon, <1>0, <1>1, <1>7 DEF vars, Counters
<1> QED BY Zenon, <1>2, <1>3, <1>4, <1>5, <1>6, <1>7 DEF Next

(* Every step keeps the label table in agreement with the counters. *)
LEMMA TableStep ==
  ASSUME OneMode, LabelInv, [Next]_vars
  PROVE  TableInv'
<1>0. TableInv
  BY Zenon DEF LabelInv
<1>1. ASSUME UNCHANGED <<labels, total_count, delete_count, use>> PROVE TableInv'
  BY Zenon, <1>0, <1>1 DEF TableInv
<1>2. ASSUME NEW l \in Label, NEW v \in Vec, NEW level \in use.levels, Add(l, v, level)
      PROVE  TableInv'
  <2>1. /\ Agrees(labels', total_count + 1, Ids(total_count + 1) \ labels.deleted)
        /\ labels'.deleted = labels.deleted
    BY Zenon, <1>2, Added
  <2>2. total_count' = total_count + 1 /\ UNCHANGED <<delete_count, use>>
    BY Zenon, <1>2 DEF Add
  <2> QED BY Zenon, <1>0, <2>1, <2>2 DEF TableInv
<1>3. ASSUME NEW l \in Label, RemoveMark(l) PROVE TableInv'
  <2>1. /\ Agrees(labels', total_count, Ids(total_count) \ labels'.deleted)
        /\ delete_count' = Cardinality(labels'.deleted)
    BY Zenon, <1>3, Marked
  <2>2. UNCHANGED <<total_count, use>> /\ "MARK_REMOVE" \in use.removes
    BY Zenon, <1>3 DEF RemoveMark
  <2>3. "FORCE_REMOVE" \notin use.removes
    <3>1. use.removes \in SUBSET {"MARK_REMOVE", "FORCE_REMOVE"}
          /\ use.removes # {"MARK_REMOVE", "FORCE_REMOVE"}
      BY UsesExist DEF OneMode, LabelInv, Counters, Use
    <3> QED BY Zenon, <2>2, <3>1
  <2> QED BY Zenon, <2>1, <2>2, <2>3 DEF TableInv
<1>4. ASSUME NEW l \in Label, RemoveForce(l) PROVE TableInv'
  <2>1. /\ total_count' = total_count - 1 /\ labels.deleted = {} /\ labels'.deleted = {}
        /\ Agrees(labels', total_count - 1, Ids(total_count - 1)) /\ delete_count' = delete_count
    BY Zenon, <1>4, ForceRemoved
  <2>2. Ids(total_count - 1) \ {} = Ids(total_count - 1)
    BY Zenon
  <2> QED BY Zenon, <1>0, <2>1, <2>2 DEF TableInv
<1>5. ASSUME NEW old \in Label, NEW new \in Label, UpdateId(old, new) PROVE TableInv'
  <2>1. /\ Agrees(labels', total_count, Ids(total_count) \ labels.deleted)
        /\ labels'.deleted = labels.deleted
    BY Zenon, <1>5, Renamed
  <2>2. UNCHANGED <<total_count, delete_count, use>>
    BY Zenon, <1>5 DEF UpdateId
  <2> QED BY Zenon, <1>0, <2>1, <2>2 DEF TableInv
<1>6. ASSUME Clone PROVE TableInv'
  <2>1. UNCHANGED <<labels, total_count, delete_count>>
    BY Zenon, <1>6, Cloned
  <2> QED BY Zenon, <1>1, <1>6, <2>1 DEF Clone
<1>7. ASSUME UNCHANGED vars PROVE TableInv'
  BY Zenon, <1>1, <1>7 DEF vars
<1> QED BY Zenon, <1>2, <1>3, <1>4, <1>5, <1>6, <1>7 DEF Next

(* Every step keeps a vector for every element. *)
LEMMA CodesStep ==
  ASSUME OneMode, LabelInv, [Next]_vars
  PROVE  CodesInv'
<1>0. CodesInv /\ total_count \in Nat /\ Ids(total_count) \subseteq InnerId
  BY Zenon, TableFacts DEF LabelInv
<1>1. ASSUME UNCHANGED <<codes, total_count>> PROVE CodesInv'
  BY Zenon, <1>0, <1>1 DEF CodesInv
<1>2. ASSUME NEW l \in Label, NEW v \in Vec, NEW level \in use.levels, Add(l, v, level)
      PROVE  CodesInv'
  <2>1. total_count \in InnerId
    BY Zenon, <1>2, Added
  <2>2. total_count' = total_count + 1 /\ codes' = [codes EXCEPT ![total_count] = v]
    BY Zenon, <1>2 DEF Add
  <2>3. Ids(total_count + 1) = Ids(total_count) \cup {total_count}
    BY <1>0 DEF Ids
  <2> QED BY Zenon, <1>0, <2>1, <2>2, <2>3 DEF CodesInv
<1>3. ASSUME NEW l \in Label, RemoveMark(l) PROVE CodesInv'
  BY Zenon, <1>1, <1>3 DEF RemoveMark
<1>4. ASSUME NEW l \in Label, RemoveForce(l) PROVE CodesInv'
  <2>1. PICK id, last : id = labels.remap[l] /\ last = total_count - 1
    BY Zenon
  <2>2. /\ total_count' = last /\ id \in Ids(total_count) /\ last \in Ids(total_count)
        /\ codes' = [codes EXCEPT ![id] = codes[last]]
    BY Zenon, <1>4, <2>1, ForceRemoved
  <2>3. Ids(last) \subseteq Ids(total_count)
    BY <1>0, <2>1 DEF Ids
  <2>4. codes[last] \in Vec /\ codes \in [InnerId -> Vec \cup {NoVec}]
    BY Zenon, <1>0, <2>2 DEF CodesInv
  <2>5. codes' \in [InnerId -> Vec \cup {NoVec}]
    BY Zenon, <2>2, <2>4
  <2>6. ASSUME NEW i \in Ids(last) PROVE codes'[i] \in Vec
    <3>1. i \in Ids(total_count) /\ i \in InnerId /\ codes[i] \in Vec
      BY Zenon, <1>0, <2>3 DEF CodesInv
    <3> QED BY Zenon, <2>2, <2>4, <3>1
  <2> QED BY Zenon, <2>2, <2>5, <2>6 DEF CodesInv
<1>5. ASSUME NEW old \in Label, NEW new \in Label, UpdateId(old, new) PROVE CodesInv'
  BY Zenon, <1>1, <1>5 DEF UpdateId
<1>6. ASSUME Clone PROVE CodesInv'
  <2>1. UNCHANGED <<codes, total_count>>
    BY Zenon, <1>6, Cloned DEF Clone
  <2> QED BY Zenon, <1>1, <2>1
<1>7. ASSUME UNCHANGED vars PROVE CodesInv'
  BY Zenon, <1>1, <1>7 DEF vars
<1> QED BY Zenon, <1>2, <1>3, <1>4, <1>5, <1>6, <1>7 DEF Next

(* An index that was just created. *)
LEMMA LabelInit == Init => LabelInv
<1> SUFFICES ASSUME Init PROVE LabelInv
  OBVIOUS
<1>1. /\ labels = EmptyLabelTable /\ total_count = 0 /\ delete_count = 0 /\ code_count = 0
      /\ max_capacity = 0 /\ use \in Uses /\ codes = [i \in InnerId |-> NoVec]
  BY Zenon DEF Init
<1>2. EmptyLabelTable.deleted = {} /\ DOMAIN EmptyLabelTable.table = {}
  BY DEF EmptyLabelTable
<1>3. 0 \in 0 .. MaxIds /\ Ids(0) = {}
  BY MaxIdsIsPositive DEF Ids
<1>4. 0 \in 0 .. RoundUp(MaxIds)
  BY Zenon, <1>3, CapacityBounds
<1>5. TableSpan(EmptyLabelTable)
  BY Zenon, <1>2, <1>3, <1>4 DEF TableSpan
<1>6. Counters
  BY Zenon, <1>1, <1>3, <1>4, <1>5 DEF Counters
<1>7. TableInv
  <2>1. Ids(0) \ {} = Ids(0)
    BY Zenon
  <2> QED BY Zenon, <1>1, <1>2, <2>1, EmptyAgrees, FS_EmptySet DEF TableInv
<1>8. CodesInv
  BY Zenon, <1>1, <1>3 DEF CodesInv
<1> QED BY Zenon, <1>6, <1>7, <1>8 DEF LabelInv

(* The invariant holds always. *)
LEMMA LabelAlways ==
  ASSUME OneMode
  PROVE  Spec => []LabelInv
<1>1. LabelInv /\ [Next]_vars => LabelInv'
  BY Zenon, CountersStep, TableStep, CodesStep DEF LabelInv
<1> QED BY LabelInit, <1>1, PTL DEF Spec

(* The label table, the tombstones, the codes and the counters that are kept apart agree, for    *)
(* any number of elements, labels and vectors: Insert, MarkRemove, ForceRemove, Move and           *)
(* UpdateLabel each keep two maps, a set and two counters.                                    *)
THEOREM LabelsStayInAgreement ==
  ASSUME OneMode
  PROVE  Spec => []LabelsAgree
<1>1. LabelInv => LabelsAgree
  <2> SUFFICES ASSUME LabelInv PROVE CountsAgree /\ LiveLabelsResolve
    BY Zenon DEF LabelsAgree
  <2>1. LiveId \subseteq DOMAIN labels.table
    <3>1. PICK m \in Nat : total_count <= m /\ labels.table \in [Ids(m) -> Label]
      BY Zenon DEF LabelInv, TableInv, Agrees, Shape
    <3>2. Ids(total_count) \subseteq Ids(m)
      BY <3>1, TableFacts DEF Ids
    <3> QED BY Zenon, <3>1, <3>2, TableFacts
  <2>2. \A i \in LiveId : codes[i] # NoVec
    BY Zenon, NoVecIsNoVector, TableFacts DEF LabelInv, CodesInv
  <2>3. CountsAgree
    BY Zenon, <2>1, <2>2, TableFacts DEF CountsAgree, LabelInv, TableInv
  <2>4. ASSUME NEW i \in LiveId \ labels.deleted
        PROVE  TryGetIdByLabel(labels, labels.table[i], FALSE) = i
    <3>1. labels.table[i] \in DOMAIN labels.remap /\ labels.remap[labels.table[i]] = i
      BY Zenon, TableFacts DEF LabelInv, TableInv, Agrees, Resolves
    <3> QED BY Zenon, <3>1 DEF TryGetIdByLabel, Find
  <2> QED BY Zenon, <2>3, <2>4 DEF LiveLabelsResolve
<1> QED BY <1>1, LabelAlways, PTL

-----------------------------------------------------------------------------
(* The labels that lookups find. *)
Held == {k \in Label : CheckLabel(labels, k)}

(* A step of a map from labels to vectors. *)
Abs == Abstract!Next

(* Content by its members. *)
LEMMA ContentMembers ==
  /\ DOMAIN Content = Held /\ \A k \in Held : Content[k] = codes[labels.remap[k]]
  /\ Content = [k \in Held |-> codes[labels.remap[k]]]
<1>1. \A k \in Held : TryGetIdByLabel(labels, k, TRUE) = labels.remap[k]
  BY Zenon DEF Held, TryGetIdByLabel, Find, CheckLabel
<1>2. Content = [k \in Held |-> codes[TryGetIdByLabel(labels, k, TRUE)]]
  BY Zenon DEF Content, Held
<1> QED BY Zenon, <1>1, <1>2

(* The same after a step. *)
LEMMA ContentAfter == Content' = [k \in Held' |-> codes'[labels'.remap[k]]]
<1>1. \A k \in Held' : TryGetIdByLabel(labels', k, TRUE) = labels'.remap[k]
  BY Zenon DEF Held, TryGetIdByLabel, Find, CheckLabel
<1>2. Content' = [k \in Held' |-> codes'[TryGetIdByLabel(labels', k, TRUE)]]
  BY Zenon DEF Content, Held
<1> QED BY Zenon, <1>1, <1>2

(* A step that changes no vector of a label that is found. *)
LEMMA ContentKept ==
  ASSUME Held' = Held, \A k \in Held : codes'[labels'.remap[k]] = codes[labels.remap[k]]
  PROVE  UNCHANGED Content
  BY SMT, ContentMembers, ContentAfter

(* A step after which one more label is found. *)
LEMMA ContentAdded ==
  ASSUME NEW l \in Label, NEW v \in Vec, l \notin Held, Held' = Held \cup {l},
         codes'[labels'.remap[l]] = v,
         \A k \in Held : codes'[labels'.remap[k]] = codes[labels.remap[k]]
  PROVE  Abs
<1>1. /\ l \notin DOMAIN Content
      /\ Content' = [k \in DOMAIN Content \cup {l} |-> IF k = l THEN v ELSE Content[k]]
  BY SMT, ContentMembers, ContentAfter
<1>2. Abstract!Add(l, v)
  BY Zenon, <1>1 DEF Abstract!Add
<1> QED BY Zenon, <1>2 DEF Abs, Abstract!Next

(* A step after which one label less is found, or none. *)
LEMMA ContentRemoved ==
  ASSUME NEW l \in Label, Held' = Held \ {l},
         \A k \in Held \ {l} : codes'[labels'.remap[k]] = codes[labels.remap[k]]
  PROVE  Abs \/ UNCHANGED Content
<1>1. CASE l \in Held
  <2>1. l \in DOMAIN Content /\ Content' = [k \in DOMAIN Content \ {l} |-> Content[k]]
    BY SMT, <1>1, ContentMembers, ContentAfter
  <2>2. Abstract!Remove(l)
    BY Zenon, <2>1 DEF Abstract!Remove
  <2> QED BY Zenon, <2>2 DEF Abs, Abstract!Next
<1>2. CASE l \notin Held
  <2>1. Held' = Held /\ \A k \in Held : codes'[labels'.remap[k]] = codes[labels.remap[k]]
    BY Zenon, <1>2
  <2> QED BY Zenon, <2>1, ContentKept
<1> QED BY Zenon, <1>1, <1>2

(* A step after which a label is found in the place of another. *)
LEMMA ContentRenamed ==
  ASSUME NEW old \in Label, NEW new \in Label, old \in Held, new \notin Held,
         Held' = (Held \ {old}) \cup {new},
         codes'[labels'.remap[new]] = codes[labels.remap[old]],
         \A k \in Held \ {old} : codes'[labels'.remap[k]] = codes[labels.remap[k]]
  PROVE  Abs
<1>1. /\ old \in DOMAIN Content /\ new \notin DOMAIN Content
      /\ Content' = [k \in (DOMAIN Content \ {old}) \cup {new} |->
                       Content[IF k = new THEN old ELSE k]]
  BY SMT, ContentMembers, ContentAfter
<1>2. Abstract!UpdateId(old, new)
  BY Zenon, <1>1 DEF Abstract!UpdateId
<1> QED BY Zenon, <1>2 DEF Abs, Abstract!Next

(* What it is for a label to be found, before and after a step. *)
LEMMA HeldMember ==
  /\ \A k : k \in Held <=> k \in Label /\ CheckLabel(labels, k)
  /\ \A k : k \in Held' <=> k \in Label /\ CheckLabel(labels', k)
  BY Zenon DEF Held

(* A clone holds what its source holds. *)
LEMMA CloneSame ==
  ASSUME OneMode, LabelInv, Clone
  PROVE  UNCHANGED Content
<1>1. labels' = labels /\ codes' = codes
  BY Zenon, Cloned DEF Clone
<1>2. Held' = Held
  BY Zenon, <1>1, HeldMember
<1> QED BY Zenon, <1>1, <1>2, ContentKept

(* Every step is one of a map from labels to vectors, or none. *)
LEMMA RefinementStep ==
  ASSUME OneMode, LabelInv, [Next]_vars
  PROVE  Abs \/ UNCHANGED Content
<1>0. /\ codes \in [InnerId -> Vec \cup {NoVec}] /\ Ids(total_count) \subseteq InnerId
      /\ Names(labels)
  BY Zenon, TableFacts DEF LabelInv, CodesInv
<1>a. \A k \in Held : /\ k \in Label /\ k \in DOMAIN labels.remap
                      /\ labels.remap[k] \in InnerId /\ labels.remap[k] \in Ids(total_count)
  BY Zenon, <1>0, TableFacts, HeldMember DEF CheckLabel
<1>1. ASSUME NEW l \in Label, NEW v \in Vec, NEW level \in use.levels, Add(l, v, level)
      PROVE  Abs
  <2>1. PICK n : n = total_count
    BY Zenon
  <2>2. /\ n \in InnerId /\ labels'.remap = InsertOrAssign(labels.remap, l, n)
        /\ ~CheckLabel(labels, l)
        /\ \A k : CheckLabel(labels', k) <=> k = l \/ CheckLabel(labels, k)
    BY Zenon, <1>1, <2>1, Added
  <2>3. codes' = [codes EXCEPT ![n] = v]
    BY Zenon, <1>1, <2>1 DEF Add
  <2>4. l \notin Held /\ Held' = Held \cup {l}
    BY Zenon, <2>2, HeldMember
  <2>5. codes'[labels'.remap[l]] = v
    BY Zenon, <1>0, <2>2, <2>3 DEF InsertOrAssign
  <2>6. n \notin Ids(n)
    BY TableFacts, <2>1 DEF Ids
  <2>7. ASSUME NEW k \in Held PROVE codes'[labels'.remap[k]] = codes[labels.remap[k]]
    <3>1. /\ k \in DOMAIN labels.remap /\ labels.remap[k] \in InnerId /\ labels.remap[k] # n
          /\ k # l
      BY Zenon, <1>a, <2>1, <2>4, <2>6
    <3>2. labels'.remap[k] = labels.remap[k]
      BY Zenon, <2>2, <3>1 DEF InsertOrAssign
    <3> QED BY Zenon, <1>0, <2>2, <2>3, <3>1, <3>2
  <2> QED BY Zenon, <2>4, <2>5, <2>7, ContentAdded
<1>2. ASSUME NEW l \in Label, RemoveMark(l) PROVE Abs \/ UNCHANGED Content
  <2>1. codes' = codes
    BY Zenon, <1>2 DEF RemoveMark
  <2>2. /\ labels'.remap = labels.remap
        /\ \A k : CheckLabel(labels', k) <=> k # l /\ CheckLabel(labels, k)
    BY Zenon, <1>2, Marked
  <2>3. Held' = Held \ {l}
    BY Zenon, <2>2, HeldMember
  <2> QED BY Zenon, <2>1, <2>2, <2>3, ContentRemoved
<1>3. ASSUME NEW l \in Label, RemoveForce(l) PROVE Abs \/ UNCHANGED Content
  <2>1. PICK last, id : last = total_count - 1 /\ id = labels.remap[l]
    BY Zenon
  <2>2. \A k : CheckLabel(labels', k) <=> k # l /\ CheckLabel(labels, k)
    BY Zenon, <1>3, ForceRemoved
  <2>3. /\ l \in DOMAIN labels.remap /\ id \in Ids(total_count)
        /\ \A k \in DOMAIN labels.remap \ {l} :
             labels'.remap[k] = IF labels.remap[k] = last THEN id ELSE labels.remap[k]
        /\ codes' = [codes EXCEPT ![id] = codes[last]]
    BY Zenon, <1>3, <2>1, ForceRemoved
  <2>4. id \in InnerId
    BY Zenon, <1>0, <2>3
  <2>5. Held' = Held \ {l}
    BY Zenon, <2>2, HeldMember
  <2>6. ASSUME NEW k \in Held \ {l} PROVE codes'[labels'.remap[k]] = codes[labels.remap[k]]
    <3>1. k \in DOMAIN labels.remap /\ labels.remap[k] \in InnerId /\ k # l
      BY Zenon, <1>a
    <3>2. labels.remap[k] # id
      BY Zenon, <1>0, <2>1, <2>3, <3>1, NamesDiffer
    <3>3. CASE labels.remap[k] = last
      BY Zenon, <1>0, <2>3, <2>4, <3>1, <3>3
    <3>4. CASE labels.remap[k] # last
      BY Zenon, <1>0, <2>3, <3>1, <3>2, <3>4
    <3> QED BY Zenon, <3>3, <3>4
  <2> QED BY Zenon, <2>5, <2>6, ContentRemoved
<1>4. ASSUME NEW old \in Label, NEW new \in Label, UpdateId(old, new)
      PROVE  Abs \/ UNCHANGED Content
  <2>1. codes' = codes
    BY Zenon, <1>4 DEF UpdateId
  <2>2. /\ labels'.deleted = labels.deleted
        /\ \/ labels'.remap = labels.remap
           \/ /\ ~CheckLabel(labels, new) /\ old # new
              /\ labels'.remap[new] = labels.remap[old]
              /\ \A k \in DOMAIN labels.remap \ {old, new} : labels'.remap[k] = labels.remap[k]
              /\ \A k : CheckLabel(labels', k) <=> \/ k = new /\ CheckLabel(labels, old)
                                                   \/ k \notin {old, new} /\ CheckLabel(labels, k)
    BY Zenon, <1>4, Renamed
  <2>3. CASE labels'.remap = labels.remap
    <3>1. \A k : CheckLabel(labels', k) <=> CheckLabel(labels, k)
      BY Zenon, <2>2, <2>3 DEF CheckLabel
    <3>2. Held' = Held
      BY Zenon, <3>1, HeldMember
    <3> QED BY Zenon, <2>1, <2>3, <3>2, ContentKept
  <2>4. CASE /\ ~CheckLabel(labels, new) /\ old # new
             /\ labels'.remap[new] = labels.remap[old]
             /\ \A k \in DOMAIN labels.remap \ {old, new} : labels'.remap[k] = labels.remap[k]
             /\ \A k : CheckLabel(labels', k) <=> \/ k = new /\ CheckLabel(labels, old)
                                                  \/ k \notin {old, new} /\ CheckLabel(labels, k)
    <3>1. new \notin Held
      BY Zenon, <2>4, HeldMember
    <3>2. \A k \in Held \ {old} : codes'[labels'.remap[k]] = codes[labels.remap[k]]
      BY Zenon, <1>a, <2>1, <2>4, <3>1
    <3>3. CASE CheckLabel(labels, old)
      <4>1. old \in Held
        BY Zenon, <3>3, HeldMember
      <4>2. Held' = (Held \ {old}) \cup {new}
        BY Zenon, <2>4, <3>3, HeldMember
      <4>3. codes'[labels'.remap[new]] = codes[labels.remap[old]]
        BY Zenon, <2>1, <2>4
      <4> QED BY Zenon, <3>1, <3>2, <4>1, <4>2, <4>3, ContentRenamed
    <3>4. CASE ~CheckLabel(labels, old)
      <4>1. old \notin Held
        BY Zenon, <3>4, HeldMember
      <4>2. Held' = Held
        BY Zenon, <2>4, <3>1, <3>4, <4>1, HeldMember
      <4> QED BY Zenon, <3>2, <4>1, <4>2, ContentKept
    <3> QED BY Zenon, <3>3, <3>4
  <2> QED BY Zenon, <2>2, <2>3, <2>4
<1>5. ASSUME Clone PROVE UNCHANGED Content
  BY Zenon, <1>5, CloneSame
<1>6. ASSUME UNCHANGED vars PROVE UNCHANGED Content
  <2>1. UNCHANGED <<labels, codes>>
    BY Zenon, <1>6 DEF vars
  <2>2. Held' = Held
    BY Zenon, <2>1, HeldMember
  <2> QED BY Zenon, <2>1, <2>2, ContentKept
<1> QED BY Zenon, <1>1, <1>2, <1>3, <1>4, <1>5, <1>6 DEF Next

(* HGraph is a map from labels to vectors to its callers, for any labels, vectors and sizes:       *)
(* whatever tombstones stay behind and whichever element force removal moves, every operation     *)
(* changes the element it names and no other.                                                 *)
THEOREM HGraphImplementsVectorIndex ==
  ASSUME OneMode
  PROVE  Spec => ImplementsVectorIndex
<1>1. Init => Abstract!Init
  <2> SUFFICES ASSUME Init PROVE Content = [l \in {} |-> CHOOSE v \in Vec : TRUE]
    BY Zenon DEF Abstract!Init
  <2>1. \A k : k \notin Held
    <3>1. labels = EmptyLabelTable
      BY Zenon DEF Init
    <3>2. DOMAIN EmptyLabelTable.remap = {}
      BY DEF EmptyLabelTable
    <3> QED BY Zenon, <3>1, <3>2, HeldMember DEF CheckLabel
  <2>2. Held = {}
    BY Zenon, <2>1
  <2> QED BY SMT, <2>2, ContentMembers
<1>2. LabelInv /\ [Next]_vars => Abs \/ UNCHANGED Content
  BY Zenon, RefinementStep
<1>3. Abs \/ UNCHANGED Content => [Abstract!Next]_Content
  BY Zenon DEF Abs
<1> QED BY <1>1, <1>2, <1>3, LabelAlways, PTL DEF Spec, ImplementsVectorIndex, Abstract!Spec

(* Clone and Serialize with Deserialize lose nothing a caller sees, when nothing is removed.      *)
THEOREM ClonesKeepContent ==
  ASSUME OneMode
  PROVE  Spec => CloneKeepsContent
<1>1. LabelInv /\ [Next]_vars => [Clone => Content' = Content]_vars
  BY Zenon, CloneSame
<1> QED BY <1>1, LabelAlways, PTL DEF Spec, CloneKeepsContent

-----------------------------------------------------------------------------
(* The graphs. *)
(* The members of a graph. *)
IsGraph(g) ==
  /\ g = [sparse |-> g.sparse, tracks |-> g.tracks, nodes |-> g.nodes, nbrs |-> g.nbrs,
          rev |-> g.rev, used |-> g.used]
  /\ g.sparse \in BOOLEAN /\ g.tracks \in BOOLEAN /\ g.used \in BOOLEAN
  /\ g.nodes \in SUBSET InnerId
  /\ g.nbrs \in [InnerId -> SUBSET InnerId] /\ g.rev \in [InnerId -> SUBSET InnerId]

(* The reverse edges are the lists turned around. *)
Exact(g) == \A x, y \in InnerId : y \in g.nbrs[x] <=> x \in g.rev[y]

(* No list is longer than d. *)
Within(g, d) == \A x \in InnerId : Cardinality(g.nbrs[x]) <= d

(* The ids before one. *)
Below(x) == 0 .. x - 1

(* No node is its own neighbour. *)
NoLoops(g) == \A x \in InnerId : x \notin g.nbrs[x]

-----------------------------------------------------------------------------
(* A record with the members of a graph is a graph. *)
LEMMA GraphByMembers ==
  ASSUME NEW g, IsGraph(g)
  PROVE  g \in Graph
  BY Zenon DEF IsGraph, Graph

(* Every set of numbers has a least one. *)
LEMMA LeastNumber ==
  ASSUME NEW T \in SUBSET Nat, T # {}
  PROVE  \E x \in T : \A y \in T : x <= y
<1>1. IsWellFoundedOn({ss \in Nat \X Nat : ss[1] < ss[2]}, Nat)
  BY Zenon, NatLessThanWellFounded DEF OpToRel
<1>2. PICK R : R = {ss \in Nat \X Nat : ss[1] < ss[2]}
  BY Zenon
<1>3. PICK x \in T : \A y \in T : ~ (<<y, x>> \in R)
  BY Zenon, <1>1, <1>2, WFMin
<1>4. ASSUME NEW y \in T PROVE ~ (y < x)
  <2>1. y \in Nat /\ x \in Nat
    BY Zenon
  <2>2. PICK p : p = <<y, x>>
    BY Zenon
  <2>3. p \in Nat \X Nat /\ p[1] = y /\ p[2] = x
    BY <2>1, <2>2
  <2>4. y < x => p \in R
    BY Zenon, <1>2, <2>3
  <2> QED BY Zenon, <1>3, <2>2, <2>4
<1> QED BY <1>4

(* Sets of ids are finite. *)
LEMMA IdSets ==
  ASSUME NEW S \in SUBSET InnerId
  PROVE  IsFiniteSet(S) /\ Cardinality(S) \in Nat
<1>1. PICK m \in Int : m = MaxIds - 1
  BY MaxIdsIsPositive
<1>2. IsFiniteSet(0 .. m)
  <2>1. 0 \in Int
    OBVIOUS
  <2> QED BY Zenon, <1>1, <2>1, FS_Interval
<1>3. IsFiniteSet(S)
  BY Zenon, <1>1, <1>2, FS_Subset DEF InnerId
<1> QED BY Zenon, <1>3, FS_CardinalityType

(* What one more element does to a number of elements. *)
LEMMA OneMore ==
  ASSUME NEW S \in SUBSET InnerId, NEW a, NEW d \in Nat, Cardinality(S) < d
  PROVE  Cardinality(S \cup {a}) <= d
<1>1. Cardinality(S \cup {a}) = IF a \in S THEN Cardinality(S) ELSE Cardinality(S) + 1
  BY Zenon, IdSets, FS_AddElement
<1>2. Cardinality(S) \in Nat
  BY Zenon, IdSets
<1> QED BY <1>1, <1>2

(* Replacing an element leaves no more. *)
LEMMA OneReplaced ==
  ASSUME NEW S \in SUBSET InnerId, NEW a \in S, NEW b
  PROVE  Cardinality((S \ {a}) \cup {b}) <= Cardinality(S)
<1>1. S \ {a} \in SUBSET InnerId /\ IsFiniteSet(S) /\ Cardinality(S) \in Nat
  BY Zenon, IdSets
<1>2. Cardinality(S \ {a}) = IF a \in S THEN Cardinality(S) - 1 ELSE Cardinality(S)
  BY Zenon, <1>1, FS_RemoveElement
<1>3. Cardinality(S \ {a}) < Cardinality(S)
  BY <1>1, <1>2
<1> QED BY Zenon, <1>1, <1>3, OneMore

(* Fewer elements. *)
LEMMA Fewer ==
  ASSUME NEW S \in SUBSET InnerId, NEW T \in SUBSET S
  PROVE  Cardinality(T) <= Cardinality(S)
  BY Zenon, IdSets, FS_Subset

(* No elements. *)
LEMMA NoneIsZero == Cardinality({}) = 0
  BY Zenon, FS_EmptySet

-----------------------------------------------------------------------------
(* An empty graph. *)
LEMMA EmptySound ==
  ASSUME NEW s \in BOOLEAN, NEW t \in BOOLEAN, NEW g, g = EmptyGraph(s, t)
  PROVE  /\ IsGraph(g) /\ g.sparse = s /\ g.tracks = t /\ ~g.used /\ g.nodes = {}
         /\ \A x \in InnerId : g.nbrs[x] = {} /\ g.rev[x] = {}
  BY Zenon DEF EmptyGraph, IsGraph

(* The lists of some ids. *)
IsLists(lists) == \E D \in SUBSET InnerId : lists \in [D -> SUBSET InnerId]

(* h has the given lists where g had others. *)
Relisted(h, g, lists) ==
  \A x \in InnerId : h.nbrs[x] = IF x \in DOMAIN lists THEN lists[x] ELSE g.nbrs[x]

Changed(h, g, lists) ==
  /\ IsGraph(h) /\ h.sparse = g.sparse /\ h.tracks = g.tracks
  /\ h.nodes = IF g.sparse THEN g.nodes \cup DOMAIN lists ELSE g.nodes
  /\ h.used <=> g.used \/ DOMAIN lists # {}
  /\ Relisted(h, g, lists)
  /\ h.rev = UpdateReverseEdges(g, lists)

(* InsertNeighborsById replaces the lists it is given and no other. *)
LEMMA Inserted ==
  ASSUME NEW g, IsGraph(g), NEW lists, IsLists(lists),
         NEW h, h = InsertNeighborsById(g, lists)
  PROVE  Changed(h, g, lists)
<1>1. PICK D \in SUBSET InnerId : lists \in [D -> SUBSET InnerId] /\ DOMAIN lists = D
  BY Zenon DEF IsLists
<1>2. PICK nd : nd = IF g.sparse THEN g.nodes \cup D ELSE g.nodes
  BY Zenon
<1>3. PICK nb : nb = Relist(g, lists)
  BY Zenon
<1>4. PICK rv : rv = UpdateReverseEdges(g, lists)
  BY Zenon
<1>5. PICK u : u = (g.used \/ D # {})
  BY Zenon
<1>6. h = [sparse |-> g.sparse, tracks |-> g.tracks, nodes |-> nd, nbrs |-> nb, rev |-> rv, used |-> u]
  BY Zenon, <1>1, <1>2, <1>3, <1>4, <1>5 DEF InsertNeighborsById
<1>7. u \in BOOLEAN /\ nd \in SUBSET InnerId
  BY Zenon, <1>1, <1>2, <1>5 DEF IsGraph
<1>8. /\ nb \in [InnerId -> SUBSET InnerId]
      /\ \A x \in InnerId : nb[x] = IF x \in D THEN lists[x] ELSE g.nbrs[x]
  <2>1. nb = [i \in InnerId |-> IF i \in D THEN lists[i] ELSE g.nbrs[i]]
    BY Zenon, <1>1, <1>3 DEF Relist
  <2>2. \A x \in InnerId : (IF x \in D THEN lists[x] ELSE g.nbrs[x]) \in SUBSET InnerId
    BY Zenon, <1>1 DEF IsGraph
  <2> QED BY Zenon, <2>1, <2>2
<1>9. rv \in [InnerId -> SUBSET InnerId]
  <2>1. CASE ~g.tracks
    BY Zenon, <1>4, <2>1 DEF UpdateReverseEdges, IsGraph
  <2>2. CASE g.tracks
    <3>1. rv = [x \in InnerId |->
                 (g.rev[x] \ {i \in D : x \in g.nbrs[i] /\ x \notin lists[i]})
                   \cup {i \in D : x \in lists[i] /\ x \notin g.nbrs[i]}]
      BY Zenon, <1>1, <1>4, <2>2 DEF UpdateReverseEdges
    <3>2. \A x \in InnerId : (g.rev[x] \ {i \in D : x \in g.nbrs[i] /\ x \notin lists[i]})
                   \cup {i \in D : x \in lists[i] /\ x \notin g.nbrs[i]} \in SUBSET InnerId
      BY SMT, <1>1 DEF IsGraph
    <3> QED BY Zenon, <3>1, <3>2
  <2> QED BY Zenon, <2>1, <2>2
<1>10. /\ h.sparse = g.sparse /\ h.tracks = g.tracks /\ h.nodes = nd /\ h.nbrs = nb /\ h.rev = rv
       /\ h.used = u
  <2>1. PICK s, t : s = g.sparse /\ t = g.tracks
    BY Zenon
  <2>2. h = [sparse |-> s, tracks |-> t, nodes |-> nd, nbrs |-> nb, rev |-> rv, used |-> u]
    BY Zenon, <1>6, <2>1
  <2>3. h.sparse = s /\ h.tracks = t /\ h.nodes = nd /\ h.nbrs = nb /\ h.rev = rv /\ h.used = u
    BY SMT, <2>2
  <2> QED BY Zenon, <2>1, <2>3
<1>11. IsGraph(h)
  <2>1. h = [sparse |-> h.sparse, tracks |-> h.tracks, nodes |-> h.nodes, nbrs |-> h.nbrs,
             rev |-> h.rev, used |-> h.used]
    BY Zenon, <1>6, <1>10
  <2>2. h.sparse \in BOOLEAN /\ h.tracks \in BOOLEAN /\ h.used \in BOOLEAN
    BY Zenon, <1>7, <1>10 DEF IsGraph
  <2>3. /\ h.nodes \in SUBSET InnerId /\ h.nbrs \in [InnerId -> SUBSET InnerId]
        /\ h.rev \in [InnerId -> SUBSET InnerId]
    BY Zenon, <1>7, <1>8, <1>9, <1>10
  <2> QED BY Zenon, <2>1, <2>2, <2>3 DEF IsGraph
<1>12. Relisted(h, g, lists)
  BY Zenon, <1>1, <1>8, <1>10 DEF Relisted
<1> QED BY Zenon, <1>1, <1>2, <1>4, <1>5, <1>10, <1>11, <1>12 DEF Changed

(* UpdateReverseEdges keeps the reverse edges exact. *)
LEMMA InsertedExact ==
  ASSUME NEW g, IsGraph(g), g.tracks, Exact(g),
         NEW lists, IsLists(lists),
         NEW h, h = InsertNeighborsById(g, lists)
  PROVE  Exact(h)
<1> SUFFICES ASSUME NEW x \in InnerId, NEW y \in InnerId
             PROVE  y \in h.nbrs[x] <=> x \in h.rev[y]
  BY Zenon DEF Exact
<1>1. PICK D \in SUBSET InnerId : lists \in [D -> SUBSET InnerId] /\ DOMAIN lists = D
  BY Zenon DEF IsLists
<1>0. /\ h.rev = UpdateReverseEdges(g, lists)
      /\ h.nbrs[x] = IF x \in D THEN lists[x] ELSE g.nbrs[x]
  <2>1. Changed(h, g, lists)
    BY Zenon, Inserted
  <2> QED BY Zenon, <1>1, <2>1 DEF Changed, Relisted
<1>2. h.rev[y] = (g.rev[y] \ {i \in D : y \in g.nbrs[i] /\ y \notin lists[i]})
                   \cup {i \in D : y \in lists[i] /\ y \notin g.nbrs[i]}
  <2>1. h.rev = [z \in InnerId |->
                   (g.rev[z] \ {i \in D : z \in g.nbrs[i] /\ z \notin lists[i]})
                     \cup {i \in D : z \in lists[i] /\ z \notin g.nbrs[i]}]
    BY Zenon, <1>0, <1>1 DEF UpdateReverseEdges
  <2> QED BY Zenon, <2>1
<1>3. y \in g.nbrs[x] <=> x \in g.rev[y]
  BY Zenon DEF Exact
<1>4. CASE x \in D
  BY Zenon, <1>0, <1>2, <1>3, <1>4
<1>5. CASE x \notin D
  BY Zenon, <1>0, <1>2, <1>3, <1>5
<1> QED BY Zenon, <1>4, <1>5

(* One list is a set of lists. *)
LEMMA OneList ==
  ASSUME NEW id \in InnerId, NEW S \in SUBSET InnerId, NEW f, f = [i \in {id} |-> S]
  PROVE  IsLists(f) /\ DOMAIN f = {id} /\ f[id] = S
<1>1. f \in [{id} -> SUBSET InnerId] /\ {id} \in SUBSET InnerId /\ DOMAIN f = {id} /\ f[id] = S
  BY Zenon
<1> QED BY Zenon, <1>1 DEF IsLists

(* h has the list S at id where g had another. *)
OneChanged(h, g, id, S) ==
  /\ IsGraph(h) /\ h.sparse = g.sparse /\ h.tracks = g.tracks /\ h.used
  /\ h.nodes = IF g.sparse THEN g.nodes \cup {id} ELSE g.nodes
  /\ h.nbrs[id] = S
  /\ \A x \in InnerId \ {id} : h.nbrs[x] = g.nbrs[x]
  /\ g.tracks /\ Exact(g) => Exact(h)

(* InsertNeighborsById with one list. *)
LEMMA OneInserted ==
  ASSUME NEW g, IsGraph(g), NEW id \in InnerId, NEW S \in SUBSET InnerId,
         NEW h, h = InsertNeighborsById(g, [i \in {id} |-> S])
  PROVE  OneChanged(h, g, id, S)
<1>1. PICK f : f = [i \in {id} |-> S]
  BY Zenon
<1>2. IsLists(f) /\ DOMAIN f = {id} /\ f[id] = S
  BY Zenon, <1>1, OneList
<1>3. h = InsertNeighborsById(g, f)
  BY Zenon, <1>1
<1>4. Changed(h, g, f)
  BY Zenon, <1>2, <1>3, Inserted
<1>5. h.nbrs[id] = S /\ \A x \in InnerId \ {id} : h.nbrs[x] = g.nbrs[x]
  BY Zenon, <1>2, <1>4 DEF Changed, Relisted
<1>6. /\ IsGraph(h) /\ h.sparse = g.sparse /\ h.tracks = g.tracks
      /\ h.used /\ h.nodes = IF g.sparse THEN g.nodes \cup {id} ELSE g.nodes
  BY Zenon, <1>2, <1>4 DEF Changed
<1>7. g.tracks /\ Exact(g) => Exact(h)
  BY Zenon, <1>2, <1>3, InsertedExact
<1> QED BY Zenon, <1>5, <1>6, <1>7 DEF OneChanged

(* m is g with another set of keys. *)
HasKeys(m, g, N) ==
  /\ IsGraph(m) /\ m.sparse = g.sparse /\ m.tracks = g.tracks /\ m.used = g.used
  /\ m.nodes = N /\ m.nbrs = g.nbrs /\ m.rev = g.rev

(* A graph with another set of keys. *)
LEMMA Renoded ==
  ASSUME NEW g, IsGraph(g), NEW N \in SUBSET InnerId, NEW m, m = [g EXCEPT !.nodes = N]
  PROVE  HasKeys(m, g, N)
<1>1. PICK s, t, a, b, c, u :
        /\ s = g.sparse /\ t = g.tracks /\ a = g.nodes /\ b = g.nbrs /\ c = g.rev /\ u = g.used
        /\ g = [sparse |-> s, tracks |-> t, nodes |-> a, nbrs |-> b, rev |-> c, used |-> u]
  BY Zenon DEF IsGraph
<1>2. m = [sparse |-> s, tracks |-> t, nodes |-> N, nbrs |-> b, rev |-> c, used |-> u]
  BY SMT, <1>1
<1>3. m.sparse = s /\ m.tracks = t /\ m.nodes = N /\ m.nbrs = b /\ m.rev = c /\ m.used = u
  BY SMT, <1>2
<1>4. m = [sparse |-> m.sparse, tracks |-> m.tracks, nodes |-> m.nodes, nbrs |-> m.nbrs,
           rev |-> m.rev, used |-> m.used]
  BY Zenon, <1>2, <1>3
<1>5. IsGraph(m)
  BY Zenon, <1>1, <1>3, <1>4 DEF IsGraph
<1> QED BY Zenon, <1>1, <1>3, <1>5 DEF HasKeys

(* The element that was "from" is "to": it has its list and is in the lists it was in.     *)
Shifted(m, g, from, to) ==
  /\ m.nbrs[from] = {} /\ m.nbrs[to] = g.nbrs[from]
  /\ \A x \in InnerId \ {from, to} :
       m.nbrs[x] = IF from \in g.nbrs[x] THEN (g.nbrs[x] \ {from}) \cup {to} ELSE g.nbrs[x]
  /\ g.sparse => m.nodes = (g.nodes \cup {to} \cup g.rev[from]) \ {from}

(* m is g after the move. *)
MovedTo(m, g, from, to) ==
  /\ IsGraph(m) /\ m.sparse = g.sparse /\ m.tracks = g.tracks /\ m.used
  /\ Exact(m) /\ Shifted(m, g, from, to)

(* Move, of a node with a list or a key to a node without a list. *)
LEMMA Moved ==
  ASSUME NEW g, IsGraph(g), g.tracks, Exact(g), NEW from \in InnerId, NEW to \in InnerId,
         from # to, ~(g.sparse /\ from \notin g.nodes),
         from \notin g.nbrs[from], g.nbrs[to] = {},
         NEW m, m = MoveNode(g, from, to)
  PROVE  MovedTo(m, g, from, to)
<1>1. PICK c : c = InsertNeighborsById(g, [i \in {to} |-> {}])
  BY Zenon
<1>2. /\ IsGraph(c) /\ c.sparse = g.sparse /\ c.tracks = g.tracks
      /\ c.nodes = IF g.sparse THEN g.nodes \cup {to} ELSE g.nodes
      /\ c.nbrs[to] = {} /\ \A x \in InnerId \ {to} : c.nbrs[x] = g.nbrs[x]
      /\ Exact(c)
  <2>1. {} \in SUBSET InnerId
    BY Zenon
  <2>2. OneChanged(c, g, to, {})
    BY Zenon, <1>1, <2>1, OneInserted
  <2> QED BY Zenon, <2>2 DEF OneChanged
<1>3. \A x \in InnerId : c.nbrs[x] = g.nbrs[x]
  BY Zenon, <1>2
<1>4. PICK R : R = g.rev[from] /\ R \in SUBSET InnerId
  BY Zenon DEF IsGraph
<1>5. \A x \in InnerId : x \in R <=> from \in g.nbrs[x]
  BY Zenon, <1>4 DEF Exact
<1>6. PICK f : f = [n \in R |-> (c.nbrs[n] \ {from}) \cup {to}]
  BY Zenon
<1>7. IsLists(f) /\ DOMAIN f = R /\ \A n \in R : f[n] = (g.nbrs[n] \ {from}) \cup {to}
  <2>1. \A n \in R : (c.nbrs[n] \ {from}) \cup {to} \in SUBSET InnerId
    BY Zenon, <1>2, <1>4 DEF IsGraph
  <2>2. f \in [R -> SUBSET InnerId] /\ DOMAIN f = R
    BY Zenon, <1>6, <2>1
  <2>3. \A n \in R : f[n] = (g.nbrs[n] \ {from}) \cup {to}
    BY Zenon, <1>3, <1>4, <1>6
  <2> QED BY Zenon, <1>4, <2>2, <2>3 DEF IsLists
<1>8. PICK p : p = InsertNeighborsById(c, f)
  BY Zenon
<1>9. /\ IsGraph(p) /\ p.sparse = c.sparse /\ p.tracks = c.tracks
      /\ p.nodes = IF c.sparse THEN c.nodes \cup DOMAIN f ELSE c.nodes
      /\ Relisted(p, c, f)
  <2>1. Changed(p, c, f)
    BY Zenon, <1>2, <1>7, <1>8, Inserted
  <2> QED BY Zenon, <2>1 DEF Changed
<1>10. Exact(p)
  <2>1. IsGraph(c) /\ c.tracks /\ Exact(c)
    BY Zenon, <1>2
  <2>2. IsLists(f)
    BY Zenon, <1>7
  <2> QED BY Zenon, <1>8, <2>1, <2>2, InsertedExact
<1>11. \A x \in InnerId : p.nbrs[x] = IF from \in g.nbrs[x] THEN (g.nbrs[x] \ {from}) \cup {to}
                                      ELSE g.nbrs[x]
  BY Zenon, <1>3, <1>5, <1>7, <1>9 DEF Relisted
<1>12. p.nbrs[from] = g.nbrs[from] /\ g.nbrs[from] \in SUBSET InnerId
  BY Zenon, <1>11 DEF IsGraph
<1>13. PICK t : t = InsertNeighborsById(p, [i \in {to} |-> p.nbrs[from]])
  BY Zenon
<1>14. /\ IsGraph(t) /\ t.sparse = p.sparse /\ t.tracks = p.tracks
       /\ t.nodes = IF p.sparse THEN p.nodes \cup {to} ELSE p.nodes
       /\ t.nbrs[to] = p.nbrs[from] /\ \A x \in InnerId \ {to} : t.nbrs[x] = p.nbrs[x]
       /\ Exact(t)
  <2>1. IsGraph(p) /\ p.tracks /\ p.nbrs[from] \in SUBSET InnerId
    BY Zenon, <1>2, <1>9, <1>12
  <2>2. OneChanged(t, p, to, p.nbrs[from])
    BY Zenon, <1>13, <2>1, OneInserted
  <2> QED BY Zenon, <1>10, <2>1, <2>2 DEF OneChanged
<1>15. PICK e : e = InsertNeighborsById(t, [i \in {from} |-> {}])
  BY Zenon
<1>16. /\ IsGraph(e) /\ e.sparse = t.sparse /\ e.tracks = t.tracks /\ e.used
       /\ e.nodes = IF t.sparse THEN t.nodes \cup {from} ELSE t.nodes
       /\ e.nbrs[from] = {} /\ \A x \in InnerId \ {from} : e.nbrs[x] = t.nbrs[x]
       /\ Exact(e)
  <2>1. IsGraph(t) /\ t.tracks /\ {} \in SUBSET InnerId
    BY Zenon, <1>2, <1>9, <1>14
  <2>2. OneChanged(e, t, from, {})
    BY Zenon, <1>15, <2>1, OneInserted
  <2> QED BY Zenon, <1>14, <2>1, <2>2 DEF OneChanged
<1>17. PICK N : N = IF g.sparse THEN e.nodes \ {from} ELSE e.nodes
  BY Zenon
<1>18. m = [e EXCEPT !.nodes = N]
  BY Zenon, <1>1, <1>4, <1>6, <1>8, <1>13, <1>15, <1>17 DEF MoveNode, IncomingNeighbors
<1>19. /\ IsGraph(m) /\ m.sparse = e.sparse /\ m.tracks = e.tracks /\ m.used = e.used
       /\ m.nodes = N /\ m.nbrs = e.nbrs /\ m.rev = e.rev
  <2>1. N \in SUBSET InnerId /\ IsGraph(e)
    BY Zenon, <1>16, <1>17 DEF IsGraph
  <2>2. HasKeys(m, e, N)
    BY Zenon, <1>18, <2>1, Renoded
  <2> QED BY Zenon, <2>2 DEF HasKeys
<1>20. Exact(m)
  BY Zenon, <1>16, <1>19 DEF Exact
<1>21. m.nbrs[from] = {} /\ m.nbrs[to] = g.nbrs[from]
  BY Zenon, <1>12, <1>14, <1>16, <1>19
<1>22. \A x \in InnerId \ {from, to} :
         m.nbrs[x] = IF from \in g.nbrs[x] THEN (g.nbrs[x] \ {from}) \cup {to} ELSE g.nbrs[x]
  <2> SUFFICES ASSUME NEW x \in InnerId \ {from, to}
               PROVE  m.nbrs[x] = IF from \in g.nbrs[x] THEN (g.nbrs[x] \ {from}) \cup {to}
                                  ELSE g.nbrs[x]
    BY Zenon
  <2>1. m.nbrs[x] = p.nbrs[x]
    BY Zenon, <1>14, <1>16, <1>19
  <2> QED BY Zenon, <1>11, <2>1
<1>23. g.sparse => m.nodes = (g.nodes \cup {to} \cup R) \ {from}
  <2> SUFFICES ASSUME g.sparse PROVE m.nodes = (g.nodes \cup {to} \cup R) \ {from}
    BY Zenon
  <2>1. c.nodes = g.nodes \cup {to} /\ p.nodes = c.nodes \cup R /\ t.nodes = p.nodes \cup {to}
        /\ e.nodes = t.nodes \cup {from} /\ m.nodes = e.nodes \ {from}
    BY Zenon, <1>2, <1>7, <1>9, <1>14, <1>16, <1>17, <1>19
  <2> QED BY SMT, <2>1
<1>24. m.sparse = g.sparse /\ m.tracks = g.tracks /\ m.used
  BY Zenon, <1>2, <1>9, <1>14, <1>16, <1>19
<1>25. Shifted(m, g, from, to)
  BY Zenon, <1>4, <1>21, <1>22, <1>23 DEF Shifted
<1> QED BY Zenon, <1>19, <1>20, <1>24, <1>25 DEF MovedTo

-----------------------------------------------------------------------------
(* A graph as operations leave it. *)
Sound(g) ==
  /\ IsGraph(g)
  /\ g.tracks => Exact(g)
  /\ Within(g, MaximumDegree(g))
  /\ NoLoops(g)

(* Degrees are numbers, and depend on what kind of graph it is. *)
LEMMA Degrees ==
  ASSUME NEW g, NEW h, h.sparse = g.sparse
  PROVE  MaximumDegree(g) \in Nat \ {0} /\ MaximumDegree(h) = MaximumDegree(g)
  BY Zenon, DegreesArePositive DEF MaximumDegree

(* An empty list is within every degree. *)
LEMMA NoneWithin ==
  ASSUME NEW g
  PROVE  Cardinality({}) <= MaximumDegree(g)
<1>1. MaximumDegree(g) \in Nat
  BY Zenon, Degrees
<1> QED BY <1>1, NoneIsZero

(* select_edges_by_heuristic returns candidates, no more than the degree. *)
LEMMA Selected ==
  ASSUME NEW g, NEW C \in SUBSET InnerId, NEW S \in SelectEdges(g, C)
  PROVE  S \subseteq C /\ S \in SUBSET InnerId /\ Cardinality(S) <= MaximumDegree(g)
<1>1. MaximumDegree(g) \in Nat /\ Cardinality(C) \in Nat
  BY Zenon, Degrees, IdSets
<1>2. CASE Cardinality(C) < MaximumDegree(g)
  <2>1. S = C
    BY Zenon, <1>2 DEF SelectEdges
  <2>2. Cardinality(C) <= MaximumDegree(g)
    BY <1>1, <1>2
  <2> QED BY Zenon, <2>1, <2>2
<1>3. CASE ~(Cardinality(C) < MaximumDegree(g))
  BY Zenon, <1>3 DEF SelectEdges
<1> QED BY Zenon, <1>2, <1>3

(* A neighbour's list after it was offered a new node. *)
LEMMA ListTaken ==
  ASSUME NEW g, Sound(g), NEW n \in InnerId, NEW id \in InnerId, NEW L \in ListWith(g, n, id)
  PROVE  /\ L \subseteq g.nbrs[n] \cup {id} /\ L \in SUBSET InnerId
         /\ Cardinality(L) <= MaximumDegree(g)
<1>1. PICK B, d : B = g.nbrs[n] /\ d = MaximumDegree(g)
  BY Zenon
<1>2. B \in SUBSET InnerId /\ B \cup {id} \in SUBSET InnerId /\ d \in Nat /\ Cardinality(B) \in Nat
  <2>1. B \in SUBSET InnerId
    BY Zenon, <1>1 DEF Sound, IsGraph
  <2> QED BY Zenon, <1>1, <2>1, Degrees, IdSets
<1>3. CASE Cardinality(B) < d
  <2>1. L = B \cup {id}
    BY Zenon, <1>1, <1>3 DEF ListWith
  <2>2. Cardinality(B \cup {id}) <= d
    BY Zenon, <1>2, <1>3, OneMore
  <2> QED BY Zenon, <1>1, <1>2, <2>1, <2>2
<1>4. CASE ~(Cardinality(B) < d)
  <2>1. L \in SelectEdges(g, B \cup {id})
    BY Zenon, <1>1, <1>4 DEF ListWith
  <2>2. B \cup {id} \in SUBSET InnerId
    BY Zenon, <1>2
  <2>3. L \subseteq B \cup {id} /\ L \in SUBSET InnerId /\ Cardinality(L) <= MaximumDegree(g)
    BY Zenon, <2>1, <2>2, Selected
  <2> QED BY Zenon, <1>1, <2>3
<1> QED BY Zenon, <1>3, <1>4

(* h is g with a new node: connected to some of the given nodes, which may point back.   *)
Joined(h, g, id, V) ==
  /\ h.sparse = g.sparse /\ h.tracks = g.tracks /\ h.used
  /\ \E S \in SUBSET (V \ {id}) :
       /\ h.nbrs[id] = S
       /\ \A x \in S : h.nbrs[x] \subseteq g.nbrs[x] \cup {id}
       /\ \A x \in InnerId \ (S \cup {id}) : h.nbrs[x] = g.nbrs[x]
       /\ g.sparse => h.nodes = g.nodes \cup S \cup {id}

(* A list that replaces another in a sound graph. *)
LEMMA OneChangedSound ==
  ASSUME NEW g, Sound(g), NEW id \in InnerId, NEW S \in SUBSET InnerId, id \notin S,
         Cardinality(S) <= MaximumDegree(g), NEW h, OneChanged(h, g, id, S)
  PROVE  Sound(h)
<1>1. IsGraph(h) /\ h.sparse = g.sparse /\ h.tracks = g.tracks /\ h.nbrs[id] = S
      /\ \A x \in InnerId \ {id} : h.nbrs[x] = g.nbrs[x]
  BY Zenon DEF OneChanged
<1>2. h.tracks => Exact(h)
  BY Zenon DEF OneChanged, Sound
<1>3. MaximumDegree(h) = MaximumDegree(g)
  BY Zenon, <1>1, Degrees
<1>4. ASSUME NEW x \in InnerId PROVE Cardinality(h.nbrs[x]) <= MaximumDegree(h) /\ x \notin h.nbrs[x]
  <2>1. CASE x = id
    BY Zenon, <1>1, <1>3, <2>1
  <2>2. CASE x # id
    BY Zenon, <1>1, <1>3, <2>2 DEF Sound, Within, NoLoops
  <2> QED BY Zenon, <2>1, <2>2
<1> QED BY Zenon, <1>1, <1>2, <1>4 DEF Sound, Within, NoLoops

(* Lists that replace others in a sound graph. *)
LEMMA ChangedSound ==
  ASSUME NEW g, Sound(g), NEW f, IsLists(f), NEW h, h = InsertNeighborsById(g, f),
         \A x \in DOMAIN f : x \notin f[x] /\ Cardinality(f[x]) <= MaximumDegree(g)
  PROVE  Sound(h)
<1>0. IsGraph(g)
  BY Zenon DEF Sound
<1>1. Changed(h, g, f)
  BY Zenon, <1>0, Inserted
<1>2. IsGraph(h) /\ h.sparse = g.sparse /\ h.tracks = g.tracks
  BY Zenon, <1>1 DEF Changed
<1>3. h.tracks => Exact(h)
  BY Zenon, <1>0, <1>2, InsertedExact DEF Sound
<1>4. MaximumDegree(h) = MaximumDegree(g)
  BY Zenon, <1>2, Degrees
<1>5. ASSUME NEW x \in InnerId PROVE Cardinality(h.nbrs[x]) <= MaximumDegree(h) /\ x \notin h.nbrs[x]
  <2>1. CASE x \in DOMAIN f
    <3>1. h.nbrs[x] = f[x]
      BY Zenon, <1>1, <2>1 DEF Changed, Relisted
    <3> QED BY Zenon, <1>4, <2>1, <3>1
  <2>2. CASE x \notin DOMAIN f
    <3>1. h.nbrs[x] = g.nbrs[x]
      BY Zenon, <1>1, <2>2 DEF Changed, Relisted
    <3> QED BY Zenon, <1>4, <3>1 DEF Sound, Within, NoLoops
  <2> QED BY Zenon, <2>1, <2>2
<1> QED BY Zenon, <1>2, <1>3, <1>5 DEF Sound, Within, NoLoops

(* mutually_connect_new_element keeps a graph sound. *)
LEMMA ConnectedIsSound ==
  ASSUME NEW g, Sound(g), NEW id \in InnerId, NEW V \in SUBSET InnerId,
         NEW h, h \in Connected(g, id, V)
  PROVE  Sound(h) /\ Joined(h, g, id, V)
<1>1. PICK S \in UNION {SelectEdges(g, found) : found \in FoundBy(V \ {id})} :
        h \in {InsertNeighborsById(InsertNeighborsById(g, [i \in {id} |-> S]), f) :
                 f \in {f \in [S -> UNION {ListWith(g, n, id) : n \in S}] :
                          \A n \in S : f[n] \in ListWith(g, n, id)}}
  BY Zenon DEF Connected
<1>2. PICK found \in FoundBy(V \ {id}) : S \in SelectEdges(g, found)
  BY Zenon, <1>1
<1>3. PICK f \in [S -> UNION {ListWith(g, n, id) : n \in S}] :
        /\ \A n \in S : f[n] \in ListWith(g, n, id)
        /\ h = InsertNeighborsById(InsertNeighborsById(g, [i \in {id} |-> S]), f)
  BY Zenon, <1>1
<1>4. found \in SUBSET InnerId /\ found \subseteq V \ {id}
  BY Zenon, <1>2 DEF FoundBy
<1>5. S \in SUBSET InnerId /\ S \subseteq V \ {id} /\ Cardinality(S) <= MaximumDegree(g)
  BY Zenon, <1>2, <1>4, Selected
<1>6. PICK a : a = InsertNeighborsById(g, [i \in {id} |-> S])
  BY Zenon
<1>7. OneChanged(a, g, id, S) /\ IsGraph(g)
  BY Zenon, <1>5, <1>6, OneInserted DEF Sound
<1>8. Sound(a)
  BY Zenon, <1>5, <1>7, OneChangedSound
<1>9. \A n \in S : f[n] \subseteq g.nbrs[n] \cup {id} /\ f[n] \in SUBSET InnerId
                   /\ Cardinality(f[n]) <= MaximumDegree(g)
  BY Zenon, <1>3, <1>5, ListTaken
<1>10. IsLists(f) /\ DOMAIN f = S
  BY Zenon, <1>3, <1>5, <1>9 DEF IsLists
<1>11. h = InsertNeighborsById(a, f)
  BY Zenon, <1>3, <1>6
<1>12. a.sparse = g.sparse /\ a.tracks = g.tracks /\ a.used /\ a.nbrs[id] = S
       /\ \A x \in InnerId \ {id} : a.nbrs[x] = g.nbrs[x]
  BY Zenon, <1>7 DEF OneChanged
<1>13. \A x \in DOMAIN f : x \notin f[x] /\ Cardinality(f[x]) <= MaximumDegree(a)
  <2> SUFFICES ASSUME NEW x \in S PROVE x \notin f[x] /\ Cardinality(f[x]) <= MaximumDegree(a)
    BY Zenon, <1>10
  <2>1. x \in InnerId /\ x # id /\ x \notin g.nbrs[x]
    BY Zenon, <1>5 DEF Sound, NoLoops
  <2>2. MaximumDegree(a) = MaximumDegree(g)
    BY Zenon, <1>12, Degrees
  <2> QED BY Zenon, <1>9, <2>1, <2>2
<1>14. Sound(h)
  BY Zenon, <1>8, <1>10, <1>11, <1>13, ChangedSound
<1>15. Changed(h, a, f)
  BY Zenon, <1>8, <1>10, <1>11, Inserted DEF Sound
<1>16. /\ h.sparse = g.sparse /\ h.tracks = g.tracks /\ h.used
  BY Zenon, <1>12, <1>15 DEF Changed
<1>17. /\ h.nbrs[id] = S
       /\ \A x \in S : h.nbrs[x] \subseteq g.nbrs[x] \cup {id}
       /\ \A x \in InnerId \ (S \cup {id}) : h.nbrs[x] = g.nbrs[x]
  <2>1. \A x \in InnerId : x \in S => h.nbrs[x] = f[x]
    BY Zenon, <1>10, <1>15 DEF Changed, Relisted
  <2>2. \A x \in InnerId : x \notin S => h.nbrs[x] = a.nbrs[x]
    BY Zenon, <1>10, <1>15 DEF Changed, Relisted
  <2>3. id \notin S
    BY Zenon, <1>5
  <2> QED BY Zenon, <1>5, <1>9, <1>12, <2>1, <2>2, <2>3
<1>18. g.sparse => h.nodes = g.nodes \cup S \cup {id}
  <2> SUFFICES ASSUME g.sparse PROVE h.nodes = g.nodes \cup S \cup {id}
    BY Zenon
  <2>1. a.nodes = g.nodes \cup {id}
    BY Zenon, <1>7 DEF OneChanged
  <2>2. h.nodes = a.nodes \cup S
    BY Zenon, <1>10, <1>12, <1>15 DEF Changed
  <2> QED BY Zenon, <2>1, <2>2
<1> QED BY Zenon, <1>5, <1>14, <1>16, <1>17, <1>18 DEF Joined

(* publish_unique_to_graphs keeps a graph sound. *)
LEMMA PublishedIsSound ==
  ASSUME NEW g, Sound(g), NEW id \in InnerId, NEW start, NEW h, h \in Published(g, id, start)
  PROVE  /\ Sound(h)
         /\ \/ Joined(h, g, id, {})
            \/ g.used /\ Joined(h, g, id, Reach(g, {start}))
<1>1. CASE g.used
  <2>1. h \in Connected(g, id, Reach(g, {start})) /\ Reach(g, {start}) \in SUBSET InnerId
    BY Zenon, <1>1 DEF Published, Reach
  <2> QED BY Zenon, <1>1, <2>1, ConnectedIsSound
<1>2. CASE ~g.used
  <2>1. h = InsertNeighborsById(g, [i \in {id} |-> {}]) /\ {} \in SUBSET InnerId /\ IsGraph(g)
    BY Zenon, <1>2 DEF Published, Sound
  <2>2. OneChanged(h, g, id, {})
    BY Zenon, <2>1, OneInserted
  <2>3. Cardinality({}) <= MaximumDegree(g)
    BY Zenon, NoneWithin
  <2>4. Sound(h)
    BY Zenon, <2>1, <2>2, <2>3, OneChangedSound
  <2>5. Joined(h, g, id, {})
    BY Zenon, <2>2 DEF OneChanged, Joined
  <2> QED BY Zenon, <2>4, <2>5
<1> QED BY Zenon, <1>1, <1>2

-----------------------------------------------------------------------------
(* h is g without the edges of a removed node: live nodes no longer point to it, and may    *)
(* point to what it pointed to.                                                             *)
Parted(h, g, id) ==
  /\ h.sparse = g.sparse /\ h.tracks = g.tracks /\ (g.used => h.used)
  /\ h.nbrs[id] = {}
  /\ \A x \in LiveId : id \notin h.nbrs[x] /\ h.nbrs[x] \subseteq g.nbrs[x] \cup g.nbrs[id]
  /\ \A x \in InnerId \ LiveId : h.nbrs[x] = g.nbrs[x]
  /\ g.nodes \subseteq h.nodes
  /\ g.sparse => \A x \in InnerId \ h.nodes : h.nbrs[x] = g.nbrs[x]

(* graph_force_remove_one keeps a graph sound. *)
LEMMA DetachedIsSound ==
  ASSUME NEW g, Sound(g), g.tracks, LiveId \subseteq InnerId, NEW id \in LiveId,
         NEW h, h \in Detached(g, id)
  PROVE  Sound(h) /\ Parted(h, g, id)
<1>0. IsGraph(g) /\ Exact(g) /\ NoLoops(g) /\ id \in InnerId /\ LiveId = 0 .. total_count - 1
  BY Zenon DEF Sound, LiveId
<1>1. CASE g.nbrs[id] = {} /\ IncomingNeighbors(g, id) = {}
  <2>1. h = g
    BY Zenon, <1>1 DEF Detached
  <2>2. \A x \in InnerId : id \notin g.nbrs[x]
    BY Zenon, <1>0, <1>1 DEF Exact, IncomingNeighbors
  <2> QED BY Zenon, <1>1, <2>1, <2>2 DEF Parted
<1>2. CASE ~(g.nbrs[id] = {} /\ IncomingNeighbors(g, id) = {})
  <2>1. PICK A : A = (g.nbrs[id] \cup IncomingNeighbors(g, id)) \cap LiveId
    BY Zenon
  <2>3. PICK f : /\ DOMAIN f = A /\ f = [x \in A |-> f[x]]
                 /\ \A n \in A : f[n] \in SelectEdges(g, ((g.nbrs[n] \ {id}) \cup (g.nbrs[id] \ {id, n}))
                                                            \cap LiveId)
                 /\ h = InsertNeighborsById(InsertNeighborsById(g, f), [i \in {id} |-> {}])
    <3>1. h \in {InsertNeighborsById(InsertNeighborsById(g, f), [i \in {id} |-> {}]) :
                 f \in {r \in [A -> UNION {SelectEdges(g, ((g.nbrs[n] \ {id}) \cup (g.nbrs[id] \ {id, n}))
                                                            \cap LiveId) : n \in A}] :
                    \A n \in A : r[n] \in SelectEdges(g, ((g.nbrs[n] \ {id}) \cup (g.nbrs[id] \ {id, n}))
                                                            \cap LiveId)}}
      BY Zenon, <1>2, <2>1 DEF Detached, LiveId
    <3> QED BY Zenon, <3>1
  <2>4. A \in SUBSET InnerId /\ A \subseteq LiveId
    BY Zenon, <2>1
  <2>5. id \notin A
    <3>1. id \notin g.nbrs[id] /\ id \notin IncomingNeighbors(g, id)
      BY Zenon, <1>0 DEF NoLoops, Exact, IncomingNeighbors
    <3> QED BY Zenon, <2>1, <3>1
  <2>6. ASSUME NEW n \in A
        PROVE  /\ f[n] \in SUBSET InnerId /\ Cardinality(f[n]) <= MaximumDegree(g)
               /\ id \notin f[n] /\ n \notin f[n] /\ f[n] \subseteq g.nbrs[n] \cup g.nbrs[id]
    <3>1. PICK C : C = ((g.nbrs[n] \ {id}) \cup (g.nbrs[id] \ {id, n})) \cap LiveId
      BY Zenon
    <3>2. f[n] \in SelectEdges(g, C) /\ C \in SUBSET InnerId
      BY Zenon, <2>3, <3>1
    <3>3. f[n] \subseteq C /\ f[n] \in SUBSET InnerId /\ Cardinality(f[n]) <= MaximumDegree(g)
      BY Zenon, <3>2, Selected
    <3>4. n \notin g.nbrs[n]
      BY Zenon, <1>0, <2>4 DEF NoLoops
    <3> QED BY Zenon, <3>1, <3>3, <3>4
  <2>7. IsLists(f)
    <3>1. f \in [A -> SUBSET InnerId]
      BY Zenon, <2>3, <2>6
    <3> QED BY Zenon, <2>4, <3>1 DEF IsLists
  <2>8. PICK a : a = InsertNeighborsById(g, f)
    BY Zenon
  <2>9. \A x \in DOMAIN f : x \notin f[x] /\ Cardinality(f[x]) <= MaximumDegree(g)
    BY Zenon, <2>3, <2>6
  <2>10. Sound(a) /\ IsGraph(a)
    BY Zenon, <2>7, <2>8, <2>9, ChangedSound DEF Sound
  <2>11. Changed(a, g, f)
    BY Zenon, <1>0, <2>7, <2>8, Inserted
  <2>12. h = InsertNeighborsById(a, [i \in {id} |-> {}]) /\ {} \in SUBSET InnerId
    BY Zenon, <2>3, <2>8
  <2>13. OneChanged(h, a, id, {})
    BY Zenon, <1>0, <2>10, <2>12, OneInserted
  <2>14. Cardinality({}) <= MaximumDegree(a)
    BY Zenon, NoneWithin
  <2>15. Sound(h)
    BY Zenon, <1>0, <2>10, <2>12, <2>13, <2>14, OneChangedSound
  <2>16. h.sparse = a.sparse /\ h.tracks = a.tracks /\ h.used /\ h.nbrs[id] = {}
         /\ (\A x \in InnerId \ {id} : h.nbrs[x] = a.nbrs[x])
         /\ (a.sparse => h.nodes = a.nodes \cup {id}) /\ (~a.sparse => h.nodes = a.nodes)
    BY Zenon, <2>13 DEF OneChanged
  <2>17. a.sparse = g.sparse /\ a.tracks = g.tracks /\ (g.sparse => a.nodes = g.nodes \cup A)
         /\ (~g.sparse => a.nodes = g.nodes)
    BY Zenon, <2>3, <2>11 DEF Changed
  <2>18. \A x \in InnerId : (x \in A => a.nbrs[x] = f[x]) /\ (x \notin A => a.nbrs[x] = g.nbrs[x])
    BY Zenon, <2>3, <2>11 DEF Changed, Relisted
  <2>19. ASSUME NEW x \in LiveId
         PROVE  id \notin h.nbrs[x] /\ h.nbrs[x] \subseteq g.nbrs[x] \cup g.nbrs[id]
    <3>1. CASE x = id
      BY Zenon, <2>16, <3>1
    <3>2. CASE x \in A
      <4>1. h.nbrs[x] = f[x]
        BY Zenon, <2>4, <2>5, <2>16, <2>18, <3>2
      <4> QED BY Zenon, <2>6, <3>2, <4>1
    <3>3. CASE x # id /\ x \notin A
      <4>1. h.nbrs[x] = g.nbrs[x]
        BY Zenon, <2>16, <2>18, <3>3
      <4>2. id \notin g.nbrs[x]
        BY Zenon, <1>0, <2>1, <3>3 DEF Exact, IncomingNeighbors
      <4> QED BY Zenon, <4>1, <4>2
    <3> QED BY Zenon, <3>1, <3>2, <3>3
  <2>20. \A x \in InnerId \ LiveId : h.nbrs[x] = g.nbrs[x]
    BY Zenon, <2>4, <2>16, <2>18
  <2>21. g.nodes \subseteq h.nodes
    BY Zenon, <2>16, <2>17, <1>0 DEF IsGraph
  <2>22. g.sparse => \A x \in InnerId \ h.nodes : h.nbrs[x] = g.nbrs[x]
    BY Zenon, <2>16, <2>17, <2>18
  <2> QED BY Zenon, <2>15, <2>16, <2>17, <2>19, <2>20, <2>21, <2>22 DEF Parted
<1> QED BY Zenon, <1>1, <1>2

(* m is g after MoveNode, which leaves some graphs alone. *)
MovedOrNot(m, g, from, to) ==
  /\ Sound(m) /\ m.sparse = g.sparse /\ m.tracks = g.tracks /\ (g.used => m.used)
  /\ \/ m = g /\ (from = to \/ (g.sparse /\ from \notin g.nodes))
     \/ Shifted(m, g, from, to) /\ from # to

(* Move keeps a graph sound. *)
LEMMA MoveIsSound ==
  ASSUME NEW g, Sound(g), g.tracks, NEW from \in InnerId, NEW to \in InnerId,
         g.nbrs[to] = {}, to \notin g.nbrs[from], NEW m, m = MoveNode(g, from, to)
  PROVE  MovedOrNot(m, g, from, to)
<1>1. CASE from = to \/ (g.sparse /\ from \notin g.nodes)
  <2>1. m = g
    BY Zenon, <1>1 DEF MoveNode
  <2> QED BY Zenon, <1>1, <2>1 DEF MovedOrNot
<1>2. CASE ~(from = to \/ (g.sparse /\ from \notin g.nodes))
  <2>1. from # to /\ ~(g.sparse /\ from \notin g.nodes) /\ IsGraph(g) /\ Exact(g) /\ from \notin g.nbrs[from]
    BY Zenon, <1>2 DEF Sound, NoLoops
  <2>2. /\ IsGraph(m) /\ m.sparse = g.sparse /\ m.tracks = g.tracks /\ m.used
        /\ Exact(m) /\ Shifted(m, g, from, to)
    <3>1. MovedTo(m, g, from, to)
      BY Zenon, <2>1, Moved
    <3> QED BY Zenon, <3>1 DEF MovedTo
  <2>3. MaximumDegree(m) = MaximumDegree(g) /\ MaximumDegree(g) \in Nat
    BY Zenon, <2>2, Degrees
  <2>4. ASSUME NEW x \in InnerId PROVE Cardinality(m.nbrs[x]) <= MaximumDegree(g) /\ x \notin m.nbrs[x]
    <3>1. Cardinality(g.nbrs[x]) <= MaximumDegree(g) /\ x \notin g.nbrs[x] /\ g.nbrs[x] \in SUBSET InnerId
      BY Zenon DEF Sound, Within, NoLoops, IsGraph
    <3>2. CASE x = from
      <4>1. m.nbrs[x] = {}
        BY Zenon, <2>2, <3>2 DEF Shifted
      <4> QED BY <2>3, <4>1, NoneIsZero
    <3>3. CASE x = to
      <4>1. m.nbrs[x] = g.nbrs[from] /\ x \notin g.nbrs[from]
        BY Zenon, <2>2, <3>3 DEF Shifted
      <4> QED BY Zenon, <4>1 DEF Sound, Within
    <3>4. CASE x # from /\ x # to /\ from \in g.nbrs[x]
      <4>1. m.nbrs[x] = (g.nbrs[x] \ {from}) \cup {to}
        BY Zenon, <2>2, <3>4 DEF Shifted
      <4>2. Cardinality((g.nbrs[x] \ {from}) \cup {to}) <= Cardinality(g.nbrs[x])
        BY Zenon, <3>1, <3>4, OneReplaced
      <4>3. (g.nbrs[x] \ {from}) \cup {to} \in SUBSET InnerId
        BY Zenon, <3>1
      <4>4. Cardinality((g.nbrs[x] \ {from}) \cup {to}) \in Nat /\ Cardinality(g.nbrs[x]) \in Nat
        BY Zenon, <3>1, <4>3, IdSets
      <4>5. Cardinality((g.nbrs[x] \ {from}) \cup {to}) <= MaximumDegree(g)
        BY <2>3, <3>1, <4>2, <4>4
      <4> QED BY Zenon, <3>1, <3>4, <4>1, <4>5
    <3>5. CASE x # from /\ x # to /\ from \notin g.nbrs[x]
      <4>1. m.nbrs[x] = g.nbrs[x]
        BY Zenon, <2>2, <3>5 DEF Shifted
      <4> QED BY Zenon, <3>1, <4>1
    <3> QED BY Zenon, <3>2, <3>3, <3>4, <3>5
  <2>5. Sound(m)
    <3>1. Within(m, MaximumDegree(m)) /\ NoLoops(m)
      BY Zenon, <2>3, <2>4 DEF Within, NoLoops
    <3> QED BY Zenon, <2>2, <3>1 DEF Sound
  <2> QED BY Zenon, <2>1, <2>2, <2>5 DEF MovedOrNot
<1> QED BY Zenon, <1>1, <1>2

-----------------------------------------------------------------------------
(* A route graph of an index whose elements are L: only elements have lists, which mention      *)
(* elements that are nodes of the graph.                                                       *)
RouteOK(g, L) ==
  /\ Sound(g) /\ g.sparse
  /\ \A x \in InnerId : g.nbrs[x] \subseteq L \cap g.nodes
  /\ \A x \in InnerId \ L : g.nbrs[x] = {}
  /\ \A x \in InnerId \ g.nodes : g.nbrs[x] = {}

(* The bottom graph of an index whose elements are L.  A search that starts at a dead entry     *)
(* point gives lists to ids that are not elements: they only mention smaller ids.              *)
BottomOK(g, L) ==
  /\ Sound(g) /\ ~g.sparse
  /\ \A x \in InnerId \ L : g.nbrs[x] \subseteq Below(x)

(* No element's list mentions an id that is not one. *)
LivesIn(g, L) == \A x \in L : g.nbrs[x] \subseteq L \ {x}

(* Nothing outside a closed set is reached from inside. *)
LEMMA ReachWithin ==
  ASSUME NEW g, NEW T \in SUBSET InnerId, NEW start \in T, \A x \in T : g.nbrs[x] \subseteq T
  PROVE  Reach(g, {start}) \subseteq T
  BY Zenon DEF Reach

(* What a route graph is after an addition: it has the node. *)
RouteJoined(h, g, L, id) ==
  RouteOK(h, L \cup {id}) /\ h.tracks = g.tracks /\ id \in h.nodes /\ g.nodes \subseteq h.nodes

(* A new element in a route graph. *)
LEMMA RouteAdd ==
  ASSUME NEW L \in SUBSET InnerId, NEW id \in InnerId, id \notin L,
         NEW g, RouteOK(g, L), NEW start, g.used => start \in L,
         NEW h, h \in Published(g, id, start)
  PROVE  RouteJoined(h, g, L, id)
<1>0. Sound(g) /\ g.sparse /\ (\A x \in InnerId : g.nbrs[x] \subseteq L \cap g.nodes)
      /\ (\A x \in InnerId \ L : g.nbrs[x] = {}) /\ (\A x \in InnerId \ g.nodes : g.nbrs[x] = {})
  BY Zenon DEF RouteOK
<1>1. /\ Sound(h)
      /\ \/ Joined(h, g, id, {})
         \/ g.used /\ Joined(h, g, id, Reach(g, {start}))
  BY Zenon, <1>0, PublishedIsSound
<1>2. g.used => Reach(g, {start}) \subseteq L
  <2> SUFFICES ASSUME g.used PROVE Reach(g, {start}) \subseteq L
    BY Zenon
  <2>1. start \in L /\ \A x \in L : g.nbrs[x] \subseteq L
    BY Zenon, <1>0
  <2> QED BY Zenon, <2>1, ReachWithin
<1>3. PICK V : V \subseteq L /\ Joined(h, g, id, V)
  BY Zenon, <1>1, <1>2
<1>4. h.sparse = g.sparse /\ h.tracks = g.tracks
  BY Zenon, <1>3 DEF Joined
<1>5. PICK S \in SUBSET (V \ {id}) :
       /\ h.nbrs[id] = S
       /\ \A x \in S : h.nbrs[x] \subseteq g.nbrs[x] \cup {id}
       /\ \A x \in InnerId \ (S \cup {id}) : h.nbrs[x] = g.nbrs[x]
       /\ h.nodes = g.nodes \cup S \cup {id}
  BY Zenon, <1>0, <1>3 DEF Joined
<1>6. S \subseteq L
  BY Zenon, <1>3
<1>7. ASSUME NEW x \in InnerId
      PROVE  /\ h.nbrs[x] \subseteq (L \cup {id}) \cap h.nodes
             /\ x \notin L \cup {id} => h.nbrs[x] = {}
             /\ x \notin h.nodes => h.nbrs[x] = {}
  <2>1. CASE x = id
    BY Zenon, <1>5, <1>6, <2>1
  <2>2. CASE x \in S
    BY Zenon, <1>0, <1>5, <1>6, <2>2
  <2>3. CASE x # id /\ x \notin S
    <3>1. h.nbrs[x] = g.nbrs[x]
      BY Zenon, <1>5, <2>3
    <3> QED BY Zenon, <1>0, <1>5, <3>1
  <2> QED BY Zenon, <2>1, <2>2, <2>3
<1>8. RouteOK(h, L \cup {id})
  BY Zenon, <1>0, <1>1, <1>4, <1>7 DEF RouteOK
<1> QED BY Zenon, <1>4, <1>5, <1>8 DEF RouteJoined

(* What the bottom graph is after an addition. *)
BottomJoined(h, g, L, id) ==
  BottomOK(h, L \cup {id}) /\ h.tracks = g.tracks /\ h.used

(* A new element in the bottom graph. *)
LEMMA BottomAdd ==
  ASSUME NEW L \in SUBSET InnerId, NEW id \in InnerId,
         \A x \in InnerId \ (L \cup {id}) : id \in Below(x),
         NEW g, BottomOK(g, L), NEW start, NEW h, h \in Published(g, id, start)
  PROVE  BottomJoined(h, g, L, id)
<1>0. Sound(g) /\ ~g.sparse /\ (\A x \in InnerId \ L : g.nbrs[x] \subseteq Below(x))
  BY Zenon DEF BottomOK
<1>1. PICK V : Sound(h) /\ Joined(h, g, id, V)
  BY Zenon, <1>0, PublishedIsSound
<1>2. h.sparse = g.sparse /\ h.tracks = g.tracks /\ h.used
  BY Zenon, <1>1 DEF Joined
<1>3. PICK S \in SUBSET (V \ {id}) :
       /\ \A x \in S : h.nbrs[x] \subseteq g.nbrs[x] \cup {id}
       /\ \A x \in InnerId \ (S \cup {id}) : h.nbrs[x] = g.nbrs[x]
  BY Zenon, <1>1 DEF Joined
<1>4. \A x \in InnerId \ (L \cup {id}) : h.nbrs[x] \subseteq Below(x)
  BY Zenon, <1>0, <1>3
<1> QED BY Zenon, <1>0, <1>1, <1>2, <1>4 DEF BottomOK, BottomJoined

(* A new element in the bottom graph, where no list mentions an id that is not an element. *)
LEMMA BottomAddLives ==
  ASSUME NEW L \in SUBSET InnerId, NEW id \in InnerId, id \notin L, Below(id) = L,
         NEW g, BottomOK(g, L), LivesIn(g, L), NEW start, g.used => start \in L \cup {id},
         NEW h, h \in Published(g, id, start)
  PROVE  LivesIn(h, L \cup {id})
<1>0. Sound(g) /\ (\A x \in InnerId \ L : g.nbrs[x] \subseteq Below(x))
  BY Zenon DEF BottomOK
<1>1. /\ Sound(h)
      /\ \/ Joined(h, g, id, {})
         \/ g.used /\ Joined(h, g, id, Reach(g, {start}))
  BY Zenon, <1>0, PublishedIsSound
<1>2. g.used => Reach(g, {start}) \subseteq L \cup {id}
  <2> SUFFICES ASSUME g.used PROVE Reach(g, {start}) \subseteq L \cup {id}
    BY Zenon
  <2>1. PICK T : T = L \cup {id}
    BY Zenon
  <2>2. start \in T /\ T \in SUBSET InnerId
    BY Zenon, <2>1
  <2>3. g.nbrs[id] \subseteq L
    BY Zenon, <1>0
  <2>4. \A x \in T : g.nbrs[x] \subseteq T
    BY Zenon, <2>1, <2>3 DEF LivesIn
  <2> QED BY Zenon, <2>1, <2>2, <2>4, ReachWithin
<1>3. PICK V : V \subseteq L \cup {id} /\ Joined(h, g, id, V)
  BY Zenon, <1>1, <1>2
<1>4. PICK S \in SUBSET (V \ {id}) :
       /\ h.nbrs[id] = S
       /\ \A x \in S : h.nbrs[x] \subseteq g.nbrs[x] \cup {id}
       /\ \A x \in InnerId \ (S \cup {id}) : h.nbrs[x] = g.nbrs[x]
  BY Zenon, <1>3 DEF Joined
<1>5. S \subseteq L
  BY Zenon, <1>3
<1>6. ASSUME NEW x \in L \cup {id} PROVE h.nbrs[x] \subseteq (L \cup {id}) \ {x}
  <2>1. x \notin h.nbrs[x]
    BY Zenon, <1>1 DEF Sound, NoLoops
  <2>2. CASE x = id
    BY Zenon, <1>4, <1>5, <2>1, <2>2
  <2>3. CASE x # id
    <3>1. g.nbrs[x] \subseteq L
      BY Zenon, <2>3 DEF LivesIn
    <3>2. h.nbrs[x] \subseteq g.nbrs[x] \cup {id}
      BY Zenon, <1>4, <2>3
    <3> QED BY Zenon, <2>1, <3>1, <3>2
  <2> QED BY Zenon, <2>2, <2>3
<1> QED BY Zenon, <1>6 DEF LivesIn

-----------------------------------------------------------------------------
(* What a route graph is after a physical removal: the last element has the id of the removed   *)
(* one, and every other node stays one.                                                        *)
RouteParted(m, g, K, last, id) ==
  /\ RouteOK(m, K) /\ m.tracks = g.tracks
  /\ \A x \in g.nodes : x # last => x \in m.nodes
  /\ last # id /\ last \in g.nodes => id \in m.nodes

(* A physical removal in a route graph. *)
LEMMA RouteRemove ==
  ASSUME NEW K, NEW last, last \notin K, LiveId = K \cup {last}, LiveId \subseteq InnerId,
         NEW id \in LiveId, NEW g, RouteOK(g, LiveId), g.tracks,
         NEW h, h \in Detached(g, id), NEW m, m = MoveNode(h, last, id)
  PROVE  RouteParted(m, g, K, last, id)
<1>0. Sound(g) /\ g.sparse /\ (\A x \in InnerId : g.nbrs[x] \subseteq LiveId \cap g.nodes)
      /\ (\A x \in InnerId \ LiveId : g.nbrs[x] = {}) /\ (\A x \in InnerId \ g.nodes : g.nbrs[x] = {})
  BY Zenon DEF RouteOK
<1>1. Sound(h) /\ Parted(h, g, id)
  BY Zenon, <1>0, DetachedIsSound
<1>2. /\ h.sparse = g.sparse /\ h.tracks = g.tracks /\ h.nbrs[id] = {}
      /\ \A x \in LiveId : id \notin h.nbrs[x] /\ h.nbrs[x] \subseteq g.nbrs[x] \cup g.nbrs[id]
      /\ \A x \in InnerId \ LiveId : h.nbrs[x] = g.nbrs[x]
      /\ g.nodes \subseteq h.nodes
      /\ \A x \in InnerId \ h.nodes : h.nbrs[x] = g.nbrs[x]
  BY Zenon, <1>0, <1>1 DEF Parted
<1>3. last \in InnerId /\ id \in InnerId /\ last \in LiveId
  BY Zenon
<1>4. ASSUME NEW x \in InnerId
      PROVE  /\ h.nbrs[x] \subseteq (LiveId \cap h.nodes) \ {id} /\ x \notin h.nbrs[x]
             /\ x \notin LiveId => h.nbrs[x] = {}
             /\ x \notin h.nodes => h.nbrs[x] = {}
  <2>1. x \notin h.nbrs[x]
    BY Zenon, <1>1 DEF Sound, NoLoops
  <2>2. x \notin LiveId => h.nbrs[x] = {}
    BY Zenon, <1>0, <1>2
  <2>3. x \notin h.nodes => h.nbrs[x] = {}
    BY Zenon, <1>0, <1>2
  <2>4. CASE x \in LiveId
    <3>1. g.nbrs[x] \subseteq LiveId \cap g.nodes /\ g.nbrs[id] \subseteq LiveId \cap g.nodes
      BY Zenon, <1>0, <1>3
    <3>2. id \notin h.nbrs[x] /\ h.nbrs[x] \subseteq g.nbrs[x] \cup g.nbrs[id]
      BY Zenon, <1>2, <2>4
    <3> QED BY Zenon, <1>2, <2>1, <2>2, <2>3, <3>1, <3>2
  <2>5. CASE x \notin LiveId
    BY Zenon, <2>1, <2>2, <2>3, <2>5
  <2> QED BY Zenon, <2>4, <2>5
<1>5. /\ Sound(m) /\ m.sparse = h.sparse /\ m.tracks = h.tracks
      /\ \/ m = h /\ (last = id \/ (h.sparse /\ last \notin h.nodes))
         \/ Shifted(m, h, last, id) /\ last # id
  <2>1. h.tracks /\ h.nbrs[id] = {} /\ id \notin h.nbrs[last]
    BY Zenon, <1>2, <1>3
  <2>2. MovedOrNot(m, h, last, id)
    BY Zenon, <1>1, <1>3, <2>1, MoveIsSound
  <2> QED BY Zenon, <2>2 DEF MovedOrNot
<1>6. Sound(m) /\ m.sparse /\ m.tracks = g.tracks
  BY Zenon, <1>0, <1>2, <1>5
<1>7. CASE m = h /\ (last = id \/ (h.sparse /\ last \notin h.nodes))
  <2>1. ASSUME NEW x \in InnerId
        PROVE  /\ m.nbrs[x] \subseteq K \cap m.nodes
               /\ x \notin K => m.nbrs[x] = {}
               /\ x \notin m.nodes => m.nbrs[x] = {}
    <3>1. m.nbrs[x] \subseteq K \cap m.nodes
      BY Zenon, <1>4, <1>7
    <3>2. x \notin K => m.nbrs[x] = {}
      BY Zenon, <1>2, <1>4, <1>7
    <3> QED BY Zenon, <1>4, <1>7, <3>1, <3>2
  <2>2. RouteOK(m, K)
    BY Zenon, <1>6, <2>1 DEF RouteOK
  <2> QED BY Zenon, <1>2, <1>6, <1>7, <2>2 DEF RouteParted
<1>8. CASE Shifted(m, h, last, id) /\ last # id
  <2>1. /\ m.nbrs[last] = {} /\ m.nbrs[id] = h.nbrs[last]
        /\ \A x \in InnerId \ {last, id} :
             \/ last \in h.nbrs[x] /\ m.nbrs[x] = (h.nbrs[x] \ {last}) \cup {id}
             \/ last \notin h.nbrs[x] /\ m.nbrs[x] = h.nbrs[x]
    BY Zenon, <1>8 DEF Shifted
  <2>2. m.nodes = (h.nodes \cup {id} \cup h.rev[last]) \ {last}
    BY Zenon, <1>0, <1>2, <1>8 DEF Shifted
  <2>3. id \in K /\ id \in m.nodes /\ \A x \in h.nodes : x # last => x \in m.nodes
    BY Zenon, <1>8, <2>2
  <2>4. ASSUME NEW x \in InnerId
        PROVE  /\ m.nbrs[x] \subseteq K \cap m.nodes
               /\ x \notin K => m.nbrs[x] = {}
               /\ x \notin m.nodes => m.nbrs[x] = {}
    <3>1. CASE x = last
      BY Zenon, <2>1, <3>1
    <3>2. CASE x = id
      <4>1. h.nbrs[last] \subseteq (LiveId \cap h.nodes) \ {id} /\ last \notin h.nbrs[last]
        BY Zenon, <1>3, <1>4
      <4>2. h.nbrs[last] \subseteq K \cap m.nodes
        BY Zenon, <2>3, <4>1
      <4> QED BY Zenon, <2>1, <2>3, <3>2, <4>2
    <3>3. CASE x # last /\ x # id
      <4>1. /\ h.nbrs[x] \subseteq LiveId \cap h.nodes
            /\ x \notin LiveId => h.nbrs[x] = {}
            /\ x \notin h.nodes => h.nbrs[x] = {}
        BY Zenon, <1>4
      <4>2. \/ last \in h.nbrs[x] /\ m.nbrs[x] = (h.nbrs[x] \ {last}) \cup {id}
            \/ last \notin h.nbrs[x] /\ m.nbrs[x] = h.nbrs[x]
        BY Zenon, <2>1, <3>3
      <4>3. m.nbrs[x] \subseteq K \cap m.nodes
        BY Zenon, <2>3, <4>1, <4>2
      <4>4. h.nbrs[x] = {} => m.nbrs[x] = {}
        BY Zenon, <4>2
      <4>5. (x \notin K => x \notin LiveId) /\ (x \notin m.nodes => x \notin h.nodes)
        BY Zenon, <2>3, <3>3
      <4> QED BY Zenon, <4>1, <4>3, <4>4, <4>5
    <3> QED BY Zenon, <3>1, <3>2, <3>3
  <2>5. RouteOK(m, K)
    BY Zenon, <1>6, <2>4 DEF RouteOK
  <2> QED BY Zenon, <1>2, <1>6, <2>3, <2>5 DEF RouteParted
<1> QED BY Zenon, <1>5, <1>7, <1>8

(* What the bottom graph is after a physical removal. *)
BottomParted(m, g, K) ==
  /\ BottomOK(m, K) /\ m.tracks = g.tracks /\ (g.used => m.used)
  /\ LivesIn(g, LiveId) => LivesIn(m, K)

(* A physical removal in the bottom graph. *)
LEMMA BottomRemove ==
  ASSUME NEW K, NEW last, last \notin K, LiveId = K \cup {last}, LiveId \subseteq InnerId,
         NEW id \in LiveId, \A x \in InnerId \ LiveId : id \in Below(x),
         NEW g, BottomOK(g, LiveId), g.tracks,
         NEW h, h \in Detached(g, id), NEW m, m = MoveNode(h, last, id)
  PROVE  BottomParted(m, g, K)
<1>0. Sound(g) /\ ~g.sparse /\ (\A x \in InnerId \ LiveId : g.nbrs[x] \subseteq Below(x))
  BY Zenon DEF BottomOK
<1>1. Sound(h) /\ Parted(h, g, id)
  BY Zenon, <1>0, DetachedIsSound
<1>2. /\ h.sparse = g.sparse /\ h.tracks = g.tracks /\ (g.used => h.used) /\ h.nbrs[id] = {}
      /\ \A x \in LiveId : id \notin h.nbrs[x] /\ h.nbrs[x] \subseteq g.nbrs[x] \cup g.nbrs[id]
      /\ \A x \in InnerId \ LiveId : h.nbrs[x] = g.nbrs[x]
  BY Zenon, <1>1 DEF Parted
<1>3. last \in InnerId /\ id \in InnerId /\ last \in LiveId
  BY Zenon
<1>4. /\ Sound(m) /\ m.sparse = h.sparse /\ m.tracks = h.tracks /\ (h.used => m.used)
      /\ \/ m = h /\ (last = id \/ (h.sparse /\ last \notin h.nodes))
         \/ Shifted(m, h, last, id) /\ last # id
  <2>1. h.tracks /\ h.nbrs[id] = {} /\ id \notin h.nbrs[last]
    BY Zenon, <1>2, <1>3
  <2>2. MovedOrNot(m, h, last, id)
    BY Zenon, <1>1, <1>3, <2>1, MoveIsSound
  <2> QED BY Zenon, <2>2 DEF MovedOrNot
<1>5. Sound(m) /\ ~m.sparse /\ m.tracks = g.tracks /\ (g.used => m.used)
  BY Zenon, <1>0, <1>2, <1>4
<1>6. LivesIn(g, LiveId) => \A x \in LiveId : h.nbrs[x] \subseteq LiveId \ {id}
  <2> SUFFICES ASSUME LivesIn(g, LiveId), NEW x \in LiveId PROVE h.nbrs[x] \subseteq LiveId \ {id}
    BY Zenon
  <2>1. g.nbrs[x] \subseteq LiveId /\ g.nbrs[id] \subseteq LiveId
    BY Zenon DEF LivesIn
  <2> QED BY Zenon, <1>2, <2>1
<1>7. CASE m = h /\ last = id
  <2>1. \A x \in InnerId \ K : m.nbrs[x] \subseteq Below(x)
    BY Zenon, <1>0, <1>2, <1>7
  <2>2. LivesIn(g, LiveId) => LivesIn(m, K)
    <3> SUFFICES ASSUME LivesIn(g, LiveId), NEW x \in K PROVE m.nbrs[x] \subseteq K \ {x}
      BY Zenon DEF LivesIn
    <3>1. h.nbrs[x] \subseteq LiveId \ {id} /\ x \notin h.nbrs[x]
      BY Zenon, <1>1, <1>6 DEF Sound, NoLoops
    <3> QED BY Zenon, <1>7, <3>1
  <2> QED BY Zenon, <1>5, <2>1, <2>2 DEF BottomOK, BottomParted
<1>8. CASE Shifted(m, h, last, id) /\ last # id
  <2>1. /\ m.nbrs[last] = {} /\ m.nbrs[id] = h.nbrs[last]
        /\ \A x \in InnerId \ {last, id} :
             \/ last \in h.nbrs[x] /\ m.nbrs[x] = (h.nbrs[x] \ {last}) \cup {id}
             \/ last \notin h.nbrs[x] /\ m.nbrs[x] = h.nbrs[x]
    BY Zenon, <1>8 DEF Shifted
  <2>2. id \in K
    BY Zenon, <1>8
  <2>3. ASSUME NEW x \in InnerId \ K PROVE m.nbrs[x] \subseteq Below(x)
    <3>1. CASE x = last
      BY Zenon, <2>1, <3>1
    <3>2. CASE x # last
      <4>1. x \in InnerId \ LiveId /\ x # id
        BY Zenon, <2>2, <3>2
      <4>2. h.nbrs[x] \subseteq Below(x) /\ id \in Below(x)
        BY Zenon, <1>0, <1>2, <4>1
      <4>3. m.nbrs[x] = (h.nbrs[x] \ {last}) \cup {id} \/ m.nbrs[x] = h.nbrs[x]
        BY Zenon, <2>1, <3>2, <4>1
      <4> QED BY Zenon, <4>2, <4>3
    <3> QED BY Zenon, <3>1, <3>2
  <2>4. LivesIn(g, LiveId) => LivesIn(m, K)
    <3> SUFFICES ASSUME LivesIn(g, LiveId), NEW x \in K PROVE m.nbrs[x] \subseteq K \ {x}
      BY Zenon DEF LivesIn
    <3>1. x \notin m.nbrs[x] /\ x \in InnerId /\ x # last /\ x \in LiveId
      BY Zenon, <1>5 DEF Sound, NoLoops
    <3>2. CASE x = id
      <4>1. m.nbrs[x] = h.nbrs[last] /\ last \notin h.nbrs[last] /\ h.nbrs[last] \subseteq LiveId
        BY Zenon, <1>1, <1>3, <1>6, <2>1, <3>2 DEF Sound, NoLoops
      <4> QED BY Zenon, <3>1, <4>1
    <3>3. CASE x # id
      <4>1. h.nbrs[x] \subseteq LiveId
        BY Zenon, <1>6, <3>1
      <4>2. \/ last \in h.nbrs[x] /\ m.nbrs[x] = (h.nbrs[x] \ {last}) \cup {id}
            \/ last \notin h.nbrs[x] /\ m.nbrs[x] = h.nbrs[x]
        BY Zenon, <2>1, <3>1, <3>3
      <4> QED BY Zenon, <2>2, <3>1, <4>1, <4>2
    <3> QED BY Zenon, <3>2, <3>3
  <2> QED BY Zenon, <1>5, <2>3, <2>4 DEF BottomOK, BottomParted
<1>9. (m = h /\ last = id) \/ (Shifted(m, h, last, id) /\ last # id)
  BY Zenon, <1>0, <1>2, <1>4
<1> QED BY Zenon, <1>7, <1>8, <1>9

=============================================================================
