-------------------------- MODULE LabelTableProofs --------------------------
(***************************************************************************)
(* What the operations of LabelTable preserve, for any labels.  A table with    *)
(* n elements agrees with its reverse map on a set S of ids: on all of them     *)
(* where a removed label is not used again, on those that are not tombstones    *)
(* where it may be.                                                         *)
(***************************************************************************)
EXTENDS LabelTable, FiniteSetTheorems, TLAPS

(* A label table as a record, whatever its members hold. *)
IsTable(t) ==
  t = [table |-> t.table, remap |-> t.remap, deleted |-> t.deleted, count |-> t.count]

(* The ids of n elements. *)
Ids(n) == 0 .. n - 1

(* The members of a table with n elements; label_table_ may be longer. *)
Shape(t, n) ==
  /\ IsTable(t)
  /\ \E m \in Nat : n <= m /\ t.table \in [Ids(m) -> Label]
  /\ DOMAIN t.remap \subseteq Label /\ t.remap \in [DOMAIN t.remap -> Ids(n)]
  /\ t.deleted \subseteq Ids(n)
  /\ t.count = n

(* The reverse map leads to an entry with the label. *)
Names(t) == \A l \in DOMAIN t.remap : t.table[t.remap[l]] = l

(* The elements of S are found under their labels. *)
Resolves(t, S) == \A i \in S : t.table[i] \in DOMAIN t.remap /\ t.remap[t.table[i]] = i

Agrees(t, n, S) == Shape(t, n) /\ Names(t) /\ Resolves(t, S)

-----------------------------------------------------------------------------
(* Rounding up to a multiple of d never returns less than it was given. *)
LEMMA DivisionCovers ==
  ASSUME NEW n \in Nat, NEW d \in Nat \ {0}
  PROVE  ((n + d - 1) \div d) * d \in Nat /\ ((n + d - 1) \div d) * d >= n
<1> DEFINE m == n + d - 1
<1>1. m \in Nat /\ m >= n
  OBVIOUS
<1>2. m = d * (m \div d) + (m % d) /\ m % d \in 0 .. d - 1 /\ m \div d \in Nat
  BY <1>1
<1> QED BY <1>1, <1>2

(* Rounding down to a multiple of d is monotone. *)
LEMMA DivisionMonotone ==
  ASSUME NEW a \in Nat, NEW b \in Nat, a <= b, NEW d \in Nat \ {0}
  PROVE  (a \div d) * d <= (b \div d) * d
<1>1. a = d * (a \div d) + (a % d) /\ a % d \in 0 .. d - 1 /\ a \div d \in Nat
  OBVIOUS
<1>2. b = d * (b \div d) + (b % d) /\ b % d \in 0 .. d - 1 /\ b \div d \in Nat
  OBVIOUS
<1>3. a \div d <= b \div d
  BY <1>1, <1>2
<1> QED BY <1>1, <1>2, <1>3

(* The ids of n elements are n. *)
LEMMA IdsCount ==
  ASSUME NEW n \in Nat
  PROVE  IsFiniteSet(Ids(n)) /\ Cardinality(Ids(n)) = n
<1> PICK m \in Int : m = n - 1
  BY SMT
<1>1. IsFiniteSet(0 .. m) /\ Cardinality(0 .. m) = IF 0 > m THEN 0 ELSE m - 0 + 1
  BY FS_Interval
<1> QED BY <1>1 DEF Ids

(* Replacing one member of a table keeps the others. *)
LEMMA Replaced ==
  ASSUME NEW t, IsTable(t), NEW T, NEW D
  PROVE  /\ [t EXCEPT !.table = T] =
              [table |-> T, remap |-> t.remap, deleted |-> t.deleted, count |-> t.count]
         /\ [t EXCEPT !.deleted = D] =
              [table |-> t.table, remap |-> t.remap, deleted |-> D, count |-> t.count]
<1>1. PICK a, b, c, d : /\ t = [table |-> a, remap |-> b, deleted |-> c, count |-> d]
                        /\ a = t.table /\ b = t.remap /\ c = t.deleted /\ d = t.count
  BY Zenon DEF IsTable
<1>2. PICK u : u = [t EXCEPT !.table = T]
  BY Zenon
<1>3. PICK v : v = [t EXCEPT !.deleted = D]
  BY Zenon
<1>4. /\ u = [table |-> T, remap |-> b, deleted |-> c, count |-> d]
      /\ v = [table |-> a, remap |-> b, deleted |-> D, count |-> d]
  BY SMT, <1>1, <1>2, <1>3
<1> QED BY SMT, <1>1, <1>2, <1>3, <1>4

(* A table agrees on fewer ids when it agrees on more. *)
LEMMA AgreesOnFewer ==
  ASSUME NEW t, NEW n, NEW S, NEW R, Agrees(t, n, S), R \subseteq S
  PROVE  Agrees(t, n, R)
  BY Zenon DEF Agrees, Resolves

(* A table without elements agrees. *)
LEMMA EmptyAgrees == Agrees(EmptyLabelTable, 0, Ids(0))
<1>1. Ids(0) = {}
  BY DEF Ids
<1>2. EmptyLabelTable.table \in [Ids(0) -> Label] /\ DOMAIN EmptyLabelTable.remap = {}
      /\ EmptyLabelTable.remap \in [{} -> Ids(0)] /\ IsTable(EmptyLabelTable)
      /\ EmptyLabelTable.deleted = {} /\ EmptyLabelTable.count = 0
  BY <1>1 DEF EmptyLabelTable, IsTable
<1> QED BY <1>1, <1>2 DEF Agrees, Shape, Names, Resolves

(* Another array with the same labels below n: Resize and ShrinkToFit. *)
LEMMA Retabled ==
  ASSUME NEW t, NEW n \in Nat, NEW S \in SUBSET Ids(n), Agrees(t, n, S),
         NEW k \in Nat, n <= k, NEW T \in [Ids(k) -> Label],
         \A i \in Ids(n) : T[i] = t.table[i]
  PROVE  Agrees([t EXCEPT !.table = T], n, S)
<1>1. [t EXCEPT !.table = T] =
        [table |-> T, remap |-> t.remap, deleted |-> t.deleted, count |-> t.count]
  BY Zenon, Replaced DEF Agrees, Shape
<1> PICK r : r = [t EXCEPT !.table = T]
  BY Zenon
<1>2. r.table = T /\ r.remap = t.remap /\ r.deleted = t.deleted /\ r.count = t.count /\ IsTable(r)
  BY <1>1 DEF IsTable
<1>3. Shape(r, n)
  BY Zenon, <1>2 DEF Agrees, Shape
<1>4. Names(r)
  <2>1. \A l \in DOMAIN t.remap : t.remap[l] \in Ids(n)
    BY Zenon DEF Agrees, Shape
  <2> QED BY Zenon, <1>2, <2>1 DEF Agrees, Names
<1>5. Resolves(r, S)
  <2>1. ASSUME NEW i \in S PROVE T[i] \in DOMAIN t.remap /\ t.remap[T[i]] = i
    <3>1. T[i] = t.table[i]
      BY Zenon
    <3> QED BY Zenon, <3>1 DEF Agrees, Resolves
  <2> QED BY Zenon, <1>2, <2>1 DEF Resolves
<1> QED BY Zenon, <1>3, <1>4, <1>5 DEF Agrees

(* Vector::resize to at least n keeps the labels of the elements. *)
LEMMA ResizeAgrees ==
  ASSUME NEW t, NEW n \in Nat, NEW S \in SUBSET Ids(n), Agrees(t, n, S), NEW k \in Nat, n <= k
  PROVE  /\ Agrees([t EXCEPT !.table = ResizeVector(t.table, k)], n, S)
         /\ ResizeVector(t.table, k) \in [Ids(k) -> Label]
         /\ \A i \in Ids(n) : ResizeVector(t.table, k)[i] = t.table[i]
<1>1. PICK m \in Nat : n <= m /\ t.table \in [Ids(m) -> Label]
  BY Zenon DEF Agrees, Shape
<1>2. ResizeVector(t.table, k) \in [Ids(k) -> Label]
  BY <1>1, ZeroIsALabel DEF ResizeVector, Ids
<1>3. ASSUME NEW i \in Ids(n) PROVE ResizeVector(t.table, k)[i] = t.table[i]
  <2>1. i \in Ids(m) /\ i \in Ids(k)
    BY <1>1 DEF Ids
  <2> QED BY <1>1, <2>1 DEF ResizeVector, Ids
<1> QED BY Zenon, <1>2, <1>3, Retabled

(* Insert gives the new element its label; a label that a tombstone has may be used *)
(* again where the table need not agree on the tombstone.                         *)
LEMMA InsertAgrees ==
  ASSUME NEW t, NEW n \in Nat, NEW S \in SUBSET Ids(n), Agrees(t, n, S), NEW l \in Label,
         \A i \in S : t.table[i] # l
  PROVE  /\ Agrees(Insert(t, n, l), n + 1, S \cup {n})
         /\ Insert(t, n, l).remap = InsertOrAssign(t.remap, l, n)
         /\ Insert(t, n, l).deleted = t.deleted
<1>1. PICK m \in Nat : n <= m /\ t.table \in [Ids(m) -> Label]
  BY Zenon DEF Agrees, Shape
<1>2. TableSize(t) = m
  BY <1>1, IdsCount DEF TableSize
<1>3. PICK T : T = IF n + 1 > TableSize(t) THEN ResizeVector(t.table, n + 1) ELSE t.table
  BY Zenon
<1>4. PICK k \in Nat : /\ n + 1 <= k /\ T \in [Ids(k) -> Label]
                       /\ \A i \in Ids(n) : T[i] = t.table[i]
  <2>1. CASE n + 1 > TableSize(t)
    <3>1. n + 1 \in Nat /\ n <= n + 1 /\ n + 1 <= n + 1
      BY SMT
    <3>2. T = ResizeVector(t.table, n + 1)
      BY Zenon, <1>3, <2>1
    <3> QED BY Zenon, <3>1, <3>2, ResizeAgrees
  <2>2. CASE ~(n + 1 > TableSize(t))
    BY <1>1, <1>2, <1>3, <2>2
  <2> QED BY Zenon, <2>1, <2>2
<1>5. Insert(t, n, l) = [table |-> [T EXCEPT ![n] = l], remap |-> InsertOrAssign(t.remap, l, n),
                         deleted |-> t.deleted, count |-> t.count + 1]
  BY Zenon, <1>3 DEF Insert
<1>6. PICK r : r = Insert(t, n, l)
  BY Zenon
<1>7. PICK U : U = [T EXCEPT ![n] = l]
  BY Zenon
<1>8. /\ r.table = U /\ r.remap = InsertOrAssign(t.remap, l, n)
      /\ r.deleted = t.deleted /\ r.count = t.count + 1 /\ IsTable(r)
  BY <1>5, <1>6, <1>7 DEF IsTable
<1>9. n \in Ids(k) /\ Ids(n) \subseteq Ids(k) /\ Ids(n) \subseteq Ids(n + 1) /\ n \in Ids(n + 1) /\ n \notin Ids(n)
  BY <1>4 DEF Ids
<1>10. /\ U \in [Ids(k) -> Label] /\ U[n] = l
       /\ \A i \in Ids(n) : U[i] = t.table[i]
  BY Zenon, <1>4, <1>7, <1>9
<1>11. DOMAIN t.remap \subseteq Label /\ (\A j \in DOMAIN t.remap : t.remap[j] \in Ids(n))
       /\ t.deleted \subseteq Ids(n) /\ t.count = n
  BY Zenon DEF Agrees, Shape
<1>12. /\ DOMAIN r.remap = DOMAIN t.remap \cup {l} /\ r.remap[l] = n
       /\ \A j \in DOMAIN t.remap \ {l} : r.remap[j] = t.remap[j]
       /\ r.remap \in [DOMAIN r.remap -> Ids(n + 1)]
  BY Zenon, <1>8, <1>9, <1>11 DEF InsertOrAssign
<1>13. Shape(r, n + 1)
  <2>1. r.deleted \subseteq Ids(n + 1) /\ DOMAIN r.remap \subseteq Label /\ r.count = n + 1
    BY Zenon, <1>8, <1>9, <1>11, <1>12
  <2> QED BY Zenon, <1>4, <1>8, <1>10, <1>12, <2>1 DEF Shape
<1>14. Names(r)
  <2>1. ASSUME NEW j \in DOMAIN r.remap PROVE U[r.remap[j]] = j
    <3>1. CASE j = l
      BY Zenon, <1>10, <1>12, <3>1
    <3>2. CASE j # l
      <4>1. j \in DOMAIN t.remap /\ r.remap[j] = t.remap[j] /\ t.remap[j] \in Ids(n)
        BY Zenon, <1>11, <1>12, <3>2
      <4> QED BY Zenon, <1>10, <4>1 DEF Agrees, Names
    <3> QED BY Zenon, <3>1, <3>2
  <2> QED BY Zenon, <1>8, <2>1 DEF Names
<1>15. Resolves(r, S \cup {n})
  <2>1. ASSUME NEW i \in S PROVE U[i] \in DOMAIN r.remap /\ r.remap[U[i]] = i
    <3>1. U[i] = t.table[i] /\ U[i] # l
      BY Zenon, <1>10
    <3> QED BY Zenon, <1>12, <3>1 DEF Agrees, Resolves
  <2> QED BY Zenon, <1>8, <1>10, <1>12, <2>1 DEF Resolves
<1> QED BY Zenon, <1>6, <1>8, <1>13, <1>14, <1>15 DEF Agrees

(* MarkRemove touches the tombstones only. *)
LEMMA MarkRemoveAgrees ==
  ASSUME NEW t, NEW n \in Nat, NEW S \in SUBSET Ids(n), Agrees(t, n, S), NEW l \in Label
  PROVE  /\ Agrees(MarkRemove(t, {l}), n, S)
         /\ MarkRemove(t, {l}).remap = t.remap /\ MarkRemove(t, {l}).table = t.table
         /\ MarkRemove(t, {l}).deleted =
              t.deleted \cup (IF l \in DOMAIN t.remap THEN {t.remap[l]} ELSE {})
<1>1. PICK D : D = t.deleted \cup NewlyRemoved(t, {l})
  BY Zenon
<1>2. D = t.deleted \cup (IF l \in DOMAIN t.remap THEN {t.remap[l]} ELSE {})
  BY <1>1 DEF NewlyRemoved
<1>3. PICK r : r = MarkRemove(t, {l})
  BY Zenon
<1>4. r = [table |-> t.table, remap |-> t.remap, deleted |-> D, count |-> t.count]
  BY Zenon, <1>1, <1>3, Replaced DEF MarkRemove, Agrees, Shape
<1>5. /\ r.table = t.table /\ r.remap = t.remap /\ r.deleted = D /\ r.count = t.count
      /\ IsTable(r)
  BY <1>4 DEF IsTable
<1>6. D \subseteq Ids(n)
  BY Zenon, <1>2 DEF Agrees, Shape
<1>7. Shape(r, n)
  BY Zenon, <1>5, <1>6 DEF Agrees, Shape
<1>8. Names(r) /\ Resolves(r, S)
  BY Zenon, <1>5 DEF Agrees, Names, Resolves
<1> QED BY Zenon, <1>2, <1>3, <1>5, <1>7, <1>8 DEF Agrees

(* UpdateLabel renames one element, or only entries that are no element's, or         *)
(* nothing, where the new label is no name of an element the table agrees on.        *)
LEMMA UpdateLabelAgrees ==
  ASSUME NEW t, NEW n \in Nat, NEW S \in SUBSET Ids(n), Agrees(t, n, S),
         NEW old \in Label, NEW new \in Label, old # new,
         CheckLabel(t, new) \/ \A i \in S : t.table[i] # new
  PROVE  /\ Agrees(UpdateLabel(t, old, new), n, S)
         /\ UpdateLabel(t, old, new).deleted = t.deleted
         /\ DOMAIN UpdateLabel(t, old, new).table = DOMAIN t.table
         /\ IF CheckLabel(t, new) \/ old \notin DOMAIN t.remap
            THEN UpdateLabel(t, old, new).remap = t.remap
            ELSE UpdateLabel(t, old, new).remap =
                   InsertOrAssign(Erase(t.remap, old), new, t.remap[old])
<1>1. PICK m \in Nat : n <= m /\ t.table \in [Ids(m) -> Label]
  BY Zenon DEF Agrees, Shape
<1>2. PICK U : U = [i \in DOMAIN t.table |-> IF t.table[i] = old THEN new ELSE t.table[i]]
  BY Zenon
<1>3. /\ U \in [Ids(m) -> Label] /\ DOMAIN U = DOMAIN t.table /\ Ids(n) \subseteq Ids(m)
      /\ \A i \in Ids(n) : U[i] = IF t.table[i] = old THEN new ELSE t.table[i]
  <2>1. Ids(n) \subseteq Ids(m)
    BY <1>1 DEF Ids
  <2> QED BY <1>1, <1>2, <2>1
<1>4. PICK r : r = UpdateLabel(t, old, new)
  BY Zenon
<1>5. CASE CheckLabel(t, new)
  BY Zenon, <1>5 DEF UpdateLabel
<1>6. CASE ~CheckLabel(t, new) /\ old \notin DOMAIN t.remap
  <2>1. r = [t EXCEPT !.table = U]
    BY Zenon, <1>2, <1>4, <1>6 DEF UpdateLabel
  <2>2. r = [table |-> U, remap |-> t.remap, deleted |-> t.deleted, count |-> t.count]
    BY Zenon, <2>1, Replaced DEF Agrees, Shape
  <2>3. r.table = U /\ r.remap = t.remap /\ r.deleted = t.deleted /\ r.count = t.count
        /\ IsTable(r)
    BY <2>2 DEF IsTable
  <2>4. Shape(r, n)
    BY Zenon, <1>1, <1>3, <2>3 DEF Agrees, Shape
  <2>5. Names(r)
    <3>1. ASSUME NEW l \in DOMAIN t.remap PROVE U[t.remap[l]] = l
      <4>1. t.remap[l] \in Ids(n) /\ t.table[t.remap[l]] = l /\ l # old
        BY Zenon, <1>6 DEF Agrees, Shape, Names
      <4> QED BY Zenon, <1>3, <4>1
    <3> QED BY Zenon, <2>3, <3>1 DEF Names
  <2>6. Resolves(r, S)
    <3>1. ASSUME NEW i \in S PROVE U[i] \in DOMAIN t.remap /\ t.remap[U[i]] = i
      <4>1. t.table[i] \in DOMAIN t.remap /\ t.remap[t.table[i]] = i /\ i \in Ids(n)
        BY Zenon DEF Agrees, Resolves
      <4>2. t.table[i] # old
        BY Zenon, <1>6, <4>1
      <4> QED BY Zenon, <1>3, <4>1, <4>2
    <3> QED BY Zenon, <2>3, <3>1 DEF Resolves
  <2> QED BY Zenon, <1>3, <1>4, <1>6, <2>3, <2>4, <2>5, <2>6 DEF Agrees
<1>7. CASE ~CheckLabel(t, new) /\ old \in DOMAIN t.remap
  <2>1. PICK R : R = InsertOrAssign(Erase(t.remap, old), new, t.remap[old])
    BY Zenon
  <2>2. r = [table |-> U, deleted |-> t.deleted, count |-> t.count, remap |-> R]
    BY Zenon, <1>2, <1>4, <1>7, <2>1 DEF UpdateLabel
  <2>3. r.table = U /\ r.remap = R /\ r.deleted = t.deleted /\ r.count = t.count /\ IsTable(r)
    BY <2>2 DEF IsTable
  <2>4. /\ DOMAIN R = (DOMAIN t.remap \ {old}) \cup {new} /\ R[new] = t.remap[old]
        /\ \A l \in DOMAIN t.remap \ {old, new} : R[l] = t.remap[l]
    BY <2>1 DEF InsertOrAssign, Erase
  <2>5. /\ DOMAIN t.remap \subseteq Label /\ t.deleted \subseteq Ids(n) /\ t.count = n
        /\ \A l \in DOMAIN t.remap : t.remap[l] \in Ids(n) /\ t.table[t.remap[l]] = l
    BY Zenon DEF Agrees, Shape, Names
  <2>6. R \in [DOMAIN R -> Ids(n)]
    BY <1>7, <2>1, <2>4, <2>5 DEF InsertOrAssign, Erase
  <2>7. Shape(r, n)
    BY ZenonT(40), <1>1, <1>3, <1>7, <2>3, <2>4, <2>5, <2>6 DEF Shape
  <2>8. Names(r)
    <3>1. ASSUME NEW l \in DOMAIN R PROVE U[R[l]] = l
      <4>1. CASE l = new
        BY Zenon, <1>3, <1>7, <2>4, <2>5, <4>1
      <4>2. CASE l # new
        BY Zenon, <1>3, <2>4, <2>5, <4>2
      <4> QED BY Zenon, <4>1, <4>2
    <3> QED BY Zenon, <2>3, <3>1 DEF Names
  <2>9. Resolves(r, S)
    <3>1. ASSUME NEW i \in S PROVE U[i] \in DOMAIN R /\ R[U[i]] = i
      <4>1. t.table[i] \in DOMAIN t.remap /\ t.remap[t.table[i]] = i /\ i \in Ids(n)
            /\ t.table[i] # new
        BY Zenon, <1>7 DEF Agrees, Resolves
      <4>2. CASE t.table[i] = old
        BY Zenon, <1>3, <2>4, <4>1, <4>2
      <4>3. CASE t.table[i] # old
        BY Zenon, <1>3, <2>4, <4>1, <4>3
      <4> QED BY Zenon, <4>2, <4>3
    <3> QED BY Zenon, <2>3, <3>1 DEF Resolves
  <2> QED BY Zenon, <1>3, <1>4, <1>7, <2>1, <2>3, <2>7, <2>8, <2>9 DEF Agrees
<1> QED BY Zenon, <1>5, <1>6, <1>7

(* The label of an element that is removed physically, and the last one's. *)
LEMMA LabelsDiffer ==
  ASSUME NEW t, NEW n \in Nat, Agrees(t, n, Ids(n)), NEW l \in DOMAIN t.remap
  PROVE  /\ n - 1 \in Ids(n) /\ t.remap[l] \in Ids(n) /\ t.table[t.remap[l]] = l
         /\ t.table[n - 1] \in DOMAIN t.remap /\ t.remap[t.table[n - 1]] = n - 1
         /\ \A k \in DOMAIN t.remap : t.remap[k] = t.remap[l] => k = l
<1>1. t.remap[l] \in Ids(n) /\ t.table[t.remap[l]] = l
      /\ \A k \in DOMAIN t.remap : t.table[t.remap[k]] = k
  BY Zenon DEF Agrees, Shape, Names
<1>2. n - 1 \in Ids(n)
  BY <1>1 DEF Ids
<1>3. t.table[n - 1] \in DOMAIN t.remap /\ t.remap[t.table[n - 1]] = n - 1
  BY Zenon, <1>2 DEF Agrees, Resolves
<1> QED BY Zenon, <1>1, <1>2, <1>3

(* A physical removal: ForceRemove of the label, then Move of the last element to the  *)
(* id that became free.  What the table says afterwards.                            *)
Removed(t, n, l) == Move(ForceRemove(t, l, t.remap[l]), n - 1, t.remap[l])

(* The members of the table after a physical removal. *)
LEMMA RemovedMembers ==
  ASSUME NEW t, NEW n \in Nat, Agrees(t, n, Ids(n)), NEW l \in DOMAIN t.remap,
         NEW id, id = t.remap[l], NEW last, last = n - 1, NEW r, r = Removed(t, n, l)
  PROVE  /\ IsTable(r) /\ r.count = last
         /\ DOMAIN r.table = DOMAIN t.table
         /\ r.table = [i \in DOMAIN t.table |-> IF i = id THEN t.table[last] ELSE t.table[i]]
         /\ r.remap =
              [k \in DOMAIN t.remap \ {l} |-> IF t.remap[k] = last THEN id ELSE t.remap[k]]
         /\ r.deleted = (t.deleted \ {id, last}) \cup
                          (IF last \in t.deleted /\ last # id THEN {id} ELSE {})
<1>2. PICK c : c = ForceRemove(t, l, id)
  BY Zenon
<1>3. /\ c.table = t.table /\ c.remap = Erase(t.remap, l) /\ c.deleted = t.deleted \ {id}
      /\ c.count = t.count - 1 /\ IsTable(c)
  BY <1>2 DEF ForceRemove, IsTable
<1>4. r = Move(c, last, id)
  BY Zenon, <1>2 DEF Removed
<1>6. /\ id \in Ids(n) /\ last \in Ids(n) /\ t.table[id] = l
      /\ t.table[last] \in DOMAIN t.remap /\ t.remap[t.table[last]] = last
      /\ \A k \in DOMAIN t.remap : t.remap[k] = id => k = l
  BY Zenon, LabelsDiffer
<1>7. PICK m \in Nat : n <= m /\ t.table \in [Ids(m) -> Label]
  BY Zenon DEF Agrees, Shape
<1>8. Ids(n) \subseteq DOMAIN t.table /\ t.count = n
  <2>1. Ids(n) \subseteq Ids(m)
    BY <1>7 DEF Ids
  <2> QED BY Zenon, <1>7, <2>1 DEF Agrees, Shape
<1>9. PICK U : U = [i \in DOMAIN t.table |-> IF i = id THEN t.table[last] ELSE t.table[i]]
  BY Zenon
<1>10. PICK R : R = [k \in DOMAIN t.remap \ {l} |-> IF t.remap[k] = last THEN id ELSE t.remap[k]]
  BY Zenon
<1>11. CASE id = last
  <2>1. r = c
    BY Zenon, <1>4, <1>11 DEF Move
  <2>2. U = t.table
    BY <1>6, <1>7, <1>8, <1>9, <1>11
  <2>3. R = Erase(t.remap, l)
    BY <1>6, <1>10, <1>11 DEF Erase
  <2>4. r.deleted = t.deleted \ {id, last}
    BY Zenon, <1>3, <1>11, <2>1
  <2>5. DOMAIN U = DOMAIN t.table
    BY Zenon, <1>9
  <2>6. r.table = U /\ r.remap = R /\ r.count = t.count - 1 /\ IsTable(r)
        /\ r.deleted = (t.deleted \ {id, last}) \cup
                         (IF last \in t.deleted /\ last # id THEN {id} ELSE {})
    <3>1. r.deleted = (t.deleted \ {id, last}) \cup {}
      BY Zenon, <2>4
    <3>2. (IF last \in t.deleted /\ last # id THEN {id} ELSE {}) = {}
      BY Zenon, <1>11
    <3> QED BY Zenon, <1>3, <2>1, <2>2, <2>3, <3>1, <3>2
  <2> QED BY Zenon, <1>8, <1>9, <1>10, <2>5, <2>6
<1>12. CASE id # last
  <2>1. PICK k : k = t.table[last]
    BY Zenon
  <2>2. k # l /\ k \in DOMAIN t.remap /\ t.remap[k] = last
    BY Zenon, <1>6, <1>12, <2>1
  <2>3. r = [table |-> [t.table EXCEPT ![id] = k],
             remap |-> InsertOrAssign(Erase(Erase(t.remap, l), l), k, id),
             deleted |-> ((t.deleted \ {id}) \ {last, id}) \cup
                           (IF last \in t.deleted \ {id} THEN {id} ELSE {}),
             count |-> t.count - 1]
    BY Zenon, <1>3, <1>4, <1>6, <1>12, <2>1 DEF Move
  <2>4. [t.table EXCEPT ![id] = k] = U
    BY <1>7, <1>9, <2>1
  <2>5. InsertOrAssign(Erase(Erase(t.remap, l), l), k, id) = R
    <3>1. \A j \in DOMAIN t.remap : t.remap[j] = last => j = k
      BY Zenon, <1>6, <2>1, <2>2 DEF Agrees, Names
    <3> QED BY <1>10, <2>2, <3>1 DEF InsertOrAssign, Erase
  <2>6. ((t.deleted \ {id}) \ {last, id}) \cup (IF last \in t.deleted \ {id} THEN {id} ELSE {}) =
          (t.deleted \ {id, last}) \cup (IF last \in t.deleted /\ last # id THEN {id} ELSE {})
    BY <1>12
  <2>7. r = [table |-> U, remap |-> R,
             deleted |-> (t.deleted \ {id, last}) \cup
                           (IF last \in t.deleted /\ last # id THEN {id} ELSE {}),
             count |-> t.count - 1]
    BY Zenon, <2>3, <2>4, <2>5, <2>6
  <2>8. r.table = U /\ r.remap = R /\ r.count = t.count - 1 /\ IsTable(r)
        /\ r.deleted = (t.deleted \ {id, last}) \cup
                         (IF last \in t.deleted /\ last # id THEN {id} ELSE {})
    BY <2>7 DEF IsTable
  <2>9. DOMAIN U = DOMAIN t.table
    BY Zenon, <1>9
  <2> QED BY Zenon, <1>8, <1>9, <1>10, <2>8, <2>9
<1> QED BY Zenon, <1>11, <1>12

(* A table that agrees on all its elements agrees after a physical removal. *)
LEMMA RemovedAgrees ==
  ASSUME NEW t, NEW n \in Nat, Agrees(t, n, Ids(n)), NEW l \in DOMAIN t.remap
  PROVE  n - 1 \in Nat /\ Agrees(Removed(t, n, l), n - 1, Ids(n - 1))
<1>1. PICK id, last : id = t.remap[l] /\ last = n - 1
  BY Zenon
<1>2. PICK r : r = Removed(t, n, l)
  BY Zenon
<1>3. /\ id \in Ids(n) /\ last \in Ids(n) /\ t.table[id] = l
      /\ t.table[last] \in DOMAIN t.remap /\ t.remap[t.table[last]] = last
      /\ \A k \in DOMAIN t.remap : t.remap[k] = id => k = l
  BY Zenon, <1>1, LabelsDiffer
<1>4. /\ IsTable(r) /\ r.count = last
      /\ r.table = [i \in DOMAIN t.table |-> IF i = id THEN t.table[last] ELSE t.table[i]]
      /\ r.remap = [k \in DOMAIN t.remap \ {l} |-> IF t.remap[k] = last THEN id ELSE t.remap[k]]
      /\ r.deleted = (t.deleted \ {id, last}) \cup
                       (IF last \in t.deleted /\ last # id THEN {id} ELSE {})
  BY SMT, <1>1, <1>2, RemovedMembers
<1>5. PICK m \in Nat : n <= m /\ t.table \in [Ids(m) -> Label]
  BY Zenon DEF Agrees, Shape
<1>6. /\ DOMAIN t.remap \subseteq Label /\ t.deleted \subseteq Ids(n)
      /\ \A k \in DOMAIN t.remap : t.remap[k] \in Ids(n) /\ t.table[t.remap[k]] = k
  BY Zenon DEF Agrees, Shape, Names
<1>7. /\ last \in Nat /\ last <= m /\ Ids(last) = Ids(n) \ {last} /\ last \notin Ids(last)
      /\ Ids(n) \subseteq Ids(m)
  BY <1>1, <1>3, <1>5 DEF Ids
<1>8. ASSUME NEW k \in DOMAIN t.remap \ {l}
      PROVE  /\ r.remap[k] = IF t.remap[k] = last THEN id ELSE t.remap[k]
             /\ r.remap[k] \in Ids(last) /\ r.table[r.remap[k]] = k
  <2>1. r.remap[k] = IF t.remap[k] = last THEN id ELSE t.remap[k]
    BY Zenon, <1>4
  <2>2. t.remap[k] \in Ids(n) /\ t.remap[k] # id /\ t.table[t.remap[k]] = k
    BY Zenon, <1>3, <1>6
  <2>3. CASE t.remap[k] = last
    <3>1. r.remap[k] = id /\ id \in Ids(last)
      BY Zenon, <1>3, <1>7, <2>1, <2>2, <2>3
    <3>2. id \in DOMAIN t.table
      BY Zenon, <1>3, <1>5, <1>7
    <3>3. r.table[id] = t.table[last]
      BY Zenon, <1>4, <3>2
    <3> QED BY Zenon, <2>1, <2>2, <2>3, <3>1, <3>3
  <2>4. CASE t.remap[k] # last
    <3>1. r.remap[k] = t.remap[k] /\ t.remap[k] \in Ids(last)
      BY Zenon, <1>7, <2>1, <2>2, <2>4
    <3>2. t.remap[k] \in DOMAIN t.table
      BY Zenon, <1>5, <1>7, <2>2
    <3>3. r.table[t.remap[k]] = t.table[t.remap[k]]
      BY Zenon, <1>4, <2>2, <3>2
    <3> QED BY Zenon, <2>1, <2>2, <3>1, <3>3
  <2> QED BY Zenon, <2>3, <2>4
<1>9. DOMAIN r.remap = DOMAIN t.remap \ {l}
  BY Zenon, <1>4
<1>10. Shape(r, last)
  <2>1. r.table \in [Ids(m) -> Label]
    BY <1>3, <1>4, <1>5, <1>7
  <2>2. r.remap \in [DOMAIN r.remap -> Ids(last)] /\ DOMAIN r.remap \subseteq Label
    <3>1. r.remap = [k \in DOMAIN r.remap |-> r.remap[k]]
      BY Zenon, <1>4
    <3> QED BY Zenon, <1>6, <1>8, <1>9, <3>1
  <2>3. r.deleted \subseteq Ids(last)
    BY <1>3, <1>4, <1>6, <1>7
  <2> QED BY Zenon, <1>4, <1>7, <2>1, <2>2, <2>3 DEF Shape
<1>11. Names(r)
  BY Zenon, <1>8, <1>9 DEF Names
<1>12. Resolves(r, Ids(last))
  <2>1. ASSUME NEW i \in Ids(last) PROVE r.table[i] \in DOMAIN r.remap /\ r.remap[r.table[i]] = i
    <3>1. i \in Ids(n) /\ i # last /\ i \in DOMAIN t.table
      BY Zenon, <1>5, <1>7
    <3>2. t.table[i] \in DOMAIN t.remap /\ t.remap[t.table[i]] = i
      BY Zenon, <3>1 DEF Agrees, Resolves
    <3>3. CASE i = id
      <4>1. r.table[i] = t.table[last]
        BY Zenon, <1>4, <3>1, <3>3
      <4>2. t.table[last] # l
        BY Zenon, <1>1, <1>3, <3>1, <3>3
      <4> QED BY Zenon, <1>3, <1>8, <1>9, <3>3, <4>1, <4>2
    <3>4. CASE i # id
      <4>1. r.table[i] = t.table[i] /\ t.table[i] # l
        BY Zenon, <1>1, <1>4, <3>1, <3>2, <3>4
      <4> QED BY Zenon, <1>8, <1>9, <3>1, <3>2, <4>1
    <3> QED BY Zenon, <3>3, <3>4
  <2> QED BY Zenon, <2>1 DEF Resolves
<1> QED BY Zenon, <1>1, <1>2, <1>7, <1>10, <1>11, <1>12 DEF Agrees

(* A physical removal lowers the number of tombstones when it removes one. *)
LEMMA RemovedTombstones ==
  ASSUME NEW t, NEW n \in Nat, Agrees(t, n, Ids(n)), NEW l \in DOMAIN t.remap
  PROVE  /\ IsFiniteSet(t.deleted) /\ Cardinality(t.deleted) \in Nat
         /\ t.remap[l] \in t.deleted => Cardinality(t.deleted) > 0
         /\ Cardinality(Removed(t, n, l).deleted) =
              IF t.remap[l] \in t.deleted THEN Cardinality(t.deleted) - 1
              ELSE Cardinality(t.deleted)
<1>0. PICK id, last, r : id = t.remap[l] /\ last = n - 1 /\ r = Removed(t, n, l)
  BY Zenon
<1>1. PICK D, E : D = t.deleted /\ E = r.deleted
  BY Zenon
<1>2. E = (D \ {id, last}) \cup (IF last \in D /\ last # id THEN {id} ELSE {})
  <2>1. /\ IsTable(r) /\ r.count = last
        /\ r.table = [i \in DOMAIN t.table |-> IF i = id THEN t.table[last] ELSE t.table[i]]
        /\ r.remap = [k \in DOMAIN t.remap \ {l} |->
                        IF t.remap[k] = last THEN id ELSE t.remap[k]]
        /\ r.deleted = (t.deleted \ {id, last}) \cup
                         (IF last \in t.deleted /\ last # id THEN {id} ELSE {})
    BY SMT, <1>0, RemovedMembers
  <2> QED BY Zenon, <1>1, <2>1
<1>3. IsFiniteSet(D)
  BY <1>1, IdsCount, FS_Subset DEF Agrees, Shape
<1>4. Cardinality(D) \in Nat
  BY Zenon, <1>3, FS_CardinalityType
<1>5. id \in D => Cardinality(D) > 0
  <2>1. id \in D => D # {}
    BY Zenon
  <2>2. Cardinality(D) = 0 <=> D = {}
    BY Zenon, <1>3, FS_EmptySet
  <2> QED BY SMT, <1>4, <2>1, <2>2
<1>6. CASE last \notin D \/ last = id
  <2>1. E = D \ {id}
    BY Zenon, <1>2, <1>6
  <2>2. Cardinality(D \ {id}) = IF id \in D THEN Cardinality(D) - 1 ELSE Cardinality(D)
    BY Zenon, <1>3, FS_RemoveElement
  <2> QED BY Zenon, <1>0, <1>1, <1>3, <1>4, <1>5, <2>1, <2>2
<1>7. CASE last \in D /\ last # id
  <2>1. E = (D \ {last}) \cup {id}
    BY Zenon, <1>2, <1>7
  <2>2. Cardinality(D \ {last}) = Cardinality(D) - 1 /\ IsFiniteSet(D \ {last})
    BY Zenon, <1>3, <1>7, FS_RemoveElement
  <2>3. Cardinality(E) = IF id \in D \ {last} THEN Cardinality(D \ {last})
                         ELSE Cardinality(D \ {last}) + 1
    BY Zenon, <2>1, <2>2, FS_AddElement
  <2>4. id \in D \ {last} <=> id \in D
    BY Zenon, <1>7
  <2>5. Cardinality(E) = IF id \in D THEN Cardinality(D) - 1 ELSE Cardinality(D)
    BY SMT, <1>4, <2>2, <2>3, <2>4
  <2> QED BY Zenon, <1>0, <1>1, <1>3, <1>4, <1>5, <2>5
<1> QED BY Zenon, <1>6, <1>7

(* Rebuilding the reverse map from an array that is exactly full gives it back. *)
LEMMA LoadTableFormatSame ==
  ASSUME NEW t, NEW n \in Nat, Agrees(t, n, Ids(n)), t.deleted = {}, TableSize(t) = n
  PROVE  LoadTableFormat(t) = t
<1>1. t.table \in [Ids(n) -> Label]
  <2>1. PICK m \in Nat : n <= m /\ t.table \in [Ids(m) -> Label]
    BY Zenon DEF Agrees, Shape
  <2>2. TableSize(t) = m
    BY <2>1, IdsCount DEF TableSize
  <2> QED BY Zenon, <2>1, <2>2
<1>2. /\ \A l \in DOMAIN t.remap : t.remap[l] \in Ids(n) /\ t.table[t.remap[l]] = l
      /\ \A i \in Ids(n) : t.table[i] \in DOMAIN t.remap /\ t.remap[t.table[i]] = i
      /\ t.count = n /\ IsTable(t) /\ t.remap = [l \in DOMAIN t.remap |-> t.remap[l]]
  BY Zenon DEF Agrees, Shape, Names, Resolves
<1>3. {t.table[i] : i \in DOMAIN t.table} = DOMAIN t.remap
  BY SMT, <1>1, <1>2
<1> DEFINE last(l) == CHOOSE i \in DOMAIN t.table :
                        /\ t.table[i] = l
                        /\ \A j \in DOMAIN t.table : t.table[j] = l => j <= i
<1>4. ASSUME NEW l \in DOMAIN t.remap PROVE last(l) = t.remap[l]
  <2>1. \A i \in DOMAIN t.table : t.table[i] = l => i = t.remap[l]
    BY Zenon, <1>1, <1>2
  <2>2. t.remap[l] \in DOMAIN t.table /\ t.table[t.remap[l]] = l
    BY Zenon, <1>1, <1>2
  <2>3. t.remap[l] <= t.remap[l]
    BY <1>2 DEF Ids
  <2>4. \E i \in DOMAIN t.table : /\ t.table[i] = l
                                  /\ \A j \in DOMAIN t.table : t.table[j] = l => j <= i
    BY Zenon, <2>1, <2>2, <2>3
  <2>5. last(l) \in DOMAIN t.table /\ t.table[last(l)] = l
    BY Zenon, <2>4
  <2> HIDE DEF last
  <2> QED BY Zenon, <2>1, <2>5
<1>5. [l \in {t.table[i] : i \in DOMAIN t.table} |-> last(l)] = t.remap
  <2> HIDE DEF last
  <2>1. [l \in DOMAIN t.remap |-> last(l)] = [l \in DOMAIN t.remap |-> t.remap[l]]
    BY Zenon, <1>4
  <2> QED BY Zenon, <1>2, <1>3, <2>1
<1>6. LoadTableFormat(t) = [table |-> t.table, deleted |-> {}, count |-> TableSize(t),
                            remap |-> [l \in {t.table[i] : i \in DOMAIN t.table} |-> last(l)]]
  BY Zenon DEF LoadTableFormat
<1>7. LoadTableFormat(t) = [table |-> t.table, remap |-> t.remap, deleted |-> t.deleted,
                            count |-> t.count]
  <2> HIDE DEF last
  <2>1. LoadTableFormat(t) = [table |-> t.table, deleted |-> {}, count |-> n, remap |-> t.remap]
    BY Zenon, <1>5, <1>6
  <2> QED BY SMT, <1>2, <2>1
<1> QED BY Zenon, <1>2, <1>7 DEF IsTable

(* The labels that lookups find are as many as the elements that are no tombstones. *)
LEMMA FoundCount ==
  ASSUME NEW t, NEW n \in Nat, Agrees(t, n, Ids(n) \ t.deleted)
  PROVE  Cardinality({l \in Label : CheckLabel(t, l)}) = n - Cardinality(t.deleted)
<1>1. PICK S, F : S = Ids(n) \ t.deleted /\ F = {l \in Label : CheckLabel(t, l)}
  BY Zenon
<1>2. PICK m \in Nat : n <= m /\ t.table \in [Ids(m) -> Label]
  BY Zenon DEF Agrees, Shape
<1>3. Ids(n) \subseteq Ids(m)
  BY <1>2 DEF Ids
<1>4. /\ \A l \in DOMAIN t.remap : t.remap[l] \in Ids(n) /\ t.table[t.remap[l]] = l
      /\ \A i \in S : t.table[i] \in DOMAIN t.remap /\ t.remap[t.table[i]] = i
      /\ t.deleted \subseteq Ids(n)
  BY Zenon, <1>1 DEF Agrees, Shape, Names, Resolves
<1>5. PICK f : f = [i \in S |-> t.table[i]]
  BY Zenon
<1>6. f \in [S -> F]
  <2>1. ASSUME NEW i \in S PROVE t.table[i] \in F
    BY Zenon, <1>1, <1>2, <1>3, <1>4 DEF CheckLabel
  <2> QED BY Zenon, <1>5, <2>1
<1>7. \A a, b \in S : f[a] = f[b] => a = b
  BY Zenon, <1>4, <1>5
<1>8. \A l \in F : \E i \in S : f[i] = l
  <2>1. ASSUME NEW l \in F PROVE t.remap[l] \in S /\ f[t.remap[l]] = l
    BY Zenon, <1>1, <1>4, <1>5 DEF CheckLabel
  <2> QED BY Zenon, <2>1
<1>9. ExistsBijection(S, F)
  <2>1. DOMAIN f = S
    BY Zenon, <1>5
  <2>2. f \in Injection(S, F)
    BY Zenon, <1>6, <1>7, <2>1 DEF Injection, IsInjective
  <2>3. f \in Surjection(S, F)
    BY Zenon, <1>6, <1>8 DEF Surjection
  <2> QED BY Zenon, <2>2, <2>3 DEF ExistsBijection, Bijection
<1>10. IsFiniteSet(Ids(n)) /\ Cardinality(Ids(n)) = n
  BY Zenon, IdsCount
<1>11. IsFiniteSet(S) /\ Cardinality(S) = n - Cardinality(t.deleted)
  <2>1. Ids(n) \cap t.deleted = t.deleted /\ IsFiniteSet(t.deleted)
    BY <1>4, <1>10, FS_Subset
  <2>2. /\ IsFiniteSet(Ids(n) \ t.deleted)
        /\ Cardinality(Ids(n) \ t.deleted) = Cardinality(Ids(n)) - Cardinality(Ids(n) \cap t.deleted)
    BY Zenon, <1>10, FS_Difference
  <2> QED BY Zenon, <1>1, <1>10, <2>1, <2>2
<1> QED BY Zenon, <1>1, <1>9, <1>11, FS_Bijection

-----------------------------------------------------------------------------
(* Which labels CheckLabel finds after each operation. *)

(* Two labels never lead to one entry. *)
LEMMA NamesDiffer ==
  ASSUME NEW t, Names(t), NEW j \in DOMAIN t.remap, NEW k \in DOMAIN t.remap,
         t.remap[j] = t.remap[k]
  PROVE  j = k
  BY Zenon DEF Names

(* A table finds one label more than another. *)
ChecksAlso(r, t, l) == \A k : CheckLabel(r, k) <=> k = l \/ CheckLabel(t, k)

(* The inserted label is found as well. *)
LEMMA InsertChecks ==
  ASSUME NEW t, NEW n \in Nat, NEW S \in SUBSET Ids(n), Agrees(t, n, S), NEW l \in Label,
         \A i \in S : t.table[i] # l
  PROVE  ChecksAlso(Insert(t, n, l), t, l)
<1> SUFFICES ASSUME NEW k
             PROVE  CheckLabel(Insert(t, n, l), k) <=> k = l \/ CheckLabel(t, k)
  BY Zenon DEF ChecksAlso
<1>1. PICK r : r = Insert(t, n, l)
  BY Zenon
<1>2. r.remap = InsertOrAssign(t.remap, l, n) /\ r.deleted = t.deleted
  BY Zenon, <1>1, InsertAgrees
<1>3. n \notin t.deleted
  <2>1. n \notin Ids(n)
    BY DEF Ids
  <2> QED BY Zenon, <2>1 DEF Agrees, Shape
<1>4. CASE k = l
  BY Zenon, <1>1, <1>2, <1>3, <1>4 DEF CheckLabel, InsertOrAssign
<1>5. CASE k # l
  BY Zenon, <1>1, <1>2, <1>5 DEF CheckLabel, InsertOrAssign
<1> QED BY Zenon, <1>4, <1>5

(* A marked label is no longer found, the others are as before. *)
LEMMA MarkRemoveChecks ==
  ASSUME NEW t, NEW n \in Nat, NEW S \in SUBSET Ids(n), Agrees(t, n, S), NEW l \in Label, NEW k
  PROVE  CheckLabel(MarkRemove(t, {l}), k) <=> k # l /\ CheckLabel(t, k)
<1>1. PICK r : r = MarkRemove(t, {l})
  BY Zenon
<1>2. /\ r.remap = t.remap
      /\ r.deleted = t.deleted \cup (IF l \in DOMAIN t.remap THEN {t.remap[l]} ELSE {})
  BY Zenon, <1>1, MarkRemoveAgrees
<1>3. CASE l \in DOMAIN t.remap
  <2>1. r.deleted = t.deleted \cup {t.remap[l]}
    BY Zenon, <1>2, <1>3
  <2>2. \A j \in DOMAIN t.remap : t.remap[j] = t.remap[l] => j = l
    BY Zenon, <1>3, NamesDiffer DEF Agrees
  <2> QED BY Zenon, <1>1, <1>2, <1>3, <2>1, <2>2 DEF CheckLabel
<1>4. CASE l \notin DOMAIN t.remap
  <2>1. r.deleted = t.deleted
    BY Zenon, <1>2, <1>4
  <2> QED BY Zenon, <1>1, <1>2, <1>4, <2>1 DEF CheckLabel
<1> QED BY Zenon, <1>3, <1>4

(* A renamed element is found under its new label if it was under the old one. *)
LEMMA UpdateLabelChecks ==
  ASSUME NEW t, NEW n \in Nat, NEW S \in SUBSET Ids(n), Agrees(t, n, S),
         NEW old \in Label, NEW new \in Label, old # new,
         ~CheckLabel(t, new), \A i \in S : t.table[i] # new, old \in DOMAIN t.remap, NEW k
  PROVE  CheckLabel(UpdateLabel(t, old, new), k) <=>
           \/ k = new /\ CheckLabel(t, old)
           \/ k \notin {old, new} /\ CheckLabel(t, k)
<1>1. PICK r : r = UpdateLabel(t, old, new)
  BY Zenon
<1>2. r.remap = InsertOrAssign(Erase(t.remap, old), new, t.remap[old]) /\ r.deleted = t.deleted
  BY ZenonT(40), <1>1, UpdateLabelAgrees
<1>3. /\ DOMAIN r.remap = (DOMAIN t.remap \ {old}) \cup {new} /\ r.remap[new] = t.remap[old]
      /\ \A j \in DOMAIN t.remap \ {old, new} : r.remap[j] = t.remap[j]
  BY <1>2 DEF InsertOrAssign, Erase
<1>4. CASE k = new
  BY Zenon, <1>1, <1>2, <1>3, <1>4 DEF CheckLabel
<1>5. CASE k = old
  BY Zenon, <1>1, <1>3, <1>5 DEF CheckLabel
<1>6. CASE k \notin {old, new}
  BY Zenon, <1>1, <1>2, <1>3, <1>6 DEF CheckLabel
<1> QED BY Zenon, <1>4, <1>5, <1>6

(* A label that is removed physically is no longer found, the others are as before.     *)
LEMMA RemovedChecks ==
  ASSUME NEW t, NEW n \in Nat, Agrees(t, n, Ids(n)), NEW l \in DOMAIN t.remap, NEW k
  PROVE  CheckLabel(Removed(t, n, l), k) <=> k # l /\ CheckLabel(t, k)
<1>1. PICK id, last : id = t.remap[l] /\ last = n - 1
  BY Zenon
<1>2. PICK r : r = Removed(t, n, l)
  BY Zenon
<1>3. /\ IsTable(r) /\ r.count = last
      /\ r.table = [i \in DOMAIN t.table |-> IF i = id THEN t.table[last] ELSE t.table[i]]
      /\ r.remap = [j \in DOMAIN t.remap \ {l} |-> IF t.remap[j] = last THEN id ELSE t.remap[j]]
      /\ r.deleted = (t.deleted \ {id, last}) \cup
                       (IF last \in t.deleted /\ last # id THEN {id} ELSE {})
  BY SMT, <1>1, <1>2, RemovedMembers
<1>4. CASE k \notin DOMAIN t.remap \ {l}
  BY Zenon, <1>2, <1>3, <1>4 DEF CheckLabel
<1>5. CASE k \in DOMAIN t.remap \ {l}
  <2>1. t.remap[k] # id
    BY Zenon, <1>1, <1>5, NamesDiffer DEF Agrees
  <2>2. k \in DOMAIN r.remap /\ r.remap[k] = IF t.remap[k] = last THEN id ELSE t.remap[k]
    BY Zenon, <1>3, <1>5
  <2>3. r.remap[k] \in r.deleted <=> t.remap[k] \in t.deleted
    <3>1. CASE t.remap[k] = last
      <4>1. r.remap[k] = id /\ last # id
        BY Zenon, <2>1, <2>2, <3>1
      <4>2. id \in r.deleted <=> last \in t.deleted
        BY SMT, <1>3, <4>1
      <4> QED BY Zenon, <3>1, <4>1, <4>2
    <3>2. CASE t.remap[k] # last
      <4>1. r.remap[k] = t.remap[k]
        BY Zenon, <2>2, <3>2
      <4>2. t.remap[k] \in r.deleted <=> t.remap[k] \in t.deleted
        BY SMT, <1>3, <2>1, <3>2
      <4> QED BY Zenon, <4>1, <4>2
    <3> QED BY Zenon, <3>1, <3>2
  <2> QED BY Zenon, <1>2, <1>5, <2>2, <2>3 DEF CheckLabel
<1> QED BY Zenon, <1>4, <1>5

=============================================================================
