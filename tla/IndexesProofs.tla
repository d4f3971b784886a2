--------------------------- MODULE IndexesProofs ---------------------------
(***************************************************************************)
(* Proofs about two of the indexes under index/.                               *)
(*                                                                         *)
(* HNSW, for any threads, labels, vectors and number of elements: lookup,         *)
(* tombstones and marks agree on the labels that have not clashed, whatever Adds,  *)
(* removals, renamings and a reload interleave, and an Add that succeeds leaves    *)
(* its label with its vector.                                                 *)
(*                                                                         *)
(* DiskANN, for any data set, number of rounds, crashes and reloads: what a build   *)
(* opens is aligned, wherever it was cut into checkpoints.                      *)
(***************************************************************************)
EXTENDS HNSW, DiskANN, FiniteSetTheorems, WellFoundedInduction, TLAPS

(* The members of an element, the ids of elements s, and those that are marked. *)
ElementFields == {"label", "vec", "deleted"}
Ids(s) == 0 .. Len(s) - 1
Dead(s) == {id \in Ids(s) : s[id + 1].deleted}
IsSeq(s) == \E S : s \in Seq(S)

Shape(s) ==
  /\ IsSeq(s)
  /\ \A id \in Ids(s) : /\ DOMAIN s[id + 1] = ElementFields
                        /\ s[id + 1].vec \in Vec /\ s[id + 1].label \in HNSWLabel

(* An unclashed label has one element; while that is live the label resolves to it. *)
Single(s, C) ==
  \A i, j \in Ids(s) : s[i + 1].label = s[j + 1].label /\ s[i + 1].label \notin C => i = j
Resolves(s, L, C) ==
  \A id \in Ids(s) :
    LET l == s[id + 1].label IN ~s[id + 1].deleted /\ l \notin C => l \in DOMAIN L /\ L[l] = id

(* A tombstone is marked and carries its label, or it has clashed. *)
Tombs(s, D, C) ==
  \A l \in DOMAIN D :
    /\ l \notin C => s[D[l] + 1].deleted
    /\ s[D[l] + 1].label = l \/ (l \in C /\ s[D[l] + 1].label \in C)

InRange(s, L) == \A l \in DOMAIN L : L[l] \in Ids(s)

(* Until a reload no label has two meanings. *)
Fresh(s, L, D) ==
  /\ \A l \in DOMAIN L : ~s[L[l] + 1].deleted /\ s[L[l] + 1].label = l
  /\ \A l \in DOMAIN D : s[D[l] + 1].deleted /\ s[D[l] + 1].label = l

(* What the elements s, the lookup L, the tombstones D and the clashed labels C have in common. *)
Consistent(s, L, D, C, fresh) ==
  /\ Shape(s) /\ InRange(s, L) /\ InRange(s, D)
  /\ Single(s, C) /\ Resolves(s, L, C) /\ Tombs(s, D, C) /\ (fresh => Fresh(s, L, D))

(* An Add under way, and one whose element is not linked yet. *)
AdderFields == {"pc", "label", "vec"}
Underway(k) == k.pc = "idle" \/ (AdderFields \subseteq DOMAIN k /\ k.vec \in Vec /\ k.label \in HNSWLabel)
Linked(k, s, L) ==
  k.pc = "link" => /\ k.label \in DOMAIN L /\ L[k.label] = k.id
                   /\ k.id \in Ids(s) /\ s[k.id + 1].vec = k.vec

HNSWInv ==
  /\ Consistent(elements, label_lookup, deleted_elements, clashed, ~reloaded)
  /\ num_deleted = Cardinality(Dead(elements))
  /\ DOMAIN adder = Adder
  /\ \A a \in Adder : Underway(adder[a]) /\ Linked(adder[a], elements, label_lookup)

-----------------------------------------------------------------------------
(* An element is written, and one is appended. *)
Wrote(s, t, id, r) ==
  /\ IsSeq(t) /\ Ids(t) = Ids(s) /\ t[id + 1] = r
  /\ \A j \in Ids(s) \ {id} : t[j + 1] = s[j + 1]

Grew(s, t, n, r) ==
  /\ IsSeq(t) /\ Ids(t) = Ids(s) \cup {n} /\ n \notin Ids(s) /\ t[n + 1] = r
  /\ \A j \in Ids(s) : t[j + 1] = s[j + 1]

(* Assigning to one element writes that element only. *)
LEMMA WriteOne ==
  ASSUME NEW s, IsSeq(s), NEW id \in Ids(s), NEW r, NEW t, t = [s EXCEPT ![id + 1] = r]
  PROVE  Wrote(s, t, id, r)
<1>1. PICK S : s \in Seq(S)
  BY Zenon DEF IsSeq
<1>2. PICK T : T = S \cup {r}
  BY Zenon
<1>3. s \in Seq(T) /\ r \in T
  BY <1>1, <1>2
<1>4. id \in Int /\ id + 1 \in 1 .. Len(s) /\ Len(s) \in Nat
  BY <1>1 DEF Ids
<1>5. t \in Seq(T) /\ Len(t) = Len(s) /\ t[id + 1] = r
  BY <1>3, <1>4
<1>6. ASSUME NEW j \in Ids(s) \ {id} PROVE t[j + 1] = s[j + 1]
  BY <1>3, <1>4 DEF Ids
<1>7. IsSeq(t)
  BY Zenon, <1>5 DEF IsSeq
<1>8. Ids(t) = Ids(s)
  BY Zenon, <1>5 DEF Ids
<1> QED BY Zenon, <1>5, <1>6, <1>7, <1>8 DEF Wrote

(* Appending an element gives it the next id. *)
LEMMA AppendOne ==
  ASSUME NEW s, IsSeq(s), NEW r, NEW t, t = Append(s, r), NEW n, n = Len(s)
  PROVE  Grew(s, t, n, r)
<1>1. PICK S : s \in Seq(S)
  BY Zenon DEF IsSeq
<1>2. PICK T : T = S \cup {r}
  BY Zenon
<1>3. s \in Seq(T) /\ r \in T
  BY <1>1, <1>2
<1>4. n \in Nat
  BY <1>1
<1>5. t \in Seq(T) /\ Len(t) = n + 1 /\ t[n + 1] = r
  BY <1>3
<1>6. ASSUME NEW j \in Ids(s) PROVE t[j + 1] = s[j + 1]
  BY <1>3, <1>4 DEF Ids
<1>7. IsSeq(t)
  BY Zenon, <1>5 DEF IsSeq
<1>8. Ids(t) = Ids(s) \cup {n} /\ n \notin Ids(s)
  BY <1>4, <1>5 DEF Ids
<1> QED BY Zenon, <1>5, <1>6, <1>7, <1>8 DEF Grew

(* The ids of a sequence. *)
LEMMA IdsAreNumbers ==
  ASSUME NEW s, IsSeq(s)
  PROVE  Ids(s) \subseteq Nat /\ IsFiniteSet(Ids(s)) /\ Len(s) \in Nat
<1>1. PICK S : s \in Seq(S)
  BY Zenon DEF IsSeq
<1>2. Len(s) \in Nat
  BY <1>1
<1>3. Ids(s) \subseteq Nat
  BY <1>2 DEF Ids
<1>4. PICK m \in Int : m = Len(s) - 1
  BY <1>2
<1>5. IsFiniteSet(0 .. m)
  BY <1>4, FS_Interval
<1> QED BY Zenon, <1>2, <1>3, <1>4, <1>5 DEF Ids

(* The marked elements are finitely many. *)
LEMMA DeadFinite ==
  ASSUME NEW s, IsSeq(s)
  PROVE  IsFiniteSet(Dead(s)) /\ Cardinality(Dead(s)) \in Nat
<1>1. IsFiniteSet(Ids(s)) /\ Dead(s) \subseteq Ids(s)
  BY Zenon, IdsAreNumbers DEF Dead
<1>2. IsFiniteSet(Dead(s))
  BY Zenon, <1>1, FS_Subset
<1> QED BY Zenon, <1>2, FS_CardinalityType

(* One element is marked. *)
LEMMA MarkCounts ==
  ASSUME NEW s, NEW t, NEW id \in Ids(s), NEW r, IsSeq(s), Wrote(s, t, id, r), ~s[id + 1].deleted, r.deleted
  PROVE  Cardinality(Dead(t)) = Cardinality(Dead(s)) + 1
<1>1. Dead(t) = Dead(s) \cup {id} /\ id \notin Dead(s)
  BY Zenon DEF Dead, Wrote
<1>2. Cardinality(Dead(s) \cup {id}) = IF id \in Dead(s) THEN Cardinality(Dead(s)) ELSE Cardinality(Dead(s)) + 1
  BY Zenon, DeadFinite, FS_AddElement
<1> QED BY Zenon, <1>1, <1>2

(* One mark is taken away. *)
LEMMA UnmarkCounts ==
  ASSUME NEW s, NEW t, NEW id \in Ids(s), NEW r, IsSeq(s), Wrote(s, t, id, r), s[id + 1].deleted, ~r.deleted
  PROVE  Cardinality(Dead(t)) = Cardinality(Dead(s)) - 1
<1>1. Dead(t) = Dead(s) \ {id} /\ id \in Dead(s)
  BY Zenon DEF Dead, Wrote
<1>2. Cardinality(Dead(s) \ {id}) = IF id \in Dead(s) THEN Cardinality(Dead(s)) - 1 ELSE Cardinality(Dead(s))
  BY Zenon, DeadFinite, FS_RemoveElement
<1> QED BY Zenon, <1>1, <1>2

(* Writes that keep the mark leave the marked ones as they are. *)
LEMMA WriteKeepsDead ==
  ASSUME NEW s, NEW t, NEW id \in Ids(s), NEW r, Wrote(s, t, id, r), r.deleted = s[id + 1].deleted
  PROVE  Dead(t) = Dead(s)
<1>1. \A j \in Ids(s) : t[j + 1].deleted <=> s[j + 1].deleted
  BY Zenon DEF Wrote
<1> QED BY Zenon, <1>1 DEF Dead, Wrote

(* A live element more leaves the marked ones as they are. *)
LEMMA GrowKeepsDead ==
  ASSUME NEW s, NEW t, NEW n, NEW r, Grew(s, t, n, r), ~r.deleted
  PROVE  Dead(t) = Dead(s)
  BY Zenon DEF Dead, Grew

-----------------------------------------------------------------------------
(* The maps. *)
Put(L, M, l, id) == DOMAIN M = DOMAIN L \cup {l} /\ M[l] = id /\ \A k \in DOMAIN L \ {l} : M[k] = L[k]
Cut(L, M, l) == DOMAIN M = DOMAIN L \ {l} /\ \A k \in DOMAIN M : M[k] = L[k]
PutNew(L, M, l, id) == (l \in DOMAIN L /\ M = L) \/ (l \notin DOMAIN L /\ Put(L, M, l, id))

(* insert_or_assign of a map. *)
LEMMA PutOne ==
  ASSUME NEW L, NEW l, NEW id, NEW M, M = InsertOrAssign(L, l, id)
  PROVE  Put(L, M, l, id)
  BY Zenon DEF InsertOrAssign, Put

(* erase of a map. *)
LEMMA CutOne ==
  ASSUME NEW L, NEW l, NEW M, M = Erase(L, l)
  PROVE  Cut(L, M, l)
  BY Zenon DEF Erase, Cut

(* emplace of a map. *)
LEMMA PutNewOne ==
  ASSUME NEW L, NEW l, NEW id, NEW M, M = InsertIfAbsent(L, l, id)
  PROVE  PutNew(L, M, l, id)
<1>1. CASE l \in DOMAIN L
  BY Zenon, <1>1 DEF InsertIfAbsent, PutNew
<1>2. CASE l \notin DOMAIN L
  <2>1. M = InsertOrAssign(L, l, id)
    BY Zenon, <1>2 DEF InsertIfAbsent
  <2> QED BY Zenon, <1>2, <2>1, PutOne DEF PutNew
<1> QED BY Zenon, <1>1, <1>2

-----------------------------------------------------------------------------
(* What the operations leave consistent. *)

(* recoverMarkDelete: the element of a tombstone is live again. *)
LEMMA RecoverConsistent ==
  ASSUME NEW s, NEW L, NEW D, NEW C, NEW fresh, Consistent(s, L, D, C, fresh),
         NEW l \in DOMAIN D, NEW id, id = D[l],
         NEW r, DOMAIN r = ElementFields, ~r.deleted, r.label = s[id + 1].label, r.vec = s[id + 1].vec,
         NEW t, Wrote(s, t, id, r), NEW M, Put(L, M, l, id), NEW F, Cut(D, F, s[id + 1].label)
  PROVE  Consistent(t, M, F, C, fresh)
<1>0. /\ Shape(s) /\ InRange(s, L) /\ InRange(s, D) /\ Single(s, C) /\ Resolves(s, L, C) /\ Tombs(s, D, C)
      /\ (fresh => Fresh(s, L, D))
  BY Zenon DEF Consistent
<1>1. id \in Ids(s) /\ Ids(t) = Ids(s) /\ IsSeq(t) /\ t[id + 1] = r
      /\ \A j \in Ids(s) \ {id} : t[j + 1] = s[j + 1]
  BY Zenon, <1>0 DEF InRange, Wrote
<1>2. Shape(t)
  BY Zenon, <1>0, <1>1 DEF Shape
<1>3. InRange(t, M)
  BY Zenon, <1>0, <1>1 DEF InRange, Put
<1>4. InRange(t, F)
  BY Zenon, <1>0, <1>1 DEF InRange, Cut
<1>5. \A j \in Ids(s) : t[j + 1].label = s[j + 1].label /\ (~s[j + 1].deleted => ~t[j + 1].deleted)
  BY Zenon, <1>1
<1>6. Single(t, C)
  <2>1. ASSUME NEW i \in Ids(s), NEW j \in Ids(s), t[i + 1].label = t[j + 1].label, t[i + 1].label \notin C
        PROVE  i = j
    <3>1. s[i + 1].label = s[j + 1].label /\ s[i + 1].label \notin C
      BY Zenon, <1>5, <2>1
    <3> QED BY Zenon, <1>0, <3>1 DEF Single
  <2> QED BY Zenon, <1>1, <2>1 DEF Single
<1>7. s[id + 1].label = l \/ (l \in C /\ s[id + 1].label \in C)
  BY Zenon, <1>0 DEF Tombs
<1>8. Resolves(t, M, C)
  <2>1. ASSUME NEW j \in Ids(s), NEW m, m = t[j + 1].label, ~t[j + 1].deleted, m \notin C
        PROVE  m \in DOMAIN M /\ M[m] = j
    <3>0. m = s[j + 1].label
      BY Zenon, <1>5, <2>1
    <3>1. CASE j = id
      <4>1. m = l
        BY Zenon, <1>7, <2>1, <3>0, <3>1
      <4> QED BY Zenon, <3>1, <4>1 DEF Put
    <3>2. CASE j # id
      <4>1. m \in DOMAIN L /\ L[m] = j
        BY Zenon, <1>0, <1>1, <2>1, <3>0, <3>2 DEF Resolves
      <4>2. m # l
        <5>1. ASSUME m = l PROVE FALSE
          <6>1. s[id + 1].label = m
            BY Zenon, <1>7, <2>1, <5>1
          <6> QED BY Zenon, <1>0, <1>1, <2>1, <3>0, <3>2, <6>1 DEF Single
        <5> QED BY Zenon, <5>1
      <4> QED BY Zenon, <4>1, <4>2 DEF Put
    <3> QED BY Zenon, <3>1, <3>2
  <2> QED BY Zenon, <1>1, <2>1 DEF Resolves
<1>9. \A k \in DOMAIN F : k \in DOMAIN D /\ F[k] = D[k] /\ k # s[id + 1].label /\ F[k] \in Ids(s)
  BY Zenon, <1>0 DEF Cut, InRange
<1>10. Tombs(t, F, C)
  <2>1. ASSUME NEW k \in DOMAIN F, k \notin C PROVE t[F[k] + 1].deleted
    <3>1. s[D[k] + 1].deleted /\ s[D[k] + 1].label = k
      BY Zenon, <1>0, <1>9, <2>1 DEF Tombs
    <3>2. D[k] # id
      BY Zenon, <1>9, <2>1, <3>1
    <3> QED BY Zenon, <1>1, <1>9, <3>1, <3>2
  <2>2. ASSUME NEW k \in DOMAIN F PROVE t[F[k] + 1].label = k \/ (k \in C /\ t[F[k] + 1].label \in C)
    <3>1. s[D[k] + 1].label = k \/ (k \in C /\ s[D[k] + 1].label \in C)
      BY Zenon, <1>0, <1>9 DEF Tombs
    <3> QED BY ZenonT(40), <1>5, <1>9, <3>1
  <2> QED BY Zenon, <2>1, <2>2 DEF Tombs
<1>11. ASSUME fresh PROVE Fresh(t, M, F)
  <2>0. \A m \in DOMAIN L : ~s[L[m] + 1].deleted /\ s[L[m] + 1].label = m /\ L[m] \in Ids(s)
    BY Zenon, <1>0, <1>11 DEF Fresh, InRange
  <2>a. \A k \in DOMAIN D : s[D[k] + 1].deleted /\ s[D[k] + 1].label = k
    BY Zenon, <1>0, <1>11 DEF Fresh
  <2>1. ASSUME NEW m \in DOMAIN M PROVE ~t[M[m] + 1].deleted /\ t[M[m] + 1].label = m
    <3>1. CASE m = l
      <4>1. M[m] = id /\ s[id + 1].label = l
        BY Zenon, <2>a, <3>1 DEF Put
      <4> QED BY Zenon, <1>1, <3>1, <4>1
    <3>2. CASE m # l
      <4>1. m \in DOMAIN L /\ M[m] = L[m]
        BY Zenon, <2>1, <3>2 DEF Put
      <4>2. ~s[L[m] + 1].deleted /\ s[L[m] + 1].label = m /\ L[m] \in Ids(s)
        BY Zenon, <2>0, <4>1
      <4> QED BY Zenon, <1>5, <4>1, <4>2
    <3> QED BY Zenon, <3>1, <3>2
  <2>2. ASSUME NEW k \in DOMAIN F PROVE t[F[k] + 1].deleted /\ t[F[k] + 1].label = k
    <3>0. s[D[k] + 1].deleted /\ s[D[k] + 1].label = k
      BY Zenon, <1>9, <2>a, <2>2
    <3>1. D[k] # id
      BY Zenon, <1>9, <2>2, <3>0
    <3>2. F[k] = D[k] /\ D[k] \in Ids(s)
      BY Zenon, <1>9, <2>2
    <3>3. t[D[k] + 1] = s[D[k] + 1]
      BY Zenon, <1>1, <3>1, <3>2
    <3> QED BY Zenon, <3>0, <3>2, <3>3
  <2> QED BY Zenon, <2>1, <2>2 DEF Fresh
<1> QED BY Zenon, <1>2, <1>3, <1>4, <1>6, <1>8, <1>10, <1>11 DEF Consistent

(* markDelete: the live element of a label becomes its tombstone. *)
LEMMA MarkConsistent ==
  ASSUME NEW s, NEW L, NEW D, NEW C, NEW fresh, Consistent(s, L, D, C, fresh),
         NEW l \in DOMAIN L, NEW id, id = L[l], ~s[id + 1].deleted,
         NEW r, DOMAIN r = ElementFields, r.deleted, r.label = s[id + 1].label, r.vec = s[id + 1].vec,
         NEW t, Wrote(s, t, id, r), NEW M, Cut(L, M, l), NEW F, PutNew(D, F, s[id + 1].label, id)
  PROVE  Consistent(t, M, F, C, fresh)
<1>0. /\ Shape(s) /\ InRange(s, L) /\ InRange(s, D) /\ Single(s, C) /\ Resolves(s, L, C) /\ Tombs(s, D, C)
      /\ (fresh => Fresh(s, L, D))
  BY Zenon DEF Consistent
<1>1. id \in Ids(s) /\ Ids(t) = Ids(s) /\ IsSeq(t) /\ t[id + 1] = r
      /\ \A j \in Ids(s) \ {id} : t[j + 1] = s[j + 1]
  BY Zenon, <1>0 DEF InRange, Wrote
<1>2. Shape(t)
  <2>1. ASSUME NEW j \in Ids(s)
        PROVE  DOMAIN t[j + 1] = ElementFields /\ t[j + 1].vec \in Vec /\ t[j + 1].label \in HNSWLabel
    <3>1. DOMAIN s[j + 1] = ElementFields /\ s[j + 1].vec \in Vec /\ s[j + 1].label \in HNSWLabel
      BY Zenon, <1>0 DEF Shape
    <3> QED BY Zenon, <1>1, <3>1
  <2> QED BY Zenon, <1>1, <2>1 DEF Shape
<1>3. InRange(t, M)
  BY Zenon, <1>0, <1>1 DEF InRange, Cut
<1>4. InRange(t, F)
  <2>1. ASSUME NEW k \in DOMAIN F PROVE F[k] \in Ids(s)
    <3>1. F[k] = id \/ (k \in DOMAIN D /\ F[k] = D[k])
      BY Zenon DEF PutNew, Put
    <3> QED BY Zenon, <1>0, <1>1, <3>1 DEF InRange
  <2> QED BY Zenon, <1>1, <2>1 DEF InRange
<1>5. \A j \in Ids(s) : t[j + 1].label = s[j + 1].label /\ (s[j + 1].deleted => t[j + 1].deleted)
  BY Zenon, <1>1
<1>6. Single(t, C)
  <2>1. ASSUME NEW i \in Ids(s), NEW j \in Ids(s), t[i + 1].label = t[j + 1].label, t[i + 1].label \notin C
        PROVE  i = j
    <3>1. s[i + 1].label = s[j + 1].label /\ s[i + 1].label \notin C
      BY Zenon, <1>5, <2>1
    <3> QED BY Zenon, <1>0, <3>1 DEF Single
  <2> QED BY Zenon, <1>1, <2>1 DEF Single
<1>8. Resolves(t, M, C)
  <2>1. ASSUME NEW j \in Ids(s), NEW m, m = t[j + 1].label, ~t[j + 1].deleted, m \notin C
        PROVE  m \in DOMAIN M /\ M[m] = j
    <3>0. m = s[j + 1].label /\ j # id /\ ~s[j + 1].deleted
      BY Zenon, <1>1, <1>5, <2>1
    <3>1. m \in DOMAIN L /\ L[m] = j
      BY Zenon, <1>0, <2>1, <3>0 DEF Resolves
    <3>2. m # l
      BY Zenon, <3>0, <3>1
    <3> QED BY Zenon, <3>1, <3>2 DEF Cut
  <2> QED BY Zenon, <1>1, <2>1 DEF Resolves
<1>9. ASSUME NEW k \in DOMAIN F
      PROVE  (k = s[id + 1].label /\ F[k] = id) \/ (k \in DOMAIN D /\ F[k] = D[k] /\ D[k] \in Ids(s))
  BY Zenon, <1>0, <1>9 DEF PutNew, Put, InRange
<1>10. Tombs(t, F, C)
  <2>1. ASSUME NEW k \in DOMAIN F
        PROVE  /\ k \notin C => t[F[k] + 1].deleted
               /\ t[F[k] + 1].label = k \/ (k \in C /\ t[F[k] + 1].label \in C)
    <3>1. CASE k = s[id + 1].label /\ F[k] = id
      BY Zenon, <1>1, <3>1
    <3>2. CASE k \in DOMAIN D /\ F[k] = D[k] /\ D[k] \in Ids(s)
      <4>1. /\ k \notin C => s[D[k] + 1].deleted
            /\ s[D[k] + 1].label = k \/ (k \in C /\ s[D[k] + 1].label \in C)
        BY Zenon, <1>0, <3>2 DEF Tombs
      <4> QED BY ZenonT(40), <1>5, <3>2, <4>1
    <3> QED BY Zenon, <1>9, <3>1, <3>2
  <2> QED BY Zenon, <2>1 DEF Tombs
<1>11. ASSUME fresh PROVE Fresh(t, M, F)
  <2>0. \A m \in DOMAIN L : ~s[L[m] + 1].deleted /\ s[L[m] + 1].label = m /\ L[m] \in Ids(s)
    BY Zenon, <1>0, <1>11 DEF Fresh, InRange
  <2>a. \A k \in DOMAIN D : s[D[k] + 1].deleted /\ s[D[k] + 1].label = k
    BY Zenon, <1>0, <1>11 DEF Fresh
  <2>1. ASSUME NEW m \in DOMAIN M PROVE ~t[M[m] + 1].deleted /\ t[M[m] + 1].label = m
    <3>1. m \in DOMAIN L /\ M[m] = L[m] /\ m # l
      BY Zenon, <2>1 DEF Cut
    <3>0. ~s[L[m] + 1].deleted /\ s[L[m] + 1].label = m /\ L[m] \in Ids(s)
      BY Zenon, <2>0, <3>1
    <3>2. L[m] # id
      <4>1. s[id + 1].label = l
        BY Zenon, <2>0
      <4> QED BY Zenon, <3>0, <3>1, <4>1
    <3> QED BY Zenon, <1>1, <3>0, <3>1, <3>2
  <2>2. ASSUME NEW k \in DOMAIN F PROVE t[F[k] + 1].deleted /\ t[F[k] + 1].label = k
    <3>1. CASE k = s[id + 1].label /\ F[k] = id
      BY Zenon, <1>1, <3>1
    <3>2. CASE k \in DOMAIN D /\ F[k] = D[k] /\ D[k] \in Ids(s)
      <4>1. s[D[k] + 1].deleted /\ s[D[k] + 1].label = k
        BY Zenon, <2>a, <3>2
      <4> QED BY Zenon, <1>5, <3>2, <4>1
    <3> QED BY Zenon, <1>9, <3>1, <3>2
  <2> QED BY Zenon, <2>1, <2>2 DEF Fresh
<1> QED BY Zenon, <1>2, <1>3, <1>4, <1>6, <1>8, <1>10, <1>11 DEF Consistent

(* hnswalg::updateVector: labels and marks stay. *)
LEMMA WriteConsistent ==
  ASSUME NEW s, NEW L, NEW D, NEW C, NEW fresh, Consistent(s, L, D, C, fresh), NEW id \in Ids(s),
         NEW r, DOMAIN r = ElementFields, r.deleted = s[id + 1].deleted, r.label = s[id + 1].label, r.vec \in Vec,
         NEW t, Wrote(s, t, id, r)
  PROVE  Consistent(t, L, D, C, fresh)
<1>0. /\ Shape(s) /\ InRange(s, L) /\ InRange(s, D) /\ Single(s, C) /\ Resolves(s, L, C) /\ Tombs(s, D, C)
      /\ (fresh => Fresh(s, L, D))
  BY Zenon DEF Consistent
<1>1. Ids(t) = Ids(s) /\ IsSeq(t) /\ t[id + 1] = r
      /\ \A j \in Ids(s) \ {id} : t[j + 1] = s[j + 1]
  BY Zenon, <1>0 DEF Wrote
<1>2. Shape(t)
  BY Zenon, <1>0, <1>1 DEF Shape
<1>3. InRange(t, L) /\ InRange(t, D)
  BY Zenon, <1>0, <1>1 DEF InRange
<1>5. \A j \in Ids(s) : t[j + 1].label = s[j + 1].label /\ (t[j + 1].deleted <=> s[j + 1].deleted)
  BY Zenon, <1>1
<1>6. Single(t, C)
  BY Zenon, <1>0, <1>1, <1>5 DEF Single
<1>7. Resolves(t, L, C)
  BY Zenon, <1>0, <1>1, <1>5 DEF Resolves
<1>8. Tombs(t, D, C)
  BY Zenon, <1>0, <1>5 DEF Tombs, InRange
<1>9. ASSUME fresh PROVE Fresh(t, L, D)
  <2>1. ASSUME NEW l \in DOMAIN L PROVE ~t[L[l] + 1].deleted /\ t[L[l] + 1].label = l
    <3>1. ~s[L[l] + 1].deleted /\ s[L[l] + 1].label = l /\ L[l] \in Ids(s)
      BY Zenon, <1>0, <1>9 DEF Fresh, InRange
    <3> QED BY Zenon, <1>5, <3>1
  <2>2. ASSUME NEW l \in DOMAIN D PROVE t[D[l] + 1].deleted /\ t[D[l] + 1].label = l
    <3>1. s[D[l] + 1].deleted /\ s[D[l] + 1].label = l /\ D[l] \in Ids(s)
      BY Zenon, <1>0, <1>9 DEF Fresh, InRange
    <3> QED BY Zenon, <1>5, <3>1
  <2> QED BY Zenon, <2>1, <2>2 DEF Fresh
<1> QED BY Zenon, <1>2, <1>3, <1>6, <1>7, <1>8, <1>9 DEF Consistent

-----------------------------------------------------------------------------
(* What the labels E that have clashed after a step say of the elements t and tombstones F. *)
Clashes(t, F, C, E) ==
  /\ C \subseteq E
  /\ \A i, j \in Ids(t) : i # j /\ t[i + 1].label = t[j + 1].label /\ t[i + 1].deleted => t[i + 1].label \in E
  /\ \A k \in DOMAIN F : /\ t[F[k] + 1].label # k => k \in E /\ t[F[k] + 1].label \in E
                         /\ ~t[F[k] + 1].deleted => k \in E

(* The elements, by position, that carry a label. *)
Carriers(t, m) == {n \in 1 .. Len(t) : t[n].label = m}

(* Two elements with one label make its carriers more than one. *)
LEMMA TwoCarriers ==
  ASSUME NEW t, IsSeq(t), NEW i \in Ids(t), NEW j \in Ids(t), i # j, t[i + 1].label = t[j + 1].label, NEW m,
         m = t[i + 1].label
  PROVE  Cardinality(Carriers(t, m)) > 1
<1>1. Len(t) \in Nat
  BY Zenon, IdsAreNumbers
<1>2. i + 1 \in 1 .. Len(t) /\ j + 1 \in 1 .. Len(t) /\ i + 1 # j + 1
  BY <1>1 DEF Ids
<1>3. PICK K : K = {n \in 1 .. Len(t) : t[n].label = m} /\ K = Carriers(t, m)
  BY Zenon DEF Carriers
<1>4. i + 1 \in K /\ j + 1 \in K
  BY Zenon, <1>2, <1>3
<1>5. IsFiniteSet(K)
  <2>1. IsFiniteSet(1 .. Len(t))
    BY <1>1, FS_Interval
  <2>2. K \subseteq 1 .. Len(t)
    BY Zenon, <1>3
  <2> QED BY Zenon, <2>1, <2>2, FS_Subset
<1>6. Cardinality(K) \in Nat
  BY Zenon, <1>5, FS_CardinalityType
<1>7. K # {} /\ Cardinality(K) # 0
  BY Zenon, <1>4, <1>5, FS_EmptySet
<1>8. Cardinality(K) # 1
  <2>1. ASSUME Cardinality(K) = 1 PROVE FALSE
    <3>1. PICK x : K = {x}
      BY Zenon, <1>5, <2>1, FS_Singleton
    <3>2. i + 1 = x /\ j + 1 = x
      BY Zenon, <1>4, <3>1
    <3> QED BY Zenon, <1>2, <3>2
  <2> QED BY Zenon, <2>1
<1>9. Cardinality(K) > 1
  BY <1>6, <1>7, <1>8
<1> QED BY Zenon, <1>3, <1>9

(* NoteClashes notes them. *)
LEMMA ClashesNoted ==
  ASSUME NoteClashes, IsSeq(elements'), \A id \in Ids(elements') : elements'[id + 1].label \in HNSWLabel,
         InRange(elements', deleted_elements')
  PROVE  Clashes(elements', deleted_elements', clashed, clashed')
<1>0. Len(elements') \in Nat
  BY Zenon, IdsAreNumbers
<1>1. clashed \subseteq clashed'
  BY Zenon DEF NoteClashes
<1>2. ASSUME NEW i \in Ids(elements'), NEW j \in Ids(elements'), i # j,
             elements'[i + 1].label = elements'[j + 1].label, elements'[i + 1].deleted
      PROVE  elements'[i + 1].label \in clashed'
  <2>1. PICK m : m = elements'[i + 1].label
    BY Zenon
  <2>2. Cardinality({n \in 1 .. Len(elements') : elements'[n].label = m}) > 1
    <3>1. PICK t : t = elements'
      BY Zenon
    <3>2. IsSeq(t) /\ i \in Ids(t) /\ j \in Ids(t) /\ t[i + 1].label = t[j + 1].label /\ m = t[i + 1].label
      BY Zenon, <1>2, <2>1, <3>1
    <3>3. Cardinality(Carriers(t, m)) > 1
      BY Zenon, <1>2, <3>2, TwoCarriers
    <3>4. Carriers(t, m) = {n \in 1 .. Len(elements') : elements'[n].label = m}
      BY Zenon, <3>1 DEF Carriers
    <3> QED BY Zenon, <3>3, <3>4
  <2>3. i + 1 \in {n \in 1 .. Len(elements') : elements'[n].label = m}
    <3>1. i + 1 \in 1 .. Len(elements')
      BY <1>0 DEF Ids
    <3> QED BY Zenon, <2>1, <3>1
  <2>4. m \in {l \in HNSWLabel : /\ Cardinality({n \in 1 .. Len(elements') : elements'[n].label = l}) > 1
                                 /\ \E n \in {q \in 1 .. Len(elements') : elements'[q].label = l} : elements'[n].deleted}
    BY Zenon, <1>2, <2>1, <2>2, <2>3
  <2>5. m \in clashed'
    BY Zenon, <2>4 DEF NoteClashes
  <2> QED BY Zenon, <2>1, <2>5
<1>3. ASSUME NEW k \in DOMAIN deleted_elements'
      PROVE  /\ elements'[deleted_elements'[k] + 1].label # k =>
                  k \in clashed' /\ elements'[deleted_elements'[k] + 1].label \in clashed'
             /\ ~elements'[deleted_elements'[k] + 1].deleted => k \in clashed'
  <2>1. PICK n : n = deleted_elements'[k] + 1
    BY Zenon
  <2>2. ASSUME elements'[n].label # k PROVE k \in clashed' /\ elements'[n].label \in clashed'
    <3>1. k \in {l \in DOMAIN deleted_elements' :
                   deleted_elements'[l] + 1 \notin {q \in 1 .. Len(elements') : elements'[q].label = l}}
      BY Zenon, <1>3, <2>1, <2>2
    <3> QED BY Zenon, <2>1, <3>1 DEF NoteClashes
  <2>3. ASSUME ~elements'[n].deleted PROVE k \in clashed'
    <3>1. k \in {l \in DOMAIN deleted_elements' : ~elements'[deleted_elements'[l] + 1].deleted}
      BY Zenon, <1>3, <2>1, <2>3
    <3> QED BY Zenon, <3>1 DEF NoteClashes
  <2> QED BY Zenon, <2>1, <2>2, <2>3
<1> QED BY Zenon, <1>1, <1>2, <1>3 DEF Clashes

(* Tombstones are right once clashes are noted. *)
LEMMA ClashedTombs ==
  ASSUME NEW t, NEW F, NEW C, NEW E, Clashes(t, F, C, E)
  PROVE  Tombs(t, F, E)
<1>1. ASSUME NEW k \in DOMAIN F
      PROVE  /\ k \notin E => t[F[k] + 1].deleted
             /\ t[F[k] + 1].label = k \/ (k \in E /\ t[F[k] + 1].label \in E)
  BY Zenon, <1>1 DEF Clashes
<1> QED BY Zenon, <1>1 DEF Tombs

(* An unclashed label has one element if it has one live element at most. *)
LEMMA ClashedSingle ==
  ASSUME NEW t, NEW F, NEW C, NEW E, Clashes(t, F, C, E),
         \A i, j \in Ids(t) : /\ ~t[i + 1].deleted /\ ~t[j + 1].deleted /\ t[i + 1].label = t[j + 1].label
                              /\ t[i + 1].label \notin E
                              => i = j
  PROVE  Single(t, E)
<1>1. ASSUME NEW i \in Ids(t), NEW j \in Ids(t), t[i + 1].label = t[j + 1].label, t[i + 1].label \notin E
      PROVE  i = j
  <2>1. CASE t[i + 1].deleted
    BY Zenon, <1>1, <2>1 DEF Clashes
  <2>2. CASE t[j + 1].deleted
    BY Zenon, <1>1, <2>2 DEF Clashes
  <2>3. CASE ~t[i + 1].deleted /\ ~t[j + 1].deleted
    BY Zenon, <1>1, <2>3
  <2> QED BY Zenon, <2>1, <2>2, <2>3
<1> QED BY Zenon, <1>1 DEF Single

(* addPoint: a new element under a label that does not resolve. *)
LEMMA InsertConsistent ==
  ASSUME NEW s, NEW L, NEW D, NEW C, NEW fresh, Consistent(s, L, D, C, fresh),
         NEW l, l \notin DOMAIN L, NEW n,
         NEW r, DOMAIN r = ElementFields, ~r.deleted, r.label = l, r.vec \in Vec, l \in HNSWLabel,
         NEW t, Grew(s, t, n, r), NEW M, Put(L, M, l, n), NEW E, Clashes(t, D, C, E)
  PROVE  Consistent(t, M, D, E, fresh)
<1>0. /\ Shape(s) /\ InRange(s, L) /\ InRange(s, D) /\ Single(s, C) /\ Resolves(s, L, C) /\ Tombs(s, D, C)
      /\ (fresh => Fresh(s, L, D))
  BY Zenon DEF Consistent
<1>1. Ids(t) = Ids(s) \cup {n} /\ n \notin Ids(s) /\ IsSeq(t) /\ t[n + 1] = r
      /\ \A j \in Ids(s) : t[j + 1] = s[j + 1]
  BY Zenon DEF Grew
<1>2. Shape(t)
  BY Zenon, <1>0, <1>1 DEF Shape
<1>3. InRange(t, M)
  BY Zenon, <1>0, <1>1 DEF InRange, Put
<1>4. InRange(t, D)
  BY Zenon, <1>0, <1>1 DEF InRange
<1>5. C \subseteq E
  BY Zenon DEF Clashes
<1>6. ASSUME NEW j \in Ids(s), ~s[j + 1].deleted, s[j + 1].label \notin E
      PROVE  s[j + 1].label \in DOMAIN L /\ L[s[j + 1].label] = j /\ s[j + 1].label # l
  BY Zenon, <1>0, <1>5, <1>6 DEF Resolves
<1>7. Single(t, E)
  <2>1. ASSUME NEW i \in Ids(t), NEW j \in Ids(t), ~t[i + 1].deleted, ~t[j + 1].deleted,
               t[i + 1].label = t[j + 1].label, t[i + 1].label \notin E
        PROVE  i = j
    <3>1. CASE i = n /\ j = n
      BY Zenon, <3>1
    <3>2. CASE i \in Ids(s) /\ j \in Ids(s)
      <4>0. t[i + 1] = s[i + 1] /\ t[j + 1] = s[j + 1]
        BY Zenon, <1>1, <3>2
      <4>1. L[s[i + 1].label] = i
        BY Zenon, <1>6, <2>1, <3>2, <4>0
      <4>2. L[s[j + 1].label] = j
        BY Zenon, <1>6, <2>1, <3>2, <4>0
      <4> QED BY Zenon, <2>1, <4>0, <4>1, <4>2
    <3>3. CASE i \in Ids(s) /\ j = n
      BY Zenon, <1>1, <1>6, <2>1, <3>3
    <3>4. CASE i = n /\ j \in Ids(s)
      BY Zenon, <1>1, <1>6, <2>1, <3>4
    <3> QED BY Zenon, <1>1, <3>1, <3>2, <3>3, <3>4
  <2> QED BY Zenon, <2>1, ClashedSingle
<1>8. Resolves(t, M, E)
  <2>1. ASSUME NEW j \in Ids(t), NEW m, m = t[j + 1].label, ~t[j + 1].deleted, m \notin E
        PROVE  m \in DOMAIN M /\ M[m] = j
    <3>1. CASE j = n
      BY Zenon, <1>1, <2>1, <3>1 DEF Put
    <3>2. CASE j \in Ids(s)
      <4>1. m \in DOMAIN L /\ L[m] = j /\ m # l
        BY Zenon, <1>1, <1>6, <2>1, <3>2
      <4> QED BY Zenon, <4>1 DEF Put
    <3> QED BY Zenon, <1>1, <3>1, <3>2
  <2> QED BY Zenon, <2>1 DEF Resolves
<1>9. Tombs(t, D, E)
  BY Zenon, ClashedTombs
<1>10. ASSUME fresh PROVE Fresh(t, M, D)
  <2>1. ASSUME NEW m \in DOMAIN M PROVE ~t[M[m] + 1].deleted /\ t[M[m] + 1].label = m
    <3>1. CASE m = l
      BY Zenon, <1>1, <3>1 DEF Put
    <3>2. CASE m # l
      <4>1. m \in DOMAIN L /\ M[m] = L[m]
        BY Zenon, <2>1, <3>2 DEF Put
      <4>2. ~s[L[m] + 1].deleted /\ s[L[m] + 1].label = m /\ L[m] \in Ids(s)
        BY Zenon, <1>0, <1>10, <4>1 DEF Fresh, InRange
      <4> QED BY Zenon, <1>1, <4>1, <4>2
    <3> QED BY Zenon, <3>1, <3>2
  <2>2. ASSUME NEW k \in DOMAIN D PROVE t[D[k] + 1].deleted /\ t[D[k] + 1].label = k
    <3>1. s[D[k] + 1].deleted /\ s[D[k] + 1].label = k /\ D[k] \in Ids(s)
      BY Zenon, <1>0, <1>10 DEF Fresh, InRange
    <3> QED BY Zenon, <1>1, <3>1
  <2> QED BY Zenon, <2>1, <2>2 DEF Fresh
<1> QED BY Zenon, <1>2, <1>3, <1>4, <1>7, <1>8, <1>9, <1>10 DEF Consistent


(* updateLabel of a label that resolves. *)
LEMMA RenameConsistent ==
  ASSUME NEW s, NEW L, NEW D, NEW C, NEW fresh, Consistent(s, L, D, C, fresh),
         NEW old \in DOMAIN L, NEW new \in HNSWLabel, new # old, new \notin DOMAIN L, NEW id, id = L[old],
         NEW r, DOMAIN r = ElementFields, r.deleted = s[id + 1].deleted, r.label = new, r.vec = s[id + 1].vec,
         NEW t, Wrote(s, t, id, r), NEW K, Cut(L, K, old), NEW M, Put(K, M, new, id),
         NEW E, Clashes(t, D, C, E)
  PROVE  Consistent(t, M, D, E, fresh)
<1>0. /\ Shape(s) /\ InRange(s, L) /\ InRange(s, D) /\ Single(s, C) /\ Resolves(s, L, C) /\ Tombs(s, D, C)
      /\ (fresh => Fresh(s, L, D))
  BY Zenon DEF Consistent
<1>1. id \in Ids(s) /\ Ids(t) = Ids(s) /\ IsSeq(t) /\ t[id + 1] = r
      /\ \A j \in Ids(s) \ {id} : t[j + 1] = s[j + 1]
  BY Zenon, <1>0 DEF InRange, Wrote
<1>2. Shape(t)
  <2>1. ASSUME NEW j \in Ids(s)
        PROVE  DOMAIN t[j + 1] = ElementFields /\ t[j + 1].vec \in Vec /\ t[j + 1].label \in HNSWLabel
    <3>1. DOMAIN s[j + 1] = ElementFields /\ s[j + 1].vec \in Vec /\ s[j + 1].label \in HNSWLabel
      BY Zenon, <1>0 DEF Shape
    <3> QED BY Zenon, <1>1, <3>1
  <2> QED BY Zenon, <1>1, <2>1 DEF Shape
<1>3. ASSUME NEW m \in DOMAIN M
      PROVE  (m = new /\ M[m] = id) \/ (m \in DOMAIN L /\ m # old /\ M[m] = L[m] /\ L[m] \in Ids(s))
  BY Zenon, <1>0, <1>3 DEF InRange, Put, Cut
<1>4. InRange(t, M) /\ InRange(t, D)
  BY Zenon, <1>0, <1>1, <1>3 DEF InRange
<1>5. C \subseteq E
  BY Zenon DEF Clashes
<1>6. ASSUME NEW j \in Ids(s), j # id, ~s[j + 1].deleted, s[j + 1].label \notin E
      PROVE  s[j + 1].label \in DOMAIN L /\ L[s[j + 1].label] = j /\ s[j + 1].label # new /\ s[j + 1].label # old
  BY Zenon, <1>0, <1>5, <1>6 DEF Resolves
<1>7. Single(t, E)
  <2>1. ASSUME NEW i \in Ids(t), NEW j \in Ids(t), ~t[i + 1].deleted, ~t[j + 1].deleted,
               t[i + 1].label = t[j + 1].label, t[i + 1].label \notin E
        PROVE  i = j
    <3>1. CASE i = id /\ j = id
      BY Zenon, <3>1
    <3>2. CASE i # id /\ j # id
      <4>0. t[i + 1] = s[i + 1] /\ t[j + 1] = s[j + 1] /\ i \in Ids(s) /\ j \in Ids(s)
        BY Zenon, <1>1, <3>2
      <4>1. L[s[i + 1].label] = i
        BY Zenon, <1>6, <2>1, <3>2, <4>0
      <4>2. L[s[j + 1].label] = j
        BY Zenon, <1>6, <2>1, <3>2, <4>0
      <4> QED BY Zenon, <2>1, <4>0, <4>1, <4>2
    <3>3. CASE i # id /\ j = id
      <4>0. t[i + 1] = s[i + 1] /\ t[j + 1] = r /\ i \in Ids(s)
        BY Zenon, <1>1, <3>3
      <4>1. s[i + 1].label # new
        BY Zenon, <1>6, <2>1, <3>3, <4>0
      <4> QED BY Zenon, <2>1, <4>0, <4>1
    <3>4. CASE i = id /\ j # id
      <4>0. t[j + 1] = s[j + 1] /\ t[i + 1] = r /\ j \in Ids(s)
        BY Zenon, <1>1, <3>4
      <4>1. s[j + 1].label # new
        BY Zenon, <1>6, <2>1, <3>4, <4>0
      <4> QED BY Zenon, <2>1, <4>0, <4>1
    <3> QED BY Zenon, <3>1, <3>2, <3>3, <3>4
  <2> QED BY Zenon, <2>1, ClashedSingle
<1>8. Resolves(t, M, E)
  <2>1. ASSUME NEW j \in Ids(t), NEW m, m = t[j + 1].label, ~t[j + 1].deleted, m \notin E
        PROVE  m \in DOMAIN M /\ M[m] = j
    <3>1. CASE j = id
      BY Zenon, <1>1, <2>1, <3>1 DEF Put
    <3>2. CASE j # id
      <4>0. t[j + 1] = s[j + 1] /\ j \in Ids(s)
        BY Zenon, <1>1, <3>2
      <4>1. m \in DOMAIN L /\ L[m] = j /\ m # new /\ m # old
        BY Zenon, <1>6, <2>1, <3>2, <4>0
      <4>2. m \in DOMAIN K /\ K[m] = j
        BY Zenon, <4>1 DEF Cut
      <4> QED BY Zenon, <4>1, <4>2 DEF Put
    <3> QED BY Zenon, <3>1, <3>2
  <2> QED BY Zenon, <2>1 DEF Resolves
<1>9. Tombs(t, D, E)
  BY Zenon, ClashedTombs
<1>10. ASSUME fresh PROVE Fresh(t, M, D)
  <2>0. ~s[id + 1].deleted /\ s[id + 1].label = old
    BY Zenon, <1>0, <1>10 DEF Fresh
  <2>1. ASSUME NEW m \in DOMAIN M PROVE ~t[M[m] + 1].deleted /\ t[M[m] + 1].label = m
    <3>1. CASE m = new /\ M[m] = id
      BY Zenon, <1>1, <2>0, <3>1
    <3>2. CASE m \in DOMAIN L /\ m # old /\ M[m] = L[m] /\ L[m] \in Ids(s)
      <4>1. ~s[L[m] + 1].deleted /\ s[L[m] + 1].label = m
        BY Zenon, <1>0, <1>10, <3>2 DEF Fresh
      <4>2. L[m] # id
        BY Zenon, <2>0, <3>2, <4>1
      <4> QED BY Zenon, <1>1, <3>2, <4>1, <4>2
    <3> QED BY Zenon, <1>3, <3>1, <3>2
  <2>2. ASSUME NEW k \in DOMAIN D PROVE t[D[k] + 1].deleted /\ t[D[k] + 1].label = k
    <3>1. s[D[k] + 1].deleted /\ s[D[k] + 1].label = k /\ D[k] \in Ids(s)
      BY Zenon, <1>0, <1>10 DEF Fresh, InRange
    <3>2. D[k] # id
      BY Zenon, <2>0, <3>1
    <3> QED BY Zenon, <1>1, <3>1, <3>2
  <2> QED BY Zenon, <2>1, <2>2 DEF Fresh
<1> QED BY Zenon, <1>2, <1>4, <1>7, <1>8, <1>9, <1>10 DEF Consistent

(* updateLabel of a label that is a tombstone only. *)
LEMMA RenameTombConsistent ==
  ASSUME NEW s, NEW L, NEW D, NEW C, NEW fresh, Consistent(s, L, D, C, fresh),
         NEW old \in DOMAIN D, old \notin DOMAIN L, NEW new \in HNSWLabel, new # old, new \notin DOMAIN L,
         NEW id, id = D[old],
         NEW r, DOMAIN r = ElementFields, r.deleted = s[id + 1].deleted, r.label = new, r.vec = s[id + 1].vec,
         NEW t, Wrote(s, t, id, r), NEW K, Cut(D, K, old), NEW F, PutNew(K, F, new, id),
         NEW E, Clashes(t, F, C, E)
  PROVE  Consistent(t, L, F, E, fresh)
<1>0. /\ Shape(s) /\ InRange(s, L) /\ InRange(s, D) /\ Single(s, C) /\ Resolves(s, L, C) /\ Tombs(s, D, C)
      /\ (fresh => Fresh(s, L, D))
  BY Zenon DEF Consistent
<1>1. id \in Ids(s) /\ Ids(t) = Ids(s) /\ IsSeq(t) /\ t[id + 1] = r
      /\ \A j \in Ids(s) \ {id} : t[j + 1] = s[j + 1]
  BY Zenon, <1>0 DEF InRange, Wrote
<1>2. Shape(t)
  <2>1. ASSUME NEW j \in Ids(s)
        PROVE  DOMAIN t[j + 1] = ElementFields /\ t[j + 1].vec \in Vec /\ t[j + 1].label \in HNSWLabel
    <3>1. DOMAIN s[j + 1] = ElementFields /\ s[j + 1].vec \in Vec /\ s[j + 1].label \in HNSWLabel
      BY Zenon, <1>0 DEF Shape
    <3> QED BY Zenon, <1>1, <3>1
  <2> QED BY Zenon, <1>1, <2>1 DEF Shape
<1>3. ASSUME NEW k \in DOMAIN F
      PROVE  (k = new /\ F[k] = id) \/ (k \in DOMAIN D /\ k # old /\ F[k] = D[k] /\ D[k] \in Ids(s))
  BY Zenon, <1>0, <1>3 DEF InRange, PutNew, Put, Cut
<1>4. InRange(t, L) /\ InRange(t, F)
  BY Zenon, <1>0, <1>1, <1>3 DEF InRange
<1>5. C \subseteq E
  BY Zenon DEF Clashes
<1>6. ASSUME NEW j \in Ids(s), j # id, ~s[j + 1].deleted, s[j + 1].label \notin E
      PROVE  s[j + 1].label \in DOMAIN L /\ L[s[j + 1].label] = j
  BY Zenon, <1>0, <1>5, <1>6 DEF Resolves
<1>a. new \in DOMAIN F
  BY Zenon DEF PutNew, Put
<1>b. ASSUME ~r.deleted PROVE new \in E
  <2>1. CASE F[new] = id
    BY Zenon, <1>1, <1>a, <1>b, <2>1 DEF Clashes
  <2>2. CASE F[new] # id
    <3>1. F[new] = D[new] /\ D[new] \in Ids(s)
      BY Zenon, <1>3, <1>a, <2>2
    <3>2. t[F[new] + 1].label # new => new \in E
      BY Zenon, <1>a DEF Clashes
    <3>3. ~t[F[new] + 1].deleted => new \in E
      BY Zenon, <1>a DEF Clashes
    <3>4. t[F[new] + 1].label = new /\ t[F[new] + 1].deleted => new \in E
      BY Zenon, <1>1, <2>2, <3>1 DEF Clashes
    <3> QED BY Zenon, <3>2, <3>3, <3>4
  <2> QED BY Zenon, <2>1, <2>2
<1>c. ASSUME NEW j \in Ids(t), ~t[j + 1].deleted, t[j + 1].label \notin E
      PROVE  j # id /\ t[j + 1] = s[j + 1] /\ j \in Ids(s)
  <2>1. j # id
    BY Zenon, <1>1, <1>b, <1>c
  <2> QED BY Zenon, <1>1, <2>1
<1>d. ASSUME NEW j \in Ids(t), ~t[j + 1].deleted, t[j + 1].label \notin E
      PROVE  t[j + 1].label \in DOMAIN L /\ L[t[j + 1].label] = j
  <2>1. j # id /\ t[j + 1] = s[j + 1] /\ j \in Ids(s)
    BY Zenon, <1>c, <1>d
  <2> QED BY Zenon, <1>6, <1>d, <2>1
<1>7. Single(t, E)
  <2>1. ASSUME NEW i \in Ids(t), NEW j \in Ids(t), ~t[i + 1].deleted, ~t[j + 1].deleted,
               t[i + 1].label = t[j + 1].label, t[i + 1].label \notin E
        PROVE  i = j
    <3>1. L[t[i + 1].label] = i
      BY Zenon, <1>d, <2>1
    <3>2. L[t[j + 1].label] = j
      BY Zenon, <1>d, <2>1
    <3> QED BY Zenon, <2>1, <3>1, <3>2
  <2> QED BY Zenon, <2>1, ClashedSingle
<1>8. Resolves(t, L, E)
  BY Zenon, <1>d DEF Resolves
<1>9. Tombs(t, F, E)
  BY Zenon, ClashedTombs
<1>10. ASSUME fresh PROVE Fresh(t, L, F)
  <2>0. s[id + 1].deleted /\ s[id + 1].label = old
    BY Zenon, <1>0, <1>10 DEF Fresh
  <2>1. ASSUME NEW m \in DOMAIN L PROVE ~t[L[m] + 1].deleted /\ t[L[m] + 1].label = m
    <3>1. ~s[L[m] + 1].deleted /\ s[L[m] + 1].label = m /\ L[m] \in Ids(s)
      BY Zenon, <1>0, <1>10 DEF Fresh, InRange
    <3>2. L[m] # id
      BY Zenon, <2>0, <3>1
    <3> QED BY Zenon, <1>1, <3>1, <3>2
  <2>2. ASSUME NEW k \in DOMAIN F PROVE t[F[k] + 1].deleted /\ t[F[k] + 1].label = k
    <3>1. CASE k = new /\ F[k] = id
      BY Zenon, <1>1, <2>0, <3>1
    <3>2. CASE k \in DOMAIN D /\ k # old /\ F[k] = D[k] /\ D[k] \in Ids(s)
      <4>1. s[D[k] + 1].deleted /\ s[D[k] + 1].label = k
        BY Zenon, <1>0, <1>10, <3>2 DEF Fresh
      <4>2. D[k] # id
        BY Zenon, <2>0, <3>2, <4>1
      <4> QED BY ZenonT(40), <1>1, <3>2, <4>1, <4>2
    <3> QED BY Zenon, <1>3, <3>1, <3>2
  <2> QED BY Zenon, <2>1, <2>2 DEF Fresh
<1> QED BY Zenon, <1>2, <1>4, <1>7, <1>8, <1>9, <1>10 DEF Consistent


(* Every set of numbers has a least one. *)
LEMMA LeastNumber ==
  ASSUME NEW T \in SUBSET Nat, T # {}
  PROVE  \E x \in T : \A y \in T : x <= y
<1>1. IsWellFoundedOn({ss \in Nat \X Nat : ss[1] < ss[2]}, Nat)
  BY Zenon, NatLessThanWellFounded DEF OpToRel
<1>2. PICK R : R = {ss \in Nat \X Nat : ss[1] < ss[2]}
  BY Zenon
<1>3. PICK x \in T : \A y \in T : ~ (<<y, x>> \in R)
  BY Zenon, <1>1, <1>2, WFMin
<1>4. ASSUME NEW y \in T PROVE ~ (y < x)
  <2>1. y \in Nat /\ x \in Nat
    BY Zenon
  <2>2. PICK p : p = <<y, x>>
    BY Zenon
  <2>3. p \in Nat \X Nat /\ p[1] = y /\ p[2] = x
    BY <2>1, <2>2
  <2>4. y < x => p \in R
    BY Zenon, <1>2, <2>3
  <2> QED BY Zenon, <1>3, <2>2, <2>4
<1> QED BY <1>4

(* Every set of ids has a greatest one. *)
LEMMA GreatestId ==
  ASSUME NEW s, IsSeq(s), NEW T \in SUBSET Ids(s), T # {}
  PROVE  \E x \in T : \A y \in T : y <= x
<1>0. PICK n \in Nat : n = Len(s)
  BY Zenon, IdsAreNumbers
<1>1. \A y \in T : y \in Nat /\ n - y \in Nat
  BY <1>0 DEF Ids
<1>2. PICK U : U = {n - y : y \in T}
  BY Zenon
<1>3. U \in SUBSET Nat /\ U # {}
  BY Zenon, <1>1, <1>2
<1>4. PICK u \in U : \A v \in U : u <= v
  BY Zenon, <1>3, LeastNumber
<1>5. PICK x \in T : u = n - x
  BY Zenon, <1>2
<1>6. ASSUME NEW y \in T PROVE y <= x
  <2>1. n - x <= n - y
    BY Zenon, <1>2, <1>4, <1>5
  <2>2. x \in Nat /\ y \in Nat
    BY Zenon, <1>1
  <2> QED BY <2>1, <2>2
<1> QED BY Zenon, <1>6

(* loadIndex: what the maps made from the elements are. *)
LEMMA LoadConsistent ==
  ASSUME NEW s, NEW L, NEW D, NEW C, NEW fresh, Consistent(s, L, D, C, fresh),
         NEW M, DOMAIN M = {s[id + 1].label : id \in Ids(s)},
         \A l \in DOMAIN M : M[l] \in Ids(s) /\ s[M[l] + 1].label = l,
         NEW F, DOMAIN F = {s[id + 1].label : id \in Dead(s)},
         \A l \in DOMAIN F : F[l] \in Dead(s) /\ s[F[l] + 1].label = l
  PROVE  Consistent(s, M, F, C, FALSE)
<1>0. Shape(s) /\ Single(s, C)
  BY Zenon DEF Consistent
<1>1. InRange(s, M) /\ InRange(s, F)
  BY Zenon DEF InRange, Dead
<1>2. Resolves(s, M, C)
  <2>1. ASSUME NEW id \in Ids(s), NEW l, l = s[id + 1].label, l \notin C
        PROVE  l \in DOMAIN M /\ M[l] = id
    <3>1. l \in DOMAIN M
      BY Zenon, <2>1
    <3>2. M[l] \in Ids(s) /\ s[M[l] + 1].label = l
      BY Zenon, <3>1
    <3> QED BY Zenon, <1>0, <2>1, <3>1, <3>2 DEF Single
  <2> QED BY Zenon, <2>1 DEF Resolves
<1>3. Tombs(s, F, C)
  BY Zenon DEF Tombs, Dead
<1> QED BY Zenon, <1>0, <1>1, <1>2, <1>3 DEF Consistent


-----------------------------------------------------------------------------
(* An Add that moves on leaves the others where they are. *)
LEMMA GotoStep ==
  ASSUME HNSWInv, NEW a \in Adder, adder[a].pc # "idle", NEW pc, pc # "link", Goto(a, pc)
  PROVE  /\ DOMAIN adder' = Adder /\ adder'[a].pc = pc
         /\ \A b \in Adder : Underway(adder'[b]) /\ (b # a => adder'[b] = adder[b])
<1>1. DOMAIN adder = Adder /\ Underway(adder[a])
  BY Zenon DEF HNSWInv
<1>2. AdderFields \subseteq DOMAIN adder[a] /\ adder[a].vec \in Vec /\ adder[a].label \in HNSWLabel
  BY Zenon, <1>1 DEF Underway
<1>3. PICK k : k = [adder[a] EXCEPT !.pc = pc]
  BY Zenon
<1>4. DOMAIN k = DOMAIN adder[a] /\ k.pc = pc /\ k.vec = adder[a].vec /\ k.label = adder[a].label
  BY Zenon, <1>2, <1>3 DEF AdderFields
<1>5. Underway(k)
  BY Zenon, <1>2, <1>4 DEF Underway
<1>6. adder' = [adder EXCEPT ![a] = k]
  BY Zenon, <1>3 DEF Goto
<1>7. DOMAIN adder' = Adder /\ adder'[a] = k /\ \A b \in Adder : b # a => adder'[b] = adder[b]
  BY Zenon, <1>1, <1>6
<1> QED BY Zenon, <1>4, <1>5, <1>7 DEF HNSWInv

(* An Add that returns leaves the others where they are. *)
LEMMA ReturnStep ==
  ASSUME HNSWInv, NEW a \in Adder, Return(a)
  PROVE  /\ DOMAIN adder' = Adder /\ adder'[a].pc = "idle"
         /\ \A b \in Adder : Underway(adder'[b]) /\ (b # a => adder'[b] = adder[b])
<1>1. DOMAIN adder = Adder
  BY Zenon DEF HNSWInv
<1>2. IdleAdder.pc = "idle"
  BY Zenon DEF IdleAdder
<1>3. DOMAIN adder' = Adder /\ adder'[a] = IdleAdder /\ \A b \in Adder : b # a => adder'[b] = adder[b]
  BY Zenon, <1>1 DEF Return
<1> QED BY Zenon, <1>2, <1>3 DEF HNSWInv, Underway

(* With no Add in addPoint nothing waits to be linked, and so without any Add. *)
LEMMA NobodyLinks ==
  ASSUME NoSharedLock, NEW a \in Adder, adder'[a].pc # "link", NEW s, NEW L,
         \A b \in Adder : b # a => adder'[b] = adder[b]
  PROVE  \A b \in Adder : Linked(adder'[b], s, L)
  BY Zenon DEF NoSharedLock, Linked

(* Beside a call that excludes Adds every thread is idle. *)
LEMMA EverybodyIdle ==
  ASSUME NoAddRunning
  PROVE  \A a \in Adder : adder[a].pc = "idle"
<1>1. PICK B : B = {a \in Adder : adder[a].pc # "idle"}
  BY Zenon
<1>2. IsFiniteSet(B)
  BY Zenon, <1>1, HNSWAssumption, FS_Subset
<1>3. Cardinality(B) = 0
  BY Zenon, <1>1 DEF NoAddRunning, Busy
<1>4. B = {}
  BY Zenon, <1>2, <1>3, FS_EmptySet
<1> QED BY Zenon, <1>1, <1>4

(* Steps that only move an Add keep the invariant. *)
LEMMA AdderMoves ==
  ASSUME HNSWInv, UNCHANGED <<elements, label_lookup, deleted_elements, num_deleted, reloaded, clashed>>,
         NEW a \in Adder, DOMAIN adder' = Adder, adder'[a].pc # "link",
         \A b \in Adder : Underway(adder'[b]) /\ (b # a => adder'[b] = adder[b])
  PROVE  HNSWInv'
<1>1. ASSUME NEW b \in Adder PROVE Linked(adder'[b], elements, label_lookup)
  <2>1. CASE b = a
    BY Zenon, <2>1 DEF Linked
  <2>2. CASE b # a
    BY Zenon, <2>2 DEF HNSWInv
  <2> QED BY Zenon, <2>1, <2>2
<1> QED BY Zenon, <1>1 DEF HNSWInv

(* An Add begins. *)
LEMMA StartStep ==
  ASSUME HNSWInv, NEW a \in Adder, NEW l \in HNSWLabel, NEW v \in Vec, AddStart(a, l, v)
  PROVE  HNSWInv'
<1>1. PICK pc : pc = (IF l \in DOMAIN deleted_elements THEN "recover" ELSE "insert")
  BY Zenon
<1>2. pc # "link"
  BY <1>1
<1>3. PICK k : k = [pc |-> pc, label |-> l, vec |-> v]
  BY Zenon
<1>4. k.pc # "link" /\ Underway(k)
  BY Zenon, <1>2, <1>3 DEF Underway, AdderFields
<1>5. adder' = [adder EXCEPT ![a] = k] /\ DOMAIN adder = Adder
  BY Zenon, <1>1, <1>3 DEF AddStart, HNSWInv
<1>6. DOMAIN adder' = Adder /\ adder'[a] = k /\ \A b \in Adder : b # a => adder'[b] = adder[b]
  BY Zenon, <1>5
<1>7. \A b \in Adder : Underway(adder'[b])
  BY Zenon, <1>4, <1>6 DEF HNSWInv
<1>8. UNCHANGED <<elements, label_lookup, deleted_elements, num_deleted, reloaded, clashed>>
  BY Zenon DEF AddStart
<1> QED BY Zenon, <1>4, <1>6, <1>7, <1>8, AdderMoves

(* The first half of UpdateVector changes nothing of the index. *)
LEMMA CompareStep ==
  ASSUME HNSWInv, NEW a \in Adder, NEW neighbors, AddCompare(a, neighbors)
  PROVE  HNSWInv'
<1>1. adder[a].pc = "compare" /\ (Goto(a, "refuse") \/ Return(a) \/ Goto(a, "overwrite"))
  BY Zenon DEF AddCompare
<1>2. UNCHANGED <<elements, label_lookup, deleted_elements, num_deleted, reloaded, clashed>>
  BY Zenon DEF AddCompare
<1>3. adder[a].pc # "idle"
  BY <1>1
<1>4. /\ DOMAIN adder' = Adder /\ adder'[a].pc # "link"
      /\ \A b \in Adder : Underway(adder'[b]) /\ (b # a => adder'[b] = adder[b])
  <2>1. CASE Goto(a, "refuse")
    BY ZenonT(40), <1>3, <2>1, GotoStep
  <2>2. CASE Return(a)
    BY Zenon, <2>2, ReturnStep
  <2>3. CASE Goto(a, "overwrite")
    BY ZenonT(40), <1>3, <2>3, GotoStep
  <2> QED BY Zenon, <1>1, <2>1, <2>2, <2>3
<1> QED BY Zenon, <1>2, <1>4, AdderMoves

(* The rest of addPoint touches the entry point only. *)
LEMMA LinkStep ==
  ASSUME HNSWInv, NEW a \in Adder, AddLink(a)
  PROVE  HNSWInv'
<1>1. Return(a) /\ UNCHANGED <<elements, label_lookup, deleted_elements, num_deleted, reloaded, clashed>>
  BY Zenon DEF AddLink
<1>2. /\ DOMAIN adder' = Adder /\ adder'[a].pc # "link"
      /\ \A b \in Adder : Underway(adder'[b]) /\ (b # a => adder'[b] = adder[b])
  BY Zenon, <1>1, ReturnStep
<1> QED BY Zenon, <1>1, <1>2, AdderMoves

(* An element of a consistent index. *)
LEMMA ElementKnown ==
  ASSUME NEW s, NEW L, NEW D, NEW C, NEW fresh, Consistent(s, L, D, C, fresh), NEW id \in Ids(s)
  PROVE  /\ IsSeq(s) /\ DOMAIN s[id + 1] = ElementFields
         /\ s[id + 1].vec \in Vec /\ s[id + 1].label \in HNSWLabel
  BY Zenon DEF Consistent, Shape

(* recoverMarkDelete, or the throw when another Add was first. *)
LEMMA RecoverStep ==
  ASSUME HNSWInv, NEW a \in Adder, AddRecover(a)
  PROVE  HNSWInv'
<1>1. /\ Consistent(elements, label_lookup, deleted_elements, clashed, ~reloaded)
      /\ num_deleted = Cardinality(Dead(elements))
  BY Zenon DEF HNSWInv
<1>2. adder[a].pc = "recover" /\ NoSharedLock /\ UNCHANGED <<reloaded, clashed>>
  BY Zenon DEF AddRecover
<1>3. adder[a].pc # "idle"
  BY <1>2
<1>4. CASE Recoverable(adder[a].label)
  <2>1. PICK l, id : l = adder[a].label /\ id = deleted_elements[l]
    BY Zenon
  <2>2. l \in DOMAIN deleted_elements /\ elements[id + 1].deleted
    BY Zenon, <1>4, <2>1 DEF Recoverable, isMarkedDeleted, Element
  <2>3. id \in Ids(elements)
    BY Zenon, <1>1, <2>1, <2>2 DEF Consistent, InRange
  <2>4. IsSeq(elements) /\ DOMAIN elements[id + 1] = ElementFields
    BY Zenon, <1>1, <2>3, ElementKnown
  <2>5. PICK r : r = [elements[id + 1] EXCEPT !.deleted = FALSE]
    BY Zenon
  <2>6. DOMAIN r = ElementFields /\ ~r.deleted /\ r.label = elements[id + 1].label /\ r.vec = elements[id + 1].vec
    BY Zenon, <2>4, <2>5 DEF ElementFields
  <2>7. /\ recoverMarkDelete(l) /\ num_deleted' = num_deleted - 1 /\ Goto(a, "compare")
    BY Zenon, <1>4, <2>1 DEF AddRecover
  <2>8. elements' = [elements EXCEPT ![id + 1] = r]
    BY Zenon, <2>1, <2>5, <2>7 DEF recoverMarkDelete
  <2>9. Wrote(elements, elements', id, r)
    BY Zenon, <2>3, <2>4, <2>8, WriteOne
  <2>10. Put(label_lookup, label_lookup', l, id)
    BY Zenon, <2>1, <2>7, PutOne DEF recoverMarkDelete
  <2>11. Cut(deleted_elements, deleted_elements', elements[id + 1].label)
    BY Zenon, <2>1, <2>7, CutOne DEF recoverMarkDelete, Element
  <2>12. Consistent(elements', label_lookup', deleted_elements', clashed, ~reloaded)
    BY Zenon, <1>1, <2>1, <2>2, <2>6, <2>9, <2>10, <2>11, RecoverConsistent
  <2>13. num_deleted' = Cardinality(Dead(elements'))
    BY Zenon, <1>1, <2>2, <2>3, <2>4, <2>6, <2>7, <2>9, UnmarkCounts
  <2>14. /\ DOMAIN adder' = Adder /\ adder'[a].pc = "compare"
         /\ \A b \in Adder : Underway(adder'[b]) /\ (b # a => adder'[b] = adder[b])
    BY Zenon, <1>3, <2>7, GotoStep
  <2>15. adder'[a].pc # "link"
    BY <2>14
  <2>16. \A b \in Adder : Linked(adder'[b], elements', label_lookup')
    BY Zenon, <1>2, <2>14, <2>15, NobodyLinks
  <2> QED BY Zenon, <1>2, <2>12, <2>13, <2>14, <2>16 DEF HNSWInv
<1>5. CASE ~Recoverable(adder[a].label)
  <2>1. Return(a) /\ UNCHANGED <<elements, label_lookup, deleted_elements, num_deleted>>
    BY Zenon, <1>5 DEF AddRecover
  <2>2. /\ DOMAIN adder' = Adder /\ adder'[a].pc # "link"
        /\ \A b \in Adder : Underway(adder'[b]) /\ (b # a => adder'[b] = adder[b])
    BY Zenon, <2>1, ReturnStep
  <2> QED BY Zenon, <1>2, <2>1, <2>2, AdderMoves
<1> QED BY Zenon, <1>4, <1>5


(* markDelete, from an Add that is refused or from Remove. *)
LEMMA MarkStep ==
  ASSUME HNSWInv, NEW l, Markable(l), markDelete(l), UNCHANGED <<reloaded, clashed>>
  PROVE  /\ Consistent(elements', label_lookup', deleted_elements', clashed', ~reloaded')
         /\ num_deleted' = Cardinality(Dead(elements'))
<1>1. /\ Consistent(elements, label_lookup, deleted_elements, clashed, ~reloaded)
      /\ num_deleted = Cardinality(Dead(elements))
  BY Zenon DEF HNSWInv
<1>2. PICK id : id = label_lookup[l]
  BY Zenon
<1>3. l \in DOMAIN label_lookup /\ ~elements[id + 1].deleted
  BY Zenon, <1>2 DEF Markable, isMarkedDeleted, Element
<1>4. id \in Ids(elements)
  BY Zenon, <1>1, <1>2, <1>3 DEF Consistent, InRange
<1>5. IsSeq(elements) /\ DOMAIN elements[id + 1] = ElementFields
  BY Zenon, <1>1, <1>4, ElementKnown
<1>6. PICK r : r = [elements[id + 1] EXCEPT !.deleted = TRUE]
  BY Zenon
<1>7. DOMAIN r = ElementFields /\ r.deleted /\ r.label = elements[id + 1].label /\ r.vec = elements[id + 1].vec
  BY Zenon, <1>5, <1>6 DEF ElementFields
<1>8. elements' = [elements EXCEPT ![id + 1] = r]
  BY Zenon, <1>2, <1>6 DEF markDelete
<1>9. Wrote(elements, elements', id, r)
  BY Zenon, <1>4, <1>5, <1>8, WriteOne
<1>10. PutNew(deleted_elements, deleted_elements', elements[id + 1].label, id)
  BY Zenon, <1>2, PutNewOne DEF markDelete, Element
<1>11. Cut(label_lookup, label_lookup', l)
  BY Zenon, CutOne DEF markDelete
<1>12. Consistent(elements', label_lookup', deleted_elements', clashed, ~reloaded)
  BY Zenon, <1>1, <1>2, <1>3, <1>7, <1>9, <1>10, <1>11, MarkConsistent
<1>13. num_deleted' = Cardinality(Dead(elements')) 
  <2>1. Cardinality(Dead(elements')) = Cardinality(Dead(elements)) + 1
    BY Zenon, <1>3, <1>4, <1>5, <1>7, <1>9, MarkCounts
  <2> QED BY Zenon, <1>1, <2>1 DEF markDelete
<1> QED BY Zenon, <1>12, <1>13

(* markDelete of an Add whose vector was refused. *)
LEMMA RefuseStep ==
  ASSUME HNSWInv, NEW a \in Adder, AddRefuse(a)
  PROVE  HNSWInv'
<1>1. adder[a].pc = "refuse" /\ NoSharedLock /\ UNCHANGED <<reloaded, clashed>>
  BY Zenon DEF AddRefuse
<1>2. adder[a].pc # "idle"
  BY <1>1
<1>3. CASE Markable(adder[a].label)
  <2>1. markDelete(adder[a].label) /\ Goto(a, "insert")
    BY Zenon, <1>3 DEF AddRefuse
  <2>2. /\ Consistent(elements', label_lookup', deleted_elements', clashed', ~reloaded')
        /\ num_deleted' = Cardinality(Dead(elements'))
    BY Zenon, <1>1, <1>3, <2>1, MarkStep
  <2>3. /\ DOMAIN adder' = Adder /\ adder'[a].pc = "insert"
        /\ \A b \in Adder : Underway(adder'[b]) /\ (b # a => adder'[b] = adder[b])
    BY Zenon, <1>2, <2>1, GotoStep
  <2>4. adder'[a].pc # "link"
    BY <2>3
  <2>5. \A b \in Adder : Linked(adder'[b], elements', label_lookup')
    BY Zenon, <1>1, <2>3, <2>4, NobodyLinks
  <2> QED BY Zenon, <2>2, <2>3, <2>5 DEF HNSWInv
<1>4. CASE ~Markable(adder[a].label)
  <2>1. Return(a) /\ UNCHANGED <<elements, label_lookup, deleted_elements, num_deleted>>
    BY Zenon, <1>4 DEF AddRefuse
  <2>2. /\ DOMAIN adder' = Adder /\ adder'[a].pc # "link"
        /\ \A b \in Adder : Underway(adder'[b]) /\ (b # a => adder'[b] = adder[b])
    BY Zenon, <2>1, ReturnStep
  <2> QED BY Zenon, <1>1, <2>1, <2>2, AdderMoves
<1> QED BY Zenon, <1>3, <1>4

(* The write of the second half of UpdateVector. *)
LEMMA OverwriteWrites ==
  ASSUME HNSWInv, NEW a \in Adder, AddOverwrite(a), adder[a].label \in DOMAIN label_lookup
  PROVE  /\ Consistent(elements', label_lookup, deleted_elements, clashed, ~reloaded)
         /\ Dead(elements') = Dead(elements)
         /\ elements'[label_lookup[adder[a].label] + 1].vec = adder[a].vec
<1>1. Consistent(elements, label_lookup, deleted_elements, clashed, ~reloaded) /\ Underway(adder[a])
  BY Zenon DEF HNSWInv
<1>2. adder[a].pc = "overwrite"
  BY Zenon DEF AddOverwrite
<1>3. adder[a].vec \in Vec
  <2>1. adder[a].pc # "idle"
    BY <1>2
  <2> QED BY Zenon, <1>1, <2>1 DEF Underway
<1>4. PICK id, v : id = label_lookup[adder[a].label] /\ v = adder[a].vec
  BY Zenon
<1>5. id \in Ids(elements)
  BY Zenon, <1>1, <1>4 DEF Consistent, InRange
<1>6. IsSeq(elements) /\ DOMAIN elements[id + 1] = ElementFields
  BY Zenon, <1>1, <1>5, ElementKnown
<1>7. PICK r : r = [elements[id + 1] EXCEPT !.vec = v]
  BY Zenon
<1>8. /\ DOMAIN r = ElementFields /\ r.deleted = elements[id + 1].deleted
      /\ r.label = elements[id + 1].label /\ r.vec = v /\ r.vec \in Vec
  BY Zenon, <1>3, <1>4, <1>6, <1>7 DEF ElementFields
<1>9. elements' = [elements EXCEPT ![id + 1] = r]
  BY Zenon, <1>4, <1>7 DEF AddOverwrite, WriteVector
<1>10. Wrote(elements, elements', id, r)
  BY Zenon, <1>5, <1>6, <1>9, WriteOne
<1>11. /\ Consistent(elements', label_lookup, deleted_elements, clashed, ~reloaded)
       /\ Dead(elements') = Dead(elements)
  <2>1. Consistent(elements', label_lookup, deleted_elements, clashed, ~reloaded)
    BY Zenon, <1>1, <1>5, <1>8, <1>10, WriteConsistent
  <2>2. Dead(elements') = Dead(elements)
    BY Zenon, <1>5, <1>8, <1>10, WriteKeepsDead
  <2> QED BY Zenon, <2>1, <2>2
<1>12. elements'[id + 1].vec = v
  BY Zenon, <1>8, <1>10 DEF Wrote
<1> QED BY Zenon, <1>4, <1>11, <1>12

(* The second half of UpdateVector. *)
LEMMA OverwriteStep ==
  ASSUME HNSWInv, NEW a \in Adder, AddOverwrite(a)
  PROVE  HNSWInv'
<1>1. /\ adder[a].pc = "overwrite" /\ NoSharedLock
      /\ UNCHANGED <<label_lookup, deleted_elements, num_deleted, reloaded, clashed>>
  BY Zenon DEF AddOverwrite
<1>2. adder[a].pc # "idle"
  BY <1>1
<1>3. CASE adder[a].label \in DOMAIN label_lookup
  <2>1. /\ Consistent(elements', label_lookup, deleted_elements, clashed, ~reloaded)
        /\ Dead(elements') = Dead(elements)
    BY Zenon, <1>3, OverwriteWrites
  <2>2. Return(a)
    BY Zenon, <1>3 DEF AddOverwrite
  <2>3. /\ DOMAIN adder' = Adder /\ adder'[a].pc = "idle"
        /\ \A b \in Adder : Underway(adder'[b]) /\ (b # a => adder'[b] = adder[b])
    BY Zenon, <2>2, ReturnStep
  <2>4. adder'[a].pc # "link"
    BY <2>3
  <2>5. \A b \in Adder : Linked(adder'[b], elements', label_lookup')
    BY Zenon, <1>1, <2>3, <2>4, NobodyLinks
  <2> QED BY Zenon, <1>1, <2>1, <2>3, <2>5 DEF HNSWInv
<1>4. CASE adder[a].label \notin DOMAIN label_lookup
  <2>1. Goto(a, "refuse") /\ UNCHANGED elements
    BY Zenon, <1>4 DEF AddOverwrite
  <2>2. /\ DOMAIN adder' = Adder /\ adder'[a].pc # "link"
        /\ \A b \in Adder : Underway(adder'[b]) /\ (b # a => adder'[b] = adder[b])
    BY ZenonT(40), <1>2, <2>1, GotoStep
  <2> QED BY Zenon, <1>1, <2>1, <2>2, AdderMoves
<1> QED BY Zenon, <1>3, <1>4

(* addPoint under label_lookup_lock_. *)
LEMMA InsertStep ==
  ASSUME HNSWInv, NEW a \in Adder, AddInsert(a)
  PROVE  HNSWInv'
<1>1. /\ Consistent(elements, label_lookup, deleted_elements, clashed, ~reloaded)
      /\ num_deleted = Cardinality(Dead(elements)) /\ DOMAIN adder = Adder /\ Underway(adder[a])
  BY Zenon DEF HNSWInv
<1>2. adder[a].pc = "insert" /\ UNCHANGED <<deleted_elements, num_deleted, reloaded>> /\ NoteClashes
  BY Zenon DEF AddInsert
<1>3. PICK l, v : l = adder[a].label /\ v = adder[a].vec
  BY Zenon
<1>4. l \in HNSWLabel /\ v \in Vec
  <2>1. adder[a].pc # "idle"
    BY <1>2
  <2> QED BY Zenon, <1>1, <1>3, <2>1 DEF Underway
<1>5. CASE l \in DOMAIN label_lookup
  <2>1. Return(a) /\ UNCHANGED <<elements, label_lookup>>
    BY Zenon, <1>3, <1>5 DEF AddInsert
  <2>2. /\ DOMAIN adder' = Adder /\ adder'[a].pc # "link"
        /\ \A b \in Adder : Underway(adder'[b]) /\ (b # a => adder'[b] = adder[b])
    BY Zenon, <2>1, ReturnStep
  <2>3. clashed \subseteq clashed'
    BY Zenon, <1>2 DEF NoteClashes
  <2>4. Clashes(elements', deleted_elements', clashed, clashed')
    <3>1. Shape(elements') /\ InRange(elements', deleted_elements')
      BY Zenon, <1>1, <1>2, <2>1 DEF Consistent
    <3>2. IsSeq(elements') /\ \A id \in Ids(elements') : elements'[id + 1].label \in HNSWLabel
      BY Zenon, <3>1 DEF Shape
    <3> QED BY Zenon, <1>2, <3>1, <3>2, ClashesNoted
  <2>5. Tombs(elements', deleted_elements', clashed')
    BY Zenon, <2>4, ClashedTombs
  <2>6. Single(elements, clashed') /\ Resolves(elements, label_lookup, clashed')
    BY Zenon, <1>1, <2>3 DEF Consistent, Single, Resolves
  <2>7. Consistent(elements', label_lookup', deleted_elements', clashed', ~reloaded')
    BY Zenon, <1>1, <1>2, <2>1, <2>5, <2>6 DEF Consistent
  <2>8. ASSUME NEW b \in Adder PROVE Linked(adder'[b], elements', label_lookup')
    <3>1. CASE b = a
      BY Zenon, <2>2, <3>1 DEF Linked
    <3>2. CASE b # a
      BY Zenon, <2>1, <2>2, <3>2 DEF HNSWInv
    <3> QED BY Zenon, <3>1, <3>2
  <2> QED BY Zenon, <1>1, <1>2, <2>1, <2>2, <2>7, <2>8 DEF HNSWInv
<1>6. CASE l \notin DOMAIN label_lookup
  <2>1. PICK n : n = Len(elements)
    BY Zenon
  <2>2. PICK r : r = [label |-> l, vec |-> v, deleted |-> FALSE]
    BY Zenon
  <2>3. DOMAIN r = ElementFields /\ ~r.deleted /\ r.label = l /\ r.vec = v
    BY Zenon, <2>2 DEF ElementFields
  <2>4. PICK k : k = [pc |-> "link", label |-> l, vec |-> v, id |-> n]
    BY Zenon
  <2>5. /\ elements' = Append(elements, r) /\ label_lookup' = InsertOrAssign(label_lookup, l, n)
        /\ adder' = [adder EXCEPT ![a] = k]
    BY Zenon, <1>3, <1>6, <2>1, <2>2, <2>4 DEF AddInsert
  <2>6. IsSeq(elements) /\ Shape(elements)
    BY Zenon, <1>1 DEF Consistent, Shape
  <2>7. Grew(elements, elements', n, r)
    BY Zenon, <2>1, <2>5, <2>6, AppendOne
  <2>8. Put(label_lookup, label_lookup', l, n)
    BY Zenon, <2>5, PutOne
  <2>9. IsSeq(elements') /\ \A id \in Ids(elements') : elements'[id + 1].label \in HNSWLabel
    BY Zenon, <1>4, <2>3, <2>6, <2>7 DEF Grew, Shape
  <2>10. InRange(elements', deleted_elements')
    <3>1. InRange(elements, deleted_elements) /\ Ids(elements) \subseteq Ids(elements')
      BY Zenon, <1>1, <2>7 DEF Grew, Consistent
    <3> QED BY Zenon, <1>2, <3>1 DEF InRange
  <2>11. Clashes(elements', deleted_elements', clashed, clashed')
    BY Zenon, <1>2, <2>9, <2>10, ClashesNoted
  <2>12. Clashes(elements', deleted_elements, clashed, clashed')
    BY Zenon, <1>2, <2>11
  <2>13. Consistent(elements', label_lookup', deleted_elements, clashed', ~reloaded) /\ Dead(elements') = Dead(elements)
    <3>1. Consistent(elements', label_lookup', deleted_elements, clashed', ~reloaded)
      BY Zenon, <1>1, <1>4, <1>6, <2>3, <2>7, <2>8, <2>12, InsertConsistent
    <3>2. Dead(elements') = Dead(elements)
      BY Zenon, <2>3, <2>7, GrowKeepsDead
    <3> QED BY Zenon, <3>1, <3>2
  <2>14. DOMAIN adder' = Adder /\ adder'[a] = k /\ \A b \in Adder : b # a => adder'[b] = adder[b]
    BY Zenon, <1>1, <2>5
  <2>15. Underway(k) /\ k.label = l /\ k.id = n /\ k.vec = v
    BY Zenon, <1>4, <2>4 DEF Underway, AdderFields
  <2>16. ASSUME NEW b \in Adder PROVE Underway(adder'[b]) /\ Linked(adder'[b], elements', label_lookup')
    <3>1. CASE b = a
      <4>1. Linked(k, elements', label_lookup')
        BY Zenon, <2>3, <2>7, <2>8, <2>15 DEF Linked, Grew, Put
      <4> QED BY Zenon, <2>14, <2>15, <3>1, <4>1
    <3>2. CASE b # a
      <4>1. Underway(adder[b]) /\ Linked(adder[b], elements, label_lookup) /\ adder'[b] = adder[b]
        BY Zenon, <2>14, <3>2 DEF HNSWInv
      <4>2. ASSUME adder[b].pc = "link"
            PROVE  /\ adder[b].label \in DOMAIN label_lookup' /\ label_lookup'[adder[b].label] = adder[b].id
                   /\ adder[b].id \in Ids(elements') /\ elements'[adder[b].id + 1].vec = adder[b].vec
        <5>1. /\ adder[b].label \in DOMAIN label_lookup /\ label_lookup[adder[b].label] = adder[b].id
              /\ adder[b].id \in Ids(elements) /\ elements[adder[b].id + 1].vec = adder[b].vec
          BY Zenon, <4>1, <4>2 DEF Linked
        <5>2. adder[b].label # l
          BY Zenon, <1>6, <5>1
        <5>3. adder[b].label \in DOMAIN label_lookup' /\ label_lookup'[adder[b].label] = adder[b].id
          BY Zenon, <2>8, <5>1, <5>2 DEF Put
        <5> QED BY Zenon, <2>7, <5>1, <5>3 DEF Grew
      <4>3. Linked(adder[b], elements', label_lookup')
        BY Zenon, <4>2 DEF Linked
      <4> QED BY Zenon, <4>1, <4>3
    <3> QED BY Zenon, <3>1, <3>2
  <2> QED BY Zenon, <1>1, <1>2, <2>13, <2>14, <2>16 DEF HNSWInv
<1> QED BY Zenon, <1>5, <1>6


-----------------------------------------------------------------------------
(* Removal, renaming, feedback and reload happen beside no Add. *)
LEMMA NobodyMoves ==
  ASSUME HNSWInv, NoAddRunning, UNCHANGED adder, NEW s, NEW L
  PROVE  DOMAIN adder' = Adder /\ \A a \in Adder : Underway(adder'[a]) /\ Linked(adder'[a], s, L)
<1>1. ASSUME NEW a \in Adder PROVE adder[a].pc # "link"
  <2>1. adder[a].pc = "idle"
    BY Zenon, EverybodyIdle
  <2> QED BY <2>1
<1> QED BY Zenon, <1>1 DEF HNSWInv, Linked

(* HNSW::remove. *)
LEMMA RemoveStep ==
  ASSUME HNSWInv, NEW l, HNSWRemove(l)
  PROVE  HNSWInv'
<1>1. NoAddRunning /\ UNCHANGED adder /\ Markable(l) /\ markDelete(l) /\ UNCHANGED <<reloaded, clashed>>
  BY Zenon DEF HNSWRemove
<1>2. /\ Consistent(elements', label_lookup', deleted_elements', clashed', ~reloaded')
      /\ num_deleted' = Cardinality(Dead(elements'))
  BY Zenon, <1>1, MarkStep
<1>3. DOMAIN adder' = Adder /\ \A a \in Adder : Underway(adder'[a]) /\ Linked(adder'[a], elements', label_lookup')
  BY Zenon, <1>1, NobodyMoves
<1> QED BY Zenon, <1>2, <1>3 DEF HNSWInv

(* HNSW::update_id, of a label that resolves and of a tombstone. *)
LEMMA UpdateIdStep ==
  ASSUME HNSWInv, NEW old \in HNSWLabel, NEW new \in HNSWLabel, HNSWUpdateId(old, new)
  PROVE  HNSWInv'
<1>1. /\ Consistent(elements, label_lookup, deleted_elements, clashed, ~reloaded)
      /\ num_deleted = Cardinality(Dead(elements))
  BY Zenon DEF HNSWInv
<1>2. /\ NoAddRunning /\ UNCHANGED <<adder, num_deleted, reloaded>> /\ NoteClashes
      /\ old # new /\ new \notin DOMAIN label_lookup
  BY Zenon DEF HNSWUpdateId, LabelIsFree
<1>3. DOMAIN adder' = Adder /\ \A a \in Adder : Underway(adder'[a]) /\ Linked(adder'[a], elements', label_lookup')
  BY Zenon, <1>2, NobodyMoves
<1>4. Shape(elements) /\ IsSeq(elements)
  BY Zenon, <1>1 DEF Consistent, Shape
(* An element whose label is written. *)
<1>5. ASSUME NEW id \in Ids(elements), elements' = [elements EXCEPT ![id + 1].label = new],
             InRange(elements, deleted_elements')
      PROVE  \E r : /\ DOMAIN r = ElementFields /\ r.deleted = elements[id + 1].deleted /\ r.label = new
                    /\ r.vec = elements[id + 1].vec /\ Wrote(elements, elements', id, r)
                    /\ Clashes(elements', deleted_elements', clashed, clashed')
  <2>1. DOMAIN elements[id + 1] = ElementFields
    BY Zenon, <1>4 DEF Shape
  <2>2. PICK r : r = [elements[id + 1] EXCEPT !.label = new]
    BY Zenon
  <2>3. /\ DOMAIN r = ElementFields /\ r.deleted = elements[id + 1].deleted /\ r.label = new
        /\ r.vec = elements[id + 1].vec
    BY Zenon, <2>1, <2>2 DEF ElementFields
  <2>4. elements' = [elements EXCEPT ![id + 1] = r]
    BY Zenon, <1>5, <2>2
  <2>5. Wrote(elements, elements', id, r)
    BY Zenon, <1>4, <2>4, WriteOne
  <2>6. IsSeq(elements') /\ \A j \in Ids(elements') : elements'[j + 1].label \in HNSWLabel
    BY Zenon, <1>4, <2>3, <2>5 DEF Wrote, Shape
  <2>7. InRange(elements', deleted_elements')
    BY Zenon, <1>5, <2>5 DEF InRange, Wrote
  <2>8. Clashes(elements', deleted_elements', clashed, clashed')
    BY Zenon, <1>2, <2>6, <2>7, ClashesNoted
  <2> QED BY Zenon, <2>3, <2>5, <2>8
<1>6. CASE old \in DOMAIN label_lookup
  <2>1. PICK id : id = label_lookup[old]
    BY Zenon
  <2>2. /\ label_lookup' = InsertOrAssign(Erase(label_lookup, old), new, id)
        /\ elements' = [elements EXCEPT ![id + 1].label = new] /\ UNCHANGED deleted_elements
    BY Zenon, <1>6, <2>1 DEF HNSWUpdateId
  <2>3. id \in Ids(elements) /\ InRange(elements, deleted_elements')
    BY Zenon, <1>1, <1>6, <2>1, <2>2 DEF Consistent, InRange
  <2>4. PICK r : /\ DOMAIN r = ElementFields /\ r.deleted = elements[id + 1].deleted /\ r.label = new
                 /\ r.vec = elements[id + 1].vec /\ Wrote(elements, elements', id, r)
                 /\ Clashes(elements', deleted_elements', clashed, clashed')
    BY Zenon, <1>5, <2>2, <2>3
  <2>5. PICK K : K = Erase(label_lookup, old)
    BY Zenon
  <2>6. Cut(label_lookup, K, old) /\ Put(K, label_lookup', new, id)
    BY Zenon, <2>2, <2>5, CutOne, PutOne
  <2>7. Clashes(elements', deleted_elements, clashed, clashed')
    BY Zenon, <2>2, <2>4
  <2>8. Consistent(elements', label_lookup', deleted_elements, clashed', ~reloaded) /\ Dead(elements') = Dead(elements)
    <3>1. Consistent(elements', label_lookup', deleted_elements, clashed', ~reloaded)
      BY Zenon, <1>1, <1>2, <1>6, <2>1, <2>4, <2>6, <2>7, RenameConsistent
    <3>2. Dead(elements') = Dead(elements)
      BY Zenon, <2>3, <2>4, WriteKeepsDead
    <3> QED BY Zenon, <3>1, <3>2
  <2> QED BY Zenon, <1>1, <1>2, <1>3, <2>2, <2>8 DEF HNSWInv
<1>7. CASE old \notin DOMAIN label_lookup
  <2>1. PICK id : id = deleted_elements[old]
    BY Zenon
  <2>2. /\ old \in DOMAIN deleted_elements
        /\ deleted_elements' = InsertIfAbsent(Erase(deleted_elements, old), new, id)
        /\ elements' = [elements EXCEPT ![id + 1].label = new] /\ UNCHANGED label_lookup
    BY Zenon, <1>7, <2>1 DEF HNSWUpdateId
  <2>3. PICK K : K = Erase(deleted_elements, old)
    BY Zenon
  <2>4. Cut(deleted_elements, K, old) /\ PutNew(K, deleted_elements', new, id)
    BY Zenon, <2>2, <2>3, CutOne, PutNewOne
  <2>5. id \in Ids(elements)
    BY Zenon, <1>1, <2>1, <2>2 DEF Consistent, InRange
  <2>6. InRange(elements, deleted_elements')
    <3>1. InRange(elements, deleted_elements)
      BY Zenon, <1>1 DEF Consistent
    <3>2. InRange(elements, K)
      BY Zenon, <2>4, <3>1 DEF InRange, Cut
    <3> QED BY Zenon, <2>4, <2>5, <3>2 DEF InRange, PutNew, Put
  <2>7. PICK r : /\ DOMAIN r = ElementFields /\ r.deleted = elements[id + 1].deleted /\ r.label = new
                 /\ r.vec = elements[id + 1].vec /\ Wrote(elements, elements', id, r)
                 /\ Clashes(elements', deleted_elements', clashed, clashed')
    BY Zenon, <1>5, <2>2, <2>5, <2>6
  <2>8. Consistent(elements', label_lookup, deleted_elements', clashed', ~reloaded) /\ Dead(elements') = Dead(elements)
    <3>1. Consistent(elements', label_lookup, deleted_elements', clashed', ~reloaded)
      BY Zenon, <1>1, <1>2, <1>7, <2>1, <2>2, <2>4, <2>7, RenameTombConsistent
    <3>2. Dead(elements') = Dead(elements)
      BY Zenon, <2>5, <2>7, WriteKeepsDead
    <3> QED BY Zenon, <3>1, <3>2
  <2> QED BY Zenon, <1>1, <1>2, <1>3, <2>2, <2>8 DEF HNSWInv
<1> QED BY Zenon, <1>6, <1>7

(* HNSW::feedback touches the conjugate graph only. *)
LEMMA FeedbackStep ==
  ASSUME HNSWInv, NEW l, NEW m, Feedback(l, m)
  PROVE  HNSWInv'
<1>1. UNCHANGED <<elements, label_lookup, deleted_elements, num_deleted, adder, reloaded, clashed>>
  BY Zenon DEF Feedback
<1> QED BY Zenon, <1>1 DEF HNSWInv

(* saveIndex and loadIndex. *)
LEMMA LoadStep ==
  ASSUME HNSWInv, HNSWSaveAndLoad
  PROVE  HNSWInv'
<1>1. Consistent(elements, label_lookup, deleted_elements, clashed, ~reloaded) /\ IsSeq(elements)
  BY Zenon DEF HNSWInv, Consistent, Shape
<1>2. NoAddRunning /\ UNCHANGED <<elements, adder, clashed>> /\ reloaded'
  BY Zenon DEF HNSWSaveAndLoad
<1>3. DOMAIN adder' = Adder /\ \A a \in Adder : Underway(adder'[a]) /\ Linked(adder'[a], elements', label_lookup')
  BY Zenon, <1>2, NobodyMoves
<1>4. (0 .. Len(elements) - 1) \ Live = Dead(elements) /\ 0 .. Len(elements) - 1 = Ids(elements)
  BY Zenon DEF Live, isMarkedDeleted, Element, Dead, Ids
<1>6. label_lookup' = [l \in {elements[id + 1].label : id \in 0 .. Len(elements) - 1} |->
                         CHOOSE id \in {i \in 0 .. Len(elements) - 1 : elements[i + 1].label = l} :
                           \A j \in {i \in 0 .. Len(elements) - 1 : elements[i + 1].label = l} : j <= id]
  BY DEF HNSWSaveAndLoad, Element
<1>7. deleted_elements' = [l \in {elements[id + 1].label : id \in (0 .. Len(elements) - 1) \ Live} |->
                             CHOOSE id \in {i \in (0 .. Len(elements) - 1) \ Live : elements[i + 1].label = l} :
                               \A j \in {i \in (0 .. Len(elements) - 1) \ Live : elements[i + 1].label = l} : id <= j]
  BY DEF HNSWSaveAndLoad, Element
<1>8. /\ DOMAIN label_lookup' = {elements[id + 1].label : id \in Ids(elements)}
      /\ \A l \in DOMAIN label_lookup' : label_lookup'[l] \in Ids(elements) /\ elements[label_lookup'[l] + 1].label = l
  <2>1. ASSUME NEW l \in {elements[id + 1].label : id \in Ids(elements)}
        PROVE  label_lookup'[l] \in Ids(elements) /\ elements[label_lookup'[l] + 1].label = l
    <3>1. PICK T : T = {i \in Ids(elements) : elements[i + 1].label = l}
      BY Zenon
    <3>2. T \in SUBSET Ids(elements) /\ T # {}
      BY Zenon, <2>1, <3>1
    <3>3. \E x \in T : \A y \in T : y <= x
      BY Zenon, <1>1, <3>2, GreatestId
    <3>4. label_lookup'[l] = CHOOSE id \in T : \A j \in T : j <= id
      BY Zenon, <1>4, <1>6, <2>1, <3>1
    <3>5. label_lookup'[l] \in T
      BY Zenon, <3>3, <3>4
    <3> QED BY Zenon, <3>1, <3>5
  <2> QED BY Zenon, <1>4, <1>6, <2>1
<1>9. /\ DOMAIN deleted_elements' = {elements[id + 1].label : id \in Dead(elements)}
      /\ \A l \in DOMAIN deleted_elements' :
           deleted_elements'[l] \in Dead(elements) /\ elements[deleted_elements'[l] + 1].label = l
  <2>1. ASSUME NEW l \in {elements[id + 1].label : id \in Dead(elements)}
        PROVE  deleted_elements'[l] \in Dead(elements) /\ elements[deleted_elements'[l] + 1].label = l
    <3>1. PICK T : T = {i \in Dead(elements) : elements[i + 1].label = l}
      BY Zenon
    <3>2. T \in SUBSET Nat /\ T # {}
      <4>1. Dead(elements) \subseteq Nat
        BY Zenon, <1>1, IdsAreNumbers DEF Dead
      <4> QED BY Zenon, <2>1, <3>1, <4>1
    <3>3. \E x \in T : \A y \in T : x <= y
      BY Zenon, <3>2, LeastNumber
    <3>4. deleted_elements'[l] = CHOOSE id \in T : \A j \in T : id <= j
      BY Zenon, <1>4, <1>7, <2>1, <3>1
    <3>5. deleted_elements'[l] \in T
      BY Zenon, <3>3, <3>4
    <3> QED BY Zenon, <3>1, <3>5
  <2> QED BY Zenon, <1>4, <1>7, <2>1
<1>10. Consistent(elements, label_lookup', deleted_elements', clashed, FALSE)
  BY Zenon, <1>1, <1>8, <1>9, LoadConsistent
<1>11. Consistent(elements', label_lookup', deleted_elements', clashed', ~reloaded')
  <2>1. (~reloaded') = FALSE
    BY Zenon, <1>2
  <2> QED BY Zenon, <1>2, <1>10 DEF Consistent
<1>12. num_deleted' = Cardinality(Dead(elements'))
  BY Zenon, <1>2, <1>4 DEF HNSWSaveAndLoad
<1> QED BY Zenon, <1>3, <1>11, <1>12 DEF HNSWInv

(* An empty index is consistent. *)
LEMMA HNSWStarts ==
  ASSUME HNSWInit
  PROVE  HNSWInv
<1>1. /\ elements = <<>> /\ label_lookup = NoMap /\ deleted_elements = NoMap /\ num_deleted = 0
      /\ adder = [a \in Adder |-> IdleAdder]
  BY Zenon DEF HNSWInit
<1>2. IsSeq(elements)
  <2>1. elements \in Seq({})
    BY <1>1
  <2> QED BY Zenon, <2>1 DEF IsSeq
<1>3. Ids(elements) = {}
  BY <1>1 DEF Ids
<1>4. DOMAIN label_lookup = {} /\ DOMAIN deleted_elements = {}
  BY Zenon, <1>1 DEF NoMap
<1>5. Consistent(elements, label_lookup, deleted_elements, clashed, ~reloaded)
  BY Zenon, <1>2, <1>3, <1>4 DEF Consistent, Shape, InRange, Single, Resolves, Tombs, Fresh
<1>6. num_deleted = Cardinality(Dead(elements))
  <2>1. Dead(elements) = {}
    BY Zenon, <1>3 DEF Dead
  <2> QED BY Zenon, <1>1, <2>1, FS_EmptySet
<1>7. \A a \in Adder : adder[a].pc = "idle"
  BY Zenon, <1>1 DEF IdleAdder
<1>8. DOMAIN adder = Adder /\ \A a \in Adder : Underway(adder[a]) /\ adder[a].pc # "link"
  BY Zenon, <1>1, <1>7 DEF Underway
<1> QED BY Zenon, <1>5, <1>6, <1>8 DEF HNSWInv, Linked

(* Every step keeps the invariant. *)
LEMMA HNSWStays ==
  ASSUME HNSWInv, [HNSWNext]_hnswVars
  PROVE  HNSWInv'
<1>1. ASSUME NEW a \in Adder, NEW l \in HNSWLabel, NEW v \in Vec, AddStart(a, l, v) PROVE HNSWInv'
  BY Zenon, <1>1, StartStep
<1>2. ASSUME NEW a \in Adder, AddRecover(a) PROVE HNSWInv'
  BY Zenon, <1>2, RecoverStep
<1>3. ASSUME NEW a \in Adder, NEW neighbors, AddCompare(a, neighbors) PROVE HNSWInv'
  BY ZenonT(40), <1>3, CompareStep
<1>4. ASSUME NEW a \in Adder, AddOverwrite(a) PROVE HNSWInv'
  BY Zenon, <1>4, OverwriteStep
<1>5. ASSUME NEW a \in Adder, AddRefuse(a) PROVE HNSWInv'
  BY Zenon, <1>5, RefuseStep
<1>6. ASSUME NEW a \in Adder, AddInsert(a) PROVE HNSWInv'
  BY Zenon, <1>6, InsertStep
<1>7. ASSUME NEW a \in Adder, AddLink(a) PROVE HNSWInv'
  BY Zenon, <1>7, LinkStep
<1>8. ASSUME NEW l \in HNSWLabel, HNSWRemove(l) PROVE HNSWInv'
  BY Zenon, <1>8, RemoveStep
<1>9. ASSUME NEW l \in HNSWLabel, NEW m \in HNSWLabel, HNSWUpdateId(l, m) \/ Feedback(l, m) PROVE HNSWInv'
  BY Zenon, <1>9, UpdateIdStep, FeedbackStep
<1>10. ASSUME HNSWSaveAndLoad PROVE HNSWInv'
  BY Zenon, <1>10, LoadStep
<1>11. ASSUME UNCHANGED hnswVars PROVE HNSWInv'
  BY Zenon, <1>11 DEF hnswVars, HNSWInv
<1> QED BY ZenonT(40), <1>1, <1>2, <1>3, <1>4, <1>5, <1>6, <1>7, <1>8, <1>9, <1>10, <1>11 DEF HNSWNext


-----------------------------------------------------------------------------
(* An answer gains labels of the lookup only. *)
LEMMA EnhanceGains ==
  ASSUME NEW answer, NEW query
  PROVE  EnhanceResult(answer, query) \subseteq answer \cup DOMAIN label_lookup
  BY Zenon DEF EnhanceResult

(* The invariant says that the parts agree on which labels are live. *)
LEMMA InvAgrees ==
  ASSUME HNSWInv
  PROVE  LiveLabelsAgree
<1>1. /\ Consistent(elements, label_lookup, deleted_elements, clashed, ~reloaded)
      /\ num_deleted = Cardinality(Dead(elements))
  BY Zenon DEF HNSWInv
<1>2. /\ InRange(elements, label_lookup) /\ Resolves(elements, label_lookup, clashed)
      /\ (~reloaded => Fresh(elements, label_lookup, deleted_elements))
  BY Zenon, <1>1 DEF Consistent
<1>3. Dead(elements) = {id \in 0 .. Len(elements) - 1 : isMarkedDeleted(id)}
  BY Zenon DEF Dead, Ids, isMarkedDeleted, Element
<1>4. TombstonesAreMarked
  <2>1. ASSUME NEW l \in DOMAIN deleted_elements, ~reloaded
        PROVE  isMarkedDeleted(deleted_elements[l]) /\ Element(deleted_elements[l]).label = l
    BY Zenon, <1>2, <2>1 DEF Fresh, isMarkedDeleted, Element
  <2>2. num_deleted = Cardinality({id \in 0 .. Len(elements) - 1 : isMarkedDeleted(id)})
    BY Zenon, <1>1, <1>3
  <2> QED BY Zenon, <2>1, <2>2 DEF TombstonesAreMarked
<1>5. Live = {id \in Ids(elements) : ~elements[id + 1].deleted}
  BY Zenon DEF Live, Ids, isMarkedDeleted, Element
<1>6. LiveElementsResolve
  <2>1. ASSUME NEW id \in Live, Element(id).label \notin clashed
        PROVE  Element(id).label \in DOMAIN label_lookup /\ label_lookup[Element(id).label] = id
    <3>1. id \in Ids(elements) /\ ~elements[id + 1].deleted /\ elements[id + 1].label \notin clashed
      BY Zenon, <1>5, <2>1 DEF Element
    <3>2. elements[id + 1].label \in DOMAIN label_lookup /\ label_lookup[elements[id + 1].label] = id
      BY Zenon, <1>2, <3>1 DEF Resolves
    <3> QED BY Zenon, <3>2 DEF Element
  <2> QED BY Zenon, <2>1 DEF LiveElementsResolve
<1>7. EnhancedAnswersAreLive
  <2>1. SUFFICES ASSUME ~reloaded,
                        NEW answer \in SUBSET {Element(id).label : id \in Live} \ {{}}, NEW query \in Vec
                 PROVE  EnhanceResult(answer, query) \subseteq {Element(id).label : id \in Live}
    BY Zenon DEF EnhancedAnswersAreLive
  <2>2. ASSUME NEW l \in DOMAIN label_lookup PROVE l \in {Element(id).label : id \in Live}
    <3>1. ~elements[label_lookup[l] + 1].deleted /\ elements[label_lookup[l] + 1].label = l
      BY Zenon, <1>2, <2>1 DEF Fresh
    <3>2. label_lookup[l] \in Live
      BY Zenon, <1>2, <1>5, <3>1 DEF InRange
    <3> QED BY Zenon, <3>1, <3>2 DEF Element
  <2>3. answer \subseteq {Element(id).label : id \in Live}
    BY Zenon
  <2>4. EnhanceResult(answer, query) \subseteq answer \cup DOMAIN label_lookup
    BY Zenon, EnhanceGains
  <2> QED BY Zenon, <2>2, <2>3, <2>4
<1> QED BY Zenon, <1>4, <1>6, <1>7 DEF LiveLabelsAgree

(* Lookup, tombstones, marks and the conjugate graph agree on which labels are live   *)
(* between any two critical sections of markDelete, recoverMarkDelete, updateLabel,    *)
(* addPoint and loadIndex, for any number of Adds, labels, vectors and elements.        *)
THEOREM LiveLabelsStayInAgreement == HNSWSpec => []LiveLabelsAgree
<1>1. HNSWInit => HNSWInv
  BY Zenon, HNSWStarts
<1>2. HNSWInv /\ [HNSWNext]_hnswVars => HNSWInv'
  BY Zenon, HNSWStays
<1>3. HNSWInv => LiveLabelsAgree
  BY Zenon, InvAgrees
<1> QED BY <1>1, <1>2, <1>3, PTL DEF HNSWSpec

-----------------------------------------------------------------------------
(* What AddStoresItsVector says of one Add and one step. *)
Stored(a) ==
  LET label == adder[a].label
  IN  \/ adder[a].pc \notin {"compare", "overwrite", "link"}
      \/ adder'[a].pc # "idle"
      \/ /\ label \in DOMAIN label_lookup'
         /\ elements'[label_lookup'[label] + 1].vec = adder[a].vec

(* A step of another Add leaves this one where it is. *)
LEMMA OthersWait ==
  ASSUME HNSWInv, NEW a \in Adder, NEW b \in Adder, a # b, NEW x, adder' = [adder EXCEPT ![b] = x]
  PROVE  Stored(a)
<1>1. adder'[a] = adder[a]
  BY Zenon DEF HNSWInv
<1>2. adder[a].pc \in {"compare", "overwrite", "link"} => adder[a].pc # "idle"
  OBVIOUS
<1> QED BY Zenon, <1>1, <1>2 DEF Stored

(* Vectors at distance nought are equal. *)
LEMMA SameVector ==
  ASSUME NEW x \in Vec, NEW y \in Vec, Distance(x, y) = 0
  PROVE  x = y
<1>1. x \in Int /\ y \in Int
  BY Zenon, HNSWAssumption
<1> QED BY <1>1 DEF Distance

(* An Add that finds its vector unchanged is done. *)
LEMMA CompareStores ==
  ASSUME HNSWInv, NEW a \in Adder, NEW neighbors, AddCompare(a, neighbors)
  PROVE  Stored(a)
<1>1. adder[a].pc = "compare" /\ UNCHANGED <<elements, label_lookup>>
  BY Zenon DEF AddCompare
<1>2. adder[a].pc # "idle"
  BY <1>1
<1>3. PICK l, id : l = adder[a].label /\ id = label_lookup[l]
  BY Zenon
<1>4. CASE l \in DOMAIN label_lookup /\ Distance(Element(id).vec, adder[a].vec) = 0
  <2>1. id \in Ids(elements)
    BY Zenon, <1>3, <1>4 DEF HNSWInv, Consistent, InRange
  <2>2. elements[id + 1].vec \in Vec
    BY Zenon, <2>1, ElementKnown DEF HNSWInv
  <2>3. adder[a].vec \in Vec
    BY Zenon, <1>2 DEF HNSWInv, Underway
  <2>4. elements[id + 1].vec = adder[a].vec
    BY Zenon, <1>4, <2>2, <2>3, SameVector DEF Element
  <2> QED BY Zenon, <1>1, <1>3, <1>4, <2>4 DEF Stored
<1>5. CASE ~(l \in DOMAIN label_lookup /\ Distance(Element(id).vec, adder[a].vec) = 0)
  <2>1. Goto(a, "refuse") \/ Goto(a, "overwrite")
    BY Zenon, <1>3, <1>5 DEF AddCompare
  <2>2. adder'[a].pc = "refuse" \/ adder'[a].pc = "overwrite"
    BY Zenon, <1>2, <2>1, GotoStep
  <2>3. adder'[a].pc # "idle"
    BY <2>2
  <2> QED BY Zenon, <2>3 DEF Stored
<1> QED BY Zenon, <1>4, <1>5

(* An Add that overwrites the vector has stored it. *)
LEMMA OverwriteStores ==
  ASSUME HNSWInv, NEW a \in Adder, AddOverwrite(a)
  PROVE  Stored(a)
<1>1. adder[a].pc = "overwrite" /\ UNCHANGED label_lookup
  BY Zenon DEF AddOverwrite
<1>2. adder[a].pc # "idle"
  BY <1>1
<1>3. CASE adder[a].label \in DOMAIN label_lookup
  <2>1. elements'[label_lookup[adder[a].label] + 1].vec = adder[a].vec
    BY Zenon, <1>3, OverwriteWrites
  <2> QED BY Zenon, <1>1, <1>3, <2>1 DEF Stored
<1>4. CASE adder[a].label \notin DOMAIN label_lookup
  <2>1. Goto(a, "refuse")
    BY Zenon, <1>4 DEF AddOverwrite
  <2>2. adder'[a].pc = "refuse"
    BY Zenon, <1>2, <2>1, GotoStep
  <2>3. adder'[a].pc # "idle"
    BY <2>2
  <2> QED BY Zenon, <2>3 DEF Stored
<1> QED BY Zenon, <1>3, <1>4

(* An Add that is linked still has the element it made under its label. *)
LEMMA LinkStores ==
  ASSUME HNSWInv, NEW a \in Adder, AddLink(a)
  PROVE  Stored(a)
<1>1. adder[a].pc = "link" /\ UNCHANGED <<elements, label_lookup>>
  BY Zenon DEF AddLink
<1>2. /\ adder[a].label \in DOMAIN label_lookup /\ label_lookup[adder[a].label] = adder[a].id
      /\ elements[adder[a].id + 1].vec = adder[a].vec
  BY Zenon, <1>1 DEF HNSWInv, Linked
<1> QED BY Zenon, <1>1, <1>2 DEF Stored

(* Beside a removal, renaming, feedback or reload, and in a step that changes nothing, no Add returns. *)
LEMMA NobodyReturns ==
  ASSUME NEW a \in Adder, UNCHANGED adder
  PROVE  Stored(a)
<1>1. adder[a].pc \in {"compare", "overwrite", "link"} => adder[a].pc # "idle"
  OBVIOUS
<1> QED BY Zenon, <1>1 DEF Stored

(* From the pc's that are not the last of a success. *)
LEMMA NotYet ==
  ASSUME NEW a \in Adder, adder[a].pc \in {"idle", "recover", "refuse", "insert"}
  PROVE  Stored(a)
<1>1. adder[a].pc \notin {"compare", "overwrite", "link"}
  OBVIOUS
<1> QED BY Zenon, <1>1 DEF Stored

(* Every step leaves the vector of an Add that succeeds. *)
LEMMA AddStores ==
  ASSUME HNSWInv, [HNSWNext]_hnswVars, NEW a \in Adder
  PROVE  Stored(a)
<1>1. ASSUME NEW b \in Adder, NEW l \in HNSWLabel, NEW v \in Vec, AddStart(b, l, v) PROVE Stored(a)
  BY Zenon, <1>1, NotYet, OthersWait DEF AddStart
<1>2. ASSUME NEW b \in Adder, AddRecover(b) PROVE Stored(a)
  BY Zenon, <1>2, NotYet, OthersWait DEF AddRecover, Goto, Return
<1>3. ASSUME NEW b \in Adder, NEW neighbors, AddCompare(b, neighbors) PROVE Stored(a)
  <2>1. CASE b = a
    BY Zenon, <1>3, <2>1, CompareStores
  <2>2. CASE b # a
    <3>1. Goto(b, "refuse") \/ Return(b) \/ Goto(b, "overwrite")
      BY Zenon, <1>3 DEF AddCompare
    <3> QED BY Zenon, <2>2, <3>1, OthersWait DEF Goto, Return
  <2> QED BY Zenon, <2>1, <2>2
<1>4. ASSUME NEW b \in Adder, AddOverwrite(b) PROVE Stored(a)
  <2>1. CASE b = a
    BY Zenon, <1>4, <2>1, OverwriteStores
  <2>2. CASE b # a
    <3>1. Return(b) \/ Goto(b, "refuse")
      BY Zenon, <1>4 DEF AddOverwrite
    <3> QED BY Zenon, <2>2, <3>1, OthersWait DEF Goto, Return
  <2> QED BY Zenon, <2>1, <2>2
<1>5. ASSUME NEW b \in Adder, AddRefuse(b) PROVE Stored(a)
  BY Zenon, <1>5, NotYet, OthersWait DEF AddRefuse, Goto, Return
<1>6. ASSUME NEW b \in Adder, AddInsert(b) PROVE Stored(a)
  BY Zenon, <1>6, NotYet, OthersWait DEF AddInsert, Return
<1>7. ASSUME NEW b \in Adder, AddLink(b) PROVE Stored(a)
  BY Zenon, <1>7, LinkStores, OthersWait DEF AddLink, Return
<1>8. ASSUME NEW l \in HNSWLabel, HNSWRemove(l) PROVE Stored(a)
  BY Zenon, <1>8, NobodyReturns DEF HNSWRemove
<1>9. ASSUME NEW l \in HNSWLabel, NEW m \in HNSWLabel, HNSWUpdateId(l, m) \/ Feedback(l, m) PROVE Stored(a)
  BY Zenon, <1>9, NobodyReturns DEF HNSWUpdateId, Feedback
<1>10. ASSUME HNSWSaveAndLoad PROVE Stored(a)
  BY Zenon, <1>10, NobodyReturns DEF HNSWSaveAndLoad
<1>11. ASSUME UNCHANGED hnswVars PROVE Stored(a)
  BY Zenon, <1>11, NobodyReturns DEF hnswVars
<1> QED BY Zenon, <1>1, <1>2, <1>3, <1>4, <1>5, <1>6, <1>7, <1>8, <1>9, <1>10, <1>11 DEF HNSWNext

(* When HNSW::add returns a success its label resolves to the vector it was given, also  *)
(* when it recovered a tombstone and whatever other Adds did between its steps.          *)
THEOREM AddsStoreTheirVectors == HNSWSpec => AddStoresItsVector
<1>1. HNSWInit => HNSWInv
  BY Zenon, HNSWStarts
<1>2. HNSWInv /\ [HNSWNext]_hnswVars => HNSWInv'
  BY Zenon, HNSWStays
<1>3. HNSWInv /\ [HNSWNext]_hnswVars =>
        [\A a \in Adder :
           LET label == adder[a].label
           IN  \/ adder[a].pc \notin {"compare", "overwrite", "link"}
               \/ adder'[a].pc # "idle"
               \/ /\ label \in DOMAIN label_lookup'
                  /\ elements'[label_lookup'[label] + 1].vec = adder[a].vec]_hnswVars
  BY Zenon, AddStores DEF Stored
<1> QED BY <1>1, <1>2, <1>3, PTL DEF HNSWSpec, AddStoresItsVector

-----------------------------------------------------------------------------
(* DiskANN *)

Statuses == {"BEGIN", "GRAPH", "EDGE_PRUNE", "PQ", "DISK_LAYOUT", "FINISH"}
CheckpointFields == {"status", "round", "nodes", "graph", "tags", "compressed"}
ObjectFields == {"status", "graph", "tags", "compressed", "layout", "open"}

(* A checkpoint after the last round holds the whole graph, and later the codes of all rows. *)
CheckpointOK(c) ==
  /\ DOMAIN c = CheckpointFields /\ c.round \in Nat /\ c.status \in Statuses
  /\ c.status = "EDGE_PRUNE" => c.round >= build_batch_num
  /\ c.status \in {"EDGE_PRUNE", "PQ", "DISK_LAYOUT"} => c.graph = Locations /\ c.tags = Tags
  /\ c.status = "DISK_LAYOUT" => c.compressed = Compress({})

(* What is opened was made in one piece, leaving out the same rows everywhere. *)
ObjectOK(o) ==
  /\ DOMAIN o = ObjectFields
  /\ o.open => /\ o.status # "BUILDING" /\ o.tags = Tags
               /\ \E skip \in {{}, failed_locs} :
                    o.compressed = Compress(skip) /\ o.layout = create_disk_layout(skip)

DiskANNInv == rows \in Seq(Int) /\ CheckpointOK(checkpoint) /\ ObjectOK(disk)

(* The locations are numbered from 1. *)
LEMMA LocationsFinite ==
  ASSUME rows \in Seq(Int)
  PROVE  nd \in Nat /\ IsFiniteSet(Locations) /\ Cardinality(Locations) = nd
<1>1. Len(rows) \in Nat
  OBVIOUS
<1>2. IsFiniteSet(1 .. Len(rows))
  BY <1>1, FS_Interval
<1>3. IsFiniteSet((1 .. Len(rows)) \ failed_locs)
  BY Zenon, <1>2, FS_Difference
<1>4. PlaceOf(Len(rows), failed_locs) \in Nat
  BY <1>3, FS_CardinalityType DEF PlaceOf
<1>5. nd = PlaceOf(Len(rows), failed_locs)
  BY <1>4 DEF nd, UniqueRows, RowsWithout
<1>6. nd \in Nat
  BY <1>4, <1>5
<1> QED BY <1>6, FS_Interval DEF Locations

(* The share of the last round is the whole graph. *)
LEMMA LastRoundLinksAll ==
  ASSUME rows \in Seq(Int), NEW nodes, NEW round \in Nat, round >= build_batch_num,
         NEW more \in link(nodes, round)
  PROVE  more = Locations
<1>1. more \subseteq Locations /\ Cardinality(more) * build_batch_num >= round * nd
  BY Zenon DEF link
<1>2. nd \in Nat /\ IsFiniteSet(Locations) /\ Cardinality(Locations) = nd
  BY LocationsFinite
<1>3. Cardinality(more) \in Nat
  BY Zenon, <1>1, <1>2, FS_Subset, FS_CardinalityType
<1>4. PICK c \in Nat : c = Cardinality(more)
  BY Zenon, <1>3
<1>5. PICK n \in Nat : n = nd
  BY Zenon, <1>2
<1>6. c >= n
  <2>1. PICK b \in Nat \ {0} : b = build_batch_num
    BY Zenon, DiskANNAssumption
  <2>2. c * b >= round * n /\ round >= b
    BY Zenon, <1>1, <1>4, <1>5, <2>1
  <2>3. round * n >= b * n
    BY <2>2
  <2>4. c * b >= n * b
    BY <2>2, <2>3
  <2> QED BY <2>4
<1>7. Cardinality(more) = Cardinality(Locations)
  <2>1. Cardinality(more) <= Cardinality(Locations)
    BY Zenon, <1>1, <1>2, FS_Subset
  <2> QED BY <1>2, <1>4, <1>5, <1>6, <2>1
<1> QED BY Zenon, <1>1, <1>2, <1>7, FS_Subset

(* When no label is repeated, every row has its own number as its place. *)
LEMMA RowsInPlace ==
  ASSUME rows \in Seq(Int), failed_locs = {}
  PROVE  /\ nd = Len(rows) /\ nd \in Nat
         /\ \A i \in 1 .. nd : UniqueRows[i] = i /\ Compress({})[i] = i /\ PlaceOf(i, {}) = i
         /\ Len(Compress({})) = nd
<1>1. Len(rows) \in Nat
  OBVIOUS
<1>2. ASSUME NEW r \in Nat PROVE PlaceOf(r, {}) = r
  <2>1. (1 .. r) \ {} = 1 .. r
    OBVIOUS
  <2>2. Cardinality(1 .. r) = r
    BY FS_Interval
  <2> QED BY <2>1, <2>2 DEF PlaceOf
<1>3. RowsWithout({}) = [i \in 1 .. Len(rows) |-> i]
  <2>1. ASSUME NEW i \in 1 .. Len(rows)
        PROVE  (CHOOSE r \in (1 .. Len(rows)) \ {} : PlaceOf(r, {}) = i) = i
    <3>1. \A r \in (1 .. Len(rows)) \ {} : PlaceOf(r, {}) = r
      BY <1>1, <1>2
    <3>2. i \in (1 .. Len(rows)) \ {}
      OBVIOUS
    <3> QED BY Zenon, <3>1, <3>2
  <2>2. PlaceOf(Len(rows), {}) = Len(rows)
    BY Zenon, <1>1, <1>2
  <2> QED BY Zenon, <2>1, <2>2 DEF RowsWithout
<1>4. Len(RowsWithout({})) = Len(rows)
  BY <1>1, <1>3
<1>5. UniqueRows = RowsWithout({}) /\ Compress({}) = RowsWithout({}) /\ nd = Len(UniqueRows)
  BY Zenon DEF UniqueRows, Compress, nd
<1>6. nd = Len(rows)
  BY Zenon, <1>4, <1>5
<1>7. ASSUME NEW i \in 1 .. nd PROVE UniqueRows[i] = i /\ Compress({})[i] = i /\ PlaceOf(i, {}) = i
  <2>1. i \in 1 .. Len(rows) /\ i \in Nat
    BY <1>1, <1>6
  <2>2. RowsWithout({})[i] = i
    BY Zenon, <1>3, <2>1
  <2> QED BY Zenon, <1>2, <1>5, <2>1, <2>2
<1> QED BY Zenon, <1>1, <1>4, <1>5, <1>6, <1>7

(* The invariant gives the property. *)
LEMMA InvIsAligned ==
  ASSUME DiskANNInv
  PROVE  ResumedBuildIsAligned
<1>1. GraphIsCompleteBeforePQ
  BY Zenon DEF DiskANNInv, CheckpointOK, GraphIsCompleteBeforePQ
<1>2. ASSUME disk.open, failed_locs = {} PROVE Aligned /\ Len(disk.layout) = nd
  <2>1. disk.tags = Tags /\ disk.compressed = Compress({}) /\ disk.layout = create_disk_layout({})
    BY Zenon, <1>2 DEF DiskANNInv, ObjectOK
  <2>2. /\ nd = Len(rows) /\ nd \in Nat
        /\ \A i \in 1 .. nd : UniqueRows[i] = i /\ Compress({})[i] = i /\ PlaceOf(i, {}) = i
        /\ Len(Compress({})) = nd
    BY Zenon, <1>2, RowsInPlace DEF DiskANNInv
  <2>3. Len(create_disk_layout({})) = nd
    BY <2>2 DEF create_disk_layout
  <2>4. ASSUME NEW i \in Locations
        PROVE  create_disk_layout({})[i] = [row |-> i, list |-> i]
    <3>1. i \in 1 .. Len(rows) /\ i <= nd /\ PlaceOf(i, {}) = i
      BY <2>2 DEF Locations
    <3> QED BY Zenon, <3>1 DEF create_disk_layout
  <2>5. ASSUME NEW i \in Locations PROVE Tags[i] = rows[UniqueRows[i]]
    BY Zenon DEF Tags
  <2>6. ASSUME NEW i \in Locations
        PROVE  /\ i <= Len(disk.layout) /\ i <= Len(disk.compressed)
               /\ disk.layout[i] = [row |-> UniqueRows[i], list |-> i]
               /\ disk.compressed[i] = UniqueRows[i]
               /\ disk.tags[i] = rows[UniqueRows[i]]
    <3>1. i \in 1 .. nd /\ i <= nd
      BY <2>2 DEF Locations
    <3>2. UniqueRows[i] = i /\ Compress({})[i] = i
      BY Zenon, <2>2, <3>1
    <3>3. disk.layout[i] = [row |-> UniqueRows[i], list |-> i]
      BY Zenon, <2>1, <2>4, <3>2
    <3>4. disk.tags[i] = rows[UniqueRows[i]]
      BY Zenon, <2>1, <2>5
    <3>5. disk.compressed[i] = UniqueRows[i]
      BY Zenon, <2>1, <3>2
    <3>6. Len(disk.layout) = nd /\ Len(disk.compressed) = nd
      BY Zenon, <2>1, <2>2, <2>3
    <3> QED BY Zenon, <3>1, <3>3, <3>4, <3>5, <3>6
  <2> QED BY Zenon, <2>1, <2>3, <2>6 DEF Aligned
<1> QED BY Zenon, <1>1, <1>2 DEF ResumedBuildIsAligned, OpenedIndexIsAligned

(* What depends on the data set only stays with it. *)
LEMMA DataSetKept ==
  ASSUME rows' = rows
  PROVE  /\ Locations' = Locations /\ Tags' = Tags /\ failed_locs' = failed_locs
         /\ \A skip : Compress(skip)' = Compress(skip) /\ create_disk_layout(skip)' = create_disk_layout(skip)
<1>1. failed_locs' = failed_locs
  BY DEF failed_locs
<1>2. ASSUME NEW skip PROVE RowsWithout(skip)' = RowsWithout(skip)
  BY DEF RowsWithout, PlaceOf
<1>3. UniqueRows' = UniqueRows /\ nd' = nd
  BY Zenon, <1>1, <1>2 DEF UniqueRows, nd
<1>4. Locations' = Locations /\ Tags' = Tags
  BY <1>3 DEF Locations, Tags
<1>5. ASSUME NEW skip PROVE Compress(skip)' = Compress(skip)
  BY Zenon, <1>2 DEF Compress
<1>6. ASSUME NEW skip PROVE create_disk_layout(skip)' = create_disk_layout(skip)
  BY <1>3 DEF create_disk_layout, PlaceOf
<1> QED BY Zenon, <1>1, <1>4, <1>5, <1>6

(* A step that keeps the data set, with a good checkpoint and a good object. *)
LEMMA KeptInv ==
  ASSUME DiskANNInv, rows' = rows, NEW c, c = checkpoint', CheckpointOK(c), NEW o, o = disk', ObjectOK(o)
  PROVE  DiskANNInv'
<1>1. /\ Locations' = Locations /\ Tags' = Tags /\ failed_locs' = failed_locs
      /\ \A skip : Compress(skip)' = Compress(skip) /\ create_disk_layout(skip)' = create_disk_layout(skip)
  BY Zenon, DataSetKept
<1>2. CheckpointOK(checkpoint)'
  BY Zenon, <1>1 DEF CheckpointOK
<1>3. ObjectOK(disk)'
  BY Zenon, <1>1 DEF ObjectOK
<1> QED BY Zenon, <1>2, <1>3 DEF DiskANNInv


(* An unopened object whose streams a step of the build sets. *)
LEMMA BuildingObject ==
  ASSUME DiskANNInv, ~disk.open, NEW o, DOMAIN o = ObjectFields, o.open = disk.open
  PROVE  ObjectOK(o)
  BY Zenon DEF ObjectOK

(* A round of the graph: the last one links every location. *)
LEMMA RoundStep ==
  ASSUME DiskANNInv, ~disk.open, rows' = rows,
         GraphStep(disk, checkpoint)
  PROVE  DiskANNInv'
<1>0. /\ DOMAIN checkpoint = CheckpointFields /\ checkpoint.round \in Nat
      /\ DOMAIN disk = ObjectFields /\ rows \in Seq(Int) /\ build_batch_num \in Nat
  BY ZenonT(40), DiskANNAssumption DEF DiskANNInv, CheckpointOK, ObjectOK
<1> DEFINE last == checkpoint.status = "GRAPH" /\ checkpoint.round >= build_batch_num
<1>1. PICK nodes \in link(TakenUp(checkpoint, checkpoint.round), checkpoint.round) :
        /\ disk' = [disk EXCEPT !.graph = nodes, !.tags = Tags, !.status = "BUILDING"]
        /\ checkpoint' = [[checkpoint EXCEPT !.nodes = nodes, !.graph = nodes, !.tags = Tags] EXCEPT
                            !.status = IF last THEN "EDGE_PRUNE" ELSE "GRAPH",
                            !.round  = IF last THEN @ ELSE @ + 1]
  BY DEF GraphStep, build_partial_graph
<1> HIDE DEF last
<1>2. PICK o : o = disk'
  BY Zenon
<1>3. DOMAIN o = ObjectFields /\ o.open = disk.open
  BY <1>0, <1>1, <1>2 DEF ObjectFields
<1>4. ObjectOK(o)
  BY Zenon, <1>3, BuildingObject
<1>5. PICK c : c = checkpoint'
  BY Zenon
<1>6. /\ DOMAIN c = CheckpointFields /\ c.round \in Nat /\ c.graph = nodes /\ c.tags = Tags
      /\ last => c.status = "EDGE_PRUNE" /\ c.round = checkpoint.round
      /\ ~last => c.status = "GRAPH"
  BY <1>0, <1>1, <1>5 DEF CheckpointFields
<1>7. ASSUME last PROVE c.graph = Locations /\ c.round >= build_batch_num
  <2>1. checkpoint.round >= build_batch_num
    BY Zenon, <1>7 DEF last
  <2>2. nodes = Locations
    BY Zenon, <1>0, <1>1, <2>1, LastRoundLinksAll
  <2> QED BY Zenon, <1>6, <1>7, <2>1, <2>2
<1>8. CheckpointOK(c)
  BY <1>6, <1>7 DEF CheckpointOK, Statuses
<1> QED BY Zenon, <1>2, <1>4, <1>5, <1>8, KeptInv

(* EDGE_PRUNE links once more, from a complete graph. *)
LEMMA PruneStep ==
  ASSUME DiskANNInv, ~disk.open, rows' = rows, checkpoint.status = "EDGE_PRUNE",
         EdgePruneStep(disk, checkpoint)
  PROVE  DiskANNInv'
<1>0. /\ DOMAIN checkpoint = CheckpointFields /\ checkpoint.round \in Nat
      /\ checkpoint.round >= build_batch_num
      /\ DOMAIN disk = ObjectFields /\ rows \in Seq(Int)
  BY ZenonT(40) DEF DiskANNInv, CheckpointOK, ObjectOK
<1>1. PICK nodes \in link(TakenUp(checkpoint, checkpoint.round), checkpoint.round) :
        /\ disk' = [disk EXCEPT !.graph = nodes, !.tags = Tags, !.status = "BUILDING"]
        /\ checkpoint' = [[checkpoint EXCEPT !.nodes = nodes, !.graph = nodes, !.tags = Tags] EXCEPT
                            !.status = "PQ"]
  BY DEF EdgePruneStep, build_partial_graph
<1>2. PICK o : o = disk'
  BY Zenon
<1>3. DOMAIN o = ObjectFields /\ o.open = disk.open
  BY <1>0, <1>1, <1>2 DEF ObjectFields
<1>4. ObjectOK(o)
  BY Zenon, <1>3, BuildingObject
<1>5. PICK c : c = checkpoint'
  BY Zenon
<1>6. /\ DOMAIN c = CheckpointFields /\ c.round \in Nat /\ c.graph = nodes /\ c.tags = Tags
      /\ c.status = "PQ"
  BY <1>0, <1>1, <1>5 DEF CheckpointFields
<1>7. nodes = Locations
  BY Zenon, <1>0, <1>1, LastRoundLinksAll
<1>8. CheckpointOK(c)
  BY <1>6, <1>7 DEF CheckpointOK, Statuses
<1> QED BY Zenon, <1>2, <1>4, <1>5, <1>8, KeptInv

(* PQ compresses every row. *)
LEMMA CodesStep ==
  ASSUME DiskANNInv, ~disk.open, rows' = rows, checkpoint.status = "PQ", PQStep(disk, checkpoint)
  PROVE  DiskANNInv'
<1>0. /\ DOMAIN checkpoint = CheckpointFields /\ checkpoint.round \in Nat
      /\ checkpoint.graph = Locations /\ checkpoint.tags = Tags /\ DOMAIN disk = ObjectFields
  BY Zenon DEF DiskANNInv, CheckpointOK, ObjectOK
<1>1. PICK o : o = disk'
  BY Zenon
<1>2. DOMAIN o = ObjectFields /\ o.open = disk.open
  BY <1>0, <1>1 DEF PQStep, ObjectFields
<1>3. ObjectOK(o)
  BY Zenon, <1>2, BuildingObject
<1>4. PICK c : c = checkpoint'
  BY Zenon
<1>5. /\ DOMAIN c = CheckpointFields /\ c.round = checkpoint.round /\ c.graph = checkpoint.graph
      /\ c.tags = checkpoint.tags /\ c.status = "DISK_LAYOUT" /\ c.compressed = Compress({})
  BY <1>0, <1>4 DEF PQStep, CheckpointFields
<1>6. CheckpointOK(c)
  BY <1>0, <1>5 DEF CheckpointOK, Statuses
<1> QED BY Zenon, <1>1, <1>3, <1>4, <1>6, KeptInv

(* A new checkpoint with another status. *)
LEMMA NewCheckpoint ==
  ASSUME NEW c, DOMAIN c = CheckpointFields, c.round \in Nat, c.status \in {"BEGIN", "FINISH"}
  PROVE  CheckpointOK(c)
<1>1. c.status \notin {"EDGE_PRUNE", "PQ", "DISK_LAYOUT"} /\ c.status \in Statuses
  BY DEF Statuses
<1> QED BY Zenon, <1>1 DEF CheckpointOK

(* DISK_LAYOUT opens what the checkpoint holds. *)
LEMMA LayoutStep ==
  ASSUME DiskANNInv, rows' = rows, checkpoint.status = "DISK_LAYOUT", DiskLayoutStep(disk, checkpoint)
  PROVE  DiskANNInv'
<1>0. /\ checkpoint.tags = Tags /\ checkpoint.compressed = Compress({}) /\ DOMAIN disk = ObjectFields
  BY Zenon DEF DiskANNInv, CheckpointOK, ObjectOK
<1>1. PICK o : o = disk'
  BY Zenon
<1>2. /\ DOMAIN o = ObjectFields /\ o.status = "MEMORY" /\ o.tags = checkpoint.tags
      /\ o.compressed = checkpoint.compressed /\ o.layout = create_disk_layout({})
  BY <1>0, <1>1 DEF DiskLayoutStep, ObjectFields
<1>3. o.status # "BUILDING"
  BY <1>2
<1>4. ObjectOK(o)
  BY Zenon, <1>0, <1>2, <1>3 DEF ObjectOK
<1>5. PICK c : c = checkpoint'
  BY Zenon
<1>6. DOMAIN c = CheckpointFields /\ c.round \in Nat /\ c.status = "FINISH"
  BY <1>5 DEF DiskLayoutStep, NoCheckpoint, CheckpointFields
<1>7. CheckpointOK(c)
  BY Zenon, <1>6, NewCheckpoint
<1> QED BY Zenon, <1>1, <1>4, <1>5, <1>7, KeptInv

(* ContinueBuild on the object there is. *)
LEMMA ContinueStep ==
  ASSUME DiskANNInv, ContinueBuild(disk)
  PROVE  DiskANNInv'
<1>1. ~disk.open /\ rows' = rows
  BY Zenon DEF ContinueBuild, DiskANNInv, ObjectOK
<1>2. CASE checkpoint.status \in {"BEGIN", "GRAPH"}
  <2>1. GraphStep(disk, checkpoint)
    BY <1>2 DEF ContinueBuild
  <2> QED BY Zenon, <1>1, <2>1, RoundStep
<1>3. CASE checkpoint.status = "EDGE_PRUNE"
  <2>1. EdgePruneStep(disk, checkpoint)
    BY <1>3 DEF ContinueBuild
  <2> QED BY Zenon, <1>1, <1>3, <2>1, PruneStep
<1>4. CASE checkpoint.status = "PQ"
  <2>1. PQStep(disk, checkpoint)
    BY <1>4 DEF ContinueBuild
  <2> QED BY Zenon, <1>1, <1>4, <2>1, CodesStep
<1>5. CASE checkpoint.status = "DISK_LAYOUT"
  <2>1. DiskLayoutStep(disk, checkpoint)
    BY <1>5 DEF ContinueBuild
  <2> QED BY Zenon, <1>1, <1>5, <2>1, LayoutStep
<1>6. CASE checkpoint.status = "FINISH"
  <2>1. disk' = [disk EXCEPT !.status = "BUILDING"] /\ checkpoint' = checkpoint
    BY <1>6 DEF ContinueBuild
  <2>2. PICK o : o = disk'
    BY Zenon
  <2>3. DOMAIN disk = ObjectFields /\ CheckpointOK(checkpoint)
    BY Zenon DEF DiskANNInv, ObjectOK
  <2>4. DOMAIN o = ObjectFields /\ o.open = disk.open
    BY <2>1, <2>2, <2>3 DEF ObjectFields
  <2>5. ObjectOK(o)
    BY Zenon, <1>1, <2>4, BuildingObject
  <2>6. PICK c : c = checkpoint'
    BY Zenon
  <2>7. CheckpointOK(c)
    BY Zenon, <2>1, <2>3, <2>6
  <2> QED BY Zenon, <1>1, <2>2, <2>5, <2>6, <2>7, KeptInv
<1>7. checkpoint.status \in Statuses
  BY Zenon DEF DiskANNInv, CheckpointOK
<1> QED BY Zenon, <1>2, <1>3, <1>4, <1>5, <1>6, <1>7 DEF Statuses


(* A build in one call, from nothing. *)
LEMMA BuildStep ==
  ASSUME DiskANNInv, Build
  PROVE  DiskANNInv'
<1>1. PICK o : o = disk'
  BY Zenon
<1>2. /\ DOMAIN o = ObjectFields /\ o.status = "MEMORY" /\ o.tags = Tags
      /\ o.compressed = Compress(failed_locs) /\ o.layout = create_disk_layout(failed_locs)
  BY <1>1 DEF Build, ObjectFields
<1>3. o.status # "BUILDING"
  BY <1>2
<1>4. ObjectOK(o)
  BY Zenon, <1>2, <1>3 DEF ObjectOK
<1>5. PICK c : c = checkpoint'
  BY Zenon
<1>6. CheckpointOK(c) /\ rows' = rows
  BY Zenon, <1>5 DEF Build, DiskANNInv
<1> QED BY Zenon, <1>1, <1>4, <1>5, <1>6, KeptInv

(* A new object holds nothing. *)
LEMMA NewObjectOK == ObjectOK(NewObject)
<1>1. DOMAIN NewObject = ObjectFields /\ ~NewObject.open
  BY DEF NewObject, ObjectFields
<1> QED BY Zenon, <1>1 DEF ObjectOK

(* A crash leaves the checkpoint and a new object. *)
LEMMA CrashStep ==
  ASSUME DiskANNInv, Crash
  PROVE  DiskANNInv'
<1>1. PICK o : o = disk'
  BY Zenon
<1>2. ObjectOK(o)
  BY Zenon, <1>1, NewObjectOK DEF Crash
<1>3. PICK c : c = checkpoint'
  BY Zenon
<1>4. CheckpointOK(c) /\ rows' = rows
  BY Zenon, <1>3 DEF Crash, DiskANNInv
<1> QED BY Zenon, <1>1, <1>2, <1>3, <1>4, KeptInv

(* Storing and loading keeps all but the graph. *)
LEMMA ReloadStep ==
  ASSUME DiskANNInv, DiskANNSaveAndLoad
  PROVE  DiskANNInv'
<1>1. PICK o : o = disk'
  BY Zenon
<1>2. PICK g : disk' = [disk EXCEPT !.graph = g]
  BY DEF DiskANNSaveAndLoad
<1>3. DOMAIN disk = ObjectFields /\ ObjectOK(disk)
  BY Zenon DEF DiskANNInv, ObjectOK
<1>4. /\ DOMAIN o = ObjectFields /\ o.open = disk.open /\ o.status = disk.status /\ o.tags = disk.tags
      /\ o.compressed = disk.compressed /\ o.layout = disk.layout
  BY <1>1, <1>2, <1>3 DEF ObjectFields
<1>5. ObjectOK(o)
  BY Zenon, <1>3, <1>4 DEF ObjectOK
<1>6. PICK c : c = checkpoint'
  BY Zenon
<1>7. CheckpointOK(c) /\ rows' = rows
  BY Zenon, <1>6 DEF DiskANNSaveAndLoad, DiskANNInv
<1> QED BY Zenon, <1>1, <1>5, <1>6, <1>7, KeptInv

(* The index starts without a checkpoint. *)
LEMMA DiskANNStarts ==
  ASSUME DiskANNInit
  PROVE  DiskANNInv
<1>1. DOMAIN NoCheckpoint = CheckpointFields /\ NoCheckpoint.round \in Nat /\ NoCheckpoint.status = "BEGIN"
  BY DEF NoCheckpoint, CheckpointFields
<1>2. CheckpointOK(NoCheckpoint)
  BY Zenon, <1>1, NewCheckpoint
<1>3. rows \in Seq(Int)
  BY Zenon, DiskANNAssumption DEF DiskANNInit
<1> QED BY Zenon, <1>2, <1>3, NewObjectOK DEF DiskANNInit, DiskANNInv

(* ResumedBuildIsAligned for any data set and number of rounds, crashes and reloads: nothing is     *)
(* compressed or laid out before every location has its links, and what is opened has at every      *)
(* location the list, the vector, the code and the label of one row, wherever the build was cut,     *)
(* crashed and resumed (continue_build), when no label is repeated.                              *)
THEOREM ResumedBuildsStayAligned == DiskANNSpec => []ResumedBuildIsAligned
<1>1. DiskANNInit => DiskANNInv
  BY Zenon, DiskANNStarts
<1>2. DiskANNInv /\ [DiskANNNext]_diskannVars => DiskANNInv'
  <2>1. ASSUME DiskANNInv, UNCHANGED diskannVars PROVE DiskANNInv'
    <3>1. PICK o : o = disk'
      BY Zenon
    <3>2. PICK c : c = checkpoint'
      BY Zenon
    <3>3. o = disk /\ c = checkpoint /\ rows' = rows
      BY <2>1, <3>1, <3>2 DEF diskannVars
    <3>4. CheckpointOK(c) /\ ObjectOK(o)
      BY Zenon, <2>1, <3>3 DEF DiskANNInv
    <3> QED BY Zenon, <2>1, <3>1, <3>2, <3>3, <3>4, KeptInv
  <2> QED BY Zenon, <2>1, BuildStep, ContinueStep, CrashStep, ReloadStep DEF DiskANNNext
<1>3. DiskANNInv => ResumedBuildIsAligned
  BY Zenon, InvIsAligned
<1> QED BY <1>1, <1>2, <1>3, PTL DEF DiskANNSpec

=============================================================================
