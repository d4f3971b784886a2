-------------------------- MODULE ScheduledProofs --------------------------
(***************************************************************************)
(* Proofs about two components whose threads are scheduled by others.          *)
(*                                                                         *)
(* LazyHGraph, for any threads, labels, vectors and threshold: the phase is      *)
(* sound, and callers see one map from labels to vectors, where an emptied       *)
(* graph is not built anew from few vectors (SmallRebuild).                     *)
(*                                                                         *)
(* BatchRead, for any threads, contexts, ranges and batch size: contexts in the   *)
(* pool are clean, no read outlives its call and true means that every range was  *)
(* read, where no call is left by an exception with reads under way that use      *)
(* what it leaves behind (LateThrows).                                        *)
(***************************************************************************)
EXTENDS LazyHGraph, BatchRead, FiniteSetTheorems, TLAPS

-----------------------------------------------------------------------------
(* The lazy index. *)

(* Membership in Index, without its UNION. *)
LEMMA IndexMember ==
  ASSUME NEW f
  PROVE  f \in Index <=> /\ f = [l \in DOMAIN f |-> f[l]] /\ DOMAIN f \subseteq Label
                         /\ \A l \in DOMAIN f : f[l] \in Vec
<1>1. f \in Index <=> \E S \in SUBSET Label : f \in [S -> Vec]
  BY DEF Index
<1>2. ASSUME NEW S \in SUBSET Label, f \in [S -> Vec]
      PROVE  /\ f = [l \in DOMAIN f |-> f[l]] /\ DOMAIN f \subseteq Label
             /\ \A l \in DOMAIN f : f[l] \in Vec
  BY <1>2
<1>3. ASSUME f = [l \in DOMAIN f |-> f[l]], DOMAIN f \subseteq Label, \A l \in DOMAIN f : f[l] \in Vec
      PROVE  f \in [DOMAIN f -> Vec] /\ DOMAIN f \in SUBSET Label
  BY <1>3
<1> QED BY <1>1, <1>2, <1>3

(* Taking a row, replacing a vector and removing a label leave an index. *)
LEMMA IndexUpdates ==
  ASSUME NEW f \in Index, NEW l \in Label, NEW v \in Vec
  PROVE  With(f, l, v) \in Index /\ Without(f, {l}) \in Index
<1>1. f = [k \in DOMAIN f |-> f[k]] /\ DOMAIN f \subseteq Label /\ \A k \in DOMAIN f : f[k] \in Vec
  BY IndexMember
<1>2. With(f, l, v) \in [DOMAIN f \cup {l} -> Vec] /\ DOMAIN f \cup {l} \in SUBSET Label
  BY <1>1 DEF With
<1>3. Without(f, {l}) \in [DOMAIN f \ {l} -> Vec] /\ DOMAIN f \ {l} \in SUBSET Label
  BY <1>1 DEF Without
<1> QED BY <1>2, <1>3 DEF Index

(* The elements of an index can be counted. *)
LEMMA IndexCount ==
  ASSUME NEW f \in Index
  PROVE  /\ IsFiniteSet(DOMAIN f) /\ GetNumElements(f) \in Nat
         /\ GetNumElements(f) = 0 <=> DOMAIN f = {}
         /\ \A S : GetNumElements(Without(f, S)) <= GetNumElements(f)
<1>1. DOMAIN f \subseteq Label
  BY IndexMember
<1>2. IsFiniteSet(DOMAIN f)
  BY <1>1, LabelsAreFinite, FS_Subset
<1>3. ASSUME NEW S PROVE GetNumElements(Without(f, S)) <= GetNumElements(f)
  <2>1. DOMAIN Without(f, S) = DOMAIN f \ S
    BY DEF Without
  <2>2. Cardinality(DOMAIN f \ S) <= Cardinality(DOMAIN f)
    BY <1>2, FS_Subset
  <2> QED BY <2>1, <2>2 DEF GetNumElements
<1>4. Cardinality(DOMAIN f) \in Nat /\ (Cardinality(DOMAIN f) = 0 <=> DOMAIN f = {})
  <2>1. Cardinality(DOMAIN f) \in Nat
    BY Zenon, <1>2, FS_CardinalityType
  <2>2. Cardinality(DOMAIN f) = 0 <=> DOMAIN f = {}
    BY Zenon, <1>2, FS_EmptySet
  <2> QED BY Zenon, <2>1, <2>2
<1> QED BY <1>2, <1>3, <1>4 DEF GetNumElements

(* The empty index, and a data set, are indexes. *)
LEMMA IndexKinds == Empty \in Index /\ Dataset \subseteq Index /\ GetNumElements(Empty) = 0
<1>1. Empty \in [{} -> Vec] /\ {} \in SUBSET Label /\ DOMAIN Empty = {}
  BY DEF Empty
<1>2. Dataset \subseteq Index
  BY DEF Dataset, Index
<1> QED BY <1>1, <1>2, FS_EmptySet DEF Index, GetNumElements

-----------------------------------------------------------------------------
(* The types, with what the pointers are: the index of the phase exists. *)
Typed == LazyTypeOK /\ ActiveIndexExists

(* So the index that calls go to is one. *)
LEMMA ActiveIsIndex == Typed => ActiveIndex \in Index /\ (phase = "FLAT" => flat \in Index)
                                /\ (phase = "GRAPH" => graph \in Index /\ flat = Null)
  BY NullIsNoIndex DEF Typed, LazyTypeOK, ActiveIndexExists, ActiveIndex

(* Every step keeps the types and the index of the phase. *)
LEMMA TypedStep ==
  ASSUME ~SmallRebuild, Typed, [LazyNext]_lazyVars
  PROVE  Typed'
<1> USE DEF Typed, LazyTypeOK, ActiveIndexExists
<1>a. /\ ActiveIndex \in Index /\ (phase = "FLAT" => flat \in Index)
      /\ (phase = "GRAPH" => graph \in Index /\ flat = Null)
  BY Zenon, ActiveIsIndex
<1>b. \A f \in Index : f # Null
  BY Zenon, NullIsNoIndex
<1>1. ASSUME NEW t \in Thread, NEW data \in Dataset, BuildFlat(t, data) PROVE Typed'
  <2>1. data \in Index
    BY IndexKinds
  <2> QED BY <1>1, <1>a, <1>b, <2>1, BoundsAreNaturals DEF BuildFlat, Calls, ActiveIndex
<1>2. ASSUME NEW t \in Thread, NEW data \in Dataset, BuildGraph(t, data) PROVE Typed'
  <2>1. data \in Index
    BY IndexKinds
  <2>2. calls' \in [Thread -> 0 .. MaxCalls]
    BY <1>2, BoundsAreNaturals DEF BuildGraph, Calls
  <2>3. phase' = "GRAPH" /\ graph' = data /\ flat' = Null /\ tombstones' = FALSE
        /\ UNCHANGED <<sharers, pc, rows, failures, stalled, snapshot>>
    BY <1>2 DEF BuildGraph
  <2> QED BY Zenon, <1>b, <2>1, <2>2, <2>3 DEF ActiveIndex
<1>3. ASSUME NEW t \in Thread, NEW data \in Dataset, Add(t, data) PROVE Typed'
  <2>1. data \in Index
    BY IndexKinds
  <2> QED BY <1>3, <1>a, <1>b, <2>1, BoundsAreNaturals DEF Add, Calls, ActiveIndex
<1>4. ASSUME NEW t \in Thread, NEW l \in Label, AddRow(t, l) PROVE Typed'
  <2>1. rows[t] \in Index /\ rows[t][l] \in Vec
    BY <1>4, IndexMember DEF AddRow
  <2>2. Without(rows[t], {l}) \in Index
    BY <2>1, IndexUpdates
  <2>3. \A f \in Index : With(f, l, rows[t][l]) \in Index
    BY Zenon, <2>1, IndexUpdates
  <2> QED BY <1>4, <1>a, <1>b, <2>1, <2>2, <2>3 DEF AddRow, ActiveIndex
<1>5. ASSUME NEW t \in Thread, AddCounts(t) PROVE Typed'
  BY <1>5, <1>a, <1>b DEF AddCounts, ActiveIndex
<1>6. ASSUME NEW t \in Thread, TransitionToGraph(t) PROVE Typed'
  BY Zenon, <1>6, <1>a, <1>b DEF TransitionToGraph, ActiveIndex
<1>7. ASSUME NEW t \in Thread, TransitionFails(t) PROVE Typed'
  BY <1>7, <1>a, <1>b, BoundsAreNaturals DEF TransitionFails, ActiveIndex
<1>8. ASSUME NEW t \in Thread, NEW l \in Label, NEW mode, Remove(t, l, mode) PROVE Typed'
  <2>1. \A f \in Index : Without(f, {l}) \in Index
    <3>1. ASSUME NEW f \in Index PROVE Without(f, {l}) \in Index
      <4>1. f = [k \in DOMAIN f |-> f[k]] /\ DOMAIN f \subseteq Label /\ \A k \in DOMAIN f : f[k] \in Vec
        BY IndexMember
      <4>2. Without(f, {l}) \in [DOMAIN f \ {l} -> Vec] /\ DOMAIN f \ {l} \in SUBSET Label
        BY <4>1 DEF Without
      <4> QED BY Zenon, <4>2 DEF Index
    <3> QED BY Zenon, <3>1
  <2> QED BY <1>8, <1>a, <1>b, <2>1, BoundsAreNaturals DEF Remove, Calls, ActiveIndex
<1>9. ASSUME NEW t \in Thread, NEW l \in Label, NEW v \in Vec, UpdateVector(t, l, v) PROVE Typed'
  <2>1. \A f \in Index : With(f, l, v) \in Index
    BY Zenon, IndexUpdates
  <2> QED BY <1>9, <1>a, <1>b, <2>1, BoundsAreNaturals DEF UpdateVector, Calls, ActiveIndex
<1>10. ASSUME NEW t \in Thread, Serialize(t) PROVE Typed'
  BY <1>10, <1>a, <1>b, BoundsAreNaturals DEF Serialize, Calls, ActiveIndex
<1>11. ASSUME NEW t \in Thread, Deserialize(t) PROVE Typed'
  <2>1. calls' \in [Thread -> 0 .. MaxCalls]
    BY <1>11, BoundsAreNaturals DEF Deserialize, Calls
  <2>2. snapshot.phase \in {"FLAT", "GRAPH"} /\ snapshot.index \in Index
    BY <1>11 DEF Deserialize
  <2>3. tombstones' \in BOOLEAN /\ stalled' \in BOOLEAN
    BY Zenon, <1>11 DEF Deserialize
  <2>4. /\ phase' = snapshot.phase
        /\ flat' = IF snapshot.phase = "FLAT" THEN snapshot.index ELSE Null
        /\ graph' = IF snapshot.phase = "GRAPH" THEN snapshot.index ELSE Null
        /\ UNCHANGED <<sharers, pc, rows, failures, snapshot>>
    BY <1>11 DEF Deserialize
  <2> QED BY <1>b, <2>1, <2>2, <2>3, <2>4 DEF ActiveIndex
<1>12. ASSUME UNCHANGED lazyVars PROVE Typed'
  BY <1>12 DEF lazyVars, ActiveIndex
<1> QED BY <1>1, <1>2, <1>3, <1>4, <1>5, <1>6, <1>7, <1>8, <1>9, <1>10, <1>11, <1>12
        DEF LazyNext, Step

(* The constructor leaves an empty flat index. *)
LEMMA SoundInit == LazyInit => PhaseIsSound
<1> SUFFICES ASSUME LazyInit PROVE PhaseIsSound
  OBVIOUS
<1>1. flat \in Index /\ flat # Null /\ GetNumElements(flat) = 0
  BY IndexKinds, NullIsNoIndex DEF LazyInit
<1>2. LazyTypeOK
  <2>1. tombstones \in BOOLEAN /\ stalled \in BOOLEAN
    BY Zenon DEF LazyInit
  <2>2. calls \in [Thread -> 0 .. MaxCalls] /\ failures \in 0 .. MaxFailures
    BY BoundsAreNaturals DEF LazyInit
  <2>3. /\ phase \in {"FLAT", "GRAPH"} /\ graph = Null /\ snapshot = Null /\ sharers \subseteq Thread
        /\ pc \in [Thread -> {"idle", "adding", "transition"}] /\ rows \in [Thread -> Index]
    BY IndexKinds DEF LazyInit
  <2> QED BY <1>1, <2>1, <2>2, <2>3 DEF LazyTypeOK
<1>3. ActiveIndexExists
  BY <1>1 DEF LazyInit, ActiveIndexExists, ActiveIndex
<1>4. TransitionIsPending
  BY SMTT(30), <1>1, ThresholdIsPositive DEF LazyInit, TransitionIsPending
<1> QED BY <1>2, <1>3, <1>4 DEF PhaseIsSound

(* A flat index at its threshold stays pending.  The number of elements matters only      *)
(* where no Add is left that would count them.                                          *)
LEMMA PendingStep ==
  ASSUME ~SmallRebuild, Typed, Typed', TransitionIsPending, [LazyNext]_lazyVars
  PROVE  TransitionIsPending'
<1> DEFINE Due == phase = "FLAT" /\ flat # Null /\ GetNumElements(flat) >= Threshold
           Active(t) == pc[t] \in {"adding", "transition"}
<1> USE DEF TransitionIsPending
<1>t. pc \in [Thread -> {"idle", "adding", "transition"}] /\ Threshold \in Nat \ {0}
  BY ThresholdIsPositive DEF Typed, LazyTypeOK
<1>a. (phase = "FLAT" => flat \in Index)
  BY ActiveIsIndex
<1>1. ASSUME NEW t \in Thread, NEW data \in Dataset, BuildFlat(t, data) PROVE TransitionIsPending'
  <2>1. GetNumElements(data) \in Nat /\ GetNumElements(data) < Threshold
    BY <1>1, IndexKinds, IndexCount DEF BuildFlat
  <2>2. flat' # Null => flat' = data
    BY <1>1 DEF BuildFlat
  <2>3. (flat' # Null => GetNumElements(flat') = GetNumElements(data))
    BY <2>2 DEF GetNumElements
  <2> QED BY <2>1, <2>3, <1>t
<1>2. ASSUME NEW t \in Thread, NEW data \in Dataset, BuildGraph(t, data) PROVE TransitionIsPending'
  BY <1>2 DEF BuildGraph
<1>3. ASSUME NEW t \in Thread, NEW data \in Dataset, Add(t, data) PROVE TransitionIsPending'
  BY <1>3, <1>t DEF Add
<1>4. ASSUME NEW t \in Thread, NEW l \in Label, AddRow(t, l) PROVE TransitionIsPending'
  BY <1>4, <1>t DEF AddRow
<1>5. ASSUME NEW t \in Thread, AddCounts(t) PROVE TransitionIsPending'
  <2>1. CASE need_transition
    BY <1>5, <1>t, <2>1 DEF AddCounts
  <2>2. CASE ~need_transition
    <3>1. ~Due'
      BY <1>5, <2>2 DEF AddCounts, need_transition, GetNumElements
    <3> QED BY <3>1
  <2> QED BY <2>1, <2>2
<1>6. ASSUME NEW t \in Thread, TransitionToGraph(t) PROVE TransitionIsPending'
  <2>1. CASE phase = "FLAT" /\ DOMAIN flat # {}
    BY <1>6, <2>1 DEF TransitionToGraph
  <2>2. CASE phase = "FLAT" /\ DOMAIN flat = {}
    <3>1. GetNumElements(flat) = 0
      BY <1>a, <2>2, IndexCount
    <3>2. flat' = flat
      BY <1>6, <2>2 DEF TransitionToGraph
    <3> QED BY <3>1, <3>2, <1>t DEF GetNumElements
  <2>3. CASE phase # "FLAT"
    BY <1>6, <2>3 DEF TransitionToGraph
  <2> QED BY Zenon, <2>1, <2>2, <2>3
<1>7. ASSUME NEW t \in Thread, TransitionFails(t) PROVE TransitionIsPending'
  BY <1>7 DEF TransitionFails
<1>8. ASSUME NEW t \in Thread, NEW l \in Label, NEW mode, Remove(t, l, mode) PROVE TransitionIsPending'
  <2>1. Due' => Due
    <3>1. CASE phase = "FLAT"
      <4>1. flat' = Without(flat, {l}) /\ phase' = phase
        BY <1>8, <3>1 DEF Remove
      <4>2. /\ GetNumElements(Without(flat, {l})) <= GetNumElements(flat)
            /\ GetNumElements(flat) \in Nat /\ flat # Null
        BY <1>a, <3>1, IndexCount, NullIsNoIndex
      <4>3. flat' \in Index \cup {Null}
        BY DEF Typed, LazyTypeOK
      <4>4. Due' => GetNumElements(Without(flat, {l})) \in Nat
        BY <4>1, <4>3, IndexCount DEF GetNumElements
      <4>5. GetNumElements(flat') = GetNumElements(Without(flat, {l}))
        BY <4>1 DEF GetNumElements
      <4> QED BY <4>1, <4>2, <4>4, <4>5, <1>t, <3>1 DEF GetNumElements
    <3>2. CASE phase # "FLAT"
      BY <1>8, <3>2 DEF Remove
    <3> QED BY <3>1, <3>2
  <2> QED BY <1>8, <2>1 DEF Remove
<1>9. ASSUME NEW t \in Thread, NEW l \in Label, NEW v \in Vec, UpdateVector(t, l, v)
      PROVE  TransitionIsPending'
  <2>1. Due' => Due
    <3>1. CASE phase = "FLAT"
      <4>1. flat' = With(flat, l, v) /\ l \in DOMAIN flat /\ flat # Null
        BY <1>9, <1>a, <3>1, NullIsNoIndex DEF UpdateVector, ActiveIndex
      <4>2. DOMAIN flat' = DOMAIN flat
        BY <4>1 DEF With
      <4> QED BY <4>1, <4>2, <3>1 DEF GetNumElements
    <3>2. CASE phase # "FLAT"
      BY <1>9, <3>2 DEF UpdateVector
    <3> QED BY <3>1, <3>2
  <2> QED BY <1>9, <2>1 DEF UpdateVector
<1>10. ASSUME NEW t \in Thread, Serialize(t) PROVE TransitionIsPending'
  BY <1>10 DEF Serialize, GetNumElements
<1>11. ASSUME NEW t \in Thread, Deserialize(t) PROVE TransitionIsPending'
  BY Zenon, <1>11 DEF Deserialize, GetNumElements
<1>12. ASSUME UNCHANGED lazyVars PROVE TransitionIsPending'
  BY <1>12 DEF lazyVars, GetNumElements
<1> QED BY <1>1, <1>2, <1>3, <1>4, <1>5, <1>6, <1>7, <1>8, <1>9, <1>10, <1>11, <1>12
        DEF LazyNext, Step

(* The phase is sound in every state of every index: the index it names exists, the flat    *)
(* one is given back, and one at the threshold is about to become a graph.                *)
THEOREM PhaseStaysSound ==
  ASSUME ~SmallRebuild
  PROVE  LazySpec => []PhaseIsSound
<1>1. LazyInit => PhaseIsSound
  BY SoundInit
<1>2. PhaseIsSound /\ [LazyNext]_lazyVars => PhaseIsSound'
  <2>1. ASSUME PhaseIsSound, [LazyNext]_lazyVars PROVE PhaseIsSound'
    <3>1. Typed /\ TransitionIsPending
      BY <2>1 DEF PhaseIsSound, Typed
    <3>2. Typed'
      BY <2>1, <3>1, TypedStep
    <3>3. TransitionIsPending'
      BY <2>1, <3>1, <3>2, PendingStep
    <3> QED BY <3>2, <3>3 DEF PhaseIsSound, Typed
  <2> QED BY <2>1
<1> QED BY <1>1, <1>2, PTL DEF LazySpec

-----------------------------------------------------------------------------
(* Abstract steps of single operations. *)
Abs == Abstract!Next \/ Abstract!Rewrite \/ Abstract!Load

(* A row that is taken, a label that is removed, a vector that is replaced and a load are     *)
(* steps of the map; every other step leaves it alone.                                      *)
LEMMA RefinementStep ==
  ASSUME ~SmallRebuild, Typed, Typed', [LazyNext]_lazyVars
  PROVE  Abs \/ UNCHANGED ActiveIndex
<1>a. /\ ActiveIndex \in Index /\ (phase = "FLAT" => flat \in Index /\ ActiveIndex = flat)
      /\ (phase # "FLAT" => phase = "GRAPH" /\ graph \in Index /\ ActiveIndex = graph)
  BY ActiveIsIndex DEF Typed, LazyTypeOK, ActiveIndex
<1>b. ASSUME NEW data \in Index, GetNumElements(ActiveIndex) = 0, ActiveIndex' = data PROVE Abs
  <2>1. DOMAIN ActiveIndex = {}
    BY <1>a, <1>b, IndexCount
  <2>2. \E S \in SUBSET Label : ActiveIndex' \in [S -> Vec]
    BY <1>b DEF Index
  <2> QED BY <2>1, <2>2 DEF Abs, Abstract!Load
<1>1. ASSUME NEW t \in Thread, NEW data \in Dataset, BuildFlat(t, data) PROVE Abs
  <2>1. GetNumElements(ActiveIndex) = 0 /\ data \in Index
    BY <1>1, IndexKinds DEF BuildFlat
  <2>2. phase' = "FLAT" /\ flat' = data
    BY <1>1, NullIsNoIndex, <1>a DEF BuildFlat
  <2>3. ActiveIndex' = data
    BY <2>2 DEF ActiveIndex
  <2> QED BY <2>1, <2>3, <1>b
<1>2. ASSUME NEW t \in Thread, NEW data \in Dataset, BuildGraph(t, data) PROVE Abs
  <2>1. GetNumElements(ActiveIndex) = 0 /\ data \in Index
    BY <1>2, IndexKinds DEF BuildGraph
  <2>2. ActiveIndex' = data
    BY <1>2 DEF BuildGraph, ActiveIndex
  <2> QED BY <2>1, <2>2, <1>b
<1>3. ASSUME NEW t \in Thread, NEW data \in Dataset, Add(t, data) PROVE UNCHANGED ActiveIndex
  BY <1>3 DEF Add, ActiveIndex
<1>4. ASSUME NEW t \in Thread, NEW l \in Label, AddRow(t, l) PROVE Abs \/ UNCHANGED ActiveIndex
  <2>1. rows[t] \in Index /\ rows[t][l] \in Vec
    BY SMTT(30), <1>4, IndexMember DEF AddRow, Typed, LazyTypeOK
  <2>2. ActiveIndex' = IF l \in DOMAIN ActiveIndex THEN ActiveIndex ELSE With(ActiveIndex, l, rows[t][l])
    BY <1>4, <1>a DEF AddRow, ActiveIndex
  <2>3. CASE l \in DOMAIN ActiveIndex
    BY <2>2, <2>3
  <2>4. CASE l \notin DOMAIN ActiveIndex
    <3>1. Abstract!Add(l, rows[t][l])
      BY <2>2, <2>4 DEF Abstract!Add, With
    <3> QED BY <2>1, <3>1 DEF Abs, Abstract!Next
  <2> QED BY <2>3, <2>4
<1>5. ASSUME NEW t \in Thread, AddCounts(t) PROVE UNCHANGED ActiveIndex
  BY <1>5 DEF AddCounts, ActiveIndex
<1>6. ASSUME NEW t \in Thread, TransitionToGraph(t) PROVE UNCHANGED ActiveIndex
  BY <1>6 DEF TransitionToGraph, ActiveIndex
<1>7. ASSUME NEW t \in Thread, TransitionFails(t) PROVE UNCHANGED ActiveIndex
  BY <1>7 DEF TransitionFails, ActiveIndex
<1>8. ASSUME NEW t \in Thread, NEW l \in Label, NEW mode, Remove(t, l, mode) PROVE Abs
  <2>1. l \in DOMAIN ActiveIndex /\ ActiveIndex' = Without(ActiveIndex, {l})
    BY <1>8, <1>a DEF Remove, ActiveIndex
  <2>2. Abstract!Remove(l)
    BY <2>1 DEF Abstract!Remove, Without
  <2> QED BY <2>2 DEF Abs, Abstract!Next
<1>9. ASSUME NEW t \in Thread, NEW l \in Label, NEW v \in Vec, UpdateVector(t, l, v) PROVE Abs
  <2>1. l \in DOMAIN ActiveIndex /\ ActiveIndex' = With(ActiveIndex, l, v)
    BY <1>9, <1>a DEF UpdateVector, ActiveIndex
  <2>2. ActiveIndex = [k \in DOMAIN ActiveIndex |-> ActiveIndex[k]]
    BY <1>a, IndexMember
  <2>3. With(ActiveIndex, l, v) = [ActiveIndex EXCEPT ![l] = v]
    BY <2>1, <2>2 DEF With
  <2>4. Abstract!UpdateVector(l, v)
    BY <2>1, <2>3 DEF Abstract!UpdateVector
  <2> QED BY <2>4 DEF Abs, Abstract!Rewrite
<1>10. ASSUME NEW t \in Thread, Serialize(t) PROVE UNCHANGED ActiveIndex
  BY <1>10 DEF Serialize, ActiveIndex
<1>11. ASSUME NEW t \in Thread, Deserialize(t) PROVE Abs
  <2>1. GetNumElements(ActiveIndex) = 0 /\ snapshot.index \in Index /\ snapshot.phase \in {"FLAT", "GRAPH"}
    BY <1>11 DEF Deserialize, Typed, LazyTypeOK
  <2>2. ActiveIndex' = snapshot.index
    BY <1>11, <2>1 DEF Deserialize, ActiveIndex
  <2> QED BY <2>1, <2>2, <1>b
<1>12. ASSUME UNCHANGED lazyVars PROVE UNCHANGED ActiveIndex
  BY <1>12 DEF lazyVars, ActiveIndex
<1> QED BY <1>1, <1>2, <1>3, <1>4, <1>5, <1>6, <1>7, <1>8, <1>9, <1>10, <1>11, <1>12
        DEF LazyNext, Step

(* Callers cannot tell the phases apart: whatever threads add, remove, update, build, store    *)
(* and load across transitions, the index behaves as one map from labels to vectors.          *)
THEOREM LazyImplementsVectorIndex ==
  ASSUME ~SmallRebuild
  PROVE  LazySpec => ImplementsVectorIndex
<1>1. LazyInit => Abstract!Init
  <2>1. LazyInit => ActiveIndex = Empty
    BY DEF LazyInit, ActiveIndex
  <2>2. Empty = [l \in {} |-> CHOOSE v \in Vec : TRUE]
    BY DEF Empty
  <2> QED BY <2>1, <2>2 DEF Abstract!Init
<1>2. PhaseIsSound /\ PhaseIsSound' /\ [LazyNext]_lazyVars => Abs \/ UNCHANGED ActiveIndex
  BY RefinementStep DEF PhaseIsSound, Typed
<1>3. Abs \/ UNCHANGED ActiveIndex => [Abstract!Next \/ Abstract!Rewrite \/ Abstract!Load]_ActiveIndex
  BY DEF Abs
<1>4. LazySpec => []PhaseIsSound
  BY PhaseStaysSound
<1> QED BY <1>1, <1>2, <1>3, <1>4, PTL DEF LazySpec, ImplementsVectorIndex, Abstract!SpecWithLoads

-----------------------------------------------------------------------------
(* Batches of reads. *)

(* The members of a call and of a context. *)
CallFields == {"pc", "calls", "count", "next", "last", "left", "failed", "ctx", "outcome"}
RingFields == {"prepared", "inflight", "done"}
IsRing(R) == R = [f \in RingFields |-> R[f]]

ReadTypes ==
  /\ DOMAIN call = Caller /\ \A c \in Caller : DOMAIN call[c] = CallFields
  /\ DOMAIN filled = Caller /\ DOMAIN where = Ctx /\ DOMAIN ring = Ctx
  /\ \A x \in Ctx : IsRing(ring[x])
  /\ tasks \subseteq Request

(* The reads i to j of a caller, the last of the batch that starts at next, and the reads a      *)
(* context has not given up.                                                                *)
Span(c, i, j) == {<<c, n>> : n \in i .. j}
LastOf(k) == IF k.next + BatchSize - 1 < k.count THEN k.next + BatchSize - 1 ELSE k.count
Numbers(S) == {r[2] : r \in S}
Landed(D) == {e[1][2] : e \in D}
Indices(R) == Numbers(R.inflight) \cup Landed(R.done)

(* A thread with call k outside of MultiRead: true means that f has all it asked for. *)
Rests(kind, k, f) ==
  k.pc = "idle" /\ k.ctx = {} /\ (k.outcome = "true" /\ kind # "aio" => f = 1 .. k.count)

(* A call of Reader::MultiRead with callbacks P to come: it counts down what is not issued and   *)
(* what has not called back.                                                                *)
Asks(kind, c, k, f, P) ==
  /\ kind \in {"pool_reader", "func_reader"}
  /\ k.pc = "issue" /\ k.outcome = "none" /\ k.ctx = {}
  /\ k.count \in 0 .. MaxReads[c] /\ k.next \in 1 .. k.count + 1
  /\ \A i \in P : i < k.next
  /\ k.left = k.count - k.next + 1 + Cardinality(P)
  /\ ~k.failed => f = (1 .. k.next - 1) \ P

(* A call of the other MultiReads, whose context holds R. *)
Own(kind, c, k, f, R) ==
  /\ kind \in {"aio", "uring"}
  /\ k.pc \in {"prepare", "submit", "wait", "drain"} /\ k.outcome = "none"
  /\ k.count \in Nat /\ k.next \in 1 .. k.count + 1
  /\ k.pc = "prepare" => R = Clean
  /\ k.pc = "submit" => /\ R.prepared = Span(c, k.next, LastOf(k)) /\ R.inflight = {} /\ R.done = {}
                        /\ k.next <= k.count
  /\ k.pc = "wait" => R.prepared = {} /\ k.last \in 0 .. k.count
  /\ k.pc = "drain" /\ kind = "aio" => R.prepared = {}
  /\ \A r \in R.inflight : r[1] = c
  /\ \A e \in R.done : e[1][1] = c
  /\ kind = "uring" => /\ k.pc \in {"prepare", "submit"} => ~k.failed /\ f = 1 .. k.next - 1
                       /\ k.pc = "wait" /\ ~k.failed => f \cup Indices(R) = 1 .. k.last

(* The callbacks of a caller that have not run. *)
Pending(c, T) == {i \in 1 .. MaxReads[c] : <<c, i>> \in T}

CallOK(kind, c, k, f, P, W, R) ==
  \/ Rests(kind, k, f) /\ P = {}
  \/ Asks(kind, c, k, f, P)
  \/ \E x \in Ctx : k.ctx = {x} /\ W[x] = "held" /\ Own(kind, c, k, f, R[x])

(* A context at w that holds R. *)
ContextOK(w, R, dir) ==
  /\ w \in {"none", "pool", "held", "lost"}
  /\ w \in {"none", "pool"} => R = Clean
  /\ w = "lost" /\ ~dir => R.inflight = {}

ReadInv ==
  /\ ReadTypes
  /\ io \in {"pool_reader", "func_reader", "aio", "uring"}
  /\ io # "pool_reader" => tasks = {}
  /\ \A x \in Ctx : ContextOK(where[x], ring[x], direct)
  /\ \A c, d \in Caller : c # d => call[c].ctx \cap call[d].ctx = {}
  /\ \A c \in Caller : CallOK(io, c, call[c], filled[c], Pending(c, tasks), where, ring)

-----------------------------------------------------------------------------
(* A context whose members are empty is clean. *)
LEMMA CleanByMembers ==
  ASSUME NEW R, IsRing(R), R.prepared = {}, R.inflight = {}, R.done = {}
  PROVE  R = Clean
  BY Zenon DEF Clean, IsRing, RingFields

(* The members of a clean context. *)
LEMMA CleanMembers == IsRing(Clean) /\ Clean.prepared = {} /\ Clean.inflight = {} /\ Clean.done = {}
  BY Zenon DEF Clean, IsRing, RingFields

(* The members of the calls that are made and left. *)
HasEnded(k, c, o) ==
  /\ DOMAIN k = CallFields /\ k.pc = "idle" /\ k.ctx = {} /\ k.count = call[c].count /\ k.outcome = o

HasEntered(k, n, at) ==
  /\ DOMAIN k = CallFields /\ k.pc = at /\ k.ctx = {} /\ k.count = n /\ k.left = n
  /\ k.next = 1 /\ k.outcome = "none" /\ ~k.failed

(* What a call that ends holds. *)
LEMMA EndedMembers ==
  ASSUME NEW c, NEW o, NEW k, k = Ended(c, o)
  PROVE  HasEnded(k, c, o)
  BY Zenon DEF Ended, NoCall, CallFields, HasEnded

(* What a call that begins holds. *)
LEMMA EnteredMembers ==
  ASSUME NEW c, NEW n, NEW at, NEW k, k = Entered(c, n, at)
  PROVE  HasEntered(k, n, at)
  BY Zenon DEF Entered, NoCall, CallFields, HasEntered

(* What other callers' calls are does not change with what one caller changes. *)
LEMMA OthersKeep ==
  ASSUME ReadInv, NEW c, io' = io,
         \A d \in Caller \ {c} : /\ call'[d] = call[d] /\ filled'[d] = filled[d]
                                 /\ Pending(d, tasks') = Pending(d, tasks),
         NEW Z, \A y \in Z : y \in call[c].ctx \/ where[y] # "held",
         \A y \in Ctx \ Z : where'[y] = where[y] /\ ring'[y] = ring[y], c \in Caller
  PROVE  \A d \in Caller \ {c} : CallOK(io', d, call'[d], filled'[d], Pending(d, tasks'), where', ring')
<1> SUFFICES ASSUME NEW d \in Caller \ {c}
             PROVE  CallOK(io', d, call'[d], filled'[d], Pending(d, tasks'), where', ring')
  BY Zenon
<1>1. CallOK(io, d, call[d], filled[d], Pending(d, tasks), where, ring)
  BY Zenon DEF ReadInv
<1>2. CASE Rests(io, call[d], filled[d]) /\ Pending(d, tasks) = {}
  BY Zenon, <1>2 DEF CallOK
<1>3. CASE Asks(io, d, call[d], filled[d], Pending(d, tasks))
  BY Zenon, <1>3 DEF CallOK
<1>4. ASSUME NEW x \in Ctx, call[d].ctx = {x}, where[x] = "held", Own(io, d, call[d], filled[d], ring[x])
      PROVE  CallOK(io', d, call'[d], filled'[d], Pending(d, tasks'), where', ring')
  <2>1. x \notin Z
    <3>1. call[c].ctx \cap call[d].ctx = {}
      BY Zenon DEF ReadInv
    <3> QED BY Zenon, <1>4, <3>1
  <2>2. where'[x] = "held" /\ ring'[x] = ring[x]
    BY Zenon, <1>4, <2>1
  <2>3. call'[d].ctx = {x} /\ Own(io', d, call'[d], filled'[d], ring'[x])
    BY Zenon, <1>4, <2>2
  <2> QED BY Zenon, <2>2, <2>3 DEF CallOK
<1> QED BY Zenon, <1>1, <1>2, <1>3, <1>4 DEF CallOK

-----------------------------------------------------------------------------
(* Only x changes among the contexts. *)
OneContext(x) ==
  /\ DOMAIN where' = Ctx /\ DOMAIN ring' = Ctx /\ IsRing(ring'[x])
  /\ \A y \in Ctx \ {x} : where'[y] = where[y] /\ ring'[y] = ring[y]

(* Only the call of c changes. *)
OneCall(c) ==
  /\ DOMAIN call' = Caller /\ DOMAIN call'[c] = CallFields
  /\ \A d \in Caller \ {c} : call'[d] = call[d]

(* A call in a MultiRead of the kernel has its context to itself. *)
LEMMA HeldOne ==
  ASSUME ReadInv, NEW c \in Caller, call[c].pc \notin {"idle", "issue"}
  PROVE  \E x \in Ctx : /\ call[c].ctx = {x} /\ Held(c) = x /\ where[x] = "held"
                        /\ Own(io, c, call[c], filled[c], ring[x])
<1>1. PICK x \in Ctx : call[c].ctx = {x} /\ where[x] = "held" /\ Own(io, c, call[c], filled[c], ring[x])
  BY Zenon DEF ReadInv, CallOK, Rests, Asks
<1>2. Held(c) = x
  BY Zenon, <1>1 DEF Held
<1> QED BY Zenon, <1>1, <1>2

(* A call is left and its context given up. *)
LEMMA CallEnds ==
  ASSUME ReadInv, NEW c \in Caller, NEW x \in Ctx, call[c].ctx = {x}, NEW o, Leave(c, o), OneContext(x),
         ContextOK(where'[x], ring'[x], direct), UNCHANGED <<io, direct, filled, tasks>>,
         tasks = {}, o = "true" /\ io # "aio" => filled[c] = 1 .. call[c].count
  PROVE  ReadInv'
<1>0. ReadTypes
  BY Zenon DEF ReadInv
<1>1. call'[c] = Ended(c, o) /\ DOMAIN call' = Caller /\ \A d \in Caller \ {c} : call'[d] = call[d]
  BY Zenon, <1>0 DEF Leave, ReadTypes
<1>2. /\ DOMAIN call'[c] = CallFields /\ call'[c].pc = "idle" /\ call'[c].ctx = {}
      /\ call'[c].count = call[c].count /\ call'[c].outcome = o
  <2>1. HasEnded(call'[c], c, o)
    BY Zenon, <1>1, EndedMembers
  <2> QED BY Zenon, <2>1 DEF HasEnded
<1>3. ReadTypes'
  BY Zenon, <1>0, <1>1, <1>2 DEF ReadTypes, OneContext
<1>4. \A y \in Ctx : ContextOK(where'[y], ring'[y], direct')
  BY Zenon DEF ReadInv, OneContext
<1>5. \A d, e \in Caller : d # e => call'[d].ctx \cap call'[e].ctx = {}
  <2>1. \A d \in Caller \ {c} : call'[d].ctx = call[d].ctx
    BY Zenon, <1>1
  <2>2. \A d, e \in Caller : d # e => call[d].ctx \cap call[e].ctx = {}
    BY Zenon DEF ReadInv
  <2> QED BY Zenon, <1>2, <2>1, <2>2
<1>6. Pending(c, tasks') = {}
  BY Zenon DEF Pending
<1>7. CallOK(io', c, call'[c], filled'[c], Pending(c, tasks'), where', ring')
  BY Zenon, <1>2, <1>6 DEF CallOK, Rests
<1>8. \A d \in Caller \ {c} : CallOK(io', d, call'[d], filled'[d], Pending(d, tasks'), where', ring')
  <2>1. \A y \in {x} : y \in call[c].ctx \/ where[y] # "held"
    BY Zenon
  <2> QED BY Zenon, <1>1, <2>1, OthersKeep DEF OneContext
<1> QED BY Zenon, <1>3, <1>4, <1>5, <1>7, <1>8 DEF ReadInv

(* A call goes on with its context. *)
LEMMA CallGoesOn ==
  ASSUME ReadInv, NEW c \in Caller, NEW x \in Ctx, call[c].ctx = {x}, where[x] = "held", where' = where,
         OneCall(c), OneContext(x), call'[c].ctx = {x}, Own(io, c, call'[c], filled'[c], ring'[x]),
         UNCHANGED <<io, direct, tasks>>, DOMAIN filled' = Caller,
         \A d \in Caller \ {c} : filled'[d] = filled[d]
  PROVE  ReadInv'
<1>0. ReadTypes
  BY Zenon DEF ReadInv
<1>3. ReadTypes'
  BY Zenon, <1>0 DEF ReadTypes, OneContext, OneCall
<1>4. \A y \in Ctx : ContextOK(where'[y], ring'[y], direct')
  <2>1. ContextOK(where'[x], ring'[x], direct')
    BY Zenon DEF ContextOK
  <2> QED BY Zenon, <2>1 DEF ReadInv, OneContext
<1>5. \A d, e \in Caller : d # e => call'[d].ctx \cap call'[e].ctx = {}
  BY Zenon DEF ReadInv, OneCall
<1>7. CallOK(io', c, call'[c], filled'[c], Pending(c, tasks'), where', ring')
  BY Zenon DEF CallOK
<1>8. \A d \in Caller \ {c} : CallOK(io', d, call'[d], filled'[d], Pending(d, tasks'), where', ring')
  <2>1. \A y \in {x} : y \in call[c].ctx \/ where[y] # "held"
    BY Zenon
  <2> QED BY Zenon, <2>1, OthersKeep DEF OneContext, OneCall
<1> QED BY Zenon, <1>3, <1>4, <1>5, <1>7, <1>8 DEF ReadInv

-----------------------------------------------------------------------------
(* The context goes back to the pool, is left alone, or is destroyed. *)
LEMMA ContextGoes ==
  ASSUME ReadInv, NEW c \in Caller, NEW x \in Ctx, Held(c) = x
  PROVE  /\ ReturnOne(c) => OneContext(x) /\ where'[x] = "pool" /\ ring'[x] = ring[x]
         /\ Abandon(c) => OneContext(x) /\ where'[x] = "lost" /\ ring'[x] = ring[x]
         /\ Drop(c) => OneContext(x) /\ where'[x] = "none" /\ ring'[x] = Clean
<1>0. DOMAIN where = Ctx /\ DOMAIN ring = Ctx /\ IsRing(ring[x]) /\ IsRing(Clean)
  BY Zenon, CleanMembers DEF ReadInv, ReadTypes
<1>1. ReturnOne(c) => OneContext(x) /\ where'[x] = "pool" /\ ring'[x] = ring[x]
  BY Zenon, <1>0 DEF ReturnOne, OneContext
<1>2. Abandon(c) => OneContext(x) /\ where'[x] = "lost" /\ ring'[x] = ring[x]
  BY Zenon, <1>0 DEF Abandon, OneContext
<1>3. Drop(c) => OneContext(x) /\ where'[x] = "none" /\ ring'[x] = Clean
  BY Zenon, <1>0 DEF Drop, OneContext
<1> QED BY Zenon, <1>1, <1>2, <1>3

(* In the kernel's MultiReads no callback is to come. *)
LEMMA NoCallbacks ==
  ASSUME ReadInv, NEW c \in Caller, call[c].pc \notin {"idle", "issue"}
  PROVE  tasks = {} /\ io \in {"aio", "uring"}
<1>1. PICK x \in Ctx : Own(io, c, call[c], filled[c], ring[x])
  BY Zenon, HeldOne
<1>2. io \in {"aio", "uring"}
  BY Zenon, <1>1 DEF Own
<1>3. io # "pool_reader"
  BY Zenon, <1>2
<1> QED BY Zenon, <1>2, <1>3 DEF ReadInv

(* A call that gives its clean context back, or drops it. *)
LEMMA LeaveClean ==
  ASSUME ReadInv, NEW c \in Caller, call[c].pc \notin {"idle", "issue"}, NEW o, Leave(c, o),
         Drop(c) \/ (ReturnOne(c) /\ ring[Held(c)] = Clean), UNCHANGED <<io, direct, filled, tasks>>,
         o = "true" /\ io # "aio" => filled[c] = 1 .. call[c].count
  PROVE  ReadInv'
<1>1. PICK x \in Ctx : call[c].ctx = {x} /\ Held(c) = x
  BY Zenon, HeldOne
<1>2. OneContext(x) /\ where'[x] \in {"none", "pool"} /\ ring'[x] = Clean
  BY Zenon, <1>1, ContextGoes
<1>3. ContextOK(where'[x], ring'[x], direct)
  BY Zenon, <1>2 DEF ContextOK
<1>4. tasks = {}
  BY Zenon, NoCallbacks
<1> QED BY Zenon, <1>1, <1>2, <1>3, <1>4, CallEnds

(* Filling a batch. *)
LEMMA PrepareKeeps ==
  ASSUME ReadInv, NEW c \in Caller, Prepare(c)
  PROVE  ReadInv'
<1>0. call[c].pc = "prepare" /\ call[c].next <= call[c].count /\ UNCHANGED <<io, direct, filled, tasks>>
  BY Zenon DEF Prepare
<1>1. PICK x \in Ctx : /\ call[c].ctx = {x} /\ Held(c) = x /\ where[x] = "held"
                       /\ Own(io, c, call[c], filled[c], ring[x])
  BY Zenon, <1>0, HeldOne
<1>2. CASE io = "uring" /\ Drop(c) /\ Leave(c, "thrown")
  <2>1. call[c].pc \notin {"idle", "issue"} /\ "thrown" # "true"
    BY Zenon, <1>0
  <2> QED BY Zenon, <1>0, <1>2, <2>1, LeaveClean
<1>3. CASE /\ ring' = [ring EXCEPT ![Held(c)].prepared = Batch(c)]
           /\ call' = [call EXCEPT ![c].pc = "submit"]
           /\ UNCHANGED where
  <2>0. DOMAIN ring = Ctx /\ DOMAIN where = Ctx /\ DOMAIN call = Caller /\ DOMAIN call[c] = CallFields
        /\ IsRing(ring[x]) /\ DOMAIN filled = Caller
    BY Zenon DEF ReadInv, ReadTypes
  <2>1. /\ ring'[x].prepared = Batch(c) /\ ring'[x].inflight = ring[x].inflight
        /\ ring'[x].done = ring[x].done /\ OneContext(x)
    BY Zenon, <1>1, <1>3, <2>0 DEF OneContext, IsRing, RingFields
  <2>2. /\ OneCall(c) /\ call'[c].pc = "submit" /\ call'[c].ctx = call[c].ctx /\ call'[c].next = call[c].next
        /\ call'[c].count = call[c].count /\ call'[c].failed = call[c].failed
        /\ call'[c].outcome = call[c].outcome
    BY Zenon, <1>3, <2>0 DEF OneCall, CallFields
  <2>3. Batch(c) = Span(c, call'[c].next, LastOf(call'[c]))
    BY Zenon, <2>2 DEF Batch, Span, LastOf
  <2>4. ring[x].inflight = {} /\ ring[x].done = {}
    BY Zenon, <1>0, <1>1, CleanMembers DEF Own
  <2>5. Own(io, c, call'[c], filled'[c], ring'[x])
    BY Zenon, <1>0, <1>1, <2>1, <2>2, <2>3, <2>4 DEF Own
  <2> QED BY Zenon, <1>0, <1>1, <1>3, <2>0, <2>1, <2>2, <2>5, CallGoesOn
<1> QED BY Zenon, <1>2, <1>3 DEF Prepare

(* The reads of a batch can be counted. *)
LEMMA SpanCount ==
  ASSUME NEW c, NEW i \in Int, NEW j \in Int, i <= j
  PROVE  Cardinality(Span(c, i, j)) = j - i + 1 /\ IsFiniteSet(Span(c, i, j))
<1>1. PICK f : f = [n \in i .. j |-> <<c, n>>]
  BY Zenon
<1>2. f \in Injection(i .. j, Span(c, i, j))
  <2>1. f \in [i .. j -> Span(c, i, j)] /\ DOMAIN f = i .. j
    BY Zenon, <1>1 DEF Span
  <2>2. \A a, b \in i .. j : f[a] = f[b] => a = b
    <3>1. ASSUME NEW a \in i .. j, NEW b \in i .. j, f[a] = f[b] PROVE a = b
      <4>1. <<c, a>> = <<c, b>>
        BY Zenon, <1>1, <3>1
      <4> QED BY Zenon, <4>1
    <3> QED BY Zenon, <3>1
  <2> QED BY Zenon, <2>1, <2>2 DEF Injection, IsInjective
<1>3. f \in Surjection(i .. j, Span(c, i, j))
  BY Zenon, <1>1, <1>2 DEF Surjection, Injection, Span
<1>4. ExistsBijection(i .. j, Span(c, i, j))
  BY Zenon, <1>2, <1>3 DEF ExistsBijection, Bijection
<1>5. IsFiniteSet(i .. j) /\ Cardinality(i .. j) = IF i > j THEN 0 ELSE j - i + 1
  BY Zenon, FS_Interval
<1>6. Cardinality(i .. j) = j - i + 1
  BY <1>5
<1> QED BY Zenon, <1>4, <1>5, <1>6, FS_Bijection

(* A read that is seen, and one that ends, leave the numbers what they are. *)
LEMMA LandedTaken ==
  ASSUME NEW D, NEW e \in D
  PROVE  {e[1][2]} \cup Landed(D \ {e}) = Landed(D)
  BY Zenon DEF Landed

(* A read that completes moves from the reads in flight to those that are done. *)
LEMMA LandedMoved ==
  ASSUME NEW R, NEW S, NEW r \in R.inflight, NEW ok,
         S.inflight = R.inflight \ {r}, S.done = R.done \cup {<<r, ok>>}
  PROVE  Indices(S) = Indices(R)
<1>0. PICK e : e = <<r, ok>>
  BY Zenon
<1>1. e[1] = r
  BY Zenon, <1>0
<1>2. Landed(R.done \cup {e}) = Landed(R.done) \cup {r[2]}
  <2>1. \A i : i \in Landed(R.done \cup {e}) => i \in Landed(R.done) \cup {r[2]}
    BY Zenon, <1>1 DEF Landed
  <2>2. e[1][2] = r[2] /\ e[1][2] \in Landed(R.done \cup {e})
    BY Zenon, <1>1 DEF Landed
  <2>3. \A i : i \in Landed(R.done) => i \in Landed(R.done \cup {e})
    BY Zenon DEF Landed
  <2> QED BY Zenon, <2>1, <2>2, <2>3
<1>3. Numbers(R.inflight) = Numbers(R.inflight \ {r}) \cup {r[2]}
  BY Zenon DEF Numbers
<1> QED BY Zenon, <1>0, <1>2, <1>3 DEF Indices

(* A read of a batch is the caller's. *)
LEMMA SpanMembers ==
  ASSUME NEW c, NEW i, NEW j, NEW r \in Span(c, i, j)
  PROVE  r[1] = c /\ r[2] \in i .. j
<1>1. PICK n \in i .. j : r = <<c, n>>
  BY Zenon DEF Span
<1>2. r[1] = c /\ r[2] = n
  BY Zenon, <1>1
<1> QED BY Zenon, <1>2

(* The numbers of the reads of a batch. *)
LEMMA SpanNumbers ==
  ASSUME NEW c, NEW i, NEW j
  PROVE  Numbers(Span(c, i, j)) = i .. j
<1>1. ASSUME NEW n \in i .. j PROVE <<c, n>> \in Span(c, i, j) /\ <<c, n>>[2] = n
  BY Zenon DEF Span
<1>2. ASSUME NEW r \in Span(c, i, j) PROVE r[2] \in i .. j
  BY Zenon, SpanMembers
<1> QED BY Zenon, <1>1, <1>2 DEF Numbers

(* Handing a batch to the kernel, all of it or a part. *)
LEMMA SubmitKeeps ==
  ASSUME ReadInv, NEW c \in Caller, NEW n, Submit(c, n)
  PROVE  ReadInv'
<1>0. call[c].pc = "submit" /\ UNCHANGED <<io, direct, filled, tasks, where>>
  BY Zenon DEF Submit
<1>1. PICK x \in Ctx : /\ call[c].ctx = {x} /\ Held(c) = x /\ where[x] = "held"
                       /\ Own(io, c, call[c], filled[c], ring[x])
  BY Zenon, <1>0, HeldOne
<1>2. PICK batch, sent : /\ batch = ring[x].prepared /\ sent = {r \in batch : r[2] < call[c].next + n}
  BY Zenon
<1>3. /\ ring' = [ring EXCEPT ![x].inflight = sent, ![x].prepared = IF io = "uring" THEN batch \ sent ELSE {}]
      /\ call' = [call EXCEPT ![c].last = call[c].next + Cardinality(batch) - 1,
                              ![c].pc = IF sent = batch THEN "wait" ELSE "drain"]
  BY Zenon, <1>1, <1>2 DEF Submit
<1>4. DOMAIN ring = Ctx /\ DOMAIN where = Ctx /\ DOMAIN call = Caller /\ DOMAIN call[c] = CallFields
      /\ IsRing(ring[x]) /\ DOMAIN filled = Caller
  BY Zenon DEF ReadInv, ReadTypes
<1>5. /\ ring'[x].prepared = (IF io = "uring" THEN batch \ sent ELSE {}) /\ ring'[x].inflight = sent
      /\ ring'[x].done = ring[x].done /\ OneContext(x)
  BY Zenon, <1>0, <1>1, <1>3, <1>4 DEF OneContext, IsRing, RingFields
<1>6. /\ OneCall(c) /\ call'[c].pc = (IF sent = batch THEN "wait" ELSE "drain")
      /\ call'[c].last = call[c].next + Cardinality(batch) - 1
      /\ call'[c].ctx = call[c].ctx /\ call'[c].next = call[c].next
      /\ call'[c].count = call[c].count /\ call'[c].failed = call[c].failed
      /\ call'[c].outcome = call[c].outcome
  BY Zenon, <1>3, <1>4 DEF OneCall, CallFields
<1>7. PICK last : last = LastOf(call[c])
  BY Zenon
<1>8. /\ batch = Span(c, call[c].next, last) /\ ring[x].done = {} /\ call[c].next <= call[c].count
      /\ call[c].count \in Nat /\ call[c].next \in 1 .. call[c].count + 1 /\ call[c].outcome = "none"
      /\ io \in {"aio", "uring"} /\ (io = "uring" => ~call[c].failed /\ filled[c] = 1 .. call[c].next - 1)
  BY Zenon, <1>0, <1>1, <1>2, <1>7 DEF Own
<1>9. last \in call[c].next .. call[c].count /\ call[c].next \in Nat
  BY SMTT(30), <1>7, <1>8, BatchReadAssumption DEF LastOf
<1>10. call'[c].last = last
  <2>1. call[c].next \in Int /\ last \in Int /\ call[c].next <= last
    BY <1>9
  <2>2. Cardinality(batch) = last - call[c].next + 1
    BY Zenon, <1>8, <2>1, SpanCount
  <2> QED BY <1>6, <2>1, <2>2
<1>11. \A r \in sent : r[1] = c
  <2>1. ASSUME NEW r \in sent PROVE r \in Span(c, call[c].next, last)
    BY Zenon, <1>2, <1>8
  <2> QED BY Zenon, <2>1, SpanMembers
<1>12. sent = batch => Indices(ring'[x]) = call[c].next .. last
  <2> SUFFICES ASSUME sent = batch PROVE Indices(ring'[x]) = call[c].next .. last
    BY Zenon
  <2>1. Landed(ring'[x].done) = {}
    BY Zenon, <1>5, <1>8 DEF Landed
  <2>2. Numbers(Span(c, call[c].next, last)) = call[c].next .. last
    BY Zenon, SpanNumbers
  <2>3. ring'[x].inflight = Span(c, call[c].next, last)
    BY Zenon, <1>5, <1>8
  <2> QED BY Zenon, <2>1, <2>2, <2>3 DEF Indices
<1>13. (1 .. call[c].next - 1) \cup (call[c].next .. last) = 1 .. last
  BY <1>8, <1>9
<1>14. last \in 0 .. call[c].count
  BY <1>8, <1>9
<1>15. CASE sent = batch
  <2>1. call'[c].pc = "wait" /\ ring'[x].prepared = {}
    BY Zenon, <1>5, <1>6, <1>15
  <2>2. io = "uring" => filled'[c] \cup Indices(ring'[x]) = 1 .. call'[c].last
    BY Zenon, <1>0, <1>8, <1>10, <1>12, <1>13, <1>15
  <2>3. Own(io, c, call'[c], filled'[c], ring'[x])
    BY Zenon, <1>5, <1>6, <1>8, <1>10, <1>11, <1>14, <2>1, <2>2 DEF Own
  <2> QED BY Zenon, <1>0, <1>1, <1>4, <1>5, <1>6, <2>3, CallGoesOn
<1>16. CASE sent # batch
  <2>1. call'[c].pc = "drain" /\ (io = "aio" => ring'[x].prepared = {})
    BY Zenon, <1>5, <1>6, <1>16
  <2>3. Own(io, c, call'[c], filled'[c], ring'[x])
    BY Zenon, <1>5, <1>6, <1>8, <1>11, <2>1 DEF Own
  <2> QED BY Zenon, <1>0, <1>1, <1>4, <1>5, <1>6, <2>3, CallGoesOn
<1> QED BY Zenon, <1>15, <1>16

(* The kernel takes none of it. *)
LEMMA SubmitFailsKeeps ==
  ASSUME ReadInv, NEW c \in Caller, SubmitFails(c)
  PROVE  ReadInv'
<1>0. call[c].pc = "submit" /\ UNCHANGED <<io, direct, filled, tasks>> /\ Leave(c, "thrown")
      /\ call[c].pc \notin {"idle", "issue"} /\ "thrown" # "true"
  BY Zenon DEF SubmitFails
<1>1. CASE io = "uring"
  BY Zenon, <1>0, <1>1, LeaveClean DEF SubmitFails
<1>2. CASE io # "uring"
  <2>1. PICK x \in Ctx : call[c].ctx = {x} /\ Held(c) = x
    BY Zenon, <1>0, HeldOne
  <2>2. DOMAIN ring = Ctx /\ DOMAIN where = Ctx /\ IsRing(Clean)
    BY Zenon, CleanMembers DEF ReadInv, ReadTypes
  <2>3. where' = [where EXCEPT ![x] = "pool"] /\ ring' = [ring EXCEPT ![x] = Clean]
    BY Zenon, <1>2, <2>1 DEF SubmitFails
  <2>4. OneContext(x) /\ where'[x] = "pool" /\ ring'[x] = Clean
    BY Zenon, <2>2, <2>3 DEF OneContext
  <2>5. ContextOK(where'[x], ring'[x], direct)
    BY Zenon, <2>4 DEF ContextOK
  <2>6. tasks = {}
    BY Zenon, <1>0, NoCallbacks
  <2> QED BY Zenon, <1>0, <2>1, <2>4, <2>5, <2>6, CallEnds
<1> QED BY Zenon, <1>1, <1>2

(* The completions of a context, one or all of them, are taken from it. *)
LEMMA ReapOneKeeps ==
  ASSUME ReadInv, NEW c \in Caller, ReapOne(c)
  PROVE  ReadInv'
<1>0. call[c].pc = "wait" /\ UNCHANGED <<io, direct, tasks, where>> /\ io = "uring"
  BY Zenon DEF ReapOne
<1>1. PICK x \in Ctx : /\ call[c].ctx = {x} /\ Held(c) = x /\ where[x] = "held"
                       /\ Own(io, c, call[c], filled[c], ring[x])
  BY Zenon, <1>0, HeldOne
<1>2. PICK e \in ring[x].done :
        /\ ring' = [ring EXCEPT ![x].done = @ \ {e}]
        /\ filled' = [filled EXCEPT ![e[1][1]] = IF e[2] THEN @ \cup {e[1][2]} ELSE @]
        /\ call' = [call EXCEPT ![c].failed = @ \/ ~e[2]]
  BY Zenon, <1>1 DEF ReapOne
<1>3. e[1][1] = c
  BY Zenon, <1>1 DEF Own
<1>4. DOMAIN ring = Ctx /\ DOMAIN where = Ctx /\ DOMAIN call = Caller /\ DOMAIN call[c] = CallFields
      /\ IsRing(ring[x]) /\ DOMAIN filled = Caller
  BY Zenon DEF ReadInv, ReadTypes
<1>5. /\ ring'[x].prepared = ring[x].prepared /\ ring'[x].inflight = ring[x].inflight
      /\ ring'[x].done = ring[x].done \ {e} /\ OneContext(x)
  BY Zenon, <1>0, <1>2, <1>4 DEF OneContext, IsRing, RingFields
<1>6. /\ OneCall(c) /\ call'[c].pc = call[c].pc /\ call'[c].last = call[c].last
      /\ call'[c].ctx = call[c].ctx /\ call'[c].next = call[c].next
      /\ call'[c].count = call[c].count /\ call'[c].outcome = call[c].outcome
      /\ (~call'[c].failed => ~call[c].failed /\ e[2])
  BY Zenon, <1>2, <1>4 DEF OneCall, CallFields
<1>7. /\ DOMAIN filled' = Caller /\ (\A d \in Caller \ {c} : filled'[d] = filled[d])
      /\ (e[2] => filled'[c] = filled[c] \cup {e[1][2]})
  BY Zenon, <1>2, <1>3, <1>4
<1>8. {e[1][2]} \cup Indices(ring'[x]) = Indices(ring[x])
  <2>1. {e[1][2]} \cup Landed(ring[x].done \ {e}) = Landed(ring[x].done)
    BY Zenon, LandedTaken
  <2> QED BY Zenon, <1>5, <2>1 DEF Indices
<1>9. ~call'[c].failed => filled'[c] \cup Indices(ring'[x]) = 1 .. call'[c].last
  <2> SUFFICES ASSUME ~call'[c].failed PROVE filled'[c] \cup Indices(ring'[x]) = 1 .. call'[c].last
    BY Zenon
  <2>1. filled'[c] = filled[c] \cup {e[1][2]} /\ ~call[c].failed
    BY Zenon, <1>6, <1>7
  <2>2. filled[c] \cup Indices(ring[x]) = 1 .. call[c].last
    BY Zenon, <1>0, <1>1, <2>1 DEF Own
  <2>3. filled'[c] \cup Indices(ring'[x]) = filled[c] \cup ({e[1][2]} \cup Indices(ring'[x]))
    BY Zenon, <2>1
  <2> QED BY Zenon, <1>6, <1>8, <2>2, <2>3
<1>10. Own(io, c, call'[c], filled'[c], ring'[x])
  BY Zenon, <1>0, <1>1, <1>5, <1>6, <1>9 DEF Own
<1> QED BY Zenon, <1>0, <1>1, <1>4, <1>5, <1>6, <1>7, <1>10, CallGoesOn

(* io_getevents of a whole batch (AsyncIO::MultiReadImpl). *)
LEMMA ReapAllKeeps ==
  ASSUME ReadInv, NEW c \in Caller, ReapAll(c)
  PROVE  ReadInv'
<1>0. call[c].pc = "wait" /\ UNCHANGED <<io, direct, call, tasks, where>> /\ io = "aio" /\ io # "uring"
  BY Zenon DEF ReapAll
<1>1. PICK x \in Ctx : /\ call[c].ctx = {x} /\ Held(c) = x /\ where[x] = "held"
                       /\ Own(io, c, call[c], filled[c], ring[x])
  BY Zenon, <1>0, HeldOne
<1>2. PICK S : ring' = [ring EXCEPT ![x].done = {}] /\ filled' = [filled EXCEPT ![c] = @ \cup S]
  BY Zenon, <1>1 DEF ReapAll
<1>4. DOMAIN ring = Ctx /\ DOMAIN where = Ctx /\ DOMAIN call = Caller /\ DOMAIN call[c] = CallFields
      /\ IsRing(ring[x]) /\ DOMAIN filled = Caller
  BY Zenon DEF ReadInv, ReadTypes
<1>5. /\ ring'[x].prepared = ring[x].prepared /\ ring'[x].inflight = ring[x].inflight
      /\ ring'[x].done = {} /\ OneContext(x)
  BY Zenon, <1>0, <1>2, <1>4 DEF OneContext, IsRing, RingFields
<1>6. OneCall(c)
  BY Zenon, <1>0, <1>4 DEF OneCall
<1>7. DOMAIN filled' = Caller /\ (\A d \in Caller \ {c} : filled'[d] = filled[d])
  BY Zenon, <1>2, <1>4
<1>10. Own(io, c, call'[c], filled'[c], ring'[x])
  BY Zenon, <1>0, <1>1, <1>5 DEF Own
<1> QED BY Zenon, <1>0, <1>1, <1>4, <1>5, <1>6, <1>7, <1>10, CallGoesOn

(* A batch is over. *)
LEMMA EndBatchKeeps ==
  ASSUME ReadInv, NEW c \in Caller, EndBatch(c)
  PROVE  ReadInv'
<1>0. call[c].pc = "wait" /\ UNCHANGED <<io, direct, filled, tasks>> /\ AllReaped(c)
      /\ call[c].pc \notin {"idle", "issue"} /\ "thrown" # "true"
  BY Zenon DEF EndBatch
<1>1. PICK x \in Ctx : /\ call[c].ctx = {x} /\ Held(c) = x /\ where[x] = "held"
                       /\ Own(io, c, call[c], filled[c], ring[x])
  BY Zenon, <1>0, HeldOne
<1>2. ring[x].prepared = {} /\ ring[x].inflight = {} /\ ring[x].done = {}
  BY Zenon, <1>0, <1>1 DEF AllReaped, Own
<1>3. DOMAIN ring = Ctx /\ DOMAIN where = Ctx /\ DOMAIN call = Caller /\ DOMAIN call[c] = CallFields
      /\ IsRing(ring[x]) /\ DOMAIN filled = Caller
  BY Zenon DEF ReadInv, ReadTypes
<1>4. ring[x] = Clean
  BY Zenon, <1>2, <1>3, CleanByMembers
<1>5. CASE call[c].failed
  BY Zenon, <1>0, <1>1, <1>4, <1>5, LeaveClean DEF EndBatch
<1>6. CASE ~call[c].failed
  <2>1. call' = [call EXCEPT ![c].next = call[c].last + 1, ![c].pc = "prepare"] /\ UNCHANGED <<where, ring>>
    BY Zenon, <1>6 DEF EndBatch
  <2>2. /\ OneCall(c) /\ call'[c].pc = "prepare" /\ call'[c].next = call[c].last + 1
        /\ call'[c].ctx = call[c].ctx /\ call'[c].count = call[c].count
        /\ call'[c].failed = call[c].failed /\ call'[c].outcome = call[c].outcome
    BY Zenon, <1>3, <2>1 DEF OneCall, CallFields
  <2>3. OneContext(x) /\ ring'[x] = Clean
    BY Zenon, <1>3, <1>4, <2>1 DEF OneContext
  <2>4. /\ call[c].count \in Nat /\ call[c].last \in 0 .. call[c].count /\ call[c].outcome = "none"
        /\ io \in {"aio", "uring"} /\ (io = "uring" => filled[c] \cup Indices(ring[x]) = 1 .. call[c].last)
    BY Zenon, <1>0, <1>1, <1>6 DEF Own
  <2>5. Indices(ring[x]) = {}
    BY Zenon, <1>2 DEF Indices, Numbers, Landed
  <2>6. call'[c].next \in 1 .. call'[c].count + 1 /\ call'[c].next - 1 = call[c].last
    BY <2>2, <2>4
  <2>7. io = "uring" => filled'[c] = 1 .. call'[c].next - 1
    BY Zenon, <1>0, <2>4, <2>5, <2>6
  <2>8. \A r \in ring'[x].inflight : r[1] = c
    BY Zenon, <2>3, CleanMembers
  <2>9. \A e \in ring'[x].done : e[1][1] = c
    BY Zenon, <2>3, CleanMembers
  <2>10. Own(io, c, call'[c], filled'[c], ring'[x])
    BY Zenon, <1>6, <2>2, <2>3, <2>4, <2>6, <2>7, <2>8, <2>9 DEF Own
  <2> QED BY Zenon, <1>0, <1>1, <1>3, <2>1, <2>2, <2>3, <2>10, CallGoesOn
<1> QED BY Zenon, <1>5, <1>6

(* Waiting fails. *)
LEMMA WaitFailsKeeps ==
  ASSUME ReadInv, NEW c \in Caller, WaitFails(c)
  PROVE  ReadInv'
<1>0. call[c].pc \in {"wait", "drain"} /\ UNCHANGED <<io, direct, filled, tasks>>
      /\ call[c].pc \notin {"idle", "issue"} /\ "thrown" # "true"
  BY Zenon DEF WaitFails
<1>1. CASE io # "uring"
  BY Zenon, <1>0, <1>1, LeaveClean DEF WaitFails
<1>2. CASE io = "uring"
  <2>1. PICK x \in Ctx : /\ call[c].ctx = {x} /\ Held(c) = x /\ where[x] = "held"
                         /\ Own(io, c, call[c], filled[c], ring[x])
    BY Zenon, <1>0, HeldOne
  <2>2. DOMAIN ring = Ctx /\ DOMAIN where = Ctx /\ DOMAIN call = Caller /\ DOMAIN call[c] = CallFields
        /\ IsRing(ring[x]) /\ DOMAIN filled = Caller
    BY Zenon DEF ReadInv, ReadTypes
  <2>3. call' = [call EXCEPT ![c].pc = "drain"] /\ UNCHANGED <<where, ring>>
    BY Zenon, <1>2 DEF WaitFails
  <2>4. /\ OneCall(c) /\ call'[c].pc = "drain" /\ call'[c].next = call[c].next
        /\ call'[c].ctx = call[c].ctx /\ call'[c].count = call[c].count /\ call'[c].outcome = call[c].outcome
    BY Zenon, <2>2, <2>3 DEF OneCall, CallFields
  <2>5. OneContext(x) /\ ring'[x] = ring[x]
    BY Zenon, <2>2, <2>3 DEF OneContext
  <2>6. io # "aio"
    BY Zenon, <1>2
  <2>7. Own(io, c, call'[c], filled'[c], ring'[x])
    BY Zenon, <2>1, <2>4, <2>5, <2>6 DEF Own
  <2> QED BY Zenon, <1>0, <2>1, <2>2, <2>3, <2>4, <2>5, <2>7, CallGoesOn
<1> QED BY Zenon, <1>1, <1>2

(* One completion taken while a failed batch is drained (UringIO::MultiReadImpl). *)
LEMMA DrainOneKeeps ==
  ASSUME ReadInv, NEW c \in Caller, DrainOne(c)
  PROVE  ReadInv'
<1>0. call[c].pc = "drain" /\ UNCHANGED <<io, direct, call, filled, tasks, where>>
  BY Zenon DEF DrainOne
<1>1. PICK x \in Ctx : /\ call[c].ctx = {x} /\ Held(c) = x /\ where[x] = "held"
                       /\ Own(io, c, call[c], filled[c], ring[x])
  BY Zenon, <1>0, HeldOne
<1>2. PICK e : ring' = [ring EXCEPT ![x].done = @ \ {e}]
  BY Zenon, <1>1 DEF DrainOne
<1>3. DOMAIN ring = Ctx /\ DOMAIN where = Ctx /\ DOMAIN call = Caller /\ DOMAIN call[c] = CallFields
      /\ IsRing(ring[x]) /\ DOMAIN filled = Caller
  BY Zenon DEF ReadInv, ReadTypes
<1>4. /\ ring'[x].prepared = ring[x].prepared /\ ring'[x].inflight = ring[x].inflight
      /\ ring'[x].done \subseteq ring[x].done /\ OneContext(x)
  BY Zenon, <1>0, <1>2, <1>3 DEF OneContext, IsRing, RingFields
<1>5. OneCall(c)
  BY Zenon, <1>0, <1>3 DEF OneCall
<1>6. Own(io, c, call'[c], filled'[c], ring'[x])
  BY Zenon, <1>0, <1>1, <1>4 DEF Own
<1> QED BY Zenon, <1>0, <1>1, <1>3, <1>4, <1>5, <1>6, CallGoesOn

(* A context that was not given all its reads, or cannot be waited on, is given up.  With reads   *)
(* under way that happens only where they do not use the caller's buffer.                     *)
LEMMA EndDrainKeeps ==
  ASSUME ~LateThrows, ReadInv, NEW c \in Caller, EndDrain(c)
  PROVE  ReadInv'
<1>0. call[c].pc = "drain" /\ UNCHANGED <<io, direct, filled, tasks>> /\ Leave(c, "thrown")
      /\ call[c].pc \notin {"idle", "issue"} /\ "thrown" # "true"
  BY Zenon DEF EndDrain
<1>1. PICK x \in Ctx : /\ call[c].ctx = {x} /\ Held(c) = x /\ where[x] = "held"
                       /\ Own(io, c, call[c], filled[c], ring[x])
  BY Zenon, <1>0, HeldOne
<1>2. CASE io = "uring"
  <2>1. OneContext(x) /\ where'[x] = "lost" /\ ring'[x] = ring[x]
    BY Zenon, <1>1, <1>2, ContextGoes DEF EndDrain, GiveUpContext
  <2>2. ~direct => ring[x].inflight = {}
    BY Zenon, <1>1 DEF EndDrain, AllReaped
  <2>3. ContextOK(where'[x], ring'[x], direct)
    BY Zenon, <2>1, <2>2 DEF ContextOK
  <2>4. tasks = {}
    BY Zenon, <1>0, NoCallbacks
  <2> QED BY Zenon, <1>0, <1>1, <2>1, <2>3, <2>4, CallEnds
<1>3. CASE io # "uring"
  <2>1. io = "aio"
    BY Zenon, <1>1, <1>3 DEF Own
  <2>2. ring[x].prepared = {} /\ ring[x].inflight = {} /\ ring[x].done = {} /\ ReturnOne(c)
    BY Zenon, <1>0, <1>1, <1>3, <2>1 DEF AllReaped, Own, EndDrain, GiveUpContext
  <2>3. ring[x] = Clean
    BY Zenon, <2>2, CleanByMembers DEF ReadInv, ReadTypes
  <2> QED BY Zenon, <1>0, <1>1, <2>2, <2>3, LeaveClean
<1> QED BY Zenon, <1>2, <1>3

(* The last batch is over. *)
LEMMA ReturnTrueKeeps ==
  ASSUME ReadInv, NEW c \in Caller, ReturnTrue(c)
  PROVE  ReadInv'
<1>0. call[c].pc = "prepare" /\ UNCHANGED <<io, direct, filled, tasks>> /\ Leave(c, "true")
      /\ call[c].pc \notin {"idle", "issue"} /\ ReturnOne(c)
  BY Zenon DEF ReturnTrue
<1>1. PICK x \in Ctx : /\ call[c].ctx = {x} /\ Held(c) = x /\ where[x] = "held"
                       /\ Own(io, c, call[c], filled[c], ring[x])
  BY Zenon, <1>0, HeldOne
<1>2. ring[x] = Clean /\ call[c].count \in Nat /\ call[c].next \in 1 .. call[c].count + 1
      /\ (io # "aio" => filled[c] = 1 .. call[c].next - 1)
  BY Zenon, <1>0, <1>1 DEF Own
<1>3. call[c].next > call[c].count
  BY Zenon DEF ReturnTrue
<1>4. call[c].next - 1 = call[c].count
  BY <1>2, <1>3
<1> QED BY Zenon, <1>0, <1>1, <1>2, <1>4, LeaveClean

-----------------------------------------------------------------------------
(* The kernel ends a read. *)
LEMMA CompleteKeeps ==
  ASSUME ReadInv, NEW x \in Ctx, NEW r, NEW ok, Complete(x, r, ok)
  PROVE  ReadInv'
<1>0. r \in ring[x].inflight /\ UNCHANGED <<io, direct, call, filled, tasks, where>>
      /\ ring' = [ring EXCEPT ![x].inflight = @ \ {r}, ![x].done = @ \cup {<<r, ok>>}]
  BY Zenon DEF Complete
<1>1. DOMAIN ring = Ctx /\ IsRing(ring[x]) /\ ReadTypes
  BY Zenon DEF ReadInv, ReadTypes
<1>2. /\ ring'[x].prepared = ring[x].prepared /\ ring'[x].inflight = ring[x].inflight \ {r}
      /\ ring'[x].done = ring[x].done \cup {<<r, ok>>} /\ IsRing(ring'[x])
      /\ DOMAIN ring' = Ctx /\ \A y \in Ctx \ {x} : ring'[y] = ring[y]
  BY Zenon, <1>0, <1>1 DEF IsRing, RingFields
<1>3. ReadTypes'
  BY Zenon, <1>0, <1>1, <1>2 DEF ReadTypes
<1>4. \A y \in Ctx : ContextOK(where'[y], ring'[y], direct')
  <2>1. ContextOK(where[x], ring[x], direct) /\ ring[x] # Clean
    BY Zenon, <1>0, CleanMembers DEF ReadInv
  <2>2. ContextOK(where'[x], ring'[x], direct')
    BY Zenon, <1>0, <1>2, <2>1 DEF ContextOK
  <2> QED BY Zenon, <1>0, <1>2, <2>2 DEF ReadInv
<1>5. Indices(ring'[x]) = Indices(ring[x])
  <2>1. PICK R, S : R = ring[x] /\ S = ring'[x]
    BY Zenon
  <2>2. /\ r \in R.inflight /\ S.inflight = R.inflight \ {r} /\ S.done = R.done \cup {<<r, ok>>}
    BY Zenon, <1>0, <1>2, <2>1
  <2>3. Indices(S) = Indices(R)
    BY Zenon, <2>2, LandedMoved
  <2> QED BY Zenon, <2>1, <2>3
<1>6. ASSUME NEW c \in Caller, Own(io, c, call[c], filled[c], ring[x])
      PROVE  Own(io, c, call[c], filled[c], ring'[x])
  <2>1. ring[x] # Clean /\ ring[x].inflight # {}
    BY Zenon, <1>0, CleanMembers
  <2>2. \A e \in ring'[x].done : e[1][1] = c
    <3>0. PICK e : e = <<r, ok>>
      BY Zenon
    <3>1. e = <<r, ok>> /\ e[1] = r
      BY Zenon, <3>0
    <3>2. r[1] = c
      BY Zenon, <1>0, <1>6 DEF Own
    <3>3. e[1][1] = c
      BY Zenon, <3>1, <3>2
    <3> QED BY Zenon, <1>2, <1>6, <3>1, <3>3 DEF Own
  <2>3. \A s \in ring'[x].inflight : s[1] = c
    BY Zenon, <1>2, <1>6 DEF Own
  <2> QED BY Zenon, <1>2, <1>5, <1>6, <2>1, <2>2, <2>3 DEF Own
<1>7. ASSUME NEW c \in Caller PROVE CallOK(io', c, call'[c], filled'[c], Pending(c, tasks'), where', ring')
  <2>1. CallOK(io, c, call[c], filled[c], Pending(c, tasks), where, ring)
    BY Zenon DEF ReadInv
  <2>2. ASSUME NEW y \in Ctx, call[c].ctx = {y}, where[y] = "held", Own(io, c, call[c], filled[c], ring[y])
        PROVE  Own(io, c, call[c], filled[c], ring'[y])
    BY Zenon, <1>2, <1>6, <2>2
  <2> QED BY Zenon, <1>0, <2>1, <2>2 DEF CallOK
<1>8. \A d, e \in Caller : d # e => call'[d].ctx \cap call'[e].ctx = {}
  BY Zenon, <1>0 DEF ReadInv
<1> QED BY Zenon, <1>0, <1>3, <1>4, <1>7, <1>8 DEF ReadInv

-----------------------------------------------------------------------------
(* A step of one caller, that may take contexts Z nobody holds. *)
LEMMA CallerSteps ==
  ASSUME ReadInv, NEW c \in Caller, OneCall(c), UNCHANGED <<io, direct, ring>>, DOMAIN where' = Ctx,
         DOMAIN filled' = Caller, \A d \in Caller \ {c} : filled'[d] = filled[d],
         tasks' \subseteq Request, io # "pool_reader" => tasks' = {},
         \A d \in Caller \ {c} : Pending(d, tasks') = Pending(d, tasks),
         NEW Z, \A y \in Z : where[y] # "held", \A y \in Ctx \ Z : where'[y] = where[y],
         \A y \in Ctx \cap Z : ContextOK(where'[y], ring[y], direct),
         call'[c].ctx \subseteq Z,
         CallOK(io, c, call'[c], filled'[c], Pending(c, tasks'), where', ring)
  PROVE  ReadInv'
<1>1. ReadTypes'
  BY Zenon DEF ReadInv, ReadTypes, OneCall
<1>2. \A y \in Ctx : ContextOK(where'[y], ring'[y], direct')
  <2>1. ASSUME NEW y \in Ctx PROVE ContextOK(where'[y], ring'[y], direct')
    <3>1. ContextOK(where[y], ring[y], direct) /\ ring' = ring /\ direct' = direct
      BY Zenon DEF ReadInv
    <3>2. CASE y \in Z
      BY Zenon, <3>1, <3>2
    <3>3. CASE y \notin Z
      BY Zenon, <3>1, <3>3
    <3> QED BY Zenon, <3>2, <3>3
  <2> QED BY Zenon, <2>1
<1>3. \A d \in Caller : call[d].ctx \cap Z = {}
  <2>1. ASSUME NEW d \in Caller PROVE call[d].ctx \cap Z = {}
    <3>1. CallOK(io, d, call[d], filled[d], Pending(d, tasks), where, ring)
      BY Zenon DEF ReadInv
    <3>2. call[d].ctx = {} \/ \E x \in Ctx : call[d].ctx = {x} /\ where[x] = "held"
      BY Zenon, <3>1 DEF CallOK, Rests, Asks
    <3> QED BY Zenon, <3>2
  <2> QED BY Zenon, <2>1
<1>4. \A d \in Caller \ {c} : call'[d] = call[d]
  BY Zenon DEF OneCall
<1>5. \A d, e \in Caller : d # e => call'[d].ctx \cap call'[e].ctx = {}
  <2>1. ASSUME NEW d \in Caller, NEW e \in Caller, d # e PROVE call'[d].ctx \cap call'[e].ctx = {}
    <3>0. call[d].ctx \cap call[e].ctx = {}
      BY Zenon, <2>1 DEF ReadInv
    <3>1. CASE d = c
      BY Zenon, <1>3, <1>4, <2>1, <3>1
    <3>2. CASE e = c
      BY Zenon, <1>3, <1>4, <2>1, <3>2
    <3>3. CASE d # c /\ e # c
      BY Zenon, <1>4, <3>0, <3>3
    <3> QED BY Zenon, <3>1, <3>2, <3>3
  <2> QED BY Zenon, <2>1
<1>6. \A d \in Caller \ {c} : CallOK(io', d, call'[d], filled'[d], Pending(d, tasks'), where', ring')
  <2>1. \A y \in Z : y \in call[c].ctx \/ where[y] # "held"
    BY Zenon
  <2>2. \A y \in Ctx \ Z : where'[y] = where[y] /\ ring'[y] = ring[y]
    BY Zenon
  <2>3. \A d \in Caller \ {c} : /\ call'[d] = call[d] /\ filled'[d] = filled[d]
                                  /\ Pending(d, tasks') = Pending(d, tasks)
    BY Zenon, <1>4
  <2>4. io' = io
    BY Zenon
  <2> QED BY Zenon, <2>1, <2>2, <2>3, <2>4, OthersKeep
<1>7. CallOK(io', c, call'[c], filled'[c], Pending(c, tasks'), where', ring')
  BY Zenon
<1> QED BY Zenon, <1>1, <1>2, <1>5, <1>6, <1>7 DEF ReadInv

(* The same, for a step that takes no context. *)
LEMMA CallerStays ==
  ASSUME ReadInv, NEW c \in Caller, OneCall(c), UNCHANGED <<io, direct, where, ring>>,
         DOMAIN filled' = Caller, \A d \in Caller \ {c} : filled'[d] = filled[d],
         tasks' \subseteq Request, io # "pool_reader" => tasks' = {},
         \A d \in Caller \ {c} : Pending(d, tasks') = Pending(d, tasks), call'[c].ctx = {},
         CallOK(io, c, call'[c], filled'[c], Pending(c, tasks'), where, ring)
  PROVE  ReadInv'
<1>1. PICK Z : Z = {}
  BY Zenon
<1>2. /\ \A y \in Z : where[y] # "held"
      /\ \A y \in Ctx \ Z : where'[y] = where[y]
      /\ \A y \in Ctx \cap Z : ContextOK(where'[y], ring[y], direct)
      /\ call'[c].ctx \subseteq Z
  BY Zenon, <1>1
<1>3. DOMAIN where' = Ctx /\ where' = where
  BY Zenon DEF ReadInv, ReadTypes
<1>4. CallOK(io, c, call'[c], filled'[c], Pending(c, tasks'), where', ring)
  BY Zenon, <1>3
<1> QED BY Zenon, <1>2, <1>3, <1>4, CallerSteps

(* A thread outside of MultiRead has nothing to come; one that issues reads counts them. *)
LEMMA IdleCaller ==
  ASSUME ReadInv, NEW c \in Caller, call[c].pc = "idle"
  PROVE  Pending(c, tasks) = {}
<1>1. CallOK(io, c, call[c], filled[c], Pending(c, tasks), where, ring)
  BY Zenon DEF ReadInv
<1> QED BY Zenon, <1>1 DEF CallOK, Asks, Own

(* A caller that issues its reads has every one of them pending or filled. *)
LEMMA IssuingCaller ==
  ASSUME ReadInv, NEW c \in Caller, call[c].pc = "issue"
  PROVE  Asks(io, c, call[c], filled[c], Pending(c, tasks))
<1>1. CallOK(io, c, call[c], filled[c], Pending(c, tasks), where, ring)
  BY Zenon DEF ReadInv
<1> QED BY Zenon, <1>1 DEF CallOK, Rests, Own

(* The reads of a call that are pending are among those it asked for. *)
LEMMA PendingFinite ==
  ASSUME NEW c \in Caller, NEW T
  PROVE  IsFiniteSet(Pending(c, T)) /\ Pending(c, T) \subseteq 1 .. MaxReads[c]
<1>1. MaxReads[c] \in Int /\ 1 \in Int
  BY BatchReadAssumption
<1>2. IsFiniteSet(1 .. MaxReads[c])
  BY <1>1, FS_Interval
<1>3. Pending(c, T) \subseteq 1 .. MaxReads[c]
  BY Zenon DEF Pending
<1> QED BY Zenon, <1>2, <1>3, FS_Subset

(* Entering Reader::MultiRead. *)
LEMMA EnterReaderKeeps ==
  ASSUME ReadInv, NEW c \in Caller, NEW n \in 0 .. MaxReads[c], EnterReader(c, n)
  PROVE  ReadInv'
<1>0. /\ io \in {"pool_reader", "func_reader"} /\ call[c].pc = "idle" /\ n > 0
      /\ call' = [call EXCEPT ![c] = Entered(c, n, "issue")] /\ filled' = [filled EXCEPT ![c] = {}]
      /\ UNCHANGED <<io, direct, tasks, where, ring>>
  BY Zenon DEF EnterReader, IsReader, MayCall
<1>1. /\ DOMAIN call = Caller /\ DOMAIN filled = Caller /\ DOMAIN where = Ctx /\ tasks \subseteq Request
      /\ (io # "pool_reader" => tasks = {})
  BY Zenon DEF ReadInv, ReadTypes
<1>2. HasEntered(call'[c], n, "issue") /\ \A d \in Caller \ {c} : call'[d] = call[d]
  <2>1. call'[c] = Entered(c, n, "issue") /\ \A d \in Caller \ {c} : call'[d] = call[d]
    BY Zenon, <1>0, <1>1
  <2> QED BY Zenon, <2>1, EnteredMembers
<1>3. OneCall(c)
  BY Zenon, <1>0, <1>1, <1>2 DEF OneCall, HasEntered
<1>4. Pending(c, tasks') = {} /\ filled'[c] = {} /\ DOMAIN filled' = Caller
      /\ \A d \in Caller \ {c} : filled'[d] = filled[d]
  BY Zenon, <1>0, <1>1, IdleCaller
<1>5. Asks(io, c, call'[c], filled'[c], Pending(c, tasks'))
  <2>1. n \in Nat
    BY BatchReadAssumption
  <2>2. /\ call'[c].pc = "issue" /\ call'[c].outcome = "none" /\ call'[c].ctx = {} /\ call'[c].count = n
        /\ call'[c].next = 1 /\ call'[c].left = n
    BY Zenon, <1>2 DEF HasEntered
  <2>3. Cardinality({}) = 0
    BY Zenon, FS_EmptySet
  <2>4. call'[c].next \in 1 .. call'[c].count + 1
    BY <2>1, <2>2
  <2>5. call'[c].left = call'[c].count - call'[c].next + 1 + Cardinality(Pending(c, tasks'))
    BY SMTT(30), <1>4, <2>1, <2>2, <2>3
  <2>6. filled'[c] = (1 .. call'[c].next - 1) \ Pending(c, tasks')
    BY <1>4, <2>2
  <2>7. call'[c].count \in 0 .. MaxReads[c]
    BY Zenon, <2>2
  <2> QED BY Zenon, <1>0, <1>4, <2>2, <2>4, <2>5, <2>6, <2>7 DEF Asks
<1>6. CallOK(io, c, call'[c], filled'[c], Pending(c, tasks'), where, ring)
  BY Zenon, <1>5 DEF CallOK
<1>7. call'[c].ctx = {}
  BY Zenon, <1>2 DEF HasEntered
<1>8. /\ tasks' = tasks /\ \A d \in Caller \ {c} : Pending(d, tasks') = Pending(d, tasks)
      /\ tasks' \subseteq Request /\ (io # "pool_reader" => tasks' = {})
      /\ UNCHANGED <<io, direct, where, ring>>
  BY Zenon, <1>0, <1>1
<1> QED BY Zenon, <1>3, <1>4, <1>6, <1>7, <1>8, CallerStays

(* A read is given to AsyncRead. *)
LEMMA IssueKeeps ==
  ASSUME ReadInv, NEW c \in Caller, Issue(c)
  PROVE  ReadInv'
<1>0. PICK i : i = call[c].next
  BY Zenon
<1>1. call[c].pc = "issue" /\ i <= call[c].count /\ UNCHANGED <<io, direct, where, ring>>
  BY Zenon, <1>0 DEF Issue
<1>2. /\ DOMAIN call = Caller /\ DOMAIN filled = Caller /\ DOMAIN call[c] = CallFields
      /\ tasks \subseteq Request /\ (io # "pool_reader" => tasks = {})
  BY Zenon DEF ReadInv, ReadTypes
<1>3. PICK P : P = Pending(c, tasks)
  BY Zenon
<1>4. /\ io \in {"pool_reader", "func_reader"} /\ call[c].outcome = "none" /\ call[c].ctx = {}
      /\ call[c].count \in 0 .. MaxReads[c] /\ i \in 1 .. call[c].count + 1
      /\ (\A j \in P : j < i) /\ call[c].left = call[c].count - i + 1 + Cardinality(P)
      /\ (~call[c].failed => filled[c] = (1 .. i - 1) \ P)
  BY Zenon, <1>0, <1>1, <1>3, IssuingCaller DEF Asks
<1>5. MaxReads[c] \in Nat
  BY BatchReadAssumption
<1>6. IsFiniteSet(P) /\ P \subseteq 1 .. MaxReads[c]
  BY Zenon, <1>3, PendingFinite
<1>7. i \in Nat /\ call[c].count \in Nat /\ i \in 1 .. MaxReads[c] /\ i + 1 \in 1 .. call[c].count + 1
      /\ i + 1 - 1 = i /\ i \notin P
  BY <1>1, <1>4, <1>5
<1>8. CASE io = "pool_reader"
  <2>0. UNCHANGED filled /\ tasks' = tasks \cup {<<c, i>>} /\ call' = [call EXCEPT ![c].next = i + 1]
    BY Zenon, <1>0, <1>8 DEF Issue
  <2>1. /\ OneCall(c) /\ call'[c].pc = "issue" /\ call'[c].outcome = "none" /\ call'[c].ctx = {}
        /\ call'[c].count = call[c].count /\ call'[c].next = i + 1 /\ call'[c].left = call[c].left
        /\ call'[c].failed = call[c].failed
    BY Zenon, <1>1, <1>2, <1>4, <2>0 DEF OneCall, CallFields
  <2>2. Pending(c, tasks') = P \cup {i}
    <3>1. \A j : <<c, j>> \in tasks' <=> <<c, j>> \in tasks \/ j = i
      BY Zenon, <2>0
    <3> QED BY Zenon, <1>3, <1>7, <3>1 DEF Pending
  <2>3. ASSUME NEW d \in Caller \ {c} PROVE Pending(d, tasks') = Pending(d, tasks)
    <3>1. \A j : <<d, j>> \in tasks' <=> <<d, j>> \in tasks
      BY Zenon, <2>0, <2>3
    <3> QED BY Zenon, <3>1 DEF Pending
  <2>4. tasks' \subseteq Request
    <3>1. <<c, i>> \in {c} \X (1 .. MaxReads[c])
      BY Zenon, <1>7
    <3>2. <<c, i>> \in Request
      BY Zenon, <3>1 DEF Request
    <3> QED BY Zenon, <1>2, <2>0, <3>2
  <2>5. Cardinality(P \cup {i}) = Cardinality(P) + 1 /\ Cardinality(P) \in Nat
    <3>1. Cardinality(P \cup {i}) = IF i \in P THEN Cardinality(P) ELSE Cardinality(P) + 1
      BY Zenon, <1>6, FS_AddElement
    <3>2. Cardinality(P) \in Nat
      BY Zenon, <1>6, FS_CardinalityType
    <3> QED BY Zenon, <1>7, <3>1, <3>2
  <2>6. call'[c].left = call'[c].count - call'[c].next + 1 + Cardinality(P \cup {i})
    BY <1>4, <1>7, <2>1, <2>5
  <2>7. ~call'[c].failed => filled'[c] = (1 .. call'[c].next - 1) \ (P \cup {i})
    <3>1. (1 .. i - 1) \ P = (1 .. i) \ (P \cup {i})
      BY <1>7
    <3>2. filled'[c] = filled[c]
      BY Zenon, <2>0
    <3>3. call'[c].next - 1 = i
      BY SMTT(30), <1>7, <2>1
    <3> QED BY Zenon, <1>4, <2>1, <3>1, <3>2, <3>3
  <2>8. \A j \in P \cup {i} : j < call'[c].next
    BY <1>4, <1>5, <1>6, <1>7, <2>1
  <2>9. call'[c].next \in 1 .. call'[c].count + 1 /\ call'[c].count \in 0 .. MaxReads[c]
    BY Zenon, <1>4, <1>7, <2>1
  <2>10. Asks(io, c, call'[c], filled'[c], Pending(c, tasks'))
    BY Zenon, <1>4, <2>1, <2>2, <2>6, <2>7, <2>8, <2>9 DEF Asks
  <2>11. CallOK(io, c, call'[c], filled'[c], Pending(c, tasks'), where, ring)
    BY Zenon, <2>10 DEF CallOK
  <2>12. io # "pool_reader" => tasks' = {}
    BY Zenon, <1>8
  <2>13. DOMAIN filled' = Caller /\ \A d \in Caller \ {c} : filled'[d] = filled[d]
    BY Zenon, <1>2, <2>0
  <2> QED BY Zenon, <1>1, <2>1, <2>3, <2>4, <2>11, <2>12, <2>13, CallerStays
<1>9. CASE io = "func_reader"
  <2>0. PICK ok \in BOOLEAN :
          /\ filled' = [filled EXCEPT ![c] = IF ok THEN @ \cup {i} ELSE @] /\ UNCHANGED tasks
          /\ call' = [call EXCEPT ![c].next = i + 1, ![c].left = @ - 1, ![c].failed = @ \/ ~ok]
    BY Zenon, <1>0, <1>9 DEF Issue
  <2>1. /\ OneCall(c) /\ call'[c].pc = "issue" /\ call'[c].outcome = "none" /\ call'[c].ctx = {}
        /\ call'[c].count = call[c].count /\ call'[c].next = i + 1 /\ call'[c].left = call[c].left - 1
        /\ (~call'[c].failed => ~call[c].failed /\ ok)
    BY Zenon, <1>1, <1>2, <1>4, <2>0 DEF OneCall, CallFields
  <2>2. io # "pool_reader" /\ tasks' = {} /\ tasks' = tasks
    BY Zenon, <1>2, <1>9, <2>0
  <2>3. P = {} /\ Pending(c, tasks') = P
    BY Zenon, <1>3, <2>2 DEF Pending
  <2>4. /\ DOMAIN filled' = Caller /\ (\A d \in Caller \ {c} : filled'[d] = filled[d])
        /\ (ok => filled'[c] = filled[c] \cup {i})
    BY Zenon, <1>2, <2>0
  <2>5. Cardinality({}) = 0
    BY ZenonT(40), FS_EmptySet
  <2>6. call'[c].left = call'[c].count - call'[c].next + 1 + Cardinality(P)
    BY <1>4, <1>7, <2>1, <2>3, <2>5
  <2>7. ~call'[c].failed => filled'[c] = (1 .. call'[c].next - 1) \ P
    <3>1. (1 .. i - 1) \cup {i} = 1 .. i
      BY <1>7
    <3>2. (1 .. i - 1) \ P = 1 .. i - 1 /\ (1 .. i) \ P = 1 .. i
      BY Zenon, <2>3
    <3>3. ASSUME ~call'[c].failed PROVE filled'[c] = 1 .. i
      BY Zenon, <1>4, <2>1, <2>4, <3>1, <3>2, <3>3
    <3>4. call'[c].next - 1 = i
      BY <1>7, <2>1
    <3> QED BY Zenon, <3>2, <3>3, <3>4
  <2>8. \A j \in P : j < call'[c].next
    BY Zenon, <2>3
  <2>9. call'[c].next \in 1 .. call'[c].count + 1 /\ call'[c].count \in 0 .. MaxReads[c]
    BY Zenon, <1>4, <1>7, <2>1
  <2>10. Asks(io, c, call'[c], filled'[c], Pending(c, tasks'))
    BY Zenon, <1>4, <2>1, <2>3, <2>6, <2>7, <2>8, <2>9 DEF Asks
  <2>11. CallOK(io, c, call'[c], filled'[c], Pending(c, tasks'), where, ring)
    BY Zenon, <2>10 DEF CallOK
  <2>12. tasks' \subseteq Request /\ \A d \in Caller \ {c} : Pending(d, tasks') = Pending(d, tasks)
    BY Zenon, <2>2
  <2> QED BY Zenon, <1>1, <2>1, <2>2, <2>4, <2>11, <2>12, CallerStays
<1> QED BY Zenon, <1>4, <1>8, <1>9

(* A call of Reader::MultiRead that is left with no callback to come. *)
LEMMA LeaveReader ==
  ASSUME ReadInv, NEW c \in Caller, NEW o, Leave(c, o), Pending(c, tasks) = {},
         UNCHANGED <<io, direct, filled, tasks, where, ring>>,
         o = "true" => filled[c] = 1 .. call[c].count
  PROVE  ReadInv'
<1>1. /\ DOMAIN call = Caller /\ DOMAIN filled = Caller
      /\ tasks \subseteq Request /\ (io # "pool_reader" => tasks = {})
  BY Zenon DEF ReadInv, ReadTypes
<1>2. call'[c] = Ended(c, o) /\ DOMAIN call' = Caller /\ \A d \in Caller \ {c} : call'[d] = call[d]
  BY Zenon, <1>1 DEF Leave
<1>3. HasEnded(call'[c], c, o)
  BY Zenon, <1>2, EndedMembers
<1>4. OneCall(c) /\ call'[c].ctx = {} /\ call'[c].pc = "idle" /\ call'[c].outcome = o
      /\ call'[c].count = call[c].count
  BY Zenon, <1>2, <1>3 DEF OneCall, HasEnded
<1>5. Rests(io, call'[c], filled'[c])
  BY Zenon, <1>4 DEF Rests
<1>6. /\ UNCHANGED <<io, direct, where, ring>> /\ DOMAIN filled' = Caller
      /\ (\A d \in Caller \ {c} : filled'[d] = filled[d]) /\ tasks' \subseteq Request
      /\ (io # "pool_reader" => tasks' = {}) /\ Pending(c, tasks') = {}
      /\ \A d \in Caller \ {c} : Pending(d, tasks') = Pending(d, tasks)
  BY Zenon, <1>1
<1>7. CallOK(io, c, call'[c], filled'[c], Pending(c, tasks'), where, ring)
  BY Zenon, <1>5, <1>6 DEF CallOK
<1> QED BY Zenon, <1>4, <1>6, <1>7, CallerStays

(* An exception for a range out of bounds, before a callback can be to come. *)
LEMMA IssueThrowsKeeps ==
  ASSUME ReadInv, NEW c \in Caller, IssueThrows(c), ~LateThrows
  PROVE  ReadInv'
<1>0. /\ call[c].pc = "issue" /\ Leave(c, "thrown") /\ (io = "func_reader" \/ call[c].next = 1)
      /\ UNCHANGED <<io, direct, filled, tasks, where, ring>>
  BY Zenon DEF IssueThrows
<1>1. Pending(c, tasks) = {}
  <2>1. CASE io = "func_reader"
    <3>1. io # "pool_reader"
      BY Zenon, <2>1
    <3>2. tasks = {}
      BY Zenon, <3>1 DEF ReadInv
    <3> QED BY Zenon, <3>2 DEF Pending
  <2>2. CASE call[c].next = 1
    <3>1. \A i \in Pending(c, tasks) : i < 1
      BY Zenon, <1>0, <2>2, IssuingCaller DEF Asks
    <3>2. Pending(c, tasks) \subseteq 1 .. MaxReads[c]
      BY Zenon, PendingFinite
    <3>3. MaxReads[c] \in Nat
      BY BatchReadAssumption
    <3> QED BY <3>1, <3>2, <3>3
  <2> QED BY Zenon, <1>0, <2>1, <2>2
<1>2. "thrown" # "true"
  BY Zenon
<1> QED BY Zenon, <1>0, <1>1, <1>2, LeaveReader

(* The future is ready. *)
LEMMA AwaitReadsKeeps ==
  ASSUME ReadInv, NEW c \in Caller, AwaitReads(c)
  PROVE  ReadInv'
<1>0. PICK o : o = IF call[c].failed THEN "false" ELSE "true"
  BY Zenon
<1>1. /\ call[c].pc = "issue" /\ call[c].next > call[c].count /\ call[c].left = 0 /\ Leave(c, o)
      /\ UNCHANGED <<io, direct, filled, tasks, where, ring>>
  BY Zenon, <1>0 DEF AwaitReads, PromiseIsSet
<1>2. PICK P : P = Pending(c, tasks)
  BY Zenon
<1>3. /\ call[c].count \in 0 .. MaxReads[c] /\ call[c].next \in 1 .. call[c].count + 1
      /\ call[c].left = call[c].count - call[c].next + 1 + Cardinality(P)
      /\ (~call[c].failed => filled[c] = (1 .. call[c].next - 1) \ P)
  BY Zenon, <1>1, <1>2, IssuingCaller DEF Asks
<1>4. IsFiniteSet(P)
  BY Zenon, <1>2, PendingFinite
<1>5. Cardinality(P) \in Nat
  BY Zenon, <1>4, FS_CardinalityType
<1>6. MaxReads[c] \in Nat
  BY BatchReadAssumption
<1>7. call[c].next - 1 = call[c].count /\ Cardinality(P) = 0
  <2>1. call[c].count \in Nat /\ call[c].next \in 1 .. call[c].count + 1
    BY SMTT(30), <1>3, <1>6
  <2>2. call[c].next - 1 = call[c].count
    BY <1>1, <2>1
  <2>3. 0 = call[c].count - call[c].next + 1 + Cardinality(P)
    BY Zenon, <1>1, <1>3
  <2> QED BY SMTT(30), <1>5, <2>1, <2>2, <2>3
<1>8. P = {}
  BY Zenon, <1>4, <1>7, FS_EmptySet
<1>9. o = "true" => ~call[c].failed
  BY Zenon, <1>0
<1>10. (1 .. call[c].count) \ P = 1 .. call[c].count
  BY Zenon, <1>8
<1>11. o = "true" => filled[c] = 1 .. call[c].count
  BY Zenon, <1>3, <1>7, <1>9, <1>10
<1> QED BY Zenon, <1>1, <1>2, <1>8, <1>11, LeaveReader

(* A worker of the reader's pool calls back. *)
LEMMA CallbackKeeps ==
  ASSUME ReadInv, NEW r \in Request, NEW ok, Callback(r, ok)
  PROVE  ReadInv'
<1>0. PICK c \in Caller, i \in 1 .. MaxReads[r[1]] : r = <<c, i>> /\ r[1] = c /\ r[2] = i
  <2>1. PICK c \in Caller : r \in {c} \X (1 .. MaxReads[c])
    BY Zenon DEF Request
  <2>2. PICK i \in 1 .. MaxReads[c] : r = <<c, i>>
    BY <2>1
  <2>3. r[1] = c /\ r[2] = i
    BY Zenon, <2>2
  <2> QED BY Zenon, <2>2, <2>3
<1>1. /\ r \in tasks /\ tasks' = tasks \ {r}
      /\ filled' = [filled EXCEPT ![c] = IF ok THEN @ \cup {i} ELSE @]
      /\ call' = [call EXCEPT ![c].left = @ - 1, ![c].failed = @ \/ ~ok]
      /\ UNCHANGED <<io, direct, where, ring>>
  BY Zenon, <1>0 DEF Callback
<1>2. /\ DOMAIN call = Caller /\ DOMAIN filled = Caller /\ DOMAIN call[c] = CallFields
      /\ tasks \subseteq Request /\ (io # "pool_reader" => tasks = {})
  BY Zenon DEF ReadInv, ReadTypes
<1>3. PICK P : P = Pending(c, tasks)
  BY Zenon
<1>4. i \in P /\ i \in 1 .. MaxReads[c]
  BY Zenon, <1>0, <1>1, <1>3 DEF Pending
<1>5. Asks(io, c, call[c], filled[c], P)
  <2>1. CallOK(io, c, call[c], filled[c], P, where, ring)
    BY Zenon, <1>3 DEF ReadInv
  <2>2. io \notin {"aio", "uring"}
    BY Zenon, <1>1, <1>2
  <2> QED BY Zenon, <1>4, <2>1, <2>2 DEF CallOK, Own
<1>6. /\ io \in {"pool_reader", "func_reader"} /\ call[c].pc = "issue" /\ call[c].outcome = "none"
      /\ call[c].ctx = {} /\ call[c].count \in 0 .. MaxReads[c] /\ call[c].next \in 1 .. call[c].count + 1
      /\ (\A j \in P : j < call[c].next) /\ call[c].left = call[c].count - call[c].next + 1 + Cardinality(P)
      /\ (~call[c].failed => filled[c] = (1 .. call[c].next - 1) \ P)
  BY Zenon, <1>5 DEF Asks
<1>7. /\ OneCall(c) /\ call'[c].pc = "issue" /\ call'[c].outcome = "none" /\ call'[c].ctx = {}
      /\ call'[c].count = call[c].count /\ call'[c].next = call[c].next /\ call'[c].left = call[c].left - 1
      /\ (~call'[c].failed => ~call[c].failed /\ ok)
  BY Zenon, <1>1, <1>2, <1>6 DEF OneCall, CallFields
<1>8. Pending(c, tasks') = P \ {i}
  <2>1. \A j : <<c, j>> \in tasks' <=> <<c, j>> \in tasks /\ j # i
    BY Zenon, <1>0, <1>1
  <2> QED BY Zenon, <1>3, <2>1 DEF Pending
<1>9. ASSUME NEW d \in Caller \ {c} PROVE Pending(d, tasks') = Pending(d, tasks)
  <2>1. \A j : <<d, j>> \in tasks' <=> <<d, j>> \in tasks
    BY Zenon, <1>0, <1>1, <1>9
  <2> QED BY Zenon, <2>1 DEF Pending
<1>10. IsFiniteSet(P) /\ Cardinality(P) \in Nat
  BY Zenon, <1>3, PendingFinite, FS_CardinalityType
<1>11. Cardinality(P \ {i}) = Cardinality(P) - 1
  <2>1. Cardinality(P \ {i}) = IF i \in P THEN Cardinality(P) - 1 ELSE Cardinality(P)
    BY Zenon, <1>10, FS_RemoveElement
  <2> QED BY Zenon, <1>4, <2>1
<1>12. MaxReads[c] \in Nat
  BY SMTT(30), BatchReadAssumption
<1>13. call'[c].left = call'[c].count - call'[c].next + 1 + Cardinality(P \ {i})
  <2>1. call[c].count \in Int /\ call[c].next \in Int
    BY <1>6, <1>12
  <2> QED BY SMTT(30), <1>6, <1>7, <1>10, <1>11, <2>1
<1>14. /\ DOMAIN filled' = Caller /\ (\A d \in Caller \ {c} : filled'[d] = filled[d])
       /\ (ok => filled'[c] = filled[c] \cup {i})
  BY Zenon, <1>1, <1>2
<1>15. ~call'[c].failed => filled'[c] = (1 .. call'[c].next - 1) \ (P \ {i})
  <2>1. i \in 1 .. call[c].next - 1
    BY <1>4, <1>6, <1>12
  <2>2. ((1 .. call[c].next - 1) \ P) \cup {i} = (1 .. call[c].next - 1) \ (P \ {i})
    BY Zenon, <1>4, <2>1
  <2> QED BY Zenon, <1>6, <1>7, <1>14, <2>2
<1>16. \A j \in P \ {i} : j < call'[c].next
  BY Zenon, <1>6, <1>7
<1>17. Asks(io, c, call'[c], filled'[c], Pending(c, tasks'))
  BY Zenon, <1>6, <1>7, <1>8, <1>13, <1>15, <1>16 DEF Asks
<1>18. CallOK(io, c, call'[c], filled'[c], Pending(c, tasks'), where, ring)
  BY Zenon, <1>17 DEF CallOK
<1>19. tasks' \subseteq Request /\ (io # "pool_reader" => tasks' = {})
  BY Zenon, <1>1, <1>2
<1> QED BY Zenon, <1>1, <1>7, <1>9, <1>14, <1>18, <1>19, CallerStays

-----------------------------------------------------------------------------
(* Entering the kernel's MultiReads: with a context of the pool or a new one, or without. *)
LEMMA TakeOneKeeps ==
  ASSUME ReadInv, NEW c \in Caller, NEW n \in Nat, NEW x \in Ctx, IsKernel, call[c].pc = "idle",
         TakeOne(c, n, x), filled' = [filled EXCEPT ![c] = {}], UNCHANGED <<io, direct, tasks, ring>>
  PROVE  ReadInv'
<1>0. /\ DOMAIN call = Caller /\ DOMAIN filled = Caller /\ DOMAIN where = Ctx
      /\ tasks \subseteq Request /\ (io # "pool_reader" => tasks = {}) /\ io \in {"aio", "uring"}
  BY Zenon DEF ReadInv, ReadTypes, IsKernel
<1>1. where[x] \in {"pool", "none"} /\ where' = [where EXCEPT ![x] = "held"]
      /\ call' = [call EXCEPT ![c] = [Entered(c, n, "prepare") EXCEPT !.ctx = {x}]]
  BY Zenon DEF TakeOne
<1>2. PICK b : b = Entered(c, n, "prepare")
  BY Zenon
<1>3. HasEntered(b, n, "prepare")
  BY Zenon, <1>2, EnteredMembers
<1>4. call'[c] = [b EXCEPT !.ctx = {x}] /\ DOMAIN call' = Caller /\ \A d \in Caller \ {c} : call'[d] = call[d]
  BY Zenon, <1>0, <1>1, <1>2
<1>5. /\ DOMAIN call'[c] = CallFields /\ call'[c].pc = "prepare" /\ call'[c].ctx = {x}
      /\ call'[c].count = n /\ call'[c].next = 1 /\ call'[c].outcome = "none" /\ ~call'[c].failed
  <2>1. /\ DOMAIN b = CallFields /\ b.pc = "prepare" /\ b.count = n /\ b.next = 1 /\ b.outcome = "none"
        /\ ~b.failed
    BY Zenon, <1>3 DEF HasEntered
  <2> QED BY Zenon, <1>4, <2>1 DEF CallFields
<1>6. OneCall(c)
  BY Zenon, <1>4, <1>5 DEF OneCall
<1>7. /\ filled'[c] = {} /\ DOMAIN filled' = Caller /\ (\A d \in Caller \ {c} : filled'[d] = filled[d])
      /\ where'[x] = "held" /\ DOMAIN where' = Ctx /\ (\A y \in Ctx \ {x} : where'[y] = where[y])
  BY Zenon, <1>0, <1>1
<1>8. ring[x] = Clean
  BY Zenon, <1>1 DEF ReadInv, ContextOK
<1>9. Own(io, c, call'[c], filled'[c], ring[x])
  <2>1. call'[c].next \in 1 .. call'[c].count + 1 /\ call'[c].count \in Nat
        /\ filled'[c] = 1 .. call'[c].next - 1
    BY <1>5, <1>7
  <2> QED BY Zenon, <1>0, <1>5, <1>8, <2>1, CleanMembers DEF Own
<1>10. CallOK(io, c, call'[c], filled'[c], Pending(c, tasks'), where', ring)
  BY Zenon, <1>5, <1>7, <1>9 DEF CallOK
<1>11. PICK Z : Z = {x}
  BY Zenon
<1>12. ContextOK(where'[x], ring[x], direct)
  BY Zenon, <1>7 DEF ContextOK
<1>13. /\ \A y \in Z : where[y] # "held"
       /\ \A y \in Ctx \ Z : where'[y] = where[y]
       /\ \A y \in Ctx \cap Z : ContextOK(where'[y], ring[y], direct)
       /\ call'[c].ctx \subseteq Z
  BY Zenon, <1>1, <1>5, <1>7, <1>11, <1>12
<1>14. /\ tasks' \subseteq Request /\ (io # "pool_reader" => tasks' = {})
       /\ \A d \in Caller \ {c} : Pending(d, tasks') = Pending(d, tasks)
  BY Zenon, <1>0
<1> QED BY Zenon, <1>6, <1>7, <1>10, <1>13, <1>14, CallerSteps

(* A call that is over at once. *)
LEMMA EntersAndEnds ==
  ASSUME ReadInv, NEW c \in Caller, NEW n, NEW o, NEW f, call[c].pc = "idle",
         call' = [call EXCEPT ![c] = [Entered(c, n, "idle") EXCEPT !.outcome = o]],
         filled' = [filled EXCEPT ![c] = f], UNCHANGED <<io, direct, tasks, where, ring>>,
         o = "true" => f = 1 .. n
  PROVE  ReadInv'
<1>0. /\ DOMAIN call = Caller /\ DOMAIN filled = Caller
      /\ tasks \subseteq Request /\ (io # "pool_reader" => tasks = {})
  BY Zenon DEF ReadInv, ReadTypes
<1>2. PICK b : b = Entered(c, n, "idle")
  BY Zenon
<1>3. HasEntered(b, n, "idle")
  BY Zenon, <1>2, EnteredMembers
<1>4. call'[c] = [b EXCEPT !.outcome = o] /\ DOMAIN call' = Caller /\ \A d \in Caller \ {c} : call'[d] = call[d]
  BY Zenon, <1>0, <1>2
<1>5. /\ DOMAIN call'[c] = CallFields /\ call'[c].pc = "idle" /\ call'[c].ctx = {}
      /\ call'[c].count = n /\ call'[c].outcome = o
  <2>1. DOMAIN b = CallFields /\ b.pc = "idle" /\ b.count = n /\ b.ctx = {}
    BY Zenon, <1>3 DEF HasEntered
  <2> QED BY Zenon, <1>4, <2>1 DEF CallFields
<1>6. OneCall(c)
  BY Zenon, <1>4, <1>5 DEF OneCall
<1>7. filled'[c] = f /\ DOMAIN filled' = Caller /\ (\A d \in Caller \ {c} : filled'[d] = filled[d])
  BY Zenon, <1>0
<1>8. Pending(c, tasks') = {}
  BY Zenon, IdleCaller
<1>9. Rests(io, call'[c], filled'[c])
  BY Zenon, <1>5, <1>7 DEF Rests
<1>10. CallOK(io, c, call'[c], filled'[c], Pending(c, tasks'), where, ring)
  BY Zenon, <1>8, <1>9 DEF CallOK
<1>11. /\ tasks' \subseteq Request /\ (io # "pool_reader" => tasks' = {})
       /\ \A d \in Caller \ {c} : Pending(d, tasks') = Pending(d, tasks)
  BY Zenon, <1>0
<1> QED BY Zenon, <1>5, <1>6, <1>7, <1>10, <1>11, CallerStays

(* A call over aio or uring begins. *)
LEMMA EnterKernelKeeps ==
  ASSUME ReadInv, NEW c \in Caller, NEW n \in Nat, EnterKernel(c, n)
  PROVE  ReadInv'
<1>0. IsKernel /\ call[c].pc = "idle" /\ filled' = [filled EXCEPT ![c] = {}] /\ UNCHANGED <<io, direct, tasks, ring>>
  BY Zenon DEF EnterKernel, MayCall
<1>1. CASE \E x \in Ctx : TakeOne(c, n, x)
  BY Zenon, <1>0, <1>1, TakeOneKeeps
<1>2. CASE /\ io = "uring" /\ n = 0
           /\ call' = [call EXCEPT ![c] = [Entered(c, n, "idle") EXCEPT !.outcome = "true"]]
           /\ UNCHANGED where
  <2>1. {} = 1 .. n
    BY <1>2
  <2> QED BY Zenon, <1>0, <1>2, <2>1, EntersAndEnds
<1> QED BY Zenon, <1>1, <1>2 DEF EnterKernel

(* A call over an I/O that reads one range after the other. *)
LEMMA ReadInTurnKeeps ==
  ASSUME ReadInv, NEW c \in Caller, NEW n, ReadInTurn(c, n)
  PROVE  ReadInv'
<1>1. PICK done \in 0 .. n :
        /\ filled' = [filled EXCEPT ![c] = 1 .. done]
        /\ call' = [call EXCEPT ![c] = [Entered(c, n, "idle") EXCEPT
                                          !.outcome = IF done = n THEN "true" ELSE "false"]]
  BY Zenon DEF ReadInTurn
<1>2. PICK o : o = IF done = n THEN "true" ELSE "false"
  BY Zenon
<1>3. o = "true" => 1 .. done = 1 .. n
  BY Zenon, <1>2
<1>4. call' = [call EXCEPT ![c] = [Entered(c, n, "idle") EXCEPT !.outcome = o]]
  BY Zenon, <1>1, <1>2
<1>5. call[c].pc = "idle" /\ UNCHANGED <<io, direct, tasks, where, ring>>
  BY Zenon DEF ReadInTurn, MayCall
<1> QED BY Zenon, <1>1, <1>3, <1>4, <1>5, EntersAndEnds

-----------------------------------------------------------------------------
(* The invariant is inductive. *)
LEMMA ReadStarts ==
  ASSUME BatchReadInit
  PROVE  ReadInv
<1>1. PICK k : k = NoCall
  BY Zenon
<1>2. DOMAIN k = CallFields /\ k.pc = "idle" /\ k.ctx = {} /\ k.outcome = "none"
  BY Zenon, <1>1 DEF NoCall, CallFields
<1>3. /\ \A c \in Caller : call[c] = k /\ filled[c] = {} /\ DOMAIN call = Caller /\ DOMAIN filled = Caller
      /\ DOMAIN where = Ctx /\ DOMAIN ring = Ctx /\ \A x \in Ctx : where[x] = "none" /\ ring[x] = Clean
  BY Zenon, <1>1 DEF BatchReadInit
<1>4. tasks = {} /\ io \in {"pool_reader", "func_reader", "aio", "uring"}
      /\ DOMAIN call = Caller /\ DOMAIN filled = Caller
  BY Zenon DEF BatchReadInit
<1>5. ReadTypes
  BY Zenon, <1>2, <1>3, <1>4, CleanMembers DEF ReadTypes
<1>6. \A x \in Ctx : ContextOK(where[x], ring[x], direct)
  BY Zenon, <1>3 DEF ContextOK
<1>7. ASSUME NEW c \in Caller PROVE CallOK(io, c, call[c], filled[c], Pending(c, tasks), where, ring)
  <2>1. Pending(c, tasks) = {}
    BY Zenon, <1>4 DEF Pending
  <2>2. Rests(io, call[c], filled[c])
    BY Zenon, <1>2, <1>3 DEF Rests
  <2> QED BY Zenon, <2>1, <2>2 DEF CallOK
<1>8. \A c, d \in Caller : c # d => call[c].ctx \cap call[d].ctx = {}
  BY Zenon, <1>2, <1>3
<1> QED BY Zenon, <1>4, <1>5, <1>6, <1>7, <1>8 DEF ReadInv

(* Every step keeps the invariant, if no range is found out of bounds with reads outstanding. *)
LEMMA ReadGoesOn ==
  ASSUME ReadInv, [BatchReadNext]_readVars, ~LateThrows
  PROVE  ReadInv'
<1>1. ASSUME NEW c \in Caller, Enter(c) PROVE ReadInv'
  <2>1. PICK n \in 0 .. MaxReads[c] : EnterReader(c, n) \/ EnterKernel(c, n) \/ ReadInTurn(c, n)
    BY Zenon, <1>1 DEF Enter
  <2>2. n \in Nat
    BY BatchReadAssumption
  <2> QED BY Zenon, <2>1, <2>2, EnterReaderKeeps, EnterKernelKeeps, ReadInTurnKeeps
<1>2. ASSUME NEW c \in Caller, Issue(c) \/ IssueThrows(c) \/ AwaitReads(c) PROVE ReadInv'
  BY Zenon, <1>2, IssueKeeps, IssueThrowsKeeps, AwaitReadsKeeps
<1>3. ASSUME NEW c \in Caller, Prepare(c) \/ (\E k \in 0 .. BatchSize : Submit(c, k)) \/ SubmitFails(c)
      PROVE  ReadInv'
  BY Zenon, <1>3, PrepareKeeps, SubmitKeeps, SubmitFailsKeeps
<1>4. ASSUME NEW c \in Caller, ReapOne(c) \/ ReapAll(c) \/ EndBatch(c) \/ WaitFails(c) PROVE ReadInv'
  BY Zenon, <1>4, ReapOneKeeps, ReapAllKeeps, EndBatchKeeps, WaitFailsKeeps
<1>5. ASSUME NEW c \in Caller, DrainOne(c) \/ EndDrain(c) \/ ReturnTrue(c) PROVE ReadInv'
  BY Zenon, <1>5, DrainOneKeeps, EndDrainKeeps, ReturnTrueKeeps
<1>6. ASSUME NEW r \in Request, ReadEnds(r) PROVE ReadInv'
  <2>1. PICK ok \in BOOLEAN : Callback(r, ok) \/ \E x \in Ctx : Complete(x, r, ok)
    BY Zenon, <1>6 DEF ReadEnds
  <2> QED BY Zenon, <2>1, CallbackKeeps, CompleteKeeps
<1>7. CASE UNCHANGED readVars
  BY Zenon, <1>7 DEF ReadInv, ReadTypes, readVars
<1>8. CASE BatchReadNext
  <2>1. ASSUME NEW c \in Caller, ReadStep(c) PROVE ReadInv'
    BY Zenon, <1>2, <1>3, <1>4, <1>5, <2>1 DEF ReadStep
  <2> QED BY Zenon, <1>1, <1>6, <1>8, <2>1 DEF BatchReadNext
<1> QED BY Zenon, <1>7, <1>8

(* What the invariant says of the pool, of reads that outlive their call, and of true. *)
LEMMA ReadSettles ==
  ASSUME ReadInv
  PROVE  BatchesAreSettled
<1>1. PooledContextsAreClean
  BY Zenon DEF ReadInv, ContextOK, PooledContextsAreClean
<1>2. ASSUME NEW r \in tasks PROVE call[r[1]].pc = "issue"
  <2>1. r \in Request
    BY Zenon, <1>2 DEF ReadInv, ReadTypes
  <2>2. PICK c \in Caller : r \in {c} \X (1 .. MaxReads[c])
    BY Zenon, <2>1 DEF Request
  <2>3. PICK i \in 1 .. MaxReads[c] : r = <<c, i>>
    BY <2>2
  <2>4. r[1] = c
    BY Zenon, <2>3
  <2>5. i \in Pending(c, tasks)
    BY Zenon, <1>2, <2>3 DEF Pending
  <2>6. io \notin {"aio", "uring"}
    BY Zenon, <1>2 DEF ReadInv
  <2>7. CallOK(io, c, call[c], filled[c], Pending(c, tasks), where, ring)
    BY Zenon DEF ReadInv
  <2>8. Asks(io, c, call[c], filled[c], Pending(c, tasks))
    BY Zenon, <2>5, <2>6, <2>7 DEF CallOK, Own
  <2> QED BY Zenon, <2>4, <2>8 DEF Asks
<1>3. ASSUME NEW x \in Ctx, ~direct, ring[x].inflight # {} PROVE where[x] = "held"
  <2>1. ContextOK(where[x], ring[x], direct) /\ ring[x] # Clean
    BY Zenon, <1>3, CleanMembers DEF ReadInv
  <2> QED BY Zenon, <1>3, <2>1 DEF ContextOK
<1>4. NoReadOutlivesItsCall
  BY Zenon, <1>2, <1>3 DEF NoReadOutlivesItsCall
<1>5. ASSUME NEW c \in Caller, call[c].outcome = "true", io # "aio" PROVE filled[c] = 1 .. call[c].count
  <2>1. CallOK(io, c, call[c], filled[c], Pending(c, tasks), where, ring)
    BY Zenon DEF ReadInv
  <2>2. call[c].outcome # "none"
    BY Zenon, <1>5
  <2>3. Rests(io, call[c], filled[c])
    BY Zenon, <2>1, <2>2 DEF CallOK, Asks, Own
  <2> QED BY Zenon, <1>5, <2>3 DEF Rests
<1>6. TrueMeansRead
  BY Zenon, <1>5 DEF TrueMeansRead
<1> QED BY Zenon, <1>1, <1>4, <1>6 DEF BatchesAreSettled

(* BatchesAreSettled for any number of threads, contexts, ranges and batches: as long as no      *)
(* call is left by an exception with reads under way that use what it leaves behind, contexts     *)
(* in the pool are clean, no read outlives its call, and true means that every range was read.   *)
THEOREM BatchesStaySettled ==
  ASSUME ~LateThrows
  PROVE  BatchReadSpec => []BatchesAreSettled
<1>1. BatchReadInit => ReadInv
  BY Zenon, ReadStarts
<1>2. ReadInv /\ [BatchReadNext]_readVars => ReadInv'
  BY Zenon, ReadGoesOn
<1>3. ReadInv => BatchesAreSettled
  BY Zenon, ReadSettles
<1> QED BY <1>1, <1>2, <1>3, PTL DEF BatchReadSpec

=============================================================================
