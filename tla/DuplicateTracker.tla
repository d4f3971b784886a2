-------------------------- MODULE DuplicateTracker --------------------------
(***************************************************************************)
(* datacell/dense_duplicate_tracker and sparse_duplicate_tracker: which        *)
(* elements have equal vectors.  A group is a ring through next: the dense       *)
(* tracker has a vector of all elements, where a single element is its own       *)
(* next, the sparse one a map of the elements in groups.  Every operation holds  *)
(* the tracker's mutex.  Against it stands what callers were told: twins, the    *)
(* elements each element shares its vector with.                               *)
(***************************************************************************)
EXTENDS Integers, FiniteSets, Sequences, SequencesExt

CONSTANTS MaxTracked,   \* a bound on the elements
          MaxStored     \* a bound on loads and merges

VARIABLES sparse,           \* which of the two trackers
          next_ids,         \* duplicate_ids_, next_ids_
          duplicate_count,  \* duplicate_count_, the number of groups
          twins,            \* history
          stored            \* how often a tracker was loaded or merged

trackerVars == <<sparse, next_ids, duplicate_count, twins, stored>>

Element == 0 .. MaxTracked - 1

(* A tracker: the rings and their number. *)
Tracker == [next |-> next_ids, count |-> duplicate_count]
Alone(n) == [i \in 0 .. n - 1 |-> i]
NewTracker(n) == [next |-> IF sparse THEN <<>> ELSE Alone(n), count |-> 0]
Becomes(t) == next_ids' = t.next /\ duplicate_count' = t.count

Known(t, i) == i \in DOMAIN t.next
Grouped(t, i) == Known(t, i) /\ t.next[i] # i
NextOf(t, i) == IF Known(t, i) THEN t.next[i] ELSE i

TrackerInit ==
  /\ sparse \in BOOLEAN
  /\ \E n \in 0 .. MaxTracked : (sparse => n = 0) /\ next_ids = NewTracker(n).next
  /\ duplicate_count = 0
  /\ twins = [i \in Element |-> {i}]
  /\ stored = 0

-----------------------------------------------------------------------------
(* GetDuplicateIds: around the ring, up to id. *)
GetDuplicateIds(t, id) ==
  LET RECURSIVE After(_)
      After(i) == IF NextOf(t, i) = id THEN <<>> ELSE <<NextOf(t, i)>> \o After(NextOf(t, i))
  IN  After(id)

Members(t, id) == {id} \cup ToSet(GetDuplicateIds(t, id))

GetGroupId(t, id) == CHOOSE i \in Members(t, id) : \A j \in Members(t, id) : i <= j

GetGroupSize(t, id) == Len(GetDuplicateIds(t, GetGroupId(t, id))) + 1

Ignored(t, group_id, duplicate_id) ==
  \/ group_id = duplicate_id
  \/ ~sparse /\ ~(Known(t, group_id) /\ Known(t, duplicate_id))
  \/ Grouped(t, duplicate_id)

(* Variant: every duplicate is counted. *)
OneMore(t, group_id) == t.count + 1

(* The groups are counted: a second element makes one. *)
CountWith(t, group_id) == IF Grouped(t, group_id) THEN t.count ELSE t.count + 1

(* duplicate_id comes into the ring behind group_id. *)
WithDuplicate(t, group_id, duplicate_id) ==
  IF Ignored(t, group_id, duplicate_id) THEN t
  ELSE [next |-> [i \in DOMAIN t.next \cup {group_id, duplicate_id} |->
                    CASE i = group_id -> duplicate_id
                      [] i = duplicate_id /\ i # group_id -> NextOf(t, group_id)
                      [] OTHER -> t.next[i]],
        count |-> CountWith(t, group_id)]

Joined(group_id, duplicate_id) ==
  LET S == twins[group_id] \cup twins[duplicate_id] IN
  [i \in Element |-> IF i \in S THEN S ELSE twins[i]]

(* Callers bring an element once, when it is added, to the group of an equal one. *)
SetDuplicateId(group_id, duplicate_id) ==
  LET t == WithDuplicate(Tracker, group_id, duplicate_id) IN
  /\ Becomes(t)
  /\ twins' = IF t = Tracker THEN twins ELSE Joined(group_id, duplicate_id)
  /\ UNCHANGED <<sparse, stored>>

(* The dense tracker grows with the graph and never shrinks; the sparse one has no size. *)
ResizeTracker(n) ==
  /\ next_ids' = IF sparse THEN next_ids
                 ELSE [i \in DOMAIN next_ids \cup 0 .. n - 1 |-> NextOf(Tracker, i)]
  /\ UNCHANGED <<sparse, duplicate_count, twins, stored>>

-----------------------------------------------------------------------------
(* Serialize: the number of groups, and of each its smallest element and the others in    *)
(* the order of the ring.  The dense tracker also writes its size.                       *)
Heads(t) == {i \in DOMAIN t.next : Grouped(t, i) /\ GetGroupId(t, i) = i}
Serialize(t) ==
  [count |-> t.count, size |-> Cardinality(DOMAIN t.next),
   groups |-> [h \in 1 .. Cardinality(Heads(t)) |->
                 LET i == SetToSortSeq(Heads(t), <)[h] IN <<i>> \o GetDuplicateIds(t, i)]]

(* The ring of one group that is read. *)
RingOf(group) ==
  [i \in ToSet(group) |->
     LET k == CHOOSE j \in DOMAIN group : group[j] = i IN group[(k % Len(group)) + 1]]

(* Deserialize of a new tracker: as many groups are read as were counted.  The sparse      *)
(* tracker counts them again.                                                            *)
Deserialize(file) ==
  LET rings == [k \in 1 .. file.count |-> RingOf(file.groups[k])]
      read == UNION {DOMAIN rings[k] : k \in DOMAIN rings}
      start == NewTracker(file.size).next
  IN  [next |-> [i \in DOMAIN start \cup read |->
                   IF i \in read THEN (CHOOSE r \in ToSet(rings) : i \in DOMAIN r)[i] ELSE start[i]],
       count |-> file.count]

(* The index is stored and loaded by a new object. *)
Reload ==
  /\ stored < MaxStored
  /\ Becomes(Deserialize(Serialize(Tracker)))
  /\ stored' = stored + 1
  /\ UNCHANGED <<sparse, twins>>

(* MergeOther, of a copy of the tracker with its ids moved up: the groups come by their       *)
(* smallest elements, each duplicate with the group's.                                      *)
MergeOther(count) ==
  LET other == Tracker
      heads == {id \in 0 .. count - 1 : GetGroupId(other, id) = id}
      pairs == FlattenSeq([k \in 1 .. Cardinality(heads) |->
                 LET id == SetToSortSeq(heads, <)[k] IN
                 [j \in DOMAIN GetDuplicateIds(other, id) |->
                    <<id + count, GetDuplicateIds(other, id)[j] + count>>]])
      moved(i) == {j + count : j \in Members(other, i - count)}
  IN  /\ stored < MaxStored /\ 2 * count <= MaxTracked
      /\ \A i \in count .. MaxTracked - 1 : twins[i] = {i}
      /\ sparse \/ DOMAIN next_ids = 0 .. 2 * count - 1
      /\ Becomes(FoldLeft(LAMBDA t, p : WithDuplicate(t, p[1], p[2]), Tracker, pairs))
      /\ twins' = [i \in Element |-> IF i \in count .. 2 * count - 1 THEN moved(i) ELSE twins[i]]
      /\ stored' = stored + 1
      /\ UNCHANGED sparse

TrackerNext ==
  \/ \E g, d \in Element : SetDuplicateId(g, d)
  \/ \E n \in 0 .. MaxTracked : ResizeTracker(n)
  \/ Reload
  \/ \E count \in 1 .. MaxTracked : MergeOther(count)

TrackerSpec == TrackerInit /\ [][TrackerNext]_trackerVars

-----------------------------------------------------------------------------
(* The rings are the groups: from any of its elements a group is walked once around, it is    *)
(* known by its smallest element, and as many groups are counted as there are, so that a       *)
(* stored tracker is read to its end and not beyond.                                        *)
RingsAreGroups ==
  /\ \A i \in Element :
       /\ Members(Tracker, i) = twins[i]
       /\ GetGroupSize(Tracker, i) = Cardinality(twins[i])
       /\ GetGroupId(Tracker, i) \in twins[i] /\ \A j \in twins[i] : GetGroupId(Tracker, i) <= j
  /\ duplicate_count = Cardinality({twins[i] : i \in {j \in Element : twins[j] # {j}}})
  /\ Deserialize(Serialize(Tracker)) = Tracker

=============================================================================
