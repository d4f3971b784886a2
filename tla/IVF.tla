--------------------------------- MODULE IVF ---------------------------------
(***************************************************************************)
(* algorithm/ivf over datacell/bucket_datacell.h: each row is stored in its   *)
(* buckets_per_data_ nearest buckets, as that many copies.  Copy j of element  *)
(* i has the inner id i * buckets_per_data_ + j in the buckets, and            *)
(* location_map_ leads from i to one copy.  The rows of an Add are inserted by *)
(* tasks of a pool, and several Adds may run at once (SUPPORT_ADD_CONCURRENT); *)
(* every other operation runs alone, as the index's features say.             *)
(*                                                                         *)
(* Labels are numbers, and the vector of a label is that number: distances    *)
(* are differences, and CentroidDist ranks the buckets.                      *)
(***************************************************************************)
EXTENDS Integers, FiniteSets, Sequences, SequencesExt, LabelTable

CONSTANTS IVFThread,           \* the callers of Add
          Bucket,              \* 0 .. bucket_count_ - 1
          MaxCopies,           \* the largest buckets_per_data_
          Attr, FirstAttr,     \* values of the one attribute field, and the one rows come with
          CentroidDist(_, _),  \* from a label's vector to a bucket's centroid
          Batches              \* the label sequences callers Add or Merge

VARIABLES buckets_per_data,   \* buckets_per_data_, fixed when the index is created
          trained,            \* is_trained_
          ivf_labels,         \* label_table_
          total_elements,     \* total_elements_
          ivf_deleted,        \* delete_count_
          inner_ids,          \* inner_ids_, per bucket; the code of a copy stands beside it
          attrs,              \* attr_filter_index_: the values set at each offset of a bucket
          location_map,       \* location_map_: <<bucket, offset>>
          adding,             \* per thread: the tasks of its Add that have not ended
          attr_given          \* history: the values callers gave each element

ivfVars == <<buckets_per_data, trained, ivf_labels, total_elements, ivf_deleted, inner_ids,
             attrs, location_map, adding, attr_given>>

IVFInit ==
  /\ buckets_per_data \in 1 .. MaxCopies
  /\ trained = FALSE
  /\ ivf_labels = EmptyLabelTable
  /\ total_elements = 0
  /\ ivf_deleted = 0
  /\ inner_ids = [b \in Bucket |-> <<>>]
  /\ attrs = [b \in Bucket |-> <<>>]
  /\ location_map = <<>>
  /\ adding = [t \in IVFThread |-> <<>>]
  /\ attr_given = <<>>

(* Offsets and ids are 0-based: entry o of a bucket is element o + 1 of its sequence. *)
Ids == 0 .. total_elements - 1

Quiet == \A t \in IVFThread : DOMAIN adding[t] = {}

(* ClassifyDatas: the n nearest buckets, nearest first. *)
ClassifyDatas(label, n) ==
  SubSeq(SetToSortSeq(Bucket, LAMBDA a, b : CentroidDist(label, a) < CentroidDist(label, b)),
         1, n)

-----------------------------------------------------------------------------
(* Train: a second call returns at once.  Add throws before it. *)
IVFTrain ==
  /\ ~trained
  /\ trained' = TRUE
  /\ UNCHANGED <<buckets_per_data, ivf_labels, total_elements, ivf_deleted, inner_ids, attrs,
                 location_map, adding, attr_given>>

PadTo(s, n, x) == [i \in 1 .. n |-> IF i <= Len(s) THEN s[i] ELSE x]

(* label_table_->Insert for each row of a batch. *)
InsertAll(rows) ==
  FoldLeftDomain(LAMBDA t, i : Insert(t, total_elements + i - 1, rows[i]), ivf_labels, rows)

(* current_num, read under label_lookup_mutex_ before total_elements_ is raised. *)
current_num == total_elements

(* Add, up to the end of its locked section: ids, labels and room for the        *)
(* locations, which resize fills with 0.  The tasks enqueued then have one row    *)
(* each and start with copy 0.  Callers give labels the index does not have:      *)
(* the code does not ask.                                                     *)
IVFAdd(t, rows, value) ==
  /\ trained
  /\ DOMAIN adding[t] = {}
  /\ \A i \in 1 .. Len(rows) : rows[i] \notin DOMAIN ivf_labels.remap
  /\ ivf_labels' = InsertAll(rows)
  /\ total_elements' = total_elements + Len(rows)
  /\ location_map' = PadTo(location_map, total_elements + Len(rows), <<0, 0>>)
  /\ adding' = [adding EXCEPT ![t] =
                  [id \in current_num .. current_num + Len(rows) - 1 |->
                     [label |-> rows[id - current_num + 1], value |-> value,
                      copy |-> 0, offset |-> -1]]]
  /\ attr_given' = PadTo(attr_given, total_elements + Len(rows), {value})
  /\ UNCHANGED <<buckets_per_data, trained, ivf_deleted, inner_ids, attrs>>

BucketOf(task) == ClassifyDatas(task.label, buckets_per_data)[task.copy + 1]

(* InsertVector, which holds the lock of the bucket: the offset is the bucket's size. *)
InsertVector(t, id) ==
  /\ id \in DOMAIN adding[t]
  /\ adding[t][id].offset = -1
  /\ LET task == adding[t][id]
         b    == BucketOf(task)
     IN /\ inner_ids' = [inner_ids EXCEPT ![b] =
                           Append(@, id * buckets_per_data + task.copy)]
        /\ adding' = [adding EXCEPT ![t][id].offset = Len(inner_ids[b])]
  /\ UNCHANGED <<buckets_per_data, trained, ivf_labels, total_elements, ivf_deleted, attrs,
                 location_map, attr_given>>

(* Bitsets have no bits where none was set. *)
AttrsAt(b, offset) == IF offset < Len(attrs[b]) THEN attrs[b][offset + 1] ELSE {}

WithAttrs(b, offset, values) ==
  [attrs EXCEPT ![b] =
     [PadTo(@, IF offset < Len(@) THEN Len(@) ELSE offset + 1, {}) EXCEPT ![offset + 1] = values]]

(* Only the first copy is recorded. *)
Location(id, task) == IF task.copy = 0 THEN <<BucketOf(task), task.offset>>
                                       ELSE location_map[id + 1]

(* The rest of a task's iteration: the location under label_lookup_mutex_, the      *)
(* attribute under that index's own lock; then the next copy, or the task ends.   *)
Record(t, id) ==
  /\ id \in DOMAIN adding[t]
  /\ adding[t][id].offset # -1
  /\ LET task == adding[t][id]
         b    == BucketOf(task)
     IN /\ location_map' = [location_map EXCEPT ![id + 1] = Location(id, task)]
        /\ attrs' = WithAttrs(b, task.offset, AttrsAt(b, task.offset) \cup {task.value})
        /\ adding' = [adding EXCEPT ![t] =
                        IF task.copy + 1 < buckets_per_data
                        THEN [@ EXCEPT ![id] = [task EXCEPT !.copy = @ + 1, !.offset = -1]]
                        ELSE [i \in DOMAIN @ \ {id} |-> @[i]]]
  /\ UNCHANGED <<buckets_per_data, trained, ivf_labels, total_elements, ivf_deleted, inner_ids,
                 attr_given>>

-----------------------------------------------------------------------------
(* Remove in mode MARK_REMOVE; in any other mode it removes nothing. *)
IVFRemove(label) ==
  /\ Quiet
  /\ NewlyRemoved(ivf_labels, {label}) # {}
  /\ ivf_labels' = MarkRemove(ivf_labels, {label})
  /\ ivf_deleted' = ivf_deleted + Cardinality(NewlyRemoved(ivf_labels, {label}))
  /\ UNCHANGED <<buckets_per_data, trained, total_elements, inner_ids, attrs, location_map,
                 adding, attr_given>>

(* Variant: the id is taken for the offset. *)
LocationById(id) == <<location_map[id + 1][1], id>>

get_location(id) == location_map[id + 1]

(* Both forms of UpdateAttribute.  The first erases every value of the field, the   *)
(* second the one the caller gives as the old one; both then set the new value.    *)
(* They reach one copy only, so callers use them where an element has one.       *)
UpdateAttribute(label, erased, new) ==
  /\ Quiet
  /\ buckets_per_data = 1
  /\ CheckLabel(ivf_labels, label)
  /\ LET id  == ivf_labels.remap[label]
         loc == get_location(id)
     IN /\ attrs' = WithAttrs(loc[1], loc[2], (AttrsAt(loc[1], loc[2]) \ erased) \cup {new})
        /\ attr_given' = [attr_given EXCEPT ![id + 1] = (@ \ erased) \cup {new}]
  /\ UNCHANGED <<buckets_per_data, trained, ivf_labels, total_elements, ivf_deleted, inner_ids,
                 location_map, adding>>

-----------------------------------------------------------------------------
(* fill_location_map visits the buckets in order, so the last entry of an element *)
(* is the one that stays; an element without one keeps the initial 0.          *)
LastEntryOf(ids, i) ==
  LET Holds(b) == {o \in 1 .. Len(ids[b]) : ids[b][o] \div buckets_per_data = i}
      b == CHOOSE c \in Bucket : /\ Holds(c) # {}
                                 /\ \A d \in Bucket : Holds(d) # {} => d <= c
  IN  IF \A c \in Bucket : Holds(c) = {} THEN <<0, 0>>
      ELSE <<b, (CHOOSE o \in Holds(b) : \A p \in Holds(b) : p <= o) - 1>>

fill_location_map(ids, n) == [i \in 1 .. n |-> LastEntryOf(ids, i - 1)]

(* The buckets of another index of the same model, built from these rows alone. *)
BucketsOf(rows) ==
  LET copies == [c \in 1 .. Len(rows) * buckets_per_data |->
                   [id |-> c - 1,
                    bucket |-> ClassifyDatas(rows[((c - 1) \div buckets_per_data) + 1],
                                             buckets_per_data)
                                 [((c - 1) % buckets_per_data) + 1]]]
      In(b) == SelectSeq(copies, LAMBDA c : c.bucket = b)
  IN  [b \in Bucket |-> [i \in 1 .. Len(In(b)) |-> In(b)[i].id]]

bucket_bias == total_elements * buckets_per_data

(* Merge of one unit.  Neither the tombstones nor the attributes of the other       *)
(* index are taken over: the unit has none.                                     *)
Merge(rows) ==
  /\ Quiet /\ trained
  /\ \A i \in 1 .. Len(rows) : rows[i] \notin DOMAIN ivf_labels.remap
  /\ LET other  == BucketsOf(rows)
         merged == [b \in Bucket |-> inner_ids[b] \o
                      [i \in 1 .. Len(other[b]) |-> other[b][i] + bucket_bias]]
     IN /\ inner_ids' = merged
        /\ location_map' = fill_location_map(merged, total_elements + Len(rows))
  /\ ivf_labels' = InsertAll(rows)
  /\ total_elements' = total_elements + Len(rows)
  /\ attr_given' = PadTo(attr_given, total_elements + Len(rows), {})
  /\ UNCHANGED <<buckets_per_data, trained, ivf_deleted, attrs, adding>>

(* Serialize, then Deserialize into a new index: neither the tombstones nor their   *)
(* number are stored, and the locations are computed anew.                      *)
IVFSaveAndLoad ==
  /\ Quiet /\ total_elements > 0
  /\ ivf_labels' = LoadTableFormat(ivf_labels)
  /\ ivf_deleted' = 0
  /\ location_map' = fill_location_map(inner_ids, total_elements)
  /\ UNCHANGED <<buckets_per_data, trained, total_elements, inner_ids, attrs, adding, attr_given>>

IVFNext ==
  \/ IVFTrain
  \/ \E t \in IVFThread, rows \in Batches : IVFAdd(t, rows, FirstAttr)
  \/ \E t \in IVFThread, id \in Ids : InsertVector(t, id) \/ Record(t, id)
  \/ \E l \in Label : IVFRemove(l)
  \/ \E l \in Label, new \in Attr, erased \in {Attr} \cup {{a} : a \in Attr} :
       UpdateAttribute(l, erased, new)
  \/ \E rows \in Batches : Merge(rows)
  \/ IVFSaveAndLoad

IVFSpec == IVFInit /\ [][IVFNext]_ivfVars

-----------------------------------------------------------------------------
(* SearchWithRequest with every bucket scanned. *)

VecDist(q, l) == IF q < l THEN l - q ELSE q - l

(* The n nearest of a set of <<distance, id>>. *)
KeepNearestIds(S, n) ==
  {e \in S : Cardinality({f \in S : f[1] < e[1] \/ (f[1] = e[1] /\ f[2] < e[2])}) < n}

(* FlatBucketSearcher::Search over the buckets one thread has taken: the copies    *)
(* that pass the filters, held down to topk.                                    *)
ThreadHeap(q, kept, radius, topk, mine) ==
  LET copies == UNION {{inner_ids[b][o] : o \in 1 .. Len(inner_ids[b])} : b \in mine}
      hits   == {<<VecDist(q, ivf_labels.table[c \div buckets_per_data]), c>> :
                   c \in {d \in copies : d \div buckets_per_data \in kept}}
  IN  KeepNearestIds({h \in hits : h[1] <= radius}, topk)

(* Variant: the copies of one element may fill the heap. *)
ScaledTopkUnscaled(k) == k

ScaledTopk(k) == k * buckets_per_data

(* search: each thread takes buckets from a shared counter, their heaps are merged, *)
(* and the copies of an element become one entry.                               *)
Search(q, kept, radius, k, split) ==
  LET topk   == ScaledTopk(k)
      merged == KeepNearestIds(UNION {ThreadHeap(q, kept, radius, topk, part) : part \in split},
                               topk)
      nearestOf(i) == CHOOSE d \in {h[1] : h \in merged} :
                        /\ \E h \in merged : h[1] = d /\ h[2] \div buckets_per_data = i
                        /\ \A h \in merged : h[2] \div buckets_per_data = i => d <= h[1]
  IN  KeepNearestIds({<<nearestOf(i), i>> : i \in {h[2] \div buckets_per_data : h \in merged}}, k)

NotRemoved == Ids \ ivf_labels.deleted

(* When no Add runs, a search that scans every bucket returns the k nearest elements *)
(* that are not removed, each once, however its threads share the buckets and      *)
(* however many copies an element has (ivf.cpp:1104-1226).                       *)
IVFSearchIsExact ==
  Quiet /\ total_elements > 0 => \A q \in Label, k \in 1 .. 2, radius \in {1, 9},
              split \in {{Bucket}, {{b} : b \in Bucket}} :
    LET all == {<<VecDist(q, ivf_labels.table[i]), i>> : i \in NotRemoved}
    IN  Search(q, NotRemoved, radius, k, split) = KeepNearestIds({e \in all : e[1] <= radius}, k)

(* Every element whose task has ended is stored once in each of its nearest buckets, *)
(* and its copies have distinct inner ids, also after Merge (ivf.cpp:1229-1243).    *)
StoredInItsBuckets ==
  \A i \in {j \in Ids : \A t \in IVFThread : j \notin DOMAIN adding[t]} :
    \A b \in Bucket :
      Cardinality({o \in 1 .. Len(inner_ids[b]) : inner_ids[b][o] \div buckets_per_data = i}) =
      Cardinality({j \in 1 .. buckets_per_data :
                     ClassifyDatas(ivf_labels.table[i], buckets_per_data)[j] = b})

(* The location of every element whose task has ended names one of its copies:       *)
(* CalcDistanceById and GetVectorByInnerId read another element's code otherwise    *)
(* (ivf.cpp:608-614).                                                          *)
LocationsResolve ==
  \A i \in {j \in Ids : \A t \in IVFThread : j \notin DOMAIN adding[t]} :
    LET loc == get_location(i)
    IN  /\ loc[2] < Len(inner_ids[loc[1]])
        /\ inner_ids[loc[1]][loc[2] + 1] \div buckets_per_data = i

(* With one copy per element the attribute index holds what the callers gave last,    *)
(* across updates, merges and reloads (ivf.cpp:628-640).                          *)
AttributesAreTheGiven ==
  (buckets_per_data = 1 /\ Quiet) =>
    \A b \in Bucket : \A o \in 0 .. Len(inner_ids[b]) - 1 :
      AttrsAt(b, o) = attr_given[inner_ids[b][o + 1] + 1]

(* The buckets, the location map and the attribute index agree on every element, after  *)
(* interleaved Adds, merges and reloads.                                             *)
IVFPartsAgree == StoredInItsBuckets /\ LocationsResolve /\ AttributesAreTheGiven

=============================================================================
