-------------------------------- MODULE SINDI --------------------------------
(***************************************************************************)
(* algorithm/sindi over datacell/sparse_term_datacell: an inverted index of     *)
(* sparse vectors.  Documents are numbered in order of arrival and cut into     *)
(* windows of window_size_; a window has one posting list per term.  A search   *)
(* adds up the products of each window in one buffer of window_size_ distances  *)
(* and moves the best of it to a heap that lives across windows.               *)
(*                                                                         *)
(* A document is a function from the terms it has to positive weights; the      *)
(* distance to a query is minus their inner product, and 1 + distance is what   *)
(* the caller sees.  Every operation holds global_mutex_.                     *)
(***************************************************************************)
EXTENDS Integers, FiniteSets, Sequences, SequencesExt, LabelTable

CONSTANTS Doc,             \* the sparse vectors callers add
          SparseQuery,     \* the sparse vectors callers search for
          window_size,     \* window_size_
          term_id_limit,   \* term_id_limit_
          MaxDocs          \* bound on the documents added

VARIABLES sindi,          \* the configuration: remap_term_ids_, doc pruning, immutable_enabled_
          sindi_labels,   \* label_table_
          windows,        \* window_term_list_: per window [lists, total]
          immutable_data, \* immutable_data_, once built
          mapper,         \* compact_to_orig_ of term_id_mapper_
          rerank_flat,    \* rerank_flat_: the vectors as given
          sindi_removed   \* delete_count_

sindiVars == <<sindi, sindi_labels, windows, immutable_data, mapper, rerank_flat, sindi_removed>>

SINDIInit ==
  /\ sindi \in [remap : BOOLEAN, prune : BOOLEAN, immutable : BOOLEAN]
  /\ sindi_labels = EmptyLabelTable
  /\ windows = <<>>
  /\ immutable_data = [built |-> FALSE, windows |-> <<>>]
  /\ mapper = <<>>
  /\ rerank_flat = <<>>
  /\ sindi_removed = 0

doc_count == Len(rerank_flat)

-----------------------------------------------------------------------------
(* Storing a document *)

(* sort_sparse_vector: heaviest term first. *)
ByWeight(vec) == SetToSortSeq(DOMAIN vec, LAMBDA s, t : vec[s] > vec[t] \/ (vec[s] = vec[t] /\ s < t))

Mass(vec, n) == FoldLeft(LAMBDA sum, t : sum + vec[t], 0, SubSeq(ByWeight(vec), 1, n))

(* DocPrune with doc_retain_ratio_ 1/2: the shortest prefix with half of the mass. *)
PrunedTerms(vec) ==
  LET whole == Mass(vec, Cardinality(DOMAIN vec))
      n     == CHOOSE i \in 0 .. Cardinality(DOMAIN vec) :
                 /\ 2 * Mass(vec, i) >= whole
                 /\ \A j \in 0 .. i - 1 : 2 * Mass(vec, j) < whole
  IN  SubSeq(ByWeight(vec), 1, n)

DocPrune(vec) ==
  IF ~sindi.prune \/ Cardinality(DOMAIN vec) <= 1 THEN ByWeight(vec) ELSE PrunedTerms(vec)

(* TermIdMapper::Map over the terms of a vector, in order: each new term takes the   *)
(* next compact id, and those taken before the mapper is full stay taken.           *)
MapAll(before, vec) ==
  LET Take(m, t) == IF Contains(m, t) \/ Len(m) >= term_id_limit THEN m ELSE Append(m, t)
  IN  FoldLeft(Take, before, SetToSortSeq(DOMAIN vec, <))

CompactId(m, t) == (CHOOSE i \in 1 .. Len(m) : m[i] = t) - 1

(* Whether remap_sparse_vector_for_build and InsertVector take the vector. *)
Storable(vec, m) ==
  IF sindi.remap THEN \A t \in DOMAIN vec : Contains(m, t)
                 ELSE \A t \in DOMAIN vec : t <= term_id_limit

EmptyWindow == [lists |-> [t \in 0 .. term_id_limit |-> <<>>], total |-> 0]

(* SparseTermDataCell::InsertVector, after the mapping: lists of <<doc, weight>>. *)
InsertIntoWindow(w, vec, m, docId) ==
  LET StoredId(t) == IF sindi.remap THEN CompactId(m, t) ELSE t
      Put(lists, t) == [lists EXCEPT ![StoredId(t)] = Append(@, <<docId, vec[t]>>)]
  IN  [lists |-> FoldLeft(Put, w.lists, DocPrune(vec)), total |-> w.total + 1]

WindowOf(docId) == (docId \div window_size) + 1

Loaded == [labels |-> sindi_labels, windows |-> windows, mapper |-> mapper, flat |-> rerank_flat]

(* A row InsertVector refuses: the compact ids it took stay taken. *)
Refused(s, row) == IF sindi.remap THEN [s EXCEPT !.mapper = MapAll(@, row[2])] ELSE s

(* One row of Add or of build_immutable: <<label, vector>>. *)
AddRow(s, row) ==
  LET id == Len(s.flat)
      m  == IF sindi.remap THEN MapAll(s.mapper, row[2]) ELSE s.mapper
      w  == WindowOf(id)
      known == IF w > Len(s.windows) THEN Append(s.windows, EmptyWindow) ELSE s.windows
  IN  CASE CheckLabel(s.labels, row[1]) -> s
        [] ~CheckLabel(s.labels, row[1]) /\ ~Storable(row[2], m) -> Refused(s, row)
        [] OTHER ->
             [labels  |-> Insert(s.labels, id, row[1]),
              windows |-> [known EXCEPT ![w] = InsertIntoWindow(@, row[2], m, id % window_size)],
              mapper  |-> m,
              flat    |-> Append(s.flat, row[2])]

(* Add of one row, in an index that may change.  Windows are made for as many rows  *)
(* as the call has, also when they are refused.                                  *)
SINDIAdd(label, vec) ==
  /\ ~sindi.immutable
  /\ doc_count < MaxDocs
  /\ LET room == WindowOf(doc_count)
         s == AddRow([Loaded EXCEPT !.windows = IF room > Len(@) THEN Append(@, EmptyWindow)
                                                                 ELSE @],
                     <<label, vec>>)
     IN /\ sindi_labels' = s.labels /\ windows' = s.windows
        /\ mapper' = s.mapper /\ rerank_flat' = s.flat
  /\ UNCHANGED <<sindi, immutable_data, sindi_removed>>

-----------------------------------------------------------------------------
(* The immutable form: the lists of a window end to end, with their offsets. *)

TermsOf(w) == SetToSortSeq({t \in DOMAIN w.lists : w.lists[t] # <<>>}, <)

(* compact_window_to_immutable: with remapping only the terms that occur have an    *)
(* offset, otherwise every term has one.                                        *)
compact_window_to_immutable(w) ==
  LET terms == IF sindi.remap THEN TermsOf(w) ELSE [i \in 1 .. term_id_limit + 1 |-> i - 1]
      ends(n) == FoldLeft(LAMBDA sum, t : sum + Len(w.lists[t]), 0, SubSeq(terms, 1, n))
  IN  [sorted_global_terms |-> IF sindi.remap THEN terms ELSE <<>>,
       offsets  |-> [i \in 1 .. Len(terms) + 1 |-> ends(i - 1)],
       payloads |-> FlattenSeq([i \in 1 .. Len(terms) |-> w.lists[terms[i]]])]

(* build_immutable, once, from all rows. *)
BuildImmutable(rows) ==
  /\ sindi.immutable /\ ~immutable_data.built
  /\ LET s == FoldLeft(AddRow, Loaded, rows)
     IN /\ immutable_data' = [built |-> TRUE,
             windows |-> [i \in 1 .. Len(s.windows) |-> compact_window_to_immutable(s.windows[i])]]
        /\ windows' = <<>>
        /\ sindi_labels' = s.labels /\ mapper' = s.mapper /\ rerank_flat' = s.flat
  /\ UNCHANGED <<sindi, sindi_removed>>

(* Remove, in the only mode there is. *)
SINDIRemove(label) ==
  /\ NewlyRemoved(sindi_labels, {label}) # {}
  /\ sindi_labels' = MarkRemove(sindi_labels, {label})
  /\ sindi_removed' = sindi_removed + 1
  /\ UNCHANGED <<sindi, windows, immutable_data, mapper, rerank_flat>>

(* SparseTermDataCell::Deserialize counts up to the largest document it reads. *)
TotalRestored(w) ==
  LET ids == UNION {{w.lists[t][i][1] : i \in 1 .. Len(w.lists[t])} : t \in DOMAIN w.lists}
  IN  IF ids = {} THEN 0 ELSE 1 + CHOOSE d \in ids : \A e \in ids : e <= d

(* Serialize, then Deserialize into a new index. *)
SINDISaveAndLoad ==
  /\ doc_count > 0
  /\ sindi_labels' = LoadTableFormat(sindi_labels)
  /\ sindi_removed' = 0
  /\ windows' = [i \in DOMAIN windows |-> [windows[i] EXCEPT !.total = TotalRestored(windows[i])]]
  /\ UNCHANGED <<sindi, immutable_data, mapper, rerank_flat>>

-----------------------------------------------------------------------------
(* Searching.  A search is a record: mode, k (topk), ef (n_candidate), bound (radius *)
(* less 1, as the stored distances are), limit (range_search_limit_size, -1 for none), *)
(* allowed (the labels a filter lets through, or NoFilter) and byTermLists.           *)

NoFilter == {-1}

Farther(x, y) == x[1] > y[1] \/ (x[1] = y[1] /\ x[2] > y[2])

HeapTop(heap) == CHOOSE x \in heap : \A y \in heap : x = y \/ Farther(x, y)

HeapPop(heap) == heap \ {HeapTop(heap)}

(* while (heap.size() > k) heap.pop() *)
PopTo(heap, k) ==
  {x \in heap : Cardinality({y \in heap : Farther(x, y)}) < k}

(* create_search_filter: the tombstones and the filter of the caller. *)
FilterPasses(p, id) ==
  /\ id \notin sindi_labels.deleted
  /\ p.allowed = NoFilter \/ sindi_labels.table[id] \in p.allowed

num_windows == IF immutable_data.built THEN Len(immutable_data.windows) ELSE Len(windows)

(* GetValidIds: a filter knows its ids only while it is the only filter. *)
ValidIds(p) ==
  IF p.allowed = NoFilter \/ sindi_labels.deleted # {} THEN {}
  ELSE {sindi_labels.remap[l] : l \in {m \in p.allowed : CheckLabel(sindi_labels, m)}}

get_min_max_window_id(p) ==
  LET ids == ValidIds(p)
  IN  IF ids = {} THEN <<1, num_windows>>
      ELSE <<WindowOf(CHOOSE i \in ids : \A j \in ids : i <= j),
             WindowOf(CHOOSE i \in ids : \A j \in ids : i >= j)>>

(* The state of a search: the buffer, the heap and cur_heap_top. *)
FLT_MAX == 1000000

(* fill_heap_initial: a document without a common term is passed over. *)
fill_heap_initial(st, p, doc, id) ==
  CASE st.dists[doc] >= 0  -> st
    [] st.dists[doc] < 0 /\ ~FilterPasses(p, id)  -> [st EXCEPT !.dists[doc] = 0]
    [] OTHER -> LET heap == st.heap \cup {<<st.dists[doc], id>>}
                IN  [dists |-> [st.dists EXCEPT ![doc] = 0], heap |-> heap,
                     top |-> HeapTop(heap)[1]]

(* Variant: the buffer is not cleared behind a document that is turned down. *)
InsertKeepingDist(st, p, doc, id) ==
  IF st.dists[doc] > st.top \/ ~FilterPasses(p, id) THEN st
  ELSE LET heap == HeapPop(st.heap \cup {<<st.dists[doc], id>>})
       IN  [dists |-> [st.dists EXCEPT ![doc] = 0], heap |-> heap,
            top |-> IF p.mode = "KNN" THEN HeapTop(heap)[1] ELSE p.bound]

(* insert_candidate_into_heap; the immutable form also keeps a range within its limit. *)
insert_candidate_into_heap(st, p, doc, id) ==
  LET cleared == [st.dists EXCEPT ![doc] = 0]
      pushed  == st.heap \cup {<<st.dists[doc], id>>}
      bounded == immutable_data.built /\ p.limit >= 0
      range   == IF bounded THEN PopTo(pushed, p.limit) ELSE pushed
  IN  IF \/ st.dists[doc] > st.top
         \/ ~FilterPasses(p, id)
         \/ p.mode = "RANGE" /\ bounded /\ p.limit = 0
      THEN [st EXCEPT !.dists = cleared]
      ELSE IF p.mode = "KNN"
           THEN [dists |-> cleared, heap |-> HeapPop(pushed), top |-> HeapTop(HeapPop(pushed))[1]]
           ELSE [dists |-> cleared, heap |-> range,
                 top |-> IF bounded /\ Cardinality(range) = p.limit THEN HeapTop(range)[1]
                                                                    ELSE p.bound]

ScoreDocument(st, p, doc, id) ==
  IF p.mode = "KNN" /\ Cardinality(st.heap) < p.ef
  THEN fill_heap_initial(st, p, doc, id)
  ELSE insert_candidate_into_heap(st, p, doc, id)

(* remap_sparse_vector_for_query: the stored ids of the query's terms, heaviest first, *)
(* as <<stored id, weight>>; terms no document has are dropped.                      *)
QueryTerms(query) ==
  LET known == SelectSeq(ByWeight(query), LAMBDA t : ~sindi.remap \/ Contains(mapper, t))
  IN  [i \in 1 .. Len(known) |->
         <<IF sindi.remap THEN CompactId(mapper, known[i]) ELSE known[i], query[known[i]]>>]

(* get_immutable_local_term, as a set of at most one index. *)
get_immutable_local_term(win, term) ==
  {i \in 1 .. Len(win.offsets) - 1 :
     IF sindi.remap THEN win.sorted_global_terms[i] = term ELSE i = term + 1}

(* The postings of a stored term in a window. *)
Postings(w, term) ==
  IF ~immutable_data.built
  THEN IF term \in DOMAIN windows[w].lists THEN windows[w].lists[term] ELSE <<>>
  ELSE LET win == immutable_data.windows[w]
           at  == get_immutable_local_term(win, term)
       IN  IF at = {} THEN <<>>
           ELSE LET i == CHOOSE i \in at : TRUE
                IN  SubSeq(win.payloads, win.offsets[i] + 1, win.offsets[i + 1])

(* Documents of a window: total_count_, or the share of cur_element_count_. *)
DocsIn(w) ==
  IF ~immutable_data.built THEN windows[w].total
  ELSE LET rest == doc_count - (w - 1) * window_size
       IN  IF rest < window_size THEN rest ELSE window_size

(* Query, then InsertHeapByTermLists or InsertHeapByDists, of one window. *)
SearchWindow(st, p, terms, w) ==
  LET start == (w - 1) * window_size
      Accumulate(dists, t) ==
        FoldLeft(LAMBDA d, e : [d EXCEPT ![e[1]] = @ - t[2] * e[2]], dists, Postings(w, t[1]))
      buffer == IF ~immutable_data.built THEN st.dists ELSE [d \in DOMAIN st.dists |-> 0]
      order == IF p.byTermLists
               THEN FlattenSeq([i \in 1 .. Len(terms) |->
                      [j \in 1 .. Len(Postings(w, terms[i][1])) |-> Postings(w, terms[i][1])[j][1]]])
               ELSE [i \in 1 .. DocsIn(w) |-> i - 1]
  IN  FoldLeft(LAMBDA s, doc : ScoreDocument(s, p, doc, start + doc),
               [dists |-> FoldLeft(Accumulate, buffer, terms), heap |-> st.heap,
                top |-> IF p.mode = "KNN" THEN FLT_MAX ELSE p.bound],
               order)

(* search_impl and immutable_search_impl, without rerank: <<distance, id>> pairs. *)
SINDISearch(p, query) ==
  LET terms  == QueryTerms(query)
      span   == get_min_max_window_id(p)
      start  == [dists |-> [d \in 0 .. window_size - 1 |-> 0], heap |-> {}, top |-> FLT_MAX]
      end    == FoldLeft(LAMBDA st, w : SearchWindow(st, p, terms, w), start,
                         [i \in 1 .. span[2] - span[1] + 1 |-> span[1] + i - 1])
  IN  IF terms = <<>> THEN {}
      ELSE CASE p.mode = "KNN"  -> PopTo(end.heap, p.k)
             [] p.mode # "KNN" /\ p.limit # -1 -> PopTo(end.heap, p.limit)
             [] OTHER           -> end.heap

SINDINext ==
  \/ \E l \in Label, vec \in Doc : l <= doc_count /\ SINDIAdd(l, vec)
  \/ \E v1, v2, v3 \in Doc, l \in 0 .. 2 :
       BuildImmutable(<<<<0, v1>>, <<1, v2>>, <<l, v3>>>>)
  \/ \E l \in Label : SINDIRemove(l)
  \/ SINDISaveAndLoad

SINDISpec == SINDIInit /\ [][SINDINext]_sindiVars

-----------------------------------------------------------------------------
(* Properties *)

(* What the postings keep of a document. *)
Kept(vec) == {DocPrune(vec)[i] : i \in 1 .. Len(DocPrune(vec))}

TrueDistance(vec, query) ==
  0 - FoldSet(LAMBDA t, sum : sum + vec[t] * query[t], 0, Kept(vec) \cap DOMAIN query)

Candidates(p, query) ==
  {<<TrueDistance(rerank_flat[id + 1], query), id>> :
     id \in {i \in 0 .. doc_count - 1 : FilterPasses(p, i)}}

(* A label that was removed and added again comes back twice after a reload. *)
LabelsAreUnique ==
  \A i, j \in DOMAIN sindi_labels.table \ sindi_labels.deleted :
    sindi_labels.table[i] = sindi_labels.table[j] => i = j

Filters == {NoFilter, {0}, {1, 2}}

(* A k-nearest search returns the k documents with the largest positive inner product *)
(* among those that may be returned, across windows, with either way of filling the   *)
(* heap (search_impl with InsertHeapByTermLists or InsertHeapByDists), in the mutable  *)
(* and in the immutable form, and with the windows narrowed to the ids of a filter.    *)
KnnIsExact ==
  doc_count > 0 /\ LabelsAreUnique =>
    \A query \in SparseQuery, k \in 1 .. 2, more \in 0 .. 1, allowed \in Filters, byLists \in BOOLEAN :
      LET p == [mode |-> "KNN", k |-> k, ef |-> k + more, bound |-> 0, limit |-> -1,
                allowed |-> allowed, byTermLists |-> byLists]
      IN  SINDISearch(p, query) = PopTo({c \in Candidates(p, query) : c[1] < 0}, k)

(* A range search with a radius below 1 returns exactly the documents within it, or    *)
(* the nearest of them up to its limit (RangeSearch).                                 *)
RangeIsExact ==
  doc_count > 0 /\ LabelsAreUnique =>
    \A query \in SparseQuery, bound \in {-1, -3}, limit \in {-1, 1, 2}, allowed \in Filters,
       byLists \in BOOLEAN :
      LET p == [mode |-> "RANGE", k |-> 0, ef |-> 0, bound |-> bound, limit |-> limit,
                allowed |-> allowed, byTermLists |-> byLists]
          within == {c \in Candidates(p, query) : c[1] <= bound}
      IN  SINDISearch(p, query) = IF limit = -1 THEN within ELSE PopTo(within, limit)

(* What a document's stored terms are, read back through the mapper. *)
StoredTerms(id) ==
  LET w == WindowOf(id)
      known == IF sindi.remap THEN 0 .. Len(mapper) - 1 ELSE 0 .. term_id_limit
      has(t) == \E i \in 1 .. Len(Postings(w, t)) : Postings(w, t)[i][1] = id % window_size
  IN  {IF sindi.remap THEN mapper[t + 1] ELSE t : t \in {u \in known : has(u)}}

(* After any mix of rows taken and refused, id i of the postings, of the reranking     *)
(* vectors and of the label table is the same document (Add, build_immutable).         *)
PartsAreAligned ==
  /\ Cardinality(DOMAIN sindi_labels.table) = doc_count
  /\ \A id \in 0 .. doc_count - 1 : StoredTerms(id) = Kept(rerank_flat[id + 1])
  /\ \A i, j \in DOMAIN mapper : mapper[i] = mapper[j] => i = j

(* The postings, the rerank rows and the labels are of the same documents, and the searches *)
(* over them are exact.                                                                  *)
SINDISearchIsExact == PartsAreAligned /\ KnnIsExact /\ RangeIsExact

=============================================================================
