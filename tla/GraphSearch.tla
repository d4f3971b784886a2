---------------------------- MODULE GraphSearch ----------------------------
(***************************************************************************)
(* One query against HGraph: the best-first search of BasicSearcher over   *)
(* the bottom graph (k nearest, range, and the iterator that is called     *)
(* again for more), the exhaustive scan that replaces it for a selective   *)
(* filter, and the trimming of the result.  The search holds the global    *)
(* lock shared, so the graph does not change under it.  Distances to the   *)
(* query are a constant; a graph is chosen as the search reads it.         *)
(***************************************************************************)
EXTENDS Integers, FiniteSets, SequencesExt, TLC

CONSTANTS
  Node,       \* inner ids that are in the graph
  Copies,     \* Copies[n]: duplicates of n, which the graph only knows by n
  Dist,       \* distance to the query of every inner id
  SearchDegree,  \* of the bottom graph
  Requests,   \* the requests to try, see RequestType
  MaxRounds   \* calls of the iterator

Elem == Node \cup UNION {Copies[n] : n \in Node}
Infinite == 1000     \* numeric_limits<float>::max() and <uint32_t>::max()

RequestType ==
  [mode : {"knn", "range", "iterator"}, ef_search : Nat, radius : Nat,
   k : Nat,                \* topk, or limited_size_ (0 for a range without a limit)
   idOk : SUBSET Elem,     \* elements the id filter (with the deleted ids) lets pass
   attrOk : SUBSET Elem,   \* elements the attribute expression lets pass
   hops_limit : Nat, skips : BOOLEAN, timed : BOOLEAN,
   scans : BOOLEAN,        \* ValidRatio() <= brute_force_threshold
   reorders : BOOLEAN]     \* use_reorder_ and enable_reorder

VARIABLES
  req, ep, graph,                        \* the query and what it reads
  phase, top, cand, lower, visited, todo, hops,  \* one search_impl
  discard, marked, first,                \* IteratorFilterContext
  result, given, round                   \* the answer; all answers before it

iterator == <<discard, marked, first>>
heaps == <<top, cand, lower>>
answers == <<result, given, round>>
searchVars == <<req, ep, graph, phase, heaps, visited, todo, hops, iterator, answers>>

Farthest(S) == {e \in S : \A x \in S : Dist[x] <= Dist[e]}
Nearest(S) == {e \in S : \A x \in S : Dist[e] <= Dist[x]}

\* Popping a max-heap of S until it holds n: any of equals may go.
KeepNearest(S, n) ==
  {T \in SUBSET S : /\ Cardinality(T) = IF Cardinality(S) < n THEN Cardinality(S) ELSE n
                    /\ \A kept \in T, gone \in S \ T : Dist[kept] <= Dist[gone]}

BoundOf(S, old) == IF S = {} THEN old ELSE Dist[CHOOSE e \in Farthest(S) : TRUE]

ef == IF req.k > req.ef_search THEN req.k ELSE req.ef_search
Allowed == IF req.mode = "iterator" THEN req.idOk ELSE req.idOk \cap req.attrOk
InRange(e) == req.mode = "range" => Dist[e] <= req.radius

\* The context keeps the ef_search nearest of what it is given.
AddDiscardNodes(S) == KeepNearest(discard \cup S, req.ef_search)

CheckPoint(e) == e \notin marked

SearchTypeOK ==
  /\ req \in RequestType /\ ep \in Node
  /\ DOMAIN graph \subseteq Node /\ \A n \in DOMAIN graph : graph[n] \subseteq Node \ {n}
  /\ phase \in {"ready", "loop", "scan", "trim", "done"}
  /\ top \subseteq Elem /\ cand \subseteq Node
  /\ lower \in Nat /\ hops \in Nat /\ round \in 1 .. MaxRounds
  /\ visited \subseteq Elem /\ todo \subseteq visited
  /\ Cardinality(discard) <= req.ef_search
  /\ marked \subseteq given /\ first \in BOOLEAN
  /\ result \subseteq Elem /\ given \subseteq Elem

SearchInit ==
  /\ req \in Requests /\ ep \in Node /\ graph = <<>>
  /\ phase = "ready" /\ top = {} /\ cand = {} /\ lower = Infinite
  /\ visited = {} /\ todo = {} /\ hops = 0
  /\ discard = {} /\ marked = {} /\ first = TRUE
  /\ result = {} /\ given = {} /\ round = 1

-----------------------------------------------------------------------------
(* The searcher.                                                            *)

\* The first hop looks at the entry point the descent ended in.
Begin ==
  /\ phase = "ready" /\ ~req.scans /\ (req.mode = "iterator" => first)
  /\ top' = {e \in {ep} : e \in Allowed /\ InRange(e)}
  /\ lower' = IF ep \in Allowed THEN Dist[ep] ELSE Infinite
  /\ cand' = {ep} /\ visited' = {ep} /\ hops' = 0 /\ phase' = "loop"
  /\ UNCHANGED <<req, ep, graph, todo, iterator, answers>>

\* A later call of the iterator starts from what the calls before discarded.
Resume ==
  /\ phase = "ready" /\ req.mode = "iterator" /\ ~first /\ discard # {}
  /\ LET seeds == {e \in discard : CheckPoint(e)} IN
       \E kept \in KeepNearest(seeds, ef) :
         /\ top' = kept /\ cand' = seeds /\ discard' = seeds \ kept
         /\ lower' = BoundOf(kept, Infinite)
  /\ visited' = discard /\ hops' = 0 /\ phase' = "loop"
  /\ UNCHANGED <<req, ep, graph, todo, marked, first, answers>>

\* Nothing was discarded: the search returns at once.
ResumeEmpty ==
  /\ phase = "ready" /\ req.mode = "iterator" /\ ~first /\ discard = {}
  /\ top' = {} /\ cand' = {} /\ phase' = "trim"
  /\ UNCHANGED <<req, ep, graph, lower, visited, todo, hops, iterator, answers>>

TooManyHops == hops + 1 >= req.hops_limit
\* Variant: the bound is trusted before the heap is full.
BoundReachedEarly(c) == req.mode # "range" /\ Dist[c] > lower
BoundReached(c) == req.mode # "range" /\ Dist[c] > lower /\ Cardinality(top) = ef

\* The ways the loop ends.
Stop ==
  /\ phase = "loop"
  /\ \/ cand = {}
     \/ TooManyHops
     \/ req.timed
     \/ \E c \in Nearest(cand) : BoundReached(c)
  /\ phase' = "trim"
  /\ UNCHANGED <<req, ep, graph, heaps, visited, todo, hops, iterator, answers>>

\* Read a candidate's neighbours and mark them; with a skip strategy, some of
\* those the id filter refuses are not looked at, but never all.
Visit(c, neighbors) ==
  LET fresh == neighbors \ visited IN
  /\ phase = "loop" /\ c \in Nearest(cand) /\ ~TooManyHops /\ ~BoundReached(c)
  /\ c \in DOMAIN graph => graph[c] = neighbors
  /\ graph' = (c :> neighbors) @@ graph
  /\ cand' = cand \ {c} /\ hops' = hops + 1
  /\ visited' = visited \cup neighbors
  /\ \E skipped \in SUBSET (fresh \ req.idOk) :
       /\ skipped # {} => req.skips /\ skipped # fresh
       /\ todo' = fresh \ skipped
  /\ phase' = IF todo' = {} THEN "loop" ELSE "scan"
  /\ UNCHANGED <<req, ep, top, lower, iterator, answers>>

Wanted(e) ==
  \/ Cardinality(top) < ef
  \/ lower > Dist[e]
  \/ req.mode = "range" /\ Dist[e] <= req.radius

\* What a wanted node brings with it.
Found(e) ==
  Allowed \cap IF req.mode = "iterator" THEN {e} ELSE {e} \cup Copies[e]

\* Put a neighbour into both heaps; at most one element leaves the full one.
Keep(e) ==
  LET grown == top \cup Found(e)
      full == req.mode # "range" /\ Cardinality(grown) > ef
  IN /\ cand' = cand \cup {e}
     /\ \E out \in IF full THEN Farthest(grown) ELSE {Infinite} :
          /\ top' = grown \ {out}
          /\ lower' = BoundOf(top', lower)
          /\ IF full /\ req.mode = "iterator"
               THEN discard' \in AddDiscardNodes({out})
               ELSE UNCHANGED discard

\* Variant: the iterator's marks are not consulted.
ScanUnchecked(e) ==
  /\ phase = "scan" /\ e \in todo
  /\ IF Wanted(e) THEN Keep(e) ELSE UNCHANGED <<heaps, discard>>
  /\ todo' = todo \ {e}
  /\ phase' = IF todo' = {} THEN "loop" ELSE "scan"
  /\ UNCHANGED <<req, ep, graph, visited, hops, marked, first, answers>>

Scan(e) ==
  /\ phase = "scan" /\ e \in todo
  /\ IF Wanted(e) /\ (req.mode = "iterator" => CheckPoint(e))
       THEN Keep(e)
       ELSE UNCHANGED <<heaps, discard>>
  /\ todo' = todo \ {e}
  /\ phase' = IF todo' = {} THEN "loop" ELSE "scan"
  /\ UNCHANGED <<req, ep, graph, visited, hops, marked, first, answers>>

-----------------------------------------------------------------------------
(* What HGraph makes of the searcher's heap.                                *)

Limit == IF req.mode = "range" /\ req.k = 0 THEN Infinite ELSE req.k
Answer(R) == result' = R /\ given' = given \cup R /\ UNCHANGED round

Trim ==
  /\ phase = "trim" /\ req.mode # "iterator"
  /\ \E R \in KeepNearest({e \in top : InRange(e)}, Limit) : Answer(R)
  /\ phase' = "done"
  /\ UNCHANGED <<req, ep, graph, heaps, visited, todo, hops, iterator>>

\* The array a max-heap of S may be laid out in.
HeapArrays(S) ==
  {a \in [1 .. Cardinality(S) -> S] :
     /\ \A i, j \in DOMAIN a : i # j => a[i] # a[j]
     /\ \A i \in DOMAIN a : i > 1 => Dist[a[i \div 2]] >= Dist[a[i]]}

\* FlattenReorder::Reorder: a bounded heap of k, filled in array order.
\* What it evicts is discarded; what it does not let in is not.
ReorderStep(h, e) ==
  LET worst == CHOOSE x \in Farthest(h.kept \cup {e}) : TRUE IN
  CASE Cardinality(h.kept) < req.k -> [h EXCEPT !.kept = @ \cup {e}]
    [] Cardinality(h.kept) >= req.k /\ worst # e ->
         [kept |-> (h.kept \cup {e}) \ {worst}, evicted |-> h.evicted \cup {worst}]
    [] OTHER -> h

Reorder(array) == FoldLeft(ReorderStep, [kept |-> {}, evicted |-> {}], array)

\* The elements returned are marked; an empty answer leaves the context as new
\* as it was.
Deliver(R) ==
  /\ Answer(R)
  /\ marked' = marked \cup R
  /\ first' = (first /\ R = {})
  /\ phase' = "done"

TrimIterator ==
  /\ phase = "trim" /\ req.mode = "iterator"
  /\ IF req.reorders
       THEN \E array \in HeapArrays(top) :
              LET h == Reorder(array) IN
              Deliver(h.kept) /\ discard' \in AddDiscardNodes(h.evicted)
       ELSE \E R \in KeepNearest(top, req.k) :
              Deliver(R) /\ discard' \in AddDiscardNodes(top \ R)
  /\ UNCHANGED <<req, ep, graph, heaps, visited, todo, hops>>

\* is_last_filter: the discarded elements themselves are the answer.
DrainDiscarded ==
  /\ phase = "ready" /\ req.mode = "iterator"
  /\ \E R \in KeepNearest(discard, req.k) : Deliver(R) /\ discard' = discard \ R
  /\ UNCHANGED <<req, ep, graph, heaps, visited, todo, hops>>

\* The exhaustive scan only knows the id filter.
BruteForceSearch ==
  /\ phase = "ready" /\ req.mode # "iterator" /\ req.scans
  /\ \E R \in KeepNearest({e \in req.idOk : InRange(e)}, Limit) : Answer(R)
  /\ phase' = "done"
  /\ UNCHANGED <<req, ep, graph, heaps, visited, todo, hops, iterator>>

NextCall ==
  /\ phase = "done" /\ req.mode = "iterator" /\ round < MaxRounds
  /\ round' = round + 1 /\ result' = {} /\ phase' = "ready"
  /\ UNCHANGED <<req, ep, graph, heaps, visited, todo, hops, iterator, given>>

Neighborhoods(n) == {S \in SUBSET (Node \ {n}) : Cardinality(S) <= SearchDegree}

SearchNext ==
  \/ Begin \/ Resume \/ ResumeEmpty \/ Stop
  \/ \E c \in cand : \E neighbors \in Neighborhoods(c) : Visit(c, neighbors)
  \/ \E e \in todo : Scan(e)
  \/ Trim \/ TrimIterator \/ DrainDiscarded \/ BruteForceSearch \/ NextCall

SearchSpec == SearchInit /\ [][SearchNext]_searchVars
-----------------------------------------------------------------------------
(* Properties.                                                              *)

Edges == {e \in (DOMAIN graph) \X Node : e[2] \in graph[e[1]]}

\* What can be reached from the entry point over the nodes of S.
RECURSIVE ReachFrom(_, _)
ReachFrom(S, from) ==
  LET next == {e[2] : e \in {d \in Edges : d[1] \in from /\ d[2] \in S}} IN
  IF next \subseteq from THEN from ELSE ReachFrom(S, from \cup next)

\* The nodes whose distance was compared with the heaps.
Compared == {n \in Node \cap visited : n \notin todo} \ (IF req.skips THEN Node \ req.idOk ELSE {})

\* A node the search looked at and let go is no nearer than any it kept, and
\* then the heap was full: no order of the neighbours makes top_candidates
\* lose one of the ef nearest (search_impl, lower_bound and the one Pop).
LetGoIsFarther ==
  \A e \in (Compared \cap Allowed) \ (top \cup marked) :
    /\ phase \in {"loop", "scan", "trim"} /\ req.mode = "knn"
    => /\ Cardinality(top) >= ef
       /\ \A kept \in top : Dist[kept] <= Dist[e]

\* With ef_search at least the number of elements and no limit on hops or
\* time, the answer is exact: the k nearest of the allowed elements whose node
\* can be reached, and all of those were read.  (The code never asks for the
\* duplicates of the entry point.)
WideSearchIsExact ==
  phase = "done" /\ req.mode = "knn" /\ ~req.scans /\ req.ef_search >= Cardinality(Elem)
     /\ req.hops_limit = Infinite /\ ~req.timed /\ ~req.skips
  => LET reached == ReachFrom(Node, {ep})
         all == reached \cup UNION {Copies[n] : n \in reached \ {ep}}
     IN /\ reached \subseteq DOMAIN graph
        /\ result \in KeepNearest(all \cap Allowed, req.k)

\* A range search without a limit returns every allowed element in range whose
\* node can be reached over nodes in range, however small ef_search is, and
\* nothing out of range.
RangeIsCovered ==
  phase = "done" /\ req.mode = "range" /\ ~req.scans /\ ~req.skips
  => LET near == {n \in Node : Dist[n] <= req.radius}
         reached == IF ep \in near THEN ReachFrom(near, {ep}) ELSE {}
     IN /\ result \subseteq {e \in Elem : Dist[e] <= req.radius}
        /\ req.k = 0 => reached \cap Allowed \subseteq result /\ reached \subseteq DOMAIN graph

\* No call of the iterator returns what a call before it returned, although
\* each starts with a fresh visited list (SetPoint and CheckPoint).
NeverReturnedAgain == [][phase' = "done" /\ phase # "done" => result' \cap given = {}]_searchVars

\* When the context has room for every element, a call of the iterator that
\* returns fewer than k has nothing left to return.
ShortRoundMeansExhausted ==
  phase = "done" /\ req.mode = "iterator" /\ ~first /\ req.ef_search >= Cardinality(Node)
     /\ ~req.skips /\ Cardinality(result) < req.k
  => LET reached == ReachFrom(Node, {ep}) IN
     reached \subseteq DOMAIN graph /\ reached \cap Allowed \subseteq given

\* The same where the results are not reordered by precise distances.
ShortPlainRoundMeansExhausted == ~req.reorders => ShortRoundMeansExhausted

\* Every element of the answer passes both the id filter and the attribute
\* expression of the request.
AnswerPassesFilters == result \subseteq Allowed

\* The same for the requests the graph search answers.
GraphAnswerPassesFilters == ~req.scans => AnswerPassesFilters

\* One search expands a node at most once, so it ends after as many hops as
\* there are nodes, whatever the graph (the visited list).
EachNodeExpandedOnce == hops <= Cardinality(Node)

\* The search keeps the nearest of what it may return and expands nothing twice, and
\* an iterator is short only when there is nothing left.
SearchKeepsTheNearest ==
  /\ SearchTypeOK /\ LetGoIsFarther /\ EachNodeExpandedOnce
  /\ WideSearchIsExact /\ RangeIsCovered /\ ShortPlainRoundMeansExhausted
  /\ GraphAnswerPassesFilters

=============================================================================
