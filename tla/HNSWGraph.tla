------------------------------ MODULE HNSWGraph ------------------------------
(***************************************************************************)
(* algorithm/hnswlib with reversed edges (fresh_hnsw): the graph under insertion  *)
(* and under removal that closes the gap.                                       *)
(*                                                                         *)
(* Every level keeps the out-lists and, for removal, the set of in-edges of each   *)
(* element.  removePoint swaps the element with the last one, picks a new entry     *)
(* point, and reconnects every in-neighbour with the out-neighbours.               *)
(*                                                                         *)
(* A label stands for its vector, a point on a line.  ef_construction is at least    *)
(* the number of elements, so the search of a level finds what is reachable there.   *)
(* The whole graph is one value: per level [out, in].                              *)
(***************************************************************************)
EXTENDS Integers, FiniteSets, Sequences, SequencesExt, LabelTable

CONSTANTS GraphLabel,  \* the labels, which are also the positions
          M,         \* M_; maxM_ is M and maxM0_ twice M
          MaxLevel   \* bound on the level drawn for an element

VARIABLES graph_labels,  \* id + 1 -> external label
          element_levels,  \* id + 1 -> level
          graph_lookup,    \* label_lookup_
          levels,          \* level -> [out |-> id -> list, in |-> id -> set]
          entry,           \* enterpoint_node_
          max_level        \* max_level_

graphVars == <<graph_labels, element_levels, graph_lookup, levels, entry, max_level>>

Slot == 0 .. Cardinality(GraphLabel) - 1
NoEdges == [out |-> [s \in Slot |-> <<>>], in |-> [s \in Slot |-> {}]]

HNSWGraphInit ==
  /\ graph_labels = <<>> /\ element_levels = <<>>
  /\ graph_lookup = [l \in {} |-> 0]
  /\ levels = [v \in 0 .. MaxLevel |-> NoEdges]
  /\ entry = INVALID_ID /\ max_level = -1

count == Len(graph_labels)
m_curmax(level) == IF level = 0 THEN 2 * M ELSE M
SetOf(list) == {list[i] : i \in 1 .. Len(list)}

-----------------------------------------------------------------------------
(* Lists.  p is the vector of each id. *)

PointDist(p, i, j) == IF p[i] < p[j] THEN p[j] - p[i] ELSE p[i] - p[j]

(* The order in which a MaxHeap of (distance to base, id) is emptied. *)
FarthestFirst(p, base, ids) ==
  SetToSortSeq(ids, LAMBDA i, j : \/ PointDist(p, base, i) > PointDist(p, base, j)
                                  \/ PointDist(p, base, i) = PointDist(p, base, j) /\ i > j)

NearestFirst(p, base, ids) ==
  SetToSortSeq(ids, LAMBDA i, j : \/ PointDist(p, base, i) < PointDist(p, base, j)
                                  \/ PointDist(p, base, i) = PointDist(p, base, j) /\ i > j)

getNeighborsByHeuristic2(p, base, ids, limit) ==
  LET Keep(kept, i) == IF /\ Cardinality(kept) < limit
                          /\ \A k \in kept : PointDist(p, k, i) >= PointDist(p, base, i)
                       THEN kept \cup {i} ELSE kept
  IN  IF Cardinality(ids) < limit THEN ids ELSE FoldLeft(Keep, {}, NearestFirst(p, base, ids))

(* updateConnectionsNoLock; of a new element there is nothing to take back. *)
updateConnections(g, id, list) ==
  [out |-> [g.out EXCEPT ![id] = list],
   in  |-> [s \in Slot |-> (g.in[s] \ (IF s \in SetOf(g.out[id]) THEN {id} ELSE {}))
                           \cup (IF s \in SetOf(list) THEN {id} ELSE {})]]

(* Variant: the pruned list forgets to take its reversed edges back. *)
ConnectBackForgetting(g, p, n, c, limit) ==
  LET list == FarthestFirst(p, n, getNeighborsByHeuristic2(p, n, SetOf(g.out[n]) \cup {c}, limit))
  IN  IF c \in SetOf(g.out[n]) THEN g
      ELSE IF Len(g.out[n]) < limit THEN [g EXCEPT !.out[n] = Append(@, c), !.in[c] = @ \cup {n}]
      ELSE [out |-> [g.out EXCEPT ![n] = list],
            in  |-> [s \in Slot |-> g.in[s] \cup (IF s \in SetOf(list) THEN {n} ELSE {})]]

(* Neighbour n of c links back, pruning a full list. *)
ConnectBack(g, p, n, c, limit) ==
  IF c \in SetOf(g.out[n]) THEN g
  ELSE IF Len(g.out[n]) < limit THEN [g EXCEPT !.out[n] = Append(@, c), !.in[c] = @ \cup {n}]
  ELSE updateConnections(g, n, FarthestFirst(p, n,
         getNeighborsByHeuristic2(p, n, SetOf(g.out[n]) \cup {c}, limit)))

mutuallyConnectNewElement(g, p, c, candidates, limit) ==
  LET selected == FarthestFirst(p, c, getNeighborsByHeuristic2(p, c, candidates, M))
      Back(h, n) == ConnectBack(h, p, n, c, limit)
  IN  FoldLeft(Back, updateConnections(g, c, selected), selected)

-----------------------------------------------------------------------------
(* addPoint *)

Links == [Slot -> Seq(Slot)]
Level == [out : Links, in : [Slot -> SUBSET Slot]]
LevelNo == 0 .. MaxLevel
Vectors == [Slot -> Int]
Levels == [LevelNo -> Level]

Reachable[g \in Links, found \in SUBSET Slot] ==
  LET more == found \cup UNION {SetOf(g[s]) : s \in found}
  IN  IF more = found THEN found ELSE Reachable[g, more]

(* The descent through the levels above the new element's. *)
Greedy[g \in Links, p \in Vectors, c \in Slot, at \in Slot] ==
  LET Step(best, n) == IF PointDist(p, n, c) < PointDist(p, best, c) THEN n ELSE best
      next == FoldLeft(Step, at, g[at])
  IN  IF next = at THEN at ELSE Greedy[g, p, c, next]

Points(labels) == [s \in Slot |-> IF s < Len(labels) THEN labels[s + 1] ELSE 0]

(* Connect the element on the levels level, level - 1, ..., 0, starting at obj. *)
Connect[gs \in Levels, p \in Vectors, c \in Slot, obj \in Slot, level \in LevelNo \cup {-1}] ==
  IF level < 0 THEN gs
  ELSE LET found   == Reachable[gs[level].out, {obj}]
           g       == mutuallyConnectNewElement(gs[level], p, c, found, m_curmax(level))
           nearest == Last(FarthestFirst(p, c, getNeighborsByHeuristic2(p, c, found, M)))
       IN  Connect[[gs EXCEPT ![level] = g], p, c, nearest, level - 1]

Descend[gs \in Levels, p \in Vectors, c \in Slot, obj \in Slot, level \in LevelNo, to \in LevelNo] ==
  IF level <= to THEN obj
  ELSE Descend[gs, p, c, Greedy[gs[level].out, p, c, obj], level - 1, to]

addPoint(label, level) ==
  LET c      == count
      labels == Append(graph_labels, label)
      p      == Points(labels)
      lower  == IF level < max_level THEN level ELSE max_level
  IN  /\ label \notin DOMAIN graph_lookup
      /\ graph_labels' = labels
      /\ element_levels' = Append(element_levels, level)
      /\ graph_lookup' = InsertOrAssign(graph_lookup, label, c)
      /\ levels' = IF entry = INVALID_ID THEN levels
                   ELSE Connect[levels, p, c, Descend[levels, p, c, entry, max_level, level], lower]
      /\ IF level > max_level THEN entry' = c /\ max_level' = level
                              ELSE UNCHANGED <<entry, max_level>>

-----------------------------------------------------------------------------
(* removePoint *)

Renamed(a, b, s) == IF s = a THEN b ELSE IF s = b THEN a ELSE s

(* Links to old are turned to new, through the in-edges of old. *)
modifyOutEdge(g, old, new) ==
  LET Turn(list) == LET i == SelectInSeq(list, LAMBDA n : n = old)
                    IN  IF i = 0 THEN list ELSE ReplaceAt(list, i, new)
  IN  [g EXCEPT !.out = [s \in Slot |-> IF s \in g.in[old] THEN Turn(g.out[s]) ELSE g.out[s]]]

eraseInEdges(g, right, wrong) ==
  [g EXCEPT !.in = [s \in Slot |-> IF s \in SetOf(g.out[right]) THEN g.in[s] \ {wrong} ELSE g.in[s]]]

insertInEdges(g, right) ==
  [g EXCEPT !.in = [s \in Slot |-> IF s \in SetOf(g.out[right]) THEN g.in[s] \cup {right} ELSE g.in[s]]]

SwapSlots(g, a, b) == [out |-> [s \in Slot |-> g.out[Renamed(a, b, s)]],
                       in  |-> [s \in Slot |-> g.in[Renamed(a, b, s)]]]

(* swapConnections on one level. *)
swapConnections(g, a, b) ==
  LET swapped == SwapSlots(modifyOutEdge(modifyOutEdge(g, a, b), b, a), a, b)
  IN  insertInEdges(insertInEdges(eraseInEdges(eraseInEdges(swapped, a, b), b, a), a), b)

dealNoInEdge(g, id, limit, skip) ==
  LET Link(h, n) == IF n = skip \/ Len(h.out[n]) >= limit THEN h
                    ELSE [h EXCEPT !.out[n] = Append(@, id), !.in[id] = @ \cup {n}]
  IN  IF g.in[id] = {} THEN FoldLeft(Link, g, g.out[id]) ELSE g

(* One in-neighbour n of the element cur_c that goes. *)
Reconnect(g, p, cur_c, n, limit, order) ==
  LET ids == (SetOf(g.out[cur_c]) \ {n}) \cup (SetOf(g.out[n]) \ {cur_c})
      Deal(h, id) == IF id \in ids THEN dealNoInEdge(h, id, limit, cur_c) ELSE h
  IN  IF ids = {} THEN [g EXCEPT !.out[n] = <<>>, !.in[cur_c] = @ \ {n}]
      ELSE FoldLeft(Deal, mutuallyConnectNewElement(g, p, n, ids, limit), order)

(* The list of the freed slot, which addPoint zeroes, is emptied here. *)
RepairLevel(g, p, cur_c, limit, order) ==
  LET Step(h, n) == IF n \in g.in[cur_c] THEN Reconnect(h, p, cur_c, n, limit, order) ELSE h
      h == FoldLeft(Step, g, order)
  IN  [out |-> [h.out EXCEPT ![cur_c] = <<>>],
       in  |-> [s \in Slot |-> IF s \in SetOf(g.out[cur_c]) THEN h.in[s] \ {cur_c} ELSE h.in[s]]]

(* The last element takes the place of the removed one. *)
MoveLabel(lookup, last, id) == InsertOrAssign(lookup, last, id)

(* A neighbour of the entry on its highest level with neighbours; none, and it stays. *)
Successor(gs, cur_c) ==
  LET with == {v \in 0 .. max_level : gs[v].out[cur_c] # <<>>}
      top  == CHOOSE v \in with : \A w \in with : w <= v
  IN  IF with = {} THEN [entry |-> cur_c, level |-> max_level]
                   ELSE [entry |-> gs[top].out[cur_c][1], level |-> top]

(* The sets of ids are walked in hash order; bound: two of the orders. *)
HashOrders == LET up == [i \in 1 .. count |-> i - 1] IN {up, Reverse(up)}

removePoint(label, order) ==
  LET id     == graph_lookup[label]
      cur_c  == count - 1
      swapped == IF id = cur_c THEN levels
                 ELSE [v \in 0 .. MaxLevel |-> swapConnections(levels[v], cur_c, id)]
      labels == [graph_labels EXCEPT ![id + 1] = Last(graph_labels), ![cur_c + 1] = label]
      lvls   == [element_levels EXCEPT ![id + 1] = Last(element_levels),
                                       ![cur_c + 1] = element_levels[id + 1]]
      moved  == Renamed(cur_c, id, entry)
      erased == Erase(graph_lookup, label)
      next   == IF moved = cur_c THEN Successor(swapped, cur_c)
                                 ELSE [entry |-> moved, level |-> max_level]
  IN  /\ label \in DOMAIN graph_lookup
      /\ graph_labels' = Front(labels) /\ element_levels' = Front(lvls)
      /\ graph_lookup' = IF id = cur_c THEN erased
                         ELSE MoveLabel(erased, Last(graph_labels), id)
      /\ IF cur_c = 0
         THEN entry' = INVALID_ID /\ max_level' = -1 /\ UNCHANGED levels
         ELSE /\ levels' = [v \in 0 .. MaxLevel |->
                              IF v > lvls[cur_c + 1] THEN swapped[v]
                              ELSE RepairLevel(swapped[v], Points(labels), cur_c, m_curmax(v), order)]
              /\ entry' = next.entry /\ max_level' = next.level

HNSWGraphNext ==
  \/ \E l \in GraphLabel, v \in 0 .. MaxLevel : addPoint(l, v)
  \/ \E l \in GraphLabel, order \in HashOrders : removePoint(l, order)

HNSWGraphSpec == HNSWGraphInit /\ [][HNSWGraphNext]_graphVars

-----------------------------------------------------------------------------
(* Properties *)

(* What checkReverseConnection tests, and what removal relies on: the reversed edges of   *)
(* every level are exactly the edges turned around, through pruning, swapping and repair. *)
ReversedEdgesExact ==
  \A v \in 0 .. MaxLevel : \A i, j \in 0 .. count - 1 :
    (j \in levels[v].in[i]) <=> (i \in SetOf(levels[v].out[j]))

(* No element is linked to one that is gone, to itself, twice to the same, to one that     *)
(* has no such level, or to more than the level's degree (removePoint,                  *)
(* mutuallyConnectNewElement).                                                        *)
LinksAreSound ==
  \A v \in 0 .. MaxLevel : \A i \in 0 .. count - 1 :
    LET list == levels[v].out[i]
    IN  /\ Cardinality(SetOf(list)) = Len(list) /\ Len(list) <= m_curmax(v)
        /\ \A n \in SetOf(list) : n < count /\ n # i /\ element_levels[n + 1] >= v
        /\ \A n \in levels[v].in[i] : n < count

(* The entry point is an element of the top level. *)
EntryIsAnElement ==
  count > 0 => entry \in 0 .. count - 1 /\ element_levels[entry + 1] >= max_level

(* After any removals and the swaps they make, labels and elements match one to one. *)
LookupMatchesElements ==
  /\ DOMAIN graph_lookup = SetOf(graph_labels)
  /\ \A l \in DOMAIN graph_lookup : /\ graph_lookup[l] < count
                                    /\ graph_labels[graph_lookup[l] + 1] = l

(* What removePoint finds is what addPoint and earlier removals left: sound lists, in-edges   *)
(* that match them, and a lookup that follows every swap.                                   *)
RepairedGraphIsSound == ReversedEdgesExact /\ LinksAreSound /\ LookupMatchesElements

=============================================================================
