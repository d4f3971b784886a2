------------------------------ MODULE GraphCell ------------------------------
(***************************************************************************)
(* datacell: the adjacency lists of one graph and, when use_reverse_edges   *)
(* is set, the reverse edges kept beside them.  A graph is a record          *)
(*                                                                         *)
(*   tracks use_reverse_edges                                                *)
(*   sparse TRUE for a SparseGraphDataCell, FALSE for a GraphDataCell        *)
(*   nodes  the keys of a SparseGraphDataCell's map; {} for a GraphDataCell, *)
(*          an array that has every id                                       *)
(*   nbrs   the neighbour list of every id, {} where there is none           *)
(*   rev    reverse_edges_: for every id the nodes known to point to it      *)
(*   used   total_count_ # 0, all that is asked of total_count_.  Insertions *)
(*          raise it and nothing lowers it, not even Move when it erases a   *)
(*          key, so the number itself grows without bound.                   *)
(*                                                                         *)
(* A list is kept as a set: its order only decides which neighbour is tried  *)
(* first.                                                                    *)
(***************************************************************************)
EXTENDS Integers, FiniteSets

CONSTANT MaxIds   \* bound on the inner ids in use at once

ASSUME MaxIdsIsPositive == MaxIds \in Nat \ {0}

InnerId == 0 .. MaxIds - 1

Graph == [sparse : BOOLEAN, tracks : BOOLEAN, nodes : SUBSET InnerId, nbrs : [InnerId -> SUBSET InnerId],
          rev : [InnerId -> SUBSET InnerId], used : BOOLEAN]

EmptyGraph(sparse, tracks) ==
  [sparse |-> sparse, tracks |-> tracks, nodes |-> {}, nbrs |-> [i \in InnerId |-> {}],
   rev |-> [i \in InnerId |-> {}], used |-> FALSE]

IncomingNeighbors(g, id) == g.rev[id]

(* Variant: what left a list stays in rev. *)
UpdateReverseEdgesAddOnly(g, lists) ==
  IF ~g.tracks THEN g.rev
  ELSE [x \in InnerId |-> g.rev[x] \cup {i \in DOMAIN lists : x \in lists[i]}]

(* UpdateReverseEdges for a set of lists replaced together: what left a list  *)
(* is removed from rev, what entered one is added.                           *)
UpdateReverseEdges(g, lists) ==
  IF ~g.tracks THEN g.rev
  ELSE [x \in InnerId |->
          (g.rev[x] \ {i \in DOMAIN lists : x \in g.nbrs[i] /\ x \notin lists[i]})
            \cup {i \in DOMAIN lists : x \in lists[i] /\ x \notin g.nbrs[i]}]

(* InsertNeighborsById(i, lists[i]) for every i in DOMAIN lists: each call    *)
(* replaces one list and touches no other, so their order does not matter.   *)
Relist(g, lists) == [i \in InnerId |-> IF i \in DOMAIN lists THEN lists[i] ELSE g.nbrs[i]]

(* GraphDataCell raises total_count_ to id + 1; SparseGraphDataCell counts the *)
(* new keys.                                                                *)
InsertNeighborsById(g, lists) ==
  [sparse |-> g.sparse, tracks |-> g.tracks,
   nodes |-> IF g.sparse THEN g.nodes \cup DOMAIN lists ELSE g.nodes,
   nbrs |-> Relist(g, lists),
   rev |-> UpdateReverseEdges(g, lists),
   used |-> g.used \/ DOMAIN lists # {}]

(* Move: "to" is emptied, every node known to point to "from" points to "to"   *)
(* instead, "to" takes from's list, which is emptied.  A SparseGraphDataCell   *)
(* without the node "from" is left alone, whatever it holds for "to";          *)
(* otherwise its key "from" is erased.                                        *)
MoveNode(g, from, to) ==
  LET cleared == InsertNeighborsById(g, [i \in {to} |-> {}])
      pointed == InsertNeighborsById(cleared, [n \in IncomingNeighbors(g, from) |->
                                                (cleared.nbrs[n] \ {from}) \cup {to}])
      taken   == InsertNeighborsById(pointed, [i \in {to} |-> pointed.nbrs[from]])
      emptied == InsertNeighborsById(taken, [i \in {from} |-> {}])
  IN  IF from = to \/ (g.sparse /\ from \notin g.nodes) THEN g
      ELSE [emptied EXCEPT !.nodes = IF g.sparse THEN @ \ {from} ELSE @]

(* Deserialize: the lists come back, reverse_edges_ does not; the sparse format *)
(* restores total_count_ as the number of keys.                              *)
Load(g) ==
  [sparse |-> g.sparse, tracks |-> g.tracks, nodes |-> g.nodes, nbrs |-> g.nbrs,
   rev |-> [i \in InnerId |-> {}], used |-> IF g.sparse THEN g.nodes # {} ELSE g.used]

(* The nodes a search of the graph that starts in the set S can visit: those in  *)
(* every set that contains S and, with a node, its neighbours.                  *)
Reach(g, S) ==
  {n \in InnerId : \A T \in SUBSET InnerId :
                      S \subseteq T /\ (\A x \in T : g.nbrs[x] \subseteq T) => n \in T}

=============================================================================
