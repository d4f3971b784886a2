------------------------------- MODULE Pyramid -------------------------------
(***************************************************************************)
(* algorithm/pyramid: a tree of small indexes, one node per path prefix.  Each *)
(* row has a label and a path, and is inserted in the node of every prefix of  *)
(* its path whose level is built.  A node is a scan list (FLAT) until it holds *)
(* index_min_size_ elements and a graph (GRAPH) from then on.  The rows of an  *)
(* Add are tasks of a pool, several Adds run at once, and searches run beside  *)
(* them (InitFeatures); removals and builds run alone.                       *)
(*                                                                         *)
(* A graph is the set of its vertices: how a search walks one is the module    *)
(* GraphSearch.  One hierarchy, without support_duplicate.                    *)
(***************************************************************************)
EXTENDS Integers, FiniteSets, Sequences, SequencesExt, LabelTable

CONSTANTS PyThread,         \* the callers of Add
          PyBatches,        \* the rows callers Add or Build: sequences of [label, path]
          no_build_levels,  \* no_build_levels_
          index_min_size,   \* index_min_size_
          PyCapacity,       \* INIT_CAPACITY, and a bound on the elements
          MaxReloads        \* a bound on reloads

VARIABLES graph_type,         \* graph_type_, fixed when the index is created
          py_labels,          \* label_table_
          cur_element_count,  \* cur_element_count_
          tree,               \* per path prefix: its IndexNode
          inserting,          \* per thread: the tasks of its Add, by inner id
          path_given,         \* history: the path each element came with
          remove_asked,       \* history: the labels removed and not added again
          py_reloads          \* how often the index was reloaded

pyramidVars == <<graph_type, py_labels, cur_element_count, tree, inserting, path_given,
                 remove_asked, py_reloads>>

NewNode == [status |-> "NO_INDEX", ids |-> <<>>, graph |-> {}, entry |-> 0]

Prefix(path, level) == SubSeq(path, 1, level)

Built(prefix) == Len(prefix) \notin no_build_levels

Elements == 0 .. cur_element_count - 1

NoAdds == \A t \in PyThread : DOMAIN inserting[t] = {}

PyramidInit ==
  /\ graph_type \in {"nsw", "odescent"}
  /\ py_labels = EmptyLabelTable
  /\ cur_element_count = 0
  /\ tree = [p \in {<<>>} |-> NewNode]
  /\ inserting = [t \in PyThread |-> <<>>]
  /\ path_given = <<>>
  /\ remove_asked = {}
  /\ py_reloads = 0

-----------------------------------------------------------------------------

(* The section of Add under cur_element_count_mutex_: rows whose label is there *)
(* are refused, the others get the next inner ids.  resize pads the label table. *)
TakeRow(acc, row) ==
  IF CheckLabel(acc.labels, row.label) THEN acc
  ELSE [labels |-> Insert(acc.labels, Len(acc.paths), row.label),
        paths |-> Append(acc.paths, row.path),
        fresh |-> acc.fresh \cup {row.label}]

TakeRows(rows) ==
  FoldLeft(TakeRow, [labels |-> IF TableSize(py_labels) = 0
                                THEN [py_labels EXCEPT !.table = ResizeVector(@, PyCapacity)]
                                ELSE py_labels,
                     paths |-> path_given, fresh |-> {}],
           rows)

(* Add, up to the start of its tasks, over the given tree. *)
StartAdd(t, rows, nodes) ==
  LET taken == TakeRows(rows)
      added == cur_element_count .. Len(taken.paths) - 1
  IN  /\ py_labels' = taken.labels
      /\ cur_element_count' = Len(taken.paths)
      /\ path_given' = taken.paths
      /\ remove_asked' = remove_asked \ taken.fresh
      /\ inserting' = [inserting EXCEPT ![t] = [id \in added |-> [level |-> 0,
                                                                  connecting |-> FALSE]]]
      /\ tree' = nodes

PyramidAdd(t, rows) ==
  /\ DOMAIN inserting[t] = {}
  /\ cur_element_count + Len(rows) <= PyCapacity
  /\ StartAdd(t, rows, tree)
  /\ UNCHANGED <<graph_type, py_reloads>>

-----------------------------------------------------------------------------
(* IndexNode::Init of a node that has no index yet: a graph when the ids it was *)
(* populated with are enough.                                                *)
InitNode(node) ==
  IF node.status # "NO_INDEX" THEN node
  ELSE [node EXCEPT !.status = IF Len(node.ids) >= index_min_size THEN "GRAPH" ELSE "FLAT"]

(* add_one_point meets a node without an index: it is initialised, and forgets    *)
(* the ids it was populated with.                                              *)
Enter(node) ==
  IF node.status = "NO_INDEX" THEN [InitNode(node) EXCEPT !.ids = <<>>] ELSE node

(* is_update_entry_point: total * rand < 1 with rand in [0, 1). *)
is_update_entry_point(total) == IF total = 1 THEN {TRUE} ELSE BOOLEAN

(* A FLAT node takes the id; at index_min_size_ ids it becomes a graph of them, built *)
(* by nested calls: the second one moves the entry point for certain.               *)
AddToFlat(node, id) ==
  LET ids  == Append(node.ids, id)
      last == IF Len(ids) = 1 THEN 1 ELSE 2
  IN  IF Len(ids) < index_min_size THEN {[node EXCEPT !.ids = ids]}
      ELSE {[status |-> "GRAPH", ids |-> <<>>, graph |-> ToSet(ids), entry |-> ids[k]] :
              k \in last .. Len(ids)}

(* The tasks of the thread after the id's level is done. *)
LevelDone(t, id) ==
  LET task == inserting[t][id]
  IN  inserting' = [inserting EXCEPT ![t] =
        IF task.level < Len(path_given[id + 1])
        THEN [@ EXCEPT ![id] = [level |-> task.level + 1, connecting |-> FALSE]]
        ELSE [i \in DOMAIN @ \ {id} |-> @[i]]]

(* GetChild: makes the node of the next level. *)
GetChild(path, level) ==
  LET child == Prefix(path, level + 1)
  IN  IF level = Len(path) \/ child \in DOMAIN tree THEN tree
      ELSE [p \in DOMAIN tree \cup {child} |-> IF p = child THEN NewNode ELSE tree[p]]

(* An entry point that moves before its vertex is connected. *)
EntryBefore(node, id, update) == id

(* A graph that is searched before the new vertex is connected keeps the node's lock *)
(* only when the new vertex will be the entry point.                              *)
EntryAfter(node, id, update) == IF update THEN id ELSE node.entry

(* One turn of the loop over a path in add_to_hierarchy, with its add_one_point up to *)
(* the unlock of the node.                                                        *)
InsertAtLevel(t, id) ==
  LET task   == inserting[t][id]
      path   == path_given[id + 1]
      prefix == Prefix(path, task.level)
      nodes  == GetChild(path, task.level)
      node   == Enter(nodes[prefix])
  IN  /\ id \in DOMAIN inserting[t]
      /\ ~task.connecting
      /\ \/ /\ ~Built(prefix)
            /\ tree' = nodes
            /\ LevelDone(t, id)
         \/ /\ Built(prefix)
            /\ node.status = "FLAT"
            /\ \E after \in AddToFlat(node, id) : tree' = [nodes EXCEPT ![prefix] = after]
            /\ LevelDone(t, id)
         \/ /\ Built(prefix)
            /\ node.status = "GRAPH"
            /\ node.graph = {}
            /\ tree' = [nodes EXCEPT ![prefix] = [node EXCEPT !.graph = {id}, !.entry = id]]
            /\ LevelDone(t, id)
         \/ /\ Built(prefix)
            /\ node.status = "GRAPH"
            /\ node.graph # {}
            /\ \E update \in is_update_entry_point(Cardinality(node.graph)) :
                 /\ tree' = [nodes EXCEPT ![prefix] =
                      [node EXCEPT !.graph = IF update THEN @ \cup {id} ELSE @,
                                   !.entry = EntryAfter(node, id, update)]]
                 /\ IF update THEN LevelDone(t, id)
                              ELSE inserting' = [inserting EXCEPT ![t][id].connecting = TRUE]
      /\ UNCHANGED <<graph_type, py_labels, cur_element_count, path_given, remove_asked,
                     py_reloads>>

(* mutually_connect_new_element, after the node was unlocked. *)
ConnectAtLevel(t, id) ==
  LET task   == inserting[t][id]
      prefix == Prefix(path_given[id + 1], task.level)
  IN  /\ id \in DOMAIN inserting[t]
      /\ task.connecting
      /\ tree' = [tree EXCEPT ![prefix].graph = @ \cup {id}]
      /\ LevelDone(t, id)
      /\ UNCHANGED <<graph_type, py_labels, cur_element_count, path_given, remove_asked,
                     py_reloads>>

-----------------------------------------------------------------------------
(* Build: populate_path_tree puts the rows' numbers in the nodes, refused or not; then *)
(* the rows are Added, or every node is built at once by ODescent.  Callers Build an   *)
(* index that never held anything: the code only asks that no element is live.        *)
populate_path_tree(rows) ==
  LET under(p) == SelectSeq([i \in 1 .. Len(rows) |-> i], LAMBDA i : p \in Prefixes(rows[i].path))
  IN  [p \in UNION {Prefixes(rows[i].path) : i \in 1 .. Len(rows)} |->
         IF Built(p) THEN [NewNode EXCEPT !.ids = [k \in 1 .. Len(under(p)) |-> under(p)[k] - 1]]
                     ELSE NewNode]

BuildNode(node) ==
  IF node.ids = <<>> THEN node
  ELSE LET made == InitNode(node)
       IN  IF made.status = "GRAPH"
           THEN [made EXCEPT !.ids = <<>>, !.graph = ToSet(node.ids), !.entry = node.ids[1]]
           ELSE made

(* build_by_odescent copies the labels into the table, and nothing into the reverse map. *)
build_by_odescent(rows) ==
  LET nodes == populate_path_tree(rows)
  IN  /\ py_labels' = [py_labels EXCEPT !.table =
                         [i \in 0 .. Len(rows) - 1 |-> rows[i + 1].label]]
      /\ cur_element_count' = Len(rows)
      /\ path_given' = [i \in 1 .. Len(rows) |-> rows[i].path]
      /\ tree' = [p \in DOMAIN nodes |-> BuildNode(nodes[p])]
      /\ UNCHANGED <<inserting, remove_asked>>

PyramidBuild(t, rows) ==
  /\ NoAdds
  /\ cur_element_count = 0
  /\ IF graph_type = "nsw" THEN StartAdd(t, rows, populate_path_tree(rows))
                           ELSE build_by_odescent(rows)
  /\ UNCHANGED <<graph_type, py_reloads>>

(* Remove, with MARK_REMOVE. *)
PyramidRemove(label) ==
  /\ NoAdds
  /\ label \notin remove_asked
  /\ \E i \in Elements : py_labels.table[i] = label
  /\ py_labels' = MarkRemove(py_labels, {label})
  /\ remove_asked' = remove_asked \cup {label}
  /\ UNCHANGED <<graph_type, cur_element_count, tree, inserting, path_given, py_reloads>>

(* Serialize and Deserialize: the table without the tombstones; the ids of a node    *)
(* without an index are not written.                                              *)
PyramidSaveAndLoad ==
  /\ NoAdds
  /\ cur_element_count > 0
  /\ py_reloads < MaxReloads
  /\ py_labels' = LoadTableFormat(py_labels)
  /\ tree' = [p \in DOMAIN tree |-> IF tree[p].status = "NO_INDEX" THEN NewNode ELSE tree[p]]
  /\ remove_asked' = {}
  /\ py_reloads' = py_reloads + 1
  /\ UNCHANGED <<graph_type, cur_element_count, inserting, path_given>>

PyramidNext ==
  \/ \E t \in PyThread, rows \in PyBatches : PyramidAdd(t, rows) \/ PyramidBuild(t, rows)
  \/ \E t \in PyThread : \E id \in DOMAIN inserting[t] :
       InsertAtLevel(t, id) \/ ConnectAtLevel(t, id)
  \/ \E label \in Label : PyramidRemove(label)
  \/ PyramidSaveAndLoad

PyramidSpec == PyramidInit /\ [][PyramidNext]_pyramidVars

-----------------------------------------------------------------------------
(* IndexNode::Search: a node with an index answers for its prefix; one without asks  *)
(* its children.  The elements a search of the path can return, and their labels.    *)
Answering(path) ==
  {p \in DOMAIN tree :
     /\ IsPrefix(path, p)
     /\ tree[p].status # "NO_INDEX"
     /\ \A level \in Len(path) .. Len(p) - 1 : tree[Prefix(p, level)].status = "NO_INDEX"}

Members(node) == ToSet(node.ids) \cup node.graph

FoundUnder(path) == UNION {Members(tree[p]) : p \in Answering(path)} \ py_labels.deleted

Under(path) == {i \in Elements : IsPrefix(path, path_given[i + 1])}

-----------------------------------------------------------------------------
(* When no Add is running, a search of a path can return exactly the elements that  *)
(* are not removed and whose path starts with it, whichever levels are built,        *)
(* whether a node is a list or a graph, and however it got there: by Build, by        *)
(* concurrent Adds, by a conversion, or by a reload.  The lists have no repetitions.  *)
PathSearchIsExact ==
  NoAdds =>
    /\ \A p \in DOMAIN tree : FoundUnder(p) = Under(p) \ py_labels.deleted
    /\ \A p \in DOMAIN tree : tree[p].status = "FLAT" => IsInjective(tree[p].ids)

(* A graph's entry point is one of its vertices, whatever Adds are under way: a search *)
(* that starts at another id reads a vertex that is not there.                        *)
EntryIsAVertex ==
  \A p \in DOMAIN tree : tree[p].graph # {} => tree[p].entry \in tree[p].graph

(* No search returns a label after its removal, however often the label was Added and   *)
(* removed, in an index whose elements were all Added since it was created.            *)
RemovedStayOut ==
  graph_type = "nsw" /\ py_reloads = 0 =>
    \A i \in FoundUnder(<<>>) : py_labels.table[i] \notin remove_asked

(* docs/docs/en/src/indexes/pyramid.md, "Mark remove": "Calling Remove(ids) (the default *)
(* mode) tombstones the given ids: they are excluded from subsequent search results".  *)
RemoveExcludes == \A i \in FoundUnder(<<>>) : py_labels.table[i] \notin remove_asked

(* Every node answers for the paths under it, while Adds move entry points and turn lists     *)
(* into graphs.                                                                           *)
PathsAreAnswered == PathSearchIsExact /\ EntryIsAVertex /\ RemovedStayOut

=============================================================================
