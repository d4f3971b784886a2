------------------------------- MODULE HGraph -------------------------------
(***************************************************************************)
(* algorithm/hgraph: one HGraph index driven by one caller at a time.  The   *)
(* state is the label table, the codes, the bottom graph, the route graphs   *)
(* above it and the entry point; the actions are the mutating operations.    *)
(* How concurrent calls interleave inside Add is the subject of HGraphAdd.    *)
(***************************************************************************)
EXTENDS Integers, FiniteSets, Sequences, LabelTable, GraphCell

CONSTANTS Vec,                 \* vectors
          NoVec,               \* the content of a code nobody has written
          MaxDegree,           \* maximum_degree_ of the bottom graph
          RouteDegree,         \* maximum_degree_ of the route graphs
          Levels,              \* what get_random_level() - 1 may return
          ResizeStep,          \* 2^resize_increase_count_bit_
          Uses                 \* how indexes are created and used

ASSUME DegreesArePositive == MaxDegree \in Nat \ {0} /\ RouteDegree \in Nat \ {0}
ASSUME LevelsFromMinusOne == Levels \subseteq Nat \cup {-1}
ASSUME ResizeStepIsPositive == ResizeStep \in Nat \ {0}
ASSUME NoVecIsNoVector == NoVec \notin Vec

(* The parameters use_reverse_edges and support_force_remove; what             *)
(* get_random_level() - 1 returns; the modes the caller passes to Remove; when  *)
(* the caller replaces the index by its clone.                                 *)
Use == [use_reverse_edges : BOOLEAN, support_force_remove : BOOLEAN, levels : SUBSET Levels,
        removes : SUBSET {"MARK_REMOVE", "FORCE_REMOVE"},
        clones : {"never", "nothing_removed", "always"}]

ASSUME UsesExist == Uses \subseteq Use

VARIABLES labels,          \* label_table_
          codes,           \* basic_flatten_codes_, by inner id
          code_count,      \* its total_count_
          bottom,          \* bottom_graph_
          route,           \* route_graphs_, route[1] just above the bottom graph
          entry_point_id,  \* entry_point_id_
          total_count,     \* total_count_
          delete_count,    \* delete_count_
          max_capacity,    \* max_capacity_
          use              \* how this index was created and is used, fixed

vars == <<labels, codes, code_count, bottom, route, entry_point_id,
          total_count, delete_count, max_capacity, use>>

INVALID_ENTRY_POINT == -1

MaximumDegree(g) == IF g.sparse THEN RouteDegree ELSE MaxDegree

(* An index created with init_capacity 0: the constructor's resize has nothing to do. *)
Init ==
  /\ use \in Uses
  /\ labels = EmptyLabelTable
  /\ codes = [i \in InnerId |-> NoVec]
  /\ code_count = 0
  /\ bottom = EmptyGraph(FALSE, use.use_reverse_edges)
  /\ route = << >>
  /\ entry_point_id = INVALID_ENTRY_POINT
  /\ total_count = 0
  /\ delete_count = 0
  /\ max_capacity = 0

-----------------------------------------------------------------------------
(* select_edges_by_heuristic: fewer candidates than max_degree are all kept;   *)
(* otherwise some are, the nearest among them.                               *)
SelectEdges(g, candidates) ==
  IF Cardinality(candidates) < MaximumDegree(g) THEN {candidates}
  ELSE {S \in SUBSET candidates : S # {} /\ Cardinality(S) <= MaximumDegree(g)}

(* What a construction search that visits the given nodes may hand over. *)
FoundBy(visited) == {S \in SUBSET visited : S # {} \/ visited = {}}

(* A neighbour of a new node takes it in while it has room, and otherwise      *)
(* selects among its neighbours and the new one.                             *)
ListWith(g, n, id) ==
  IF Cardinality(g.nbrs[n]) < MaximumDegree(g) THEN {g.nbrs[n] \cup {id}}
  ELSE SelectEdges(g, g.nbrs[n] \cup {id})

(* mutually_connect_new_element: the graphs it can produce when the search     *)
(* visited the given nodes.                                                  *)
Connected(g, id, visited) ==
  LET selections == UNION {SelectEdges(g, found) : found \in FoundBy(visited \ {id})}
      answers(S) == {f \in [S -> UNION {ListWith(g, n, id) : n \in S}] :
                       \A n \in S : f[n] \in ListWith(g, n, id)}
  IN  UNION {{InsertNeighborsById(InsertNeighborsById(g, [i \in {id} |-> S]), f) :
                f \in answers(S)} : S \in selections}

(* The nodes from which a search that descends the route graphs above the      *)
(* given level, one search with ef = 1 in each, may go on.                    *)
DescendTo(level) ==
  LET top == Len(route)
      descents == {p \in [(level + 1) .. top -> InnerId] :
                     /\ p[top] = entry_point_id
                     /\ \A j \in (level + 2) .. top : p[j - 1] \in Reach(route[j], {p[j]})}
  IN  IF level + 1 >= top THEN {entry_point_id} ELSE {p[level + 1] : p \in descents}

unique_add_needs_structure_update(level) == ~bottom.used \/ level >= Len(route)

(* ensure_route_graphs_for_level *)
RouteGraphsFor(level) ==
  [j \in 1 .. (IF level + 1 > Len(route) THEN level + 1 ELSE Len(route)) |->
     IF j <= Len(route) THEN route[j] ELSE EmptyGraph(TRUE, use.use_reverse_edges)]

(* publish_unique_to_graphs, for one graph. *)
Published(g, id, start) ==
  IF ~g.used THEN {InsertNeighborsById(g, [i \in {id} |-> {}])}
  ELSE Connected(g, id, Reach(g, {start}))

RoundUp(n) == ((n + ResizeStep - 1) \div ResizeStep) * ResizeStep

(* The sequences whose j-th member comes from choices[j]. *)
Product(choices) ==
  {s \in [DOMAIN choices -> UNION {choices[j] : j \in DOMAIN choices}] :
     \A j \in DOMAIN choices : s[j] \in choices[j]}

-----------------------------------------------------------------------------
(* Add with one element whose random level is given. *)
Add(l, v, level) ==
  LET id     == total_count
      size   == RoundUp(total_count + 1)
      routes == RouteGraphsFor(level)
  IN
  /\ total_count < MaxIds
  /\ TryGetIdByLabel(labels, l, FALSE) = INVALID_ID
  /\ labels' = Insert(IF max_capacity < size THEN Resize(labels, size) ELSE labels, id, l)
  /\ max_capacity' = IF max_capacity < size THEN size ELSE max_capacity
  /\ total_count' = total_count + 1
  /\ codes' = [codes EXCEPT ![id] = v]
  /\ code_count' = IF code_count < id + 1 THEN id + 1 ELSE code_count
  /\ \E start \in DescendTo(level) :
       /\ bottom' \in Published(bottom, id, start)
       /\ route' \in Product([j \in DOMAIN routes |->
                      IF j <= level + 1 THEN Published(routes[j], id, start) ELSE {routes[j]}])
  /\ entry_point_id' = IF unique_add_needs_structure_update(level) THEN id ELSE entry_point_id
  /\ UNCHANGED <<delete_count, use>>

(* What MarkRemove returns. *)
CountedRemoved(l) == Cardinality(NewlyRemoved(labels, {l}))

RemoveMark(l) ==
  /\ "MARK_REMOVE" \in use.removes
  /\ labels' = MarkRemove(labels, {l})
  /\ delete_count' = delete_count + CountedRemoved(l)
  /\ UNCHANGED <<codes, code_count, bottom, route, entry_point_id, total_count, max_capacity, use>>

(* Variant: the graphs above the one that has a neighbour are kept. *)
NewEntriesKeepingGraphs ==
  LET others(j) == route[j].nbrs[entry_point_id] \ {entry_point_id}
      usable    == {j \in DOMAIN route : others(j) # {}}
  IN  IF usable = {} THEN {[ep |-> entry_point_id, route |-> << >>]}
      ELSE {[ep |-> n, route |-> route] : n \in UNION {others(j) : j \in usable}}

(* find_new_entry_point: the first other neighbour of the entry point in the    *)
(* topmost route graph where it has one; the graphs above are dropped.  When     *)
(* there is none every route graph is dropped and the entry point stays.        *)
NewEntries ==
  LET others(j) == route[j].nbrs[entry_point_id] \ {entry_point_id}
      usable    == {j \in DOMAIN route : others(j) # {}}
      top       == CHOOSE j \in usable : \A k \in usable : k <= j
  IN  IF usable = {} THEN {[ep |-> entry_point_id, route |-> << >>]}
      ELSE {[ep |-> n, route |-> SubSeq(route, 1, top)] : n \in others(top)}

(* Variant: only the nodes the removed one points to are repaired. *)
DetachedForward(g, id) ==
  LET around  == g.nbrs[id] \cap 0 .. total_count - 1
      repairs == [around -> SUBSET (0 .. total_count - 1)]
  IN  {InsertNeighborsById(InsertNeighborsById(g, f), [i \in {id} |-> {}]) :
         f \in {h \in repairs : \A n \in around : h[n] = g.nbrs[n] \ {id}}}

(* graph_force_remove_one: the lists of the nodes around the removed one are     *)
(* repaired with its own neighbours, then its list is emptied.                  *)
Detached(g, id) ==
  LET around  == (g.nbrs[id] \cup IncomingNeighbors(g, id)) \cap 0 .. total_count - 1
      candidates(n) == ((g.nbrs[n] \ {id}) \cup (g.nbrs[id] \ {id, n})) \cap 0 .. total_count - 1
      repairs == {f \in [around -> UNION {SelectEdges(g, candidates(n)) : n \in around}] :
                    \A n \in around : f[n] \in SelectEdges(g, candidates(n))}
  IN  IF g.nbrs[id] = {} /\ IncomingNeighbors(g, id) = {} THEN {g}
      ELSE {InsertNeighborsById(InsertNeighborsById(g, f), [i \in {id} |-> {}]) : f \in repairs}

(* Variant: the codes stay where they are. *)
CodesUnmoved(from, to) == codes

(* FlattenDataCell::Move *)
CodesMoved(from, to) == [codes EXCEPT ![to] = codes[from]]

(* force_remove_one, then shrink_to_fit.  The last element takes the id of the   *)
(* removed one.  max_capacity_ and the codes' total_count_ keep their values.    *)
RemoveForce(l) ==
  LET id   == TryGetIdByLabel(labels, l, TRUE)
      last == total_count - 1
      unlabelled == ForceRemove(labels, l, id)
  IN
  /\ "FORCE_REMOVE" \in use.removes
  /\ use.support_force_remove
  /\ id # INVALID_ID
  /\ \E e \in IF id = entry_point_id THEN NewEntries
              ELSE {[ep |-> entry_point_id, route |-> route]} :
       /\ \E b \in Detached(bottom, id) : bottom' = MoveNode(b, last, id)
       /\ \E r \in Product([j \in DOMAIN e.route |-> Detached(e.route[j], id)]) :
            route' = [j \in DOMAIN r |-> MoveNode(r[j], last, id)]
       /\ entry_point_id' = IF last # id /\ e.ep = last THEN id ELSE e.ep
  /\ labels' = ShrinkToFit(Move(unlabelled, last, id), total_count - 1)
  /\ codes' = CodesMoved(last, id)
  /\ delete_count' = IF id \in labels.deleted THEN delete_count - 1 ELSE delete_count
  /\ total_count' = total_count - 1
  /\ UNCHANGED <<code_count, max_capacity, use>>

(* InnerIndexInterface::UpdateId *)
UpdateId(old, new) ==
  /\ old # new
  /\ labels' = UpdateLabel(labels, old, new)
  /\ UNCHANGED <<codes, code_count, bottom, route, entry_point_id,
                 total_count, delete_count, max_capacity, use>>

(* Clone (and any Serialize followed by Deserialize): the caller goes on with    *)
(* the copy.  total_count_ is restored from the codes, delete_count_ is 0.       *)
Clone ==
  /\ use.clones # "never"
  /\ use.clones = "nothing_removed" => delete_count = 0 /\ code_count = total_count
  /\ labels' = LoadRemapFormat(labels)
  /\ bottom' = Load(bottom)
  /\ route' = [j \in DOMAIN route |-> Load(route[j])]
  /\ total_count' = code_count
  /\ delete_count' = 0
  /\ UNCHANGED <<codes, code_count, entry_point_id, max_capacity, use>>

Next ==
  \/ \E l \in Label, v \in Vec, level \in use.levels : Add(l, v, level)
  \/ \E l \in Label : RemoveMark(l)
  \/ \E l \in Label : RemoveForce(l)
  \/ \E old, new \in Label : UpdateId(old, new)
  \/ Clone

Spec == Init /\ [][Next]_vars

-----------------------------------------------------------------------------
Graphs == {bottom} \cup {route[j] : j \in DOMAIN route}

LiveId == 0 .. total_count - 1

(* Type correctness of every member the operations assign. *)
TypeOK ==
  /\ DOMAIN labels.table \in {0 .. n - 1 : n \in 0 .. RoundUp(MaxIds)}
  /\ \A i \in DOMAIN labels.table : labels.table[i] \in Label
  /\ DOMAIN labels.remap \subseteq Label
  /\ \A l \in DOMAIN labels.remap : labels.remap[l] \in InnerId
  /\ labels.deleted \subseteq InnerId
  /\ codes \in [InnerId -> Vec \cup {NoVec}]
  /\ code_count \in 0 .. MaxIds /\ total_count \in 0 .. MaxIds
  /\ \A g \in Graphs : g \in Graph
  /\ entry_point_id \in InnerId \cup {INVALID_ENTRY_POINT}

(* reverse_edges_ is the exact inverse of the lists: what graph_force_remove_one *)
(* and Move rely on to find the nodes that point to a removed or moved element.   *)
ReverseEdgesExact ==
  \A g \in Graphs : g.tracks =>
    \A x, y \in InnerId : y \in g.nbrs[x] <=> x \in g.rev[y]

(* No list of any graph mentions an id at or above total_count_: GetLabelById and *)
(* the code reads of a search trust the ids they meet.                           *)
NoDeadEdges == \A g \in Graphs, x \in LiveId : g.nbrs[x] \subseteq LiveId \ {x}

(* While the index holds elements, searches start at one of them, where no         *)
(* element is removed physically.                                                *)
EntryPointLive ==
  use.removes = {"MARK_REMOVE"} /\ total_count > 0 => entry_point_id \in LiveId

(* As long as the entry point is an element, or the id that the next element      *)
(* gets, no operation makes a list mention an id that is not an element: force    *)
(* removal repairs what pointed to the removed one.                              *)
DeadEdgesNeedDeadEntry ==
  [][entry_point_id <= total_count /\ NoDeadEdges => NoDeadEdges']_vars

(* When there are route graphs the entry point is an element and a node of the    *)
(* topmost, where every descent starts, through additions that raise the top,     *)
(* removals of the entry point and moves of the last element.                     *)
EntryAtTop ==
  route # << >> => entry_point_id \in LiveId \cap route[Len(route)].nodes

(* The counters kept apart agree: GetNumElements, GetNumberRemoved, the label      *)
(* table's count and the tombstones themselves; every element has a code.         *)
CountsAgree ==
  /\ labels.count = total_count
  /\ delete_count = Cardinality(labels.deleted)
  /\ labels.deleted \subseteq LiveId
  /\ LiveId \subseteq DOMAIN labels.table
  /\ \A i \in LiveId : codes[i] # NoVec

(* Every element that is not a tombstone is found under its label: CheckLabel's     *)
(* "True if the label exists and not been removed".                               *)
LiveLabelsResolve ==
  \A i \in LiveId \ labels.deleted : TryGetIdByLabel(labels, labels.table[i], FALSE) = i

(* No list outgrows the degree its graph was created with, where                  *)
(* InsertNeighborsById throws half way through an operation.                      *)
DegreeBound ==
  \A g \in Graphs, x \in InnerId : Cardinality(g.nbrs[x]) <= MaximumDegree(g)

(* What callers see: the labels that resolve, and their vectors. *)
Content ==
  [l \in {k \in Label : CheckLabel(labels, k)} |-> codes[TryGetIdByLabel(labels, l, TRUE)]]

Abstract == INSTANCE VectorIndex WITH content <- Content

(* Every operation is seen by callers as the operation of the same name on a map   *)
(* from labels to vectors, or as nothing when it fails.                           *)
ImplementsVectorIndex == Abstract!Spec

(* Clone changes nothing a caller can see: "Both indexes return identical search   *)
(* results immediately after cloning".                                           *)
CloneKeepsContent == [][Clone => Content' = Content]_vars

(* Between operations the graphs are what force removal and Move rely on: typed,    *)
(* within their degrees, and with reverse edges that are the lists turned around.  *)
GraphsAreSound == TypeOK /\ DegreeBound /\ ReverseEdgesExact

(* Searches start at an element, and at the top of the route graphs.               *)
EntryPointIsRight == EntryPointLive /\ EntryAtTop

(* The label table, the tombstones and the counters that are kept apart tell one    *)
(* story, whatever force removal has moved.                                       *)
LabelsAgree == CountsAgree /\ LiveLabelsResolve

=============================================================================
