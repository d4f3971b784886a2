-------------------------------- MODULE HNSW --------------------------------
(***************************************************************************)
(* index/hnsw over algorithm/hnswlib: labels, tombstones and their recovery.    *)
(*                                                                         *)
(* Removing marks an element, takes its label out of label_lookup_ and puts it  *)
(* into deleted_elements_.  Adding such a label again revives the element and   *)
(* tries to overwrite its vector; when a neighbour is nearer to the new vector  *)
(* than the element is, the element is marked again and a new one is made.      *)
(* Add takes and leaves rw_mutex_ several times on the way, so the steps of two  *)
(* Adds interleave.                                                         *)
(*                                                                         *)
(* Vectors are integers on a line.  The graph is left to module HNSWGraph: here  *)
(* any elements may be the neighbours of an element.                          *)
(***************************************************************************)
EXTENDS Integers, FiniteSets, Sequences, LabelTable

CONSTANTS Adder,           \* threads that add
          HNSWLabel,       \* the labels callers use
          Vec,             \* the vectors callers use
          MAXIMUM_DEGREE,  \* of the conjugate graph
          MaxElements      \* bound on the elements made

ASSUME HNSWAssumption == IsFiniteSet(Adder) /\ Vec \subseteq Int

VARIABLES use_conjugate_graph,  \* use_conjugate_graph_, fixed
          elements,          \* the level-0 memory: id + 1 -> [label, vec, deleted]
          label_lookup,      \* label_lookup_, a partial function to ids
          deleted_elements,  \* deleted_elements_, a partial function to ids
          num_deleted,       \* num_deleted_
          enterpoint_node,   \* enterpoint_node_, INVALID_ID before the first element is linked
          conjugate_graph,   \* conjugate_graph_: label -> set of labels
          adder,             \* where each Add is
          reloaded,          \* history: the index was loaded from a stream
          clashed            \* history: labels that stopped naming one element

hnswVars == <<use_conjugate_graph, elements, label_lookup, deleted_elements, num_deleted, enterpoint_node,
              conjugate_graph, adder, reloaded, clashed>>

NoMap == [l \in {} |-> 0]
IdleAdder == [pc |-> "idle"]

HNSWInit ==
  /\ use_conjugate_graph \in BOOLEAN
  /\ elements = <<>>
  /\ label_lookup = NoMap
  /\ deleted_elements = NoMap
  /\ num_deleted = 0
  /\ enterpoint_node = INVALID_ID
  /\ conjugate_graph = [l \in {} |-> {}]
  /\ adder = [a \in Adder |-> IdleAdder]
  /\ reloaded = FALSE
  /\ clashed = {}

Element(id) == elements[id + 1]
isMarkedDeleted(id) == Element(id).deleted
Live == {id \in 0 .. Len(elements) - 1 : ~isMarkedDeleted(id)}
Distance(x, y) == IF x < y THEN y - x ELSE x - y

(* addPoint holds rw_mutex_ shared until the element is linked. *)
NoSharedLock == \A a \in Adder : adder[a].pc # "link"

Busy == Cardinality({a \in Adder : adder[a].pc # "idle"})

(* The features promise concurrent Adds, not Adds beside removals or renamings. *)
NoAddRunning == Busy = 0

(* Bound: with a conjugate graph Adds do not overlap. *)
AddsAtOnce == IF use_conjugate_graph THEN 1 ELSE Cardinality(Adder)

Goto(a, pc) == adder' = [adder EXCEPT ![a].pc = pc]
Return(a)   == adder' = [adder EXCEPT ![a] = IdleAdder]

(* emplace/insert of a map leave an entry that is there. *)
InsertIfAbsent(map, label, id) == IF label \in DOMAIN map THEN map ELSE InsertOrAssign(map, label, id)

(* Labels a tombstone and another element carry, labels whose tombstone was renamed     *)
(* away from them, and labels whose tombstone is no longer marked.                    *)
NoteClashes ==
  LET carriers(l) == {i \in 1 .. Len(elements') : elements'[i].label = l}
      shared      == {l \in HNSWLabel : /\ Cardinality(carriers(l)) > 1
                                    /\ \E i \in carriers(l) : elements'[i].deleted}
      renamed     == {l \in DOMAIN deleted_elements' : deleted_elements'[l] + 1 \notin carriers(l)}
      revived     == {l \in DOMAIN deleted_elements' : ~elements'[deleted_elements'[l] + 1].deleted}
  IN  clashed' = clashed \cup shared \cup renamed \cup revived
                         \cup {elements'[deleted_elements'[l] + 1].label : l \in renamed}

-----------------------------------------------------------------------------
(* HNSW::add, one row *)

AddStart(a, label, vec) ==
  /\ adder[a].pc = "idle"
  /\ Busy < AddsAtOnce
  /\ adder' = [adder EXCEPT ![a] = [pc |-> IF label \in DOMAIN deleted_elements THEN "recover"
                                                                               ELSE "insert",
                                    label |-> label, vec |-> vec]]
  /\ UNCHANGED <<elements, label_lookup, deleted_elements, num_deleted, enterpoint_node,
                 conjugate_graph, reloaded, clashed>>

(* Variant: the tombstone is left behind. *)
RecoverKeepingTombstone(label) ==
  LET id == deleted_elements[label]
  IN  /\ elements' = [elements EXCEPT ![id + 1].deleted = FALSE]
      /\ label_lookup' = InsertOrAssign(label_lookup, label, id)
      /\ UNCHANGED deleted_elements

(* recoverMarkDelete of a label that has a tombstone. *)
recoverMarkDelete(label) ==
  LET id == deleted_elements[label]
  IN  /\ elements' = [elements EXCEPT ![id + 1].deleted = FALSE]
      /\ label_lookup' = InsertOrAssign(label_lookup, label, id)
      /\ deleted_elements' = Erase(deleted_elements, Element(id).label)

Recoverable(label) ==
  label \in DOMAIN deleted_elements /\ isMarkedDeleted(deleted_elements[label])

(* When another Add was first the call throws, and Add with it. *)
AddRecover(a) ==
  /\ adder[a].pc = "recover" /\ NoSharedLock
  /\ IF Recoverable(adder[a].label)
     THEN /\ recoverMarkDelete(adder[a].label)
          /\ num_deleted' = num_deleted - 1
          /\ Goto(a, "compare")
     ELSE /\ Return(a)
          /\ UNCHANGED <<elements, label_lookup, deleted_elements, num_deleted>>
  /\ UNCHANGED <<enterpoint_node, conjugate_graph, reloaded, clashed>>

(* The first half of UpdateVector: Add is done when the vector is the same, and    *)
(* refused when a live neighbour is nearer to the new vector.                   *)
AddCompare(a, neighbors) ==
  LET label == adder[a].label
      known == label \in DOMAIN label_lookup
      id    == label_lookup[label]
      self  == Distance(Element(id).vec, adder[a].vec)
  IN  /\ adder[a].pc = "compare"
      /\ CASE ~known    -> Goto(a, "refuse")
           [] known /\ self = 0 -> Return(a)
           [] known /\ self # 0 /\
              \E n \in neighbors \ {id} :
                ~isMarkedDeleted(n) /\ Distance(Element(n).vec, adder[a].vec) < self
              -> Goto(a, "refuse")
           [] OTHER     -> Goto(a, "overwrite")
      /\ UNCHANGED <<elements, label_lookup, deleted_elements, num_deleted, enterpoint_node,
                     conjugate_graph, reloaded, clashed>>

(* Variant: the vector is left as it was. *)
KeepVector(id, vec) == elements

(* hnswalg::updateVector *)
WriteVector(id, vec) == [elements EXCEPT ![id + 1].vec = vec]

(* The second half, under the exclusive lock. *)
AddOverwrite(a) ==
  /\ adder[a].pc = "overwrite" /\ NoSharedLock
  /\ IF adder[a].label \in DOMAIN label_lookup
     THEN /\ elements' = WriteVector(label_lookup[adder[a].label], adder[a].vec)
          /\ Return(a)
     ELSE Goto(a, "refuse") /\ UNCHANGED elements
  /\ UNCHANGED <<label_lookup, deleted_elements, num_deleted, enterpoint_node, conjugate_graph,
                 reloaded, clashed>>

Markable(label) == label \in DOMAIN label_lookup /\ ~isMarkedDeleted(label_lookup[label])

(* markDelete; it throws unless the label is Markable. *)
markDelete(label) ==
  LET id == label_lookup[label]
  IN  /\ elements' = [elements EXCEPT ![id + 1].deleted = TRUE]
      /\ deleted_elements' = InsertIfAbsent(deleted_elements, Element(id).label, id)
      /\ num_deleted' = num_deleted + 1
      /\ label_lookup' = Erase(label_lookup, label)

AddRefuse(a) ==
  /\ adder[a].pc = "refuse" /\ NoSharedLock
  /\ IF Markable(adder[a].label)
     THEN markDelete(adder[a].label) /\ Goto(a, "insert")
     ELSE Return(a) /\ UNCHANGED <<elements, label_lookup, deleted_elements, num_deleted>>
  /\ UNCHANGED <<enterpoint_node, conjugate_graph, reloaded, clashed>>

(* addPoint, under label_lookup_lock_: a label that is there fails. *)
AddInsert(a) ==
  /\ adder[a].pc = "insert"
  /\ IF adder[a].label \in DOMAIN label_lookup
     THEN Return(a) /\ UNCHANGED <<elements, label_lookup>>
     ELSE /\ Len(elements) < MaxElements
          /\ elements' = Append(elements, [label |-> adder[a].label, vec |-> adder[a].vec,
                                           deleted |-> FALSE])
          /\ label_lookup' = InsertOrAssign(label_lookup, adder[a].label, Len(elements))
          /\ adder' = [adder EXCEPT ![a] = [pc |-> "link", label |-> @.label, vec |-> @.vec,
                                            id |-> Len(elements)]]
  /\ UNCHANGED <<deleted_elements, num_deleted, enterpoint_node, conjugate_graph, reloaded>>
  /\ NoteClashes

(* addPoint, the rest: the first element, or one on a higher level, becomes the entry. *)
AddLink(a) ==
  /\ adder[a].pc = "link"
  /\ enterpoint_node' \in IF enterpoint_node = INVALID_ID THEN {adder[a].id}
                                                         ELSE {enterpoint_node, adder[a].id}
  /\ Return(a)
  /\ UNCHANGED <<elements, label_lookup, deleted_elements, num_deleted, conjugate_graph, reloaded,
                 clashed>>

-----------------------------------------------------------------------------
(* HNSW::remove of one label, when it finds it. *)
HNSWRemove(label) ==
  /\ NoAddRunning
  /\ Markable(label)
  /\ markDelete(label)
  /\ UNCHANGED <<enterpoint_node, conjugate_graph, adder, reloaded, clashed>>

(* ConjugateGraph::UpdateId: nothing when both labels have edges. *)
UpdateConjugate(old, new) ==
  LET graph == conjugate_graph
      keys  == IF old \in DOMAIN graph THEN (DOMAIN graph \ {old}) \cup {new} ELSE DOMAIN graph
      of(k) == IF old \in DOMAIN graph /\ k = new THEN graph[old] ELSE graph[k]
      Renamed(s) == IF old \in s THEN (s \ {old}) \cup {new} ELSE s
  IN  IF old \in DOMAIN graph /\ new \in DOMAIN graph THEN graph
      ELSE [k \in keys |-> Renamed(of(k))]

(* updateLabel throws when the new label is in use. *)
LabelIsFree(label) == label \notin DOMAIN label_lookup

(* HNSW::update_id; a tombstone is renamed as well. *)
HNSWUpdateId(old, new) ==
  /\ NoAddRunning
  /\ old # new /\ LabelIsFree(new)
  /\ \/ /\ old \in DOMAIN label_lookup
        /\ label_lookup' = InsertOrAssign(Erase(label_lookup, old), new, label_lookup[old])
        /\ elements' = [elements EXCEPT ![label_lookup[old] + 1].label = new]
        /\ UNCHANGED deleted_elements
     \/ /\ old \notin DOMAIN label_lookup /\ old \in DOMAIN deleted_elements
        /\ deleted_elements' = InsertIfAbsent(Erase(deleted_elements, old), new,
                                              deleted_elements[old])
        /\ elements' = [elements EXCEPT ![deleted_elements[old] + 1].label = new]
        /\ UNCHANGED label_lookup
  /\ conjugate_graph' = UpdateConjugate(old, new)
  /\ NoteClashes
  /\ UNCHANGED <<num_deleted, enterpoint_node, adder, reloaded>>

(* HNSW::feedback: an edge from each label of an answer to the best label. *)
Feedback(label, best) ==
  /\ NoAddRunning
  /\ use_conjugate_graph
  /\ {label, best} \subseteq DOMAIN label_lookup /\ label # best
  /\ LET graph == conjugate_graph
         had   == IF label \in DOMAIN graph THEN graph[label] ELSE {}
         now   == IF Cardinality(had) >= MAXIMUM_DEGREE THEN had ELSE had \cup {best}
     IN  conjugate_graph' = [l \in DOMAIN graph \cup {label} |-> IF l = label THEN now ELSE graph[l]]
  /\ UNCHANGED <<elements, label_lookup, deleted_elements, num_deleted, enterpoint_node, adder,
                 reloaded, clashed>>

(* saveIndex, then loadIndex into an empty index: every element is looked up again,  *)
(* the marked ones too, the last of a label winning.                             *)
HNSWSaveAndLoad ==
  /\ NoAddRunning
  /\ Live # {} /\ ~reloaded
  /\ LET ids     == 0 .. Len(elements) - 1
         dead    == ids \ Live
         Of(l, s) == {id \in s : Element(id).label = l}
     IN  /\ label_lookup' = [l \in {Element(id).label : id \in ids} |->
                               CHOOSE id \in Of(l, ids) : \A j \in Of(l, ids) : j <= id]
         /\ deleted_elements' = [l \in {Element(id).label : id \in dead} |->
                                   CHOOSE id \in Of(l, dead) : \A j \in Of(l, dead) : id <= j]
         /\ num_deleted' = Cardinality(dead)
  /\ reloaded' = TRUE
  /\ UNCHANGED <<elements, enterpoint_node, conjugate_graph, adder, clashed>>

HNSWNext ==
  /\ UNCHANGED use_conjugate_graph
  /\ \/ \E a \in Adder :
          \/ \E l \in HNSWLabel, v \in Vec : AddStart(a, l, v)
          \/ AddRecover(a)
          \/ \E neighbors \in SUBSET (0 .. Len(elements) - 1) : AddCompare(a, neighbors)
          \/ AddOverwrite(a) \/ AddRefuse(a) \/ AddInsert(a) \/ AddLink(a)
     \/ \E l \in HNSWLabel : HNSWRemove(l)
     \/ \E l, m \in HNSWLabel : HNSWUpdateId(l, m) \/ Feedback(l, m)
     \/ HNSWSaveAndLoad

HNSWSpec == HNSWInit /\ [][HNSWNext]_hnswVars

-----------------------------------------------------------------------------
(* ConjugateGraph::EnhanceResult: a search answer gains the conjugate neighbours that *)
(* are nearer than its worst; a label that does not resolve is infinitely far.       *)
EnhanceResult(answer, query) ==
  LET dist(l)    == Distance(Element(label_lookup[l]).vec, query)
      neighbors  == UNION {IF l \in DOMAIN conjugate_graph THEN conjugate_graph[l] ELSE {} :
                             l \in answer} \ answer
      resolvable == {l \in neighbors : l \in DOMAIN label_lookup}
      worst      == CHOOSE l \in answer : \A m \in answer : dist(m) <= dist(l)
      better     == {l \in resolvable : dist(l) < dist(worst)}
  IN  IF better = {} THEN answer ELSE (answer \cup better) \ {worst}

-----------------------------------------------------------------------------
(* Properties *)

(* num_deleted_, from which GetNumElements and GetNumberRemoved answer, counts the   *)
(* marked elements whatever Adds, removals, renamings and reloads interleave, and     *)
(* until a reload every tombstone names a marked element with its label              *)
(* (markDeletedInternal, recoveryMarkDeletedInternal, updateLabel).                 *)
TombstonesAreMarked ==
  /\ num_deleted = Cardinality({id \in 0 .. Len(elements) - 1 : isMarkedDeleted(id)})
  /\ \A l \in DOMAIN deleted_elements :
       ~reloaded /\ l \notin clashed =>
         /\ isMarkedDeleted(deleted_elements[l])
         /\ Element(deleted_elements[l]).label = l

(* As long as no label was given to an element while another kept it as a tombstone, every *)
(* live element is the one its label resolves to: no two share a label (addPoint,     *)
(* updateLabel, recoverMarkDelete).                                                *)
LiveElementsResolve ==
  \A id \in Live :
    LET l == Element(id).label
    IN  l \notin clashed => l \in DOMAIN label_lookup /\ label_lookup[l] = id

(* A label names at most one live element: an Add of a label that is in the index fails. *)
OneLiveElementPerLabel ==
  \A i, j \in Live : Element(i).label = Element(j).label => i = j

(* When an Add returns a success its label resolves to the vector it was given, also  *)
(* when it went through the recovery of a tombstone (HNSW::add).                     *)
AddStoresItsVector ==
  [][\A a \in Adder :
       LET label == adder[a].label
       IN  \/ adder[a].pc \notin {"compare", "overwrite", "link"}
           \/ adder'[a].pc # "idle"
           \/ /\ label \in DOMAIN label_lookup'
              /\ elements'[label_lookup'[label] + 1].vec = adder[a].vec]_hnswVars

(* The conjugate graph keeps the edges of removed labels, yet it never brings one back *)
(* into an answer, unless the index was loaded from a stream (EnhanceResult with       *)
(* getDistanceByLabel).                                                            *)
EnhancedAnswersAreLive ==
  ~reloaded /\ clashed = {} =>
    \A answer \in SUBSET {Element(id).label : id \in Live} \ {{}}, query \in Vec :
      EnhanceResult(answer, query) \subseteq {Element(id).label : id \in Live}

(* Lookup, tombstones, marks and the conjugate graph agree on which labels are live, between *)
(* any two critical sections of the calls under way.                                       *)
LiveLabelsAgree == TombstonesAreMarked /\ LiveElementsResolve /\ EnhancedAnswersAreLive

=============================================================================
