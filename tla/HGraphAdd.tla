------------------------------ MODULE HGraphAdd ------------------------------
(***************************************************************************)
(* algorithm/hgraph: concurrent Adds.  Every thread adds one element at a     *)
(* time; a step is what happens between two points where another thread may    *)
(* run: the sections that hold a lock from end to end are one step, a lock     *)
(* that is held across steps is a variable.  With deduplicate_storage the      *)
(* codes live in slots that CodeSlotMap binds inner ids to, and elements with   *)
(* the same vector share one.                                                *)
(*                                                                         *)
(* std::shared_mutex is modelled as glibc builds it: readers are let in while   *)
(* no writer holds the lock.                                                  *)
(***************************************************************************)
EXTENDS Integers, FiniteSets

CONSTANTS Thread,              \* the threads that call Add
          Label, Vec,
          None,                \* no thread, no slot, no code
          MaxIds,              \* bound on the elements added
          InitCapacity,        \* init_capacity, the capacity the index is created with
          Levels,              \* what get_random_level() - 1 may return
          ResizeStep,          \* 2^resize_increase_count_bit_
          Dedup,               \* deduplicate_storage, which needs support_duplicate
          SupportForceRemove,  \* support_force_remove, which excludes Dedup
          SameLabel,           \* callers may add one label from two threads at once
          ConcurrentFirst      \* callers may start an Add while the first is running

ASSUME BoundsArePositive == 
  MaxIds \in Nat \ {0} /\ ResizeStep \in Nat \ {0} /\ InitCapacity \in Nat
ASSUME LevelsAreIntegers == Levels \subseteq Int
ASSUME ModesAreBooleans ==
  /\ Dedup \in BOOLEAN /\ SupportForceRemove \in BOOLEAN
  /\ SameLabel \in BOOLEAN /\ ConcurrentFirst \in BOOLEAN
(* hgraph_parameter.cpp refuses the two together. *)
ASSUME DedupExcludesForceRemove == ~(Dedup /\ SupportForceRemove)
ASSUME NoneIsNoValue == None \notin Thread \cup Vec \cup Label \cup Int

VARIABLES total_count,      \* total_count_
          max_capacity,     \* max_capacity_, also CodeSlotMap's logical_capacity_
          label,            \* label_table_, None where no label was inserted yet
          bottom,           \* the nodes of bottom_graph_
          height,           \* route_graphs_.size()
          slot,             \* CodeSlotMap's inner_to_slot_
          physical_count,   \* CodeSlotMap's physical_count_
          capacity,         \* physical_code_capacity_
          code,             \* the codes, by slot with Dedup and by id without
          reallocs,         \* how often resize reallocated the code storage
          group,            \* the duplicate tracker: for each id its group's first id
          add_owner, add_sharers,        \* add_mutex_
          global_sharers,                \* global_mutex_; no step leaves it uniquely held
          resize_owner,                  \* physical_code_resize_mutex_
          label_sharers,                 \* label_lookup_mutex_; likewise
          resize_pending,                \* physical_code_resize_pending_
          pc, row,                       \* what each thread does, and with which element
          vecs                           \* history: the vector each id was added with

storage == <<slot, physical_count, capacity, code, reallocs>>
locks == <<add_owner, add_sharers, global_sharers, resize_owner, label_sharers, resize_pending>>
graph == <<bottom, height, group>>
vars == <<total_count, max_capacity, label, vecs, storage, locks, graph, pc, row>>

InnerId == 0 .. MaxIds - 1

(* next_multiple_of_power_of_two *)
RoundUp(n) == ((n + ResizeStep - 1) \div ResizeStep) * ResizeStep

(* No index of the bound needs more code slots. *)
MaxSlots == RoundUp(MaxIds) + RoundUp(InitCapacity)

Slot == 0 .. MaxSlots - 1

NoRow == [id |-> 0, label |-> None, vec |-> None, level |-> -1, slot |-> 0,
          group |-> 0, first |-> FALSE, reallocs |-> 0]

Init ==
  /\ total_count = 0 /\ max_capacity = RoundUp(InitCapacity)
  /\ label = [i \in InnerId |-> None] /\ vecs = [i \in InnerId |-> None]
  /\ bottom = {} /\ height = 0
  /\ slot = [i \in InnerId |-> None] /\ physical_count = 0
  /\ capacity = IF Dedup THEN 0 ELSE RoundUp(InitCapacity)
  /\ code = [s \in Slot |-> None] /\ reallocs = 0
  /\ group = [i \in InnerId |-> i]
  /\ add_owner = None /\ add_sharers = {} /\ global_sharers = {}
  /\ resize_owner = None /\ label_sharers = {} /\ resize_pending = FALSE
  /\ pc = [t \in Thread |-> "idle"] /\ row = [t \in Thread |-> NoRow]

-----------------------------------------------------------------------------
AddMutexFree == add_owner = None /\ add_sharers = {}

Goto(t, s) == pc' = [pc EXCEPT ![t] = s]

Active == {t \in Thread : pc[t] # "idle"}

unique_add_needs_structure_update(level) == bottom = {} \/ level >= height

(* Variant: an index with one element counts as empty. *)
IndexNearlyEmpty == total_count <= 1

IndexEmpty == total_count = 0

(* Add begins; prepare_add_context looks, under add_mutex_, whether the index is  *)
(* empty.                                                                    *)
Start(t, l, v, level) ==
  /\ pc[t] = "idle"
  /\ AddMutexFree
  /\ total_count < MaxIds
  /\ SameLabel \/ \A u \in Active : row[u].label # l
  /\ ConcurrentFirst \/ \A u \in Active : ~row[u].first
  /\ row' = [row EXCEPT ![t] = [NoRow EXCEPT !.label = l, !.vec = v, !.level = level,
                                             !.first = IndexEmpty]]
  /\ Goto(t, "lookup")
  /\ UNCHANGED <<total_count, max_capacity, label, vecs, storage, locks, graph>>

(* Variant: the label is not looked up. *)
LabelAssumedNew(l) == FALSE

LabelTaken(l) == \E i \in InnerId : label[i] = l

(* prepare_add_batch: a label that is found is reported as failed. *)
LookupLabel(t) ==
  /\ pc[t] = "lookup"
  /\ Goto(t, IF LabelTaken(row[t].label) THEN "idle" ELSE "claim")
  /\ UNCHANGED <<total_count, max_capacity, label, vecs, storage, locks, graph, row>>

(* get_unique_inner_ids(1) *)
UniqueId == total_count

(* The next id, under add_mutex_, when the capacity suffices. *)
ClaimId(t) ==
  /\ row' = [row EXCEPT ![t].id = UniqueId]
  /\ vecs' = [vecs EXCEPT ![UniqueId] = row[t].vec]
  /\ total_count' = total_count + 1
  /\ Goto(t, "label")

Claim(t) ==
  /\ pc[t] = "claim"
  /\ AddMutexFree
  /\ total_count < MaxIds
  /\ max_capacity >= RoundUp(total_count + 1)
  /\ ClaimId(t)
  /\ UNCHANGED <<max_capacity, label, storage, locks, graph>>

(* At the bound the id cannot be had: get_unique_inner_ids throws when it finds no    *)
(* memory.                                                                      *)
ClaimFails(t) ==
  /\ pc[t] = "claim"
  /\ AddMutexFree
  /\ total_count = MaxIds
  /\ Goto(t, "idle")
  /\ UNCHANGED <<total_count, max_capacity, label, vecs, storage, locks, graph, row>>

(* Otherwise resize waits for global_mutex_ with add_mutex_ in its hands. *)
ClaimAndGrow(t) ==
  /\ pc[t] = "claim"
  /\ AddMutexFree
  /\ total_count < MaxIds
  /\ max_capacity < RoundUp(total_count + 1)
  /\ add_owner' = t
  /\ Goto(t, "grow")
  /\ UNCHANGED <<total_count, max_capacity, label, vecs, storage, graph, row,
                 add_sharers, global_sharers, resize_owner, label_sharers, resize_pending>>

(* resize(total_count + 1): what the tables and the codes are resized to. *)
Grown == [ids |-> RoundUp(total_count + 1), codes |-> RoundUp(total_count + 1)]

Grow(t) ==
  /\ pc[t] = "grow"
  /\ global_sharers = {}
  /\ max_capacity' = Grown.ids
  /\ capacity' = IF Dedup THEN capacity ELSE Grown.codes
  /\ reallocs' = IF Dedup THEN reallocs ELSE reallocs + 1
  /\ ClaimId(t)
  /\ add_owner' = None
  /\ UNCHANGED <<label, slot, physical_count, code, graph,
                 add_sharers, global_sharers, resize_owner, label_sharers, resize_pending>>

(* Variant: the codes are not written first. *)
UnwrittenBeforeProbe == "structure"

(* prepare_codes_before_probe_if_needed *)
BeforeProbe == IF Dedup THEN "structure" ELSE "write"

InsertLabel(t) ==
  /\ pc[t] = "label"
  /\ label_sharers = {}
  /\ label' = [label EXCEPT ![row[t].id] = row[t].label]
  /\ Goto(t, BeforeProbe)
  /\ UNCHANGED <<total_count, max_capacity, vecs, storage, locks, graph, row>>

-----------------------------------------------------------------------------

WriteSharesAddMutex == ~SupportForceRemove

(* insert_persistent_codes, without Dedup.  The write shares add_mutex_, which    *)
(* keeps resize out, unless the index supports force removal.                    *)
BeginWrite(t) ==
  /\ pc[t] = "write"
  /\ WriteSharesAddMutex => add_owner = None
  /\ add_sharers' = IF WriteSharesAddMutex THEN add_sharers \cup {t} ELSE add_sharers
  /\ row' = [row EXCEPT ![t].reallocs = reallocs]
  /\ Goto(t, "writing")
  /\ UNCHANGED <<total_count, max_capacity, label, vecs, storage, graph,
                 add_owner, global_sharers, resize_owner, label_sharers, resize_pending>>

(* A write that was overtaken by a reallocation may land in the old storage. *)
EndWrite(t) ==
  /\ pc[t] = "writing"
  /\ \/ code' = [code EXCEPT ![row[t].id] = row[t].vec]
     \/ row[t].reallocs # reallocs /\ code' = code
  /\ add_sharers' = add_sharers \ {t}
  /\ Goto(t, "structure")
  /\ UNCHANGED <<total_count, max_capacity, label, vecs, slot, physical_count, capacity,
                 reallocs, graph, row,
                 add_owner, global_sharers, resize_owner, label_sharers, resize_pending>>

-----------------------------------------------------------------------------
(* Variant: add_mutex_ is released in any case. *)
AddMutexReleased(level) == FALSE

AddMutexKept(level) == unique_add_needs_structure_update(level)

(* insert_one_logical_point: add_mutex_ is kept only by an Add that will raise    *)
(* the top of the structure.                                                    *)
CheckStructure(t) ==
  /\ pc[t] = "structure"
  /\ AddMutexFree
  /\ add_owner' = IF AddMutexKept(row[t].level) THEN t ELSE None
  /\ Goto(t, "read_lock")
  /\ UNCHANGED <<total_count, max_capacity, label, vecs, storage, graph, row,
                 add_sharers, global_sharers, resize_owner, label_sharers, resize_pending>>

(* acquire_global_read_lock, by which readers step back from a pending resize of   *)
(* the physical codes.                                                          *)
CheckPending(t) ==
  /\ pc[t] = "read_lock"
  /\ Goto(t, IF resize_pending THEN "await_resize" ELSE "share_global")
  /\ UNCHANGED <<total_count, max_capacity, label, vecs, storage, locks, graph, row>>

AwaitResize(t) ==
  /\ pc[t] = "await_resize"
  /\ resize_owner = None
  /\ resize_owner' = t
  /\ Goto(t, "share_global")
  /\ UNCHANGED <<total_count, max_capacity, label, vecs, storage, graph, row,
                 add_owner, add_sharers, global_sharers, label_sharers, resize_pending>>

ShareGlobal(t) ==
  /\ pc[t] = "share_global"
  /\ global_sharers' = global_sharers \cup {t}
  /\ resize_owner' = IF resize_owner = t THEN None ELSE resize_owner
  /\ Goto(t, "probe")
  /\ UNCHANGED <<total_count, max_capacity, label, vecs, storage, graph, row,
                 add_owner, add_sharers, label_sharers, resize_pending>>

(* The code stored for an element, as Resolve and the code storage give it. *)
StoredCode(i) == IF ~Dedup THEN code[i] ELSE IF slot[i] = None THEN None ELSE code[slot[i]]

(* graph_read_codes: an Add that found the index empty reads temporary codes that  *)
(* hold its own element only, the others read the stored ones.                   *)
ReadCode(t, i) == IF Dedup /\ row[t].first THEN None ELSE StoredCode(i)

(* probe_graph_for_add.  With Dedup the search may report a node with the same     *)
(* vector, or, where it reads a code nobody wrote, any such node; being            *)
(* approximate it may also miss one.                                            *)
Duplicates(t) == {i \in bottom : Dedup /\ ReadCode(t, i) \in {row[t].vec, None}}

ProbeDuplicate(t) ==
  /\ pc[t] = "probe"
  /\ \E i \in Duplicates(t) : row' = [row EXCEPT ![t].group = i]
  /\ Goto(t, "bind_duplicate")
  /\ UNCHANGED <<total_count, max_capacity, label, vecs, storage, locks, graph>>

ProbeUnique(t) ==
  /\ pc[t] = "probe"
  /\ IF unique_add_needs_structure_update(row[t].level)
     THEN global_sharers' = global_sharers \ {t} /\ Goto(t, "own_global")
     ELSE UNCHANGED global_sharers /\ Goto(t, IF Dedup THEN "allocate" ELSE "link")
  /\ UNCHANGED <<total_count, max_capacity, label, vecs, storage, graph, row,
                 add_owner, add_sharers, resize_owner, label_sharers, resize_pending>>

-----------------------------------------------------------------------------
(* publish_duplicate_if_found: PublishSlot with the group's slot, then the         *)
(* tracker under label_lookup_mutex_; the locks are released on return.            *)
BindDuplicate(t) ==
  /\ pc[t] = "bind_duplicate"
  /\ slot' = [slot EXCEPT ![row[t].id] = slot[row[t].group]]
  /\ Goto(t, "track")
  /\ UNCHANGED <<total_count, max_capacity, label, vecs, physical_count, capacity, code,
                 reallocs, locks, graph, row>>

(* Variant: the tracker is given the slot in place of the inner id. *)
GroupOfSlot(i) == group[slot[i]]

(* SetDuplicateId puts the new id into the group of the one found. *)
GroupOf(i) == group[i]

TrackDuplicate(t) ==
  /\ pc[t] = "track"
  /\ label_sharers = {}
  /\ group' = [group EXCEPT ![row[t].id] = GroupOf(row[t].group)]
  /\ global_sharers' = global_sharers \ {t}
  /\ add_owner' = IF add_owner = t THEN None ELSE add_owner
  /\ Goto(t, "idle")
  /\ UNCHANGED <<total_count, max_capacity, label, vecs, storage, bottom, height, row,
                 add_sharers, resize_owner, label_sharers, resize_pending>>

-----------------------------------------------------------------------------
(* Variant: the slot itself is compared with the capacity. *)
SlotFitsOffByOne(s) == capacity >= s

SlotFits(s) == capacity >= s + 1

(* Variant: the count of slots is read and not advanced. *)
SlotCountUnchanged == physical_count

NextSlotCount == physical_count + 1

(* read_lock.unlock() before the capacity grows. *)
GrowUnlocked(t) == global_sharers \ {t}

(* publish_unique_storage_if_needed under the shared lock: AllocateSlot; when the   *)
(* slot is beyond the physical capacity the lock is given up to grow it.           *)
(* AllocateSlot throws when no slot is reserved, which SlotsSuffice rules out.       *)
AllocateSlot(t) ==
  /\ pc[t] = "allocate"
  /\ physical_count < max_capacity
  /\ row' = [row EXCEPT ![t].slot = physical_count]
  /\ physical_count' = NextSlotCount
  /\ IF SlotFits(physical_count)
     THEN UNCHANGED global_sharers /\ Goto(t, "store")
     ELSE global_sharers' = GrowUnlocked(t) /\ Goto(t, "ensure")
  /\ UNCHANGED <<total_count, max_capacity, label, vecs, slot, capacity, code, reallocs, graph,
                 add_owner, add_sharers, resize_owner, label_sharers, resize_pending>>

(* ensure_physical_code_capacity *)
EnsureDone(t) ==
  /\ pc[t] = "ensure"
  /\ capacity >= row[t].slot + 1
  /\ Goto(t, "relock")
  /\ UNCHANGED <<total_count, max_capacity, label, vecs, storage, locks, graph, row>>

EnsurePending(t) ==
  /\ pc[t] = "ensure"
  /\ resize_owner = None
  /\ capacity < row[t].slot + 1
  /\ resize_owner' = t
  /\ resize_pending' = TRUE
  /\ Goto(t, "ensure_grow")
  /\ UNCHANGED <<total_count, max_capacity, label, vecs, storage, graph, row,
                 add_owner, add_sharers, global_sharers, label_sharers>>

(* Variant: one slot too few counts as enough. *)
CapacityForCount(required) == IF capacity + 1 >= required THEN capacity ELSE RoundUp(required)

(* ensure_physical_code_capacity_unlocked *)
CapacityFor(required) == IF capacity >= required THEN capacity ELSE RoundUp(required)

EnsureGrow(t) ==
  /\ pc[t] = "ensure_grow"
  /\ global_sharers = {}
  /\ capacity' = CapacityFor(row[t].slot + 1)
  /\ resize_owner' = None
  /\ resize_pending' = FALSE
  /\ Goto(t, "relock")
  /\ UNCHANGED <<total_count, max_capacity, label, vecs, slot, physical_count, code, reallocs,
                 graph, row, add_owner, add_sharers, global_sharers, label_sharers>>

Relock(t) ==
  /\ pc[t] = "relock"
  /\ global_sharers' = global_sharers \cup {t}
  /\ Goto(t, "store")
  /\ UNCHANGED <<total_count, max_capacity, label, vecs, storage, graph, row,
                 add_owner, add_sharers, resize_owner, label_sharers, resize_pending>>

(* insert_persistent_codes_to_slot *)
Store(t) ==
  /\ pc[t] = "store"
  /\ code' = [code EXCEPT ![row[t].slot] = row[t].vec]
  /\ Goto(t, "publish")
  /\ UNCHANGED <<total_count, max_capacity, label, vecs, slot, physical_count, capacity,
                 reallocs, locks, graph, row>>

PublishSlot(t) ==
  /\ pc[t] = "publish"
  /\ slot' = [slot EXCEPT ![row[t].id] = row[t].slot]
  /\ Goto(t, "link")
  /\ UNCHANGED <<total_count, max_capacity, label, vecs, physical_count, capacity, code,
                 reallocs, locks, graph, row>>

(* publish_unique_to_graphs; from here on searches meet the element. *)
Link(t) ==
  /\ pc[t] = "link"
  /\ bottom' = bottom \cup {row[t].id}
  /\ global_sharers' = global_sharers \ {t}
  /\ Goto(t, "idle")
  /\ UNCHANGED <<total_count, max_capacity, label, vecs, storage, height, group, row,
                 add_owner, add_sharers, resize_owner, label_sharers, resize_pending>>

(* publish_unique_under_unique_global_lock; add_mutex_ is released on return. *)
PublishAlone(t) ==
  /\ pc[t] = "own_global"
  /\ global_sharers = {}
  /\ Dedup => physical_count < max_capacity
  /\ height' = IF row[t].level + 1 > height THEN row[t].level + 1 ELSE height
  /\ IF Dedup
     THEN /\ physical_count' = NextSlotCount
          /\ capacity' = CapacityFor(physical_count + 1)
          /\ code' = [code EXCEPT ![physical_count] = row[t].vec]
          /\ slot' = [slot EXCEPT ![row[t].id] = physical_count]
     ELSE UNCHANGED <<physical_count, capacity, code, slot>>
  /\ bottom' = bottom \cup {row[t].id}
  /\ add_owner' = IF add_owner = t THEN None ELSE add_owner
  /\ Goto(t, "idle")
  /\ UNCHANGED <<total_count, max_capacity, label, vecs, reallocs, group, row,
                 add_sharers, global_sharers, resize_owner, label_sharers, resize_pending>>

-----------------------------------------------------------------------------
(* The steps of an Add under way. *)
Step(t) ==
  \/ LookupLabel(t) \/ Claim(t) \/ ClaimFails(t) \/ ClaimAndGrow(t) \/ Grow(t) \/ InsertLabel(t)
  \/ BeginWrite(t) \/ EndWrite(t)
  \/ CheckStructure(t) \/ CheckPending(t) \/ AwaitResize(t) \/ ShareGlobal(t)
  \/ ProbeDuplicate(t) \/ ProbeUnique(t) \/ BindDuplicate(t) \/ TrackDuplicate(t)
  \/ AllocateSlot(t) \/ EnsureDone(t) \/ EnsurePending(t) \/ EnsureGrow(t)
  \/ Relock(t) \/ Store(t) \/ PublishSlot(t) \/ Link(t) \/ PublishAlone(t)

Next == \E t \in Thread : \/ Step(t)
                          \/ \E l \in Label, v \in Vec, level \in Levels : Start(t, l, v, level)

(* A thread that can run is scheduled. *)
Fairness == \A t \in Thread : WF_vars(Step(t))

Spec == Init /\ [][Next]_vars

FairSpec == Spec /\ Fairness

-----------------------------------------------------------------------------
PCs == {"idle", "lookup", "claim", "grow", "label", "write", "writing", "structure",
        "read_lock", "await_resize", "share_global", "probe", "bind_duplicate", "track",
        "allocate", "ensure", "ensure_grow", "relock", "store", "publish", "link", "own_global"}

Row == [id : InnerId, label : Label \cup {None}, vec : Vec \cup {None}, level : Int,
        slot : Slot, group : InnerId, first : BOOLEAN, reallocs : Nat]

(* Type correctness of the shared state and of what the threads carry. *)
TypeOK ==
  /\ total_count \in 0 .. MaxIds /\ max_capacity \in 0 .. MaxSlots
  /\ label \in [InnerId -> Label \cup {None}] /\ vecs \in [InnerId -> Vec \cup {None}]
  /\ bottom \subseteq InnerId /\ height \in Int
  /\ slot \in [InnerId -> Slot \cup {None}] /\ physical_count \in 0 .. MaxSlots /\ capacity \in Nat
  /\ code \in [Slot -> Vec \cup {None}] /\ reallocs \in Nat
  /\ group \in [InnerId -> InnerId]
  /\ add_owner \in Thread \cup {None} /\ add_sharers \subseteq Thread
  /\ global_sharers \subseteq Thread
  /\ resize_owner \in Thread \cup {None} /\ resize_pending \in BOOLEAN
  /\ pc \in [Thread -> PCs] /\ row \in [Thread -> Row]

(* Every node a search can meet has a code, in a slot below the physical capacity: *)
(* Resolve does not throw and the read stays inside the storage.                  *)
VisibleNodesReadable ==
  \A i \in bottom :
    /\ StoredCode(i) # None
    /\ (IF Dedup THEN slot[i] ELSE i) < capacity

(* A code is written inside the storage, and no resize runs between the moment the  *)
(* writer found room and the write: the code storage never reallocates under a      *)
(* shared lock, where another writer or a reader would be overtaken by it.          *)
WritesInside ==
  \A t \in Thread :
    /\ pc[t] = "store" => t \in global_sharers /\ row[t].slot < capacity
    /\ pc[t] = "writing" => row[t].id < capacity /\ row[t].reallocs = reallocs

(* Whatever is bound is the vector the element was added with: no slot is written    *)
(* by two elements with different vectors, none is shared by mistake.               *)
CodesFaithful == \A i \in InnerId : StoredCode(i) \in {None, vecs[i]}

(* The nodes a construction search meets are in the codes it reads. *)
ProbeReadsWritten ==
  \A t \in Thread : pc[t] = "probe" => \A i \in bottom : ReadCode(t, i) # None

(* A label belongs to at most one element, whatever the Adds under way. *)
LabelsUnique ==
  \A i, j \in InnerId : label[i] # None /\ label[i] = label[j] => i = j

(* Only an Add that holds add_mutex_ changes the top of the structure, and what it    *)
(* decided under the mutex still holds when it takes global_mutex_: the empty-graph   *)
(* insertion and the entry point are never raced.                                   *)
StructureOwned ==
  \A t \in Thread : pc[t] = "own_global" =>
    add_owner = t /\ unique_add_needs_structure_update(row[t].level)

(* AllocateSlot never runs out of reserved slots: an element takes at most one.       *)
SlotsSuffice == physical_count <= total_count /\ total_count <= max_capacity

(* Members of a duplicate group share the vector. *)
GroupsShareVector == \A i \in InnerId : vecs[i] = vecs[group[i]] \/ ~Dedup

(* Every Add returns. *)
AddsFinish == \A t \in Thread : []<>(pc[t] = "idle")

(* What the slots and the duplicate groups promise each other: there is a slot for    *)
(* every element that needs one, and elements of one group may share theirs.         *)
StorageIsConsistent == SlotsSuffice /\ GroupsShareVector

=============================================================================
