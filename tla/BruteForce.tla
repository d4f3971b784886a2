----------------------------- MODULE BruteForce -----------------------------
(***************************************************************************)
(* algorithm/bruteforce: vectors in a flat array, searched exhaustively.      *)
(* Add claims a slot under its locks and writes the vector after it has       *)
(* released them; Remove fills the freed slot with the last vector.  A step    *)
(* is what happens between two points where another thread may run.           *)
(***************************************************************************)
EXTENDS Integers, FiniteSets, LabelTable

CONSTANTS Thread,       \* the threads that call Add
          Vec, None,    \* vectors, and what an unwritten slot and an idle thread hold
          MaxIds,       \* bound on the slots in use
          ResizeStep,   \* 2^resize_increase_count_bit_
          Overlap,      \* what callers do beside a running Add: a subset of Overlaps
          ReAdd,        \* callers add a label again whose last element is marked removed
          CloneWhen     \* when this caller replaces the index by its clone

(* Growing the array, and calling Remove or UpdateVector, while another thread writes. *)
Overlaps == {"grow", "remove", "update"}

ASSUME SizesArePositive == MaxIds \in Nat \ {0} /\ ResizeStep \in Nat \ {0}
ASSUME OverlapsExist == Overlap \subseteq Overlaps
ASSUME ClonesExist == CloneWhen \in {"never", "no_leftovers", "no_tombstones"}

VARIABLES labels,         \* label_table_
          codes,          \* inner_codes_, by slot
          total_count,    \* total_count_
          delete_count,   \* delete_count_
          max_capacity,   \* max_capacity_
          pc, row         \* what each thread does, and with which element

vars == <<labels, codes, total_count, delete_count, max_capacity, pc, row>>

InnerId == 0 .. MaxIds - 1

NoRow == [label |-> None, vec |-> None, id |-> 0, moved |-> FALSE]

Init ==
  /\ labels = EmptyLabelTable
  /\ codes = [i \in InnerId |-> None]
  /\ total_count = 0 /\ delete_count = 0 /\ max_capacity = 0
  /\ pc = [t \in Thread |-> "idle"]
  /\ row = [t \in Thread |-> NoRow]

RoundUp(n) == ((n + ResizeStep - 1) \div ResizeStep) * ResizeStep

(* The threads that own a slot they have not finished writing. *)
Writers == {t \in Thread : pc[t] \in {"write", "writing"}}

(* What the callers of this instance do while others add. *)
Allowed(what) == what \in Overlap \/ Writers = {}

IsIdle(t) == pc[t] = "idle"

(* Without ReAdd no call names a label that is marked removed as a new one. *)
MayUse(l) == l \in DOMAIN labels.remap => ReAdd \/ CheckLabel(labels, l)

(* inner_codes_ gets a new buffer: the threads that are copying a code do not see it. *)
Reallocated == [t \in Thread |-> [row[t] EXCEPT !.moved = pc[t] = "writing"]]

-----------------------------------------------------------------------------
(* Add, called with one element.  The first look at the label, under          *)
(* label_lookup_mutex_, only saves work: claim_slot looks again.              *)
Add(t, l, v) ==
  /\ IsIdle(t)
  /\ ~CheckLabel(labels, l)
  /\ MayUse(l)
  /\ pc' = [pc EXCEPT ![t] = "claim"]
  /\ row' = [row EXCEPT ![t] = [label |-> l, vec |-> v, id |-> 0, moved |-> FALSE]]
  /\ UNCHANGED <<labels, codes, total_count, delete_count, max_capacity>>

(* claim_slot finds that another thread inserted the label: a failed id. *)
ClaimFails(t) ==
  /\ pc[t] = "claim"
  /\ CheckLabel(labels, row[t].label)
  /\ pc' = [pc EXCEPT ![t] = "idle"]
  /\ row' = [row EXCEPT ![t] = NoRow]
  /\ UNCHANGED <<labels, codes, total_count, delete_count, max_capacity>>

(* claim_slot holds label_lookup_mutex_ and add_mutex_, and global_mutex_ while *)
(* it resizes.  A Writer holds none of them.                                 *)
claim_slot(t) ==
  LET id    == total_count
      grows == max_capacity < RoundUp(id + 1)
      rows  == IF grows THEN Reallocated ELSE row
  IN
  /\ pc[t] = "claim"
  /\ ~CheckLabel(labels, row[t].label)
  /\ id < MaxIds
  /\ grows => Allowed("grow")
  /\ total_count' = id + 1
  /\ max_capacity' = IF grows THEN RoundUp(id + 1) ELSE max_capacity
  /\ labels' = Insert(labels, id, row[t].label)
  /\ pc' = [pc EXCEPT ![t] = "write"]
  /\ row' = [rows EXCEPT ![t] = [rows[t] EXCEPT !.id = id]]
  /\ UNCHANGED <<codes, delete_count>>

(* add_one: MemoryIO::WriteImpl reads buffer_ and copies the code to it, two    *)
(* steps with no lock.                                                       *)
BeginWrite(t) ==
  /\ pc[t] = "write"
  /\ pc' = [pc EXCEPT ![t] = "writing"]
  /\ UNCHANGED <<row, labels, codes, total_count, delete_count, max_capacity>>

(* When the buffer has moved in between, the copy goes to the old one: it is    *)
(* lost unless the move was in place.                                         *)
EndWrite(t) ==
  /\ pc[t] = "writing"
  /\ \/ codes' = [codes EXCEPT ![row[t].id] = row[t].vec]
     \/ row[t].moved /\ codes' = codes
  /\ pc' = [pc EXCEPT ![t] = "idle"]
  /\ row' = [row EXCEPT ![t] = NoRow]
  /\ UNCHANGED <<labels, total_count, delete_count, max_capacity>>

-----------------------------------------------------------------------------

CountedRemoved(l) == Cardinality(NewlyRemoved(labels, {l}))

(* Remove in mode MARK_REMOVE, called with one label. *)
MarkRemoveOne(l) ==
  /\ Allowed("remove")
  /\ ReAdd \/ \A t \in Thread : IsIdle(t) \/ row[t].label # l
  /\ l \in DOMAIN labels.remap
  /\ labels' = MarkRemove(labels, {l})
  /\ delete_count' = delete_count + CountedRemoved(l)
  /\ UNCHANGED <<codes, total_count, max_capacity, pc, row>>

(* Variant: was_mark_removed is not looked at. *)
DeleteCountLowered(id) == delete_count - 1

DeleteCountWithout(id) ==
  IF id \in labels.deleted /\ delete_count > 0 THEN delete_count - 1 ELSE delete_count

(* shrink_to_fit returns early while more than half of the array is in use. *)
Shrinks(n) == n = 0 \/ n <= max_capacity \div 2

(* Variant: only the label moves. *)
SlotNotFilled(id, last) == codes

(* The last vector is decoded and inserted at the freed slot. *)
SlotFilled(id, last) == [codes EXCEPT ![id] = codes[last]]

(* Remove in mode FORCE_REMOVE, called with one label: all three locks are held.  *)
(* Shrinking lowers the size of MemoryIO and leaves its buffer where it is.      *)
ForceRemoveOne(l) ==
  LET id      == TryGetIdByLabel(labels, l, TRUE)
      last    == total_count - 1
      cleared == ForceRemove(labels, l, id)
      moved   == IF id < last THEN Move(cleared, last, id) ELSE cleared
      shrinks == Shrinks(total_count - 1)
  IN
  /\ Allowed("remove")
  /\ id # INVALID_ID /\ id < total_count
  /\ labels' = IF shrinks THEN ShrinkToFit(moved, last) ELSE moved
  /\ codes' = SlotFilled(id, last)
  /\ max_capacity' = IF shrinks THEN last ELSE max_capacity
  /\ delete_count' = DeleteCountWithout(id)
  /\ total_count' = last
  /\ UNCHANGED <<pc, row>>

(* UpdateVector: all three locks are held. *)
UpdateVector(l, v) ==
  /\ Allowed("update")
  /\ CheckLabel(labels, l)
  /\ codes' = [codes EXCEPT ![TryGetIdByLabel(labels, l, FALSE)] = v]
  /\ UNCHANGED <<labels, total_count, delete_count, max_capacity, pc, row>>

(* InnerIndexInterface::UpdateId, called while no Add runs. *)
UpdateId(old, new) ==
  /\ \A t \in Thread : IsIdle(t)
  /\ old # new /\ MayUse(new)
  /\ labels' = UpdateLabel(labels, old, new)
  /\ UNCHANGED <<codes, total_count, delete_count, max_capacity, pc, row>>

(* Clone: Serialize writes the whole label_table_, Deserialize reads it into a  *)
(* new index and rebuilds the reverse map from it.  deleted_ids_ is not         *)
(* written and max_capacity_ not restored.  Nothing else runs meanwhile.        *)
Clone ==
  /\ CloneWhen # "never" /\ labels.deleted = {}
  /\ CloneWhen = "no_leftovers" => TableSize(labels) = total_count
  /\ \A t \in Thread : IsIdle(t)
  /\ labels' = LoadTableFormat(labels)
  /\ delete_count' = Cardinality(LoadTableFormat(labels).deleted)
  /\ max_capacity' = 0
  /\ UNCHANGED <<codes, total_count, pc, row>>

Next ==
  \/ \E t \in Thread, l \in Label, v \in Vec : Add(t, l, v)
  \/ \E t \in Thread : ClaimFails(t) \/ claim_slot(t) \/ BeginWrite(t) \/ EndWrite(t)
  \/ \E l \in Label : MarkRemoveOne(l) \/ ForceRemoveOne(l)
  \/ \E l \in Label, v \in Vec : UpdateVector(l, v)
  \/ \E old, new \in Label : UpdateId(old, new)
  \/ Clone

Spec == Init /\ [][Next]_vars

-----------------------------------------------------------------------------
TypeOK ==
  /\ labels.table \in [0 .. TableSize(labels) - 1 -> Label]
  /\ \A l \in DOMAIN labels.remap : l \in Label /\ labels.remap[l] \in InnerId
  /\ labels.deleted \subseteq InnerId /\ labels.count \in Nat
  /\ codes \in [InnerId -> Vec \cup {None}]
  /\ total_count \in 0 .. MaxIds /\ delete_count \in Nat
  /\ max_capacity \in 0 .. RoundUp(MaxIds)
  /\ pc \in [Thread -> {"idle", "claim", "write", "writing"}]
  /\ row \in [Thread -> [label : Label \cup {None}, vec : Vec \cup {None}, id : InnerId, moved : BOOLEAN]]

(* The labels that id lookups find. *)
Found == {l \in Label : CheckLabel(labels, l)}

(* The labels a search may return, which walks the slots below total_count_. *)
Searched == {i \in 0 .. total_count - 1 : i \notin labels.deleted}

(* Searches and id lookups agree: CheckIdExist, CalDistanceById and UpdateVector  *)
(* reach an element exactly when SearchWithRequest scores it, and under the same   *)
(* slot, whatever Remove has moved.                                             *)
SearchAgreesWithLookup ==
  /\ \A i \in Searched : TryGetIdByLabel(labels, labels.table[i], FALSE) = i
  /\ \A l \in Found : labels.remap[l] \in Searched

(* GetNumElements counts the labels that id lookups find, and ExportIDs copies      *)
(* as many labels as there are slots in use.                                     *)
CountsAgree ==
  /\ Cardinality(Found) = total_count - delete_count
  /\ labels.count = total_count
  /\ delete_count = Cardinality(labels.deleted)

(* What callers can rely on: the elements whose Add has returned.  An element that  *)
(* is still being written is not part of it.                                      *)
Content ==
  [l \in Found \ {row[t].label : t \in Writers} |-> codes[labels.remap[l]]]

Abstract == INSTANCE VectorIndex WITH content <- Content

(* The array is a map from labels to vectors: Adds, Removes in either mode and      *)
(* updates change the element they name and no other, although Remove moves the    *)
(* last element and Adds write without a lock.                                    *)
ImplementsVectorIndex == Abstract!SpecWithUpdates

(* A clone holds what its source holds: Clone copies the index through Serialize and *)
(* Deserialize.                                                                   *)
CloneKeepsContent == [][Clone => Content' = Content]_vars

(* An element whose Add has returned holds the vector it was given or updated to,    *)
(* although add_one writes without a lock: no write is lost.                      *)
ContentIsWritten == \A l \in DOMAIN Content : Content[l] \in Vec

(* The array, the label table and the counters agree, whatever removals have moved  *)
(* and whatever Adds have claimed and not yet written.                            *)
LookupsAgree == TypeOK /\ SearchAgreesWithLookup /\ CountsAgree

=============================================================================
