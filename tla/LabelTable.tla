----------------------------- MODULE LabelTable -----------------------------
(***************************************************************************)
(* impl/label_table: the two-way translation between the labels callers    *)
(* use and the inner ids the index uses.  A label table is a record         *)
(*                                                                         *)
(*   table    label_table_, a 0-based array that Resize pads with label 0   *)
(*   remap    label_remap_, the reverse map (a partial function)            *)
(*   deleted  deleted_ids_, the ids marked as removed                       *)
(*   count    total_count_                                                  *)
(*                                                                         *)
(* The operations are functions on such records, so that a handler that     *)
(* makes several calls is the composition of their operators.               *)
(***************************************************************************)
EXTENDS Integers, FiniteSets

CONSTANTS Label,   \* the labels callers use
          Zero     \* the label 0, which is also what a padded entry holds

(* Any 64-bit integer is a label, 0 included. *)
ASSUME ZeroIsALabel == Zero \in Label

(* numeric_limits<InnerIdType>::max(), never the id of an element. *)
INVALID_ID == -1

-----------------------------------------------------------------------------
(* LabelRemap *)

InsertOrAssign(remap, label, id) ==
  [l \in DOMAIN remap \cup {label} |-> IF l = label THEN id ELSE remap[l]]

Erase(remap, label) == [l \in DOMAIN remap \ {label} |-> remap[l]]

Find(remap, label) == IF label \in DOMAIN remap THEN remap[label] ELSE INVALID_ID

-----------------------------------------------------------------------------
EmptyLabelTable ==
  [table |-> [i \in {} |-> Zero], remap |-> [l \in {} |-> 0], deleted |-> {}, count |-> 0]

TableSize(t) == Cardinality(DOMAIN t.table)

(* Vector::resize: the new entries hold label 0. *)
ResizeVector(table, n) == [i \in 0 .. n - 1 |-> IF i \in DOMAIN table THEN table[i] ELSE Zero]

(* TryGetIdByLabel: the id, or INVALID_ID where the code returns {false, 0}. *)
TryGetIdByLabel(t, label, returnEvenRemoved) ==
  LET id == Find(t.remap, label)
  IN  IF ~returnEvenRemoved /\ id \in t.deleted THEN INVALID_ID ELSE id

CheckLabel(t, label) == label \in DOMAIN t.remap /\ t.remap[label] \notin t.deleted

Insert(t, id, label) ==
  LET table == IF id + 1 > TableSize(t) THEN ResizeVector(t.table, id + 1) ELSE t.table
  IN  [table |-> [table EXCEPT ![id] = label], remap |-> InsertOrAssign(t.remap, label, id),
       deleted |-> t.deleted, count |-> t.count + 1]

(* The ids a MarkRemove of these labels adds to deleted_ids_ (it returns     *)
(* their number), and the table afterwards.                                 *)
NewlyRemoved(t, labels) ==
  {t.remap[l] : l \in labels \cap DOMAIN t.remap} \ t.deleted

MarkRemove(t, labels) == [t EXCEPT !.deleted = t.deleted \cup NewlyRemoved(t, labels)]

(* UpdateLabel throws when the new label is in use or when no entry has the  *)
(* old one.  Every entry with the old label is renamed, the padding          *)
(* included, before the reverse map is looked up: when the old label is only *)
(* in the padding the call fails with label_table_ already rewritten.        *)
UpdateLabel(t, old, new) ==
  LET renamed == [i \in DOMAIN t.table |-> IF t.table[i] = old THEN new ELSE t.table[i]]
  IN  IF CheckLabel(t, new) THEN t
      ELSE IF old \notin DOMAIN t.remap THEN [t EXCEPT !.table = renamed]
           ELSE [table |-> renamed, deleted |-> t.deleted, count |-> t.count,
                 remap |-> InsertOrAssign(Erase(t.remap, old), new, t.remap[old])]

Resize(t, newSize) ==
  IF newSize < t.count THEN t ELSE [t EXCEPT !.table = ResizeVector(t.table, newSize)]

ShrinkToFit(t, capacity) == [t EXCEPT !.table = ResizeVector(t.table, capacity)]

ForceRemove(t, label, id) ==
  [table |-> t.table, remap |-> Erase(t.remap, label),
   deleted |-> t.deleted \ {id}, count |-> t.count - 1]

(* Variant: the reverse map is left as it is. *)
MoveTableOnly(t, from, to) ==
  IF from = to THEN t
  ELSE [t EXCEPT !.deleted = (t.deleted \ {from, to}) \cup
                             (IF from \in t.deleted THEN {to} ELSE {}),
                 !.table = [t.table EXCEPT ![to] = t.table[from]]]

(* Move gives the element at "from" the id "to". *)
Move(t, from, to) ==
  IF from = to THEN t
  ELSE LET label == t.table[from]
       IN  [table |-> [t.table EXCEPT ![to] = label],
            remap |-> InsertOrAssign(Erase(t.remap, t.table[to]), label, to),
            deleted |-> (t.deleted \ {from, to}) \cup (IF from \in t.deleted THEN {to} ELSE {}),
            count |-> t.count]

-----------------------------------------------------------------------------
(* Serialisation.  deleted_ids_ is not part of either format. *)

LoadRebuilding(t) ==
  [t EXCEPT !.deleted = {},
            !.remap = [l \in {t.table[i] : i \in DOMAIN t.table} |->
                         CHOOSE i \in DOMAIN t.table : t.table[i] = l]]

(* serialize_label_info without support_duplicate: the array, then the pairs *)
(* of the reverse map; total_count_ is restored from the number of pairs.    *)
LoadRemapFormat(t) ==
  [table |-> t.table, remap |-> t.remap, deleted |-> {}, count |-> Cardinality(DOMAIN t.remap)]

(* With support_duplicate only the array is written: the reverse map is       *)
(* rebuilt by InsertOrAssign in id order, so the last id with a label wins,   *)
(* and the padding takes part.                                               *)
LoadTableFormat(t) ==
  LET lastIdOf(l) == CHOOSE i \in DOMAIN t.table :
                       /\ t.table[i] = l
                       /\ \A j \in DOMAIN t.table : t.table[j] = l => j <= i
  IN  [table |-> t.table, deleted |-> {}, count |-> TableSize(t),
       remap |-> [l \in {t.table[i] : i \in DOMAIN t.table} |-> lastIdOf(l)]]

=============================================================================
