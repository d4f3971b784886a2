---------------------------- MODULE HGraphUpdate ----------------------------
(***************************************************************************)
(* algorithm/hgraph: UpdateVector of an index with deduplicated storage, at     *)
(* the same time as Adds.                                                     *)
(***************************************************************************)
EXTENDS HGraphAdd

CONSTANTS Updater,      \* the threads that call UpdateVector
          MaxUpdates,   \* bound on the updates
          Uses          \* what callers do together: threads, levels and vectors

ASSUME UpdatesAreDeduplicated == Dedup
ASSUME UpdatersAreNotAdders == Updater \cap Thread = {} /\ None \notin Updater
ASSUME UsesExist ==
  Uses \subseteq [who : SUBSET (Thread \cup Updater), levels : SUBSET Levels, vecs : SUBSET Vec]

VARIABLES upc,          \* what each updater does
          target,       \* the id it updates and the new vector
          updates,      \* the updates started
          use           \* the use made of this index, fixed

uvars == <<vars, upc, target, updates, use>>

UGoto(u, s) == upc' = [upc EXCEPT ![u] = s]

UInit ==
  /\ Init
  /\ upc = [u \in Updater |-> "idle"]
  /\ target = [u \in Updater |-> [id |-> 0, vec |-> None]]
  /\ updates = 0
  /\ use \in Uses

(* UpdateVector looks the label up; with force_update it goes on to the group      *)
(* check, without it compares the vectors first.                                *)
StartUpdate(u, i, v, force) ==
  /\ upc[u] = "idle"
  /\ updates < MaxUpdates
  /\ label[i] # None
  /\ updates' = updates + 1
  /\ target' = [target EXCEPT ![u] = [id |-> i, vec |-> v]]
  /\ UGoto(u, IF force THEN "group" ELSE "share_label")
  /\ UNCHANGED vars

(* The comparison holds label_lookup_mutex_ shared throughout. *)
ShareLabel(u) ==
  /\ upc[u] = "share_label"
  /\ label_sharers' = label_sharers \cup {u}
  /\ UGoto(u, "read_lock")
  /\ UNCHANGED <<total_count, max_capacity, label, vecs, storage, graph, pc, row, target, updates,
                 add_owner, add_sharers, global_sharers, resize_owner, resize_pending>>

(* acquire_global_read_lock.  The comparison takes it for GetVectorByInnerId and for *)
(* every CalcDistanceById in turn, each time with the label lock held; the model     *)
(* takes it once for all of them, and once for the update.                          *)
UCheckPending(u) ==
  /\ upc[u] \in {"read_lock", "update_lock"}
  /\ UGoto(u, CASE upc[u] = "read_lock" /\ resize_pending     -> "await_resize"
                [] upc[u] = "read_lock" /\ ~resize_pending    -> "share_global"
                [] upc[u] = "update_lock" /\ resize_pending   -> "await_resize2"
                [] upc[u] = "update_lock" /\ ~resize_pending  -> "share_global2")
  /\ UNCHANGED <<vars, target, updates>>

UAwaitResize(u) ==
  /\ upc[u] \in {"await_resize", "await_resize2"}
  /\ resize_owner = None
  /\ resize_owner' = u
  /\ UGoto(u, IF upc[u] = "await_resize" THEN "share_global" ELSE "share_global2")
  /\ UNCHANGED <<total_count, max_capacity, label, vecs, storage, graph, pc, row, target, updates,
                 add_owner, add_sharers, global_sharers, label_sharers, resize_pending>>

UShareGlobal(u) ==
  /\ upc[u] \in {"share_global", "share_global2"}
  /\ global_sharers' = global_sharers \cup {u}
  /\ resize_owner' = IF resize_owner = u THEN None ELSE resize_owner
  /\ UGoto(u, IF upc[u] = "share_global" THEN "compare" ELSE "overwrite")
  /\ UNCHANGED <<total_count, max_capacity, label, vecs, storage, graph, pc, row, target, updates,
                 add_owner, add_sharers, label_sharers, resize_pending>>

(* Variant: label_lookup_mutex_ is not released. *)
LabelKept(u) == label_sharers

LabelReleased(u) == label_sharers \ {u}

(* The distances decide between returning and going on; an element whose slot is    *)
(* not bound yet makes Resolve throw.                                            *)
Compare(u) ==
  /\ upc[u] = "compare"
  /\ \/ UGoto(u, "idle")
     \/ slot[target[u].id] # None /\ UGoto(u, "group")
  /\ global_sharers' = global_sharers \ {u}
  /\ label_sharers' = LabelReleased(u)
  /\ UNCHANGED <<total_count, max_capacity, label, vecs, storage, graph, pc, row, target, updates,
                 add_owner, add_sharers, resize_owner, resize_pending>>

(* GetGroupSize, under the tracker's own lock only. *)
CheckGroup(u) ==
  /\ upc[u] = "group"
  /\ LET members == {i \in InnerId : group[i] = group[target[u].id]}
     IN  UGoto(u, IF Cardinality(members) > 1 THEN "idle" ELSE "update_lock")
  /\ UNCHANGED <<vars, target, updates>>

Overwrite(u) ==
  LET s == slot[target[u].id]
  IN
  /\ upc[u] = "overwrite"
  /\ code' = IF s = None THEN code ELSE [code EXCEPT ![s] = target[u].vec]
  /\ vecs' = IF s = None THEN vecs ELSE [vecs EXCEPT ![target[u].id] = target[u].vec]
  /\ global_sharers' = global_sharers \ {u}
  /\ UGoto(u, "idle")
  /\ UNCHANGED <<total_count, max_capacity, label, slot, physical_count, capacity, reallocs,
                 graph, pc, row, target, updates,
                 add_owner, add_sharers, resize_owner, label_sharers, resize_pending>>

UStep(u) ==
  \/ ShareLabel(u) \/ UCheckPending(u) \/ UAwaitResize(u) \/ UShareGlobal(u)
  \/ Compare(u) \/ CheckGroup(u) \/ Overwrite(u)

UNext ==
  /\ \/ /\ \E t \in Thread \cap use.who :
              \/ Step(t)
              \/ \E l \in Label, v \in use.vecs, level \in use.levels : Start(t, l, v, level)
        /\ UNCHANGED <<upc, target, updates>>
     \/ \E u \in Updater \cap use.who :
          \/ UStep(u)
          \/ \E i \in InnerId, v \in use.vecs, force \in BOOLEAN : StartUpdate(u, i, v, force)
  /\ UNCHANGED use

(* A thread that can run is scheduled. *)
UFairSpec ==
  /\ UInit /\ [][UNext]_uvars
  /\ \A t \in Thread : WF_uvars(Step(t) /\ UNCHANGED <<upc, target, updates, use>>)
  /\ \A u \in Updater : WF_uvars(UStep(u) /\ UNCHANGED use)

-----------------------------------------------------------------------------
(* "UpdateVector ... concurrent-safe": every UpdateVector returns, and every Add      *)
(* beside it.                                                                     *)
CallsFinish ==
  /\ \A u \in Updater : []<>(upc[u] = "idle")
  /\ AddsFinish

=============================================================================
