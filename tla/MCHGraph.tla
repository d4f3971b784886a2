------------------------------ MODULE MCHGraph ------------------------------
(* HGraph for TLC: an index in use, the build of one from a cache, and the     *)
(* duplicate trackers.  part is what is looked at; the state of the others stays *)
(* initial.                                                                   *)
EXTENDS HGraph, BuildCache, DuplicateTracker, TLC

CONSTANTS l0, l1, l2, v1, v2

VARIABLE part

(* Builds from the cache of four elements, two with one source id. *)
MCElement(s, l) == [source |-> s, list |-> l]
MCRow(l, s, v) == [label |-> l, source |-> s, level |-> v]
MCOld == <<MCElement("a", {1}), MCElement("b", {0, 2}), MCElement("c", {1}), MCElement("b", {2})>>
MCFrom(degree, rows) == [old |-> MCOld, rows |-> rows, degree |-> degree]
MCOneCold == MCFrom(2, <<MCRow(0, "a", -1), MCRow(1, "b", -1), MCRow(2, "d", 0), MCRow(2, "c", 0)>>)

MCInit ==
  /\ part \in {"index", "cached_build", "duplicates"}
  /\ Init /\ (part = "index" \/ use.use_reverse_edges)
  /\ CacheInit /\ (part = "cached_build" \/ cached = MCOneCold)
  /\ TrackerInit /\ (part = "duplicates" \/ sparse)

MCNext ==
  \/ part = "index" /\ Next /\ UNCHANGED <<part, cacheVars, trackerVars>>
  \/ part = "cached_build" /\ CacheNext /\ UNCHANGED <<part, vars, trackerVars>>
  \/ part = "duplicates" /\ TrackerNext /\ UNCHANGED <<part, vars, cacheVars>>

MCSpec == MCInit /\ [][MCNext]_<<part, vars, cacheVars, trackerVars>>

-----------------------------------------------------------------------------

MCLabels == {l0, l1, l2}
MCVec2 == {v1, v2}
MCLevels == {-1, 0, 1}

(* A caller that removes physically keeps reverse edges and does not clone; one *)
(* that marks clones while nothing is removed.                                 *)
MCUses ==
  {[use_reverse_edges |-> TRUE, support_force_remove |-> TRUE, levels |-> {-1, 0, 1},
    removes |-> {"FORCE_REMOVE"}, clones |-> "never"],
   [use_reverse_edges |-> FALSE, support_force_remove |-> FALSE, levels |-> {-1, 0},
    removes |-> {"MARK_REMOVE"}, clones |-> "nothing_removed"]}

MCCacheInputs ==
  {MCOneCold,
   MCFrom(2, <<MCRow(0, "a", -1), MCRow(1, "b", 0), MCRow(2, "c", 0)>>),
   MCFrom(2, <<MCRow(0, "", 0), MCRow(1, "c", 1), MCRow(2, "e", 0)>>),
   MCFrom(1, <<MCRow(0, "b", 0), MCRow(1, "a", -1), MCRow(2, "b", -1), MCRow(3, "e", -1)>>)}

(* Label 0 is the padding and stays apart; the other labels, and the vectors, *)
(* are interchangeable.                                                      *)
MCSymmetry == Permutations({l1, l2}) \cup Permutations({v1, v2})

=============================================================================
