----------------------------- MODULE LazyHGraph -----------------------------
(***************************************************************************)
(* algorithm/lazy_hgraph: a BruteForce index that is replaced by an HGraph     *)
(* when it holds transition_threshold_ elements.  Both are seen as what they    *)
(* promise, a map from labels to vectors, or Null where the pointer is.  The   *)
(* runs of BruteForce and HGraph show under which conditions they keep it.     *)
(*                                                                         *)
(* A call that holds phase_mutex_ exclusively is one step; so is one that         *)
(* holds it shared and makes a single call to the active index.                  *)
(***************************************************************************)
EXTENDS Integers, FiniteSets

CONSTANTS Thread, Label, Vec,
          Null,            \* no index, no snapshot
          Threshold,       \* transition_threshold_
          MaxCalls,        \* bound on the calls of one thread
          MaxFailures,     \* bound on the allocations that fail
          SmallRebuild     \* callers build an emptied graph anew from few vectors

(* What an index holds: labels with their vectors. *)
Index == UNION {[S -> Vec] : S \in SUBSET Label}

(* Labels are 64-bit integers. *)
ASSUME LabelsAreFinite == IsFiniteSet(Label)
ASSUME NullIsNoIndex == Null \notin Index

(* checked_lazy_hgraph_param refuses 0. *)
ASSUME ThresholdIsPositive == Threshold \in Nat \ {0}
ASSUME BoundsAreNaturals == MaxCalls \in Nat /\ MaxFailures \in Nat

VARIABLES phase,          \* phase_
          flat, graph,    \* what flat_index_ and graph_index_ hold
          tombstones,     \* labels of the graph have been marked removed
          sharers,        \* the threads that hold phase_mutex_ shared across steps
          pc, rows,       \* what each thread does, and the rows it has yet to add
          calls,          \* the calls each thread has made
          failures,       \* the allocations that failed
          stalled,        \* history: the flat index reached the threshold and stayed flat
          snapshot        \* the last serialised index

lazyVars == <<phase, flat, graph, tombstones, sharers, pc, rows, calls, failures, stalled, snapshot>>

Empty == [l \in {} |-> Null]

(* The datasets a call may bring: distinct labels with their vectors. *)
Dataset == UNION {[S -> Vec] : S \in SUBSET Label \ {{}}}

Without(index, S) == [l \in DOMAIN index \ S |-> index[l]]

With(index, l, v) == [k \in DOMAIN index \cup {l} |-> IF k = l THEN v ELSE index[k]]

GetNumElements(index) == Cardinality(DOMAIN index)

ActiveIndex == IF phase = "FLAT" THEN flat ELSE graph

LazyInit ==
  /\ phase = "FLAT" /\ flat = Empty /\ graph = Null /\ tombstones = FALSE
  /\ sharers = {}
  /\ pc = [t \in Thread |-> "idle"] /\ rows = [t \in Thread |-> Empty]
  /\ calls = [t \in Thread |-> 0]
  /\ failures = 0 /\ stalled = FALSE /\ snapshot = Null

(* An idle thread makes a call; a null active index ends the program. *)
Calls(t) ==
  /\ pc[t] = "idle" /\ calls[t] < MaxCalls
  /\ ActiveIndex # Null
  /\ calls' = [calls EXCEPT ![t] = @ + 1]

-----------------------------------------------------------------------------
(* Build, with phase_mutex_ held exclusively.  The flat branch uses flat_index_   *)
(* whatever the phase was, and the pointer is null after a graph phase.          *)
BuildFlat(t, data) ==
  /\ Calls(t) /\ sharers = {}
  /\ GetNumElements(ActiveIndex) = 0
  /\ GetNumElements(data) < Threshold
  /\ flat = Null => SmallRebuild
  /\ phase' = "FLAT"
  /\ flat' = IF flat = Null THEN Null ELSE data
  /\ UNCHANGED <<graph, tombstones, sharers, pc, rows, failures, stalled, snapshot>>

BuildGraph(t, data) ==
  /\ Calls(t) /\ sharers = {}
  /\ GetNumElements(ActiveIndex) = 0
  /\ GetNumElements(data) >= Threshold
  /\ graph' = data /\ tombstones' = FALSE
  /\ phase' = "GRAPH"
  /\ flat' = Null
  /\ UNCHANGED <<sharers, pc, rows, failures, stalled, snapshot>>

(* Add takes phase_mutex_ shared.  The phase cannot change while it is held. *)
Add(t, data) ==
  /\ Calls(t)
  /\ sharers' = sharers \cup {t}
  /\ pc' = [pc EXCEPT ![t] = "adding"]
  /\ rows' = [rows EXCEPT ![t] = data]
  /\ UNCHANGED <<phase, flat, graph, tombstones, failures, stalled, snapshot>>

(* The active index takes the rows one by one, in any order (BruteForce and HGraph  *)
(* both spread them over a thread pool), and refuses a label it holds.             *)
AddRow(t, l) ==
  LET taken(index) == IF l \in DOMAIN index THEN index ELSE With(index, l, rows[t][l]) IN
  /\ pc[t] = "adding" /\ l \in DOMAIN rows[t]
  /\ flat' = IF phase = "FLAT" THEN taken(flat) ELSE flat
  /\ graph' = IF phase = "GRAPH" THEN taken(graph) ELSE graph
  /\ rows' = [rows EXCEPT ![t] = Without(@, {l})]
  /\ UNCHANGED <<phase, tombstones, sharers, pc, calls, failures, stalled, snapshot>>

(* Variant: the threshold itself is still small enough. *)
AboveThreshold == phase = "FLAT" /\ GetNumElements(flat) > Threshold

need_transition == phase = "FLAT" /\ GetNumElements(flat) >= Threshold

(* Variant: the shared lock is still held when the exclusive one is asked for. *)
AddCountsHoldingLock(t) ==
  /\ pc[t] = "adding" /\ rows[t] = Empty
  /\ sharers' = IF need_transition THEN sharers ELSE sharers \ {t}
  /\ pc' = [pc EXCEPT ![t] = IF need_transition THEN "transition" ELSE "idle"]
  /\ UNCHANGED <<phase, flat, graph, tombstones, rows, calls, failures, stalled, snapshot>>

(* The elements are counted when all rows are in, other threads may have added or   *)
(* removed some meanwhile, and the lock is released.                               *)
AddCounts(t) ==
  /\ pc[t] = "adding" /\ rows[t] = Empty
  /\ sharers' = sharers \ {t}
  /\ pc' = [pc EXCEPT ![t] = IF need_transition THEN "transition" ELSE "idle"]
  /\ UNCHANGED <<phase, flat, graph, tombstones, rows, calls, failures, stalled, snapshot>>

(* Variant: the vectors are not read back from the flat index. *)
TransitionToEmptyGraph(t) ==
  /\ pc[t] = "transition" /\ sharers = {}
  /\ IF phase = "FLAT" /\ DOMAIN flat # {}
     THEN graph' = Empty /\ flat' = Null /\ phase' = "GRAPH" /\ stalled' = FALSE
     ELSE UNCHANGED <<graph, flat, phase, stalled>>
  /\ pc' = [pc EXCEPT ![t] = "idle"]
  /\ UNCHANGED <<tombstones, sharers, rows, calls, failures, snapshot>>

(* TransitionToGraph, with phase_mutex_ held exclusively: another thread may have     *)
(* made the transition, or removed every element, since the elements were counted.    *)
TransitionToGraph(t) ==
  /\ pc[t] = "transition" /\ sharers = {}
  /\ IF phase = "FLAT" /\ DOMAIN flat # {}
     THEN graph' = flat /\ flat' = Null /\ phase' = "GRAPH" /\ stalled' = FALSE
     ELSE UNCHANGED <<graph, flat, phase, stalled>>
  /\ pc' = [pc EXCEPT ![t] = "idle"]
  /\ UNCHANGED <<tombstones, sharers, rows, calls, failures, snapshot>>

(* The vectors cannot be read back or the graph not be built: the Add throws, with its  *)
(* rows in the flat index, and the index stays flat.                                  *)
TransitionFails(t) ==
  /\ pc[t] = "transition" /\ sharers = {}
  /\ phase = "FLAT" /\ DOMAIN flat # {}
  /\ failures < MaxFailures
  /\ failures' = failures + 1
  /\ stalled' = TRUE
  /\ pc' = [pc EXCEPT ![t] = "idle"]
  /\ UNCHANGED <<phase, flat, graph, tombstones, sharers, rows, calls, snapshot>>

(* Remove with one label: physical in the flat phase whatever the mode, by mode in the   *)
(* graph phase.                                                                      *)
Remove(t, l, mode) ==
  /\ Calls(t)
  /\ l \in DOMAIN ActiveIndex
  /\ flat' = IF phase = "FLAT" THEN Without(flat, {l}) ELSE flat
  /\ graph' = IF phase = "GRAPH" THEN Without(graph, {l}) ELSE graph
  /\ tombstones' = (tombstones \/ (phase = "GRAPH" /\ mode = "MARK_REMOVE"))
  /\ UNCHANGED <<phase, sharers, pc, rows, failures, stalled, snapshot>>

UpdateVector(t, l, v) ==
  /\ Calls(t)
  /\ l \in DOMAIN ActiveIndex
  /\ flat' = IF phase = "FLAT" THEN With(flat, l, v) ELSE flat
  /\ graph' = IF phase = "GRAPH" THEN With(graph, l, v) ELSE graph
  /\ UNCHANGED <<phase, tombstones, sharers, pc, rows, failures, stalled, snapshot>>

(* Serialize, beside other calls that hold the lock shared.  A graph with tombstones is   *)
(* left out: HGraph does not serialise them.                                          *)
Serialize(t) ==
  /\ Calls(t)
  /\ \A s \in Thread : pc[s] # "adding"
  /\ ~(phase = "GRAPH" /\ tombstones)
  /\ snapshot' = [phase |-> phase, index |-> ActiveIndex]
  /\ UNCHANGED <<phase, flat, graph, tombstones, sharers, pc, rows, failures, stalled>>

(* Deserialize into this index, which IndexImpl allows when it is empty; callers do not     *)
(* run it beside other calls.                                                            *)
Deserialize(t) ==
  /\ Calls(t) /\ \A s \in Thread : pc[s] = "idle"
  /\ snapshot # Null
  /\ GetNumElements(ActiveIndex) = 0
  /\ phase' = snapshot.phase
  /\ flat' = IF snapshot.phase = "FLAT" THEN snapshot.index ELSE Null
  /\ graph' = IF snapshot.phase = "GRAPH" THEN snapshot.index ELSE Null
  /\ tombstones' = FALSE
  /\ stalled' = (snapshot.phase = "FLAT" /\ GetNumElements(snapshot.index) >= Threshold)
  /\ UNCHANGED <<sharers, pc, rows, failures, snapshot>>

Step(t) == AddCounts(t) \/ TransitionToGraph(t) \/ \E l \in Label : AddRow(t, l)

LazyNext ==
  \/ \E t \in Thread, data \in Dataset : BuildFlat(t, data) \/ BuildGraph(t, data) \/ Add(t, data)
  \/ \E t \in Thread : Step(t) \/ TransitionFails(t) \/ Serialize(t) \/ Deserialize(t)
  \/ \E t \in Thread, l \in Label, mode \in {"MARK_REMOVE", "FORCE_REMOVE"} : Remove(t, l, mode)
  \/ \E t \in Thread, l \in Label, v \in Vec : UpdateVector(t, l, v)

LazySpec == LazyInit /\ [][LazyNext]_lazyVars

(* A thread that is inside a call goes on.  The lock is free again and again because the     *)
(* callers of this instance make finitely many calls; no more is asked of shared_mutex.       *)
LazyFairSpec == LazySpec /\ \A t \in Thread : WF_lazyVars(Step(t))

-----------------------------------------------------------------------------
LazyTypeOK ==
  /\ phase \in {"FLAT", "GRAPH"}
  /\ flat \in Index \cup {Null} /\ graph \in Index \cup {Null}
  /\ tombstones \in BOOLEAN /\ stalled \in BOOLEAN
  /\ sharers \subseteq Thread
  /\ pc \in [Thread -> {"idle", "adding", "transition"}]
  /\ rows \in [Thread -> Index]
  /\ calls \in [Thread -> 0 .. MaxCalls] /\ failures \in 0 .. MaxFailures
  /\ snapshot = Null \/ snapshot \in [phase : {"FLAT", "GRAPH"}, index : Index]

(* The index a phase names exists, and the graph phase has given the flat index back: no     *)
(* call after a Build, a transition or a Deserialize dereferences a null pointer, and the       *)
(* vectors are not kept twice.                                                              *)
ActiveIndexExists ==
  /\ ActiveIndex # Null
  /\ phase = "GRAPH" => flat = Null

(* The flat phase never forgets its threshold: when the flat index holds that many elements,   *)
(* an Add is under way that will count them or make the transition, unless the last attempt     *)
(* failed or the index was loaded like this.                                                 *)
TransitionIsPending ==
  phase = "FLAT" /\ flat # Null /\ GetNumElements(flat) >= Threshold =>
    stalled \/ \E t \in Thread : pc[t] \in {"adding", "transition"}

Abstract == INSTANCE VectorIndex WITH content <- ActiveIndex

(* Callers cannot tell the phases apart by what the index holds: a transition leaves every     *)
(* label with its vector, and adds, removals and updates that run before, beside or after it    *)
(* reach the index that is kept.                                                            *)
ImplementsVectorIndex == Abstract!SpecWithLoads

(* An Add that has seen the threshold makes the transition, or finds that it was made, failed    *)
(* or is no longer due: Adds do not block each other on phase_mutex_.                         *)
TransitionHappens ==
  \A t \in Thread : []<>(pc[t] # "transition")

(* The phase names an index that exists, the other has been given back, and a flat index at    *)
(* its threshold is about to become a graph.                                                *)
PhaseIsSound == LazyTypeOK /\ ActiveIndexExists /\ TransitionIsPending

=============================================================================
