---------------------------- MODULE MCScheduled ----------------------------
(* The parts whose calls wait for what other threads do, for TLC: the lazy    *)
(* index, the parallel search and the batches of reads.  kind is the part in    *)
(* use; the state of the others stays initial.                                *)
EXTENDS LazyHGraph, ParallelSearch, BatchRead, TLC

CONSTANTS Kinds,                            \* the parts this instance uses
          t1, t2, l1, l2, v1, v2, s1, s2, c1, c2

VARIABLE kind

Init ==
  /\ kind \in Kinds /\ LazyInit /\ ParallelInit
  /\ BatchReadInit /\ (kind = "reads" \/ io = "func_reader")

Next ==
  \/ kind = "lazy" /\ LazyNext /\ UNCHANGED <<kind, parallelVars, readVars>>
  \/ kind = "parallel" /\ ParallelNext /\ UNCHANGED <<kind, lazyVars, readVars>>
  \/ kind = "reads" /\ BatchReadNext /\ UNCHANGED <<kind, lazyVars, parallelVars>>

allVars == <<kind, lazyVars, parallelVars, readVars>>

(* The fairness of LazyFairSpec, ParallelFairSpec and BatchReadFairSpec. *)
FairSpec ==
  /\ Init /\ [][Next]_allVars
  /\ \A t \in Thread : WF_lazyVars(kind = "lazy" /\ Step(t))
  /\ \A s \in Search : WF_parallelVars(kind = "parallel" /\ Main(s))
  /\ \A w \in Worker : WF_parallelVars(kind = "parallel" /\ Work(w))
  /\ WF_parallelVars(kind = "parallel" /\ StartWorker)
  /\ \A c \in Caller : WF_readVars(kind = "reads" /\ ReadStep(c))
  /\ \A r \in Request : WF_readVars(kind = "reads" /\ ReadEnds(r))

-----------------------------------------------------------------------------
MCThreads2 == {t1, t2}
MCThreads1 == {t1}
MCLabels == {l1, l2}
MCVec1 == {v1}
MCVec2 == {v1, v2}

MCSearches == {s1, s2}
MCTwoAndOne == s1 :> 2 @@ s2 :> 1
MCHops == s1 :> 2 @@ s2 :> 1

MCCallers == {c1, c2}
MCReads == c1 :> 3 @@ c2 :> 1

(* Every search returns, where the parallel search is in use. *)
ParallelSearchReturns ==
  \A s \in Search : []<>(kind = "parallel" => Returned(s))

=============================================================================
