--------------------------- MODULE ParallelSearch ---------------------------
(***************************************************************************)
(* impl/searcher/parallel_searcher: a search that hands the distance           *)
(* computations of every hop to workers in a shared thread pool, through one    *)
(* bounded single-producer single-consumer queue per worker (utils/spsc_queue). *)
(* Which nodes a hop visits is not decided here: a hop has some number of new    *)
(* points, and an id or a distance is the number of the hop it belongs to.      *)
(***************************************************************************)
EXTENDS Integers, FiniteSets, Sequences

CONSTANTS Search,         \* the searches under way, each with its own main thread
          NumThreads,     \* parallel_search_thread_count - 1 of each search
          PoolSize,       \* threads of the pool all searches of an index share
          QueueSize,      \* N of SPSCQueue
          MaxDegree,      \* bound on the points of a hop
          MaxHops,        \* bound on the hops of each search
          LoadsInOrder    \* loads are not reordered after a relaxed load (as on x86)

ASSUME ThreadsAreCounted == NumThreads \in [Search -> Nat \ {0}]
ASSUME SizesArePositive == {PoolSize, QueueSize, MaxDegree} \subseteq Nat \ {0}
ASSUME HopsAreBounded == MaxHops \in [Search -> Nat]

Worker == UNION {{s} \X (0 .. NumThreads[s] - 1) : s \in Search}
Slot == 0 .. QueueSize - 1
Point == 0 .. MaxDegree - 1

(* What a queue carries: the range of points to compute.  The end of the search is the   *)
(* item without an address.                                                          *)
Task == [from : 0 .. MaxDegree, count : 0 .. MaxDegree]
Pill == [from |-> -1, count |-> 0]
NoTask == [from |-> -2, count |-> 0]

VARIABLES
  \* one main thread per search
  mpc,                    \* what each main thread does next
  next,                  \* the worker the main thread deals with
  hop, count, offset,    \* hops, count_no_visited, offset
  ids, dists, seen,      \* to_be_visited_id, line_dists, line_dists as the main thread read them
  numPoints,             \* num_points
  \* one queue and one pool task per worker
  writeIdx, readIdx, buffer,
  wpc,                   \* "queued" in the pool, "idle", "copied" or "task" when running, "ended"
  item,                  \* the item popped
  pending,               \* the tasks in the queue of the pool
  dropped                \* history: the searches that pushed into a full queue

mainVars == <<mpc, next, hop, count, offset, ids, seen>>
shared == <<dists, numPoints>>
queueVars == <<writeIdx, readIdx, buffer>>
workerVars == <<wpc, item, pending>>
parallelVars == <<mainVars, shared, queueVars, workerVars, dropped>>

ParallelInit ==
  /\ mpc = [s \in Search |-> "enqueue"] /\ next = [s \in Search |-> 0]
  /\ hop = [s \in Search |-> 0] /\ count = [s \in Search |-> 0] /\ offset = [s \in Search |-> 0]
  /\ ids = [s \in Search |-> [i \in Point |-> 0]]
  /\ dists = ids /\ seen = ids
  /\ numPoints = [s \in Search |-> 0]
  /\ writeIdx = [w \in Worker |-> 0] /\ readIdx = [w \in Worker |-> 0]
  /\ buffer = [w \in Worker |-> [i \in Slot |-> NoTask]]
  /\ wpc = [w \in Worker |-> "none"] /\ item = [w \in Worker |-> NoTask]
  /\ pending = <<>> /\ dropped = {}

Goto(s, where) == mpc' = [mpc EXCEPT ![s] = where]

Running == {w \in Worker : wpc[w] \in {"idle", "copied", "task"}}

-----------------------------------------------------------------------------
(* SPSCQueue *)

(* Variant: all N slots are used. *)
FullWithoutGap(w) == writeIdx[w] - readIdx[w] >= QueueSize + 1

Full(w) == writeIdx[w] + 1 - readIdx[w] >= QueueSize

SlotOf(idx) == idx % QueueSize

(* On to the next worker, and after the last to what follows the loop. *)
NextWorker(s, again, after) ==
  LET last == next[s] + 1 = NumThreads[s] IN
  /\ next' = [next EXCEPT ![s] = IF last THEN 0 ELSE @ + 1]
  /\ Goto(s, IF last THEN after ELSE again)

(* Push, up to the store of write_idx.  A full queue drops the task, and the caller, who    *)
(* does not look at the result, goes on with the next worker.                            *)
Push(s, task, publish, again, after) ==
  LET w == <<s, next[s]>> IN
  IF Full(w)
  THEN dropped' = dropped \cup {s} /\ NextWorker(s, again, after) /\ UNCHANGED buffer
  ELSE /\ buffer' = [buffer EXCEPT ![w][SlotOf(writeIdx[w])] = task]
       /\ Goto(s, publish) /\ UNCHANGED <<next, dropped>>

(* Pop up to the store of read_idx. *)
PopCopies(w) ==
  /\ wpc[w] = "idle"
  /\ readIdx[w] # writeIdx[w]
  /\ item' = [item EXCEPT ![w] = buffer[w][SlotOf(readIdx[w])]]
  /\ wpc' = [wpc EXCEPT ![w] = "copied"]
  /\ UNCHANGED <<mainVars, shared, queueVars, pending, dropped>>

PopReleases(w) ==
  /\ wpc[w] = "copied"
  /\ readIdx' = [readIdx EXCEPT ![w] = @ + 1]
  /\ wpc' = [wpc EXCEPT ![w] = IF item[w] = Pill THEN "ended" ELSE "task"]
  /\ UNCHANGED <<mainVars, shared, writeIdx, buffer, item, pending, dropped>>

-----------------------------------------------------------------------------
(* A worker: a task of the pool that runs until it pops the end of the search. *)

(* A free thread of the pool takes the oldest task. *)
StartWorker ==
  /\ pending # <<>>
  /\ Cardinality(Running) < PoolSize
  /\ wpc' = [wpc EXCEPT ![Head(pending)] = "idle"]
  /\ pending' = Tail(pending)
  /\ UNCHANGED <<mainVars, shared, queueVars, item, dropped>>

Points(task) == task.from .. task.from + task.count - 1

(* Query of the points in a range: the ids are read where the task points. *)
Computed(s, S) == [i \in Point |-> IF i \in S THEN ids[s][i] ELSE dists[s][i]]

Compute(w) ==
  LET s == w[1] IN
  /\ wpc[w] = "task"
  /\ dists' = [dists EXCEPT ![s] = Computed(s, Points(item[w]))]
  /\ numPoints' = [numPoints EXCEPT ![s] = @ + item[w].count]
  /\ wpc' = [wpc EXCEPT ![w] = "idle"]
  /\ item' = [item EXCEPT ![w] = NoTask]
  /\ UNCHANGED <<mainVars, queueVars, pending, dropped>>

-----------------------------------------------------------------------------
(* The main thread *)

(* pool->GeneralEnqueue, once per worker. *)
EnqueueWorker(s) ==
  LET w == <<s, next[s]>>
      last == next[s] + 1 = NumThreads[s] IN
  /\ mpc[s] = "enqueue"
  /\ pending' = Append(pending, w)
  /\ wpc' = [wpc EXCEPT ![w] = "queued"]
  /\ next' = [next EXCEPT ![s] = IF last THEN 0 ELSE @ + 1]
  /\ Goto(s, IF last THEN "hop" ELSE "enqueue")
  /\ UNCHANGED <<hop, count, offset, ids, seen, shared, queueVars, item, dropped>>

(* Variant: num_points goes on from the last hop. *)
StartHopCountingOn(s, n) ==
  /\ mpc[s] = "hop"
  /\ hop[s] < MaxHops[s]
  /\ hop' = [hop EXCEPT ![s] = @ + 1]
  /\ count' = [count EXCEPT ![s] = n]
  /\ offset' = [offset EXCEPT ![s] = 0]
  /\ ids' = [ids EXCEPT ![s] = [i \in Point |-> IF i < n THEN hop[s] + 1 ELSE @[i]]]
  /\ Goto(s, "push")
  /\ UNCHANGED <<next, shared, seen, queueVars, workerVars, dropped>>

(* visit finds n new points; num_points starts from 0. *)
StartHop(s, n) ==
  /\ mpc[s] = "hop"
  /\ hop[s] < MaxHops[s]
  /\ hop' = [hop EXCEPT ![s] = @ + 1]
  /\ count' = [count EXCEPT ![s] = n]
  /\ offset' = [offset EXCEPT ![s] = 0]
  /\ ids' = [ids EXCEPT ![s] = [i \in Point |-> IF i < n THEN hop[s] + 1 ELSE @[i]]]
  /\ numPoints' = [numPoints EXCEPT ![s] = 0]
  /\ Goto(s, "push")
  /\ UNCHANGED <<next, dists, seen, queueVars, workerVars, dropped>>

(* The points of worker i: an equal part, and one more for the first hard_task_count. *)
Share(s, i) ==
  LET tasks == NumThreads[s] + 1 IN
  count[s] \div tasks + IF i < count[s] % tasks THEN 1 ELSE 0

(* Push of the next worker's part, which may be empty. *)
PushTask(s) ==
  LET n == Share(s, next[s]) IN
  /\ mpc[s] = "push"
  /\ Push(s, [from |-> offset[s], count |-> n], "publish", "push", "wait")
  /\ offset' = [offset EXCEPT ![s] = @ + n]
  /\ UNCHANGED <<hop, count, ids, seen, shared, writeIdx, readIdx, workerVars>>

(* The store of write_idx. *)
Publish(s, here, again, after) ==
  /\ mpc[s] = here
  /\ writeIdx' = [writeIdx EXCEPT ![<<s, next[s]>>] = @ + 1]
  /\ NextWorker(s, again, after)
  /\ UNCHANGED <<hop, count, offset, ids, seen, shared, readIdx, buffer, workerVars, dropped>>

AllComputed(s) == numPoints[s] >= count[s]

(* The main thread computes what no worker was given, once, and else looks at num_points    *)
(* again and again.                                                                      *)
ComputeRest(s) ==
  /\ mpc[s] = "wait"
  /\ ~AllComputed(s) /\ offset[s] < count[s]
  /\ dists' = [dists EXCEPT ![s] = Computed(s, offset[s] .. count[s] - 1)]
  /\ numPoints' = [numPoints EXCEPT ![s] = @ + count[s] - offset[s]]
  /\ offset' = [offset EXCEPT ![s] = count[s]]
  /\ UNCHANGED <<mpc, next, hop, count, ids, seen, queueVars, workerVars, dropped>>

(* The relaxed load that ends the loop, and the loads of the distances.  Where loads may be  *)
(* reordered, a distance may be read as it was before the hop.                            *)
Collect(s, early) ==
  /\ mpc[s] = "wait"
  /\ AllComputed(s)
  /\ early \subseteq 0 .. count[s] - 1
  /\ LoadsInOrder => early = {}
  /\ seen' = [seen EXCEPT ![s] = [i \in Point |-> IF i < count[s] /\ i \notin early
                                                   THEN dists[s][i] ELSE @[i]]]
  /\ Goto(s, "hop")
  /\ UNCHANGED <<next, hop, count, offset, ids, shared, queueVars, workerVars, dropped>>

(* No candidate is left, or none is near enough. *)
EndLoop(s) ==
  /\ mpc[s] = "hop"
  /\ Goto(s, "stop")
  /\ UNCHANGED <<next, hop, count, offset, ids, seen, shared, queueVars, workerVars, dropped>>

(* Variant: the last worker is left without a pill. *)
PushPillToOthers(s) ==
  /\ mpc[s] = "stop"
  /\ IF next[s] + 1 = NumThreads[s]
     THEN NextWorker(s, "stop", "join") /\ UNCHANGED <<buffer, dropped>>
     ELSE Push(s, Pill, "publishStop", "stop", "join")
  /\ UNCHANGED <<hop, count, offset, ids, seen, shared, writeIdx, readIdx, workerVars>>

PushPill(s) ==
  /\ mpc[s] = "stop"
  /\ Push(s, Pill, "publishStop", "stop", "join")
  /\ UNCHANGED <<hop, count, offset, ids, seen, shared, writeIdx, readIdx, workerVars>>

(* Variant: the futures are not waited for. *)
JoinNobody(s) ==
  /\ mpc[s] = "join"
  /\ Goto(s, "done")
  /\ UNCHANGED <<next, hop, count, offset, ids, seen, shared, queueVars, workerVars, dropped>>

(* future.get of every worker; then the queues and the buffers are gone. *)
Join(s) ==
  /\ mpc[s] = "join"
  /\ \A i \in 0 .. NumThreads[s] - 1 : wpc[<<s, i>>] = "ended"
  /\ Goto(s, "done")
  /\ UNCHANGED <<next, hop, count, offset, ids, seen, shared, queueVars, workerVars, dropped>>

-----------------------------------------------------------------------------
Main(s) ==
  \/ EnqueueWorker(s) \/ PushTask(s) \/ ComputeRest(s) \/ EndLoop(s) \/ PushPill(s) \/ Join(s)
  \/ Publish(s, "publish", "push", "wait") \/ Publish(s, "publishStop", "stop", "join")
  \/ \E n \in 0 .. MaxDegree : StartHop(s, n)
  \/ \E early \in SUBSET Point : Collect(s, early)

Work(w) == PopCopies(w) \/ PopReleases(w) \/ Compute(w)

ParallelNext ==
  \/ \E s \in Search : Main(s)
  \/ StartWorker
  \/ \E w \in Worker : Work(w)

ParallelSpec == ParallelInit /\ [][ParallelNext]_parallelVars

(* Every thread that can go on does: the main threads are the callers', a running worker     *)
(* owns a thread of the pool, and the pool has its own threads.  EndLoop needs no fairness of   *)
(* its own: hops are bounded because every node is visited once.                           *)
ParallelFairSpec ==
  /\ ParallelSpec
  /\ \A s \in Search : WF_parallelVars(Main(s))
  /\ \A w \in Worker : WF_parallelVars(Work(w))
  /\ WF_parallelVars(StartWorker)

-----------------------------------------------------------------------------
ParallelTypeOK ==
  /\ mpc \in [Search -> {"enqueue", "hop", "push", "publish", "wait", "stop", "publishStop", "join",
                        "done"}]
  /\ next \in [Search -> Nat] /\ \A s \in Search : next[s] < NumThreads[s]
  /\ \A s \in Search : hop[s] \in 0 .. MaxHops[s]
  /\ count \in [Search -> 0 .. MaxDegree] /\ offset \in [Search -> 0 .. MaxDegree]
  /\ numPoints \in [Search -> 0 .. MaxDegree]
  /\ {ids, dists, seen} \subseteq [Search -> [Point -> Nat]]
  /\ writeIdx \in [Worker -> Nat] /\ readIdx \in [Worker -> Nat]
  /\ buffer \in [Worker -> [Slot -> Task \cup {Pill, NoTask}]]
  /\ wpc \in [Worker -> {"none", "queued", "idle", "copied", "task", "ended"}]
  /\ item \in [Worker -> Task \cup {Pill, NoTask}]
  /\ pending \in Seq(Worker) /\ dropped \subseteq Search

(* After a hop every new point has the distance computed in that hop, wherever it was          *)
(* computed: no part is left out, counted without being computed, or computed for the ids of     *)
(* an earlier hop by a worker that lags behind.                                              *)
DistancesAreOfThisHop ==
  \A s \in Search : mpc[s] = "hop" => \A i \in 0 .. count[s] - 1 : seen[s][i] = hop[s]

(* The tasks a worker has not finished, in its queue or in its hands. *)
InQueue(w) == {idx \in 0 .. writeIdx[w] : readIdx[w] <= idx /\ idx < writeIdx[w]}

Unfinished(w) ==
  {buffer[w][SlotOf(idx)] : idx \in {k \in InQueue(w) : wpc[w] = "copied" => k # readIdx[w]}}
    \cup (IF wpc[w] \in {"copied", "task"} THEN {item[w]} ELSE {})

(* Two threads never compute the same point: the parts of a hop are disjoint, and what a        *)
(* worker has left over from earlier hops are empty parts, which touch nothing when the buffers   *)
(* are reused.                                                                             *)
PartsAreDisjoint ==
  /\ \A v, w \in Worker : v # w /\ v[1] = w[1] =>
       \A a \in Unfinished(v), b \in Unfinished(w) : Points(a) \cap Points(b) = {}
  /\ \A w \in Worker : mpc[w[1]] \in {"hop", "stop"} => \A a \in Unfinished(w) : Points(a) = {}

(* A worker copies an item out of the queue before it gives the slot back, and the main thread   *)
(* does not reuse the slot in between: what was popped is what was pushed there.               *)
PoppedSlotIsKept ==
  \A w \in Worker : wpc[w] = "copied" => item[w] = buffer[w][SlotOf(readIdx[w])]

(* Nothing of a finished search is used: its queues, buffers and counter are on the stack of      *)
(* the main thread and are gone when it returns.                                             *)
NoWorkAfterReturn ==
  \A w \in Worker : mpc[w[1]] = "done" => wpc[w] = "ended"

Returned(s) == mpc[s] = "done" \/ dropped # {}

(* Unless a task is dropped, every search returns: the main thread does not wait for points that  *)
(* nobody computes, and every worker meets the end of its search and gives its thread back to the  *)
(* pool, where those of another search may be waiting for it.                                  *)
SearchReturns == \A s \in Search : []<>Returned(s)

(* The threads of a search share no point and no queue slot, however far a worker lags behind. *)
NothingIsShared == ParallelTypeOK /\ PartsAreDisjoint /\ PoppedSlotIsKept

=============================================================================
