------------------------ MODULE ParallelSearchProofs ------------------------
(***************************************************************************)
(* A parallel search with any number of searches and workers, any queue size   *)
(* and any degree: the distances it collects are those of the hop, no point    *)
(* and no queue slot is shared, and nothing of a search is used once it has     *)
(* returned.                                                               *)
(***************************************************************************)
EXTENDS ParallelSearch, FiniteSetTheorems, TLAPS

-----------------------------------------------------------------------------
(* Arithmetic *)

(* Quotient and remainder. *)
LEMMA DivMod ==
  ASSUME NEW c \in Nat, NEW t \in Nat \ {0}
  PROVE  /\ c \div t \in Nat /\ c % t \in Nat /\ c % t < t
         /\ c = t * (c \div t) + (c % t)
  BY SMT

(* Products grow with a factor. *)
LEMMA Monotone ==
  ASSUME NEW q \in Nat, NEW a \in Nat, NEW b \in Nat, a <= b
  PROVE  a * q <= b * q /\ a * q \in Nat
<1>1. b = a + (b - a) /\ b - a \in Nat
  OBVIOUS
<1>2. PICK d \in Nat : b = a + d
  BY Zenon, <1>1
<1>3. (a + d) * q = a * q + d * q /\ d * q \in Nat /\ a * q \in Nat
  OBVIOUS
<1> QED BY <1>2, <1>3

(* Fewer than QueueSize items lie in different slots. *)
LEMMA SlotsDiffer ==
  ASSUME NEW n \in Nat \ {0}, NEW a \in Nat, NEW b \in Nat, a < b, b < a + n
  PROVE  a % n # b % n
<1> SUFFICES ASSUME a % n = b % n PROVE FALSE
  BY Zenon
<1>0. /\ a \div n \in Nat /\ a % n \in Nat /\ a = n * (a \div n) + (a % n)
      /\ b \div n \in Nat /\ b = n * (b \div n) + (b % n)
  BY DivMod, Zenon
<1>1. PICK p \in Nat, q \in Nat, r \in Nat : a = n * p + r /\ b = n * q + r
  BY <1>0, Zenon
<1>2. n * q - n * p > 0 /\ n * q - n * p < n
  BY <1>1
<1>3. CASE q <= p
  <2>1. q * n <= p * n
    BY Zenon, <1>1, <1>3, Monotone
  <2> QED BY <2>1, <1>2, <1>1
<1>4. CASE q >= p + 1
  <2>1. (p + 1) * n <= q * n
    BY <1>1, <1>4, Monotone
  <2>2. (p + 1) * n = n * p + n
    BY <1>1
  <2> QED BY <2>1, <2>2, <1>2, <1>1
<1> QED BY <1>1, <1>3, <1>4

-----------------------------------------------------------------------------
(* The invariant *)

MainPCs == {"enqueue", "hop", "push", "publish", "wait", "stop", "publishStop", "join", "done"}
WorkerPCs == {"none", "queued", "idle", "copied", "task", "ended"}
Item == Task \cup {Pill, NoTask}

MainTypes ==
  /\ mpc \in [Search -> MainPCs]
  /\ next \in [Search -> Nat] /\ \A s \in Search : next[s] < NumThreads[s]
  /\ hop \in [Search -> Nat] /\ \A s \in Search : hop[s] <= MaxHops[s]
  /\ count \in [Search -> 0 .. MaxDegree] /\ offset \in [Search -> 0 .. MaxDegree]
  /\ dropped \subseteq Search

SharedTypes ==
  /\ numPoints \in [Search -> Nat]
  /\ ids \in [Search -> [Point -> Nat]] /\ dists \in [Search -> [Point -> Nat]]
  /\ seen \in [Search -> [Point -> Nat]]

QueueTypes ==
  /\ writeIdx \in [Worker -> Nat] /\ readIdx \in [Worker -> Nat]
  /\ buffer \in [Worker -> [Slot -> Item]]
  /\ wpc \in [Worker -> WorkerPCs] /\ item \in [Worker -> Item]
  /\ pending \in Seq(Worker)

(* How many points the first k workers get. *)
Dealt(n, t, k) == k * (n \div t) + IF k < n % t THEN k ELSE n % t

(* The loop over the workers, and the points dealt out so far. *)
DealInv ==
  \A s \in Search :
    /\ mpc[s] \in {"hop", "wait", "join", "done"} => next[s] = 0
    /\ mpc[s] = "push" => offset[s] = Dealt(count[s], NumThreads[s] + 1, next[s])
    /\ mpc[s] = "publish" => offset[s] = Dealt(count[s], NumThreads[s] + 1, next[s] + 1)
    /\ offset[s] <= count[s]

Types == MainTypes /\ SharedTypes /\ QueueTypes /\ DealInv

(* A worker is in the queue of the pool once, runs, and ends before its search does. *)
PoolInv ==
  /\ \A i \in 1 .. Len(pending) : wpc[pending[i]] = "queued"
  /\ \A i, j \in 1 .. Len(pending) : i # j => pending[i] # pending[j]
  /\ \A s \in Search : mpc[s] = "enqueue" =>
       \A i \in 0 .. NumThreads[s] - 1 : i >= next[s] => wpc[<<s, i>>] = "none"
  /\ NoWorkAfterReturn

(* A queue holds fewer than QueueSize items, one of them perhaps being written. *)
Publishing(w) == mpc[w[1]] \in {"publish", "publishStop"} /\ w[2] = next[w[1]]

QueueInv ==
  \A w \in Worker :
    /\ readIdx[w] <= writeIdx[w] /\ writeIdx[w] < readIdx[w] + QueueSize
    /\ Publishing(w) => /\ writeIdx[w] + 1 < readIdx[w] + QueueSize
                        /\ buffer[w][SlotOf(writeIdx[w])] \in Task \cup {Pill}
    /\ wpc[w] = "copied" => readIdx[w] < writeIdx[w]
    /\ wpc[w] = "task" => item[w] \in Task
    /\ \A k \in readIdx[w] .. writeIdx[w] - 1 : buffer[w][SlotOf(k)] \in Task \cup {Pill}

(* The items of a worker that are open, by the number they were pushed under: those in its      *)
(* queue, the one being written, and the one in its hands, which was popped last.             *)
Open(w) ==
  {k \in Int : \/ readIdx[w] <= k /\ k < writeIdx[w]
               \/ Publishing(w) /\ k = writeIdx[w]
               \/ wpc[w] = "task" /\ k = readIdx[w] - 1}

OpenItem(w, k) == IF k = readIdx[w] - 1 THEN item[w] ELSE buffer[w][SlotOf(k)]
OpenPoints(w, k) == Points(OpenItem(w, k))

(* Within a hop the points of an open item are dealt out and not computed; between hops an open  *)
(* item has none.  No two open items have a point in common.                                *)
Busy == {"push", "publish", "wait"}

PartInv ==
  /\ PoppedSlotIsKept
  /\ \A w \in Worker : \A k \in Open(w) : \A i \in OpenPoints(w, k) :
       /\ mpc[w[1]] \in Busy /\ i \in Nat /\ i < offset[w[1]]
       /\ dists[w[1]][i] # hop[w[1]]
  /\ \A v, w \in Worker : \A j \in Open(v), k \in Open(w) :
       v[1] = w[1] /\ <<v, j>> # <<w, k>> => OpenPoints(v, j) \cap OpenPoints(w, k) = {}

(* num_points is the number of points of the hop that have their distance. *)
Done(s) == {i \in 0 .. count[s] - 1 : dists[s][i] = hop[s]}

CountOf(s) ==
  /\ \A i \in Point : dists[s][i] <= hop[s]
  /\ numPoints[s] <= MaxDegree
  /\ mpc[s] = "enqueue" => count[s] = 0
  /\ mpc[s] \in Busy =>
       /\ \A i \in 0 .. count[s] - 1 : ids[s][i] = hop[s]
       /\ \A i \in offset[s] .. count[s] - 1 : dists[s][i] # hop[s]
       /\ numPoints[s] = Cardinality(Done(s))

CountInv == \A s \in Search : CountOf(s)

IInv == Types /\ PoolInv /\ QueueInv /\ PartInv /\ CountInv

-----------------------------------------------------------------------------
(* Workers are pairs. *)
LEMMA WorkerPairs ==
  /\ \A s \in Search : \A i \in 0 .. NumThreads[s] - 1 : <<s, i>> \in Worker
  /\ \A w \in Worker : /\ w[1] \in Search /\ w[2] \in 0 .. NumThreads[w[1]] - 1
                       /\ w = <<w[1], w[2]>>
  BY DEF Worker

(* The worker a main thread deals with is one of its own. *)
LEMMA NextIsWorker ==
  ASSUME MainTypes, NEW s \in Search
  PROVE  <<s, next[s]>> \in Worker /\ next[s] \in 0 .. NumThreads[s] - 1
<1>1. next[s] \in 0 .. NumThreads[s] - 1
  BY ThreadsAreCounted DEF MainTypes
<1> QED BY Zenon, <1>1, WorkerPairs

(* The parts that are dealt out add up, and never exceed the points of the hop. *)
LEMMA DealtAddsUp ==
  ASSUME NEW n \in Nat, NEW t \in Nat \ {0}, NEW k \in Nat, k < t
  PROVE  /\ Dealt(n, t, 0) = 0 /\ Dealt(n, t, k) \in Nat /\ Dealt(n, t, k) <= n
         /\ Dealt(n, t, k + 1) = Dealt(n, t, k) + (n \div t) + (IF k < n % t THEN 1 ELSE 0)
<1>1. n \div t \in Nat /\ n % t \in Nat /\ n % t < t /\ n = t * (n \div t) + (n % t)
  BY DivMod, Zenon
<1>2. PICK q \in Nat, r \in Nat : q = n \div t /\ r = n % t /\ n = t * q + r /\ r < t
  BY <1>1, Zenon
<1>3. k * q <= t * q /\ k * q \in Nat /\ t * q \in Nat
  BY Monotone
<1>4. 0 * q = 0 /\ (k + 1) * q = k * q + q
  BY <1>2
<1> QED BY <1>2, <1>3, <1>4 DEF Dealt

(* The numbers of a main thread. *)
LEMMA Bounds ==
  ASSUME Types, NEW s \in Search
  PROVE  /\ offset[s] \in Nat /\ count[s] \in Nat /\ hop[s] \in Nat /\ next[s] \in Nat
         /\ numPoints[s] \in Nat /\ MaxDegree \in Nat
         /\ offset[s] <= count[s] /\ count[s] <= MaxDegree
<1>1. offset[s] \in 0 .. MaxDegree /\ count[s] \in 0 .. MaxDegree /\ MaxDegree \in Nat
  BY Zenon, SizesArePositive DEF Types, MainTypes
<1>2. hop[s] \in Nat /\ next[s] \in Nat /\ numPoints[s] \in Nat /\ offset[s] <= count[s]
  BY Zenon DEF Types, MainTypes, SharedTypes, DealInv
<1> QED BY <1>1, <1>2

(* The next part ends within the hop. *)
LEMMA ShareFits ==
  ASSUME Types, NEW s \in Search, mpc[s] = "push"
  PROVE  /\ Share(s, next[s]) \in Nat /\ Share(s, next[s]) \in 0 .. MaxDegree
         /\ offset[s] + Share(s, next[s]) \in 0 .. MaxDegree
         /\ offset[s] + Share(s, next[s]) = Dealt(count[s], NumThreads[s] + 1, next[s] + 1)
         /\ offset[s] + Share(s, next[s]) <= count[s]
<1>1. /\ NumThreads[s] + 1 \in Nat \ {0} /\ NumThreads[s] \in Nat /\ count[s] \in Nat
      /\ next[s] \in Nat /\ next[s] < NumThreads[s] + 1 /\ next[s] + 1 < NumThreads[s] + 1
      /\ next[s] + 1 \in Nat
  BY ThreadsAreCounted, SizesArePositive DEF Types, MainTypes
<1> DEFINE t == NumThreads[s] + 1  n == count[s]  k == next[s]
<1>2. offset[s] = Dealt(n, t, k)
  BY Zenon DEF Types, DealInv
<1>3. /\ Dealt(n, t, k) \in Nat
      /\ Dealt(n, t, k + 1) = Dealt(n, t, k) + (n \div t) + (IF k < n % t THEN 1 ELSE 0)
      /\ Dealt(n, t, k + 1) <= n
  <2> HIDE DEF t, n, k
  <2>1. t \in Nat \ {0} /\ n \in Nat /\ k \in Nat /\ k < t /\ k + 1 < t /\ k + 1 \in Nat
    BY Zenon, <1>1 DEF t, n, k
  <2> QED BY Zenon, <2>1, DealtAddsUp
<1>4. n \div t \in Nat /\ n % t \in Nat
  BY Zenon, <1>1, DivMod
<1>5. Share(s, k) = (n \div t) + (IF k < n % t THEN 1 ELSE 0)
  BY Zenon DEF Share
<1> QED
  <2> HIDE DEF t, n, k
  <2>1. /\ Share(s, k) \in Nat
        /\ Dealt(n, t, k) + Share(s, k) = Dealt(n, t, k + 1)
        /\ Dealt(n, t, k) + Share(s, k) <= n
    BY <1>3, <1>4, <1>5, <1>1 DEF k
  <2>2. /\ Share(s, next[s]) \in Nat
        /\ offset[s] + Share(s, next[s]) = Dealt(count[s], NumThreads[s] + 1, next[s] + 1)
        /\ offset[s] + Share(s, next[s]) <= count[s]
    BY Zenon, <2>1, <1>2 DEF t, n, k
  <2>3. Share(s, next[s]) \in 0 .. MaxDegree /\ offset[s] + Share(s, next[s]) \in 0 .. MaxDegree
    BY <2>2, Bounds
  <2> QED BY Zenon, <2>2, <2>3

(* What a push of a part does to the offsets. *)
LEMMA PushMoves ==
  ASSUME Types, NEW s \in Search, PushTask(s)
  PROVE  /\ offset' = [offset EXCEPT ![s] = offset[s] + Share(s, next[s])]
         /\ offset'[s] = offset[s] + Share(s, next[s])
         /\ \A r \in Search : offset[r] \in Nat /\ offset'[r] \in Nat /\ offset[r] <= offset'[r]
<1>1. /\ Share(s, next[s]) \in Nat /\ offset \in [Search -> 0 .. MaxDegree]
      /\ \A r \in Search : offset[r] \in Nat
  BY Zenon, ShareFits, Bounds DEF PushTask, Types, MainTypes
<1>2. offset' = [offset EXCEPT ![s] = offset[s] + Share(s, next[s])]
  BY Zenon DEF PushTask
<1> QED BY <1>1, <1>2

-----------------------------------------------------------------------------
(* Types *)

(* Every position has its slot. *)
LEMMA SlotInQueue == \A k \in Nat : SlotOf(k) \in Slot
  BY SizesArePositive DEF SlotOf, Slot

(* Writing one slot of one queue. *)
LEMMA BufferPut ==
  ASSUME NEW b \in [Worker -> [Slot -> Item]], NEW w \in Worker, NEW k \in Slot, NEW x \in Item
  PROVE  /\ [b EXCEPT ![w][k] = x] \in [Worker -> [Slot -> Item]]
         /\ [b EXCEPT ![w][k] = x][w][k] = x
         /\ \A v \in Worker : \A j \in Slot :
              v # w \/ j # k => [b EXCEPT ![w][k] = x][v][j] = b[v][j]
<1>1. [b[w] EXCEPT ![k] = x] \in [Slot -> Item]
  BY Zenon
<1>2. [b EXCEPT ![w][k] = x] = [b EXCEPT ![w] = [b[w] EXCEPT ![k] = x]]
  BY Zenon
<1> QED BY Zenon, <1>1, <1>2

(* The types of the main threads. *)
LEMMA MainTypesStep ==
  ASSUME Types, [ParallelNext]_parallelVars
  PROVE  MainTypes'
<1>1. ASSUME NEW s \in Search, EnqueueWorker(s) PROVE MainTypes'
  <2>1. next[s] + 1 # NumThreads[s] => next[s] + 1 < NumThreads[s]
    BY ThreadsAreCounted DEF Types, MainTypes
  <2>2. next' \in [Search -> Nat] /\ \A r \in Search : next'[r] < NumThreads[r]
    BY SMTT(30), <1>1, <2>1, ThreadsAreCounted DEF Types, MainTypes, EnqueueWorker
  <2>3. mpc' \in [Search -> MainPCs]
    BY Zenon, <1>1 DEF Types, MainTypes, MainPCs, EnqueueWorker, Goto
  <2> QED BY Zenon, <1>1, <2>2, <2>3 DEF Types, MainTypes, EnqueueWorker
<1>2. ASSUME NEW s \in Search, PushTask(s) PROVE MainTypes'
  <2>1. next[s] + 1 # NumThreads[s] => next[s] + 1 < NumThreads[s]
    BY ThreadsAreCounted DEF Types, MainTypes
  <2>2. offset[s] + Share(s, next[s]) \in 0 .. MaxDegree
    BY Zenon, <1>2, ShareFits DEF PushTask
  <2>3. offset' = [offset EXCEPT ![s] = offset[s] + Share(s, next[s])]
    BY Zenon, <1>2, PushMoves
  <2>4. offset' \in [Search -> 0 .. MaxDegree]
    BY Zenon, <2>2, <2>3 DEF Types, MainTypes
  <2>5. CASE Full(<<s, next[s]>>)
    BY <1>2, <2>1, <2>4, <2>5, ThreadsAreCounted
       DEF Types, MainTypes, MainPCs, PushTask, Push, NextWorker, Goto
  <2>6. CASE ~Full(<<s, next[s]>>)
    BY Zenon, <1>2, <2>4, <2>6 DEF Types, MainTypes, MainPCs, PushTask, Push, Goto
  <2> QED BY Zenon, <2>5, <2>6
<1>3. ASSUME NEW s \in Search, ComputeRest(s) PROVE MainTypes'
  BY Zenon, <1>3, SizesArePositive DEF Types, MainTypes, ComputeRest
<1>4. ASSUME NEW s \in Search, EndLoop(s) PROVE MainTypes'
  BY Zenon, <1>4 DEF Types, MainTypes, MainPCs, EndLoop, Goto
<1>5. ASSUME NEW s \in Search, PushPill(s) PROVE MainTypes'
  <2>1. next[s] + 1 # NumThreads[s] => next[s] + 1 < NumThreads[s]
    BY ThreadsAreCounted DEF Types, MainTypes
  <2>4. offset' \in [Search -> 0 .. MaxDegree]
    BY Zenon, <1>5 DEF PushPill, Types, MainTypes
  <2>5. CASE Full(<<s, next[s]>>)
    BY <1>5, <2>1, <2>4, <2>5, ThreadsAreCounted
       DEF Types, MainTypes, MainPCs, PushPill, Push, NextWorker, Goto
  <2>6. CASE ~Full(<<s, next[s]>>)
    BY Zenon, <1>5, <2>4, <2>6 DEF Types, MainTypes, MainPCs, PushPill, Push, Goto
  <2> QED BY Zenon, <2>5, <2>6
<1>6. ASSUME NEW s \in Search, Join(s) PROVE MainTypes'
  BY Zenon, <1>6 DEF Types, MainTypes, MainPCs, Join, Goto
<1>7. ASSUME NEW s \in Search, Publish(s, "publish", "push", "wait") PROVE MainTypes'
  <2>1. next[s] + 1 # NumThreads[s] => next[s] + 1 < NumThreads[s]
    BY ThreadsAreCounted DEF Types, MainTypes
  <2> QED BY <1>7, <2>1, ThreadsAreCounted DEF Types, MainTypes, MainPCs, Publish, NextWorker, Goto
<1>8. ASSUME NEW s \in Search, Publish(s, "publishStop", "stop", "join") PROVE MainTypes'
  <2>1. next[s] + 1 # NumThreads[s] => next[s] + 1 < NumThreads[s]
    BY ThreadsAreCounted DEF Types, MainTypes
  <2> QED BY <1>8, <2>1, ThreadsAreCounted DEF Types, MainTypes, MainPCs, Publish, NextWorker, Goto
<1>9. ASSUME NEW s \in Search, NEW n \in 0 .. MaxDegree, StartHop(s, n) PROVE MainTypes'
  <2>1. hop' \in [Search -> Nat] /\ \A r \in Search : hop'[r] <= MaxHops[r]
    <3>1. hop[s] + 1 \in Nat /\ hop[s] + 1 <= MaxHops[s]
      <4>1. hop[s] \in Nat /\ MaxHops[s] \in Nat /\ hop[s] < MaxHops[s]
        BY <1>9, HopsAreBounded, Zenon DEF Types, MainTypes, StartHop
      <4> QED BY <4>1
    <3>2. hop' = [hop EXCEPT ![s] = hop[s] + 1]
      BY Zenon, <1>9 DEF StartHop
    <3> QED BY Zenon, <3>1, <3>2 DEF Types, MainTypes
  <2>2. mpc' \in [Search -> MainPCs]
    BY Zenon, <1>9 DEF Types, MainTypes, MainPCs, StartHop, Goto
  <2>3. count' \in [Search -> 0 .. MaxDegree] /\ offset' \in [Search -> 0 .. MaxDegree]
    BY <1>9, SizesArePositive DEF Types, MainTypes, StartHop
  <2> QED BY Zenon, <1>9, <2>1, <2>2, <2>3 DEF Types, MainTypes, StartHop
<1>10. ASSUME NEW s \in Search, NEW early \in SUBSET Point, Collect(s, early) PROVE MainTypes'
  BY Zenon, <1>10 DEF Types, MainTypes, MainPCs, Collect, Goto
<1>11. ASSUME StartWorker PROVE MainTypes'
  BY Zenon, <1>11 DEF Types, MainTypes, StartWorker, mainVars
<1>12. ASSUME NEW w \in Worker, PopCopies(w) PROVE MainTypes'
  BY Zenon, <1>12 DEF Types, MainTypes, PopCopies, mainVars
<1>13. ASSUME NEW w \in Worker, PopReleases(w) PROVE MainTypes'
  BY Zenon, <1>13 DEF Types, MainTypes, PopReleases, mainVars
<1>14. ASSUME NEW w \in Worker, Compute(w) PROVE MainTypes'
  BY Zenon, <1>14 DEF Types, MainTypes, Compute, mainVars
<1>15. ASSUME UNCHANGED parallelVars PROVE MainTypes'
  BY Zenon, <1>15 DEF Types, MainTypes, mainVars, parallelVars
<1> QED BY Zenon, <1>1, <1>2, <1>3, <1>4, <1>5, <1>6, <1>7, <1>8, <1>9, <1>10, <1>11, <1>12, <1>13, <1>14, <1>15
        DEF ParallelNext, Main, Work

(* The types of the buffers of a search. *)
LEMMA SharedTypesStep ==
  ASSUME Types, QueueInv, [ParallelNext]_parallelVars
  PROVE  SharedTypes'
<1>1. ASSUME NEW s \in Search, EnqueueWorker(s) PROVE SharedTypes'
  BY Zenon, <1>1 DEF Types, SharedTypes, EnqueueWorker, shared
<1>2. ASSUME NEW s \in Search, PushTask(s) PROVE SharedTypes'
  BY Zenon, <1>2 DEF Types, SharedTypes, PushTask, shared
<1>3. ASSUME NEW s \in Search, ComputeRest(s) PROVE SharedTypes'
  <2>1. Computed(s, offset[s] .. count[s] - 1) \in [Point -> Nat]
    BY DEF Types, SharedTypes, Computed
  <2>2. numPoints[s] + count[s] - offset[s] \in Nat
    BY SizesArePositive DEF Types, SharedTypes, MainTypes, DealInv
  <2> QED BY Zenon, <1>3, <2>1, <2>2 DEF Types, SharedTypes, ComputeRest
<1>4. ASSUME NEW s \in Search, EndLoop(s) PROVE SharedTypes'
  BY Zenon, <1>4 DEF Types, SharedTypes, EndLoop, shared
<1>5. ASSUME NEW s \in Search, PushPill(s) PROVE SharedTypes'
  BY Zenon, <1>5 DEF Types, SharedTypes, PushPill, shared
<1>6. ASSUME NEW s \in Search, Join(s) PROVE SharedTypes'
  BY Zenon, <1>6 DEF Types, SharedTypes, Join, shared
<1>7. ASSUME NEW s \in Search, Publish(s, "publish", "push", "wait") PROVE SharedTypes'
  BY Zenon, <1>7 DEF Types, SharedTypes, Publish, shared
<1>8. ASSUME NEW s \in Search, Publish(s, "publishStop", "stop", "join") PROVE SharedTypes'
  BY Zenon, <1>8 DEF Types, SharedTypes, Publish, shared
<1>9. ASSUME NEW s \in Search, NEW n \in 0 .. MaxDegree, StartHop(s, n) PROVE SharedTypes'
  <2>1. [i \in Point |-> IF i < n THEN hop[s] + 1 ELSE ids[s][i]] \in [Point -> Nat]
    BY DEF Types, SharedTypes, MainTypes
  <2> QED BY Zenon, <1>9, <2>1 DEF Types, SharedTypes, StartHop
<1>10. ASSUME NEW s \in Search, NEW early \in SUBSET Point, Collect(s, early) PROVE SharedTypes'
  <2>1. [i \in Point |-> IF i < count[s] /\ i \notin early
                        THEN dists[s][i] ELSE seen[s][i]] \in [Point -> Nat]
    BY DEF Types, SharedTypes
  <2> QED BY Zenon, <1>10, <2>1 DEF Types, SharedTypes, Collect, shared
<1>11. ASSUME StartWorker PROVE SharedTypes'
  BY Zenon, <1>11 DEF Types, SharedTypes, StartWorker, mainVars, shared
<1>12. ASSUME NEW w \in Worker, PopCopies(w) PROVE SharedTypes'
  BY Zenon, <1>12 DEF Types, SharedTypes, PopCopies, mainVars, shared
<1>13. ASSUME NEW w \in Worker, PopReleases(w) PROVE SharedTypes'
  BY Zenon, <1>13 DEF Types, SharedTypes, PopReleases, mainVars, shared
<1>14. ASSUME NEW w \in Worker, Compute(w) PROVE SharedTypes'
  <2>1. Computed(w[1], Points(item[w])) \in [Point -> Nat] /\ w[1] \in Search
    BY Zenon, WorkerPairs DEF Types, SharedTypes, Computed
  <2>2. item[w] \in Task
    BY Zenon, <1>14 DEF QueueInv, Compute
  <2>3. numPoints[w[1]] + item[w].count \in Nat
    BY <2>1, <2>2, SizesArePositive DEF Types, SharedTypes, Task
  <2> QED BY Zenon, <1>14, <2>1, <2>3 DEF Types, SharedTypes, Compute, mainVars
<1>15. ASSUME UNCHANGED parallelVars PROVE SharedTypes'
  BY Zenon, <1>15 DEF Types, SharedTypes, mainVars, shared, parallelVars
<1> QED BY Zenon, <1>1, <1>2, <1>3, <1>4, <1>5, <1>6, <1>7, <1>8, <1>9, <1>10, <1>11, <1>12, <1>13, <1>14, <1>15
        DEF ParallelNext, Main, Work

(* The types of the queues, the workers and the pool. *)
LEMMA QueueTypesStep ==
  ASSUME Types, [ParallelNext]_parallelVars
  PROVE  QueueTypes'
<1>1. ASSUME NEW s \in Search, EnqueueWorker(s) PROVE QueueTypes'
  <2>1. <<s, next[s]>> \in Worker
    BY Zenon, NextIsWorker DEF Types
  <2>2. Append(pending, <<s, next[s]>>) \in Seq(Worker)
    BY <2>1 DEF Types, QueueTypes
  <2> QED BY Zenon, <1>1, <2>1, <2>2 DEF Types, QueueTypes, WorkerPCs, EnqueueWorker, queueVars
<1>2. ASSUME NEW s \in Search, PushTask(s) PROVE QueueTypes'
  <2>1. <<s, next[s]>> \in Worker
    BY Zenon, NextIsWorker DEF Types
  <2>2. [from |-> offset[s], count |-> Share(s, next[s])] \in Task
    <3>1. Share(s, next[s]) \in 0 .. MaxDegree
      BY Zenon, <1>2, ShareFits DEF PushTask
    <3> QED BY Zenon, <3>1 DEF Task, Types, MainTypes
  <2>3. SlotOf(writeIdx[<<s, next[s]>>]) \in Slot
    BY Zenon, <2>1, SlotInQueue DEF Types, QueueTypes
  <2>4. buffer' \in [Worker -> [Slot -> Item]]
    <3>1. CASE Full(<<s, next[s]>>)
      BY Zenon, <1>2, <3>1 DEF Types, QueueTypes, PushTask, Push
    <3>2. CASE ~Full(<<s, next[s]>>)
      <4>1. buffer' = [buffer EXCEPT ![<<s, next[s]>>][SlotOf(writeIdx[<<s, next[s]>>])] =
                         [from |-> offset[s], count |-> Share(s, next[s])]]
        BY Zenon, <1>2, <3>2 DEF PushTask, Push
      <4> QED BY Zenon, <2>1, <2>2, <2>3, <4>1, BufferPut DEF Types, QueueTypes, Item
    <3> QED BY Zenon, <3>1, <3>2
  <2> QED BY Zenon, <1>2, <2>4 DEF Types, QueueTypes, PushTask, workerVars
<1>3. ASSUME NEW s \in Search, ComputeRest(s) PROVE QueueTypes'
  BY Zenon, <1>3 DEF Types, QueueTypes, ComputeRest, queueVars, workerVars
<1>4. ASSUME NEW s \in Search, EndLoop(s) PROVE QueueTypes'
  BY Zenon, <1>4 DEF Types, QueueTypes, EndLoop, queueVars, workerVars
<1>5. ASSUME NEW s \in Search, PushPill(s) PROVE QueueTypes'
  <2>1. <<s, next[s]>> \in Worker
    BY Zenon, NextIsWorker DEF Types
  <2>3. SlotOf(writeIdx[<<s, next[s]>>]) \in Slot
    BY Zenon, <2>1, SlotInQueue DEF Types, QueueTypes
  <2>4. buffer' \in [Worker -> [Slot -> Item]]
    <3>1. CASE Full(<<s, next[s]>>)
      BY Zenon, <1>5, <3>1 DEF Types, QueueTypes, PushPill, Push
    <3>2. CASE ~Full(<<s, next[s]>>)
      <4>1. buffer' = [buffer EXCEPT ![<<s, next[s]>>][SlotOf(writeIdx[<<s, next[s]>>])] = Pill]
        BY Zenon, <1>5, <3>2 DEF PushPill, Push
      <4> QED BY Zenon, <2>1, <2>3, <4>1, BufferPut DEF Types, QueueTypes, Item
    <3> QED BY Zenon, <3>1, <3>2
  <2> QED BY Zenon, <1>5, <2>4 DEF Types, QueueTypes, PushPill, workerVars
<1>6. ASSUME NEW s \in Search, Join(s) PROVE QueueTypes'
  BY Zenon, <1>6 DEF Types, QueueTypes, Join, queueVars, workerVars
<1>7. ASSUME NEW s \in Search, Publish(s, "publish", "push", "wait") PROVE QueueTypes'
  <2>1. <<s, next[s]>> \in Worker
    BY Zenon, NextIsWorker DEF Types
  <2> QED BY <1>7, <2>1 DEF Types, QueueTypes, Publish, workerVars
<1>8. ASSUME NEW s \in Search, Publish(s, "publishStop", "stop", "join") PROVE QueueTypes'
  <2>1. <<s, next[s]>> \in Worker
    BY Zenon, NextIsWorker DEF Types
  <2> QED BY <1>8, <2>1 DEF Types, QueueTypes, Publish, workerVars
<1>9. ASSUME NEW s \in Search, NEW n \in 0 .. MaxDegree, StartHop(s, n) PROVE QueueTypes'
  BY Zenon, <1>9 DEF Types, QueueTypes, StartHop, queueVars, workerVars
<1>10. ASSUME NEW s \in Search, NEW early \in SUBSET Point, Collect(s, early) PROVE QueueTypes'
  BY Zenon, <1>10 DEF Types, QueueTypes, Collect, queueVars, workerVars
<1>11. ASSUME StartWorker PROVE QueueTypes'
  <2>1. Head(pending) \in Worker /\ Tail(pending) \in Seq(Worker)
    BY <1>11 DEF Types, QueueTypes, StartWorker
  <2> QED BY Zenon, <1>11, <2>1 DEF Types, QueueTypes, WorkerPCs, StartWorker, queueVars
<1>12. ASSUME NEW w \in Worker, PopCopies(w) PROVE QueueTypes'
  <2>1. buffer[w][SlotOf(readIdx[w])] \in Item
    BY Zenon, SlotInQueue DEF Types, QueueTypes
  <2> QED BY Zenon, <1>12, <2>1 DEF Types, QueueTypes, WorkerPCs, PopCopies, queueVars
<1>13. ASSUME NEW w \in Worker, PopReleases(w) PROVE QueueTypes'
  BY <1>13 DEF Types, QueueTypes, WorkerPCs, PopReleases
<1>14. ASSUME NEW w \in Worker, Compute(w) PROVE QueueTypes'
  BY Zenon, <1>14 DEF Types, QueueTypes, WorkerPCs, Item, Compute, queueVars
<1>15. ASSUME UNCHANGED parallelVars PROVE QueueTypes'
  BY Zenon, <1>15 DEF Types, QueueTypes, queueVars, workerVars, parallelVars
<1> QED BY Zenon, <1>1, <1>2, <1>3, <1>4, <1>5, <1>6, <1>7, <1>8, <1>9, <1>10, <1>11, <1>12, <1>13, <1>14, <1>15
        DEF ParallelNext, Main, Work

(* The loop over the workers. *)
LEMMA DealStep ==
  ASSUME Types, [ParallelNext]_parallelVars
  PROVE  DealInv'
<1>1. ASSUME NEW s \in Search, EnqueueWorker(s) PROVE DealInv'
  BY Zenon, <1>1 DEF Types, MainTypes, DealInv, EnqueueWorker, Goto
<1>2. ASSUME NEW s \in Search, PushTask(s) PROVE DealInv'
  <2>1. /\ offset[s] + Share(s, next[s]) = Dealt(count[s], NumThreads[s] + 1, next[s] + 1)
        /\ offset[s] + Share(s, next[s]) <= count[s]
    BY Zenon, <1>2, ShareFits DEF PushTask
  <2>2. offset' = [offset EXCEPT ![s] = offset[s] + Share(s, next[s])] /\ UNCHANGED count
    BY Zenon, <1>2 DEF PushTask
  <2>3. CASE Full(<<s, next[s]>>)
    BY <1>2, <2>1, <2>2, <2>3 DEF Types, MainTypes, DealInv, PushTask, Push, NextWorker, Goto
  <2>4. CASE ~Full(<<s, next[s]>>)
    BY SMTT(30), <1>2, <2>1, <2>2, <2>4 DEF Types, MainTypes, DealInv, PushTask, Push, Goto
  <2> QED BY Zenon, <2>3, <2>4
<1>3. ASSUME NEW s \in Search, ComputeRest(s) PROVE DealInv'
  BY <1>3 DEF Types, MainTypes, DealInv, ComputeRest
<1>4. ASSUME NEW s \in Search, EndLoop(s) PROVE DealInv'
  BY Zenon, <1>4 DEF Types, MainTypes, DealInv, EndLoop, Goto
<1>5. ASSUME NEW s \in Search, PushPill(s) PROVE DealInv'
  <2>3. CASE Full(<<s, next[s]>>)
    BY ZenonT(40), <1>5, <2>3 DEF Types, MainTypes, DealInv, PushPill, Push, NextWorker, Goto
  <2>4. CASE ~Full(<<s, next[s]>>)
    BY Zenon, <1>5, <2>4 DEF Types, MainTypes, DealInv, PushPill, Push, Goto
  <2> QED BY Zenon, <2>3, <2>4
<1>6. ASSUME NEW s \in Search, Join(s) PROVE DealInv'
  BY Zenon, <1>6 DEF Types, MainTypes, DealInv, Join, Goto
<1>7. ASSUME NEW s \in Search, Publish(s, "publish", "push", "wait") PROVE DealInv'
  BY Zenon, <1>7 DEF Types, MainTypes, DealInv, Publish, NextWorker, Goto
<1>8. ASSUME NEW s \in Search, Publish(s, "publishStop", "stop", "join") PROVE DealInv'
  BY Zenon, <1>8 DEF Types, MainTypes, DealInv, Publish, NextWorker, Goto
<1>9. ASSUME NEW s \in Search, NEW n \in 0 .. MaxDegree, StartHop(s, n) PROVE DealInv'
  <2>1. Dealt(n, NumThreads[s] + 1, 0) = 0 /\ n \in Nat
    <3>1. n \in Nat /\ NumThreads[s] + 1 \in Nat \ {0} /\ 0 < NumThreads[s] + 1
      BY ThreadsAreCounted, SizesArePositive
    <3> QED BY Zenon, <3>1, DealtAddsUp
  <2>2. next[s] = 0
    BY Zenon, <1>9 DEF Types, DealInv, StartHop
  <2> QED BY <1>9, <2>1, <2>2 DEF Types, MainTypes, DealInv, StartHop, Goto
<1>10. ASSUME NEW s \in Search, NEW early \in SUBSET Point, Collect(s, early) PROVE DealInv'
  BY Zenon, <1>10 DEF Types, MainTypes, DealInv, Collect, Goto
<1>11. ASSUME StartWorker PROVE DealInv'
  BY Zenon, <1>11 DEF Types, DealInv, StartWorker, mainVars
<1>12. ASSUME NEW w \in Worker, PopCopies(w) PROVE DealInv'
  BY Zenon, <1>12 DEF Types, DealInv, PopCopies, mainVars
<1>13. ASSUME NEW w \in Worker, PopReleases(w) PROVE DealInv'
  BY Zenon, <1>13 DEF Types, DealInv, PopReleases, mainVars
<1>14. ASSUME NEW w \in Worker, Compute(w) PROVE DealInv'
  BY Zenon, <1>14 DEF Types, DealInv, Compute, mainVars
<1>15. ASSUME UNCHANGED parallelVars PROVE DealInv'
  BY Zenon, <1>15 DEF Types, DealInv, mainVars, parallelVars
<1> QED BY Zenon, <1>1, <1>2, <1>3, <1>4, <1>5, <1>6, <1>7, <1>8, <1>9, <1>10, <1>11, <1>12, <1>13, <1>14, <1>15
        DEF ParallelNext, Main, Work

-----------------------------------------------------------------------------
(* The pool of threads *)

(* A step of a main thread that enqueues nobody. *)
LEMMA PoolMain ==
  ASSUME Types, PoolInv, UNCHANGED <<wpc, pending>>,
         \A r \in Search :
           /\ mpc'[r] = "enqueue" => mpc[r] = "enqueue" /\ next'[r] = next[r]
           /\ mpc'[r] = "done" => mpc[r] = "done" \/
                \A i \in 0 .. NumThreads[r] - 1 : wpc[<<r, i>>] = "ended"
  PROVE  PoolInv'
<1>1. NoWorkAfterReturn'
  <2> SUFFICES ASSUME NEW w \in Worker, mpc'[w[1]] = "done" PROVE wpc[w] = "ended"
    BY Zenon DEF NoWorkAfterReturn
  <2>1. w[1] \in Search /\ w[2] \in 0 .. NumThreads[w[1]] - 1 /\ w = <<w[1], w[2]>>
    BY Zenon, WorkerPairs
  <2>2. CASE mpc[w[1]] = "done"
    BY Zenon, <2>2 DEF PoolInv, NoWorkAfterReturn
  <2>3. CASE \A i \in 0 .. NumThreads[w[1]] - 1 : wpc[<<w[1], i>>] = "ended"
    <3>1. wpc[<<w[1], w[2]>>] = "ended"
      BY Zenon, <2>1, <2>3
    <3> QED BY Zenon, <2>1, <3>1
  <2> QED BY Zenon, <2>1, <2>2, <2>3
<1>2. \A r \in Search : mpc'[r] = "enqueue" =>
        \A i \in 0 .. NumThreads[r] - 1 : i >= next'[r] => wpc'[<<r, i>>] = "none"
  <2> SUFFICES ASSUME NEW r \in Search, mpc'[r] = "enqueue",
                      NEW i \in 0 .. NumThreads[r] - 1, i >= next'[r]
               PROVE  wpc'[<<r, i>>] = "none"
    BY Zenon
  <2>1. mpc[r] = "enqueue" /\ next'[r] = next[r] /\ wpc' = wpc
    BY Zenon
  <2> QED BY <2>1 DEF PoolInv
<1> QED BY <1>1, <1>2 DEF PoolInv

(* A step of a worker that runs. *)
LEMMA PoolWork ==
  ASSUME Types, PoolInv, UNCHANGED <<mpc, next, pending>>, NEW w \in Worker,
         wpc[w] \in {"idle", "copied", "task"},
         NEW x, wpc' = [wpc EXCEPT ![w] = x]
  PROVE  PoolInv'
<1>1. wpc \in [Worker -> WorkerPCs] /\ pending \in Seq(Worker)
  BY Zenon DEF Types, QueueTypes
<1>2. \A v \in Worker : wpc[v] \in {"queued", "none", "ended"} => wpc'[v] = wpc[v]
  BY Zenon, <1>1
<1>3. \A i \in 1 .. Len(pending) : pending[i] \in Worker
  BY <1>1
<1>4. \A i \in 1 .. Len(pending) : wpc'[pending[i]] = "queued"
  BY Zenon, <1>2, <1>3 DEF PoolInv
<1>5. \A r \in Search : mpc[r] = "enqueue" =>
        \A i \in 0 .. NumThreads[r] - 1 : i >= next[r] => wpc'[<<r, i>>] = "none"
  BY Zenon, <1>2, WorkerPairs DEF PoolInv
<1>6. NoWorkAfterReturn'
  BY Zenon, <1>2 DEF PoolInv, NoWorkAfterReturn
<1> QED BY Zenon, <1>4, <1>5, <1>6 DEF PoolInv

(* The pool. *)
LEMMA PoolStep ==
  ASSUME Types, PoolInv, [ParallelNext]_parallelVars
  PROVE  PoolInv'
<1>1. ASSUME NEW s \in Search, EnqueueWorker(s) PROVE PoolInv'
  <2> DEFINE w == <<s, next[s]>>
  <2>0. w \in Worker /\ next[s] \in 0 .. NumThreads[s] - 1 /\ next[s] \in Nat
    BY Zenon, NextIsWorker DEF Types, MainTypes
  <2>1. wpc \in [Worker -> WorkerPCs] /\ pending \in Seq(Worker)
    BY Zenon DEF Types, QueueTypes
  <2>2. wpc[w] = "none"
    BY SMTT(30), <1>1, <2>0 DEF PoolInv, EnqueueWorker
  <2>3. wpc' = [wpc EXCEPT ![w] = "queued"] /\ pending' = Append(pending, w)
    BY Zenon, <1>1 DEF EnqueueWorker
  <2> HIDE DEF w
  <2>4. /\ Len(pending') = Len(pending) + 1 /\ pending'[Len(pending) + 1] = w /\ Len(pending) \in Nat
        /\ \A i \in 1 .. Len(pending) : pending'[i] = pending[i] /\ pending[i] \in Worker
    BY <2>1, <2>3
  <2>5. \A i \in 1 .. Len(pending) : pending[i] # w
    BY Zenon, <2>2 DEF PoolInv
  <2>6. \A i \in 1 .. Len(pending') : wpc'[pending'[i]] = "queued"
    BY <2>0, <2>1, <2>3, <2>4 DEF PoolInv
  <2>7. \A i, j \in 1 .. Len(pending') : i # j => pending'[i] # pending'[j]
    BY <2>4, <2>5 DEF PoolInv
  <2>8. \A v \in Worker : v # w => wpc'[v] = wpc[v]
    BY Zenon, <2>0, <2>1, <2>3
  <2>9. \A r \in Search : mpc'[r] = "enqueue" =>
          \A i \in 0 .. NumThreads[r] - 1 : i >= next'[r] => wpc'[<<r, i>>] = "none"
    <3> SUFFICES ASSUME NEW r \in Search, mpc'[r] = "enqueue",
                        NEW i \in 0 .. NumThreads[r] - 1, i >= next'[r]
                 PROVE  wpc'[<<r, i>>] = "none"
      BY Zenon
    <3>1. mpc[r] = "enqueue" /\ i >= next[r] /\ (r = s => i # next[s])
      BY <1>1, <2>0 DEF EnqueueWorker, Goto, Types, MainTypes
    <3>2. <<r, i>> # w
      BY Zenon, <3>1 DEF w
    <3> QED BY Zenon, <3>1, <3>2, <2>8, WorkerPairs DEF PoolInv
  <2>10. NoWorkAfterReturn'
    <3>1. \A r \in Search : mpc'[r] = "done" => mpc[r] = "done" /\ r # s
      BY Zenon, <1>1 DEF EnqueueWorker, Goto, Types, MainTypes
    <3>2. w[1] = s
      BY Zenon DEF w
    <3> QED BY <3>1, <3>2, <2>8, WorkerPairs DEF PoolInv, NoWorkAfterReturn
  <2> QED BY Zenon, <2>6, <2>7, <2>9, <2>10 DEF PoolInv
<1>2. ASSUME NEW s \in Search, PushTask(s) PROVE PoolInv'
  <2>1. UNCHANGED <<wpc, pending>>
    BY Zenon, <1>2 DEF PushTask, workerVars
  <2>2. \A r \in Search :
          /\ mpc'[r] = "enqueue" => mpc[r] = "enqueue" /\ next'[r] = next[r]
          /\ mpc'[r] = "done" => mpc[r] = "done" \/
               \A i \in 0 .. NumThreads[r] - 1 : wpc[<<r, i>>] = "ended"
    BY Zenon, <1>2 DEF Types, MainTypes, Goto, PushTask, Push, NextWorker
  <2> QED BY Zenon, <2>1, <2>2, PoolMain
<1>3. ASSUME NEW s \in Search, ComputeRest(s) PROVE PoolInv'
  <2>1. UNCHANGED <<wpc, pending>>
    BY Zenon, <1>3 DEF ComputeRest, workerVars
  <2>2. \A r \in Search :
          /\ mpc'[r] = "enqueue" => mpc[r] = "enqueue" /\ next'[r] = next[r]
          /\ mpc'[r] = "done" => mpc[r] = "done" \/
               \A i \in 0 .. NumThreads[r] - 1 : wpc[<<r, i>>] = "ended"
    BY Zenon, <1>3 DEF Types, MainTypes, Goto, ComputeRest
  <2> QED BY Zenon, <2>1, <2>2, PoolMain
<1>4. ASSUME NEW s \in Search, EndLoop(s) PROVE PoolInv'
  <2>1. UNCHANGED <<wpc, pending>>
    BY Zenon, <1>4 DEF EndLoop, workerVars
  <2>2. \A r \in Search :
          /\ mpc'[r] = "enqueue" => mpc[r] = "enqueue" /\ next'[r] = next[r]
          /\ mpc'[r] = "done" => mpc[r] = "done" \/
               \A i \in 0 .. NumThreads[r] - 1 : wpc[<<r, i>>] = "ended"
    BY Zenon, <1>4 DEF Types, MainTypes, Goto, EndLoop
  <2> QED BY Zenon, <2>1, <2>2, PoolMain
<1>5. ASSUME NEW s \in Search, PushPill(s) PROVE PoolInv'
  <2>1. UNCHANGED <<wpc, pending>>
    BY Zenon, <1>5 DEF PushPill, workerVars
  <2>2. \A r \in Search :
          /\ mpc'[r] = "enqueue" => mpc[r] = "enqueue" /\ next'[r] = next[r]
          /\ mpc'[r] = "done" => mpc[r] = "done" \/
               \A i \in 0 .. NumThreads[r] - 1 : wpc[<<r, i>>] = "ended"
    BY Zenon, <1>5 DEF Types, MainTypes, Goto, PushPill, Push, NextWorker
  <2> QED BY Zenon, <2>1, <2>2, PoolMain
<1>6. ASSUME NEW s \in Search, Join(s) PROVE PoolInv'
  <2>1. UNCHANGED <<wpc, pending>>
    BY Zenon, <1>6 DEF Join, workerVars
  <2>2. \A r \in Search :
          /\ mpc'[r] = "enqueue" => mpc[r] = "enqueue" /\ next'[r] = next[r]
          /\ mpc'[r] = "done" => mpc[r] = "done" \/
               \A i \in 0 .. NumThreads[r] - 1 : wpc[<<r, i>>] = "ended"
    BY Zenon, <1>6 DEF Types, MainTypes, Goto, Join
  <2> QED BY Zenon, <2>1, <2>2, PoolMain
<1>7. ASSUME NEW s \in Search, Publish(s, "publish", "push", "wait") PROVE PoolInv'
  <2>1. UNCHANGED <<wpc, pending>>
    BY Zenon, <1>7 DEF Publish, workerVars
  <2>2. \A r \in Search :
          /\ mpc'[r] = "enqueue" => mpc[r] = "enqueue" /\ next'[r] = next[r]
          /\ mpc'[r] = "done" => mpc[r] = "done" \/
               \A i \in 0 .. NumThreads[r] - 1 : wpc[<<r, i>>] = "ended"
    BY Zenon, <1>7 DEF Types, MainTypes, Goto, Publish, NextWorker
  <2> QED BY Zenon, <2>1, <2>2, PoolMain
<1>8. ASSUME NEW s \in Search, Publish(s, "publishStop", "stop", "join") PROVE PoolInv'
  <2>1. UNCHANGED <<wpc, pending>>
    BY Zenon, <1>8 DEF Publish, workerVars
  <2>2. \A r \in Search :
          /\ mpc'[r] = "enqueue" => mpc[r] = "enqueue" /\ next'[r] = next[r]
          /\ mpc'[r] = "done" => mpc[r] = "done" \/
               \A i \in 0 .. NumThreads[r] - 1 : wpc[<<r, i>>] = "ended"
    BY Zenon, <1>8 DEF Types, MainTypes, Goto, Publish, NextWorker
  <2> QED BY Zenon, <2>1, <2>2, PoolMain
<1>9. ASSUME NEW s \in Search, NEW n \in 0 .. MaxDegree, StartHop(s, n) PROVE PoolInv'
  <2>1. UNCHANGED <<wpc, pending>>
    BY Zenon, <1>9 DEF StartHop, workerVars
  <2>2. \A r \in Search :
          /\ mpc'[r] = "enqueue" => mpc[r] = "enqueue" /\ next'[r] = next[r]
          /\ mpc'[r] = "done" => mpc[r] = "done" \/
               \A i \in 0 .. NumThreads[r] - 1 : wpc[<<r, i>>] = "ended"
    BY Zenon, <1>9 DEF Types, MainTypes, Goto, StartHop
  <2> QED BY Zenon, <2>1, <2>2, PoolMain
<1>10. ASSUME NEW s \in Search, NEW early \in SUBSET Point, Collect(s, early) PROVE PoolInv'
  <2>1. UNCHANGED <<wpc, pending>>
    BY Zenon, <1>10 DEF Collect, workerVars
  <2>2. \A r \in Search :
          /\ mpc'[r] = "enqueue" => mpc[r] = "enqueue" /\ next'[r] = next[r]
          /\ mpc'[r] = "done" => mpc[r] = "done" \/
               \A i \in 0 .. NumThreads[r] - 1 : wpc[<<r, i>>] = "ended"
    BY Zenon, <1>10 DEF Types, MainTypes, Goto, Collect
  <2> QED BY Zenon, <2>1, <2>2, PoolMain
<1>11. ASSUME StartWorker PROVE PoolInv'
  <2> DEFINE h == Head(pending)
  <2>1. wpc \in [Worker -> WorkerPCs] /\ pending \in Seq(Worker) /\ pending # <<>>
    BY Zenon, <1>11 DEF Types, QueueTypes, StartWorker
  <2>2. /\ h = pending[1] /\ h \in Worker /\ Len(pending) \in Nat /\ 1 \in 1 .. Len(pending)
        /\ Len(Tail(pending)) = Len(pending) - 1
        /\ \A i \in 1 .. Len(Tail(pending)) :
             Tail(pending)[i] = pending[i + 1] /\ i + 1 \in 1 .. Len(pending) /\ i + 1 # 1
    BY <2>1
  <2>3. wpc' = [wpc EXCEPT ![h] = "idle"] /\ pending' = Tail(pending) /\ UNCHANGED <<mpc, next>>
    BY Zenon, <1>11 DEF StartWorker, mainVars
  <2> HIDE DEF h
  <2>4. \A v \in Worker : v # h => wpc'[v] = wpc[v]
    BY Zenon, <2>1, <2>2, <2>3
  <2>5. wpc[h] = "queued"
    BY Zenon, <2>2 DEF PoolInv
  <2>6. \A i \in 1 .. Len(pending') : wpc'[pending'[i]] = "queued"
    <3> SUFFICES ASSUME NEW i \in 1 .. Len(pending') PROVE wpc'[pending'[i]] = "queued"
      BY Zenon
    <3>1. pending'[i] = pending[i + 1] /\ i + 1 \in 1 .. Len(pending) /\ i + 1 # 1
      BY Zenon, <2>2, <2>3
    <3>2. pending[i + 1] # h /\ pending[i + 1] \in Worker /\ wpc[pending[i + 1]] = "queued"
      BY <3>1, <2>1, <2>2 DEF PoolInv
    <3> QED BY Zenon, <3>1, <3>2, <2>4
  <2>7. \A i, j \in 1 .. Len(pending') : i # j => pending'[i] # pending'[j]
    <3> SUFFICES ASSUME NEW i \in 1 .. Len(pending'), NEW j \in 1 .. Len(pending'), i # j
                 PROVE  pending'[i] # pending'[j]
      BY Zenon
    <3>1. /\ pending'[i] = pending[i + 1] /\ i + 1 \in 1 .. Len(pending)
          /\ pending'[j] = pending[j + 1] /\ j + 1 \in 1 .. Len(pending) /\ i + 1 # j + 1
      BY <2>2, <2>3
    <3> QED BY Zenon, <3>1 DEF PoolInv
  <2>8. \A r \in Search : mpc'[r] = "enqueue" =>
          \A i \in 0 .. NumThreads[r] - 1 : i >= next'[r] => wpc'[<<r, i>>] = "none"
    <3> SUFFICES ASSUME NEW r \in Search, mpc[r] = "enqueue",
                        NEW i \in 0 .. NumThreads[r] - 1, i >= next[r]
                 PROVE  wpc'[<<r, i>>] = "none"
      BY Zenon, <2>3
    <3>1. wpc[<<r, i>>] = "none" /\ <<r, i>> \in Worker
      BY Zenon, WorkerPairs DEF PoolInv
    <3> QED BY Zenon, <3>1, <2>4, <2>5
  <2>9. NoWorkAfterReturn'
    BY Zenon, <2>3, <2>4, <2>5 DEF PoolInv, NoWorkAfterReturn
  <2> QED BY Zenon, <2>6, <2>7, <2>8, <2>9 DEF PoolInv
<1>12. ASSUME NEW w \in Worker, PopCopies(w) PROVE PoolInv'
  <2>1. wpc[w] = "idle" /\ UNCHANGED <<mpc, next, pending>> /\ wpc' = [wpc EXCEPT ![w] = "copied"]
    BY Zenon, <1>12 DEF PopCopies, mainVars
  <2> QED BY Zenon, <2>1, PoolWork
<1>13. ASSUME NEW w \in Worker, PopReleases(w) PROVE PoolInv'
  <2>1. PICK x : wpc' = [wpc EXCEPT ![w] = x]
    BY Zenon, <1>13 DEF PopReleases
  <2>2. wpc[w] = "copied" /\ UNCHANGED <<mpc, next, pending>>
    BY Zenon, <1>13 DEF PopReleases, mainVars
  <2> QED BY Zenon, <2>1, <2>2, PoolWork
<1>14. ASSUME NEW w \in Worker, Compute(w) PROVE PoolInv'
  <2>1. wpc[w] = "task" /\ UNCHANGED <<mpc, next, pending>> /\ wpc' = [wpc EXCEPT ![w] = "idle"]
    BY Zenon, <1>14 DEF Compute, mainVars
  <2> QED BY Zenon, <2>1, PoolWork
<1>15. ASSUME UNCHANGED parallelVars PROVE PoolInv'
  BY Zenon, <1>15 DEF PoolInv, NoWorkAfterReturn, mainVars, workerVars, parallelVars
<1> QED BY Zenon, <1>1, <1>2, <1>3, <1>4, <1>5, <1>6, <1>7, <1>8, <1>9, <1>10, <1>11, <1>12, <1>13, <1>14, <1>15
        DEF ParallelNext, Main, Work

-----------------------------------------------------------------------------
(* The queues *)

(* A step that leaves the queues alone, and begins to write into none. *)
LEMMA QueueSame ==
  ASSUME QueueInv, UNCHANGED queueVars,
         \A w \in Worker :
           /\ Publishing(w)' => Publishing(w)
           /\ wpc'[w] \in {"copied", "task"} => wpc'[w] = wpc[w] /\ item'[w] = item[w]
  PROVE  QueueInv'
<1> SUFFICES ASSUME NEW w \in Worker
             PROVE  /\ readIdx'[w] <= writeIdx'[w] /\ writeIdx'[w] < readIdx'[w] + QueueSize
                    /\ Publishing(w)' => /\ writeIdx'[w] + 1 < readIdx'[w] + QueueSize
                                         /\ buffer'[w][SlotOf(writeIdx'[w])] \in Task \cup {Pill}
                    /\ wpc'[w] = "copied" => readIdx'[w] < writeIdx'[w]
                    /\ wpc'[w] = "task" => item'[w] \in Task
                    /\ \A k \in readIdx'[w] .. writeIdx'[w] - 1 :
                         buffer'[w][SlotOf(k)] \in Task \cup {Pill}
  BY Zenon DEF QueueInv, SlotOf
<1>1. readIdx' = readIdx /\ writeIdx' = writeIdx /\ buffer' = buffer
  BY Zenon DEF queueVars
<1> QED BY Zenon, <1>1 DEF QueueInv, SlotOf

(* What a push does: the item goes into a slot that no item occupies. *)
LEMMA Pushed ==
  ASSUME Types, QueueInv, NEW s \in Search, NEW x \in Task \cup {Pill},
         ~Full(<<s, next[s]>>),
         buffer' = [buffer EXCEPT ![<<s, next[s]>>][SlotOf(writeIdx[<<s, next[s]>>])] = x]
  PROVE  /\ <<s, next[s]>> \in Worker
         /\ writeIdx[<<s, next[s]>>] + 1 < readIdx[<<s, next[s]>>] + QueueSize
         /\ buffer'[<<s, next[s]>>][SlotOf(writeIdx[<<s, next[s]>>])] = x
         /\ \A w \in Worker : \A k \in Nat :
              (w # <<s, next[s]>> \/ (readIdx[w] <= k /\ k < writeIdx[w])) =>
                 buffer'[w][SlotOf(k)] = buffer[w][SlotOf(k)]
<1> DEFINE u == <<s, next[s]>>  j == SlotOf(writeIdx[u])
<1>1. u \in Worker
  BY Zenon, NextIsWorker DEF Types
<1>2. /\ writeIdx[u] \in Nat /\ readIdx[u] \in Nat /\ QueueSize \in Nat \ {0} /\ j \in Slot
      /\ x \in Item /\ buffer \in [Worker -> [Slot -> Item]]
  BY Zenon, <1>1, SizesArePositive, SlotInQueue DEF Types, QueueTypes, Item
<1>3. writeIdx[u] + 1 < readIdx[u] + QueueSize
  BY <1>2 DEF Full
<1> HIDE DEF u, j
<1>4. buffer' = [buffer EXCEPT ![u][j] = x]
  BY Zenon DEF u, j
<1>5. /\ buffer'[u][j] = x
      /\ \A v \in Worker : \A i \in Slot : v # u \/ i # j => buffer'[v][i] = buffer[v][i]
  <2>1. buffer' = [buffer EXCEPT ![u] = [buffer[u] EXCEPT ![j] = x]]
    BY Zenon, <1>1, <1>2, <1>4
  <2>2. buffer'[u] = [buffer[u] EXCEPT ![j] = x] /\ buffer[u] \in [Slot -> Item]
    BY Zenon, <1>1, <1>2, <2>1
  <2> QED BY Zenon, <1>1, <1>2, <2>1, <2>2
<1>6. ASSUME NEW w \in Worker, NEW k \in Nat, w # u \/ (readIdx[w] <= k /\ k < writeIdx[w])
      PROVE  buffer'[w][SlotOf(k)] = buffer[w][SlotOf(k)]
  <2>1. SlotOf(k) \in Slot
    BY Zenon, SlotInQueue
  <2>2. CASE w # u
    BY Zenon, <1>5, <2>1, <2>2
  <2>3. CASE w = u /\ readIdx[w] <= k /\ k < writeIdx[w]
    <3>1. k % QueueSize # writeIdx[u] % QueueSize
      <4>1. k < writeIdx[u] /\ writeIdx[u] < k + QueueSize
        BY <1>2, <1>3, <2>3
      <4> QED BY Zenon, <1>2, <4>1, SlotsDiffer
    <3> QED BY Zenon, <1>5, <2>1, <3>1 DEF SlotOf, j
  <2> QED BY Zenon, <1>6, <2>2, <2>3
<1> QED BY Zenon, <1>1, <1>3, <1>5, <1>6 DEF u, j

(* The queues. *)
LEMMA QueueStep ==
  ASSUME Types, QueueInv, PoppedSlotIsKept, [ParallelNext]_parallelVars
  PROVE  QueueInv'
<1>1. ASSUME NEW s \in Search, EnqueueWorker(s) PROVE QueueInv'
  <2>0. <<s, next[s]>> \in Worker
    BY Zenon, NextIsWorker DEF Types
  <2>1. UNCHANGED queueVars
    BY Zenon, <1>1 DEF EnqueueWorker
  <2>2. \A w \in Worker : Publishing(w)' => Publishing(w)
    BY Zenon, <1>1, WorkerPairs DEF Types, MainTypes, Publishing, EnqueueWorker, Goto
  <2>3. \A w \in Worker : wpc'[w] \in {"copied", "task"} => wpc'[w] = wpc[w] /\ item'[w] = item[w]
    BY Zenon, <1>1, <2>0 DEF Types, QueueTypes, EnqueueWorker
  <2> QED BY Zenon, <2>1, <2>2, <2>3, QueueSame
<1>2. ASSUME NEW s \in Search, PushTask(s) PROVE QueueInv'
  <2> DEFINE u == <<s, next[s]>>
  <2>1. CASE Full(u)
    <3>1. UNCHANGED queueVars /\ UNCHANGED <<wpc, item>>
      BY Zenon, <1>2, <2>1 DEF PushTask, Push, queueVars, workerVars
    <3>2. \A w \in Worker : Publishing(w)' => Publishing(w)
      BY Zenon, <1>2, <2>1, WorkerPairs DEF Types, MainTypes, Publishing, PushTask, Push, NextWorker, Goto
    <3> QED BY Zenon, <3>1, <3>2, QueueSame
  <2>2. CASE ~Full(u)
    <3> DEFINE x == [from |-> offset[s], count |-> Share(s, next[s])]
    <3>1. x \in Task \cup {Pill}
      <4>1. Share(s, next[s]) \in 0 .. MaxDegree
        BY Zenon, <1>2, ShareFits DEF PushTask
      <4> QED BY Zenon, <4>1 DEF Task, Types, MainTypes
    <3>2. /\ buffer' = [buffer EXCEPT ![u][SlotOf(writeIdx[u])] = x] /\ next' = next
          /\ UNCHANGED <<writeIdx, readIdx, wpc, item>>
      BY Zenon, <1>2, <2>2 DEF PushTask, Push, workerVars
    <3>3. \A w \in Worker : Publishing(w)' => Publishing(w) \/ w = u
      BY Zenon, <1>2, <2>2, <3>2, WorkerPairs DEF Types, MainTypes, Publishing, PushTask, Push, Goto
    <3> HIDE DEF x
    <3>4. /\ u \in Worker /\ writeIdx[u] + 1 < readIdx[u] + QueueSize
          /\ buffer'[u][SlotOf(writeIdx[u])] = x
          /\ \A w \in Worker : \A k \in Nat :
               (w # u \/ (readIdx[w] <= k /\ k < writeIdx[w])) =>
                  buffer'[w][SlotOf(k)] = buffer[w][SlotOf(k)]
      BY Zenon, <2>2, <3>1, <3>2, Pushed
    <3> HIDE DEF u
    <3>5. \A w \in Worker : writeIdx[w] \in Nat /\ readIdx[w] \in Nat
      BY Zenon DEF Types, QueueTypes
    <3>6. \A w \in Worker : \A k \in readIdx[w] .. writeIdx[w] - 1 :
            buffer'[w][SlotOf(k)] \in Task \cup {Pill}
      BY <3>4, <3>5 DEF QueueInv
    <3>7. \A w \in Worker : Publishing(w)' => /\ writeIdx[w] + 1 < readIdx[w] + QueueSize
                                           /\ buffer'[w][SlotOf(writeIdx[w])] \in Task \cup {Pill}
      <4> SUFFICES ASSUME NEW w \in Worker, Publishing(w)'
                   PROVE  /\ writeIdx[w] + 1 < readIdx[w] + QueueSize
                          /\ buffer'[w][SlotOf(writeIdx[w])] \in Task \cup {Pill}
        BY Zenon
      <4>1. CASE w = u
        BY Zenon, <4>1, <3>1, <3>4
      <4>2. CASE w # u
        BY Zenon, <4>2, <3>3, <3>4, <3>5 DEF QueueInv
      <4> QED BY Zenon, <4>1, <4>2
    <3> QED BY Zenon, <3>2, <3>6, <3>7 DEF QueueInv, SlotOf
  <2> QED BY Zenon, <2>1, <2>2
<1>3. ASSUME NEW s \in Search, ComputeRest(s) PROVE QueueInv'
  <2>1. UNCHANGED queueVars /\ UNCHANGED <<wpc, item>>
    BY Zenon, <1>3 DEF ComputeRest, queueVars, workerVars
  <2>2. \A w \in Worker : Publishing(w)' => Publishing(w)
    BY Zenon, <1>3, WorkerPairs DEF Types, MainTypes, Publishing, ComputeRest, Goto
  <2> QED BY Zenon, <2>1, <2>2, QueueSame
<1>4. ASSUME NEW s \in Search, EndLoop(s) PROVE QueueInv'
  <2>1. UNCHANGED queueVars /\ UNCHANGED <<wpc, item>>
    BY Zenon, <1>4 DEF EndLoop, queueVars, workerVars
  <2>2. \A w \in Worker : Publishing(w)' => Publishing(w)
    BY Zenon, <1>4, WorkerPairs DEF Types, MainTypes, Publishing, EndLoop, Goto
  <2> QED BY Zenon, <2>1, <2>2, QueueSame
<1>5. ASSUME NEW s \in Search, PushPill(s) PROVE QueueInv'
  <2> DEFINE u == <<s, next[s]>>
  <2>1. CASE Full(u)
    <3>1. UNCHANGED queueVars /\ UNCHANGED <<wpc, item>>
      BY Zenon, <1>5, <2>1 DEF PushPill, Push, queueVars, workerVars
    <3>2. \A w \in Worker : Publishing(w)' => Publishing(w)
      BY Zenon, <1>5, <2>1, WorkerPairs DEF Types, MainTypes, Publishing, PushPill, Push, NextWorker, Goto
    <3> QED BY Zenon, <3>1, <3>2, QueueSame
  <2>2. CASE ~Full(u)
    <3> DEFINE x == Pill
    <3>1. x \in Task \cup {Pill}
      BY Zenon
    <3>2. /\ buffer' = [buffer EXCEPT ![u][SlotOf(writeIdx[u])] = x] /\ next' = next
          /\ UNCHANGED <<writeIdx, readIdx, wpc, item>>
      BY Zenon, <1>5, <2>2 DEF PushPill, Push, workerVars
    <3>3. \A w \in Worker : Publishing(w)' => Publishing(w) \/ w = u
      BY Zenon, <1>5, <2>2, <3>2, WorkerPairs DEF Types, MainTypes, Publishing, PushPill, Push, Goto
    <3> HIDE DEF x
    <3>4. /\ u \in Worker /\ writeIdx[u] + 1 < readIdx[u] + QueueSize
          /\ buffer'[u][SlotOf(writeIdx[u])] = x
          /\ \A w \in Worker : \A k \in Nat :
               (w # u \/ (readIdx[w] <= k /\ k < writeIdx[w])) =>
                  buffer'[w][SlotOf(k)] = buffer[w][SlotOf(k)]
      BY Zenon, <2>2, <3>1, <3>2, Pushed
    <3> HIDE DEF u
    <3>5. \A w \in Worker : writeIdx[w] \in Nat /\ readIdx[w] \in Nat
      BY Zenon DEF Types, QueueTypes
    <3>6. \A w \in Worker : \A k \in readIdx[w] .. writeIdx[w] - 1 :
            buffer'[w][SlotOf(k)] \in Task \cup {Pill}
      BY SMTT(30), <3>4, <3>5 DEF QueueInv
    <3>7. \A w \in Worker : Publishing(w)' => /\ writeIdx[w] + 1 < readIdx[w] + QueueSize
                                           /\ buffer'[w][SlotOf(writeIdx[w])] \in Task \cup {Pill}
      <4> SUFFICES ASSUME NEW w \in Worker, Publishing(w)'
                   PROVE  /\ writeIdx[w] + 1 < readIdx[w] + QueueSize
                          /\ buffer'[w][SlotOf(writeIdx[w])] \in Task \cup {Pill}
        BY Zenon
      <4>1. CASE w = u
        BY Zenon, <4>1, <3>1, <3>4
      <4>2. CASE w # u
        BY Zenon, <4>2, <3>3, <3>4, <3>5 DEF QueueInv
      <4> QED BY Zenon, <4>1, <4>2
    <3> QED BY Zenon, <3>2, <3>6, <3>7 DEF QueueInv, SlotOf
  <2> QED BY Zenon, <2>1, <2>2
<1>6. ASSUME NEW s \in Search, Join(s) PROVE QueueInv'
  <2>1. UNCHANGED queueVars /\ UNCHANGED <<wpc, item>>
    BY Zenon, <1>6 DEF Join, queueVars, workerVars
  <2>2. \A w \in Worker : Publishing(w)' => Publishing(w)
    BY Zenon, <1>6, WorkerPairs DEF Types, MainTypes, Publishing, Join, Goto
  <2> QED BY Zenon, <2>1, <2>2, QueueSame
<1>7. ASSUME NEW s \in Search, Publish(s, "publish", "push", "wait") PROVE QueueInv'
  <2> DEFINE u == <<s, next[s]>>
  <2>1. u \in Worker /\ Publishing(u)
    BY Zenon, <1>7, NextIsWorker DEF Types, Publish, Publishing
  <2>2. writeIdx' = [writeIdx EXCEPT ![u] = writeIdx[u] + 1] /\ UNCHANGED <<readIdx, buffer, wpc, item>>
    BY Zenon, <1>7 DEF Publish, workerVars
  <2>3. \A w \in Worker : Publishing(w)' => Publishing(w) /\ w # u
    BY <1>7, WorkerPairs DEF Types, MainTypes, Publishing, Publish, NextWorker, Goto
  <2> HIDE DEF u
  <2>4. \A w \in Worker : /\ writeIdx[w] \in Nat /\ readIdx[w] \in Nat
                          /\ writeIdx'[w] = IF w = u THEN writeIdx[w] + 1 ELSE writeIdx[w]
    BY Zenon, <2>1, <2>2 DEF Types, QueueTypes
  <2>5. QueueSize \in Nat
    BY Zenon, SizesArePositive
  <2> SUFFICES ASSUME NEW w \in Worker
               PROVE  /\ readIdx[w] <= writeIdx'[w] /\ writeIdx'[w] < readIdx[w] + QueueSize
                      /\ Publishing(w)' => /\ writeIdx'[w] + 1 < readIdx[w] + QueueSize
                                           /\ buffer[w][SlotOf(writeIdx'[w])] \in Task \cup {Pill}
                      /\ wpc[w] = "copied" => readIdx[w] < writeIdx'[w]
                      /\ wpc[w] = "task" => item[w] \in Task
                      /\ \A k \in readIdx[w] .. writeIdx'[w] - 1 :
                           buffer[w][SlotOf(k)] \in Task \cup {Pill}
    BY Zenon, <2>2 DEF QueueInv, SlotOf
  <2>6. CASE w # u
    BY Zenon, <2>3, <2>4, <2>6 DEF QueueInv
  <2>7. CASE w = u
    <3>1. /\ writeIdx[u] + 1 < readIdx[u] + QueueSize /\ readIdx[u] <= writeIdx[u]
          /\ buffer[u][SlotOf(writeIdx[u])] \in Task \cup {Pill}
      BY Zenon, <2>1 DEF QueueInv
    <3>2. \A k \in readIdx[u] .. writeIdx[u] : buffer[u][SlotOf(k)] \in Task \cup {Pill}
      <4> SUFFICES ASSUME NEW k \in readIdx[u] .. writeIdx[u]
                   PROVE  buffer[u][SlotOf(k)] \in Task \cup {Pill}
        BY Zenon
      <4>1. CASE k = writeIdx[u]
        BY Zenon, <3>1, <4>1
      <4>2. CASE k # writeIdx[u]
        <5>1. k \in readIdx[u] .. writeIdx[u] - 1
          BY SMTT(30), <4>2, <2>1, <2>4
        <5> QED BY Zenon, <5>1, <2>1 DEF QueueInv
      <4> QED BY Zenon, <4>1, <4>2
    <3>3. writeIdx'[u] = writeIdx[u] + 1 /\ writeIdx'[u] - 1 = writeIdx[u] /\ writeIdx[u] \in Nat
          /\ readIdx[u] \in Nat
      BY SMTT(30), <2>1, <2>4
    <3> QED BY SMTT(30), <2>1, <2>3, <2>5, <2>7, <3>1, <3>2, <3>3 DEF QueueInv
  <2> QED BY Zenon, <2>6, <2>7
<1>8. ASSUME NEW s \in Search, Publish(s, "publishStop", "stop", "join") PROVE QueueInv'
  <2> DEFINE u == <<s, next[s]>>
  <2>1. u \in Worker /\ Publishing(u)
    BY Zenon, <1>8, NextIsWorker DEF Types, Publish, Publishing
  <2>2. writeIdx' = [writeIdx EXCEPT ![u] = writeIdx[u] + 1] /\ UNCHANGED <<readIdx, buffer, wpc, item>>
    BY Zenon, <1>8 DEF Publish, workerVars
  <2>3. \A w \in Worker : Publishing(w)' => Publishing(w) /\ w # u
    BY SMTT(30), <1>8, WorkerPairs DEF Types, MainTypes, Publishing, Publish, NextWorker, Goto
  <2> HIDE DEF u
  <2>4. \A w \in Worker : /\ writeIdx[w] \in Nat /\ readIdx[w] \in Nat
                          /\ writeIdx'[w] = IF w = u THEN writeIdx[w] + 1 ELSE writeIdx[w]
    BY Zenon, <2>1, <2>2 DEF Types, QueueTypes
  <2>5. QueueSize \in Nat
    BY Zenon, SizesArePositive
  <2> SUFFICES ASSUME NEW w \in Worker
               PROVE  /\ readIdx[w] <= writeIdx'[w] /\ writeIdx'[w] < readIdx[w] + QueueSize
                      /\ Publishing(w)' => /\ writeIdx'[w] + 1 < readIdx[w] + QueueSize
                                           /\ buffer[w][SlotOf(writeIdx'[w])] \in Task \cup {Pill}
                      /\ wpc[w] = "copied" => readIdx[w] < writeIdx'[w]
                      /\ wpc[w] = "task" => item[w] \in Task
                      /\ \A k \in readIdx[w] .. writeIdx'[w] - 1 :
                           buffer[w][SlotOf(k)] \in Task \cup {Pill}
    BY Zenon, <2>2 DEF QueueInv, SlotOf
  <2>6. CASE w # u
    BY Zenon, <2>3, <2>4, <2>6 DEF QueueInv
  <2>7. CASE w = u
    <3>1. /\ writeIdx[u] + 1 < readIdx[u] + QueueSize /\ readIdx[u] <= writeIdx[u]
          /\ buffer[u][SlotOf(writeIdx[u])] \in Task \cup {Pill}
      BY Zenon, <2>1 DEF QueueInv
    <3>2. \A k \in readIdx[u] .. writeIdx[u] : buffer[u][SlotOf(k)] \in Task \cup {Pill}
      <4> SUFFICES ASSUME NEW k \in readIdx[u] .. writeIdx[u]
                   PROVE  buffer[u][SlotOf(k)] \in Task \cup {Pill}
        BY Zenon
      <4>1. CASE k = writeIdx[u]
        BY Zenon, <3>1, <4>1
      <4>2. CASE k # writeIdx[u]
        <5>1. k \in readIdx[u] .. writeIdx[u] - 1
          BY <4>2, <2>1, <2>4
        <5> QED BY Zenon, <5>1, <2>1 DEF QueueInv
      <4> QED BY Zenon, <4>1, <4>2
    <3>3. writeIdx'[u] = writeIdx[u] + 1 /\ writeIdx'[u] - 1 = writeIdx[u] /\ writeIdx[u] \in Nat
          /\ readIdx[u] \in Nat
      BY <2>1, <2>4
    <3> QED BY <2>1, <2>3, <2>5, <2>7, <3>1, <3>2, <3>3 DEF QueueInv
  <2> QED BY Zenon, <2>6, <2>7
<1>9. ASSUME NEW s \in Search, NEW n \in 0 .. MaxDegree, StartHop(s, n) PROVE QueueInv'
  <2>1. UNCHANGED queueVars /\ UNCHANGED <<wpc, item>>
    BY Zenon, <1>9 DEF StartHop, queueVars, workerVars
  <2>2. \A w \in Worker : Publishing(w)' => Publishing(w)
    BY Zenon, <1>9, WorkerPairs DEF Types, MainTypes, Publishing, StartHop, Goto
  <2> QED BY Zenon, <2>1, <2>2, QueueSame
<1>10. ASSUME NEW s \in Search, NEW early \in SUBSET Point, Collect(s, early) PROVE QueueInv'
  <2>1. UNCHANGED queueVars /\ UNCHANGED <<wpc, item>>
    BY Zenon, <1>10 DEF Collect, queueVars, workerVars
  <2>2. \A w \in Worker : Publishing(w)' => Publishing(w)
    BY Zenon, <1>10, WorkerPairs DEF Types, MainTypes, Publishing, Collect, Goto
  <2> QED BY Zenon, <2>1, <2>2, QueueSame
<1>11. ASSUME StartWorker PROVE QueueInv'
  <2>1. UNCHANGED queueVars /\ UNCHANGED <<mpc, next, item>> /\ Head(pending) \in Worker
    BY <1>11 DEF StartWorker, mainVars, Types, QueueTypes
  <2>2. \A w \in Worker : wpc'[w] \in {"copied", "task"} => wpc'[w] = wpc[w] /\ item'[w] = item[w]
    BY Zenon, <1>11, <2>1 DEF StartWorker, Types, QueueTypes
  <2> QED BY Zenon, <2>1, <2>2, QueueSame DEF Publishing
<1>12. ASSUME NEW w \in Worker, PopCopies(w) PROVE QueueInv'
  <2>1. UNCHANGED queueVars /\ UNCHANGED <<mpc, next>> /\ readIdx[w] # writeIdx[w]
    BY Zenon, <1>12 DEF PopCopies, mainVars
  <2>2. \A v \in Worker : v # w => wpc'[v] = wpc[v] /\ item'[v] = item[v]
    BY Zenon, <1>12 DEF PopCopies, Types, QueueTypes
  <2>3. wpc'[w] = "copied"
    BY Zenon, <1>12 DEF PopCopies, Types, QueueTypes
  <2>4. readIdx[w] < writeIdx[w]
    BY <2>1 DEF QueueInv, Types, QueueTypes
  <2>5. \A v \in Worker : /\ wpc'[v] = "copied" => readIdx[v] < writeIdx[v]
                          /\ wpc'[v] = "task" => item'[v] \in Task
    BY Zenon, <2>2, <2>3, <2>4 DEF QueueInv
  <2>6. readIdx' = readIdx /\ writeIdx' = writeIdx /\ buffer' = buffer
    BY Zenon, <2>1 DEF queueVars
  <2>7. \A v \in Worker : Publishing(v)' <=> Publishing(v)
    BY Zenon, <2>1 DEF Publishing
  <2>8. ASSUME NEW v \in Worker
        PROVE  /\ readIdx'[v] <= writeIdx'[v] /\ writeIdx'[v] < readIdx'[v] + QueueSize
               /\ Publishing(v)' => /\ writeIdx'[v] + 1 < readIdx'[v] + QueueSize
                                    /\ buffer'[v][SlotOf(writeIdx'[v])] \in Task \cup {Pill}
               /\ wpc'[v] = "copied" => readIdx'[v] < writeIdx'[v]
               /\ wpc'[v] = "task" => item'[v] \in Task
               /\ \A k \in readIdx'[v] .. writeIdx'[v] - 1 :
                    buffer'[v][SlotOf(k)] \in Task \cup {Pill}
    BY Zenon, <2>5, <2>6, <2>7 DEF QueueInv
  <2> QED BY Zenon, <2>8 DEF QueueInv, SlotOf
<1>13. ASSUME NEW w \in Worker, PopReleases(w) PROVE QueueInv'
  <2>1. /\ UNCHANGED <<mpc, next, writeIdx, buffer, item>> /\ readIdx' = [readIdx EXCEPT ![w] = readIdx[w] + 1]
        /\ wpc[w] = "copied" /\ wpc' = [wpc EXCEPT ![w] = IF item[w] = Pill THEN "ended" ELSE "task"]
    BY Zenon, <1>13 DEF PopReleases, mainVars
  <2>2. \A v \in Worker : v # w => wpc'[v] = wpc[v] /\ readIdx'[v] = readIdx[v]
    BY Zenon, <2>1 DEF Types, QueueTypes
  <2>3. /\ readIdx'[w] = readIdx[w] + 1 /\ readIdx[w] \in Nat /\ writeIdx[w] \in Nat
        /\ wpc'[w] = (IF item[w] = Pill THEN "ended" ELSE "task") /\ QueueSize \in Nat
    BY Zenon, <2>1, SizesArePositive DEF Types, QueueTypes
  <2>4. readIdx[w] < writeIdx[w] /\ item[w] \in Task \cup {Pill}
    <3>1. readIdx[w] < writeIdx[w] /\ item[w] = buffer[w][SlotOf(readIdx[w])]
      BY Zenon, <2>1 DEF QueueInv, PoppedSlotIsKept
    <3>2. readIdx[w] \in readIdx[w] .. writeIdx[w] - 1
      BY SMTT(30), <2>3, <3>1
    <3> QED BY Zenon, <3>1, <3>2 DEF QueueInv
  <2> SUFFICES ASSUME NEW v \in Worker
               PROVE  /\ readIdx'[v] <= writeIdx[v] /\ writeIdx[v] < readIdx'[v] + QueueSize
                      /\ Publishing(v) => /\ writeIdx[v] + 1 < readIdx'[v] + QueueSize
                                          /\ buffer[v][SlotOf(writeIdx[v])] \in Task \cup {Pill}
                      /\ wpc'[v] = "copied" => readIdx'[v] < writeIdx[v]
                      /\ wpc'[v] = "task" => item[v] \in Task
                      /\ \A k \in readIdx'[v] .. writeIdx[v] - 1 :
                           buffer[v][SlotOf(k)] \in Task \cup {Pill}
    BY Zenon, <2>1 DEF QueueInv, SlotOf, Publishing
  <2>5. CASE v # w
    BY Zenon, <2>2, <2>5 DEF QueueInv
  <2>6. CASE v = w
    <3>1. \A k \in readIdx[w] + 1 .. writeIdx[w] - 1 : k \in readIdx[w] .. writeIdx[w] - 1
      BY SMTT(30), <2>3
    <3>2. /\ writeIdx[w] < readIdx[w] + QueueSize
          /\ Publishing(w) => /\ writeIdx[w] + 1 < readIdx[w] + QueueSize
                              /\ buffer[w][SlotOf(writeIdx[w])] \in Task \cup {Pill}
          /\ \A k \in readIdx[w] .. writeIdx[w] - 1 : buffer[w][SlotOf(k)] \in Task \cup {Pill}
      BY Zenon DEF QueueInv
    <3> QED BY SMTT(30), <2>3, <2>4, <2>6, <3>1, <3>2
  <2> QED BY Zenon, <2>5, <2>6
<1>14. ASSUME NEW w \in Worker, Compute(w) PROVE QueueInv'
  <2>1. UNCHANGED queueVars /\ UNCHANGED <<mpc, next>>
    BY Zenon, <1>14 DEF Compute, mainVars
  <2>2. \A v \in Worker : wpc'[v] \in {"copied", "task"} => wpc'[v] = wpc[v] /\ item'[v] = item[v]
    BY Zenon, <1>14 DEF Compute, Types, QueueTypes
  <2> QED BY Zenon, <2>1, <2>2, QueueSame DEF Publishing
<1>15. ASSUME UNCHANGED parallelVars PROVE QueueInv'
  <2>1. UNCHANGED queueVars /\ UNCHANGED <<mpc, next, wpc, item>>
    BY Zenon, <1>15 DEF parallelVars, mainVars, workerVars, queueVars
  <2> QED BY Zenon, <2>1, QueueSame DEF Publishing
<1> QED BY Zenon, <1>1, <1>2, <1>3, <1>4, <1>5, <1>6, <1>7, <1>8, <1>9, <1>10, <1>11, <1>12, <1>13, <1>14, <1>15
        DEF ParallelNext, Main, Work


-----------------------------------------------------------------------------
(* The parts of a hop *)

(* When as many points are counted as the hop has, all have their distance. *)
LEMMA AllDone ==
  ASSUME Types, CountInv, NEW s \in Search, mpc[s] \in Busy, AllComputed(s)
  PROVE  \A i \in 0 .. count[s] - 1 : dists[s][i] = hop[s]
<1> DEFINE n == count[s]
<1>1. n \in Nat /\ numPoints[s] \in Nat /\ numPoints[s] >= n
  BY Zenon, Bounds DEF AllComputed
<1> HIDE DEF n
<1>2. IsFiniteSet(0 .. n - 1) /\ Cardinality(0 .. n - 1) = n
  <2>1. 0 \in Int /\ n - 1 \in Int
    BY SMTT(30), <1>1
  <2>2. IsFiniteSet(0 .. n - 1) /\ Cardinality(0 .. n - 1) = IF 0 > n - 1 THEN 0 ELSE n - 1 - 0 + 1
    BY <2>1, FS_Interval, Zenon
  <2> QED BY <1>1, <2>2
<1>3. Done(s) \in SUBSET (0 .. n - 1)
  BY Zenon DEF Done, n
<1>4. Cardinality(Done(s)) = numPoints[s]
  BY Zenon DEF CountInv, CountOf
<1>5. Cardinality(Done(s)) <= n /\ (n = Cardinality(Done(s)) => 0 .. n - 1 = Done(s))
  BY <1>2, <1>3, FS_Subset, ZenonT(40)
<1>6. 0 .. n - 1 = Done(s)
  BY <1>1, <1>4, <1>5
<1> QED BY Zenon, <1>6 DEF Done, n

(* A step after which open items are ones that were open before. *)
LEMMA PartKept ==
  ASSUME PartInv, PoppedSlotIsKept',
         \A w \in Worker : \A k \in Open(w)' :
           k \in Open(w) /\ OpenPoints(w, k)' = OpenPoints(w, k),
         \A w \in Worker : \A k \in Open(w)' : \A i \in OpenPoints(w, k) :
           mpc'[w[1]] \in Busy /\ i < offset'[w[1]] /\ dists'[w[1]][i] # hop'[w[1]]
  PROVE  PartInv'
<1>1. \A w \in Worker : \A k \in Open(w)' : \A i \in OpenPoints(w, k)' :
        /\ mpc'[w[1]] \in Busy /\ i \in Nat /\ i < offset'[w[1]]
        /\ dists'[w[1]][i] # hop'[w[1]]
  BY SMTT(30) DEF PartInv
<1>2. \A v, w \in Worker : \A j \in Open(v)', k \in Open(w)' :
        v[1] = w[1] /\ <<v, j>> # <<w, k>> => OpenPoints(v, j)' \cap OpenPoints(w, k)' = {}
  BY SMTT(30) DEF PartInv
<1> QED BY <1>1, <1>2, Zenon DEF PartInv

(* A step that leaves the queues alone and starts no task. *)
LEMMA OpenKept ==
  ASSUME Types, QueueInv, UNCHANGED queueVars,
         \A w \in Worker :
           /\ Publishing(w)' => Publishing(w)
           /\ wpc'[w] = "task" => wpc[w] = "task" /\ item'[w] = item[w]
  PROVE  \A w \in Worker : \A k \in Open(w)' :
           k \in Open(w) /\ OpenPoints(w, k)' = OpenPoints(w, k)
<1> SUFFICES ASSUME NEW w \in Worker, NEW k \in Open(w)'
             PROVE  k \in Open(w) /\ OpenPoints(w, k)' = OpenPoints(w, k)
  BY Zenon
<1>1. readIdx' = readIdx /\ writeIdx' = writeIdx /\ buffer' = buffer
  BY Zenon DEF queueVars
<1>2. readIdx[w] \in Nat /\ writeIdx[w] \in Nat /\ readIdx[w] <= writeIdx[w]
  BY Zenon DEF Types, QueueTypes, QueueInv
<1>3. k \in Open(w)
  BY Zenon, <1>1 DEF Open
<1>4. k = readIdx[w] - 1 => item'[w] = item[w]
  BY <1>1, <1>2 DEF Open
<1>5. OpenItem(w, k)' = OpenItem(w, k)
  BY Zenon, <1>1, <1>4 DEF OpenItem, SlotOf
<1> QED BY Zenon, <1>3, <1>5 DEF OpenPoints, Points

(* The open items. *)
LEMMA PartStep ==
  ASSUME Types, QueueInv, PartInv, CountInv, [ParallelNext]_parallelVars
  PROVE  PartInv'
<1>1. ASSUME NEW s \in Search, EnqueueWorker(s) PROVE PartInv'
  <2>0. <<s, next[s]>> \in Worker
    BY Zenon, NextIsWorker DEF Types
  <2>1. UNCHANGED queueVars /\ UNCHANGED <<item, offset, dists, hop>>
    BY Zenon, <1>1 DEF EnqueueWorker, shared
  <2>2. \A w \in Worker : /\ Publishing(w)' => Publishing(w)
                          /\ wpc'[w] = "task" => wpc[w] = "task" /\ item'[w] = item[w]
                          /\ wpc'[w] = "copied" => wpc[w] = "copied"
    BY Zenon, <1>1, <2>0, WorkerPairs DEF Types, MainTypes, QueueTypes, Publishing, EnqueueWorker, Goto
  <2>3. \A w \in Worker : \A k \in Open(w)' :
          k \in Open(w) /\ OpenPoints(w, k)' = OpenPoints(w, k)
    BY Zenon, <2>1, <2>2, OpenKept
  <2>4. PoppedSlotIsKept'
    BY Zenon, <2>1, <2>2 DEF PartInv, PoppedSlotIsKept, queueVars, SlotOf
  <2>5. \A w \in Worker : \A k \in Open(w)' : \A i \in OpenPoints(w, k) :
          mpc'[w[1]] \in Busy /\ i < offset'[w[1]] /\ dists'[w[1]][i] # hop'[w[1]]
    <3> SUFFICES ASSUME NEW w \in Worker, NEW k \in Open(w)', NEW i \in OpenPoints(w, k)
                 PROVE  mpc'[w[1]] \in Busy /\ i < offset'[w[1]] /\ dists'[w[1]][i] # hop'[w[1]]
      BY Zenon
    <3>1. /\ mpc[w[1]] \in Busy /\ i \in Nat /\ i < offset[w[1]] /\ dists[w[1]][i] # hop[w[1]]
          /\ w[1] \in Search
      BY Zenon, <2>3, WorkerPairs DEF PartInv
    <3>2. mpc'[w[1]] = mpc[w[1]]
      BY Zenon, <1>1, <3>1 DEF Types, MainTypes, EnqueueWorker, Goto, Busy
    <3> QED BY Zenon, <2>1, <3>1, <3>2
  <2> QED BY Zenon, <2>3, <2>4, <2>5, PartKept
<1>2. ASSUME NEW s \in Search, PushTask(s) PROVE PartInv'
  <2> PICK u \in Worker : u = <<s, next[s]>>
    BY Zenon, NextIsWorker DEF Types
  <2>0. u \in Worker /\ u[1] = s /\ u = <<s, next[s]>>
    BY Zenon
  <2>1. CASE Full(u)
    <3>1. UNCHANGED queueVars /\ UNCHANGED <<wpc, item, dists, hop>>
      BY Zenon, <1>2, <2>1 DEF PushTask, Push, queueVars, workerVars, shared
    <3>2. \A w \in Worker : Publishing(w)' => Publishing(w)
      BY Zenon, <1>2, <2>1, WorkerPairs DEF Types, MainTypes, Publishing, PushTask, Push, NextWorker, Goto
    <3>3. \A w \in Worker : \A k \in Open(w)' :
            k \in Open(w) /\ OpenPoints(w, k)' = OpenPoints(w, k)
      BY Zenon, <3>1, <3>2, OpenKept
    <3>4. PoppedSlotIsKept'
      BY Zenon, <3>1 DEF PartInv, PoppedSlotIsKept, queueVars, SlotOf
    <3>5. \A w \in Worker : \A k \in Open(w)' : \A i \in OpenPoints(w, k) :
            mpc'[w[1]] \in Busy /\ i < offset'[w[1]] /\ dists'[w[1]][i] # hop'[w[1]]
      <4> SUFFICES ASSUME NEW w \in Worker, NEW k \in Open(w)', NEW i \in OpenPoints(w, k)
                   PROVE  mpc'[w[1]] \in Busy /\ i < offset'[w[1]] /\ dists'[w[1]][i] # hop'[w[1]]
        BY Zenon
      <4>1. /\ mpc[w[1]] \in Busy /\ i \in Nat /\ i < offset[w[1]] /\ dists[w[1]][i] # hop[w[1]]
            /\ w[1] \in Search
        BY Zenon, <3>3, WorkerPairs DEF PartInv
      <4>2. mpc'[w[1]] \in Busy
        BY Zenon, <1>2, <2>1, <4>1 DEF Types, MainTypes, PushTask, Push, NextWorker, Goto, Busy
      <4>3. offset[w[1]] <= offset'[w[1]] /\ offset[w[1]] \in Nat /\ offset'[w[1]] \in Nat
        BY Zenon, <1>2, <4>1, PushMoves
      <4> QED BY SMTT(30), <3>1, <4>1, <4>2, <4>3
    <3> QED BY Zenon, <3>3, <3>4, <3>5, PartKept
  <2>2. CASE ~Full(u)
    <3> DEFINE x == [from |-> offset[s], count |-> Share(s, next[s])]
    <3>1. x \in Task \cup {Pill}
      <4>1. Share(s, next[s]) \in 0 .. MaxDegree
        BY Zenon, <1>2, ShareFits DEF PushTask
      <4> QED BY Zenon, <4>1 DEF Task, Types, MainTypes
    <3>2. /\ buffer' = [buffer EXCEPT ![u][SlotOf(writeIdx[u])] = x] /\ next' = next
          /\ UNCHANGED <<writeIdx, readIdx, wpc, item, dists, hop>>
      BY Zenon, <1>2, <2>2 DEF PushTask, Push, workerVars, shared
    <3>3. \A w \in Worker : Publishing(w)' => Publishing(w) \/ w = u
      BY SMTT(30), <1>2, <2>2, <3>2, WorkerPairs DEF Types, MainTypes, Publishing, PushTask, Push, Goto
    <3>4. \A i \in Points(x) :
            i \in Nat /\ offset[s] <= i /\ mpc'[s] \in Busy /\ i < offset'[s] /\ dists[s][i] # hop[s]
      <4>1. /\ Share(s, next[s]) \in Nat /\ offset[s] \in Nat /\ count[s] \in Nat
            /\ offset[s] + Share(s, next[s]) <= count[s]
        BY Zenon, <1>2, ShareFits, Bounds DEF PushTask
      <4>2. offset'[s] = offset[s] + Share(s, next[s])
        BY Zenon, <1>2, PushMoves
      <4>3. mpc[s] \in Busy /\ mpc'[s] \in Busy
        BY Zenon, <1>2, <2>2 DEF PushTask, Push, Goto, Types, MainTypes, Busy
      <4>4. \A i \in offset[s] .. count[s] - 1 : dists[s][i] # hop[s]
        BY Zenon, <4>3 DEF CountInv, CountOf
      <4> QED BY SMTT(30), <4>1, <4>2, <4>3, <4>4 DEF Points
    <3> HIDE DEF x
    <3>5. /\ buffer'[u][SlotOf(writeIdx[u])] = x
          /\ \A w \in Worker : \A k \in Nat :
               (w # u \/ (readIdx[w] <= k /\ k < writeIdx[w])) =>
                  buffer'[w][SlotOf(k)] = buffer[w][SlotOf(k)]
      BY ZenonT(40), <2>2, <3>1, <3>2, Pushed
    <3> PICK m \in Nat : m = writeIdx[u]
      BY Zenon DEF Types, QueueTypes
    <3>6. \A w \in Worker : writeIdx[w] \in Nat /\ readIdx[w] \in Nat /\ readIdx[w] <= writeIdx[w]
      BY Zenon DEF Types, QueueTypes, QueueInv
    <3>7. ASSUME NEW w \in Worker, NEW k \in Open(w)', <<w, k>> # <<u, m>>
          PROVE  k \in Open(w) /\ OpenPoints(w, k)' = OpenPoints(w, k)
      <4>1. k \in Int /\ k \in Open(w) /\ (w = u => k < writeIdx[w])
        BY SMTT(30), <3>2, <3>3, <3>6, <3>7 DEF Open
      <4>2. OpenItem(w, k)' = OpenItem(w, k)
        <5>1. CASE k = readIdx[w] - 1
          BY Zenon, <3>2, <5>1 DEF OpenItem
        <5>2. CASE k # readIdx[w] - 1
          <6>1. k \in Nat /\ readIdx[w] <= k
            BY SMTT(30), <3>6, <4>1, <5>2 DEF Open
          <6>2. buffer'[w][SlotOf(k)] = buffer[w][SlotOf(k)]
            BY Zenon, <3>5, <4>1, <6>1
          <6> QED BY Zenon, <3>2, <5>2, <6>2 DEF OpenItem, SlotOf
        <5> QED BY Zenon, <5>1, <5>2
      <4> QED BY Zenon, <4>1, <4>2 DEF OpenPoints, Points
    <3>8. OpenPoints(u, m)' = Points(x)
      <4>1. m # readIdx[u] - 1 /\ m = writeIdx[u]
        BY SMTT(30), <2>0, <3>6 
      <4> QED BY Zenon, <3>2, <3>5, <4>1 DEF OpenPoints, OpenItem, SlotOf, Points
    <3>9. \A w \in Worker : \A k \in Open(w)' : <<w, k>> # <<u, m>> => \A i \in OpenPoints(w, k)' :
            /\ i \in Nat /\ mpc[w[1]] \in Busy /\ i < offset[w[1]] /\ dists[w[1]][i] # hop[w[1]]
            /\ w[1] \in Search
      BY SMTT(30), <3>7, WorkerPairs DEF PartInv
    <3>10. \A w \in Worker : \A k \in Open(w)' : \A i \in OpenPoints(w, k)' :
             /\ mpc'[w[1]] \in Busy /\ i \in Nat /\ i < offset'[w[1]]
             /\ dists'[w[1]][i] # hop'[w[1]]
      <4> SUFFICES ASSUME NEW w \in Worker, NEW k \in Open(w)', NEW i \in OpenPoints(w, k)'
                   PROVE  /\ mpc'[w[1]] \in Busy /\ i \in Nat /\ i < offset'[w[1]]
                          /\ dists'[w[1]][i] # hop'[w[1]]
        BY Zenon
      <4>1. CASE <<w, k>> = <<u, m>>
        <5>1. w = u /\ w[1] = s /\ i \in Points(x)
          BY Zenon, <2>0, <3>8, <4>1
        <5> QED BY Zenon, <3>2, <3>4, <5>1
      <4>2. CASE <<w, k>> # <<u, m>>
        <5>1. /\ i \in Nat /\ mpc[w[1]] \in Busy /\ i < offset[w[1]] /\ dists[w[1]][i] # hop[w[1]]
              /\ w[1] \in Search
          BY Zenon, <3>9, <4>2
        <5>2. mpc'[w[1]] \in Busy
          BY Zenon, <1>2, <2>2, <5>1 DEF Types, MainTypes, PushTask, Push, Goto, Busy
        <5>3. offset[w[1]] <= offset'[w[1]] /\ offset[w[1]] \in Nat /\ offset'[w[1]] \in Nat
          BY Zenon, <1>2, <5>1, PushMoves
        <5> QED BY SMTT(30), <3>2, <5>1, <5>2, <5>3
      <4> QED BY Zenon, <4>1, <4>2
    <3>11. \A w \in Worker : \A k \in Open(w)' :
             w[1] = s /\ <<w, k>> # <<u, m>> => OpenPoints(w, k)' \cap OpenPoints(u, m)' = {}
      <4> SUFFICES ASSUME NEW w \in Worker, NEW k \in Open(w)', w[1] = s, <<w, k>> # <<u, m>>,
                          NEW i \in OpenPoints(w, k)', i \in OpenPoints(u, m)'
                   PROVE  FALSE
        BY Zenon
      <4>1. i \in Nat /\ i < offset[s] /\ offset[s] <= i
        BY Zenon, <3>4, <3>8, <3>9
      <4>2. offset[s] \in Nat
        BY SMTT(30), SizesArePositive DEF Types, MainTypes
      <4> QED BY <4>1, <4>2
    <3>12. \A v, w \in Worker : \A j \in Open(v)', k \in Open(w)' :
             v[1] = w[1] /\ <<v, j>> # <<w, k>> => OpenPoints(v, j)' \cap OpenPoints(w, k)' = {}
      <4> SUFFICES ASSUME NEW v \in Worker, NEW w \in Worker, NEW j \in Open(v)', NEW k \in Open(w)',
                          v[1] = w[1], <<v, j>> # <<w, k>>
                   PROVE  OpenPoints(v, j)' \cap OpenPoints(w, k)' = {}
        BY Zenon
      <4>1. CASE <<v, j>> = <<u, m>>
        <5>1. v = u /\ j = m /\ w[1] = s /\ <<w, k>> # <<u, m>>
          BY Zenon, <2>0, <4>1
        <5>2. OpenPoints(w, k)' \cap OpenPoints(u, m)' = {}
          BY Zenon, <3>11, <5>1
        <5> QED BY Zenon, <5>1, <5>2
      <4>2. CASE <<w, k>> = <<u, m>>
        <5>1. w = u /\ k = m /\ v[1] = s /\ <<v, j>> # <<u, m>>
          BY Zenon, <2>0, <4>2
        <5>2. OpenPoints(v, j)' \cap OpenPoints(u, m)' = {}
          BY ZenonT(40), <3>11, <5>1
        <5> QED BY Zenon, <5>1, <5>2
      <4>3. CASE <<v, j>> # <<u, m>> /\ <<w, k>> # <<u, m>>
        <5>1. /\ j \in Open(v) /\ OpenPoints(v, j)' = OpenPoints(v, j)
              /\ k \in Open(w) /\ OpenPoints(w, k)' = OpenPoints(w, k)
          BY Zenon, <3>7, <4>3
        <5>2. OpenPoints(v, j) \cap OpenPoints(w, k) = {}
          BY Zenon, <5>1 DEF PartInv
        <5> QED BY Zenon, <5>1, <5>2
      <4> QED BY Zenon, <4>1, <4>2, <4>3
    <3>13. PoppedSlotIsKept'
      <4> SUFFICES ASSUME NEW w \in Worker, wpc[w] = "copied"
                   PROVE  item[w] = buffer'[w][SlotOf(readIdx[w])]
        BY Zenon, <3>2 DEF PoppedSlotIsKept, SlotOf
      <4>1. readIdx[w] \in Nat /\ readIdx[w] <= readIdx[w] /\ readIdx[w] < writeIdx[w]
        BY SMTT(30), <3>6 DEF QueueInv
      <4>2. buffer'[w][SlotOf(readIdx[w])] = buffer[w][SlotOf(readIdx[w])]
        BY Zenon, <3>5, <4>1
      <4> QED BY Zenon, <4>2 DEF PartInv, PoppedSlotIsKept
    <3> QED BY <3>10, <3>12, <3>13, Zenon DEF PartInv
  <2> QED BY Zenon, <2>1, <2>2
<1>3. ASSUME NEW s \in Search, ComputeRest(s) PROVE PartInv'
  <2>1. UNCHANGED queueVars /\ UNCHANGED <<wpc, item>>
    BY Zenon, <1>3 DEF ComputeRest, queueVars, workerVars
  <2>2. \A w \in Worker : Publishing(w)' => Publishing(w)
    BY Zenon, <1>3, WorkerPairs DEF Types, MainTypes, Publishing, ComputeRest, Goto
  <2>3. \A w \in Worker : \A k \in Open(w)' :
          k \in Open(w) /\ OpenPoints(w, k)' = OpenPoints(w, k)
    BY Zenon, <2>1, <2>2, OpenKept
  <2>4. PoppedSlotIsKept'
    BY Zenon, <2>1 DEF PartInv, PoppedSlotIsKept, queueVars, SlotOf
  <2>5. \A w \in Worker : \A k \in Open(w)' : \A i \in OpenPoints(w, k) :
          mpc'[w[1]] \in Busy /\ i < offset'[w[1]] /\ dists'[w[1]][i] # hop'[w[1]]
    <3> SUFFICES ASSUME NEW w \in Worker, NEW k \in Open(w)', NEW i \in OpenPoints(w, k)
                 PROVE  mpc'[w[1]] \in Busy /\ i < offset'[w[1]] /\ dists'[w[1]][i] # hop'[w[1]]
      BY Zenon
    <3>1. /\ mpc[w[1]] \in Busy /\ i \in Nat /\ i < offset[w[1]] /\ dists[w[1]][i] # hop[w[1]]
          /\ w[1] \in Search
      BY Zenon, <2>3, WorkerPairs DEF PartInv
    <3>2. mpc' = mpc /\ hop' = hop
      BY Zenon, <1>3 DEF ComputeRest
    <3>3. CASE w[1] # s
      BY Zenon, <1>3, <3>1, <3>2, <3>3 DEF Types, MainTypes, SharedTypes, ComputeRest
    <3>4. CASE w[1] = s
      <4>1. i < count[s] /\ i \in Point /\ i \notin offset[s] .. count[s] - 1
        BY SMTT(30), <3>1, <3>4, Bounds DEF Point
      <4>2. offset'[s] = count[s] /\ dists'[s] = Computed(s, offset[s] .. count[s] - 1)
        BY Zenon, <1>3 DEF Types, MainTypes, SharedTypes, ComputeRest
      <4>3. dists'[s][i] = dists[s][i]
        BY Zenon, <4>1, <4>2 DEF Computed
      <4> QED BY Zenon, <3>1, <3>2, <3>4, <4>1, <4>2, <4>3
    <3> QED BY Zenon, <3>3, <3>4
  <2> QED BY Zenon, <2>3, <2>4, <2>5, PartKept
<1>4. ASSUME NEW s \in Search, EndLoop(s) PROVE PartInv'
  <2>1. UNCHANGED queueVars /\ UNCHANGED <<wpc, item>>
    BY Zenon, <1>4 DEF EndLoop, queueVars, workerVars
  <2>2. \A w \in Worker : Publishing(w)' => Publishing(w)
    BY Zenon, <1>4, WorkerPairs DEF Types, MainTypes, Publishing, EndLoop, Goto
  <2>3. \A w \in Worker : \A k \in Open(w)' :
          k \in Open(w) /\ OpenPoints(w, k)' = OpenPoints(w, k)
    BY Zenon, <2>1, <2>2, OpenKept
  <2>4. PoppedSlotIsKept'
    BY Zenon, <2>1 DEF PartInv, PoppedSlotIsKept, queueVars, SlotOf
  <2>5. \A w \in Worker : \A k \in Open(w)' : \A i \in OpenPoints(w, k) :
          mpc'[w[1]] \in Busy /\ i < offset'[w[1]] /\ dists'[w[1]][i] # hop'[w[1]]
    <3> SUFFICES ASSUME NEW w \in Worker, NEW k \in Open(w)', NEW i \in OpenPoints(w, k)
                 PROVE  mpc'[w[1]] \in Busy /\ i < offset'[w[1]] /\ dists'[w[1]][i] # hop'[w[1]]
      BY Zenon
    <3>1. /\ mpc[w[1]] \in Busy /\ i \in Nat /\ i < offset[w[1]] /\ dists[w[1]][i] # hop[w[1]]
          /\ w[1] \in Search
      BY Zenon, <2>3, WorkerPairs DEF PartInv
    <3>2. w[1] # s
      BY Zenon, <1>4, <3>1 DEF EndLoop, Busy
    <3> QED BY Zenon, <1>4, <3>1, <3>2 DEF Types, MainTypes, EndLoop, Goto, shared
  <2> QED BY Zenon, <2>3, <2>4, <2>5, PartKept
<1>5. ASSUME NEW s \in Search, PushPill(s) PROVE PartInv'
  <2> PICK u \in Worker : u = <<s, next[s]>>
    BY Zenon, NextIsWorker DEF Types
  <2>0. u \in Worker /\ u[1] = s /\ u = <<s, next[s]>>
    BY Zenon
  <2>1. CASE Full(u)
    <3>1. UNCHANGED queueVars /\ UNCHANGED <<wpc, item, dists, hop>>
      BY Zenon, <1>5, <2>1 DEF PushPill, Push, queueVars, workerVars, shared
    <3>2. \A w \in Worker : Publishing(w)' => Publishing(w)
      BY Zenon, <1>5, <2>1, WorkerPairs DEF Types, MainTypes, Publishing, PushPill, Push, NextWorker, Goto
    <3>3. \A w \in Worker : \A k \in Open(w)' :
            k \in Open(w) /\ OpenPoints(w, k)' = OpenPoints(w, k)
      BY Zenon, <3>1, <3>2, OpenKept
    <3>4. PoppedSlotIsKept'
      BY Zenon, <3>1 DEF PartInv, PoppedSlotIsKept, queueVars, SlotOf
    <3>5. \A w \in Worker : \A k \in Open(w)' : \A i \in OpenPoints(w, k) :
            mpc'[w[1]] \in Busy /\ i < offset'[w[1]] /\ dists'[w[1]][i] # hop'[w[1]]
      <4> SUFFICES ASSUME NEW w \in Worker, NEW k \in Open(w)', NEW i \in OpenPoints(w, k)
                   PROVE  mpc'[w[1]] \in Busy /\ i < offset'[w[1]] /\ dists'[w[1]][i] # hop'[w[1]]
        BY Zenon
      <4>1. /\ mpc[w[1]] \in Busy /\ i \in Nat /\ i < offset[w[1]] /\ dists[w[1]][i] # hop[w[1]]
            /\ w[1] \in Search
        BY Zenon, <3>3, WorkerPairs DEF PartInv
      <4>2. mpc'[w[1]] \in Busy
        BY Zenon, <1>5, <2>1, <4>1 DEF Types, MainTypes, PushPill, Push, NextWorker, Goto, Busy
      <4>3. offset[w[1]] <= offset'[w[1]] /\ offset[w[1]] \in Nat /\ offset'[w[1]] \in Nat
        BY SMTT(30), <1>5, <4>1, Bounds DEF PushPill
      <4> QED BY <3>1, <4>1, <4>2, <4>3
    <3> QED BY Zenon, <3>3, <3>4, <3>5, PartKept
  <2>2. CASE ~Full(u)
    <3> DEFINE x == Pill
    <3>1. x \in Task \cup {Pill}
      BY Zenon
    <3>2. /\ buffer' = [buffer EXCEPT ![u][SlotOf(writeIdx[u])] = x] /\ next' = next
          /\ UNCHANGED <<writeIdx, readIdx, wpc, item, dists, hop>>
      BY Zenon, <1>5, <2>2 DEF PushPill, Push, workerVars, shared
    <3>3. \A w \in Worker : Publishing(w)' => Publishing(w) \/ w = u
      BY SMTT(30), <1>5, <2>2, <3>2, WorkerPairs DEF Types, MainTypes, Publishing, PushPill, Push, Goto
    <3>4. \A i \in Points(x) :
            i \in Nat /\ offset[s] <= i /\ mpc'[s] \in Busy /\ i < offset'[s] /\ dists[s][i] # hop[s]
      <4>1. Points(Pill) = {}
        BY SMTT(30) DEF Points, Pill
      <4> QED BY Zenon, <4>1
    <3> HIDE DEF x
    <3>5. /\ buffer'[u][SlotOf(writeIdx[u])] = x
          /\ \A w \in Worker : \A k \in Nat :
               (w # u \/ (readIdx[w] <= k /\ k < writeIdx[w])) =>
                  buffer'[w][SlotOf(k)] = buffer[w][SlotOf(k)]
      BY ZenonT(40), <2>2, <3>1, <3>2, Pushed
    <3> PICK m \in Nat : m = writeIdx[u]
      BY Zenon DEF Types, QueueTypes
    <3>6. \A w \in Worker : writeIdx[w] \in Nat /\ readIdx[w] \in Nat /\ readIdx[w] <= writeIdx[w]
      BY Zenon DEF Types, QueueTypes, QueueInv
    <3>7. ASSUME NEW w \in Worker, NEW k \in Open(w)', <<w, k>> # <<u, m>>
          PROVE  k \in Open(w) /\ OpenPoints(w, k)' = OpenPoints(w, k)
      <4>1. k \in Int /\ k \in Open(w) /\ (w = u => k < writeIdx[w])
        BY <3>2, <3>3, <3>6, <3>7 DEF Open
      <4>2. OpenItem(w, k)' = OpenItem(w, k)
        <5>1. CASE k = readIdx[w] - 1
          BY Zenon, <3>2, <5>1 DEF OpenItem
        <5>2. CASE k # readIdx[w] - 1
          <6>1. k \in Nat /\ readIdx[w] <= k
            BY <3>6, <4>1, <5>2 DEF Open
          <6>2. buffer'[w][SlotOf(k)] = buffer[w][SlotOf(k)]
            BY Zenon, <3>5, <4>1, <6>1
          <6> QED BY Zenon, <3>2, <5>2, <6>2 DEF OpenItem, SlotOf
        <5> QED BY Zenon, <5>1, <5>2
      <4> QED BY Zenon, <4>1, <4>2 DEF OpenPoints, Points
    <3>8. OpenPoints(u, m)' = Points(x)
      <4>1. m # readIdx[u] - 1 /\ m = writeIdx[u]
        BY <2>0, <3>6 
      <4> QED BY Zenon, <3>2, <3>5, <4>1 DEF OpenPoints, OpenItem, SlotOf, Points
    <3>9. \A w \in Worker : \A k \in Open(w)' : <<w, k>> # <<u, m>> => \A i \in OpenPoints(w, k)' :
            /\ i \in Nat /\ mpc[w[1]] \in Busy /\ i < offset[w[1]] /\ dists[w[1]][i] # hop[w[1]]
            /\ w[1] \in Search
      BY SMTT(30), <3>7, WorkerPairs DEF PartInv
    <3>10. \A w \in Worker : \A k \in Open(w)' : \A i \in OpenPoints(w, k)' :
             /\ mpc'[w[1]] \in Busy /\ i \in Nat /\ i < offset'[w[1]]
             /\ dists'[w[1]][i] # hop'[w[1]]
      <4> SUFFICES ASSUME NEW w \in Worker, NEW k \in Open(w)', NEW i \in OpenPoints(w, k)'
                   PROVE  /\ mpc'[w[1]] \in Busy /\ i \in Nat /\ i < offset'[w[1]]
                          /\ dists'[w[1]][i] # hop'[w[1]]
        BY Zenon
      <4>1. CASE <<w, k>> = <<u, m>>
        <5>1. w = u /\ w[1] = s /\ i \in Points(x)
          BY Zenon, <2>0, <3>8, <4>1
        <5> QED BY Zenon, <3>2, <3>4, <5>1
      <4>2. CASE <<w, k>> # <<u, m>>
        <5>1. /\ i \in Nat /\ mpc[w[1]] \in Busy /\ i < offset[w[1]] /\ dists[w[1]][i] # hop[w[1]]
              /\ w[1] \in Search
          BY Zenon, <3>9, <4>2
        <5>2. mpc'[w[1]] \in Busy
          BY Zenon, <1>5, <2>2, <5>1 DEF Types, MainTypes, PushPill, Push, Goto, Busy
        <5>3. offset[w[1]] <= offset'[w[1]] /\ offset[w[1]] \in Nat /\ offset'[w[1]] \in Nat
          BY SMTT(30), <1>5, <5>1, Bounds DEF PushPill
        <5> QED BY <3>2, <5>1, <5>2, <5>3
      <4> QED BY Zenon, <4>1, <4>2
    <3>11. \A w \in Worker : \A k \in Open(w)' :
             w[1] = s /\ <<w, k>> # <<u, m>> => OpenPoints(w, k)' \cap OpenPoints(u, m)' = {}
      <4> SUFFICES ASSUME NEW w \in Worker, NEW k \in Open(w)', w[1] = s, <<w, k>> # <<u, m>>,
                          NEW i \in OpenPoints(w, k)', i \in OpenPoints(u, m)'
                   PROVE  FALSE
        BY Zenon
      <4>1. i \in Nat /\ i < offset[s] /\ offset[s] <= i
        BY Zenon, <3>4, <3>8, <3>9
      <4>2. offset[s] \in Nat
        BY SizesArePositive DEF Types, MainTypes
      <4> QED BY <4>1, <4>2
    <3>12. \A v, w \in Worker : \A j \in Open(v)', k \in Open(w)' :
             v[1] = w[1] /\ <<v, j>> # <<w, k>> => OpenPoints(v, j)' \cap OpenPoints(w, k)' = {}
      <4> SUFFICES ASSUME NEW v \in Worker, NEW w \in Worker, NEW j \in Open(v)', NEW k \in Open(w)',
                          v[1] = w[1], <<v, j>> # <<w, k>>
                   PROVE  OpenPoints(v, j)' \cap OpenPoints(w, k)' = {}
        BY Zenon
      <4>1. CASE <<v, j>> = <<u, m>>
        <5>1. v = u /\ j = m /\ w[1] = s /\ <<w, k>> # <<u, m>>
          BY Zenon, <2>0, <4>1
        <5>2. OpenPoints(w, k)' \cap OpenPoints(u, m)' = {}
          BY Zenon, <3>11, <5>1
        <5> QED BY Zenon, <5>1, <5>2
      <4>2. CASE <<w, k>> = <<u, m>>
        <5>1. w = u /\ k = m /\ v[1] = s /\ <<v, j>> # <<u, m>>
          BY Zenon, <2>0, <4>2
        <5>2. OpenPoints(v, j)' \cap OpenPoints(u, m)' = {}
          BY Zenon, <3>11, <5>1
        <5> QED BY Zenon, <5>1, <5>2
      <4>3. CASE <<v, j>> # <<u, m>> /\ <<w, k>> # <<u, m>>
        <5>1. /\ j \in Open(v) /\ OpenPoints(v, j)' = OpenPoints(v, j)
              /\ k \in Open(w) /\ OpenPoints(w, k)' = OpenPoints(w, k)
          BY Zenon, <3>7, <4>3
        <5>2. OpenPoints(v, j) \cap OpenPoints(w, k) = {}
          BY Zenon, <5>1 DEF PartInv
        <5> QED BY Zenon, <5>1, <5>2
      <4> QED BY Zenon, <4>1, <4>2, <4>3
    <3>13. PoppedSlotIsKept'
      <4> SUFFICES ASSUME NEW w \in Worker, wpc[w] = "copied"
                   PROVE  item[w] = buffer'[w][SlotOf(readIdx[w])]
        BY Zenon, <3>2 DEF PoppedSlotIsKept, SlotOf
      <4>1. readIdx[w] \in Nat /\ readIdx[w] <= readIdx[w] /\ readIdx[w] < writeIdx[w]
        BY <3>6 DEF QueueInv
      <4>2. buffer'[w][SlotOf(readIdx[w])] = buffer[w][SlotOf(readIdx[w])]
        BY Zenon, <3>5, <4>1
      <4> QED BY Zenon, <4>2 DEF PartInv, PoppedSlotIsKept
    <3> QED BY <3>10, <3>12, <3>13, Zenon DEF PartInv
  <2> QED BY Zenon, <2>1, <2>2
<1>6. ASSUME NEW s \in Search, Join(s) PROVE PartInv'
  <2>1. UNCHANGED queueVars /\ UNCHANGED <<wpc, item>>
    BY Zenon, <1>6 DEF Join, queueVars, workerVars
  <2>2. \A w \in Worker : Publishing(w)' => Publishing(w)
    BY Zenon, <1>6, WorkerPairs DEF Types, MainTypes, Publishing, Join, Goto
  <2>3. \A w \in Worker : \A k \in Open(w)' :
          k \in Open(w) /\ OpenPoints(w, k)' = OpenPoints(w, k)
    BY Zenon, <2>1, <2>2, OpenKept
  <2>4. PoppedSlotIsKept'
    BY Zenon, <2>1 DEF PartInv, PoppedSlotIsKept, queueVars, SlotOf
  <2>5. \A w \in Worker : \A k \in Open(w)' : \A i \in OpenPoints(w, k) :
          mpc'[w[1]] \in Busy /\ i < offset'[w[1]] /\ dists'[w[1]][i] # hop'[w[1]]
    <3> SUFFICES ASSUME NEW w \in Worker, NEW k \in Open(w)', NEW i \in OpenPoints(w, k)
                 PROVE  mpc'[w[1]] \in Busy /\ i < offset'[w[1]] /\ dists'[w[1]][i] # hop'[w[1]]
      BY Zenon
    <3>1. /\ mpc[w[1]] \in Busy /\ i \in Nat /\ i < offset[w[1]] /\ dists[w[1]][i] # hop[w[1]]
          /\ w[1] \in Search
      BY Zenon, <2>3, WorkerPairs DEF PartInv
    <3>2. w[1] # s
      BY Zenon, <1>6, <3>1 DEF Join, Busy
    <3> QED BY Zenon, <1>6, <3>1, <3>2 DEF Types, MainTypes, Join, Goto, shared
  <2> QED BY Zenon, <2>3, <2>4, <2>5, PartKept
<1>7. ASSUME NEW s \in Search, Publish(s, "publish", "push", "wait") PROVE PartInv'
  <2> DEFINE u == <<s, next[s]>>
  <2>1. u \in Worker /\ Publishing(u) /\ u[1] = s
    BY Zenon, <1>7, NextIsWorker DEF Types, Publish, Publishing
  <2>2. /\ writeIdx' = [writeIdx EXCEPT ![u] = writeIdx[u] + 1]
        /\ UNCHANGED <<readIdx, buffer, wpc, item, offset, dists, hop>>
    BY Zenon, <1>7 DEF Publish, workerVars, shared
  <2>3. \A w \in Worker : Publishing(w)' => Publishing(w) /\ w # u
    BY SMTT(30), <1>7, WorkerPairs DEF Types, MainTypes, Publishing, Publish, NextWorker, Goto
  <2> HIDE DEF u
  <2>4. \A w \in Worker : /\ writeIdx[w] \in Nat /\ readIdx[w] \in Nat /\ readIdx[w] <= writeIdx[w]
                          /\ writeIdx'[w] = IF w = u THEN writeIdx[w] + 1 ELSE writeIdx[w]
    BY Zenon, <2>1, <2>2 DEF Types, QueueTypes, QueueInv
  <2>5. \A w \in Worker : \A k \in Open(w)' :
          k \in Open(w) /\ OpenPoints(w, k)' = OpenPoints(w, k)
    <3> SUFFICES ASSUME NEW w \in Worker, NEW k \in Open(w)'
                 PROVE  k \in Open(w) /\ OpenItem(w, k)' = OpenItem(w, k)
      BY Zenon DEF OpenPoints, Points
    <3>1. OpenItem(w, k)' = OpenItem(w, k)
      BY Zenon, <2>2 DEF OpenItem, SlotOf
    <3>2. CASE w # u
      BY Zenon, <2>2, <2>3, <2>4, <3>1, <3>2 DEF Open
    <3>3. CASE w = u
      BY SMTT(30), <2>1, <2>2, <2>3, <2>4, <3>1, <3>3 DEF Open
    <3> QED BY Zenon, <3>2, <3>3
  <2>6. PoppedSlotIsKept'
    BY Zenon, <2>2 DEF PartInv, PoppedSlotIsKept, SlotOf
  <2>7. \A w \in Worker : \A k \in Open(w)' : \A i \in OpenPoints(w, k) :
          mpc'[w[1]] \in Busy /\ i < offset'[w[1]] /\ dists'[w[1]][i] # hop'[w[1]]
    <3> SUFFICES ASSUME NEW w \in Worker, NEW k \in Open(w)', NEW i \in OpenPoints(w, k)
                 PROVE  mpc'[w[1]] \in Busy /\ i < offset'[w[1]] /\ dists'[w[1]][i] # hop'[w[1]]
      BY Zenon
    <3>1. /\ mpc[w[1]] \in Busy /\ i \in Nat /\ i < offset[w[1]] /\ dists[w[1]][i] # hop[w[1]]
          /\ w[1] \in Search
      BY Zenon, <2>5, WorkerPairs DEF PartInv
    <3>2. mpc'[w[1]] \in Busy
      BY Zenon, <1>7, <3>1 DEF Types, MainTypes, Publish, NextWorker, Goto, Busy
    <3> QED BY Zenon, <2>2, <3>1, <3>2
  <2> QED BY Zenon, <2>5, <2>6, <2>7, PartKept
<1>8. ASSUME NEW s \in Search, Publish(s, "publishStop", "stop", "join") PROVE PartInv'
  <2> DEFINE u == <<s, next[s]>>
  <2>1. u \in Worker /\ Publishing(u) /\ u[1] = s
    BY Zenon, <1>8, NextIsWorker DEF Types, Publish, Publishing
  <2>2. /\ writeIdx' = [writeIdx EXCEPT ![u] = writeIdx[u] + 1]
        /\ UNCHANGED <<readIdx, buffer, wpc, item, offset, dists, hop>>
    BY Zenon, <1>8 DEF Publish, workerVars, shared
  <2>3. \A w \in Worker : Publishing(w)' => Publishing(w) /\ w # u
    BY SMTT(30), <1>8, WorkerPairs DEF Types, MainTypes, Publishing, Publish, NextWorker, Goto
  <2> HIDE DEF u
  <2>4. \A w \in Worker : /\ writeIdx[w] \in Nat /\ readIdx[w] \in Nat /\ readIdx[w] <= writeIdx[w]
                          /\ writeIdx'[w] = IF w = u THEN writeIdx[w] + 1 ELSE writeIdx[w]
    BY Zenon, <2>1, <2>2 DEF Types, QueueTypes, QueueInv
  <2>5. \A w \in Worker : \A k \in Open(w)' :
          k \in Open(w) /\ OpenPoints(w, k)' = OpenPoints(w, k)
    <3> SUFFICES ASSUME NEW w \in Worker, NEW k \in Open(w)'
                 PROVE  k \in Open(w) /\ OpenItem(w, k)' = OpenItem(w, k)
      BY Zenon DEF OpenPoints, Points
    <3>1. OpenItem(w, k)' = OpenItem(w, k)
      BY Zenon, <2>2 DEF OpenItem, SlotOf
    <3>2. CASE w # u
      BY Zenon, <2>2, <2>3, <2>4, <3>1, <3>2 DEF Open
    <3>3. CASE w = u
      BY <2>1, <2>2, <2>3, <2>4, <3>1, <3>3 DEF Open
    <3> QED BY Zenon, <3>2, <3>3
  <2>6. PoppedSlotIsKept'
    BY Zenon, <2>2 DEF PartInv, PoppedSlotIsKept, SlotOf
  <2>7. \A w \in Worker : \A k \in Open(w)' : \A i \in OpenPoints(w, k) :
          mpc'[w[1]] \in Busy /\ i < offset'[w[1]] /\ dists'[w[1]][i] # hop'[w[1]]
    <3> SUFFICES ASSUME NEW w \in Worker, NEW k \in Open(w)', NEW i \in OpenPoints(w, k)
                 PROVE  mpc'[w[1]] \in Busy /\ i < offset'[w[1]] /\ dists'[w[1]][i] # hop'[w[1]]
      BY Zenon
    <3>1. /\ mpc[w[1]] \in Busy /\ i \in Nat /\ i < offset[w[1]] /\ dists[w[1]][i] # hop[w[1]]
          /\ w[1] \in Search
      BY Zenon, <2>5, WorkerPairs DEF PartInv
    <3>2. mpc'[w[1]] \in Busy
      BY Zenon, <1>8, <3>1 DEF Types, MainTypes, Publish, NextWorker, Goto, Busy
    <3> QED BY Zenon, <2>2, <3>1, <3>2
  <2> QED BY Zenon, <2>5, <2>6, <2>7, PartKept
<1>9. ASSUME NEW s \in Search, NEW n \in 0 .. MaxDegree, StartHop(s, n) PROVE PartInv'
  <2>1. UNCHANGED queueVars /\ UNCHANGED <<wpc, item>>
    BY Zenon, <1>9 DEF StartHop, queueVars, workerVars
  <2>2. \A w \in Worker : Publishing(w)' => Publishing(w)
    BY Zenon, <1>9, WorkerPairs DEF Types, MainTypes, Publishing, StartHop, Goto
  <2>3. \A w \in Worker : \A k \in Open(w)' :
          k \in Open(w) /\ OpenPoints(w, k)' = OpenPoints(w, k)
    BY Zenon, <2>1, <2>2, OpenKept
  <2>4. PoppedSlotIsKept'
    BY Zenon, <2>1 DEF PartInv, PoppedSlotIsKept, queueVars, SlotOf
  <2>5. \A w \in Worker : \A k \in Open(w)' : \A i \in OpenPoints(w, k) :
          mpc'[w[1]] \in Busy /\ i < offset'[w[1]] /\ dists'[w[1]][i] # hop'[w[1]]
    <3> SUFFICES ASSUME NEW w \in Worker, NEW k \in Open(w)', NEW i \in OpenPoints(w, k)
                 PROVE  mpc'[w[1]] \in Busy /\ i < offset'[w[1]] /\ dists'[w[1]][i] # hop'[w[1]]
      BY Zenon
    <3>1. /\ mpc[w[1]] \in Busy /\ i \in Nat /\ i < offset[w[1]] /\ dists[w[1]][i] # hop[w[1]]
          /\ w[1] \in Search
      BY Zenon, <2>3, WorkerPairs DEF PartInv
    <3>2. w[1] # s
      BY Zenon, <1>9, <3>1 DEF StartHop, Busy
    <3> QED BY Zenon, <1>9, <3>1, <3>2 DEF Types, MainTypes, StartHop, Goto
  <2> QED BY Zenon, <2>3, <2>4, <2>5, PartKept
<1>10. ASSUME NEW s \in Search, NEW early \in SUBSET Point, Collect(s, early) PROVE PartInv'
  <2>1. UNCHANGED queueVars /\ UNCHANGED <<wpc, item>>
    BY Zenon, <1>10 DEF Collect, queueVars, workerVars
  <2>2. \A w \in Worker : Publishing(w)' => Publishing(w)
    BY Zenon, <1>10, WorkerPairs DEF Types, MainTypes, Publishing, Collect, Goto
  <2>3. \A w \in Worker : \A k \in Open(w)' :
          k \in Open(w) /\ OpenPoints(w, k)' = OpenPoints(w, k)
    BY Zenon, <2>1, <2>2, OpenKept
  <2>4. PoppedSlotIsKept'
    BY Zenon, <2>1 DEF PartInv, PoppedSlotIsKept, queueVars, SlotOf
  <2>5. \A w \in Worker : \A k \in Open(w)' : \A i \in OpenPoints(w, k) :
          mpc'[w[1]] \in Busy /\ i < offset'[w[1]] /\ dists'[w[1]][i] # hop'[w[1]]
    <3> SUFFICES ASSUME NEW w \in Worker, NEW k \in Open(w)', NEW i \in OpenPoints(w, k)
                 PROVE  mpc'[w[1]] \in Busy /\ i < offset'[w[1]] /\ dists'[w[1]][i] # hop'[w[1]]
      BY Zenon
    <3>1. /\ mpc[w[1]] \in Busy /\ i \in Nat /\ i < offset[w[1]] /\ dists[w[1]][i] # hop[w[1]]
          /\ w[1] \in Search
      BY Zenon, <2>3, WorkerPairs DEF PartInv
    <3>2. w[1] # s
      <4> SUFFICES ASSUME w[1] = s PROVE FALSE
        BY Zenon
      <4>1. mpc[s] \in Busy /\ AllComputed(s)
        BY Zenon, <1>10 DEF Collect, Busy
      <4>2. i \in 0 .. count[s] - 1
        BY SMTT(30), <3>1 DEF Types, MainTypes, DealInv
      <4> QED BY Zenon, <3>1, <4>1, <4>2, AllDone
    <3> QED BY Zenon, <1>10, <3>1, <3>2 DEF Types, MainTypes, Collect, Goto, shared
  <2> QED BY Zenon, <2>3, <2>4, <2>5, PartKept
<1>11. ASSUME StartWorker PROVE PartInv'
  <2>1. UNCHANGED queueVars /\ UNCHANGED <<mpc, next, item, offset, dists, hop>> /\ Head(pending) \in Worker
    BY SMTT(30), <1>11 DEF StartWorker, mainVars, shared, Types, QueueTypes
  <2>2. \A w \in Worker : /\ Publishing(w)' => Publishing(w)
                          /\ wpc'[w] = "task" => wpc[w] = "task" /\ item'[w] = item[w]
                          /\ wpc'[w] = "copied" => wpc[w] = "copied"
    BY Zenon, <1>11, <2>1 DEF StartWorker, Types, QueueTypes, Publishing
  <2>3. \A w \in Worker : \A k \in Open(w)' :
          k \in Open(w) /\ OpenPoints(w, k)' = OpenPoints(w, k)
    BY Zenon, <2>1, <2>2, OpenKept
  <2>4. PoppedSlotIsKept'
    BY Zenon, <2>1, <2>2 DEF PartInv, PoppedSlotIsKept, queueVars, SlotOf
  <2>5. \A w \in Worker : \A k \in Open(w)' : \A i \in OpenPoints(w, k) :
          mpc'[w[1]] \in Busy /\ i < offset'[w[1]] /\ dists'[w[1]][i] # hop'[w[1]]
    BY Zenon, <2>1, <2>3 DEF PartInv
  <2> QED BY Zenon, <2>3, <2>4, <2>5, PartKept
<1>12. ASSUME NEW w \in Worker, PopCopies(w) PROVE PartInv'
  <2>1. UNCHANGED queueVars /\ UNCHANGED <<mpc, next, offset, dists, hop>>
    BY Zenon, <1>12 DEF PopCopies, mainVars, shared
  <2>2. \A v \in Worker : /\ Publishing(v)' => Publishing(v)
                          /\ wpc'[v] = "task" => wpc[v] = "task" /\ item'[v] = item[v]
    BY Zenon, <1>12, <2>1 DEF PopCopies, Types, QueueTypes, Publishing
  <2>3. \A v \in Worker : \A k \in Open(v)' :
          k \in Open(v) /\ OpenPoints(v, k)' = OpenPoints(v, k)
    BY Zenon, <2>1, <2>2, OpenKept
  <2>4. PoppedSlotIsKept'
    <3>1. \A v \in Worker : v # w => wpc'[v] = wpc[v] /\ item'[v] = item[v]
      BY Zenon, <1>12 DEF PopCopies, Types, QueueTypes
    <3>2. item'[w] = buffer[w][SlotOf(readIdx[w])]
      BY Zenon, <1>12 DEF PopCopies, Types, QueueTypes
    <3> QED BY Zenon, <2>1, <3>1, <3>2 DEF PartInv, PoppedSlotIsKept, queueVars, SlotOf
  <2>5. \A v \in Worker : \A k \in Open(v)' : \A i \in OpenPoints(v, k) :
          mpc'[v[1]] \in Busy /\ i < offset'[v[1]] /\ dists'[v[1]][i] # hop'[v[1]]
    BY Zenon, <2>1, <2>3 DEF PartInv
  <2> QED BY Zenon, <2>3, <2>4, <2>5, PartKept
<1>13. ASSUME NEW w \in Worker, PopReleases(w) PROVE PartInv'
  <2>1. /\ UNCHANGED <<mpc, next, offset, dists, hop, writeIdx, buffer, item>>
        /\ readIdx' = [readIdx EXCEPT ![w] = readIdx[w] + 1]
        /\ wpc[w] = "copied" /\ wpc' = [wpc EXCEPT ![w] = IF item[w] = Pill THEN "ended" ELSE "task"]
    BY Zenon, <1>13 DEF PopReleases, mainVars, shared
  <2>2. \A v \in Worker : v # w => wpc'[v] = wpc[v] /\ readIdx'[v] = readIdx[v]
    BY Zenon, <2>1 DEF Types, QueueTypes
  <2>3. /\ readIdx'[w] = readIdx[w] + 1 /\ readIdx[w] \in Nat /\ writeIdx[w] \in Nat
        /\ wpc'[w] \in {"ended", "task"} /\ readIdx[w] < writeIdx[w]
        /\ item[w] = buffer[w][SlotOf(readIdx[w])]
    BY Zenon, <2>1 DEF Types, QueueTypes, QueueInv, PartInv, PoppedSlotIsKept
  <2>4. \A v \in Worker : \A k \in Open(v)' :
          k \in Open(v) /\ OpenPoints(v, k)' = OpenPoints(v, k)
    <3> SUFFICES ASSUME NEW v \in Worker, NEW k \in Open(v)'
                 PROVE  k \in Open(v) /\ OpenItem(v, k)' = OpenItem(v, k)
      BY Zenon DEF OpenPoints, Points
    <3>1. Publishing(v)' <=> Publishing(v)
      BY Zenon, <2>1 DEF Publishing
    <3>2. CASE v # w
      BY Zenon, <2>1, <2>2, <3>1, <3>2 DEF Open, OpenItem, SlotOf
    <3>3. CASE v = w
      <4>0. k \in Open(w)' /\ readIdx'[w] = readIdx[w] + 1 /\ readIdx[w] \in Nat /\ writeIdx' = writeIdx
        BY Zenon, <2>1, <2>3, <3>3
      <4>1. \/ readIdx[w] + 1 <= k /\ k < writeIdx[w]
            \/ Publishing(w) /\ k = writeIdx[w]
            \/ k = readIdx[w]
        BY <4>0, <3>1, <3>3 DEF Open
      <4>2. k \in Int
        BY Zenon DEF Open
      <4>3. k \in Open(w)
        BY SMTT(30), <2>3, <4>1, <4>2 DEF Open
      <4>4. OpenItem(w, k) = buffer[w][SlotOf(k)]
        BY SMTT(30), <2>3, <4>1, <4>2 DEF OpenItem
      <4>5. OpenItem(w, k)' = buffer[w][SlotOf(k)]
        BY SMTT(30), <2>1, <2>3, <4>1, <4>2 DEF OpenItem, SlotOf
      <4> QED BY Zenon, <3>3, <4>3, <4>4, <4>5
    <3> QED BY Zenon, <3>2, <3>3
  <2>5. PoppedSlotIsKept'
    BY ZenonT(40), <2>1, <2>2, <2>3 DEF PartInv, PoppedSlotIsKept, SlotOf
  <2>6. \A v \in Worker : \A k \in Open(v)' : \A i \in OpenPoints(v, k) :
          mpc'[v[1]] \in Busy /\ i < offset'[v[1]] /\ dists'[v[1]][i] # hop'[v[1]]
    BY Zenon, <2>1, <2>4 DEF PartInv
  <2> QED BY Zenon, <2>4, <2>5, <2>6, PartKept
<1>14. ASSUME NEW w \in Worker, Compute(w) PROVE PartInv'
  <2> DEFINE s == w[1]  m == readIdx[w] - 1
  <2>1. /\ UNCHANGED queueVars /\ UNCHANGED <<mpc, next, offset, hop>> /\ wpc[w] = "task"
        /\ wpc' = [wpc EXCEPT ![w] = "idle"] /\ item' = [item EXCEPT ![w] = NoTask]
    BY Zenon, <1>14 DEF Compute, mainVars
  <2>2. \A v \in Worker : /\ Publishing(v)' => Publishing(v)
                          /\ wpc'[v] = "task" => v # w /\ wpc[v] = "task" /\ item'[v] = item[v]
                          /\ wpc'[v] = "copied" => v # w /\ wpc[v] = "copied" /\ item'[v] = item[v]
    BY Zenon, <2>1 DEF Types, QueueTypes, Publishing
  <2>3. \A v \in Worker : \A k \in Open(v)' :
          k \in Open(v) /\ OpenPoints(v, k)' = OpenPoints(v, k)
    BY Zenon, <2>1, <2>2, OpenKept
  <2>4. PoppedSlotIsKept'
    BY Zenon, <2>1, <2>2 DEF PartInv, PoppedSlotIsKept, queueVars, SlotOf
  <2>5. s \in Search /\ readIdx[w] \in Nat
    BY Zenon, WorkerPairs DEF Types, QueueTypes
  <2>6. m \in Open(w) /\ OpenPoints(w, m) = Points(item[w])
    BY SMTT(30), <2>1, <2>5 DEF Open, OpenPoints, OpenItem
  <2>7. m \notin Open(w)'
    BY SMTT(30), <2>1, <2>2, <2>5 DEF Open, queueVars, Types, QueueTypes, QueueInv
  <2> HIDE DEF m
  <2>8. ASSUME NEW v \in Worker, NEW k \in Open(v)', NEW i \in OpenPoints(v, k)
        PROVE  mpc'[v[1]] \in Busy /\ i < offset'[v[1]] /\ dists'[v[1]][i] # hop'[v[1]]
    <3>1. /\ mpc[v[1]] \in Busy /\ i \in Nat /\ i < offset[v[1]] /\ dists[v[1]][i] # hop[v[1]]
          /\ v[1] \in Search /\ i \in Point
      BY SMTT(30), <2>3, <2>8, WorkerPairs, SizesArePositive DEF PartInv, Types, MainTypes, Point
    <3>2. CASE v[1] # s
      BY Zenon, <1>14, <2>1, <2>5, <3>1, <3>2 DEF Compute, Types, SharedTypes
    <3>3. CASE v[1] = s
      <4>1. <<v, k>> # <<w, m>>
        BY Zenon, <2>7, <2>8
      <4>2. OpenPoints(v, k) \cap OpenPoints(w, m) = {}
        BY Zenon, <2>3, <2>6, <2>8, <3>3, <4>1 DEF PartInv
      <4>3. i \notin Points(item[w])
        BY Zenon, <2>6, <2>8, <4>2
      <4>4. dists'[s] = Computed(s, Points(item[w]))
        BY Zenon, <1>14, <2>5 DEF Compute, Types, SharedTypes
      <4>5. dists'[s][i] = dists[s][i]
        BY Zenon, <3>1, <4>3, <4>4 DEF Computed
      <4> QED BY Zenon, <2>1, <3>1, <3>3, <4>5
    <3> QED BY Zenon, <3>2, <3>3
  <2> QED BY Zenon, <2>3, <2>4, <2>8, PartKept
<1>15. ASSUME UNCHANGED parallelVars PROVE PartInv'
  <2>1. UNCHANGED queueVars /\ UNCHANGED <<mpc, next, wpc, item, offset, dists, hop>>
    BY Zenon, <1>15 DEF parallelVars, mainVars, workerVars, queueVars, shared
  <2>3. \A w \in Worker : \A k \in Open(w)' :
          k \in Open(w) /\ OpenPoints(w, k)' = OpenPoints(w, k)
    BY Zenon, <2>1, OpenKept DEF Publishing
  <2>4. PoppedSlotIsKept'
    BY Zenon, <2>1 DEF PartInv, PoppedSlotIsKept, queueVars, SlotOf
  <2>5. \A w \in Worker : \A k \in Open(w)' : \A i \in OpenPoints(w, k) :
          mpc'[w[1]] \in Busy /\ i < offset'[w[1]] /\ dists'[w[1]][i] # hop'[w[1]]
    BY Zenon, <2>1, <2>3 DEF PartInv
  <2> QED BY Zenon, <2>3, <2>4, <2>5, PartKept
<1> QED BY Zenon, <1>1, <1>2, <1>3, <1>4, <1>5, <1>6, <1>7, <1>8, <1>9, <1>10, <1>11, <1>12, <1>13, <1>14, <1>15
        DEF ParallelNext, Main, Work

-----------------------------------------------------------------------------
(* The counter *)

(* A step that computes nothing for a search. *)
LEMMA CountKept ==
  ASSUME CountInv, NEW r \in Search,
         hop'[r] = hop[r], count'[r] = count[r], ids'[r] = ids[r], dists'[r] = dists[r],
         numPoints'[r] = numPoints[r],
         mpc'[r] \in Busy => /\ mpc[r] \in Busy
                             /\ offset[r] \in Nat /\ offset'[r] \in Nat /\ offset[r] <= offset'[r],
         mpc'[r] = "enqueue" => mpc[r] = "enqueue"
  PROVE  CountOf(r)'
<1>1. CountOf(r)
  BY Zenon DEF CountInv
<1>2. Done(r)' = Done(r)
  BY Zenon DEF Done
<1>3. ASSUME mpc'[r] \in Busy
      PROVE  /\ \A i \in 0 .. count'[r] - 1 : ids'[r][i] = hop'[r]
             /\ \A i \in offset'[r] .. count'[r] - 1 : dists'[r][i] # hop'[r]
             /\ numPoints'[r] = Cardinality(Done(r)')
  <2>1. mpc[r] \in Busy /\ offset[r] \in Nat /\ offset'[r] \in Nat /\ offset[r] <= offset'[r]
    BY ZenonT(40), <1>3
  <2>2. \A i \in offset'[r] .. count[r] - 1 : i \in offset[r] .. count[r] - 1
    BY SMTT(30), <2>1
  <2> QED BY Zenon, <1>1, <1>2, <2>1, <2>2 DEF CountOf
<1> QED BY Zenon, <1>1, <1>3 DEF CountOf

(* The points of a set get their distances. *)
LEMMA DoneGrows ==
  ASSUME Types, CountInv, NEW s \in Search, mpc[s] \in Busy,
         NEW S \in SUBSET (0 .. count[s] - 1), \A i \in S : dists[s][i] # hop[s],
         dists'[s] = Computed(s, S), count'[s] = count[s], hop'[s] = hop[s]
  PROVE  /\ IsFiniteSet(S) /\ Cardinality(S) \in Nat
         /\ Cardinality(Done(s)') = numPoints[s] + Cardinality(S)
         /\ Cardinality(Done(s)') <= MaxDegree
         /\ \A i \in Point : dists'[s][i] <= hop[s]
         /\ \A i \in Point \ S : dists'[s][i] = dists[s][i]
<1>0. count[s] \in Nat /\ MaxDegree \in Nat /\ count[s] <= MaxDegree /\ hop[s] \in Nat
      /\ dists[s] \in [Point -> Nat] /\ numPoints[s] \in Nat
  BY Zenon, Bounds DEF Types, SharedTypes
<1>1. 0 .. count[s] - 1 \subseteq Point
  BY SMTT(30), <1>0 DEF Point
<1>2. \A i \in S : ids[s][i] = hop[s]
  BY Zenon DEF CountInv, CountOf
<1>3. \A i \in Point : dists'[s][i] = IF i \in S THEN hop[s] ELSE dists[s][i]
  BY Zenon, <1>2 DEF Computed
<1>4. Done(s)' = Done(s) \cup S
  BY Zenon, <1>1, <1>3 DEF Done
<1>5. Done(s) \cap S = {}
  BY Zenon DEF Done
<1>6. IsFiniteSet(0 .. count[s] - 1) /\ Cardinality(0 .. count[s] - 1) = count[s]
  <2>1. 0 \in Int /\ count[s] - 1 \in Int
    BY SMTT(30), <1>0
  <2>2. /\ IsFiniteSet(0 .. count[s] - 1)
        /\ Cardinality(0 .. count[s] - 1)
             = IF 0 > count[s] - 1 THEN 0 ELSE count[s] - 1 - 0 + 1
    BY <2>1, FS_Interval, Zenon
  <2> QED BY <1>0, <2>2
<1>7. /\ IsFiniteSet(S) /\ IsFiniteSet(Done(s))
      /\ IsFiniteSet(Done(s)') /\ Cardinality(Done(s)') <= Cardinality(0 .. count[s] - 1)
  <2>1. Done(s) \in SUBSET (0 .. count[s] - 1) /\ Done(s)' \in SUBSET (0 .. count[s] - 1)
    BY Zenon DEF Done
  <2>2. /\ IsFiniteSet(S) /\ IsFiniteSet(Done(s))
    BY <1>6, <2>1, FS_Subset, Zenon
  <2>3. /\ IsFiniteSet(Done(s)') /\ Cardinality(Done(s)') <= Cardinality(0 .. count[s] - 1)
    <3> DEFINE D == Done(s)'
    <3>1. D \in SUBSET (0 .. count[s] - 1)
      BY Zenon, <2>1
    <3> HIDE DEF D
    <3>2. IsFiniteSet(D) /\ Cardinality(D) <= Cardinality(0 .. count[s] - 1)
      BY <1>6, <3>1, FS_Subset, Zenon
    <3> QED BY Zenon, <3>2 DEF D
  <2> QED BY Zenon, <2>2, <2>3
<1>8. Cardinality(Done(s)') = Cardinality(Done(s)) + Cardinality(S) - Cardinality({})
  <2>1. Cardinality(Done(s) \cup S) = Cardinality(Done(s)) + Cardinality(S) - Cardinality(Done(s) \cap S)
    BY <1>7, FS_Union, Zenon
  <2> QED BY <2>1, <1>4, <1>5, Zenon
<1>9. Cardinality({}) = 0 /\ Cardinality(S) \in Nat /\ Cardinality(Done(s)) = numPoints[s]
  BY Zenon, <1>7, FS_EmptySet, FS_CardinalityType DEF CountInv, CountOf
<1>10. Cardinality(Done(s)') = numPoints[s] + Cardinality(S) /\ Cardinality(Done(s)') <= MaxDegree
  <2>1. Cardinality(Done(s)') <= count[s]
    BY <1>6, <1>7, Zenon
  <2>2. Cardinality(Done(s)') = numPoints[s] + Cardinality(S)
    BY SMTT(30), <1>0, <1>8, <1>9
  <2> QED BY SMTT(30), <1>0, <1>9, <2>1, <2>2
<1>11. \A i \in Point : dists'[s][i] <= hop[s]
  BY SMTT(30), <1>0, <1>3 DEF CountInv, CountOf
<1>12. \A i \in Point \ S : dists'[s][i] = dists[s][i]
  BY Zenon, <1>3
<1> QED BY Zenon, <1>7, <1>9, <1>10, <1>11, <1>12

(* Ranges of points and their size. *)
LEMMA RangeSize ==
  ASSUME NEW a \in Nat, NEW n \in Nat
  PROVE  IsFiniteSet(a .. a + n - 1) /\ Cardinality(a .. a + n - 1) = n
<1>0. a \in Int
  OBVIOUS
<1>1. PICK b \in Int : b = a + n - 1
  OBVIOUS
<1>2. IsFiniteSet(a .. b) /\ Cardinality(a .. b) = IF a > b THEN 0 ELSE b - a + 1
  BY <1>0, FS_Interval, Zenon
<1> QED BY <1>1, <1>2


(* The counter of finished points. *)
LEMMA CountStep ==
  ASSUME Types, QueueInv, PartInv, CountInv, [ParallelNext]_parallelVars
  PROVE  CountInv'
<1>1. ASSUME NEW s \in Search, EnqueueWorker(s) PROVE CountInv'
  <2>1. UNCHANGED <<hop, count, ids, dists, numPoints>>
    BY Zenon, <1>1 DEF EnqueueWorker, shared, mainVars
  <2>2. ASSUME NEW r \in Search
        PROVE  /\ mpc'[r] \in Busy => /\ mpc[r] \in Busy
                                      /\ offset[r] \in Nat /\ offset'[r] \in Nat
                                      /\ offset[r] <= offset'[r]
               /\ mpc'[r] = "enqueue" => mpc[r] = "enqueue"
    <3>1. /\ mpc'[r] \in Busy => mpc[r] \in Busy
          /\ mpc'[r] = "enqueue" => mpc[r] = "enqueue"
      BY Zenon, <1>1 DEF Types, MainTypes, Busy, EnqueueWorker, Goto
    <3>2. offset[r] \in Nat /\ offset'[r] \in Nat /\ offset[r] <= offset'[r]
      BY SMTT(30), <1>1, Bounds DEF EnqueueWorker, mainVars
    <3> QED BY Zenon, <3>1, <3>2
  <2> QED BY Zenon, <2>1, <2>2, CountKept DEF CountInv
<1>2. ASSUME NEW s \in Search, PushTask(s) PROVE CountInv'
  <2>1. UNCHANGED <<hop, count, ids, dists, numPoints>>
    BY Zenon, <1>2 DEF PushTask, shared, mainVars
  <2>2. ASSUME NEW r \in Search
        PROVE  /\ mpc'[r] \in Busy => /\ mpc[r] \in Busy
                                      /\ offset[r] \in Nat /\ offset'[r] \in Nat
                                      /\ offset[r] <= offset'[r]
               /\ mpc'[r] = "enqueue" => mpc[r] = "enqueue"
    <3>1. /\ mpc'[r] \in Busy => mpc[r] \in Busy
          /\ mpc'[r] = "enqueue" => mpc[r] = "enqueue"
      BY Zenon, <1>2 DEF Types, MainTypes, Busy, PushTask, Push, NextWorker, Goto
    <3>2. offset[r] \in Nat /\ offset'[r] \in Nat /\ offset[r] <= offset'[r]
      BY Zenon, <1>2, PushMoves
    <3> QED BY Zenon, <3>1, <3>2
  <2> QED BY Zenon, <2>1, <2>2, CountKept DEF CountInv
<1>3. ASSUME NEW s \in Search, ComputeRest(s) PROVE CountInv'
  <2>1. ASSUME NEW r \in Search, r # s PROVE CountOf(r)'
    <3>1. /\ hop'[r] = hop[r] /\ count'[r] = count[r] /\ ids'[r] = ids[r] /\ dists'[r] = dists[r]
          /\ numPoints'[r] = numPoints[r] /\ mpc'[r] = mpc[r] /\ offset'[r] = offset[r]
      BY Zenon, <1>3, <2>1 DEF Types, MainTypes, SharedTypes, ComputeRest
    <3>2. offset[r] \in Nat /\ offset[r] <= offset[r]
      BY SMTT(30), Bounds
    <3> QED BY Zenon, <3>1, <3>2, CountKept
  <2>2. CountOf(s)'
    <3> DEFINE S == offset[s] .. count[s] - 1
    <3>1. /\ UNCHANGED <<mpc, hop, count, ids>> /\ offset'[s] = count[s] /\ mpc[s] \in Busy
          /\ dists'[s] = Computed(s, S) /\ numPoints'[s] = numPoints[s] + count[s] - offset[s]
      BY Zenon, <1>3 DEF Types, MainTypes, SharedTypes, ComputeRest, Busy
    <3>2. /\ offset[s] \in Nat /\ count[s] \in Nat /\ offset[s] <= count[s] /\ numPoints[s] \in Nat
      BY Zenon, Bounds
    <3>3. S \in SUBSET (0 .. count[s] - 1) /\ \A i \in S : dists[s][i] # hop[s]
      BY SMTT(30), <3>1, <3>2 DEF CountInv, CountOf
    <3>4. Cardinality(S) = count[s] - offset[s]
      <4>1. PICK d \in Nat : d = count[s] - offset[s]
        BY <3>2
      <4>2. S = offset[s] .. offset[s] + d - 1
        BY <3>2, <4>1
      <4> QED BY ZenonT(40), <3>2, <4>1, <4>2, RangeSize
    <3> HIDE DEF S
    <3>5. /\ Cardinality(Done(s)') = numPoints[s] + Cardinality(S) /\ Cardinality(Done(s)') <= MaxDegree
          /\ \A i \in Point : dists'[s][i] <= hop[s]
      BY Zenon, <3>1, <3>3, DoneGrows
    <3>6. numPoints'[s] = Cardinality(Done(s)')
      BY Zenon, <3>1, <3>2, <3>4, <3>5
    <3>7. \A i \in 0 .. count[s] - 1 : ids[s][i] = hop[s]
      BY Zenon, <3>1 DEF CountInv, CountOf
    <3>8. offset'[s] .. count'[s] - 1 = {}
      BY SMTT(30), <3>1, <3>2
    <3>9. mpc'[s] # "enqueue"
      BY Zenon, <3>1 DEF Busy
    <3> QED BY Zenon, <3>1, <3>5, <3>6, <3>7, <3>8, <3>9 DEF CountOf
  <2> QED BY Zenon, <2>1, <2>2 DEF CountInv
<1>4. ASSUME NEW s \in Search, EndLoop(s) PROVE CountInv'
  <2>1. UNCHANGED <<hop, count, ids, dists, numPoints>>
    BY Zenon, <1>4 DEF EndLoop, shared, mainVars
  <2>2. ASSUME NEW r \in Search
        PROVE  /\ mpc'[r] \in Busy => /\ mpc[r] \in Busy
                                      /\ offset[r] \in Nat /\ offset'[r] \in Nat
                                      /\ offset[r] <= offset'[r]
               /\ mpc'[r] = "enqueue" => mpc[r] = "enqueue"
    <3>1. /\ mpc'[r] \in Busy => mpc[r] \in Busy
          /\ mpc'[r] = "enqueue" => mpc[r] = "enqueue"
      BY Zenon, <1>4 DEF Types, MainTypes, Busy, EndLoop, Goto
    <3>2. offset[r] \in Nat /\ offset'[r] \in Nat /\ offset[r] <= offset'[r]
      BY SMTT(30), <1>4, Bounds DEF EndLoop, mainVars
    <3> QED BY Zenon, <3>1, <3>2
  <2> QED BY Zenon, <2>1, <2>2, CountKept DEF CountInv
<1>5. ASSUME NEW s \in Search, PushPill(s) PROVE CountInv'
  <2>1. UNCHANGED <<hop, count, ids, dists, numPoints>>
    BY Zenon, <1>5 DEF PushPill, shared, mainVars
  <2>2. ASSUME NEW r \in Search
        PROVE  /\ mpc'[r] \in Busy => /\ mpc[r] \in Busy
                                      /\ offset[r] \in Nat /\ offset'[r] \in Nat
                                      /\ offset[r] <= offset'[r]
               /\ mpc'[r] = "enqueue" => mpc[r] = "enqueue"
    <3>1. /\ mpc'[r] \in Busy => mpc[r] \in Busy
          /\ mpc'[r] = "enqueue" => mpc[r] = "enqueue"
      BY Zenon, <1>5 DEF Types, MainTypes, Busy, PushPill, Push, NextWorker, Goto
    <3>2. offset[r] \in Nat /\ offset'[r] \in Nat /\ offset[r] <= offset'[r]
      BY SMTT(30), <1>5, Bounds DEF PushPill, mainVars
    <3> QED BY Zenon, <3>1, <3>2
  <2> QED BY Zenon, <2>1, <2>2, CountKept DEF CountInv
<1>6. ASSUME NEW s \in Search, Join(s) PROVE CountInv'
  <2>1. UNCHANGED <<hop, count, ids, dists, numPoints>>
    BY Zenon, <1>6 DEF Join, shared, mainVars
  <2>2. ASSUME NEW r \in Search
        PROVE  /\ mpc'[r] \in Busy => /\ mpc[r] \in Busy
                                      /\ offset[r] \in Nat /\ offset'[r] \in Nat
                                      /\ offset[r] <= offset'[r]
               /\ mpc'[r] = "enqueue" => mpc[r] = "enqueue"
    <3>1. /\ mpc'[r] \in Busy => mpc[r] \in Busy
          /\ mpc'[r] = "enqueue" => mpc[r] = "enqueue"
      BY Zenon, <1>6 DEF Types, MainTypes, Busy, Join, Goto
    <3>2. offset[r] \in Nat /\ offset'[r] \in Nat /\ offset[r] <= offset'[r]
      BY SMTT(30), <1>6, Bounds DEF Join, mainVars
    <3> QED BY Zenon, <3>1, <3>2
  <2> QED BY Zenon, <2>1, <2>2, CountKept DEF CountInv
<1>7. ASSUME NEW s \in Search, Publish(s, "publish", "push", "wait") PROVE CountInv'
  <2>1. UNCHANGED <<hop, count, ids, dists, numPoints>>
    BY Zenon, <1>7 DEF Publish, shared, mainVars
  <2>2. ASSUME NEW r \in Search
        PROVE  /\ mpc'[r] \in Busy => /\ mpc[r] \in Busy
                                      /\ offset[r] \in Nat /\ offset'[r] \in Nat
                                      /\ offset[r] <= offset'[r]
               /\ mpc'[r] = "enqueue" => mpc[r] = "enqueue"
    <3>1. /\ mpc'[r] \in Busy => mpc[r] \in Busy
          /\ mpc'[r] = "enqueue" => mpc[r] = "enqueue"
      BY Zenon, <1>7 DEF Types, MainTypes, Busy, Publish, NextWorker, Goto
    <3>2. offset[r] \in Nat /\ offset'[r] \in Nat /\ offset[r] <= offset'[r]
      BY SMTT(30), <1>7, Bounds DEF Publish, mainVars
    <3> QED BY Zenon, <3>1, <3>2
  <2> QED BY Zenon, <2>1, <2>2, CountKept DEF CountInv
<1>8. ASSUME NEW s \in Search, Publish(s, "publishStop", "stop", "join") PROVE CountInv'
  <2>1. UNCHANGED <<hop, count, ids, dists, numPoints>>
    BY Zenon, <1>8 DEF Publish, shared, mainVars
  <2>2. ASSUME NEW r \in Search
        PROVE  /\ mpc'[r] \in Busy => /\ mpc[r] \in Busy
                                      /\ offset[r] \in Nat /\ offset'[r] \in Nat
                                      /\ offset[r] <= offset'[r]
               /\ mpc'[r] = "enqueue" => mpc[r] = "enqueue"
    <3>1. /\ mpc'[r] \in Busy => mpc[r] \in Busy
          /\ mpc'[r] = "enqueue" => mpc[r] = "enqueue"
      BY Zenon, <1>8 DEF Types, MainTypes, Busy, Publish, NextWorker, Goto
    <3>2. offset[r] \in Nat /\ offset'[r] \in Nat /\ offset[r] <= offset'[r]
      BY SMTT(30), <1>8, Bounds DEF Publish, mainVars
    <3> QED BY Zenon, <3>1, <3>2
  <2> QED BY Zenon, <2>1, <2>2, CountKept DEF CountInv
<1>9. ASSUME NEW s \in Search, NEW n \in 0 .. MaxDegree, StartHop(s, n) PROVE CountInv'
  <2>1. ASSUME NEW r \in Search, r # s PROVE CountOf(r)'
    <3>1. /\ hop'[r] = hop[r] /\ count'[r] = count[r] /\ ids'[r] = ids[r] /\ dists'[r] = dists[r]
          /\ numPoints'[r] = numPoints[r] /\ mpc'[r] = mpc[r] /\ offset'[r] = offset[r]
      BY Zenon, <1>9, <2>1 DEF Types, MainTypes, SharedTypes, StartHop, Goto
    <3>2. offset[r] \in Nat /\ offset[r] <= offset[r]
      BY SMTT(30), Bounds
    <3> QED BY Zenon, <3>1, <3>2, CountKept
  <2>2. CountOf(s)'
    <3>1. /\ count'[s] = n /\ hop'[s] = hop[s] + 1 /\ offset'[s] = 0 /\ numPoints'[s] = 0
          /\ mpc'[s] = "push" /\ dists' = dists
      BY Zenon, <1>9 DEF Types, MainTypes, SharedTypes, StartHop, Goto
    <3>2. hop[s] \in Nat /\ MaxDegree \in Nat /\ n \in Nat /\ n <= MaxDegree
      BY SMTT(30), Bounds
    <3>3. \A i \in Point : dists[s][i] \in Nat /\ dists[s][i] <= hop[s]
      BY Zenon DEF Types, SharedTypes, CountInv, CountOf
    <3>4. \A i \in 0 .. n - 1 : i \in Point /\ i < n
      BY SMTT(30), <3>2 DEF Point
    <3>5. \A i \in Point : dists'[s][i] <= hop'[s] /\ dists'[s][i] # hop'[s]
      BY SMTT(30), <3>1, <3>2, <3>3
    <3>6. ids'[s] = [i \in Point |-> IF i < n THEN hop[s] + 1 ELSE ids[s][i]]
      BY Zenon, <1>9 DEF Types, SharedTypes, StartHop
    <3>7. \A i \in 0 .. n - 1 : ids'[s][i] = hop'[s]
      BY Zenon, <3>1, <3>4, <3>6
    <3>8. Done(s)' = {}
      BY Zenon, <3>1, <3>4, <3>5 DEF Done
    <3>9. numPoints'[s] = Cardinality(Done(s)')
      BY Zenon, <3>1, <3>8, FS_EmptySet
    <3> QED BY SMTT(30), <3>1, <3>2, <3>4, <3>5, <3>7, <3>9 DEF CountOf
  <2> QED BY Zenon, <2>1, <2>2 DEF CountInv
<1>10. ASSUME NEW s \in Search, NEW early \in SUBSET Point, Collect(s, early) PROVE CountInv'
  <2>1. UNCHANGED <<hop, count, ids, dists, numPoints>>
    BY Zenon, <1>10 DEF Collect, shared, mainVars
  <2>2. ASSUME NEW r \in Search
        PROVE  /\ mpc'[r] \in Busy => /\ mpc[r] \in Busy
                                      /\ offset[r] \in Nat /\ offset'[r] \in Nat
                                      /\ offset[r] <= offset'[r]
               /\ mpc'[r] = "enqueue" => mpc[r] = "enqueue"
    <3>1. /\ mpc'[r] \in Busy => mpc[r] \in Busy
          /\ mpc'[r] = "enqueue" => mpc[r] = "enqueue"
      BY Zenon, <1>10 DEF Types, MainTypes, Busy, Collect, Goto
    <3>2. offset[r] \in Nat /\ offset'[r] \in Nat /\ offset[r] <= offset'[r]
      BY SMTT(30), <1>10, Bounds DEF Collect, mainVars
    <3> QED BY Zenon, <3>1, <3>2
  <2> QED BY Zenon, <2>1, <2>2, CountKept DEF CountInv
<1>11. ASSUME StartWorker PROVE CountInv'
  <2>1. UNCHANGED <<hop, count, ids, dists, numPoints>>
    BY Zenon, <1>11 DEF StartWorker, shared, mainVars
  <2>2. ASSUME NEW r \in Search
        PROVE  /\ mpc'[r] \in Busy => /\ mpc[r] \in Busy
                                      /\ offset[r] \in Nat /\ offset'[r] \in Nat
                                      /\ offset[r] <= offset'[r]
               /\ mpc'[r] = "enqueue" => mpc[r] = "enqueue"
    <3>1. /\ mpc'[r] \in Busy => mpc[r] \in Busy
          /\ mpc'[r] = "enqueue" => mpc[r] = "enqueue"
      BY Zenon, <1>11 DEF Types, MainTypes, Busy, StartWorker, mainVars
    <3>2. offset[r] \in Nat /\ offset'[r] \in Nat /\ offset[r] <= offset'[r]
      BY SMTT(30), <1>11, Bounds DEF StartWorker, mainVars
    <3> QED BY Zenon, <3>1, <3>2
  <2> QED BY Zenon, <2>1, <2>2, CountKept DEF CountInv
<1>12. ASSUME NEW w \in Worker, PopCopies(w) PROVE CountInv'
  <2>1. UNCHANGED <<hop, count, ids, dists, numPoints>>
    BY Zenon, <1>12 DEF PopCopies, shared, mainVars
  <2>2. ASSUME NEW r \in Search
        PROVE  /\ mpc'[r] \in Busy => /\ mpc[r] \in Busy
                                      /\ offset[r] \in Nat /\ offset'[r] \in Nat
                                      /\ offset[r] <= offset'[r]
               /\ mpc'[r] = "enqueue" => mpc[r] = "enqueue"
    <3>1. /\ mpc'[r] \in Busy => mpc[r] \in Busy
          /\ mpc'[r] = "enqueue" => mpc[r] = "enqueue"
      BY Zenon, <1>12 DEF Types, MainTypes, Busy, PopCopies, mainVars
    <3>2. offset[r] \in Nat /\ offset'[r] \in Nat /\ offset[r] <= offset'[r]
      BY SMTT(30), <1>12, Bounds DEF PopCopies, mainVars
    <3> QED BY Zenon, <3>1, <3>2
  <2> QED BY Zenon, <2>1, <2>2, CountKept DEF CountInv
<1>13. ASSUME NEW w \in Worker, PopReleases(w) PROVE CountInv'
  <2>1. UNCHANGED <<hop, count, ids, dists, numPoints>>
    BY Zenon, <1>13 DEF PopReleases, shared, mainVars
  <2>2. ASSUME NEW r \in Search
        PROVE  /\ mpc'[r] \in Busy => /\ mpc[r] \in Busy
                                      /\ offset[r] \in Nat /\ offset'[r] \in Nat
                                      /\ offset[r] <= offset'[r]
               /\ mpc'[r] = "enqueue" => mpc[r] = "enqueue"
    <3>1. /\ mpc'[r] \in Busy => mpc[r] \in Busy
          /\ mpc'[r] = "enqueue" => mpc[r] = "enqueue"
      BY Zenon, <1>13 DEF Types, MainTypes, Busy, PopReleases, mainVars
    <3>2. offset[r] \in Nat /\ offset'[r] \in Nat /\ offset[r] <= offset'[r]
      BY SMTT(30), <1>13, Bounds DEF PopReleases, mainVars
    <3> QED BY Zenon, <3>1, <3>2
  <2> QED BY Zenon, <2>1, <2>2, CountKept DEF CountInv
<1>14. ASSUME NEW w \in Worker, Compute(w) PROVE CountInv'
  <2> PICK s \in Search : s = w[1]
    BY Zenon, WorkerPairs
  <2> DEFINE S == Points(item[w])
  <2>0. /\ UNCHANGED <<mpc, hop, count, ids, offset>> /\ wpc[w] = "task"
        /\ dists' = [dists EXCEPT ![s] = Computed(s, S)]
        /\ numPoints' = [numPoints EXCEPT ![s] = numPoints[s] + item[w].count]
    BY Zenon, <1>14 DEF Compute, mainVars
  <2>1. ASSUME NEW r \in Search, r # s PROVE CountOf(r)'
    <3>1. /\ hop'[r] = hop[r] /\ count'[r] = count[r] /\ ids'[r] = ids[r] /\ dists'[r] = dists[r]
          /\ numPoints'[r] = numPoints[r] /\ mpc'[r] = mpc[r] /\ offset'[r] = offset[r]
      BY Zenon, <1>14, <2>1, <2>0 DEF Types, MainTypes, SharedTypes
    <3>2. offset[r] \in Nat /\ offset[r] <= offset[r]
      BY SMTT(30), Bounds
    <3> QED BY Zenon, <3>1, <3>2, CountKept
  <2>2. /\ dists'[s] = Computed(s, S) /\ numPoints'[s] = numPoints[s] + item[w].count
    BY Zenon, <2>0 DEF Types, SharedTypes
  <2>3. /\ item[w].from \in Nat /\ item[w].count \in Nat
        /\ S = item[w].from .. item[w].from + item[w].count - 1
    <3>1. item[w] \in Task
      BY Zenon, <2>0 DEF QueueInv
    <3> QED BY SMTT(30), <3>1, SizesArePositive DEF Task, Points
  <2>4. Cardinality(S) = item[w].count
    <3>1. Cardinality(item[w].from .. item[w].from + item[w].count - 1) = item[w].count
      BY <2>3, RangeSize, Zenon
    <3> QED BY <2>3, <3>1, Zenon
  <2>5. \A i \in S : mpc[s] \in Busy /\ i \in Nat /\ i < offset[s] /\ dists[s][i] # hop[s]
    <3>1. readIdx[w] - 1 \in Open(w) /\ OpenPoints(w, readIdx[w] - 1) = S
      BY <2>0 DEF Types, QueueTypes, Open, OpenPoints, OpenItem
    <3> QED BY Zenon, <3>1 DEF PartInv
  <2>6. CountOf(s)
    BY Zenon DEF CountInv
  <2>7. /\ offset[s] \in Nat /\ count[s] \in Nat /\ offset[s] <= count[s] /\ numPoints[s] \in Nat
    BY Zenon, Bounds
  <2> HIDE DEF S
  <2>8. ASSUME mpc[s] \in Busy PROVE CountOf(s)'
    <3>1. S \in SUBSET (0 .. count[s] - 1)
      BY SMTT(30), <2>5, <2>7
    <3>2. /\ Cardinality(Done(s)') = numPoints[s] + Cardinality(S) /\ Cardinality(Done(s)') <= MaxDegree
          /\ \A i \in Point : dists'[s][i] <= hop[s]
          /\ \A i \in Point \ S : dists'[s][i] = dists[s][i]
      BY ZenonT(40), <2>0, <2>2, <2>5, <2>8, <3>1, DoneGrows
    <3>3. numPoints'[s] = Cardinality(Done(s)')
      BY Zenon, <2>2, <2>4, <3>2
    <3>4. \A i \in offset[s] .. count[s] - 1 : dists'[s][i] # hop[s]
      <4> SUFFICES ASSUME NEW i \in offset[s] .. count[s] - 1 PROVE dists'[s][i] # hop[s]
        BY Zenon
      <4>1. i \in Point /\ i \notin S
        BY SMTT(30), <2>5, <2>7, Bounds DEF Point
      <4>2. dists[s][i] # hop[s]
        BY Zenon, <2>6, <2>8 DEF CountOf
      <4> QED BY Zenon, <3>2, <4>1, <4>2
    <3> QED BY ZenonT(40), <2>0, <2>6, <2>8, <3>2, <3>3, <3>4 DEF CountOf, Busy
  <2>9. ASSUME mpc[s] \notin Busy PROVE CountOf(s)'
    <3>1. S = {}
      BY Zenon, <2>5, <2>9
    <3>2. item[w].count = 0
      BY SMTT(30), <2>3, <3>1
    <3>3. dists'[s] = dists[s] /\ numPoints'[s] = numPoints[s]
      BY SMTT(30), <2>2, <2>7, <3>1, <3>2 DEF Computed, Types, SharedTypes
    <3> QED BY Zenon, <2>0, <2>6, <2>7, <2>9, <3>3, CountKept
  <2> QED BY Zenon, <2>1, <2>8, <2>9 DEF CountInv
<1>15. ASSUME UNCHANGED parallelVars PROVE CountInv'
  <2>1. UNCHANGED <<hop, count, ids, dists, numPoints>>
    BY Zenon, <1>15 DEF parallelVars, shared, mainVars
  <2>2. ASSUME NEW r \in Search
        PROVE  /\ mpc'[r] \in Busy => /\ mpc[r] \in Busy
                                      /\ offset[r] \in Nat /\ offset'[r] \in Nat
                                      /\ offset[r] <= offset'[r]
               /\ mpc'[r] = "enqueue" => mpc[r] = "enqueue"
    <3>1. /\ mpc'[r] \in Busy => mpc[r] \in Busy
          /\ mpc'[r] = "enqueue" => mpc[r] = "enqueue"
      BY Zenon, <1>15 DEF Types, MainTypes, Busy, parallelVars, mainVars
    <3>2. offset[r] \in Nat /\ offset'[r] \in Nat /\ offset[r] <= offset'[r]
      BY SMTT(30), <1>15, Bounds DEF parallelVars, mainVars
    <3> QED BY Zenon, <3>1, <3>2
  <2> QED BY Zenon, <2>1, <2>2, CountKept DEF CountInv
<1> QED BY Zenon, <1>1, <1>2, <1>3, <1>4, <1>5, <1>6, <1>7, <1>8, <1>9, <1>10, <1>11, <1>12, <1>13, <1>14, <1>15
        DEF ParallelNext, Main, Work

-----------------------------------------------------------------------------
(* The distances *)

(* A step that does not enter the loop over the hops. *)
LEMMA DistancesKept ==
  ASSUME DistancesAreOfThisHop,
         \A r \in Search : mpc'[r] = "hop" =>
            mpc[r] = "hop" /\ seen'[r] = seen[r] /\ hop'[r] = hop[r] /\ count'[r] = count[r]
  PROVE  DistancesAreOfThisHop'
  BY Zenon DEF DistancesAreOfThisHop

(* The distances the main thread reads. *)
LEMMA DistancesStep ==
  ASSUME LoadsInOrder, Types, CountInv, DistancesAreOfThisHop, [ParallelNext]_parallelVars
  PROVE  DistancesAreOfThisHop'
<1>1. ASSUME NEW s \in Search, EnqueueWorker(s) PROVE DistancesAreOfThisHop'
  <2>1. UNCHANGED <<seen, hop, count>> /\ mpc[s] = "enqueue"
    BY Zenon, <1>1 DEF EnqueueWorker
  <2>2. \A r \in Search : r # s => mpc'[r] = mpc[r]
    BY Zenon, <1>1 DEF Types, MainTypes, EnqueueWorker, Goto
  <2>3. 0 .. count[s] - 1 = {}
    BY SMTT(30), <2>1 DEF CountInv, CountOf
  <2> QED BY Zenon, <2>1, <2>2, <2>3 DEF DistancesAreOfThisHop
<1>2. ASSUME NEW s \in Search, PushTask(s) PROVE DistancesAreOfThisHop'
  <2>1. \A r \in Search : mpc'[r] = "hop" =>
          mpc[r] = "hop" /\ seen'[r] = seen[r] /\ hop'[r] = hop[r] /\ count'[r] = count[r]
    BY Zenon, <1>2 DEF Types, MainTypes, SharedTypes, PushTask, Push, NextWorker, Goto
  <2> QED BY Zenon, <2>1, DistancesKept
<1>3. ASSUME NEW s \in Search, ComputeRest(s) PROVE DistancesAreOfThisHop'
  <2>1. \A r \in Search : mpc'[r] = "hop" =>
          mpc[r] = "hop" /\ seen'[r] = seen[r] /\ hop'[r] = hop[r] /\ count'[r] = count[r]
    BY Zenon, <1>3 DEF Types, MainTypes, SharedTypes, ComputeRest, Goto
  <2> QED BY Zenon, <2>1, DistancesKept
<1>4. ASSUME NEW s \in Search, EndLoop(s) PROVE DistancesAreOfThisHop'
  <2>1. \A r \in Search : mpc'[r] = "hop" =>
          mpc[r] = "hop" /\ seen'[r] = seen[r] /\ hop'[r] = hop[r] /\ count'[r] = count[r]
    BY Zenon, <1>4 DEF Types, MainTypes, SharedTypes, EndLoop, Goto
  <2> QED BY Zenon, <2>1, DistancesKept
<1>5. ASSUME NEW s \in Search, PushPill(s) PROVE DistancesAreOfThisHop'
  <2>1. \A r \in Search : mpc'[r] = "hop" =>
          mpc[r] = "hop" /\ seen'[r] = seen[r] /\ hop'[r] = hop[r] /\ count'[r] = count[r]
    BY Zenon, <1>5 DEF Types, MainTypes, SharedTypes, PushPill, Push, NextWorker, Goto
  <2> QED BY Zenon, <2>1, DistancesKept
<1>6. ASSUME NEW s \in Search, Join(s) PROVE DistancesAreOfThisHop'
  <2>1. \A r \in Search : mpc'[r] = "hop" =>
          mpc[r] = "hop" /\ seen'[r] = seen[r] /\ hop'[r] = hop[r] /\ count'[r] = count[r]
    BY Zenon, <1>6 DEF Types, MainTypes, SharedTypes, Join, Goto
  <2> QED BY Zenon, <2>1, DistancesKept
<1>7. ASSUME NEW s \in Search, Publish(s, "publish", "push", "wait") PROVE DistancesAreOfThisHop'
  <2>1. \A r \in Search : mpc'[r] = "hop" =>
          mpc[r] = "hop" /\ seen'[r] = seen[r] /\ hop'[r] = hop[r] /\ count'[r] = count[r]
    BY Zenon, <1>7 DEF Types, MainTypes, SharedTypes, Publish, NextWorker, Goto
  <2> QED BY Zenon, <2>1, DistancesKept
<1>8. ASSUME NEW s \in Search, Publish(s, "publishStop", "stop", "join") PROVE DistancesAreOfThisHop'
  <2>1. \A r \in Search : mpc'[r] = "hop" =>
          mpc[r] = "hop" /\ seen'[r] = seen[r] /\ hop'[r] = hop[r] /\ count'[r] = count[r]
    BY Zenon, <1>8 DEF Types, MainTypes, SharedTypes, Publish, NextWorker, Goto
  <2> QED BY Zenon, <2>1, DistancesKept
<1>9. ASSUME NEW s \in Search, NEW n \in 0 .. MaxDegree, StartHop(s, n) PROVE DistancesAreOfThisHop'
  <2>1. \A r \in Search : mpc'[r] = "hop" =>
          mpc[r] = "hop" /\ seen'[r] = seen[r] /\ hop'[r] = hop[r] /\ count'[r] = count[r]
    BY Zenon, <1>9 DEF Types, MainTypes, SharedTypes, StartHop, Goto
  <2> QED BY Zenon, <2>1, DistancesKept
<1>10. ASSUME NEW s \in Search, NEW early \in SUBSET Point, Collect(s, early) PROVE DistancesAreOfThisHop'
  <2>1. UNCHANGED <<hop, count>> /\ \A r \in Search : r # s => mpc'[r] = mpc[r] /\ seen'[r] = seen[r]
    BY Zenon, <1>10 DEF Types, MainTypes, SharedTypes, Collect, Goto
  <2>2. early = {} /\ mpc[s] \in Busy /\ AllComputed(s)
    BY Zenon, <1>10 DEF Collect, Busy
  <2>3. \A i \in 0 .. count[s] - 1 : i \in Point /\ i < count[s]
    BY Bounds DEF Point
  <2>4. seen' = [seen EXCEPT ![s] = [i \in Point |-> IF i < count[s] /\ i \notin early
                                                   THEN dists[s][i] ELSE seen[s][i]]]
    BY Zenon, <1>10 DEF Collect
  <2>5. seen'[s] = [i \in Point |-> IF i < count[s] /\ i \notin early
                                    THEN dists[s][i] ELSE seen[s][i]]
    BY Zenon, <2>4 DEF Types, SharedTypes
  <2>6. \A i \in 0 .. count[s] - 1 : seen'[s][i] = dists[s][i]
    BY Zenon, <2>2, <2>3, <2>5
  <2>7. \A i \in 0 .. count[s] - 1 : seen'[s][i] = hop[s]
    BY Zenon, <2>2, <2>6, AllDone
  <2> QED BY Zenon, <2>1, <2>7 DEF DistancesAreOfThisHop
<1>11. ASSUME StartWorker PROVE DistancesAreOfThisHop'
  <2>1. \A r \in Search : mpc'[r] = "hop" =>
          mpc[r] = "hop" /\ seen'[r] = seen[r] /\ hop'[r] = hop[r] /\ count'[r] = count[r]
    BY Zenon, <1>11 DEF Types, MainTypes, SharedTypes, StartWorker, mainVars
  <2> QED BY Zenon, <2>1, DistancesKept
<1>12. ASSUME NEW w \in Worker, PopCopies(w) PROVE DistancesAreOfThisHop'
  <2>1. \A r \in Search : mpc'[r] = "hop" =>
          mpc[r] = "hop" /\ seen'[r] = seen[r] /\ hop'[r] = hop[r] /\ count'[r] = count[r]
    BY Zenon, <1>12 DEF Types, MainTypes, SharedTypes, PopCopies, mainVars
  <2> QED BY Zenon, <2>1, DistancesKept
<1>13. ASSUME NEW w \in Worker, PopReleases(w) PROVE DistancesAreOfThisHop'
  <2>1. \A r \in Search : mpc'[r] = "hop" =>
          mpc[r] = "hop" /\ seen'[r] = seen[r] /\ hop'[r] = hop[r] /\ count'[r] = count[r]
    BY Zenon, <1>13 DEF Types, MainTypes, SharedTypes, PopReleases, mainVars
  <2> QED BY Zenon, <2>1, DistancesKept
<1>14. ASSUME NEW w \in Worker, Compute(w) PROVE DistancesAreOfThisHop'
  <2>1. \A r \in Search : mpc'[r] = "hop" =>
          mpc[r] = "hop" /\ seen'[r] = seen[r] /\ hop'[r] = hop[r] /\ count'[r] = count[r]
    BY Zenon, <1>14 DEF Types, MainTypes, SharedTypes, Compute, mainVars
  <2> QED BY Zenon, <2>1, DistancesKept
<1>15. ASSUME UNCHANGED parallelVars PROVE DistancesAreOfThisHop'
  <2>1. \A r \in Search : mpc'[r] = "hop" =>
          mpc[r] = "hop" /\ seen'[r] = seen[r] /\ hop'[r] = hop[r] /\ count'[r] = count[r]
    BY Zenon, <1>15 DEF Types, MainTypes, SharedTypes, parallelVars, mainVars
  <2> QED BY Zenon, <2>1, DistancesKept
<1> QED BY Zenon, <1>1, <1>2, <1>3, <1>4, <1>5, <1>6, <1>7, <1>8, <1>9, <1>10, <1>11, <1>12, <1>13, <1>14, <1>15
        DEF ParallelNext, Main, Work

-----------------------------------------------------------------------------
(* The theorems *)

(* The invariant holds before the searches start. *)
LEMMA InvInit == ParallelInit => IInv /\ DistancesAreOfThisHop
<1> SUFFICES ASSUME ParallelInit PROVE IInv /\ DistancesAreOfThisHop
  BY Zenon
<1> USE DEF ParallelInit
<1>0. MaxDegree \in Nat \ {0} /\ QueueSize \in Nat \ {0}
  BY Zenon, SizesArePositive
<1>1. MainTypes
  BY <1>0, ThreadsAreCounted, HopsAreBounded DEF MainTypes, MainPCs
<1>2. SharedTypes
  BY Zenon DEF SharedTypes
<1>3. QueueTypes
  BY DEF QueueTypes, Item, WorkerPCs
<1>4. DealInv
  BY SMTT(30) DEF DealInv
<1>5. PoolInv
  BY WorkerPairs DEF PoolInv, NoWorkAfterReturn
<1>6. \A w \in Worker : ~Publishing(w) /\ wpc[w] = "none" /\ readIdx[w] = 0 /\ writeIdx[w] = 0
  BY Zenon, WorkerPairs DEF Publishing
<1>7. QueueInv
  BY <1>0, <1>6 DEF QueueInv
<1>8. \A w \in Worker : Open(w) = {}
  BY SMTT(30), <1>6 DEF Open
<1>9. PartInv
  <2>1. PoppedSlotIsKept
    BY Zenon, <1>6 DEF PoppedSlotIsKept
  <2> QED BY Zenon, <1>8, <2>1 DEF PartInv
<1>10. CountInv
  BY <1>0 DEF CountInv, CountOf, Busy
<1>11. DistancesAreOfThisHop
  BY Zenon DEF DistancesAreOfThisHop
<1> QED BY Zenon, <1>1, <1>2, <1>3, <1>4, <1>5, <1>7, <1>9, <1>10, <1>11 DEF IInv, Types

(* Every step keeps it. *)
LEMMA InvStep == IInv /\ [ParallelNext]_parallelVars => IInv'
<1> SUFFICES ASSUME IInv, [ParallelNext]_parallelVars PROVE IInv'
  BY Zenon
<1>1. Types /\ PoolInv /\ QueueInv /\ PartInv /\ CountInv /\ PoppedSlotIsKept
  BY Zenon DEF IInv, PartInv
<1>2. Types'
  BY Zenon, <1>1, MainTypesStep, SharedTypesStep, QueueTypesStep, DealStep DEF Types
<1>3. PoolInv'
  BY Zenon, <1>1, PoolStep
<1>4. QueueInv'
  BY Zenon, <1>1, QueueStep
<1>5. PartInv' /\ CountInv'
  BY Zenon, <1>1, PartStep, CountStep
<1> QED BY Zenon, <1>2, <1>3, <1>4, <1>5 DEF IInv

(* What the invariant says of the parts of a hop, in the words of the model. *)
LEMMA InvGivesSharing == IInv => NothingIsShared
<1> SUFFICES ASSUME IInv PROVE NothingIsShared
  BY Zenon
<1>1. Types /\ QueueInv /\ PartInv /\ CountInv
  BY Zenon DEF IInv
<1>2. ParallelTypeOK
  <2>1. numPoints \in [Search -> 0 .. MaxDegree]
    <3>1. \A s \in Search : numPoints[s] \in Nat /\ numPoints[s] <= MaxDegree /\ MaxDegree \in Nat
      BY Zenon, <1>1, Bounds DEF CountInv, CountOf
    <3>2. \A s \in Search : numPoints[s] \in 0 .. MaxDegree
      BY <3>1
    <3> QED BY Zenon, <1>1, <3>2 DEF Types, SharedTypes
  <2>2. \A s \in Search : hop[s] \in 0 .. MaxHops[s]
    BY <1>1, HopsAreBounded DEF Types, MainTypes
  <2>3. {ids, dists, seen} \subseteq [Search -> [Point -> Nat]]
    BY Zenon, <1>1 DEF Types, SharedTypes
  <2>4. /\ mpc \in [Search -> {"enqueue", "hop", "push", "publish", "wait", "stop", "publishStop", "join",
                              "done"}]
        /\ next \in [Search -> Nat] /\ \A s \in Search : next[s] < NumThreads[s]
        /\ count \in [Search -> 0 .. MaxDegree] /\ offset \in [Search -> 0 .. MaxDegree]
        /\ dropped \subseteq Search
    BY Zenon, <1>1 DEF Types, MainTypes, MainPCs
  <2>5. /\ writeIdx \in [Worker -> Nat] /\ readIdx \in [Worker -> Nat]
        /\ buffer \in [Worker -> [Slot -> Task \cup {Pill, NoTask}]]
        /\ wpc \in [Worker -> {"none", "queued", "idle", "copied", "task", "ended"}]
        /\ item \in [Worker -> Task \cup {Pill, NoTask}] /\ pending \in Seq(Worker)
    BY Zenon, <1>1 DEF Types, QueueTypes, Item, WorkerPCs
  <2> QED BY <2>1, <2>2, <2>3, <2>4, <2>5, Zenon DEF ParallelTypeOK
<1>3. \A w \in Worker : \A a \in Unfinished(w) : \E k \in Open(w) : Points(a) = OpenPoints(w, k)
  <2> SUFFICES ASSUME NEW w \in Worker, NEW a \in Unfinished(w)
               PROVE  \E k \in Open(w) : Points(a) = OpenPoints(w, k)
    BY Zenon
  <2>0. /\ writeIdx[w] \in Nat /\ readIdx[w] \in Nat /\ readIdx[w] <= writeIdx[w]
        /\ wpc[w] = "copied" => readIdx[w] < writeIdx[w] /\ item[w] = buffer[w][SlotOf(readIdx[w])]
    BY Zenon, <1>1 DEF Types, QueueTypes, QueueInv, PartInv, PoppedSlotIsKept
  <2>1. \/ \E k \in 0 .. writeIdx[w] : readIdx[w] <= k /\ k < writeIdx[w] /\ a = buffer[w][SlotOf(k)]
        \/ wpc[w] \in {"copied", "task"} /\ a = item[w]
    BY Zenon DEF Unfinished, InQueue
  <2>2. ASSUME NEW k \in Int, readIdx[w] <= k, k < writeIdx[w], a = buffer[w][SlotOf(k)]
        PROVE  k \in Open(w) /\ Points(a) = OpenPoints(w, k)
    <3>1. k \in Open(w)
      BY Zenon, <2>2 DEF Open
    <3>2. k # readIdx[w] - 1
      BY SMTT(30), <2>0, <2>2
    <3> QED BY Zenon, <2>2, <3>1, <3>2 DEF OpenPoints, OpenItem
  <2>3. CASE \E k \in 0 .. writeIdx[w] : readIdx[w] <= k /\ k < writeIdx[w] /\ a = buffer[w][SlotOf(k)]
    <3>1. PICK k \in 0 .. writeIdx[w] : readIdx[w] <= k /\ k < writeIdx[w] /\ a = buffer[w][SlotOf(k)]
      BY Zenon, <2>3
    <3> QED BY SMTT(30), <2>0, <2>2, <3>1
  <2>4. CASE wpc[w] = "copied" /\ a = item[w]
    <3>1. readIdx[w] \in Int /\ readIdx[w] <= readIdx[w] /\ readIdx[w] < writeIdx[w] /\ a = buffer[w][SlotOf(readIdx[w])]
      BY SMTT(30), <2>0, <2>4
    <3> QED BY Zenon, <2>2, <3>1
  <2>5. CASE wpc[w] = "task" /\ a = item[w]
    <3>1. readIdx[w] - 1 \in Open(w)
      BY SMTT(30), <2>0, <2>5 DEF Open
    <3>2. Points(a) = OpenPoints(w, readIdx[w] - 1)
      BY Zenon, <2>5 DEF OpenPoints, OpenItem
    <3> QED BY Zenon, <3>1, <3>2
  <2> QED BY Zenon, <2>1, <2>3, <2>4, <2>5
<1>4. PartsAreDisjoint
  <2>1. ASSUME NEW v \in Worker, NEW w \in Worker, v # w, v[1] = w[1],
               NEW a \in Unfinished(v), NEW b \in Unfinished(w)
        PROVE  Points(a) \cap Points(b) = {}
    <3>1. PICK j \in Open(v) : Points(a) = OpenPoints(v, j)
      BY Zenon, <1>3
    <3>2. PICK k \in Open(w) : Points(b) = OpenPoints(w, k)
      BY Zenon, <1>3
    <3>3. <<v, j>> # <<w, k>>
      BY Zenon, <2>1
    <3>4. OpenPoints(v, j) \cap OpenPoints(w, k) = {}
      BY Zenon, <1>1, <2>1, <3>3 DEF PartInv
    <3> QED BY Zenon, <3>1, <3>2, <3>4
  <2>2. ASSUME NEW w \in Worker, mpc[w[1]] \in {"hop", "stop"}, NEW a \in Unfinished(w)
        PROVE  Points(a) = {}
    <3>1. PICK k \in Open(w) : Points(a) = OpenPoints(w, k)
      BY Zenon, <1>3
    <3>2. mpc[w[1]] \notin Busy
      BY Zenon, <2>2 DEF Busy
    <3> QED BY Zenon, <1>1, <3>1, <3>2 DEF PartInv
  <2> QED BY Zenon, <2>1, <2>2 DEF PartsAreDisjoint
<1> QED BY Zenon, <1>1, <1>2, <1>4 DEF NothingIsShared, PartInv

(* ParallelSearcher: no two threads of a search are given the same point, a worker that lags     *)
(* behind touches nothing of a later hop, and no queue slot is reused while an item is copied     *)
(* out of it, whatever the number of searches, workers, slots and points.                     *)
THEOREM PartsAreNeverShared == ParallelSpec => []NothingIsShared
<1>1. ParallelInit => IInv
  BY Zenon, InvInit
<1> QED BY <1>1, InvStep, InvGivesSharing, PTL DEF ParallelSpec

(* ParallelSearcher::search returns only after every one of its workers has ended, so nothing on   *)
(* its stack is used afterwards.                                                           *)
THEOREM WorkersEndFirst == ParallelSpec => []NoWorkAfterReturn
<1>1. ParallelInit => IInv
  BY Zenon, InvInit
<1>2. IInv => NoWorkAfterReturn
  BY Zenon DEF IInv, PoolInv
<1> QED BY <1>1, <1>2, InvStep, PTL DEF ParallelSpec

(* ParallelSearcher: where loads are not reordered, the distances the main thread goes on with are  *)
(* those of all points of the hop, although num_points is read with memory_order_relaxed.        *)
THEOREM HopsAreComplete ==
  ASSUME LoadsInOrder
  PROVE  ParallelSpec => []DistancesAreOfThisHop
<1>1. ParallelInit => IInv /\ DistancesAreOfThisHop
  BY Zenon, InvInit
<1>2. IInv /\ DistancesAreOfThisHop /\ [ParallelNext]_parallelVars => DistancesAreOfThisHop'
  BY Zenon, DistancesStep DEF IInv
<1> QED BY <1>1, <1>2, InvStep, PTL DEF ParallelSpec

=============================================================================
