----------------------------- MODULE BuildCache -----------------------------
(***************************************************************************)
(* Build of an HGraph from the cache of an earlier index (hgraph_build.cpp,    *)
(* build_with_cache): the bottom graph starts from the neighbours the rows had  *)
(* there, found by source id, and tasks of a pool refine it, first the rows      *)
(* without such neighbours, then the others.                                   *)
(*                                                                         *)
(* Distances are left out: a search may return any of the rows it met, and the   *)
(* pruning may keep any of the candidates.  All tasks of a stage run at once; a  *)
(* smaller pool has fewer behaviours.                                          *)
(***************************************************************************)
EXTENDS Integers, FiniteSets, Sequences, SequencesExt

CONSTANTS CacheInputs,      \* what may be built: [old, rows, degree], see below
          CacheBlock,       \* ids of a task
          TornReads,        \* whether a list may be read while it is written
          MaxTaskFailures   \* a bound on the tasks that throw

(* old[o + 1] is element o of the exported index: its source id, "" for none, and   *)
(* its neighbours.  A row has a label, a source id and the level drawn for it.  The      *)
(* degree is MaximumDegree of the bottom graph.                                       *)
VARIABLES cached,      \* the input, fixed when the cache is imported
          stage,       \* what build_with_cache does
          tasks,       \* per task of the stage: its remaining ids and its locals
          task_throws, \* tasks that threw
          encoded,     \* the ids whose codes are written
          links,      \* bottom_graph_
          hit_ids, missed_ids

cacheVars == <<cached, stage, tasks, task_throws, encoded, links, hit_ids, missed_ids>>

(* cache_collect_valid_indices: of the rows with one label the first is taken.  The   *)
(* inner id of a row is its place, from 0.                                        *)
Taken ==
  FoldLeft(LAMBDA taken, row : IF \E i \in DOMAIN taken : taken[i].label = row.label
                               THEN taken ELSE Append(taken, row), <<>>, cached.rows)

CacheDegree == cached.degree
Ids == 0 .. Len(Taken) - 1
RowOf(i) == Taken[i + 1]
NoRow == -1
Least(S) == CHOOSE i \in S : \A j \in S : i <= j

(* cache_setup_metadata_serial: a row above all levels so far becomes the entry point; *)
(* without one the first row does, when the codes are written.                      *)
Highest == {i \in Ids : RowOf(i).level >= 0 /\ \A j \in Ids : RowOf(j).level <= RowOf(i).level}
entry_point == IF Highest = {} THEN 0 ELSE Least(Highest)

OldId == 0 .. Len(cached.old) - 1
SourceOf(o) == cached.old[o + 1].source
OldOf(source) == {o \in OldId : source # "" /\ SourceOf(o) = source}

(* fullfill_cache, and the list as it is after Serialize and Deserialize: the elements   *)
(* with the source id, each followed by its neighbours.  The first is left out by the    *)
(* reader.                                                                            *)
CachedTail(source) ==
  UNION {cached.old[o + 1].list : o \in OldOf(source)}
    \cup (OldOf(source) \ {Least(OldOf(source))})

(* source_id_to_new_inner, which keeps the first row with a source id, and old_to_new_map. *)
NewOf(source) == {i \in Ids : source # "" /\ RowOf(i).source = source}
OldToNew(S) == {Least(NewOf(SourceOf(o))) : o \in {p \in S : NewOf(SourceOf(p)) # {}}}

CacheInit ==
  /\ cached \in CacheInputs
  /\ stage = "begin" /\ tasks = <<>> /\ task_throws = 0
  /\ encoded = {} /\ links = [i \in Ids |-> {}]
  /\ hit_ids = <<>> /\ missed_ids = <<>>

-----------------------------------------------------------------------------
(* The stages: tasks over blocks of ids, and the caller that waits for them. *)

NewTask(ids) == [todo |-> ids, pc |-> "next", selected |-> {}, found |-> {}, snapshot |-> {}]

Blocks(ids) ==
  [b \in 1 .. (Len(ids) + CacheBlock - 1) \div CacheBlock |->
     NewTask(SubSeq(ids, (b - 1) * CacheBlock + 1,
                    IF b * CacheBlock < Len(ids) THEN b * CacheBlock ELSE Len(ids)))]

Begin ==
  /\ stage = "begin"
  /\ stage' = "encode"
  /\ tasks' = Blocks([i \in 1 .. Len(Taken) |-> i - 1])
  /\ UNCHANGED <<cached, task_throws, encoded, links, hit_ids, missed_ids>>

Works(b, where, pc) == stage \in where /\ tasks[b].todo # <<>> /\ tasks[b].pc = pc
Id(b) == Head(tasks[b].todo)
NextId(b) == tasks' = [tasks EXCEPT ![b] = NewTask(Tail(@.todo))]

(* A task throws, wherever it is: its future holds the exception. *)
Throw(b) ==
  /\ stage \in {"encode", "warm", "missed", "hit"} /\ tasks[b].todo # <<>>
  /\ task_throws < MaxTaskFailures
  /\ task_throws' = task_throws + 1
  /\ tasks' = [tasks EXCEPT ![b] = NewTask(<<>>)]
  /\ UNCHANGED <<cached, stage, encoded, links, hit_ids, missed_ids>>

(* Variant: the first exception is thrown on at once. *)
SomeFutureIsReady == task_throws > 0 \/ \A b \in DOMAIN tasks : tasks[b].todo = <<>>

(* "drain ALL futures even if one throws". *)
FuturesAreDrained == \A b \in DOMAIN tasks : tasks[b].todo = <<>>

(* After the last stage the route graphs are made, by ODescent. *)
EndStage ==
  /\ stage \in {"encode", "warm", "missed", "hit"} /\ FuturesAreDrained
  /\ IF task_throws > 0 THEN stage' = "thrown" /\ UNCHANGED tasks
     ELSE \/ stage = "encode" /\ stage' = "warm"
             /\ tasks' = Blocks([i \in 1 .. Len(Taken) |-> i - 1])
          \/ stage = "warm" /\ stage' = "missed" /\ tasks' = Blocks(missed_ids)
          \/ stage = "missed" /\ stage' = "hit" /\ tasks' = Blocks(hit_ids)
          \/ stage = "hit" /\ stage' = "done" /\ UNCHANGED tasks
  /\ UNCHANGED <<cached, task_throws, encoded, links, hit_ids, missed_ids>>

-----------------------------------------------------------------------------
(* cache_encode_codes_parallel. *)
Encode(b) ==
  /\ Works(b, {"encode"}, "next")
  /\ encoded' = encoded \cup {Id(b)}
  /\ NextId(b)
  /\ UNCHANGED <<cached, stage, task_throws, links, hit_ids, missed_ids>>

(* Of too many the smallest ids are kept. *)
CutToDegree(S) == {i \in S : Cardinality({j \in S : j < i}) < CacheDegree}

WarmSeed(i) ==
  LET source == RowOf(i).source IN
  IF OldOf(source) = {} THEN {} ELSE CutToDegree(OldToNew(CachedTail(source)) \ {i})

(* cache_warm_start_and_classify: a row none of whose cached neighbours is here counts as   *)
(* missed.                                                                               *)
Warm(b) ==
  LET i == Id(b) IN
  /\ Works(b, {"warm"}, "next")
  /\ links' = [links EXCEPT ![i] = WarmSeed(i)]
  /\ IF WarmSeed(i) = {}
     THEN missed_ids' = Append(missed_ids, i) /\ UNCHANGED hit_ids
     ELSE hit_ids' = Append(hit_ids, i) /\ UNCHANGED missed_ids
  /\ NextId(b)
  /\ UNCHANGED <<cached, stage, task_throws, encoded>>

-----------------------------------------------------------------------------
(* refine_one_node. *)

Refining == {"missed", "hit"}

(* select_edges_by_heuristic: fewer than the degree are all kept, else the nearest and    *)
(* whatever the rule keeps of the others.                                              *)
Pruned(S) ==
  IF Cardinality(S) < CacheDegree THEN {S}
  ELSE {T \in SUBSET S : T # {} /\ Cardinality(T) <= CacheDegree}

(* A list is written in two parts, its length first: a reader without the lock may take an    *)
(* entry nobody wrote for a neighbour.                                                       *)
Torn(b) ==
  LET i == Id(b) IN
  IF /\ TornReads /\ Cardinality(links[i]) < CacheDegree
     /\ \E c \in DOMAIN tasks \ {b} : tasks[c].pc = "reverse" /\ i \in tasks[c].selected
  THEN {NoRow} ELSE {}

(* collect_refine_candidates: the neighbours are read, without the lock, ... *)
ReadList(b) ==
  LET seen == links[Id(b)] \cup Torn(b)
      from == IF stage = "hit" /\ seen # {} THEN Id(b) ELSE entry_point
  IN  /\ Works(b, Refining, "next")
      /\ tasks' = [tasks EXCEPT ![b].pc = "search", ![b].selected = seen, ![b].found = {from}]
      /\ UNCHANGED <<cached, stage, task_throws, encoded, links, hit_ids, missed_ids>>

(* ... a search walks from the row itself or from the entry point, list after list, each read   *)
(* under its lock, ...                                                                        *)
Walk(b, n) ==
  /\ Works(b, Refining, "search")
  /\ n \in tasks[b].found /\ ~(links[n] \subseteq tasks[b].found)
  /\ tasks' = [tasks EXCEPT ![b].found = @ \cup links[n]]
  /\ UNCHANGED <<cached, stage, task_throws, encoded, links, hit_ids, missed_ids>>

(* ... and the candidates are pruned.  The search may stop anywhere and keeps the nearest it met. *)
(* Without a candidate the row is left as it is.                                               *)
Select(b) ==
  LET task == tasks[b] IN
  /\ Works(b, Refining, "search")
  /\ \E kept \in SUBSET task.found \ {{}} :
       LET candidates == (task.selected \cup kept) \ {Id(b)} IN
       IF candidates = {} THEN NextId(b)
       ELSE \E selected \in Pruned(candidates) :
              tasks' = [tasks EXCEPT ![b] = [NewTask(task.todo) EXCEPT !.pc = "snapshot",
                                                                    !.selected = selected]]
  /\ UNCHANGED <<cached, stage, task_throws, encoded, links, hit_ids, missed_ids>>

(* Under the lock of the row. *)
Snapshot(b) ==
  /\ Works(b, Refining, "snapshot")
  /\ tasks' = [tasks EXCEPT ![b].pc = "write", ![b].snapshot = links[Id(b)]]
  /\ UNCHANGED <<cached, stage, task_throws, encoded, links, hit_ids, missed_ids>>

(* Under the lock again: what other tasks wrote in between is overwritten. *)
WriteBack(b) ==
  LET task == tasks[b] IN
  /\ Works(b, Refining, "write")
  /\ \E final \in Pruned(task.snapshot \cup task.selected) :
       links' = [links EXCEPT ![Id(b)] = final]
  /\ tasks' = [tasks EXCEPT ![b].pc = "reverse", ![b].snapshot = {}]
  /\ UNCHANGED <<cached, stage, task_throws, encoded, hit_ids, missed_ids>>

(* The list of a neighbour with the row in it: appended where there is room, else pruned. *)
ReverseList(list, i) ==
  IF i \in list THEN {list}
  ELSE IF Cardinality(list) < CacheDegree THEN {list \cup {i}}
  ELSE Pruned(list \cup {i})

(* Under the lock of the neighbour. *)
ReverseEdge(b, n) ==
  /\ Works(b, Refining, "reverse") /\ n \in tasks[b].selected
  /\ \E list \in ReverseList(links[n], Id(b)) : links' = [links EXCEPT ![n] = list]
  /\ IF tasks[b].selected = {n} THEN NextId(b)
     ELSE tasks' = [tasks EXCEPT ![b].selected = @ \ {n}]
  /\ UNCHANGED <<cached, stage, task_throws, encoded, hit_ids, missed_ids>>

CacheNext ==
  \/ Begin \/ EndStage
  \/ \E b \in DOMAIN tasks :
       \/ Throw(b) \/ Encode(b) \/ Warm(b) \/ ReadList(b) \/ Select(b) \/ Snapshot(b) \/ WriteBack(b)
       \/ \E n \in Ids : Walk(b, n) \/ ReverseEdge(b, n)

CacheSpec == CacheInit /\ [][CacheNext]_cacheVars

-----------------------------------------------------------------------------
CacheTypeOK ==
  /\ cached \in CacheInputs
  /\ stage \in {"begin", "encode", "warm", "missed", "hit", "done", "thrown"}
  /\ encoded \subseteq Ids /\ DOMAIN links = Ids
  /\ \A b \in DOMAIN tasks : ToSet(tasks[b].todo) \cup tasks[b].selected \subseteq Ids

(* No task runs when Build has returned or thrown: tasks use the plan of the caller. *)
TasksEndBeforeBuild ==
  stage \in {"done", "thrown"} => \A b \in DOMAIN tasks : tasks[b].todo = <<>>

(* When the rows are refined every row is in one of the two lists, once, and its code is     *)
(* written.                                                                               *)
RowsAreClassified ==
  stage \in {"missed", "hit", "done"} =>
    /\ ToSet(hit_ids) \cup ToSet(missed_ids) = Ids
    /\ Len(hit_ids) + Len(missed_ids) = Cardinality(Ids)
    /\ encoded = Ids

(* Neighbours are rows of this build, not the row itself, and within the degree, whichever   *)
(* tasks append to, prune and overwrite a list.                                            *)
ListsAreSound ==
  \A i \in Ids : links[i] \subseteq Ids \ {i} /\ Cardinality(links[i]) <= CacheDegree

(* A warm edge joins rows whose source ids were joined in the old index, or an equal source id. *)
WarmEdgesAreCached ==
  stage = "warm" => \A i \in Ids : \A j \in links[i] :
    \E o, p \in OldId :
      /\ SourceOf(o) = RowOf(i).source /\ SourceOf(p) = RowOf(j).source
      /\ p \in cached.old[o + 1].list \/ SourceOf(o) = SourceOf(p)

(* A row with a warm start always has a neighbour, whatever is pruned: its own refinement     *)
(* starts from itself.                                                                     *)
HitsKeepANeighbour == \A i \in ToSet(hit_ids) : links[i] # {}

(* What a build from a cache keeps, whatever the order of its tasks and whichever throws.      *)
CachedBuildIsSound ==
  /\ CacheTypeOK /\ TasksEndBeforeBuild /\ RowsAreClassified /\ ListsAreSound
  /\ WarmEdgesAreCached /\ HitsKeepANeighbour

(* "lets cold-start nodes install ... their reverse-edge contributions back into hit-node       *)
(* adjacency lists": refuted where the entry point has no warm start.                         *)
MissedJoinHits ==
  stage = "hit" /\ hit_ids # <<>> /\ missed_ids # <<>> =>
    \E i \in ToSet(hit_ids) : links[i] \cap ToSet(missed_ids) # {}

(* "preserve reverse edges installed by concurrent workers": refuted, a list written between     *)
(* the snapshot of a task and its write is overwritten.                                        *)
NoLostEdge ==
  \A b \in DOMAIN tasks :
    tasks[b].pc = "write" => links[Id(b)] \subseteq tasks[b].snapshot

=============================================================================
