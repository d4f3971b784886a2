------------------------------ MODULE DiskANN ------------------------------
(***************************************************************************)
(* index/diskann: a build in one call, and a build in steps from checkpoints.    *)
(*                                                                         *)
(* ContinueBuild takes the binaries of the last checkpoint and returns the next    *)
(* ones: BEGIN and GRAPH build the graph in build_batch_num_ rounds, EDGE_PRUNE    *)
(* runs once more over it, PQ compresses the vectors, DISK_LAYOUT writes vectors     *)
(* and links to sectors and opens the index.  The caller may go on with the same     *)
(* object or, after a crash, with a new one and the last checkpoint it kept.         *)
(*                                                                         *)
(* A row of the data set is its position.  Rows with a label seen before are left    *)
(* out of the graph, so locations in the graph and rows of the data set differ        *)
(* after the first such row.  A graph list is the location it belongs to.            *)
(***************************************************************************)
EXTENDS Integers, FiniteSets, Sequences, LabelTable

CONSTANTS build_batch_num,   \* rounds of the graph
          DataSets,          \* the sequences of labels callers build
          MaxCrashes         \* bound

(* build_batch_num_ is 10; labels are 64-bit integers. *)
ASSUME DiskANNAssumption == build_batch_num \in Nat \ {0} /\ DataSets \subseteq Seq(Int)

VARIABLES rows,        \* the labels of the data set, fixed
          checkpoint,  \* what the caller kept of the last step
          disk,        \* the object: its streams and the opened index
          crashes      \* history

diskannVars == <<rows, checkpoint, disk, crashes>>

(* The streams of an object; "EMPTY", "BUILDING" and "MEMORY" are its status_. *)
NewObject == [status |-> "EMPTY", graph |-> {}, tags |-> <<>>, compressed |-> <<>>,
              layout |-> <<>>, open |-> FALSE]

NoCheckpoint == [status |-> "BEGIN", round |-> 1, nodes |-> {}, graph |-> {}, tags |-> <<>>,
                 compressed |-> <<>>]

DiskANNInit ==
  /\ rows \in DataSets
  /\ checkpoint = NoCheckpoint
  /\ disk = NewObject
  /\ crashes = 0

-----------------------------------------------------------------------------
(* Parts of extern/diskann. *)

(* Index::build: rows whose label came before. *)
failed_locs == {r \in 1 .. Len(rows) : \E q \in 1 .. r - 1 : rows[q] = rows[r]}

(* Where row r comes when the rows in skip are left out, and the rows in that order. *)
PlaceOf(r, skip)  == Cardinality((1 .. r) \ skip)
RowsWithout(skip) ==
  [i \in 1 .. PlaceOf(Len(rows), skip) |->
     CHOOSE r \in (1 .. Len(rows)) \ skip : PlaceOf(r, skip) = i]

UniqueRows  == RowsWithout(failed_locs)
nd          == Len(UniqueRows)
Locations   == 1 .. nd
Tags        == [i \in Locations |-> rows[UniqueRows[i]]]

(* Index::link of a round: nodes are taken until the round's share is reached; threads   *)
(* that already took a node go beyond it.                                             *)
link(nodes, round) ==
  {more \in SUBSET Locations : /\ nodes \subseteq more /\ (more = nodes => nodes = Locations)
                               /\ Cardinality(more) * build_batch_num >= round * nd}

(* generate_disk_quantized_data *)
Compress(skip) == RowsWithout(skip)

(* create_disk_layout: a skipped row still takes its place in the sector, while the lists  *)
(* of the graph are read one after the other.                                         *)
create_disk_layout(skip) ==
  [r \in 1 .. Len(rows) |->
     IF r \in skip THEN [row |-> 0, list |-> 0]
     ELSE [row |-> r, list |-> IF PlaceOf(r, skip) <= nd THEN PlaceOf(r, skip) ELSE 0]]

-----------------------------------------------------------------------------
(* DiskANN::build *)
Build ==
  /\ disk.status = "EMPTY" /\ ~disk.open
  /\ disk' = [status |-> "MEMORY", graph |-> Locations, tags |-> Tags,
              compressed |-> Compress(failed_locs), layout |-> create_disk_layout(failed_locs),
              open |-> TRUE]
  /\ UNCHANGED <<rows, checkpoint, crashes>>

(* build_partial_graph: from round 2 on the graph of the checkpoint is taken up.           *)
build_partial_graph(object, cp, nodes) ==
  [object |-> [object EXCEPT !.graph = nodes, !.tags = Tags, !.status = "BUILDING"],
   data   |-> [cp EXCEPT !.nodes = nodes, !.graph = nodes, !.tags = Tags]]

TakenUp(cp, round) == IF round > 1 THEN cp.nodes ELSE {}

GraphStep(object, cp) ==
  \E nodes \in link(TakenUp(cp, cp.round), cp.round) :
    LET built == build_partial_graph(object, cp, nodes)
        last  == cp.status = "GRAPH" /\ cp.round >= build_batch_num
    IN  /\ disk' = built.object
        /\ checkpoint' = [built.data EXCEPT
                            !.status = IF last THEN "EDGE_PRUNE" ELSE "GRAPH",
                            !.round  = IF last THEN @ ELSE @ + 1]

EdgePruneStep(object, cp) ==
  \E nodes \in link(TakenUp(cp, cp.round), cp.round) :
    LET built == build_partial_graph(object, cp, nodes)
    IN  /\ disk' = built.object
        /\ checkpoint' = [built.data EXCEPT !.status = "PQ"]

(* The rows to leave out are looked up in the checkpoint being made, where they are not. *)
PQStep(object, cp) ==
  /\ disk' = [object EXCEPT !.compressed = Compress({}), !.status = "BUILDING"]
  /\ checkpoint' = [cp EXCEPT !.compressed = Compress({}), !.status = "DISK_LAYOUT"]

(* Variant: the codes are those the object made itself. *)
LayoutWithOwnCodes(object, cp) ==
  /\ disk' = [object EXCEPT !.graph = cp.graph, !.tags = cp.tags,
                            !.layout = create_disk_layout({}), !.status = "MEMORY", !.open = TRUE]
  /\ checkpoint' = [NoCheckpoint EXCEPT !.status = "FINISH"]

(* create_disk_layout, then load_disk_index; the checkpoint holds nothing but its status. *)
DiskLayoutStep(object, cp) ==
  /\ disk' = [object EXCEPT !.graph = cp.graph, !.tags = cp.tags, !.compressed = cp.compressed,
                            !.layout = create_disk_layout({}), !.status = "MEMORY", !.open = TRUE]
  /\ checkpoint' = [NoCheckpoint EXCEPT !.status = "FINISH"]

(* ContinueBuild on an object; an opened index that is not BUILDING is refused. *)
ContinueBuild(object) ==
  /\ ~object.open \/ object.status = "BUILDING"
  /\ CASE checkpoint.status \in {"BEGIN", "GRAPH"} -> GraphStep(object, checkpoint)
       [] checkpoint.status = "EDGE_PRUNE"         -> EdgePruneStep(object, checkpoint)
       [] checkpoint.status = "PQ"                 -> PQStep(object, checkpoint)
       [] checkpoint.status = "DISK_LAYOUT"        -> DiskLayoutStep(object, checkpoint)
       [] checkpoint.status = "FINISH" -> /\ disk' = [object EXCEPT !.status = "BUILDING"]
                                          /\ UNCHANGED checkpoint
  /\ UNCHANGED <<rows, crashes>>

(* A step whose checkpoint the caller did not get to keep. *)
Crash ==
  /\ crashes < MaxCrashes
  /\ crashes' = crashes + 1
  /\ disk' = NewObject
  /\ UNCHANGED <<rows, checkpoint>>

(* serialize and deserialize into a new object; the graph travels with preload_ only. *)
DiskANNSaveAndLoad ==
  /\ disk.open
  /\ \E preload \in BOOLEAN : disk' = [disk EXCEPT !.graph = IF preload THEN @ ELSE {}]
  /\ UNCHANGED <<rows, checkpoint, crashes>>

DiskANNNext ==
  \/ Build /\ checkpoint = NoCheckpoint
  \/ ContinueBuild(disk)
  \/ Crash
  \/ DiskANNSaveAndLoad

DiskANNSpec == DiskANNInit /\ [][DiskANNNext]_diskannVars

-----------------------------------------------------------------------------
(* Properties *)

(* At location i the opened index has the list, the vector and the code of one row, and     *)
(* the label of that row.                                                             *)
Aligned ==
  \A i \in Locations :
    LET r == UniqueRows[i]
    IN  /\ i <= Len(disk.layout) /\ i <= Len(disk.compressed)
        /\ disk.layout[i] = [row |-> r, list |-> i]
        /\ disk.compressed[i] = r
        /\ disk.tags[i] = rows[r]

(* However a build is cut into steps, and wherever it crashes and resumes, the opened index  *)
(* is aligned when the labels of the data set are distinct (continue_build, build).          *)
OpenedIndexIsAligned ==
  disk.open /\ failed_locs = {} => Aligned /\ Len(disk.layout) = nd

(* No vector is compressed or laid out before every location has its links, and no round is  *)
(* repeated or left out (continue_build's rounds, Index::link).                             *)
GraphIsCompleteBeforePQ ==
  checkpoint.status \in {"EDGE_PRUNE", "PQ", "DISK_LAYOUT"} =>
    checkpoint.graph = Locations /\ checkpoint.tags = Tags

(* Building an index with a repeated label reports the repeated rows and leaves the others   *)
(* searchable.                                                                         *)
BuildSkipsRepeatedLabels == disk.open => Aligned

(* No step of a build that is cut, crashed and resumed sees half of what it needs.            *)
ResumedBuildIsAligned == GraphIsCompleteBeforePQ /\ OpenedIndexIsAligned

=============================================================================
