----------------------------- MODULE MCIndexes -----------------------------
(* The index types that Factory::CreateIndex makes beside HGraph, BruteForce  *)
(* and the lazy index, the attribute index they share and the search of a      *)
(* graph index, for TLC.  kind is what is made or called: the state of the      *)
(* others stays initial.                                                      *)
EXTENDS IVF, SINDI, SIMQ, AttributeFilter, HNSW, HNSWGraph, DiskANN, Pyramid, GraphSearch, TLC

CONSTANT Kinds   \* the kinds of index this instance makes

VARIABLE kind

(* Searches: four nodes, the second with a duplicate. *)
MCNodes == 0 .. 3
MCCopies == 0 :> {} @@ 1 :> {4} @@ 2 :> {} @@ 3 :> {}
MCDist == 0 :> 0 @@ 1 :> 1 @@ 2 :> 2 @@ 3 :> 3 @@ 4 :> 1

PlainRequest == [mode |-> "knn", ef_search |-> 2, radius |-> 0, k |-> 2, idOk |-> Elem,
          attrOk |-> Elem, hops_limit |-> Infinite, skips |-> FALSE, timed |-> FALSE,
          scans |-> FALSE, reorders |-> FALSE]

(* What an index is configured with is chosen only for the kind that is made. *)
Init ==
  /\ kind \in Kinds
  /\ IVFInit /\ (kind = "ivf" \/ buckets_per_data = 1)
  /\ SINDIInit /\ (kind = "sindi" \/ sindi = [remap |-> FALSE, prune |-> FALSE, immutable |-> FALSE])
  /\ SIMQInit
  /\ AttrInit /\ (kind = "attributes" \/ bitset_type = "fast")
  /\ HNSWInit /\ (kind = "hnsw" \/ ~use_conjugate_graph)
  /\ HNSWGraphInit
  /\ DiskANNInit /\ (kind = "diskann" \/ rows = <<0, 1>>)
  /\ PyramidInit /\ (kind = "pyramid" \/ graph_type = "nsw")
  /\ SearchInit /\ (kind = "search" \/ <<req, ep>> = <<PlainRequest, 0>>)

Next ==
  \/ kind = "ivf" /\ IVFNext
     /\ UNCHANGED <<kind, sindiVars, simqVars, attrVars, hnswVars, graphVars, diskannVars,
                    pyramidVars, searchVars>>
  \/ kind = "sindi" /\ SINDINext
     /\ UNCHANGED <<kind, ivfVars, simqVars, attrVars, hnswVars, graphVars, diskannVars,
                    pyramidVars, searchVars>>
  \/ kind = "simq" /\ SIMQNext
     /\ UNCHANGED <<kind, ivfVars, sindiVars, attrVars, hnswVars, graphVars, diskannVars,
                    pyramidVars, searchVars>>
  \/ kind = "attributes" /\ AttrNext
     /\ UNCHANGED <<kind, ivfVars, sindiVars, simqVars, hnswVars, graphVars, diskannVars,
                    pyramidVars, searchVars>>
  \/ kind = "hnsw" /\ HNSWNext
     /\ UNCHANGED <<kind, ivfVars, sindiVars, simqVars, attrVars, graphVars, diskannVars,
                    pyramidVars, searchVars>>
  \/ kind = "fresh_hnsw" /\ HNSWGraphNext
     /\ UNCHANGED <<kind, ivfVars, sindiVars, simqVars, attrVars, hnswVars, diskannVars,
                    pyramidVars, searchVars>>
  \/ kind = "diskann" /\ DiskANNNext
     /\ UNCHANGED <<kind, ivfVars, sindiVars, simqVars, attrVars, hnswVars, graphVars,
                    pyramidVars, searchVars>>
  \/ kind = "pyramid" /\ PyramidNext
     /\ UNCHANGED <<kind, ivfVars, sindiVars, simqVars, attrVars, hnswVars, graphVars,
                    diskannVars, searchVars>>
  \/ kind = "search" /\ SearchNext
     /\ UNCHANGED <<kind, ivfVars, sindiVars, simqVars, attrVars, hnswVars, graphVars,
                    diskannVars, pyramidVars>>

allVars == <<kind, ivfVars, sindiVars, simqVars, attrVars, hnswVars, graphVars, diskannVars,
             pyramidVars, searchVars>>

Spec == Init /\ [][Next]_allVars

-----------------------------------------------------------------------------
(* IVF: vectors and centroids on a line. *)
MCCentroid(l, b) == LET c == 3 * b IN IF l < c THEN (c - l) * 2 + 1 ELSE (l - c) * 2
MCBatches == {<<0>>, <<1, 2>>}

(* SINDI: terms 0 to 3, the last beyond term_id_limit. *)
MCDoc == {0 :> 2 @@ 1 :> 1, 1 :> 3, 0 :> 1 @@ 1 :> 1 @@ 3 :> 2}
MCQuery == {0 :> 1 @@ 1 :> 1, 3 :> 1}

(* SIMQ: unit vectors whose distance is the difference of their numbers. *)
ZeroVector == 100
MCDot(a, b) ==
  IF ZeroVector \in {a, b} THEN 0 ELSE 1 - (IF a < b THEN b - a ELSE a - b)
MCBuildData == {<<<<0, 2>>, <<5>>>>, <<<<1>>, <<4, 7>>, <<9>>>>}
MCAddData == {<<0, 1>>, <<5, 4, 9>>, <<2>>, <<6, 6>>}

(* Attribute expressions: two comparisons joined, and one of three. *)
MCLeaf(n, vs, neg) == [op |-> "list", leaf |-> n, field |-> "f", values |-> vs, negated |-> neg]
MCNode(o, l, r) == [op |-> o, left |-> l, right |-> r]
MCLeaves(n) == {MCLeaf(n, {0}, TRUE), MCLeaf(n, {0, 1}, FALSE)}
MCExprs ==
  {MCNode(o, l, r) : o \in {"and", "or"}, l \in MCLeaves(1), r \in MCLeaves(2)}
  \cup {MCNode("or", MCLeaf(1, {0}, FALSE),
               MCNode("and", MCLeaf(2, {0}, TRUE), MCLeaf(3, {1}, FALSE)))}

(* DiskANN: data sets smaller and larger than a batch, and with repeated labels. *)
MCDataSets == {<<0, 1, 2>>, <<0, 1>>, <<0, 1, 2, 3>>, <<0, 0, 1>>, <<0, 1, 0>>}

(* Pyramid: nested paths, and a label that comes twice. *)
MCRow(l, p) == [label |-> l, path |-> p]
MCPyBatches ==
  {<<MCRow(0, <<"a">>), MCRow(1, <<"a", "b">>)>>, <<MCRow(2, <<"b">>)>>,
   <<MCRow(1, <<"a">>), MCRow(1, <<"b">>)>>}

(* Queries: nearest, in a range and by iterator, with filters and limits. *)
Within == [PlainRequest EXCEPT !.mode = "range", !.radius = 1, !.k = 0, !.ef_search = 1]
Iterate == [PlainRequest EXCEPT !.mode = "iterator", !.k = 1]

MCRequests ==
  {PlainRequest,
   [PlainRequest EXCEPT !.ef_search = 1, !.k = 1],
   [PlainRequest EXCEPT !.ef_search = 5],
   [PlainRequest EXCEPT !.ef_search = 5, !.idOk = Elem \ {2}, !.attrOk = Elem \ {1}],
   [PlainRequest EXCEPT !.idOk = {3}, !.skips = TRUE],
   [PlainRequest EXCEPT !.hops_limit = 3, !.timed = TRUE],
   [PlainRequest EXCEPT !.scans = TRUE],
   Within,
   [Within EXCEPT !.k = 1, !.idOk = Elem \ {1}],
   [Within EXCEPT !.scans = TRUE],
   Iterate,
   [Iterate EXCEPT !.ef_search = 4, !.idOk = Elem \ {1}],
   [Iterate EXCEPT !.ef_search = 4, !.k = 2, !.reorders = TRUE]}

(* What the conditions of the modules and the size of the instance ask for. *)
WithinBounds ==
  /\ clashed = {}
  /\ EntryIsAnElement
  /\ Cardinality(DOMAIN given_attrs) <= 2

=============================================================================
