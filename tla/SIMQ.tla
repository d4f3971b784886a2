-------------------------------- MODULE SIMQ --------------------------------
(***************************************************************************)
(* SIMQ, the index of multi-vector documents                               *)
(* (src/src/algorithm/simq/simq.cpp).  A document is a sequence of token   *)
(* vectors.  The tokens of all documents are clustered; each cluster has a *)
(* representative, kept in an HGraph, and the list of the documents with a *)
(* token in it.  A search probes the clusters nearest to each query token  *)
(* and reranks the documents they list.                                    *)
(*                                                                         *)
(* Build and Add hold global_mutex_ exclusively and searches hold it       *)
(* shared, so each is one step.  Clusters, documents, tokens and offsets   *)
(* count from 1 where the code counts from 0.  A cluster's list is the set *)
(* of the documents on it: coarse_search skips repetitions.  The graph of  *)
(* representatives is external: with ef_search = 100 it answers with a     *)
(* nearest representative, any of them when several are equally near.      *)
(***************************************************************************)
EXTENDS Integers, FiniteSets, FiniteSetsExt, Sequences, SequencesExt

CONSTANTS TokenVec,          \* the token vectors
          ZeroVec,           \* the vector of zeros
          Dot(_, _),         \* the inner product
          init_percent,      \* init_cluster_ratio_, in percent
          max_cluster_size,
          split_start_idx,
          BuildData,         \* the document sets Build is called with
          AddData,           \* the documents Add is called with
          MaxTokens          \* bound: tokens in the index

ASSUME ClusterParameters == /\ max_cluster_size > 1
                            /\ split_start_idx > 1
                            /\ split_start_idx < max_cluster_size

VARIABLES simq_docs,             \* mv_codes_: the documents stored
          simq_tokens,           \* per token: document, offset, cluster, distance
          cluster_lists,         \* per cluster: the documents listed
          cluster_token_counts,
          reps                   \* rep_hgraph_: the representative of each cluster

simqVars == <<simq_docs, simq_tokens, cluster_lists, cluster_token_counts, reps>>

num_clusters == Len(reps)

IPDistance(a, b) == 1 - Dot(a, b)

-----------------------------------------------------------------------------
(* HGraphDynamicClustering: a clustering is the centers found so far (ids   *)
(* of tokens), the members of each center's cluster ordered by distance,    *)
(* and the center each token belongs to.                                    *)

Member(id, dist) == [id |-> id, dist |-> dist]

\* sorted_insert: std::lower_bound puts a member before those equally far.
sorted_insert(members, m) ==
  InsertAt(members, 1 + Cardinality({i \in DOMAIN members : members[i].dist < m.dist}), m)

split_cluster(c, old, vecs) ==
  LET cluster == c.members[old]
      new     == Last(cluster).id
      kept    == SubSeq(cluster, 1, split_start_idx - 1)
      moved   == SelectSeq(SubSeq(cluster, split_start_idx, Len(cluster)),
                           LAMBDA m : m.id # new)
      Insert(ms, m) == sorted_insert(ms, Member(m.id, IPDistance(vecs[m.id], vecs[new])))
      shrunk  == [c.members EXCEPT ![old] = kept]
  IN  [centers |-> Append(c.centers, new),
       members |-> [id \in DOMAIN shrunk \cup {new} |->
                      IF id = new THEN FoldLeft(Insert, <<Member(new, 0)>>, moved)
                                  ELSE shrunk[id]],
       owner   |-> [id \in DOMAIN c.owner |->
                      IF id = new \/ \E i \in DOMAIN moved : moved[i].id = id
                      THEN new ELSE c.owner[id]]]

\* find_nearest_cluster, then sorted_insert and the split of an overfull cluster.
Assign(c, id, vecs) ==
  LET near == CHOOSE k \in ToSet(c.centers) :
                \A j \in ToSet(c.centers) :
                  IPDistance(vecs[id], vecs[k]) <= IPDistance(vecs[id], vecs[j])
      m    == Member(id, IPDistance(vecs[id], vecs[near]))
      put  == [c EXCEPT !.members[near] = sorted_insert(@, m), !.owner[id] = near]
  IN  IF Len(put.members[near]) > max_cluster_size
      THEN split_cluster(put, near, vecs)
      ELSE put

\* Fit, for the order the shuffle gives.
Fit(vecs, order) ==
  LET n    == Len(vecs)
      init == Max({1, (n * init_percent) \div 100})
      c0   == [centers |-> SubSeq(order, 1, init),
               members |-> [id \in ToSet(SubSeq(order, 1, init)) |-> <<Member(id, 0)>>],
               owner   |-> [id \in 1..n |-> id]]
  IN  FoldLeft(LAMBDA c, id : Assign(c, id, vecs), c0, SubSeq(order, init + 1, n))

-----------------------------------------------------------------------------
(* Build.                                                                   *)

Tokens(docs) ==
  FlattenSeq([d \in DOMAIN docs |-> [t \in DOMAIN docs[d] |-> [doc |-> d, offset |-> t]]])

VecOf(docs, token) == docs[token.doc][token.offset]

TokensOf(tokens, c) == {v \in DOMAIN tokens : tokens[v].cluster = c}

DocsOf(tokens, vs) == {tokens[v].doc : v \in vs}

\* run_clustering: center_to_idx keeps the last index of a center; a token no
\* cluster lists has distance 0.
run_clustering(tokens, fit) ==
  LET Index(center) == Max({i \in DOMAIN fit.centers : fit.centers[i] = center})
      Listed(id) == {m \in UNION {ToSet(fit.members[k]) : k \in DOMAIN fit.members} : m.id = id}
      DistOf(id) == IF Listed(id) = {} THEN 0 ELSE (CHOOSE m \in Listed(id) : TRUE).dist
  IN  [v \in DOMAIN tokens |->
         [doc |-> tokens[v].doc, offset |-> tokens[v].offset,
          cluster |-> Index(fit.owner[v]), dist |-> DistOf(v)]]

\* build_rep_hgraph: the first token with the largest inner product with the
\* sum of its cluster's tokens; ZeroVec if the cluster is empty.
Representative(docs, tokens, c) ==
  LET vs == TokensOf(tokens, c)
      ToMean(v) == MapThenSumSet(LAMBDA u : Dot(VecOf(docs, tokens[v]), VecOf(docs, tokens[u])), vs)
      best == {v \in vs : \A u \in vs : ToMean(u) <= ToMean(v)}
  IN  IF vs = {} THEN ZeroVec ELSE VecOf(docs, tokens[Min(best)])

Orders(n) == {p \in [1..n -> 1..n] : \A i, j \in 1..n : i # j => p[i] # p[j]}

\* Build, on an index that holds nothing.
SIMQBuild ==
  /\ simq_docs = <<>>
  /\ \E docs \in BuildData : \E order \in Orders(Len(Tokens(docs))) :
       LET flat   == Tokens(docs)
           fit    == Fit([v \in DOMAIN flat |-> VecOf(docs, flat[v])], order)
           tokens == run_clustering(flat, fit)
           nc     == Len(fit.centers)
       IN  /\ simq_docs' = docs
           /\ simq_tokens' = tokens
           /\ cluster_lists' = [c \in 1..nc |-> DocsOf(tokens, TokensOf(tokens, c))]
           /\ cluster_token_counts' = [c \in 1..nc |-> Cardinality(TokensOf(tokens, c))]
           /\ reps' = [c \in 1..nc |-> Representative(docs, tokens, c)]

-----------------------------------------------------------------------------
(* Add: s is the index while a document is taken in.                        *)

ByDistance(tokens, vs) ==
  SetToSortSeq(vs, LAMBDA a, b : \/ tokens[a].dist < tokens[b].dist
                                 \/ tokens[a].dist = tokens[b].dist /\ a < b)

\* The new cluster is listed with no document.
ListsForgettingMoved(s, c, stay, moved) ==
  Append([s.lists EXCEPT ![c] = DocsOf(s.tokens, stay)], {})

\* The lists of the two clusters are rebuilt from the tokens.
RebuiltLists(s, c, stay, moved) ==
  Append([s.lists EXCEPT ![c] = DocsOf(s.tokens, stay)], DocsOf(s.tokens, moved))

\* split_cluster_incremental: the farther half of the tokens becomes a cluster
\* of its own, whose representative is the nearest of them.
split_cluster_incremental(s, c) ==
  LET ranked == ByDistance(s.tokens, TokensOf(s.tokens, c))
      half   == Len(ranked) \div 2
      stay   == ToSet(SubSeq(ranked, 1, half))
      moved  == ToSet(SubSeq(ranked, half + 1, Len(ranked)))
      rep    == VecOf(s.docs, s.tokens[ranked[half + 1]])
      Move(token) == [token EXCEPT !.cluster = Len(s.reps) + 1,
                                   !.dist = IPDistance(VecOf(s.docs, token), rep)]
  IN  IF Len(ranked) < 2 THEN s ELSE
      [s EXCEPT
         !.tokens = [v \in DOMAIN @ |-> IF v \in moved THEN Move(@[v]) ELSE @[v]],
         !.lists  = RebuiltLists(s, c, stay, moved),
         !.counts = Append([@ EXCEPT ![c] = half], Len(ranked) - half),
         !.reps   = Append(@, rep)]

Overfull(count) == count > max_cluster_size

NearestReps(s, vec) ==
  {c \in DOMAIN s.reps : \A j \in DOMAIN s.reps :
     IPDistance(vec, s.reps[c]) <= IPDistance(vec, s.reps[j])}

\* Token t of the document being added, whose search answered cluster c.
AddToken(s, t, c) ==
  LET doc    == Len(s.docs)
      token  == [doc |-> doc, offset |-> t, cluster |-> c,
                 dist |-> IPDistance(s.docs[doc][t], s.reps[c])]
      listed == [s EXCEPT !.tokens = Append(@, token),
                          !.lists[c] = IF c \in s.clusters_seen THEN @ ELSE @ \cup {doc},
                          !.clusters_seen = @ \cup {c},
                          !.counts[c] = @ + 1]
  IN  IF Overfull(listed.counts[c]) THEN split_cluster_incremental(listed, c) ELSE listed

\* What the index may be once the tokens of doc have been taken in turn.
AfterAdding(doc) ==
  LET s0 == [docs |-> Append(simq_docs, doc), tokens |-> simq_tokens, lists |-> cluster_lists,
             counts |-> cluster_token_counts, reps |-> reps, clusters_seen |-> {}]
      Take(S, t) == UNION {{AddToken(s, t, c) : c \in NearestReps(s, doc[t])} : s \in S}
  IN  FoldLeft(Take, {s0}, [t \in DOMAIN doc |-> t])

\* Add of one document; Build must have come before.
SIMQAdd ==
  /\ reps # <<>>
  /\ \E doc \in AddData : \E s \in AfterAdding(doc) :
       /\ Len(s.tokens) <= MaxTokens
       /\ simq_docs' = s.docs
       /\ simq_tokens' = s.tokens
       /\ cluster_lists' = s.lists
       /\ cluster_token_counts' = s.counts
       /\ reps' = s.reps

SIMQInit ==
  /\ simq_docs = <<>>
  /\ simq_tokens = <<>>
  /\ cluster_lists = <<>>
  /\ cluster_token_counts = <<>>
  /\ reps = <<>>

SIMQNext == SIMQBuild \/ SIMQAdd

SIMQSpec == SIMQInit /\ [][SIMQNext]_simqVars

-----------------------------------------------------------------------------
(* Search.                                                                  *)

\* The clusters coarse_search may probe for one query token.
Probes(vec, coarse_k) ==
  {P \in kSubset(Min({coarse_k, num_clusters}), 1..num_clusters) :
     \A p \in P, c \in (1..num_clusters) \ P :
       IPDistance(vec, reps[p]) <= IPDistance(vec, reps[c])}

\* The documents one query token scores.
Scored(probes) == UNION {cluster_lists[c] : c \in probes}

\* The documents a query may have for rerank when rerank_k cuts none of them.
RerankCandidates(query, coarse_k) ==
  {UNION {Scored(probe[t]) : t \in DOMAIN query} :
     probe \in {f \in [DOMAIN query -> UNION {Probes(query[t], coarse_k) : t \in DOMAIN query}] :
                  \A t \in DOMAIN query : f[t] \in Probes(query[t], coarse_k)}}

-----------------------------------------------------------------------------
(* Properties.                                                              *)

(* A search that probes every cluster reranks every document that has a     *)
(* token: KnnSearch with coarse_k at least the number of clusters is then   *)
(* the exact MaxSim ranking, whatever splits Build and Add have made.       *)
FullProbeFindsEveryDocument ==
  simq_docs # <<>> => \A vec \in TokenVec : \A found \in RerankCandidates(<<vec>>, num_clusters) :
    found = {d \in DOMAIN simq_docs : simq_docs[d] # <<>>}

(* The counts Add compares with max_cluster_size are the numbers of tokens  *)
(* the clusters really have, and between calls none is over the limit, if   *)
(* no vector occurs twice in what Build was given.                          *)
ClustersAreBounded ==
  \A c \in 1..num_clusters :
    /\ cluster_token_counts[c] = Cardinality(TokensOf(simq_tokens, c))
    /\ cluster_token_counts[c] <= max_cluster_size

(* A cluster lists no document all of whose tokens a split has taken away:  *)
(* a probe scores a document only for a token it has in the cluster.        *)
NoStalePosting ==
  \A c \in 1..num_clusters :
    cluster_lists[c] \subseteq DocsOf(simq_tokens, TokensOf(simq_tokens, c))

(* Every cluster that has a token of a document lists the document (the     *)
(* comment on run_clustering: "a doc with multiple tokens maps to one entry *)
(* per cluster"), so that a probe of the cluster finds it.                  *)
EveryTokenIsPosted ==
  \A v \in DOMAIN simq_tokens :
    simq_tokens[v].doc \in cluster_lists[simq_tokens[v].cluster]

(* Whatever splits Build and Add make, the clusters are what a probe takes them for.       *)
ClustersAreSound == FullProbeFindsEveryDocument /\ ClustersAreBounded /\ NoStalePosting

=============================================================================
