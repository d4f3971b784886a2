---------------------------- MODULE HGraphProofs ----------------------------
(***************************************************************************)
(* The graphs and the entry point of HGraph for any number of elements, levels   *)
(* and degrees, as long as a caller that removes physically keeps reverse edges   *)
(* and does not clone, and one that marks clones, without reverse edges, while    *)
(* nothing is removed.                                                      *)
(***************************************************************************)
EXTENDS HGraphContentProofs

(* The callers the results are about. *)
Disciplined ==
  \A u \in Uses :
    \/ /\ u.removes \subseteq {"MARK_REMOVE"}
       /\ \/ u.clones = "never"
          \/ u.clones = "nothing_removed" /\ ~u.use_reverse_edges
    \/ u.removes = {"FORCE_REMOVE"} /\ u.use_reverse_edges /\ u.clones = "never"

(* The ids of one more element. *)
LEMMA IdsNext ==
  ASSUME NEW n \in Nat
  PROVE  Ids(n + 1) = Ids(n) \cup {n} /\ n \notin Ids(n) /\ \A x \in InnerId : x \notin Ids(n) => n <= x
  BY DEF Ids, InnerId

-----------------------------------------------------------------------------
(* The route graphs of an index whose elements are L. *)
Routed(r, L, t) ==
  /\ r \in Seq(Graph)
  /\ \A j \in 1 .. Len(r) : RouteOK(r[j], L) /\ r[j].tracks = t

(* The graphs are sound, and mention what they should. *)
GraphInv ==
  /\ BottomOK(bottom, LiveId) /\ bottom.tracks = use.use_reverse_edges
  /\ Routed(route, LiveId, use.use_reverse_edges)

(* Where searches start: at an id once the bottom graph was used, which it is while there are   *)
(* elements; at an element when there are route graphs, or when none is removed physically.   *)
EntryInv ==
  /\ entry_point_id \in InnerId \cup {INVALID_ENTRY_POINT}
  /\ bottom.used => entry_point_id \in InnerId
  /\ total_count # 0 => bottom.used
  /\ route # << >> => bottom.used /\ entry_point_id \in LiveId /\ entry_point_id \in route[Len(route)].nodes
  /\ "FORCE_REMOVE" \notin use.removes /\ bottom.used => entry_point_id \in LiveId

(* A row of things. *)
IsRow(r) ==
  /\ Len(r) \in Nat /\ DOMAIN r = 1 .. Len(r) /\ r = [j \in 1 .. Len(r) |-> r[j]]
  /\ r # << >> <=> Len(r) # 0

(* The route graphs are a row. *)
LEMMA RouteFacts ==
  ASSUME NEW r, NEW L, NEW t, Routed(r, L, t)
  PROVE  IsRow(r)
<1>1. PICK S : r \in Seq(S)
  BY Zenon DEF Routed
<1> QED BY <1>1 DEF IsRow

(* Graphs in a row are route graphs. *)
LEMMA MakeRoute ==
  ASSUME NEW K \in Nat, NEW r, r = [j \in 1 .. K |-> r[j]], NEW L, NEW t,
         \A j \in 1 .. K : RouteOK(r[j], L) /\ r[j].tracks = t
  PROVE  Routed(r, L, t) /\ Len(r) = K
<1>1. \A j \in 1 .. K : r[j] \in Graph
  BY Zenon, GraphByMembers DEF RouteOK, Sound
<1>2. r \in [1 .. K -> Graph]
  BY Zenon, <1>1
<1>3. PICK S : S = Graph
  BY Zenon
<1>4. r \in [1 .. K -> S]
  BY Zenon, <1>2, <1>3
<1>5. r \in Seq(S) /\ Len(r) = K
  BY <1>4
<1> QED BY Zenon, <1>3, <1>5 DEF Routed

(* An id that is not an element yet does not matter to a route graph. *)
LEMMA RouteWider ==
  ASSUME NEW g, NEW L, NEW id, RouteOK(g, L)
  PROVE  RouteOK(g, L \cup {id})
  BY Zenon DEF RouteOK

(* A route graph that was just created. *)
LEMMA RouteNew ==
  ASSUME NEW t \in BOOLEAN, NEW L, NEW g, g = EmptyGraph(TRUE, t)
  PROVE  RouteOK(g, L) /\ g.tracks = t /\ ~g.used
<1>0. TRUE \in BOOLEAN
  BY Zenon
<1>1. /\ IsGraph(g) /\ g.sparse /\ g.tracks = t /\ ~g.used /\ g.nodes = {}
      /\ \A x \in InnerId : g.nbrs[x] = {} /\ g.rev[x] = {}
  BY Zenon, <1>0, EmptySound
<1>2. \A x \in InnerId : Cardinality(g.nbrs[x]) <= MaximumDegree(g)
  BY Zenon, <1>1, NoneWithin
<1>3. Sound(g)
  BY Zenon, <1>1, <1>2 DEF Sound, Exact, Within, NoLoops
<1> QED BY Zenon, <1>1, <1>3 DEF RouteOK

(* The use of an index. *)
LEMMA UseFacts ==
  ASSUME LabelInv
  PROVE  use \in Uses /\ use.use_reverse_edges \in BOOLEAN /\ use.levels \subseteq Nat \cup {-1}
<1>1. use \in Use /\ use \in Uses
  BY Zenon, UsesExist DEF LabelInv, Counters
<1>2. use.use_reverse_edges \in BOOLEAN /\ use.levels \in SUBSET Levels
  BY Zenon, <1>1 DEF Use
<1> QED BY Zenon, <1>1, <1>2, LevelsFromMinusOne

(* The descent through the route graphs stays among elements. *)
LEMMA DescentWithin ==
  ASSUME NEW L \in SUBSET InnerId, NEW t, Routed(route, L, t), route # << >>, entry_point_id \in L,
         NEW level \in Nat \cup {-1}, NEW start \in DescendTo(level)
  PROVE  start \in L
<1>0. PICK top : top = Len(route) /\ top \in Nat /\ top # 0
  <2>1. IsRow(route)
    BY Zenon, RouteFacts
  <2> QED BY Zenon, <2>1 DEF IsRow
<1>1. CASE level + 1 >= top
  <2>1. start = entry_point_id
    BY Zenon, <1>0, <1>1 DEF DescendTo
  <2> QED BY Zenon, <2>1
<1>2. CASE ~(level + 1 >= top)
  <2>1. PICK p \in [(level + 1) .. top -> InnerId] :
          /\ p[top] = entry_point_id
          /\ \A j \in (level + 2) .. top : p[j - 1] \in Reach(route[j], {p[j]})
          /\ start = p[level + 1]
    BY Zenon, <1>0, <1>2 DEF DescendTo
  <2>2. PICK T : T = {k \in Nat : k <= top - level - 1 /\ p[top - k] \notin L}
    BY Zenon
  <2>3. ASSUME T # {} PROVE FALSE
    <3>1. T \in SUBSET Nat
      BY Zenon, <2>2
    <3>2. PICK k \in T : \A y \in T : k <= y
      BY Zenon, <2>3, <3>1, LeastNumber
    <3>3. k \in Nat /\ k <= top - level - 1 /\ p[top - k] \notin L
      BY Zenon, <2>2, <3>2
    <3>4. k # 0
      <4>1. k = 0 => top - k = top
        BY <1>0
      <4> QED BY Zenon, <2>1, <3>3, <4>1
    <3>5. k - 1 \in Nat /\ k - 1 <= top - level - 1 /\ ~(k <= k - 1)
      BY <1>0, <3>3, <3>4
    <3>6. p[top - (k - 1)] \in L
      BY Zenon, <2>2, <3>2, <3>5
    <3>7. PICK j : j = top - (k - 1) /\ j \in (level + 2) .. top /\ j - 1 = top - k /\ j \in 1 .. top
      BY <1>0, <3>3, <3>4
    <3>8. p[j - 1] \in Reach(route[j], {p[j]}) /\ p[j] \in L
      BY Zenon, <2>1, <3>6, <3>7
    <3>9. \A x \in L : route[j].nbrs[x] \subseteq L
      BY Zenon, <1>0, <3>7 DEF Routed, RouteOK
    <3>10. PICK g, s : g = route[j] /\ s = p[j]
      BY Zenon
    <3>11. Reach(g, {s}) \subseteq L
      BY Zenon, <3>8, <3>9, <3>10, ReachWithin
    <3> QED BY Zenon, <3>3, <3>7, <3>8, <3>10, <3>11
  <2>4. top - level - 1 \in Nat /\ top - (top - level - 1) = level + 1 /\ top - level - 1 <= top - level - 1
    BY <1>0, <1>2
  <2> QED BY Zenon, <2>1, <2>2, <2>3, <2>4
<1> QED BY Zenon, <1>1, <1>2

(* Without route graphs a search starts at the entry point. *)
LEMMA NoDescent ==
  ASSUME route = << >>, NEW level \in Nat \cup {-1}, NEW start \in DescendTo(level)
  PROVE  start = entry_point_id
<1>1. level + 1 >= Len(route)
  OBVIOUS
<1> QED BY Zenon, <1>1 DEF DescendTo

-----------------------------------------------------------------------------
(* The ids after an addition. *)
LEMMA AddedIds ==
  ASSUME LabelInv, NEW l \in Label, NEW v \in Vec, NEW level, Add(l, v, level)
  PROVE  /\ LiveId' = LiveId \cup {total_count} /\ total_count \notin LiveId
         /\ total_count \in InnerId /\ LiveId \in SUBSET InnerId /\ LiveId = Ids(total_count)
         /\ \A x \in InnerId \ (LiveId \cup {total_count}) : total_count \in Below(x)
         /\ total_count' # 0
<1>1. total_count \in Nat /\ LiveId = Ids(total_count) /\ LiveId \in SUBSET InnerId
  BY Zenon, TableFacts
<1>2. total_count \in InnerId
  BY Zenon, Added
<1>3. total_count' = total_count + 1
  BY Zenon DEF Add
<1>4. LiveId' = Ids(total_count + 1)
  BY Zenon, <1>3 DEF LiveId, Ids
<1>5. Ids(total_count + 1) = Ids(total_count) \cup {total_count} /\ total_count \notin Ids(total_count)
  BY Zenon, <1>1, IdsNext
<1>6. \A x \in InnerId \ (LiveId \cup {total_count}) : total_count \in Below(x)
  <2>1. PICK n : n = total_count
    BY Zenon
  <2>2. \A x \in InnerId : x \notin Ids(n) /\ x # n => n \in Below(x)
    BY <1>1, <2>1 DEF Ids, Below, InnerId
  <2> QED BY Zenon, <1>1, <2>1, <2>2
<1>7. total_count' # 0
  BY <1>1, <1>3
<1> QED BY Zenon, <1>1, <1>2, <1>4, <1>5, <1>6, <1>7

(* The route graphs an addition works on, new ones among them. *)
Grown(R, K, level) ==
  /\ K \in Nat /\ DOMAIN R = 1 .. K /\ level + 1 <= K /\ Len(route) <= K
  /\ K = level + 1 \/ K = Len(route)
  /\ \A j \in 1 .. K : RouteOK(R[j], LiveId) /\ R[j].tracks = use.use_reverse_edges
                       /\ (R[j].used => route # << >>)
  /\ \A j \in 1 .. Len(route) : R[j] = route[j]

(* ensure_route_graphs_for_level *)
LEMMA RoutesGrown ==
  ASSUME LabelInv, GraphInv, NEW level \in Nat \cup {-1}, NEW R, R = RouteGraphsFor(level)
  PROVE  \E K : Grown(R, K, level)
<1>1. IsRow(route) /\ Routed(route, LiveId, use.use_reverse_edges)
  BY Zenon, RouteFacts DEF GraphInv
<1>2. PICK n : n = Len(route) /\ n \in Nat /\ (n # 0 => route # << >>)
  BY Zenon, <1>1 DEF IsRow
<1>3. PICK K : K = IF level + 1 > n THEN level + 1 ELSE n
  BY Zenon
<1>4. K \in Nat /\ level + 1 <= K /\ n <= K /\ (K = level + 1 \/ K = n)
  BY <1>2, <1>3
<1>5. R = [j \in 1 .. K |-> IF j <= n THEN route[j] ELSE EmptyGraph(TRUE, use.use_reverse_edges)]
  BY Zenon, <1>2, <1>3 DEF RouteGraphsFor
<1>6. \A j \in 1 .. K : j <= n => j \in 1 .. n /\ n # 0
  BY <1>2, <1>4
<1>7. \A j \in 1 .. n : j \in 1 .. K /\ j <= n
  BY <1>2, <1>4
<1>8. ASSUME NEW j \in 1 .. K
      PROVE  RouteOK(R[j], LiveId) /\ R[j].tracks = use.use_reverse_edges
             /\ (R[j].used => route # << >>)
  <2>1. CASE j <= n
    <3>1. R[j] = route[j] /\ j \in 1 .. n /\ route # << >>
      BY Zenon, <1>2, <1>5, <1>6, <2>1
    <3> QED BY Zenon, <1>1, <1>2, <3>1 DEF Routed
  <2>2. CASE ~(j <= n)
    <3>1. PICK g : g = R[j] /\ g = EmptyGraph(TRUE, use.use_reverse_edges)
      BY Zenon, <1>5, <2>2
    <3>2. use.use_reverse_edges \in BOOLEAN
      BY Zenon, UseFacts
    <3>3. RouteOK(g, LiveId) /\ g.tracks = use.use_reverse_edges /\ ~g.used
      BY Zenon, <3>1, <3>2, RouteNew
    <3> QED BY Zenon, <3>1, <3>3
  <2> QED BY Zenon, <2>1, <2>2
<1>9. \A j \in 1 .. n : R[j] = route[j]
  BY Zenon, <1>5, <1>7
<1>10. DOMAIN R = 1 .. K
  BY Zenon, <1>5
<1> QED BY Zenon, <1>2, <1>4, <1>8, <1>9, <1>10 DEF Grown

(* What the graphs are after an addition. *)
GraphsAdded(K, level) ==
  /\ K = level + 1 \/ K = Len(route)
  /\ K \in Nat /\ level + 1 <= K /\ Len(route) <= K
  /\ Routed(route', LiveId', use.use_reverse_edges) /\ Len(route') = K
  /\ \A j \in 1 .. K : j <= level + 1 => total_count \in route'[j].nodes
  /\ \A j \in 1 .. Len(route) : route[j].nodes \subseteq route'[j].nodes
  /\ BottomOK(bottom', LiveId') /\ bottom'.tracks = bottom.tracks /\ bottom'.used
  /\ LivesIn(bottom, LiveId) /\ (entry_point_id \in InnerId => entry_point_id \in LiveId')
       => LivesIn(bottom', LiveId')

(* Add, on the graphs. *)
LEMMA AddGraphs ==
  ASSUME LabelInv, GraphInv, EntryInv, NEW l \in Label, NEW v \in Vec, NEW level \in Nat \cup {-1},
         Add(l, v, level)
  PROVE  \E K : GraphsAdded(K, level)
<1>0. /\ LiveId' = LiveId \cup {total_count} /\ total_count \notin LiveId
      /\ total_count \in InnerId /\ LiveId \in SUBSET InnerId /\ LiveId = Ids(total_count)
      /\ \A x \in InnerId \ (LiveId \cup {total_count}) : total_count \in Below(x)
  BY Zenon, AddedIds
<1>1. PICK R : R = RouteGraphsFor(level)
  BY Zenon
<1>2. PICK K : Grown(R, K, level)
  BY Zenon, <1>1, RoutesGrown
<1>3. PICK start \in DescendTo(level) :
       /\ bottom' \in Published(bottom, total_count, start)
       /\ route' \in Product([j \in DOMAIN R |->
                      IF j <= level + 1 THEN Published(R[j], total_count, start) ELSE {R[j]}])
  BY Zenon, <1>1 DEF Add
<1>4. route # << >> => start \in LiveId
  BY Zenon, <1>0, DescentWithin DEF GraphInv, EntryInv
<1>5. PICK C : C = [j \in 1 .. K |->
                      IF j <= level + 1 THEN Published(R[j], total_count, start) ELSE {R[j]}]
  BY Zenon
<1>6. route' \in Product(C) /\ DOMAIN C = 1 .. K
  BY Zenon, <1>2, <1>3, <1>5 DEF Grown
<1>7. route' \in [1 .. K -> UNION {C[j] : j \in 1 .. K}] /\ \A j \in 1 .. K : route'[j] \in C[j]
  BY Zenon, <1>6 DEF Product
<1>8. route' = [j \in 1 .. K |-> route'[j]]
  BY Zenon, <1>7
<1>9. ASSUME NEW j \in 1 .. K
      PROVE  /\ RouteOK(route'[j], LiveId') /\ route'[j].tracks = use.use_reverse_edges
             /\ j <= level + 1 => total_count \in route'[j].nodes
             /\ R[j].nodes \subseteq route'[j].nodes
  <2>1. RouteOK(R[j], LiveId) /\ R[j].tracks = use.use_reverse_edges /\ (R[j].used => route # << >>)
    BY Zenon, <1>2 DEF Grown
  <2>2. PICK g, h : g = R[j] /\ h = route'[j]
    BY Zenon
  <2>3. CASE j <= level + 1
    <3>1. h \in Published(g, total_count, start)
      BY Zenon, <1>5, <1>7, <2>2, <2>3
    <3>2. RouteOK(g, LiveId) /\ (g.used => start \in LiveId)
      BY Zenon, <1>4, <2>1, <2>2
    <3>3. RouteJoined(h, g, LiveId, total_count)
      BY Zenon, <1>0, <3>1, <3>2, RouteAdd
    <3> QED BY Zenon, <1>0, <2>1, <2>2, <3>3 DEF RouteJoined
  <2>4. CASE ~(j <= level + 1)
    <3>1. h = g
      BY Zenon, <1>5, <1>7, <2>2, <2>4
    <3>2. RouteOK(g, LiveId \cup {total_count})
      BY Zenon, <2>1, <2>2, RouteWider
    <3> QED BY Zenon, <1>0, <2>1, <2>2, <2>4, <3>1, <3>2
  <2> QED BY Zenon, <2>3, <2>4
<1>10. K \in Nat /\ (K = level + 1 \/ K = Len(route)) /\ level + 1 <= K /\ Len(route) <= K
  BY Zenon, <1>2 DEF Grown
<1>11. Routed(route', LiveId', use.use_reverse_edges) /\ Len(route') = K
  <2>1. PICK r : r = route'
    BY Zenon
  <2>2. r = [j \in 1 .. K |-> r[j]]
    BY Zenon, <1>8, <2>1
  <2>3. \A j \in 1 .. K : RouteOK(r[j], LiveId') /\ r[j].tracks = use.use_reverse_edges
    BY Zenon, <1>9, <2>1
  <2>4. Routed(r, LiveId', use.use_reverse_edges) /\ Len(r) = K
    BY Zenon, <1>10, <2>2, <2>3, MakeRoute
  <2> QED BY Zenon, <2>1, <2>4
<1>12. \A j \in 1 .. Len(route) : route[j].nodes \subseteq route'[j].nodes
  <2> SUFFICES ASSUME NEW j \in 1 .. Len(route) PROVE route[j].nodes \subseteq route'[j].nodes
    BY Zenon
  <2>1. Len(route) \in Nat
    <3>1. IsRow(route)
      BY Zenon, RouteFacts DEF GraphInv
    <3> QED BY Zenon, <3>1 DEF IsRow
  <2>2. j \in 1 .. K
    BY <1>10, <2>1
  <2>3. R[j] = route[j]
    BY Zenon, <1>2 DEF Grown
  <2> QED BY Zenon, <1>9, <2>2, <2>3
<1>13. BottomOK(bottom, LiveId)
  BY Zenon DEF GraphInv
<1>14. BottomJoined(bottom', bottom, LiveId, total_count)
  BY Zenon, <1>0, <1>3, <1>13, BottomAdd
<1>15. ASSUME LivesIn(bottom, LiveId), entry_point_id \in InnerId => entry_point_id \in LiveId'
       PROVE  LivesIn(bottom', LiveId')
  <2>1. bottom.used => start \in LiveId \cup {total_count}
    <3>1. CASE route # << >>
      BY Zenon, <1>4, <3>1
    <3>2. CASE route = << >>
      <4>1. start = entry_point_id
        BY Zenon, <3>2, NoDescent
      <4> QED BY Zenon, <1>0, <1>15, <4>1 DEF EntryInv
    <3> QED BY Zenon, <3>1, <3>2
  <2>2. LivesIn(bottom', LiveId \cup {total_count})
    <3>1. Below(total_count) = LiveId
      BY Zenon DEF Below, LiveId
    <3> QED BY Zenon, <1>0, <1>3, <1>13, <1>15, <2>1, <3>1, BottomAddLives
  <2> QED BY Zenon, <1>0, <2>2
<1>16. \A j \in 1 .. K : j <= level + 1 => total_count \in route'[j].nodes
  BY Zenon, <1>9
<1>17. BottomOK(bottom', LiveId') /\ bottom'.tracks = bottom.tracks /\ bottom'.used
  BY Zenon, <1>0, <1>14 DEF BottomJoined
<1> QED BY Zenon, <1>10, <1>11, <1>12, <1>15, <1>16, <1>17 DEF GraphsAdded

(* Add keeps the graphs and the entry point as they should be. *)
LEMMA AddKeeps ==
  ASSUME LabelInv, GraphInv, EntryInv, NEW l \in Label, NEW v \in Vec, NEW level \in use.levels,
         Add(l, v, level)
  PROVE  GraphInv' /\ EntryInv'
<1>0. level \in Nat \cup {-1}
  BY Zenon, UseFacts
<1>1. PICK K : GraphsAdded(K, level)
  BY Zenon, <1>0, AddGraphs
<1>2. /\ K = level + 1 \/ K = Len(route)
      /\ K \in Nat /\ level + 1 <= K /\ Len(route) <= K
      /\ Routed(route', LiveId', use.use_reverse_edges) /\ Len(route') = K
      /\ \A j \in 1 .. K : j <= level + 1 => total_count \in route'[j].nodes
      /\ \A j \in 1 .. Len(route) : route[j].nodes \subseteq route'[j].nodes
      /\ BottomOK(bottom', LiveId') /\ bottom'.tracks = bottom.tracks /\ bottom'.used
  BY Zenon, <1>1 DEF GraphsAdded
<1>3. use' = use
  BY Zenon DEF Add
<1>4. GraphInv'
  BY Zenon, <1>2, <1>3 DEF GraphInv
<1>5. /\ LiveId' = LiveId \cup {total_count} /\ total_count \in InnerId /\ LiveId \in SUBSET InnerId
  BY Zenon, AddedIds
<1>6. entry_point_id' = IF ~bottom.used \/ level >= Len(route) THEN total_count ELSE entry_point_id
  BY Zenon DEF Add, unique_add_needs_structure_update
<1>7. entry_point_id' \in InnerId
  BY Zenon, <1>5, <1>6 DEF EntryInv
<1>8. "FORCE_REMOVE" \notin use'.removes => entry_point_id' \in LiveId'
  BY Zenon, <1>3, <1>5, <1>6 DEF EntryInv
<1>9. Len(route) \in Nat /\ (route # << >> <=> Len(route) # 0) /\ (route' # << >> <=> K # 0)
  <2>1. IsRow(route)
    BY Zenon, RouteFacts DEF GraphInv
  <2>2. IsRow(route')
    BY Zenon, <1>2, RouteFacts
  <2> QED BY Zenon, <1>2, <2>1, <2>2 DEF IsRow
<1>10. ASSUME K # 0 PROVE entry_point_id' \in LiveId' /\ entry_point_id' \in route'[K].nodes
  <2>1. K \in 1 .. K
    BY <1>2, <1>10
  <2>2. CASE level >= Len(route)
    <3>1. entry_point_id' = total_count
      BY Zenon, <1>6, <2>2
    <3>2. K <= level + 1
      BY <1>0, <1>2, <1>9, <2>2
    <3> QED BY Zenon, <1>2, <1>5, <2>1, <3>1, <3>2
  <2>3. CASE ~(level >= Len(route))
    <3>1. K = Len(route)
      BY <1>0, <1>2, <1>9, <2>3
    <3>2. route # << >>
      BY Zenon, <1>9, <1>10, <3>1
    <3>3. bottom.used /\ entry_point_id \in LiveId /\ entry_point_id \in route[K].nodes
      BY Zenon, <3>1, <3>2 DEF EntryInv
    <3>4. entry_point_id' = entry_point_id
      BY Zenon, <1>6, <2>3, <3>3
    <3> QED BY Zenon, <1>2, <1>5, <2>1, <3>1, <3>3, <3>4
  <2> QED BY Zenon, <2>2, <2>3
<1>11. EntryInv'
  BY Zenon, <1>2, <1>7, <1>8, <1>9, <1>10 DEF EntryInv
<1> QED BY Zenon, <1>4, <1>11

-----------------------------------------------------------------------------
(* A choice of find_new_entry_point: an element other than the removed one, and a node of the   *)
(* topmost route graph that is kept.                                                           *)
ChosenEntry(e, id) ==
  /\ e.ep \in InnerId /\ Routed(e.route, LiveId, use.use_reverse_edges)
  /\ e.route # << >> => e.ep \in LiveId /\ e.ep # id /\ e.ep \in e.route[Len(e.route)].nodes

(* A set of places in a row has a last one. *)
LEMMA LastPlace ==
  ASSUME NEW n \in Nat, NEW U \in SUBSET (1 .. n), U # {}
  PROVE  \E j \in U : \A k \in U : k <= j
<1>1. PICK T : T = {i \in Nat : n - i \in U}
  BY Zenon
<1>2. T \in SUBSET Nat /\ T # {}
  <2>1. PICK j \in U : TRUE
    BY Zenon
  <2>2. n - j \in Nat /\ n - (n - j) = j
    BY <2>1
  <2>3. n - j \in T
    BY Zenon, <1>1, <2>1, <2>2
  <2> QED BY Zenon, <1>1, <2>3
<1>3. PICK i \in T : \A y \in T : i <= y
  BY Zenon, <1>2, LeastNumber
<1>4. i \in Nat /\ n - i \in U
  BY Zenon, <1>1, <1>3
<1>5. \A k \in U : n - k \in Nat /\ n - (n - k) = k /\ k \in Nat
  OBVIOUS
<1>6. \A k \in U : n - k \in T
  BY Zenon, <1>1, <1>5
<1>7. \A k \in U : i <= n - k
  BY Zenon, <1>3, <1>6
<1>8. \A k \in U : k <= n - i
  BY <1>4, <1>5, <1>7
<1> QED BY Zenon, <1>4, <1>8

(* No route graphs. *)
LEMMA NoRoutes ==
  ASSUME NEW L, NEW t
  PROVE  Routed(<< >>, L, t)
<1>1. \A S : << >> \in Seq(S)
  OBVIOUS
<1>2. \A j \in 1 .. Len(<< >>) : FALSE
  OBVIOUS
<1> QED BY Zenon, <1>1, <1>2 DEF Routed

(* The members of a choice of an entry point. *)
LEMMA EntryMembers ==
  ASSUME NEW e, NEW a, NEW r, e = [ep |-> a, route |-> r]
  PROVE  e.ep = a /\ e.route = r
  OBVIOUS

(* find_new_entry_point *)
LEMMA NewEntryChosen ==
  ASSUME LabelInv, GraphInv, entry_point_id \in LiveId, NEW e, e \in NewEntries
  PROVE  ChosenEntry(e, entry_point_id)
<1>0. IsRow(route) /\ Routed(route, LiveId, use.use_reverse_edges) /\ LiveId \in SUBSET InnerId
  BY Zenon, RouteFacts, TableFacts DEF GraphInv
<1>1. PICK U : U = {j \in DOMAIN route : route[j].nbrs[entry_point_id] \ {entry_point_id} # {}}
  BY Zenon
<1>2. CASE U = {}
  <2>1. e = [ep |-> entry_point_id, route |-> << >>]
    BY Zenon, <1>1, <1>2 DEF NewEntries
  <2>2. e.ep = entry_point_id /\ e.route = << >>
    BY Zenon, <2>1, EntryMembers
  <2>3. Routed(<< >>, LiveId, use.use_reverse_edges)
    BY Zenon, NoRoutes
  <2> QED BY Zenon, <1>0, <2>2, <2>3 DEF ChosenEntry
<1>3. CASE U # {}
  <2>1. PICK top : top = CHOOSE j \in U : \A k \in U : k <= j
    BY Zenon
  <2>2. PICK n : n = Len(route) /\ n \in Nat /\ DOMAIN route = 1 .. n
    BY Zenon, <1>0 DEF IsRow
  <2>3. U \in SUBSET (1 .. n)
    BY Zenon, <1>1, <2>2
  <2>4. \E j \in U : \A k \in U : k <= j
    BY Zenon, <1>3, <2>2, <2>3, LastPlace
  <2>5. top \in U
    BY Zenon, <2>1, <2>4
  <2>6. top \in 1 .. n
    BY Zenon, <2>3, <2>5
  <2>7. PICK a \in route[top].nbrs[entry_point_id] \ {entry_point_id} :
          e = [ep |-> a, route |-> SubSeq(route, 1, top)]
    BY Zenon, <1>1, <1>3, <2>1 DEF NewEntries
  <2>8. e.ep = a /\ e.route = SubSeq(route, 1, top)
    BY Zenon, <2>7, EntryMembers
  <2>9. RouteOK(route[top], LiveId)
    BY Zenon, <1>0, <2>2, <2>6 DEF Routed
  <2>10. a \in LiveId /\ a # entry_point_id /\ a \in route[top].nodes
    BY Zenon, <1>0, <2>7, <2>9 DEF RouteOK
  <2>11. PICK S : route \in Seq(S) /\ S = Graph
    BY Zenon, <1>0 DEF Routed
  <2>12. /\ SubSeq(route, 1, top) \in Seq(S) /\ Len(SubSeq(route, 1, top)) = top
         /\ \A j \in 1 .. top : SubSeq(route, 1, top)[j] = route[j] /\ j \in 1 .. n
         /\ top \in 1 .. top
    BY <2>2, <2>6, <2>11
  <2>13. Routed(SubSeq(route, 1, top), LiveId, use.use_reverse_edges)
    BY Zenon, <1>0, <2>2, <2>11, <2>12 DEF Routed
  <2> QED BY Zenon, <1>0, <2>8, <2>10, <2>12, <2>13 DEF ChosenEntry
<1> QED BY Zenon, <1>2, <1>3

(* The ids after a physical removal. *)
LEMMA RemovedIds ==
  ASSUME LabelInv, NEW l \in Label, RemoveForce(l)
  PROVE  /\ LiveId = LiveId' \cup {total_count - 1} /\ total_count - 1 \notin LiveId'
         /\ LiveId \subseteq InnerId /\ TryGetIdByLabel(labels, l, TRUE) \in LiveId
         /\ \A id \in LiveId, x \in InnerId \ LiveId : id \in Below(x)
         /\ total_count # 0
<1>1. total_count \in Nat /\ LiveId = Ids(total_count) /\ LiveId \subseteq InnerId
  BY Zenon, TableFacts
<1>2. /\ TryGetIdByLabel(labels, l, TRUE) = labels.remap[l] /\ labels.remap[l] \in Ids(total_count)
      /\ total_count' = total_count - 1 /\ total_count - 1 \in 0 .. MaxIds
  BY Zenon, ForceRemoved
<1>3. PICK last \in Nat : last = total_count - 1 /\ total_count = last + 1 /\ total_count # 0
  BY <1>1, <1>2
<1>4. LiveId' = Ids(last)
  BY Zenon, <1>2, <1>3 DEF LiveId, Ids
<1>5. Ids(last + 1) = Ids(last) \cup {last} /\ last \notin Ids(last)
  BY Zenon, IdsNext
<1>6. \A id \in Ids(total_count), x \in InnerId : x \notin Ids(total_count) => id \in Below(x)
  BY <1>1 DEF Ids, Below, InnerId
<1> QED BY Zenon, <1>1, <1>2, <1>3, <1>4, <1>5, <1>6

(* RemoveForce, on the route graphs. *)
LEMMA RemoveRoutes ==
  ASSUME NEW K, NEW last, last \notin K, LiveId = K \cup {last}, LiveId \subseteq InnerId,
         NEW id \in LiveId, NEW r0, Routed(r0, LiveId, TRUE),
         NEW r, r \in Product([j \in DOMAIN r0 |-> Detached(r0[j], id)]),
         NEW r1, r1 = [j \in DOMAIN r |-> MoveNode(r[j], last, id)]
  PROVE  /\ Routed(r1, K, TRUE) /\ Len(r1) = Len(r0)
         /\ \A j \in 1 .. Len(r0) : RouteParted(r1[j], r0[j], K, last, id)
<1>1. IsRow(r0)
  BY Zenon, RouteFacts
<1>2. PICK n : n = Len(r0) /\ n \in Nat /\ DOMAIN r0 = 1 .. n
  BY Zenon, <1>1 DEF IsRow
<1>3. PICK C : C = [j \in 1 .. n |-> Detached(r0[j], id)]
  BY Zenon
<1>4. r \in Product(C) /\ DOMAIN C = 1 .. n
  BY Zenon, <1>2, <1>3
<1>5. r \in [1 .. n -> UNION {C[j] : j \in 1 .. n}] /\ \A j \in 1 .. n : r[j] \in C[j]
  BY Zenon, <1>4 DEF Product
<1>6. r1 = [j \in 1 .. n |-> MoveNode(r[j], last, id)]
  BY Zenon, <1>5
<1>7. r1 = [j \in 1 .. n |-> r1[j]]
  BY Zenon, <1>6
<1>8. ASSUME NEW j \in 1 .. n PROVE RouteParted(r1[j], r0[j], K, last, id) /\ r0[j].tracks = TRUE
  <2>1. PICK g, h, m : g = r0[j] /\ h = r[j] /\ m = r1[j]
    BY Zenon
  <2>2. RouteOK(g, LiveId) /\ g.tracks = TRUE
    BY Zenon, <1>2, <2>1 DEF Routed
  <2>3. h \in Detached(g, id) /\ m = MoveNode(h, last, id)
    BY Zenon, <1>3, <1>5, <1>6, <2>1
  <2>4. g.tracks
    BY Zenon, <2>2
  <2>5. RouteParted(m, g, K, last, id)
    BY Zenon, <2>2, <2>3, <2>4, RouteRemove
  <2> QED BY Zenon, <2>1, <2>2, <2>5
<1>9. \A j \in 1 .. n : RouteOK(r1[j], K) /\ r1[j].tracks = TRUE
  BY Zenon, <1>8 DEF RouteParted
<1>10. Routed(r1, K, TRUE) /\ Len(r1) = n
  <2>1. PICK t, s : t = TRUE /\ s = r1
    BY Zenon
  <2>2. s = [j \in 1 .. n |-> s[j]] /\ n \in Nat
    BY Zenon, <1>2, <1>7, <2>1
  <2>3. \A j \in 1 .. n : RouteOK(s[j], K) /\ s[j].tracks = t
    BY Zenon, <1>9, <2>1
  <2>4. Routed(s, K, t) /\ Len(s) = n
    BY Zenon, <2>2, <2>3, MakeRoute
  <2> QED BY Zenon, <2>1, <2>4
<1> QED BY Zenon, <1>2, <1>8, <1>10

(* Physical removal needs reverse edges. *)
LEMMA ForceTracks ==
  ASSUME Disciplined, LabelInv, "FORCE_REMOVE" \in use.removes
  PROVE  use.use_reverse_edges = TRUE
<1>1. use \in Uses /\ use.use_reverse_edges \in BOOLEAN
  BY Zenon, UseFacts
<1>2. "FORCE_REMOVE" # "MARK_REMOVE"
  OBVIOUS
<1> QED BY Zenon, <1>1, <1>2 DEF Disciplined

(* RemoveForce keeps the graphs and the entry point as they should be. *)
LEMMA RemoveKeeps ==
  ASSUME Disciplined, LabelInv, GraphInv, EntryInv, NEW l \in Label, RemoveForce(l)
  PROVE  GraphInv' /\ EntryInv' /\ (LivesIn(bottom, LiveId) => LivesIn(bottom', LiveId'))
<1>1. PICK id, last, K : id = TryGetIdByLabel(labels, l, TRUE) /\ last = total_count - 1 /\ K = LiveId'
  BY Zenon
<1>2. /\ LiveId = K \cup {last} /\ last \notin K /\ LiveId \subseteq InnerId /\ id \in LiveId
      /\ \A x \in InnerId \ LiveId : id \in Below(x)
      /\ total_count # 0
  <2>1. /\ LiveId = LiveId' \cup {total_count - 1} /\ total_count - 1 \notin LiveId'
        /\ LiveId \subseteq InnerId /\ TryGetIdByLabel(labels, l, TRUE) \in LiveId
        /\ \A i \in LiveId, x \in InnerId \ LiveId : i \in Below(x)
        /\ total_count # 0
    BY Zenon, RemovedIds
  <2> QED BY Zenon, <1>1, <2>1
<1>3. use' = use /\ "FORCE_REMOVE" \in use.removes
  BY Zenon DEF RemoveForce
<1>4. use.use_reverse_edges = TRUE
  BY Zenon, <1>3, ForceTracks
<1>5. PICK e \in IF id = entry_point_id THEN NewEntries ELSE {[ep |-> entry_point_id, route |-> route]} :
       /\ \E b \in Detached(bottom, id) : bottom' = MoveNode(b, last, id)
       /\ \E r \in Product([j \in DOMAIN e.route |-> Detached(e.route[j], id)]) :
            route' = [j \in DOMAIN r |-> MoveNode(r[j], last, id)]
       /\ entry_point_id' = IF last # id /\ e.ep = last THEN id ELSE e.ep
  BY Zenon, <1>1 DEF RemoveForce
<1>6. bottom.used /\ entry_point_id \in InnerId
  BY Zenon, <1>2 DEF EntryInv
<1>7. ChosenEntry(e, id)
  <2>1. CASE id = entry_point_id
    <3>1. e \in NewEntries /\ entry_point_id \in LiveId
      BY Zenon, <1>2, <1>5, <2>1
    <3> QED BY Zenon, <2>1, <3>1, NewEntryChosen
  <2>2. CASE id # entry_point_id
    <3>1. e = [ep |-> entry_point_id, route |-> route]
      BY Zenon, <1>5, <2>2
    <3>2. e.ep = entry_point_id /\ e.route = route
      BY <3>1
    <3> QED BY Zenon, <1>6, <2>2, <3>2 DEF ChosenEntry, GraphInv, EntryInv
  <2> QED BY Zenon, <2>1, <2>2
<1>8. PICK ep, r0 : ep = e.ep /\ r0 = e.route
  BY Zenon
<1>9. /\ ep \in InnerId /\ Routed(r0, LiveId, TRUE)
      /\ r0 # << >> => ep \in LiveId /\ ep # id /\ ep \in r0[Len(r0)].nodes
  BY Zenon, <1>4, <1>7, <1>8 DEF ChosenEntry
<1>10. PICK r \in Product([j \in DOMAIN r0 |-> Detached(r0[j], id)]) :
         route' = [j \in DOMAIN r |-> MoveNode(r[j], last, id)]
  BY Zenon, <1>5, <1>8
<1>11. PICK r1 : r1 = route' /\ r1 = [j \in DOMAIN r |-> MoveNode(r[j], last, id)]
  BY Zenon, <1>10
<1>12. /\ Routed(r1, K, TRUE) /\ Len(r1) = Len(r0)
       /\ \A j \in 1 .. Len(r0) : RouteParted(r1[j], r0[j], K, last, id)
  BY Zenon, <1>2, <1>9, <1>10, <1>11, RemoveRoutes
<1>13. BottomParted(bottom', bottom, K)
  <2>1. PICK b \in Detached(bottom, id) : bottom' = MoveNode(b, last, id)
    BY Zenon, <1>5
  <2>2. BottomOK(bottom, LiveId) /\ bottom.tracks
    BY Zenon, <1>4 DEF GraphInv
  <2>3. PICK g, m : g = bottom /\ m = bottom'
    BY Zenon
  <2>4. b \in Detached(g, id) /\ m = MoveNode(b, last, id) /\ BottomOK(g, LiveId) /\ g.tracks
    BY Zenon, <2>1, <2>2, <2>3
  <2>5. BottomParted(m, g, K)
    BY Zenon, <1>2, <2>4, BottomRemove
  <2> QED BY Zenon, <2>3, <2>5
<1>14. /\ BottomOK(bottom', LiveId') /\ bottom'.tracks = bottom.tracks /\ bottom'.used
       /\ LivesIn(bottom, LiveId) => LivesIn(bottom', LiveId')
  BY Zenon, <1>1, <1>6, <1>13 DEF BottomParted
<1>15. GraphInv'
  BY Zenon, <1>1, <1>3, <1>4, <1>11, <1>12, <1>14 DEF GraphInv
<1>16. entry_point_id' = IF last # id /\ ep = last THEN id ELSE ep
  BY Zenon, <1>5, <1>8
<1>17. entry_point_id' \in InnerId
  BY Zenon, <1>2, <1>9, <1>16
<1>18. ASSUME r1 # << >> PROVE entry_point_id' \in K /\ entry_point_id' \in r1[Len(r1)].nodes
  <2>1. PICK n : n = Len(r0) /\ n \in Nat /\ (r0 # << >> <=> n # 0) /\ (r1 # << >> <=> n # 0)
    <3>1. IsRow(r0) /\ IsRow(r1)
      BY Zenon, <1>9, <1>12, RouteFacts
    <3> QED BY Zenon, <1>12, <3>1 DEF IsRow
  <2>2. n \in 1 .. n
    BY <1>18, <2>1
  <2>3. RouteParted(r1[n], r0[n], K, last, id) /\ ep \in LiveId /\ ep # id /\ ep \in r0[n].nodes
    BY Zenon, <1>9, <1>12, <1>18, <2>1, <2>2
  <2>4. /\ \A x \in r0[n].nodes : x # last => x \in r1[n].nodes
        /\ last # id /\ last \in r0[n].nodes => id \in r1[n].nodes
    BY Zenon, <2>3 DEF RouteParted
  <2>5. CASE ep = last
    BY Zenon, <1>2, <1>12, <1>16, <2>1, <2>3, <2>4, <2>5
  <2>6. CASE ep # last
    BY Zenon, <1>2, <1>12, <1>16, <2>1, <2>3, <2>4, <2>6
  <2> QED BY Zenon, <2>5, <2>6
<1>19. EntryInv'
  BY Zenon, <1>1, <1>3, <1>11, <1>14, <1>17, <1>18 DEF EntryInv
<1> QED BY Zenon, <1>14, <1>15, <1>19

-----------------------------------------------------------------------------
(* What a loaded graph keeps. *)
Loaded(h, g) ==
  /\ Sound(h) /\ h.sparse = g.sparse /\ h.tracks = g.tracks /\ h.nodes = g.nodes /\ h.nbrs = g.nbrs
  /\ ~g.sparse => h.used = g.used

(* Load, without reverse edges. *)
LEMMA LoadIsSound ==
  ASSUME NEW g, Sound(g), ~g.tracks, NEW h, h = Load(g)
  PROVE  Loaded(h, g)
<1>0. IsGraph(g)
  BY Zenon DEF Sound
<1>1. PICK rv : rv = [i \in InnerId |-> {}]
  BY Zenon
<1>2. PICK u : u = IF g.sparse THEN g.nodes # {} ELSE g.used
  BY Zenon
<1>3. PICK s, t, N, B : s = g.sparse /\ t = g.tracks /\ N = g.nodes /\ B = g.nbrs
  BY Zenon
<1>4. h = [sparse |-> s, tracks |-> t, nodes |-> N, nbrs |-> B, rev |-> rv, used |-> u]
  BY Zenon, <1>1, <1>2, <1>3 DEF Load
<1>5. h.sparse = s /\ h.tracks = t /\ h.nodes = N /\ h.nbrs = B /\ h.rev = rv /\ h.used = u
  BY SMT, <1>4
<1>6. s \in BOOLEAN /\ t \in BOOLEAN /\ u \in BOOLEAN /\ rv \in [InnerId -> SUBSET InnerId]
  BY Zenon, <1>0, <1>1, <1>2, <1>3 DEF IsGraph
<1>7. h = [sparse |-> h.sparse, tracks |-> h.tracks, nodes |-> h.nodes, nbrs |-> h.nbrs,
           rev |-> h.rev, used |-> h.used]
  BY Zenon, <1>4, <1>5
<1>8. IsGraph(h)
  BY Zenon, <1>0, <1>3, <1>5, <1>6, <1>7 DEF IsGraph
<1>9. h.sparse = g.sparse /\ h.tracks = g.tracks /\ h.nodes = g.nodes /\ h.nbrs = g.nbrs
      /\ (~g.sparse => h.used = g.used)
  BY Zenon, <1>2, <1>3, <1>5
<1>10. MaximumDegree(h) = MaximumDegree(g)
  BY Zenon, <1>9 DEF MaximumDegree
<1>11. Sound(h)
  BY Zenon, <1>8, <1>9, <1>10 DEF Sound, Within, NoLoops
<1> QED BY Zenon, <1>9, <1>11 DEF Loaded

(* An index is cloned while nothing is removed, and without reverse edges. *)
LEMMA CloneTracks ==
  ASSUME Disciplined, LabelInv, use.clones # "never"
  PROVE  use.use_reverse_edges = FALSE
<1>1. use \in Uses /\ use.use_reverse_edges \in BOOLEAN
  BY Zenon, UseFacts
<1> QED BY Zenon, <1>1 DEF Disciplined

(* The callers remove in one mode. *)
LEMMA DisciplinedIsOneMode ==
  ASSUME Disciplined
  PROVE  OneMode
<1>1. /\ "FORCE_REMOVE" # "MARK_REMOVE" /\ "nothing_removed" # "always" /\ "never" # "always"
      /\ "FORCE_REMOVE" \notin {"MARK_REMOVE"} /\ "MARK_REMOVE" \notin {"FORCE_REMOVE"}
  OBVIOUS
<1> SUFFICES ASSUME NEW u \in Uses
             PROVE  u.removes # {"MARK_REMOVE", "FORCE_REMOVE"} /\ u.clones # "always"
  BY Zenon DEF OneMode
<1>2. CASE /\ u.removes \subseteq {"MARK_REMOVE"}
           /\ u.clones = "never" \/ u.clones = "nothing_removed"
  <2>1. "FORCE_REMOVE" \notin u.removes
    BY Zenon, <1>1, <1>2
  <2> QED BY Zenon, <1>1, <1>2, <2>1
<1>3. CASE u.removes = {"FORCE_REMOVE"} /\ u.clones = "never"
  <2>1. "MARK_REMOVE" \notin u.removes
    BY Zenon, <1>1, <1>3
  <2> QED BY Zenon, <1>1, <1>3, <2>1
<1> QED BY Zenon, <1>2, <1>3 DEF Disciplined

(* Clone keeps the graphs and the entry point as they should be. *)
LEMMA CloneKeeps ==
  ASSUME Disciplined, LabelInv, GraphInv, EntryInv, Clone
  PROVE  GraphInv' /\ EntryInv' /\ (LivesIn(bottom, LiveId) => LivesIn(bottom', LiveId'))
<1>0. OneMode
  BY Zenon, DisciplinedIsOneMode
<1>1. /\ use.clones # "never" /\ use' = use /\ entry_point_id' = entry_point_id
      /\ bottom' = Load(bottom) /\ route' = [j \in DOMAIN route |-> Load(route[j])]
  BY Zenon DEF Clone
<1>2. total_count' = total_count
  BY Zenon, <1>0, Cloned
<1>3. LiveId' = LiveId
  BY Zenon, <1>2 DEF LiveId
<1>4. use.use_reverse_edges = FALSE
  BY Zenon, <1>1, CloneTracks
<1>5. BottomOK(bottom, LiveId) /\ ~bottom.tracks /\ Sound(bottom) /\ ~bottom.sparse
  BY Zenon, <1>4 DEF GraphInv, BottomOK
<1>6. Loaded(bottom', bottom)
  BY Zenon, <1>1, <1>5, LoadIsSound
<1>7. BottomOK(bottom', LiveId) /\ bottom'.tracks = bottom.tracks /\ bottom'.used = bottom.used
      /\ bottom'.nbrs = bottom.nbrs
  BY Zenon, <1>5, <1>6 DEF Loaded, BottomOK
<1>8. PICK n : n = Len(route) /\ n \in Nat /\ DOMAIN route = 1 .. n /\ (route # << >> <=> n # 0)
  <2>1. IsRow(route)
    BY Zenon, RouteFacts DEF GraphInv
  <2> QED BY Zenon, <2>1 DEF IsRow
<1>9. PICK r : r = route' /\ r = [j \in 1 .. n |-> Load(route[j])]
  BY Zenon, <1>1, <1>8
<1>10. r = [j \in 1 .. n |-> r[j]]
  BY Zenon, <1>9
<1>11. ASSUME NEW j \in 1 .. n
       PROVE  RouteOK(r[j], LiveId) /\ r[j].tracks = FALSE /\ r[j].nodes = route[j].nodes
  <2>1. PICK g, h : g = route[j] /\ h = r[j]
    BY Zenon
  <2>2. RouteOK(g, LiveId) /\ g.tracks = FALSE
    BY Zenon, <1>4, <1>8, <2>1 DEF GraphInv, Routed
  <2>3. Sound(g) /\ ~g.tracks /\ h = Load(g)
    BY Zenon, <1>9, <2>1, <2>2 DEF RouteOK
  <2>4. Loaded(h, g)
    BY Zenon, <2>3, LoadIsSound
  <2>5. Sound(h) /\ h.sparse = g.sparse /\ h.tracks = FALSE /\ h.nodes = g.nodes /\ h.nbrs = g.nbrs
    BY Zenon, <2>2, <2>4 DEF Loaded
  <2>6. RouteOK(h, LiveId)
    BY Zenon, <2>2, <2>5 DEF RouteOK
  <2> QED BY Zenon, <2>1, <2>5, <2>6
<1>12. Routed(r, LiveId, FALSE) /\ Len(r) = n
  BY Zenon, <1>8, <1>10, <1>11, MakeRoute
<1>13. GraphInv'
  BY Zenon, <1>1, <1>3, <1>4, <1>5, <1>7, <1>9, <1>12 DEF GraphInv
<1>14. r # << >> <=> n # 0
  <2>1. IsRow(r)
    BY Zenon, <1>12, RouteFacts
  <2> QED BY Zenon, <1>12, <2>1 DEF IsRow
<1>15. n # 0 => r[n].nodes = route[n].nodes
  <2>1. n # 0 => n \in 1 .. n
    BY <1>8
  <2> QED BY Zenon, <1>11, <2>1
<1>16. route' # << >> => bottom'.used /\ entry_point_id' \in LiveId'
                         /\ entry_point_id' \in route'[Len(route')].nodes
  BY Zenon, <1>1, <1>3, <1>7, <1>8, <1>9, <1>12, <1>14, <1>15 DEF EntryInv
<1>17. EntryInv'
  BY Zenon, <1>1, <1>2, <1>3, <1>7, <1>16 DEF EntryInv
<1> QED BY Zenon, <1>3, <1>7, <1>13, <1>17 DEF LivesIn

-----------------------------------------------------------------------------
(* The inductive invariant. *)
IndexInv == LabelInv /\ GraphInv /\ EntryInv

(* An operation that leaves the graphs, the entry point and the count alone. *)
LEMMA SameGraphs ==
  ASSUME GraphInv, EntryInv, UNCHANGED <<bottom, route, entry_point_id, total_count, use>>
  PROVE  GraphInv' /\ EntryInv' /\ (LivesIn(bottom, LiveId) => LivesIn(bottom', LiveId'))
<1>1. LiveId' = LiveId
  BY Zenon DEF LiveId
<1> QED BY Zenon, <1>1 DEF GraphInv, EntryInv

(* Every step keeps the graphs and the entry point as they should be. *)
LEMMA GraphStep ==
  ASSUME Disciplined, IndexInv, [Next]_vars
  PROVE  GraphInv' /\ EntryInv'
<1>0. LabelInv /\ GraphInv /\ EntryInv
  BY Zenon DEF IndexInv
<1>1. ASSUME NEW l \in Label, NEW v \in Vec, NEW level \in use.levels, Add(l, v, level)
      PROVE  GraphInv' /\ EntryInv'
  BY Zenon, <1>0, <1>1, AddKeeps
<1>2. ASSUME NEW l \in Label, RemoveMark(l) PROVE GraphInv' /\ EntryInv'
  <2>1. UNCHANGED <<bottom, route, entry_point_id, total_count, use>>
    BY Zenon, <1>2 DEF RemoveMark
  <2> QED BY Zenon, <1>0, <2>1, SameGraphs
<1>3. ASSUME NEW l \in Label, RemoveForce(l) PROVE GraphInv' /\ EntryInv'
  BY Zenon, <1>0, <1>3, RemoveKeeps
<1>4. ASSUME NEW old \in Label, NEW new \in Label, UpdateId(old, new) PROVE GraphInv' /\ EntryInv'
  <2>1. UNCHANGED <<bottom, route, entry_point_id, total_count, use>>
    BY Zenon, <1>4 DEF UpdateId
  <2> QED BY Zenon, <1>0, <2>1, SameGraphs
<1>5. ASSUME Clone PROVE GraphInv' /\ EntryInv'
  BY Zenon, <1>0, <1>5, CloneKeeps
<1>6. ASSUME UNCHANGED vars PROVE GraphInv' /\ EntryInv'
  <2>1. UNCHANGED <<bottom, route, entry_point_id, total_count, use>>
    BY Zenon, <1>6 DEF vars
  <2> QED BY Zenon, <1>0, <2>1, SameGraphs
<1> QED BY Zenon, <1>1, <1>2, <1>3, <1>4, <1>5, <1>6 DEF Next

(* A new index. *)
LEMMA IndexInit == Init => IndexInv
<1> SUFFICES ASSUME Init PROVE IndexInv
  BY Zenon
<1>1. LabelInv
  BY Zenon, LabelInit
<1>2. /\ bottom = EmptyGraph(FALSE, use.use_reverse_edges) /\ route = << >>
      /\ entry_point_id = INVALID_ENTRY_POINT /\ total_count = 0
  BY Zenon DEF Init
<1>3. use.use_reverse_edges \in BOOLEAN /\ FALSE \in BOOLEAN
  BY Zenon, <1>1, UseFacts
<1>4. PICK t, g : t = use.use_reverse_edges /\ t \in BOOLEAN /\ g = bottom /\ g = EmptyGraph(FALSE, t)
  BY Zenon, <1>2, <1>3
<1>5. /\ IsGraph(g) /\ ~g.sparse /\ g.tracks = t /\ ~g.used
      /\ \A x \in InnerId : g.nbrs[x] = {} /\ g.rev[x] = {}
  BY Zenon, <1>3, <1>4, EmptySound
<1>6. \A x \in InnerId : Cardinality(g.nbrs[x]) <= MaximumDegree(g)
  BY Zenon, <1>5, NoneWithin
<1>7. Sound(g)
  BY Zenon, <1>5, <1>6 DEF Sound, Exact, Within, NoLoops
<1>8. BottomOK(g, LiveId)
  BY Zenon, <1>5, <1>7 DEF BottomOK
<1>9. Routed(<< >>, LiveId, t)
  BY Zenon, NoRoutes
<1>10. GraphInv
  BY Zenon, <1>2, <1>4, <1>5, <1>8, <1>9 DEF GraphInv
<1>11. EntryInv
  BY Zenon, <1>2, <1>4, <1>5 DEF EntryInv
<1> QED BY Zenon, <1>1, <1>10, <1>11 DEF IndexInv

(* The inductive invariant holds. *)
LEMMA IndexAlways ==
  ASSUME Disciplined
  PROVE  Spec => []IndexInv
<1>1. IndexInv /\ [Next]_vars => IndexInv'
  <2> SUFFICES ASSUME IndexInv, [Next]_vars PROVE IndexInv'
    BY Zenon
  <2>1. OneMode /\ LabelInv
    BY Zenon, DisciplinedIsOneMode DEF IndexInv
  <2>2. LabelInv'
    BY Zenon, <2>1, CountersStep, TableStep, CodesStep DEF LabelInv
  <2> QED BY Zenon, <2>2, GraphStep DEF IndexInv
<1> QED BY IndexInit, <1>1, PTL DEF Spec

(* Searches start at an element wherever none is removed physically, and at a node of the        *)
(* topmost route graph, for any number of elements and levels: through additions that raise the  *)
(* top, removals of the entry point and moves of the last element.                              *)
THEOREM EntryPointStaysRight ==
  ASSUME Disciplined
  PROVE  Spec => []EntryPointIsRight
<1>1. IndexInv => EntryPointIsRight
  <2> SUFFICES ASSUME IndexInv PROVE EntryPointIsRight
    BY Zenon
  <2>0. EntryInv /\ LabelInv
    BY Zenon DEF IndexInv
  <2>1. EntryPointLive
    <3> SUFFICES ASSUME use.removes = {"MARK_REMOVE"}, total_count > 0 PROVE entry_point_id \in LiveId
      BY Zenon DEF EntryPointLive
    <3>1. "FORCE_REMOVE" \notin use.removes
      OBVIOUS
    <3>2. total_count # 0
      <4>1. total_count \in Nat
        BY Zenon, <2>0, TableFacts
      <4> QED BY <4>1
    <3> QED BY Zenon, <2>0, <3>1, <3>2 DEF EntryInv
  <2>2. EntryAtTop
    BY Zenon, <2>0 DEF EntryAtTop, EntryInv
  <2> QED BY Zenon, <2>1, <2>2 DEF EntryPointIsRight
<1> QED BY IndexAlways, <1>1, PTL

(* Between operations the graphs are what force removal and Move rely on, for any number of      *)
(* elements, levels and degrees: typed, no list longer than its graph allows, and reverse edges  *)
(* that are the lists turned around.                                                           *)
THEOREM GraphsStaySound ==
  ASSUME Disciplined
  PROVE  Spec => []GraphsAreSound
<1>1. IndexInv => GraphsAreSound
  <2> SUFFICES ASSUME IndexInv PROVE TypeOK /\ DegreeBound /\ ReverseEdgesExact
    BY Zenon DEF GraphsAreSound
  <2>0. LabelInv /\ GraphInv /\ EntryInv
    BY Zenon DEF IndexInv
  <2>1. \A g \in Graphs : Sound(g)
    <3> SUFFICES ASSUME NEW g \in Graphs PROVE Sound(g)
      BY Zenon
    <3>1. CASE g = bottom
      BY Zenon, <2>0, <3>1 DEF GraphInv, BottomOK
    <3>2. CASE \E j \in DOMAIN route : g = route[j]
      <4>1. IsRow(route)
        BY Zenon, <2>0, RouteFacts DEF GraphInv
      <4> QED BY ZenonT(40), <2>0, <3>2, <4>1 DEF GraphInv, Routed, RouteOK, IsRow
    <3> QED BY Zenon, <3>1, <3>2 DEF Graphs
  <2>2. DegreeBound
    BY Zenon, <2>1 DEF DegreeBound, Sound, Within
  <2>3. ReverseEdgesExact
    BY Zenon, <2>1 DEF ReverseEdgesExact, Sound, Exact
  <2>4. \A g \in Graphs : g \in Graph
    BY Zenon, <2>1, GraphByMembers DEF Sound
  <2>5. /\ labels.deleted \subseteq InnerId
        /\ DOMAIN labels.remap \subseteq Label
        /\ \A l \in DOMAIN labels.remap : labels.remap[l] \in InnerId
    BY Zenon, <2>0, TableFacts
  <2>6. DOMAIN labels.table \in {0 .. n - 1 : n \in 0 .. RoundUp(MaxIds)}
    BY Zenon, <2>0 DEF LabelInv, Counters, TableSpan, Ids
  <2>7. \A i \in DOMAIN labels.table : labels.table[i] \in Label
    <3>1. PICK m \in Nat : labels.table \in [Ids(m) -> Label]
      BY Zenon, <2>0 DEF LabelInv, TableInv, Agrees, Shape
    <3> QED BY Zenon, <3>1
  <2>8. /\ codes \in [InnerId -> Vec \cup {NoVec}] /\ code_count \in 0 .. MaxIds
        /\ total_count \in 0 .. MaxIds
    BY Zenon, <2>0 DEF LabelInv, Counters, CodesInv
  <2>9. TypeOK
    BY Zenon, <2>0, <2>4, <2>5, <2>6, <2>7, <2>8 DEF TypeOK, EntryInv
  <2> QED BY Zenon, <2>2, <2>3, <2>9
<1> QED BY IndexAlways, <1>1, PTL

(* As long as the entry point is an element, or the id the next element gets, no operation makes  *)
(* a list mention an id that is not an element, for any number of elements and levels: force      *)
(* removal repairs every list that mentioned the removed element, and Move every list that       *)
(* mentioned the last one.                                                                     *)
THEOREM DeadEdgesStayAway ==
  ASSUME Disciplined
  PROVE  Spec => DeadEdgesNeedDeadEntry
<1>1. IndexInv /\ [Next]_vars /\ entry_point_id <= total_count /\ NoDeadEdges => NoDeadEdges'
  <2> SUFFICES ASSUME IndexInv, [Next]_vars, entry_point_id <= total_count, NoDeadEdges
               PROVE  NoDeadEdges'
    BY Zenon
  <2>0. LabelInv /\ GraphInv /\ EntryInv
    BY Zenon DEF IndexInv
  <2>1. LivesIn(bottom, LiveId)
    BY Zenon DEF NoDeadEdges, LivesIn, Graphs
  <2>2. LivesIn(bottom', LiveId')
    <3>1. ASSUME NEW l \in Label, NEW v \in Vec, NEW level \in use.levels, Add(l, v, level)
          PROVE  LivesIn(bottom', LiveId')
      <4>1. level \in Nat \cup {-1}
        BY Zenon, <2>0, UseFacts
      <4>2. PICK K : GraphsAdded(K, level)
        BY Zenon, <2>0, <3>1, <4>1, AddGraphs
      <4>3. entry_point_id \in InnerId => entry_point_id \in LiveId'
        <5>1. LiveId' = LiveId \cup {total_count} /\ LiveId = Ids(total_count)
          BY Zenon, <2>0, <3>1, AddedIds
        <5>2. total_count \in Nat
          BY Zenon, <2>0, TableFacts
        <5>3. entry_point_id \in InnerId => entry_point_id \in Ids(total_count) \cup {total_count}
          BY <5>2 DEF InnerId, Ids
        <5> QED BY Zenon, <5>1, <5>3
      <4> QED BY Zenon, <2>1, <4>2, <4>3 DEF GraphsAdded
    <3>2. ASSUME NEW l \in Label, RemoveForce(l) PROVE LivesIn(bottom', LiveId')
      BY Zenon, <2>0, <2>1, <3>2, RemoveKeeps
    <3>3. ASSUME Clone PROVE LivesIn(bottom', LiveId')
      BY Zenon, <2>0, <2>1, <3>3, CloneKeeps
    <3>4. ASSUME UNCHANGED <<bottom, route, entry_point_id, total_count, use>>
          PROVE  LivesIn(bottom', LiveId')
      BY Zenon, <2>0, <2>1, <3>4, SameGraphs
    <3>5. ASSUME NEW l \in Label, RemoveMark(l) PROVE LivesIn(bottom', LiveId')
      <4>1. UNCHANGED <<bottom, route, entry_point_id, total_count, use>>
        BY Zenon, <3>5 DEF RemoveMark
      <4> QED BY Zenon, <3>4, <4>1
    <3>6. ASSUME NEW old \in Label, NEW new \in Label, UpdateId(old, new)
          PROVE  LivesIn(bottom', LiveId')
      <4>1. UNCHANGED <<bottom, route, entry_point_id, total_count, use>>
        BY Zenon, <3>6 DEF UpdateId
      <4> QED BY Zenon, <3>4, <4>1
    <3>7. ASSUME UNCHANGED vars PROVE LivesIn(bottom', LiveId')
      <4>1. UNCHANGED <<bottom, route, entry_point_id, total_count, use>>
        BY Zenon, <3>7 DEF vars
      <4> QED BY Zenon, <3>4, <4>1
    <3> QED BY Zenon, <3>1, <3>2, <3>3, <3>5, <3>6, <3>7 DEF Next
  <2>3. GraphInv' /\ LabelInv'
    <3>1. OneMode
      BY Zenon, DisciplinedIsOneMode
    <3>2. LabelInv'
      BY Zenon, <2>0, <3>1, CountersStep, TableStep, CodesStep DEF LabelInv
    <3> QED BY Zenon, <3>2, GraphStep
  <2>4. LiveId' \subseteq InnerId
    <3>1. total_count' \in 0 .. MaxIds
      BY Zenon, <2>3 DEF LabelInv, Counters
    <3>2. PICK n \in 0 .. MaxIds : n = total_count'
      BY Zenon, <3>1
    <3>3. Ids(n) \subseteq InnerId
      BY Zenon, <3>2, CapacityBounds
    <3> QED BY Zenon, <3>2, <3>3 DEF LiveId, Ids
  <2>5. \A j \in DOMAIN route' : LivesIn(route'[j], LiveId')
    <3> SUFFICES ASSUME NEW j \in DOMAIN route' PROVE LivesIn(route'[j], LiveId')
      BY Zenon
    <3>1. PICK r, L, t : r = route' /\ L = LiveId' /\ t = use'.use_reverse_edges
      BY Zenon
    <3>2. Routed(r, L, t)
      BY Zenon, <2>3, <3>1 DEF GraphInv
    <3>3. IsRow(r)
      BY Zenon, <3>2, RouteFacts
    <3>4. RouteOK(r[j], L)
      BY Zenon, <3>1, <3>2, <3>3 DEF Routed, IsRow
    <3>5. \A x \in InnerId : r[j].nbrs[x] \subseteq L /\ x \notin r[j].nbrs[x]
      BY Zenon, <3>4 DEF RouteOK, Sound, NoLoops
    <3>6. LivesIn(r[j], L)
      BY Zenon, <2>4, <3>1, <3>5 DEF LivesIn
    <3> QED BY Zenon, <3>1, <3>6
  <2> QED BY Zenon, <2>2, <2>5 DEF NoDeadEdges, LivesIn, Graphs
<1> QED BY IndexAlways, <1>1, PTL DEF Spec, DeadEdgesNeedDeadEntry

=============================================================================
