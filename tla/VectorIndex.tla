----------------------------- MODULE VectorIndex -----------------------------
(***************************************************************************)
(* What an index promises its callers, whatever its inside: a map from the   *)
(* labels it holds to their vectors.  Every index of the library implements  *)
(* this interface (InnerIndexInterface); how well searches rank is not part   *)
(* of it.                                                                   *)
(***************************************************************************)
CONSTANTS Label, Vec

VARIABLE content        \* a partial function from Label to Vec

Init == content = [l \in {} |-> CHOOSE v \in Vec : TRUE]

(* A label that is already held is refused and reported as a failed id. *)
Add(l, v) ==
  /\ l \notin DOMAIN content
  /\ content' = [k \in DOMAIN content \cup {l} |-> IF k = l THEN v ELSE content[k]]

Remove(l) ==
  /\ l \in DOMAIN content
  /\ content' = [k \in DOMAIN content \ {l} |-> content[k]]

UpdateId(old, new) ==
  /\ old \in DOMAIN content
  /\ new \notin DOMAIN content
  /\ content' = [k \in (DOMAIN content \ {old}) \cup {new} |->
                   content[IF k = new THEN old ELSE k]]

UpdateVector(l, v) ==
  /\ l \in DOMAIN content
  /\ content' = [content EXCEPT ![l] = v]

(* Build and Deserialize fill an empty index. *)
Load ==
  /\ DOMAIN content = {}
  /\ \E S \in SUBSET Label : content' \in [S -> Vec]

Next == \/ \E l \in Label, v \in Vec : Add(l, v)
        \/ \E l \in Label : Remove(l)
        \/ \E old, new \in Label : UpdateId(old, new)

Rewrite == \E l \in Label, v \in Vec : UpdateVector(l, v)

Spec == Init /\ [][Next]_content

(* The same promise to callers that also replace vectors, and to callers that also *)
(* fill the index in one call.                                                    *)
SpecWithUpdates == Init /\ [][Next \/ Rewrite]_content

SpecWithLoads == Init /\ [][Next \/ Rewrite \/ Load]_content

=============================================================================
