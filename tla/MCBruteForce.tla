---------------------------- MODULE MCBruteForce ----------------------------
(* Instances of BruteForce for TLC. *)
EXTENDS BruteForce, TLC

CONSTANTS t1, t2, l1, l2, l3, l4, v1, v2

MCThreads1 == {t1}
MCThreads2 == {t1, t2}
MCLabels3 == {l1, l2, l3}
MCLabels4 == {l1, l2, l3, l4}
MCVec == {v1, v2}
MCNone == {}
MCGrow == {"grow"}

(* The label table is never padded here, so Zero does not stand out. *)
MCSymmetry == Permutations(MCThreads2) \cup Permutations(MCLabels4) \cup Permutations(MCVec)

=============================================================================
