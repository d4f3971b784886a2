----------------------------- MODULE MCHGraphAdd -----------------------------
(* Instances of HGraphAdd for TLC. *)
EXTENDS HGraphAdd, TLC

CONSTANTS t1, t2, t3, l1, l2, l3, l4, v1, v2

MCThreads2 == {t1, t2}
MCThreads3 == {t1, t2, t3}
MCLabels3 == {l1, l2, l3}
MCLabels == {l1, l2, l3, l4}
MCVec == {v1, v2}
MCVec1 == {v1}
MCLevels == {-1, 0}
MCFlat == {-1}

MCSymmetryPlain == Permutations(MCThreads3) \cup Permutations(MCLabels)
MCSymmetry3 == Permutations(MCThreads3) \cup Permutations(MCLabels) \cup Permutations(MCVec)

=============================================================================
