--------------------------- MODULE MCHGraphUpdate ---------------------------
(* Instances of HGraphUpdate for TLC. *)
EXTENDS HGraphUpdate, TLC

CONSTANTS t1, t2, u1, l1, l2, l3, v1, v2

MCThreads == {t1, t2}
MCUpdaters == {u1}
MCLabels == {l1, l2, l3}
MCVec == {v1, v2}
MCLevels == {-1, 0}

(* One thread adds while one updates; two threads add, elements of two levels. *)
MCApart == {[who |-> {t1, u1}, levels |-> {-1}, vecs |-> {v1, v2}],
            [who |-> {t1, t2}, levels |-> {-1, 0}, vecs |-> {v1}]}

(* Two threads add while one updates. *)
MCTogether == {[who |-> {t1, t2, u1}, levels |-> {-1}, vecs |-> {v1}]}

=============================================================================
