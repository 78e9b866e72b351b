------------------------------ MODULE MCGroups ------------------------------
(* Small instances of Groups.                                              *)
EXTENDS Groups

(* What find_pairs produces: each unordered pair at most once, its sides   *)
(* in location order, each at or above the threshold.                      *)
Edges == {e \in Functions \X Functions : e[1] < e[2]}
Weighed(w) == {[first |-> e[1], second |-> e[2], score |-> w[e]] :
                   e \in {x \in Edges : w[x] # 0}}
Detected == {Weighed(w) : w \in [Edges -> {s \in Scores : s >= Threshold} \cup {0}]}

(* Up to three records of any kind about three functions: repeats, swapped *)
(* sides, a function paired with itself, scores below the threshold.       *)
Few == {p \in Pair : p.first <= 3 /\ p.second <= 3}
AnyRecords == {{p, q, r} : p, q, r \in Few}

AllInputs == Detected \cup AnyRecords
=============================================================================
