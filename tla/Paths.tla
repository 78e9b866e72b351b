------------------------------- MODULE Paths --------------------------------
(***************************************************************************)
(* Files as both comparisons with a baseline see them (src/delta.rs,       *)
(* src/duplicates/novelty.rs): the sequence of the components of a path    *)
(* with its separators unified, matched from the end (src/merge.rs).       *)
(***************************************************************************)
EXTENDS Integers, Sequences, FiniteSets

(* common_suffix_len: how many trailing components two files share. *)
SameTail(x, y, n) == \A k \in 0 .. n - 1 : x[Len(x) - k] = y[Len(y) - k]
Suffix(x, y) == Cardinality({n \in 1 .. Len(x) : n <= Len(y) /\ SameTail(x, y, n)})

(* A slip: a tie is remembered when something better comes.               *)
Best_TieKept(s, S, c) ==
    /\ c \in S /\ s[c] > 0 /\ \A d \in S \ {c} : s[d] < s[c]
    /\ \A d, e \in S : d < e /\ e < c /\ s[d] > 0 => s[d] # s[e]

(* unique_best_by_suffix: c shares something and more than any other of S. *)
Best(s, S, c) == c \in S /\ s[c] > 0 /\ \A d \in S \ {c} : s[d] < s[c]

(* A path's first n components, the rest, and which components it has. *)
Root(file, n) == SubSeq(file, 1, n)
Below(file, n) == SubSeq(file, n + 1, Len(file))
Components(file) == {file[k] : k \in DOMAIN file}
=============================================================================
