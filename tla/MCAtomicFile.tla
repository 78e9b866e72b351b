---------------------------- MODULE MCAtomicFile ----------------------------
(* Small instances of AtomicFile.                                          *)
EXTENDS AtomicFile, TLC

CONSTANTS p1, p2, w1, w2, w3

(* Two threads of one process and one of another. *)
TwoThreadsAndOne == (w1 :> p1) @@ (w2 :> p1) @@ (w3 :> p2)

(* Inodes, pids and the two threads are interchangeable. *)
Symmetry == Permutations(Inodes) \cup Permutations(Pids) \cup Permutations({w1, w2})
=============================================================================
