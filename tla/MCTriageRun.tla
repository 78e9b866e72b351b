----------------------------- MODULE MCTriageRun ----------------------------
(***************************************************************************)
(* Instances of TriageRun for TLC.  Groups are numbered from 0, as in the  *)
(* code.                                                                   *)
(***************************************************************************)
EXTENDS TriageRun, TLC

CONSTANTS t1, t2, t3

ThreeGroups == 0 .. 2

(* Every pair reads back as a text of its own, until it is edited. *)
Distinct3 == {[g \in 0 .. 2 |-> <<t1, t2, t3>>[g + 1]]}

With(asked, keys, budgets, cachings, threads) ==
    [asked : asked, key : keys, budget : budgets, caching : cachings, threads : threads]

(* Delta runs that report two of the groups, with every budget, and full   *)
(* ones with no key or no cache, which ask more pairs than have threads;   *)
(* runs that get no threads, and runs that have nothing to ask.            *)
EveryOption ==
    With({{1, 2}}, {TRUE}, {0, 1, NoLimit}, {TRUE}, {TRUE})
      \cup With({Groups}, {FALSE}, {0, NoLimit}, {TRUE}, {TRUE})
      \cup With({Groups}, {TRUE}, {1, NoLimit}, {FALSE}, {TRUE})
      \cup With({Groups}, {TRUE, FALSE}, {0, NoLimit}, {TRUE}, {FALSE})
      \cup With({{}}, {TRUE}, {NoLimit}, {TRUE}, BOOLEAN)
=============================================================================
