------------------------------- MODULE Orders -------------------------------
(***************************************************************************)
(* What a report sorts and filters: a set's members in an order, and some  *)
(* of a sequence's elements as they are.  These are the `sort_by' and the  *)
(* `filter' of src/delta.rs and src/report, by where things end up; what   *)
(* SortSeq and SelectSeq do is built into the tools and has no definition  *)
(* a proof could use.                                                      *)
(***************************************************************************)
EXTENDS Integers, Sequences, FiniteSets

(* The order as the set of its pairs, and who stands before a member.      *)
Precedence(S, Before(_, _)) == {p \in S \X S : Before(p[1], p[2])}
Ahead(R, S, x) == {y \in S : <<y, x>> \in R}

(* Each member stands behind as many as come before it. *)
Listed(S, R) ==
    [k \in 1 .. Cardinality(S) |-> CHOOSE x \in S : Cardinality(Ahead(R, S, x)) = k - 1]
Ranked(S, Before(_, _)) == Listed(S, Precedence(S, Before))

(* The elements at some of a sequence's places, and those that pass a test. *)
Picked(s, P) ==
    LET order == Ranked(P, LAMBDA i, j : i < j) IN [k \in DOMAIN order |-> s[order[k]]]
Where(s, Test(_)) == Picked(s, {k \in DOMAIN s : Test(s[k])})
=============================================================================
