------------------------------- MODULE Groups -------------------------------
(***************************************************************************)
(* src/duplicates/group.rs: `group_pairs' turns the detected duplicate     *)
(* pairs into groups of functions that all resemble each other, and        *)
(* `pair_groups' says in which group each pair is reported.                *)
(*                                                                         *)
(* A function stands for its Location; locations are ordered, so functions *)
(* are numbers.  A score is a whole number (a per cent).                   *)
(***************************************************************************)
EXTENDS Integers, FiniteSets

CONSTANTS Functions,   \* the functions, numbered by location
          Scores,      \* the similarities a pair may have
          Threshold,   \* the similarity a pair must reach to be reported
          PairSets     \* the sets of detected pairs group_pairs is given

Pair == [first : Functions, second : Functions, score : Scores]

ASSUME NumbersAssumption ==
    /\ Functions \subseteq Nat /\ Scores \subseteq Nat /\ Threshold \in Nat
    /\ \A s \in Scores : s <= 100
ASSUME PairSetsAssumption == PairSets \subseteq SUBSET Pair

VARIABLES given,       \* the pairs group_pairs was given
          ordered,     \* the distinct ones among them that qualify
          todo,        \* the distinct pairs the loop has not taken yet
          cluster_of,  \* each function's cluster
          clusters,    \* each cluster's members
          groups,      \* the groups to report, once done
          stage        \* "merging" or "done"

groupsVars == <<given, ordered, todo, cluster_of, clusters, groups, stage>>

-----------------------------------------------------------------------------
(* A pair's two sides, whichever way round it was given. *)
Sides(p) == {p.first, p.second}

(* The order of `strongest_first': score descending, then location. *)
Stronger(p, q) ==
    \/ p.score > q.score
    \/ /\ p.score = q.score
       /\ \/ p.first < q.first
          \/ p.first = q.first /\ p.second < q.second

(* strongest_distinct_pairs: at or above the threshold, none of a function *)
(* with itself, and of the repeats of a pair only the first in order.      *)
Qualifying(S) == {p \in S : p.score >= Threshold /\ p.first # p.second}

Distinct(S) ==
    {p \in Qualifying(S) :
        \A q \in Qualifying(S) : Sides(q) = Sides(p) => ~Stronger(q, p)}

(* Index::score: whether two functions were paired, and how alike they are. *)
Paired(x, y) == \E p \in ordered : Sides(p) = {x, y}
Score(x, y) == (CHOOSE p \in ordered : Sides(p) = {x, y}).score

(* A slip: merging on any one pair between the two. *)
AllPaired_Any(C, D) == \E x \in C, y \in D : Paired(x, y)

(* all_paired: every function of one cluster with every one of the other. *)
AllPaired(C, D) == \A x \in C, y \in D : Paired(x, y)

(* A cluster of three or more is a group of its own. *)
IsGroup(C) == Cardinality(C) >= 3

(* The pairs inside a set of functions, as Index::score holds them. *)
Inside(C) == {p \in ordered : Sides(p) \subseteq C}

(* The order in which group_of meets the pairs of a group. *)
Earlier(p, q) ==
    LET low(r) == IF r.first < r.second THEN r.first ELSE r.second
        high(r) == IF r.first < r.second THEN r.second ELSE r.first
    IN \/ low(p) < low(q)
       \/ low(p) = low(q) /\ high(p) <= high(q)

(* group_of: the members, the weakest score, and the most similar pair,    *)
(* ties going to the earliest.                                             *)
GroupOf(C) ==
    [members |-> C,
     score |-> (CHOOSE p \in Inside(C) :
                   \A q \in Inside(C) : p.score <= q.score).score,
     representative |->
        Sides(CHOOSE p \in Inside(C) :
                 \A q \in Inside(C) :
                    \/ p.score > q.score
                    \/ p.score = q.score /\ Earlier(p, q))]

(* pair_groups: the group holding both functions of a pair. *)
Holding(G, p) == {g \in G : Sides(p) \subseteq g.members}

-----------------------------------------------------------------------------
GroupsInit ==
    /\ given \in PairSets
    /\ ordered = Distinct(given)
    /\ todo = ordered
    /\ cluster_of = [f \in Functions |-> f]
    /\ clusters = [f \in Functions |-> {f}]
    /\ groups = {}
    /\ stage = "merging"

(* A slip: only the pair's own side moves, not its cluster. *)
Take_MovesOne(p) ==
    LET a == cluster_of[p.first]
        b == cluster_of[p.second]
    IN
    /\ p \in todo /\ \A q \in todo : ~Stronger(q, p)
    /\ todo' = todo \ {p}
    /\ IF a = b \/ ~AllPaired(clusters[a], clusters[b])
         THEN UNCHANGED <<cluster_of, clusters>>
         ELSE /\ cluster_of' = [cluster_of EXCEPT ![p.second] = a]
              /\ clusters' = [clusters EXCEPT ![a] = @ \cup {p.second},
                                             ![b] = @ \ {p.second}]
    /\ UNCHANGED <<given, ordered, groups, stage>>

(* One turn of the loop in `clusters': the strongest pair left merges the  *)
(* clusters of its two sides unless they are one already or some function  *)
(* of one was never paired with some function of the other.                *)
Take(p) ==
    LET a == cluster_of[p.first]
        b == cluster_of[p.second]
    IN
    /\ stage = "merging" /\ p \in todo
    /\ \A q \in todo : ~Stronger(q, p)
    /\ todo' = todo \ {p}
    /\ IF a = b \/ ~AllPaired(clusters[a], clusters[b])
         THEN UNCHANGED <<cluster_of, clusters>>
         ELSE /\ cluster_of' = [f \in Functions |->
                                  IF f \in clusters[b] THEN a ELSE cluster_of[f]]
              /\ clusters' = [clusters EXCEPT ![a] = @ \cup clusters[b], ![b] = {}]
    /\ UNCHANGED <<given, ordered, groups, stage>>

(* A slip: a pair with one foot in a big cluster is taken to be inside it. *)
Loose_Touching == {p \in ordered :
                     ~ \E f \in Sides(p) : IsGroup(clusters[cluster_of[f]])}

(* The pairs that no cluster of three or more holds. *)
Loose == {p \in ordered :
            ~ /\ cluster_of[p.first] = cluster_of[p.second]
              /\ IsGroup(clusters[cluster_of[p.first]])}

(* The clusters of three or more, each a group, and every loose pair as a  *)
(* group of two.                                                           *)
Report ==
    {GroupOf(clusters[c]) : c \in {d \in Functions : IsGroup(clusters[d])}}
        \cup {GroupOf(Sides(p)) : p \in Loose}

(* What group_pairs returns once every pair has been taken. *)
Collect ==
    /\ stage = "merging" /\ todo = {}
    /\ groups' = Report
    /\ stage' = "done"
    /\ UNCHANGED <<given, ordered, todo, cluster_of, clusters>>

GroupsNext == (\E p \in todo : Take(p)) \/ Collect

GroupsSpec == GroupsInit /\ [][GroupsNext]_groupsVars

GroupsTypeOK ==
    /\ given \subseteq Pair /\ ordered = Distinct(given)
    /\ todo \subseteq ordered
    /\ cluster_of \in [Functions -> Functions]
    /\ clusters \in [Functions -> SUBSET Functions]
    /\ stage \in {"merging", "done"}

(* The two records of the loop agree: every function is in the cluster     *)
(* cluster_of names for it and in no other, whatever was merged.           *)
Partition ==
    /\ \A f \in Functions : f \in clusters[cluster_of[f]]
    /\ \A c \in Functions : \A f \in clusters[c] : cluster_of[f] = c

(* "Clusters in which every two functions were paired": two functions that *)
(* were never paired are never put together by way of a third one, so the  *)
(* `expect' in group_of ("every two members of a group were paired") can   *)
(* not fail.                                                               *)
Cliques ==
    \A c \in Functions : \A x, y \in clusters[c] : x # y => Paired(x, y)

(* A pair the loop has passed over stays apart for a reason that still     *)
(* holds: some function on one side was never paired with the other side.  *)
Settled ==
    \A p \in ordered \ todo :
        LET a == cluster_of[p.first]
            b == cluster_of[p.second]
        IN a # b => ~AllPaired(clusters[a], clusters[b])

(* One pass over the pairs is enough: when it is over, no two clusters     *)
(* could still be merged, though each was compared when it was smaller.    *)
NoMissedMerge ==
    todo = {} => \A c, d \in Functions :
        c # d /\ clusters[c] # {} /\ clusters[d] # {}
            => ~AllPaired(clusters[c], clusters[d])

(* What is returned is the report of the final clusters. *)
Collected == stage = "done" => todo = {} /\ groups = Report

(* Every distinct pair is reported in exactly one group, so pair_groups    *)
(* has one answer for it and a verdict is never handed to another pair.    *)
PairsOnce ==
    stage = "done" =>
        \A p \in ordered :
            \E g \in Holding(groups, p) : Holding(groups, p) = {g}

(* "No detected pair is lost": every pair at or above the threshold, given *)
(* twice or the wrong way round or not, has both functions in a group.     *)
NoPairLost ==
    stage = "done" => \A p \in Qualifying(given) : Holding(groups, p) # {}

(* What a reader is told of a group holds of all of it: every two members  *)
(* score at least the group's score, which reaches the threshold, and no   *)
(* two score above the representative, the pair triage asks about.         *)
GroupsHold ==
    stage = "done" =>
        \A g \in groups :
            /\ g.score >= Threshold
            /\ \E x, y \in g.members : x # y /\ g.representative = {x, y}
            /\ \A x, y \in g.members :
                 x # y =>
                   /\ Score(x, y) >= g.score
                   /\ \A p \in ordered : Sides(p) = g.representative
                        => p.score >= Score(x, y)

GroupsInv == GroupsTypeOK /\ Partition /\ Cliques /\ Settled /\ Collected
=============================================================================
