-------------------------- MODULE Duplicates_proofs --------------------------
(***************************************************************************)
(* Proofs about the duplicate groups.                                      *)
(*                                                                         *)
(* Groups, for any functions, scores, threshold and input: the clusters    *)
(* partition the functions, are cliques, and end maximal, and every        *)
(* distinct pair is reported in exactly one group.                         *)
(*                                                                         *)
(* Novelty, for any groups on both sides: no identity is taken for two,    *)
(* the bound on the rounds is never felt, the two countings of what is     *)
(* together agree, and another root changes nothing.                       *)
(***************************************************************************)
EXTENDS Groups, Novelty, FiniteSetTheorems, FunctionTheorems, SequenceTheorems,
        WellFoundedInduction, TLAPS

-----------------------------------------------------------------------------
(* Groups *)

(* The distinct pairs are pairs of two different functions.                *)
LEMMA DistinctPairs ==
    ASSUME NEW S \in SUBSET Pair
    PROVE  /\ Distinct(S) \subseteq Pair
           /\ \A p \in Distinct(S) :
                /\ p.first \in Functions /\ p.second \in Functions
                /\ p.first # p.second
  BY DEF Distinct, Qualifying, Pair

(* No two of them have the same sides: `Stronger' tells any two repeats of a *)
(* pair apart, and only the earlier is kept.                               *)
LEMMA DistinctSides ==
    ASSUME NEW S \in SUBSET Pair,
           NEW p \in Distinct(S), NEW q \in Distinct(S), Sides(p) = Sides(q)
    PROVE  p = q
<1>1. p \in Qualifying(S) /\ q \in Qualifying(S)
  BY DEF Distinct
<1>2. ~Stronger(p, q) /\ ~Stronger(q, p)
  BY <1>1 DEF Distinct
<1>3. /\ p.first \in Nat /\ p.second \in Nat /\ p.score \in Nat
      /\ q.first \in Nat /\ q.second \in Nat /\ q.score \in Nat
  BY <1>1, NumbersAssumption DEF Qualifying, Pair
<1>4. p.score = q.score /\ p.first = q.first /\ p.second = q.second
  BY <1>2, <1>3 DEF Stronger
<1> QED
  BY <1>1, <1>4 DEF Qualifying, Pair

(* The initial state satisfies the inductive invariant.                    *)
LEMMA GroupsInitInv == GroupsInit => GroupsInv
<1> SUFFICES ASSUME GroupsInit PROVE GroupsInv
  OBVIOUS
<1> USE DEF GroupsInit
<1>1. GroupsTypeOK
  BY PairSetsAssumption DEF GroupsTypeOK
<1>2. Partition /\ Cliques /\ Settled /\ Collected
  BY DEF Partition, Cliques, Settled, Collected
<1> QED
  BY <1>1, <1>2 DEF GroupsInv

(* What merging cluster b into cluster a makes of the two records.         *)
LEMMA Merge ==
    ASSUME GroupsInv, NEW p \in todo, Take(p),
           NEW a, a = cluster_of[p.first], NEW b, b = cluster_of[p.second],
           a # b, AllPaired(clusters[a], clusters[b])
    PROVE  /\ a \in Functions /\ b \in Functions
           /\ cluster_of' = [f \in Functions |->
                               IF f \in clusters[b] THEN a ELSE cluster_of[f]]
           /\ clusters' = [clusters EXCEPT ![a] = @ \cup clusters[b], ![b] = {}]
           /\ clusters'[a] = clusters[a] \cup clusters[b]
           /\ clusters'[b] = {}
           /\ \A c \in Functions \ {a, b} : clusters'[c] = clusters[c]
  BY DistinctPairs DEF Take, GroupsInv, GroupsTypeOK

(* One turn of the loop keeps the invariant.                               *)
LEMMA TakeIInv == ASSUME GroupsInv, NEW p \in todo, Take(p) PROVE GroupsInv'
<1> DEFINE a == cluster_of[p.first]
           b == cluster_of[p.second]
           merges == a # b /\ AllPaired(clusters[a], clusters[b])
<1>1. /\ given' = given /\ ordered' = ordered /\ stage = "merging" /\ stage' = stage
      /\ todo' = todo \ {p} /\ groups' = groups
      /\ p \in ordered /\ ordered \subseteq Pair
      /\ p.first \in Functions /\ p.second \in Functions
  BY DistinctPairs DEF Take, GroupsInv, GroupsTypeOK
<1>2. Collected'
  BY <1>1 DEF Collected
<1>3. CASE ~merges
  <2>1. UNCHANGED <<cluster_of, clusters>>
    BY <1>3 DEF Take
  <2>2. GroupsTypeOK' /\ Partition' /\ Cliques'
    BY <1>1, <2>1 DEF GroupsInv, GroupsTypeOK, Partition, Cliques, Paired
  <2>3. Settled'
    <3> SUFFICES ASSUME NEW q \in ordered \ todo',
                        cluster_of[q.first] # cluster_of[q.second]
                 PROVE  ~AllPaired(clusters[cluster_of[q.first]],
                                   clusters[cluster_of[q.second]])
      <4>1. ASSUME NEW C, NEW D PROVE AllPaired(C, D)' <=> AllPaired(C, D)
        BY <1>1 DEF AllPaired, Paired
      <4> QED
        BY <1>1, <2>1, <4>1 DEF Settled
    <3>1. CASE q = p
      BY <1>3, <3>1
    <3>2. CASE q # p
      BY <1>1, <3>2 DEF GroupsInv, Settled
    <3> QED
      BY <3>1, <3>2
  <2> QED
    BY <1>2, <2>2, <2>3 DEF GroupsInv
<1>4. CASE merges
  <2>1. /\ a \in Functions /\ b \in Functions
        /\ cluster_of' = [f \in Functions |->
                            IF f \in clusters[b] THEN a ELSE cluster_of[f]]
        /\ clusters' = [clusters EXCEPT ![a] = @ \cup clusters[b], ![b] = {}]
        /\ clusters'[a] = clusters[a] \cup clusters[b]
        /\ clusters'[b] = {}
        /\ \A c \in Functions \ {a, b} : clusters'[c] = clusters[c]
    BY <1>4, Merge
  <2>2. GroupsTypeOK'
    BY <1>1, <2>1 DEF GroupsInv, GroupsTypeOK
  <2>3. Partition'
    BY <1>4, <2>1 DEF GroupsInv, GroupsTypeOK, Partition
  <2>4. Cliques'
    <3> SUFFICES ASSUME NEW c \in Functions,
                        NEW x \in clusters'[c], NEW y \in clusters'[c], x # y
                 PROVE  Paired(x, y)
      BY <1>1 DEF Cliques, Paired
    <3>1. CASE c = a
      <4>1. ASSUME NEW u \in clusters[a], NEW v \in clusters[b]
            PROVE  Paired(u, v) /\ Paired(v, u)
        <5>1. Paired(u, v)
          BY <1>4, <4>1 DEF AllPaired
        <5>2. {u, v} = {v, u}
          OBVIOUS
        <5>3. QED
          BY <5>1, <5>2 DEF Paired
      <4> QED
        BY <2>1, <3>1, <4>1 DEF GroupsInv, Cliques
    <3>2. CASE c # a
      BY <2>1, <3>2 DEF GroupsInv, Cliques
    <3> QED
      BY <3>1, <3>2
  <2>5. Settled'
    <3>a. ASSUME NEW C, NEW D
          PROVE  AllPaired(C, D)' <=> AllPaired(C, D)
      BY <1>1 DEF AllPaired, Paired
    <3> SUFFICES ASSUME NEW q \in ordered \ todo',
                        cluster_of'[q.first] # cluster_of'[q.second]
                 PROVE  ~AllPaired(clusters'[cluster_of'[q.first]],
                                   clusters'[cluster_of'[q.second]])
      BY <1>1, <3>a DEF Settled
    <3> DEFINE C == cluster_of[q.first]
               D == cluster_of[q.second]
    <3>1. q \in ordered /\ q.first \in Functions /\ q.second \in Functions
      BY DistinctPairs DEF GroupsInv, GroupsTypeOK
    <3>2. cluster_of'[p.first] = cluster_of'[p.second]
      BY <1>1, <1>4, <2>1 DEF GroupsInv, Partition
    <3>3. q \notin todo /\ C # D
      BY <1>1, <2>1, <3>1, <3>2 DEF GroupsInv, Partition
    <3>4. PICK x \in clusters[C], y \in clusters[D] : ~Paired(x, y)
      BY <3>1, <3>3 DEF GroupsInv, Settled, AllPaired
    <3>5. ASSUME NEW f \in Functions
          PROVE  clusters[cluster_of[f]] \subseteq clusters'[cluster_of'[f]]
      <4>1. cluster_of[f] \in Functions /\ f \in clusters[cluster_of[f]]
        BY DEF GroupsInv, GroupsTypeOK, Partition
      <4>2. CASE cluster_of[f] = b
        BY <2>1, <4>1, <4>2
      <4>3. CASE cluster_of[f] # b
        <5>1. f \notin clusters[b]
          BY <2>1, <4>3 DEF GroupsInv, Partition
        <5> QED
          BY <2>1, <4>1, <4>3, <5>1
      <4> QED
        BY <4>2, <4>3
    <3> QED
      BY <3>1, <3>4, <3>5 DEF AllPaired
  <2> QED
    BY <1>2, <2>2, <2>3, <2>4, <2>5 DEF GroupsInv
<1> QED
  BY <1>3, <1>4

(* The clusters' invariants rest on the clusters and the pairs alone.      *)
LEMMA Untouched ==
    ASSUME GroupsInv, UNCHANGED <<given, ordered, todo, cluster_of, clusters>>
    PROVE  Partition' /\ Cliques' /\ Settled' /\ Report' = Report
<1>1. \A x, y : Paired(x, y)' <=> Paired(x, y)
  BY DEF Paired
<1>2. ASSUME NEW C, NEW D PROVE AllPaired(C, D)' <=> AllPaired(C, D)
  BY <1>1 DEF AllPaired
<1>3. Report' = Report
  <2>1. ASSUME NEW C PROVE GroupOf(C)' = GroupOf(C)
    BY DEF GroupOf, Inside
  <2>2. Loose' = Loose
    BY DEF Loose
  <2> QED
    BY <2>1, <2>2 DEF Report
<1> QED
  BY <1>1, <1>2, <1>3 DEF GroupsInv, Partition, Cliques, Settled

(* Collecting the groups keeps it; nothing else changes.                   *)
LEMMA CollectIInv == ASSUME GroupsInv, Collect PROVE GroupsInv'
<1>1. UNCHANGED <<given, ordered, todo, cluster_of, clusters>> /\ stage' = "done"
  BY DEF Collect
<1>2. GroupsTypeOK' /\ Partition' /\ Cliques' /\ Settled'
  BY <1>1, Untouched DEF GroupsInv, GroupsTypeOK
<1>3. Collected'
  BY <1>1, Untouched DEF Collect, Collected
<1> QED
  BY <1>2, <1>3 DEF GroupsInv

(* The inductive invariant holds in every reachable state.                 *)
THEOREM GroupsInvariance == GroupsSpec => []GroupsInv
<1>1. GroupsInit => GroupsInv
  BY GroupsInitInv
<1>2. GroupsInv /\ [GroupsNext]_groupsVars => GroupsInv'
  <2> SUFFICES ASSUME GroupsInv, [GroupsNext]_groupsVars PROVE GroupsInv'
    OBVIOUS
  <2>1. ASSUME NEW p \in todo, Take(p) PROVE GroupsInv'
    BY <2>1, TakeIInv
  <2>2. CASE Collect
    BY <2>2, CollectIInv
  <2>3. CASE UNCHANGED groupsVars
    <3>1. UNCHANGED <<given, ordered, todo, cluster_of, clusters, groups, stage>>
      BY <2>3 DEF groupsVars
    <3>2. GroupsTypeOK' /\ Partition' /\ Cliques' /\ Settled'
      BY <3>1, Untouched DEF GroupsInv, GroupsTypeOK
    <3>3. Collected'
      BY <3>1, Untouched DEF GroupsInv, Collected
    <3> QED
      BY <3>2, <3>3 DEF GroupsInv
  <2> QED
    BY <2>1, <2>2, <2>3 DEF GroupsNext
<1> QED
  BY <1>1, <1>2, PTL DEF GroupsSpec

(* The two records of the clustering loop always agree: cluster_of and     *)
(* clusters describe one partition of the functions.                       *)
THEOREM ClustersPartition == GroupsSpec => []Partition
<1>1. GroupsInv => Partition
  BY DEF GroupsInv
<1> QED
  BY <1>1, GroupsInvariance, PTL

(* Every two functions of a cluster were paired, so the `expect' on their  *)
(* score cannot fail.                                                      *)
THEOREM ClustersAreCliques == GroupsSpec => []Cliques
<1>1. GroupsInv => Cliques
  BY DEF GroupsInv
<1> QED
  BY <1>1, GroupsInvariance, PTL

(* One pass strongest first leaves no two clusters that could be merged.   *)
THEOREM ClustersMaximal == GroupsSpec => []NoMissedMerge
<1>1. GroupsInv => NoMissedMerge
  <2> SUFFICES ASSUME GroupsInv, todo = {},
                      NEW c \in Functions, NEW d \in Functions, c # d,
                      NEW x \in clusters[c], NEW y \in clusters[d],
                      AllPaired(clusters[c], clusters[d])
               PROVE  FALSE
    BY DEF NoMissedMerge
  <2>1. PICK p \in ordered : Sides(p) = {x, y}
    BY DEF AllPaired, Paired
  <2>2. cluster_of[x] = c /\ cluster_of[y] = d
    BY DEF GroupsInv, Partition
  <2>3. ~AllPaired(clusters[cluster_of[p.first]], clusters[cluster_of[p.second]])
    BY <2>1, <2>2 DEF GroupsInv, Settled, Sides
  <2>4. ~AllPaired(clusters[c], clusters[d]) \/ ~AllPaired(clusters[d], clusters[c])
    BY <2>1, <2>2, <2>3 DEF Sides
  <2> QED
    BY <2>4 DEF AllPaired, Paired
<1> QED
  BY <1>1, GroupsInvariance, PTL

(* Every distinct pair ends up in exactly one group: pair_groups gives it  *)
(* one answer, and it is the group whose verdict is shown beside it.       *)
THEOREM EachPairOnce == GroupsSpec => []PairsOnce
<1>1. GroupsInv => PairsOnce
  <2> SUFFICES ASSUME GroupsInv, stage = "done", NEW p \in ordered
               PROVE  \E g \in Holding(groups, p) : Holding(groups, p) = {g}
    BY DEF PairsOnce
  <2> DEFINE big == {d \in Functions : IsGroup(clusters[d])}
  <2>1. groups = {GroupOf(clusters[c]) : c \in big}
                   \cup {GroupOf(Sides(q)) : q \in Loose}
    BY DEF GroupsInv, Collected, Report
  <2>2. \A C : GroupOf(C).members = C
    BY DEF GroupOf
  <2>3. ordered = Distinct(given) /\ given \in SUBSET Pair
    BY DEF GroupsInv, GroupsTypeOK
  <2>4. \A q \in ordered : Sides(q) \subseteq Functions /\ q.first # q.second
    BY <2>3, DistinctPairs DEF Sides
  <2>5. \A c \in Functions : Sides(p) \subseteq clusters[c]
           => cluster_of[p.first] = c /\ cluster_of[p.second] = c
    BY DEF GroupsInv, Partition, Sides
  <2>7. \A q \in ordered : Sides(p) \subseteq Sides(q) => q = p
    <3>1. \A q \in ordered : Sides(p) \subseteq Sides(q) => Sides(p) = Sides(q)
      BY <2>4 DEF Sides
    <3> QED
      BY <2>3, <3>1, DistinctSides
  <2>8. CASE p \in Loose
    <3>1. GroupOf(Sides(p)) \in Holding(groups, p)
      BY <2>1, <2>2, <2>8 DEF Holding
    <3>2. \A c \in big : ~(Sides(p) \subseteq clusters[c])
      BY <2>5, <2>8 DEF Loose
    <3>3. \A g \in Holding(groups, p) : g = GroupOf(Sides(p))
      BY <2>1, <2>2, <2>7, <3>2 DEF Holding, Loose
    <3> QED
      BY <3>1, <3>3
  <2>9. CASE p \notin Loose
    <3> DEFINE c == cluster_of[p.first]
    <3>1. c = cluster_of[p.second] /\ IsGroup(clusters[c])
      BY <2>9 DEF Loose
    <3>2. c \in Functions /\ Sides(p) \subseteq clusters[c]
      BY <2>4, <3>1 DEF GroupsInv, GroupsTypeOK, Partition, Sides
    <3>3. \A q \in Loose : ~(Sides(p) \subseteq Sides(q))
      BY <2>7, <2>9 DEF Loose
    <3>4. \A g \in Holding(groups, p) : g = GroupOf(clusters[c])
      BY <2>1, <2>2, <2>5, <3>3 DEF Holding
    <3>5. GroupOf(clusters[c]) \in Holding(groups, p)
      BY <2>1, <2>2, <3>1, <3>2 DEF Holding
    <3> QED
      BY <3>4, <3>5
  <2> QED
    BY <2>8, <2>9
<1> QED
  BY <1>1, GroupsInvariance, PTL
-----------------------------------------------------------------------------
(* A set of numbers has a least one: what stands in for induction.         *)
LEMMA LeastNumber ==
    ASSUME NEW T \in SUBSET Nat, T # {}
    PROVE  \E m \in T : \A k \in T : m <= k
<1> DEFINE Less == OpToRel(<, Nat)
<1>1. IsWellFoundedOn(Less, Nat)
  BY NatLessThanWellFounded
<1>2. \A x, y \in Nat : x < y => <<x, y>> \in Less
  BY DEF OpToRel
<1> HIDE DEF Less
<1>3. PICK m \in T : \A k \in T : <<k, m>> \notin Less
  BY <1>1, WFMin
<1>4. ASSUME NEW k \in T
      PROVE  m <= k
  <2>1. m \in Nat /\ k \in Nat
    OBVIOUS
  <2>2. ~(k < m)
    BY <1>2, <1>3, <2>1
  <2>3. QED
    BY <2>1, <2>2
<1>5. QED
  BY <1>4

(* Among pairs there is one whose f is least, for a number f of each.      *)
LEMMA LowestBy ==
    ASSUME NEW S, S # {}, NEW f \in [S -> Nat]
    PROVE  \E p \in S : \A q \in S : f[p] <= f[q]
<1> DEFINE Img == {f[p] : p \in S}
<1>1. Img \in SUBSET Nat /\ Img # {}
  OBVIOUS
<1> HIDE DEF Img
<1>2. PICK m \in Img : \A k \in Img : m <= k
  BY <1>1, LeastNumber
<1> QED
  BY <1>2 DEF Img

(* What is best by a number from 0 to 100 is there to be chosen.           *)
LEMMA HighestScore ==
    ASSUME NEW S \in SUBSET Pair, S # {}
    PROVE  \E p \in S : \A q \in S : p.score >= q.score
<1> DEFINE short == [p \in S |-> 100 - p.score]
<1>1. \A p \in S : p.score \in Nat /\ p.score <= 100
  BY NumbersAssumption DEF Pair
<1>2. short \in [S -> Nat]
  BY <1>1
<1>3. \A p, q \in S : short[p] <= short[q] => p.score >= q.score
  BY <1>1
<1> HIDE DEF short
<1>4. PICK p \in S : \A q \in S : short[p] <= short[q]
  BY <1>2, LowestBy
<1> QED
  BY <1>3, <1>4

LEMMA LowestScore ==
    ASSUME NEW S \in SUBSET Pair, S # {}
    PROVE  \E p \in S : \A q \in S : p.score <= q.score
<1> DEFINE Sc == {p.score : p \in S}
<1>1. Sc \in SUBSET Nat /\ Sc # {}
  BY NumbersAssumption DEF Pair
<1> HIDE DEF Sc
<1>2. PICK m \in Sc : \A k \in Sc : m <= k
  BY <1>1, LeastNumber
<1> QED
  BY <1>2 DEF Sc

(* Of any pairs one comes first in the order of `strongest_first'.         *)
LEMMA OneIsFirst ==
    ASSUME NEW S \in SUBSET Pair, S # {}
    PROVE  \E p \in S : \A q \in S : ~Stronger(q, p)
<1>1. \A q \in S : q.score \in Nat /\ q.first \in Nat /\ q.second \in Nat
  BY NumbersAssumption DEF Pair
<1>2. PICK a \in S : \A q \in S : a.score >= q.score
  BY HighestScore
<1> DEFINE A == {q \in S : q.score = a.score}
           first == [q \in A |-> q.first]
<1>3. PICK b \in A : \A q \in A : first[b] <= first[q]
  BY <1>1, LowestBy
<1> DEFINE B == {q \in A : q.first = b.first}
           second == [q \in B |-> q.second]
<1>4. PICK c \in B : \A q \in B : second[c] <= second[q]
  <2>1. second \in [B -> Nat] /\ B # {}
    BY <1>1
  <2> QED
    BY <2>1, LowestBy
<1>5. ASSUME NEW q \in S, Stronger(q, c) PROVE FALSE
  <2>1. c \in S /\ c.score = a.score /\ c.first = b.first
    OBVIOUS
  <2>2. q \in A
    BY <1>1, <1>2, <1>5, <2>1 DEF Stronger
  <2>3. b.first <= q.first
    BY <1>3, <2>2
  <2>4. q \in B
    BY <1>1, <1>5, <2>1, <2>2, <2>3 DEF Stronger
  <2>5. c.second <= q.second
    BY <1>4, <2>4
  <2> QED
    BY <1>1, <1>5, <2>1, <2>2, <2>4, <2>5 DEF Stronger
<1> QED
  BY <1>5

(* Of the repeats of a qualifying pair one is kept.                        *)
LEMMA OneIsKept ==
    ASSUME NEW S \in SUBSET Pair, NEW p \in Qualifying(S)
    PROVE  \E q \in Distinct(S) : Sides(q) = Sides(p)
<1> DEFINE R == {q \in Qualifying(S) : Sides(q) = Sides(p)}
<1>1. R \in SUBSET Pair /\ R # {}
  BY DEF Qualifying
<1>2. PICK q \in R : \A r \in R : ~Stronger(r, q)
  BY <1>1, OneIsFirst
<1> QED
  BY <1>2 DEF Distinct

(* "No detected pair is lost".                                             *)
THEOREM EveryPairReported == GroupsSpec => []NoPairLost
<1>1. GroupsInv /\ PairsOnce => NoPairLost
  <2> SUFFICES ASSUME GroupsInv, PairsOnce, stage = "done", NEW p \in Qualifying(given)
               PROVE  Holding(groups, p) # {}
    BY DEF NoPairLost
  <2>1. PICK q \in Distinct(given) : Sides(q) = Sides(p)
    BY OneIsKept DEF GroupsInv, GroupsTypeOK
  <2>2. Holding(groups, q) # {}
    BY DEF GroupsInv, GroupsTypeOK, PairsOnce
  <2> QED
    BY <2>1, <2>2 DEF Holding
<1> QED
  BY <1>1, GroupsInvariance, EachPairOnce, PTL

(* Of any pairs one is met first among those of the highest score.         *)
LEMMA OneRepresents ==
    ASSUME NEW S \in SUBSET Pair, S # {}
    PROVE  \E p \in S : \A q \in S :
              p.score > q.score \/ (p.score = q.score /\ Earlier(p, q))
<1> DEFINE low(r) == IF r.first < r.second THEN r.first ELSE r.second
           high(r) == IF r.first < r.second THEN r.second ELSE r.first
<1>1. \A q \in S : q.score \in Nat /\ low(q) \in Nat /\ high(q) \in Nat
  BY NumbersAssumption DEF Pair
<1>2. PICK a \in S : \A q \in S : a.score >= q.score
  BY HighestScore
<1>e. \A p, q : Earlier(p, q) <=> low(p) < low(q) \/ (low(p) = low(q) /\ high(p) <= high(q))
  BY DEF Earlier
<1> HIDE DEF low, high
<1> DEFINE A == {q \in S : q.score = a.score}
           lows == [q \in A |-> low(q)]
<1>3. PICK b \in A : \A q \in A : lows[b] <= lows[q]
  BY <1>1, LowestBy
<1> DEFINE B == {q \in A : low(q) = low(b)}
           highs == [q \in B |-> high(q)]
<1>4. PICK c \in B : \A q \in B : highs[c] <= highs[q]
  <2>1. highs \in [B -> Nat] /\ B # {}
    BY <1>1
  <2> QED
    BY <2>1, LowestBy
<1>5. ASSUME NEW q \in S
      PROVE  c.score > q.score \/ (c.score = q.score /\ Earlier(c, q))
  <2>1. c \in S /\ c.score = a.score /\ low(c) = low(b)
    OBVIOUS
  <2>2. CASE q \notin A
    BY <1>1, <1>2, <2>1, <2>2
  <2>3. CASE q \in A
    <3>1. low(b) <= low(q)
      BY <1>3, <2>3
    <3>2. low(q) = low(b) => high(c) <= high(q)
      BY <1>4, <2>3
    <3> QED
      BY <1>1, <1>e, <2>1, <2>3, <3>1, <3>2
  <2> QED
    BY <2>2, <2>3
<1> QED
  BY <1>5

(* What group_of makes of functions that were all paired.                  *)
LEMMA GroupOfHolds ==
    ASSUME GroupsInv, NEW C \in SUBSET Functions,
           \A x, y \in C : x # y => Paired(x, y),
           NEW u \in C, NEW v \in C, u # v
    PROVE  LET g == GroupOf(C)
           IN /\ g.score >= Threshold
              /\ \E x, y \in C : x # y /\ g.representative = {x, y}
              /\ \A x, y \in C :
                   x # y =>
                     /\ Score(x, y) >= g.score
                     /\ \A p \in ordered : Sides(p) = g.representative
                          => p.score >= Score(x, y)
<1>1. /\ ordered = Distinct(given) /\ given \in SUBSET Pair /\ ordered \subseteq Pair
      /\ \A p \in ordered : p.first # p.second /\ p.score >= Threshold /\ p.score \in Nat
  BY DistinctPairs, NumbersAssumption DEF GroupsInv, GroupsTypeOK, Distinct, Qualifying, Pair
<1>2. Inside(C) \in SUBSET Pair /\ Inside(C) # {} /\ Inside(C) \subseteq ordered
  BY <1>1 DEF Inside, Paired
<1> DEFINE w == CHOOSE p \in Inside(C) : \A q \in Inside(C) : p.score <= q.score
           s == CHOOSE p \in Inside(C) :
                  \A q \in Inside(C) :
                     p.score > q.score \/ (p.score = q.score /\ Earlier(p, q))
<1>3. w \in Inside(C) /\ \A q \in Inside(C) : w.score <= q.score
  BY <1>2, LowestScore
<1>4. s \in Inside(C) /\ \A q \in Inside(C) : s.score >= q.score
  <2>0. \A q \in Inside(C) : q.score \in Nat
    BY <1>1, <1>2
  <2>1. /\ s \in Inside(C)
        /\ \A q \in Inside(C) : s.score > q.score \/ (s.score = q.score /\ Earlier(s, q))
    BY <1>2, OneRepresents
  <2> HIDE DEF s
  <2> QED
    BY <2>0, <2>1
<1>5. GroupOf(C).score = w.score /\ GroupOf(C).representative = Sides(s)
  BY DEF GroupOf
<1> HIDE DEF w, s
<1>6. w.score >= Threshold
  BY <1>1, <1>2, <1>3
<1>7. \E x, y \in C : x # y /\ Sides(s) = {x, y}
  BY <1>1, <1>2, <1>4 DEF Inside, Sides
<1>8. ASSUME NEW x \in C, NEW y \in C, x # y
      PROVE  /\ Score(x, y) >= w.score
             /\ \A p \in ordered : Sides(p) = Sides(s) => p.score >= Score(x, y)
  <2> DEFINE m == CHOOSE p \in ordered : Sides(p) = {x, y}
  <2>1. m \in ordered /\ Sides(m) = {x, y}
    BY <1>8 DEF Paired
  <2>2. Score(x, y) = m.score /\ m \in Inside(C)
    BY <2>1 DEF Score, Inside
  <2> HIDE DEF m
  <2>3. \A p \in ordered : Sides(p) = Sides(s) => p = s
    BY <1>1, <1>2, <1>4, DistinctSides
  <2> QED
    BY <1>1, <1>2, <1>3, <1>4, <2>2, <2>3
<1> QED
  BY <1>5, <1>6, <1>7, <1>8

(* What a reader is told of a group holds of every two of its members.     *)
THEOREM GroupsAreAsReported == GroupsSpec => []GroupsHold
<1>1. GroupsInv => GroupsHold
  <2> SUFFICES ASSUME GroupsInv, stage = "done", NEW g \in groups
               PROVE  /\ g.score >= Threshold
                      /\ \E x, y \in g.members : x # y /\ g.representative = {x, y}
                      /\ \A x, y \in g.members :
                           x # y =>
                             /\ Score(x, y) >= g.score
                             /\ \A p \in ordered : Sides(p) = g.representative
                                  => p.score >= Score(x, y)
    BY DEF GroupsHold
  <2>1. \/ \E c \in Functions : IsGroup(clusters[c]) /\ g = GroupOf(clusters[c])
        \/ \E p \in Loose : g = GroupOf(Sides(p))
    BY DEF GroupsInv, Collected, Report
  <2>2. PICK C \in SUBSET Functions :
           /\ g = GroupOf(C)
           /\ \A x, y \in C : x # y => Paired(x, y)
           /\ \E x, y \in C : x # y
    <3>1. ASSUME NEW c \in Functions, IsGroup(clusters[c])
          PROVE  \E x, y \in clusters[c] : x # y
      <4> SUFFICES ASSUME \A x, y \in clusters[c] : x = y PROVE FALSE
        OBVIOUS
      <4>1. clusters[c] = {} \/ \E x : clusters[c] = {x}
        OBVIOUS
      <4>2. Cardinality(clusters[c]) \in {0, 1}
        BY <4>1, FS_EmptySet, FS_Singleton
      <4> QED
        BY <3>1, <4>2 DEF IsGroup
    <3>2. ASSUME NEW p \in Loose
          PROVE  /\ Sides(p) \subseteq Functions
                 /\ \A x, y \in Sides(p) : x # y => Paired(x, y)
                 /\ \E x, y \in Sides(p) : x # y
      <4>1. p \in ordered /\ p.first # p.second /\ p.first \in Functions /\ p.second \in Functions
        BY DistinctPairs DEF Loose, GroupsInv, GroupsTypeOK
      <4> QED
        BY <4>1 DEF Sides, Paired
    <3>3. \A c \in Functions : clusters[c] \in SUBSET Functions
      BY DEF GroupsInv, GroupsTypeOK
    <3>4. \A c \in Functions : \A x, y \in clusters[c] : x # y => Paired(x, y)
      BY DEF GroupsInv, Cliques
    <3>5. CASE \E c \in Functions : IsGroup(clusters[c]) /\ g = GroupOf(clusters[c])
      BY <3>1, <3>3, <3>4, <3>5
    <3>6. CASE \E p \in Loose : g = GroupOf(Sides(p))
      BY <3>2, <3>6
    <3> QED
      BY <2>1, <3>5, <3>6
  <2>3. PICK u \in C, v \in C : u # v
    BY <2>2
  <2>4. g.members = C
    BY <2>2 DEF GroupOf
  <2> QED
    BY <2>2, <2>3, <2>4, GroupOfHolds
<1> QED
  BY <1>1, GroupsInvariance, PTL

-----------------------------------------------------------------------------
(* Novelty *)

(* Everything is finite. *)
LEMMA Members ==
    ASSUME TypeOK
    PROVE  /\ Now \subseteq Function /\ Before \subseteq Function
           /\ \A g \in DOMAIN current : current[g] \subseteq Function /\ current[g] \subseteq Now
           /\ \A g \in DOMAIN baseline : baseline[g] \subseteq Function
           /\ \A g \in Recorded : baseline[g] \subseteq Before
<1>1. \A g \in DOMAIN current : current[g] \subseteq Function
  BY DEF TypeOK
<1>2. \A g \in DOMAIN baseline : baseline[g] \subseteq Function
  BY DEF TypeOK
<1>3. QED
  BY <1>1, <1>2 DEF Now, Before, Recorded

LEMMA FiniteIds ==
    ASSUME NEW S, S \subseteq Function
    PROVE  IsFiniteSet(S) /\ IsFiniteSet(Ids(S)) /\ Ids(S) \subseteq Identity
<1>1. IsFiniteSet(S)
  BY FS_Subset, InputsAssumption
<1>2. IsFiniteSet(Ids(S))
  <2> DEFINE f == [l \in S |-> Id(l)]
  <2>1. f \in [S -> Ids(S)] /\ \A i \in Ids(S) : \E l \in S : f[l] = i
    BY DEF Ids
  <2>2. f \in Surjection(S, Ids(S))
    <3> HIDE DEF f
    <3> QED
      BY <2>1 DEF Surjection
  <2> QED
    BY <1>1, <2>2, FS_Surjection
<1>3. Ids(S) \subseteq Identity
  BY DEF Ids, Id, Identity, Function
<1> QED
  BY <1>1, <1>2, <1>3

(* How many are still to be paired under a name. *)
LEMMA LeftFinite ==
    ASSUME TypeOK, OneSided, NEW n
    PROVE  /\ IsFiniteSet(Named(arrived, n)) /\ Cardinality(Named(arrived, n)) \in Nat
           /\ IsFiniteSet(Named(gone, n)) /\ Cardinality(Named(gone, n)) \in Nat
<1>1. arrived \subseteq Ids(Now) /\ gone \subseteq Ids(Before)
  BY DEF OneSided
<1>2. IsFiniteSet(Ids(Now)) /\ IsFiniteSet(Ids(Before))
  BY Members, FiniteIds
<1>3. Named(arrived, n) \subseteq Ids(Now) /\ Named(gone, n) \subseteq Ids(Before)
  BY <1>1 DEF Named
<1>4. IsFiniteSet(Named(arrived, n)) /\ IsFiniteSet(Named(gone, n))
  BY <1>2, <1>3, FS_Subset
<1> QED
  BY <1>4, FS_CardinalityType

LEMMA FileLength == \A f \in Files : Len(f) \in Nat
<1>1. SUFFICES ASSUME NEW f \in Files PROVE Len(f) \in Nat
  OBVIOUS
<1>2. f \in Seq(Components(f))
  BY InputsAssumption
<1> QED
  BY <1>2

(* The length of a common tail is a number. *)
LEMMA SuffixNat ==
    ASSUME NEW x, NEW y, Len(x) \in Nat
    PROVE  Suffix(x, y) \in Nat
<1>1. IsFiniteSet(1 .. Len(x))
  BY FS_Interval
<1>2. IsFiniteSet({n \in 1 .. Len(x) : n <= Len(y) /\ SameTail(x, y, n)})
  BY <1>1, FS_Subset
<1> QED
  BY <1>2, FS_CardinalityType DEF Suffix

LEMMA SuffixType == \A x, y \in Files : Suffix(x, y) \in Nat
  BY FileLength, SuffixNat

(* Mutual choice is one to one. *)
LEMMA MutualIsOneToOne ==
    ASSUME TypeOK, NEW n,
           NEW c \in Named(arrived, n), NEW b \in Named(gone, n), Mutual(n, c, b),
           NEW d \in Named(arrived, n), NEW e \in Named(gone, n), Mutual(n, d, e)
    PROVE  c = d <=> b = e
<1>1. \A i \in Named(arrived, n) \cup Named(gone, n) : i[1] \in Files
  BY DEF TypeOK, Named, Identity
<1>2. ASSUME c = d PROVE b = e
  <2> DEFINE s == [k \in Named(gone, n) |-> Suffix(c[1], k[1])]
  <2>1. Best(s, Named(gone, n), b) /\ Best(s, Named(gone, n), e)
    BY <1>2 DEF Mutual
  <2>2. s[b] \in Nat /\ s[e] \in Nat
    BY <1>1, SuffixType
  <2> HIDE DEF s
  <2> QED
    BY <2>1, <2>2 DEF Best
<1>3. ASSUME b = e PROVE c = d
  <2> DEFINE s == [k \in Named(arrived, n) |-> Suffix(b[1], k[1])]
  <2>1. Best(s, Named(arrived, n), c) /\ Best(s, Named(arrived, n), d)
    BY <1>3 DEF Mutual
  <2>2. s[c] \in Nat /\ s[d] \in Nat
    BY <1>1, SuffixType
  <2> HIDE DEF s
  <2> QED
    BY <2>1, <2>2 DEF Best
<1> QED
  BY <1>2, <1>3

-----------------------------------------------------------------------------
LEMMA InitIInv == Init => IInv
<1> SUFFICES ASSUME Init PROVE IInv
  OBVIOUS
<1>1. /\ current \in Seq(SUBSET Function) /\ baseline \in Seq(SUBSET Function)
      /\ \A g \in DOMAIN current : Cardinality(current[g]) >= 2
  <2>1. PICK r \in Inputs : current = r[1] /\ baseline = r[2]
    BY DEF Init
  <2> QED
    BY <2>1, InputsAssumption
<1>2. Now \subseteq Function /\ Before \subseteq Function
  BY <1>1 DEF Now, Before, Recorded
<1>3. /\ IsFiniteSet(Ids(Now)) /\ Ids(Now) \subseteq Identity
      /\ IsFiniteSet(Ids(Before)) /\ Ids(Before) \subseteq Identity
  BY <1>2, FiniteIds
<1>4. arrived \subseteq Ids(Now) /\ gone \subseteq Ids(Before)
  BY DEF Init
<1>5. ASSUME NEW n \in Names
      PROVE  /\ Cardinality(Named(arrived, n)) \in Nat
             /\ Cardinality(Named(gone, n)) \in Nat
  <2>1. Named(arrived, n) \subseteq Ids(Now) /\ Named(gone, n) \subseteq Ids(Before)
    BY <1>4 DEF Named
  <2>2. IsFiniteSet(Named(arrived, n)) /\ IsFiniteSet(Named(gone, n))
    BY <1>3, <2>1, FS_Subset
  <2> QED
    BY <2>2, FS_CardinalityType
<1>6. \A n \in Names :
        /\ turns[n] = Turns(Cardinality(Named(arrived, n)), Cardinality(Named(gone, n)))
        /\ turns[n] \in Nat
  BY <1>5 DEF Init, Turns
<1>7. turns = [n \in Names |-> turns[n]]
  BY DEF Init
<1>8. TypeOK
  BY <1>1, <1>3, <1>4, <1>6, <1>7 DEF Init, TypeOK
<1>9. Enough
  BY <1>6 DEF Enough
<1>10. OneName /\ OneSided /\ Left /\ OneToOne /\ Judged
  BY DEF Init, OneName, OneSided, Left, OneToOne, Judged
<1> QED
  BY <1>8, <1>9, <1>10 DEF IInv

(* A round that pairs something takes one from each side at least. *)
LEMMA RoundShrinks ==
    ASSUME NEW S, IsFiniteSet(S), NEW T, T \subseteq S, NEW x \in S, x \notin T
    PROVE  Cardinality(T) \in Nat /\ Cardinality(T) < Cardinality(S)
<1>1. IsFiniteSet(T) /\ Cardinality(T) \in Nat
  BY FS_Subset, FS_CardinalityType
<1>2. IsFiniteSet(S \ {x}) /\ Cardinality(S \ {x}) = Cardinality(S) - 1 /\ Cardinality(S) \in Nat
  BY FS_RemoveElement, FS_CardinalityType
<1>3. T \subseteq S \ {x}
  OBVIOUS
<1>4. Cardinality(T) <= Cardinality(S \ {x})
  BY <1>2, <1>3, FS_Subset
<1> QED
  BY <1>1, <1>2, <1>4

LEMMA RoundIInv == ASSUME IInv, NEW n \in Names, Round(n) PROVE IInv'
<1> DEFINE found == {p \in Named(arrived, n) \X Named(gone, n) : Mutual(n, p[1], p[2])}
<1>1. /\ pc = "pairing" /\ pc' = pc /\ turns[n] > 0
      /\ turns' = [turns EXCEPT ![n] = IF found = {} THEN 0 ELSE @ - 1]
      /\ claims' = claims \cup found
      /\ arrived' = arrived \ {p[1] : p \in found}
      /\ gone' = gone \ {p[2] : p \in found}
      /\ current' = current /\ baseline' = baseline
  BY DEF Round, input
<1>2. \A p \in found :
         /\ p = <<p[1], p[2]>> /\ Mutual(n, p[1], p[2])
         /\ p[1] \in Named(arrived, n) /\ p[1] \in arrived /\ p[1][2] = n
         /\ p[2] \in Named(gone, n) /\ p[2] \in gone /\ p[2][2] = n
  BY DEF Named
<1>3. arrived \subseteq Identity /\ gone \subseteq Identity
  BY DEF IInv, TypeOK
<1>4. \A p, q \in found : p[1] = q[1] <=> p[2] = q[2]
  BY <1>2, MutualIsOneToOne DEF IInv
<1>5. found = {} => \A c \in Named(arrived, n), b \in Named(gone, n) : ~Mutual(n, c, b)
  <2> SUFFICES ASSUME NEW c \in Named(arrived, n), NEW b \in Named(gone, n), Mutual(n, c, b)
               PROVE  <<c, b>> \in found
    OBVIOUS
  <2> QED
    OBVIOUS
<1> HIDE DEF found
<1>6. TypeOK'
  <2>1. turns' \in [Names -> Nat]
    BY <1>1 DEF IInv, TypeOK
  <2>2. claims' \subseteq Identity \X Identity
    <3>1. \A p \in found : p \in Identity \X Identity
      BY <1>2, <1>3
    <3> QED
      BY <1>1, <3>1 DEF IInv, TypeOK
  <2> QED
    BY <1>1, <2>1, <2>2 DEF IInv, TypeOK
<1>7. OneName'
  BY <1>1, <1>2 DEF IInv, OneName
<1>8. OneSided'
  <2>1. Now' = Now /\ Before' = Before
    BY <1>1 DEF Now, Before, Recorded
  <2>2. arrived' \cup {p[1] : p \in claims'} = arrived \cup {p[1] : p \in claims}
    BY <1>1, <1>2
  <2>3. gone' \cup {p[2] : p \in claims'} = gone \cup {p[2] : p \in claims}
    BY <1>1, <1>2
  <2> QED
    BY <2>1, <2>2, <2>3 DEF IInv, OneSided, Ids
<1>9. Left'
  BY <1>1, <1>2 DEF IInv, Left
<1>10. OneToOne'
  BY <1>1, <1>2, <1>4 DEF IInv, OneToOne, Left
<1>11. Enough'
  <2> SUFFICES ASSUME NEW m \in Names
               PROVE  \/ turns'[m] >= Turns(Cardinality(Named(arrived', m)),
                                            Cardinality(Named(gone', m)))
                      \/ /\ turns'[m] = 0
                         /\ \A c \in Named(arrived', m), b \in Named(gone', m) :
                              ~Mutual(m, c, b)'
    BY DEF Enough
  <2> DEFINE A == Named(arrived, m)
             G == Named(gone, m)
  <2>1. /\ IsFiniteSet(A) /\ Cardinality(A) \in Nat
        /\ IsFiniteSet(G) /\ Cardinality(G) \in Nat
    BY LeftFinite DEF IInv
  <2>2. \/ turns[m] >= Turns(Cardinality(A), Cardinality(G))
        \/ turns[m] = 0 /\ \A c \in A, b \in G : ~Mutual(m, c, b)
    BY DEF IInv, Enough
  <2>3. CASE m # n \/ found = {}
    <3>1. Named(arrived', m) = A /\ Named(gone', m) = G
      BY <1>1, <1>2, <2>3 DEF Named
    <3>2. \A c, b : Mutual(m, c, b)' <=> Mutual(m, c, b)
      BY <3>1 DEF Mutual
    <3>3. CASE m # n
      <4>1. turns'[m] = turns[m]
        BY <1>1, <3>3 DEF IInv, TypeOK
      <4> QED
        BY <2>2, <3>1, <3>2, <4>1
    <3>4. CASE m = n /\ found = {}
      <4>1. turns'[m] = 0
        BY <1>1, <3>4 DEF IInv, TypeOK
      <4>2. \A c \in A, b \in G : ~Mutual(m, c, b)
        BY <1>5, <3>4
      <4> QED
        BY <3>1, <3>2, <4>1, <4>2
    <3> QED
      BY <2>3, <3>3, <3>4
  <2>4. CASE m = n /\ found # {}
    <3>1. PICK p \in found : TRUE
      BY <2>4
    <3>2. p[1] \in A /\ p[1] \notin Named(arrived', m) /\ Named(arrived', m) \subseteq A
      BY <1>1, <1>2, <2>4 DEF Named
    <3>3. p[2] \in G /\ p[2] \notin Named(gone', m) /\ Named(gone', m) \subseteq G
      BY <1>1, <1>2, <2>4 DEF Named
    <3>4. /\ Cardinality(Named(arrived', m)) \in Nat
          /\ Cardinality(Named(arrived', m)) < Cardinality(A)
      BY <2>1, <3>2, RoundShrinks
    <3>5. /\ Cardinality(Named(gone', m)) \in Nat
          /\ Cardinality(Named(gone', m)) < Cardinality(G)
      BY <2>1, <3>3, RoundShrinks
    <3>6. turns[m] >= Turns(Cardinality(A), Cardinality(G)) /\ turns[m] \in Nat
      BY <1>1, <2>2, <2>4 DEF IInv, TypeOK
    <3>7. turns'[m] = turns[m] - 1
      BY <1>1, <2>4 DEF IInv, TypeOK
    <3> HIDE DEF A, G
    <3> QED
      BY <2>1, <3>4, <3>5, <3>6, <3>7 DEF Turns
  <2> QED
    BY <2>3, <2>4
<1>12. Judged'
  BY <1>1 DEF Judged
<1> QED
  BY <1>6, <1>7, <1>8, <1>9, <1>10, <1>11, <1>12 DEF IInv

(* What a comparison was made of does not change with the judgement. *)
LEMMA Unmoved ==
    ASSUME UNCHANGED <<current, baseline, arrived, gone, turns, claims>>
    PROVE  /\ Now' = Now /\ Before' = Before /\ Recorded' = Recorded
           /\ Resolved' = Resolved
           /\ \A g : Status(g)' = Status(g) /\ Held(g)' = Held(g)
           /\ \A m, c, b : Mutual(m, c, b)' <=> Mutual(m, c, b)
<1>1. Now' = Now /\ Before' = Before /\ Recorded' = Recorded
  BY DEF Now, Before, Recorded
<1>2. \A l : CurrentId(l)' = CurrentId(l)
  BY DEF CurrentId
<1>3. \A b, l : Moved(b, l)' <=> Moved(b, l)
  BY <1>1, <1>2 DEF Moved, Only, StraysBefore, StraysNow
<1>4. \A l : Same(l)' = Same(l)
  BY <1>1, <1>2, <1>3 DEF Same
<1>5. \A g : PairsNow(g)' = PairsNow(g) /\ PairsThen(g)' = PairsThen(g)
  BY <1>4 DEF PairsNow, PairsThen
<1>6. Resolved' = Resolved
  BY <1>1, <1>5 DEF Resolved
<1>7. \A g : Status(g)' = Status(g) /\ Held(g)' = Held(g)
  <2>1. \A g, i : TimesNow(g, i)' = TimesNow(g, i) /\ TimesThen(g, i)' = TimesThen(g, i)
    BY <1>4 DEF TimesNow, TimesThen
  <2>2. \A g, b : Together(g, b)' = Together(g, b)
    BY <2>1 DEF Together, Ids
  <2>3. \A g : Held(g)' = Held(g)
    BY <1>1, <2>2 DEF Held
  <2> QED
    BY <2>3 DEF Status
<1>8. \A m, c, b : Mutual(m, c, b)' <=> Mutual(m, c, b)
  BY DEF Mutual
<1> QED
  BY <1>1, <1>6, <1>7, <1>8

LEMMA StillIInv ==
    ASSUME IInv, UNCHANGED <<current, baseline, arrived, gone, turns, claims>>
    PROVE  (OneName /\ OneSided /\ Left /\ OneToOne /\ Enough)'
<1>1. (OneName /\ Left /\ OneToOne)'
  BY DEF IInv, OneName, Left, OneToOne
<1>2. OneSided'
  BY Unmoved DEF IInv, OneSided, Ids
<1>3. Enough'
  BY Unmoved DEF IInv, Enough, Named
<1> QED
  BY <1>1, <1>2, <1>3

(* The inductive invariant holds in every reachable state. *)
THEOREM Invariance == Spec => []IInv
<1>1. IInv /\ [Next]_vars => IInv'
  <2> SUFFICES ASSUME IInv, [Next]_vars PROVE IInv'
    OBVIOUS
  <2>1. ASSUME NEW n \in Names, Round(n) PROVE IInv'
    BY <2>1, RoundIInv
  <2>2. CASE Judge
    <3>1. /\ UNCHANGED <<current, baseline, arrived, gone, turns, claims>>
          /\ pc' = "done" /\ resolved' = Cardinality(Resolved)
          /\ novelty' = [g \in DOMAIN current |-> [status |-> Status(g), from |-> Held(g)]]
          /\ \A n \in Names : turns[n] = 0
      BY <2>2 DEF Judge, input
    <3>2. TypeOK'
      BY <3>1 DEF IInv, TypeOK
    <3>3. Judged'
      BY <3>1, Unmoved DEF Judged
    <3> QED
      BY <3>1, <3>2, <3>3, StillIInv DEF IInv
  <2>3. CASE UNCHANGED vars
    <3>1. /\ UNCHANGED <<current, baseline, arrived, gone, turns, claims>>
          /\ pc' = pc /\ novelty' = novelty /\ resolved' = resolved
      BY <2>3 DEF vars
    <3>2. TypeOK'
      BY <3>1 DEF IInv, TypeOK
    <3>3. Judged'
      BY <3>1, Unmoved DEF IInv, Judged
    <3> QED
      BY <3>1, <3>2, <3>3, StillIInv DEF IInv
  <2> QED
    BY <2>1, <2>2, <2>3 DEF Next
<1> QED
  BY <1>1, InitIInv, PTL DEF Spec

-----------------------------------------------------------------------------
(* The suffix pass takes no two identities for one: a claimed identity is  *)
(* not among the current ones, and is claimed once.                        *)
LEMMA CurrentIdsApart ==
    ASSUME IInv, NEW l \in Now, NEW m \in Now, CurrentId(l) = CurrentId(m)
    PROVE  Id(l) = Id(m)
<1>1. Id(l) \in Ids(Now) /\ Id(m) \in Ids(Now)
  BY DEF Ids
<1>2. \A p \in claims : p[2] \notin Ids(Now)
  BY DEF IInv, OneSided
<1>3. \A k : \/ \E p \in claims : p[1] = Id(k) /\ CurrentId(k) = p[2]
             \/ CurrentId(k) = Id(k)
  BY DEF CurrentId
<1> QED
  BY <1>1, <1>2, <1>3 DEF IInv, OneToOne

(* "No baseline identity is claimed twice", whatever the paths, the order  *)
(* of the names and the namesakes.                                         *)
THEOREM ClaimedOnce == Spec => []OneEach
<1>1. IInv => OneEach
  <2> SUFFICES ASSUME IInv PROVE OneEach
    OBVIOUS
  <2>1. \A p, q \in claims : p[2] = q[2] => p = q
    <3>1. \A p \in claims : p = <<p[1], p[2]>>
      BY DEF IInv, TypeOK
    <3> QED
      BY <3>1 DEF IInv, OneToOne
  <2>2. ASSUME NEW l \in Now, NEW m \in Now, Same(l) = Same(m)
        PROVE  Id(l) = Id(m)
    <3>1. \A k : \/ \E b \in Before : Moved(b, k) /\ Same(k) = Id(b)
                 \/ Same(k) = CurrentId(k)
      BY DEF Same
    <3>2. \A b \in Before, k, j \in Now : Moved(b, k) => Id(b) # CurrentId(j)
      BY DEF Moved, Only, StraysBefore
    <3>3. \A b, c \in Before, k, j \in Now :
             Moved(b, k) /\ Moved(c, j) /\ Id(b) = Id(c) => k = j
      BY DEF Moved, Only, Id
    <3> QED
      BY <2>2, <3>1, <3>2, <3>3, CurrentIdsApart
  <2> QED
    BY <2>1, <2>2 DEF OneEach
<1> QED
  BY <1>1, Invariance, PTL

(* Every name has rounds enough: what ends them is that none is left to    *)
(* pair.                                                                   *)
THEOREM RoundsSuffice == Spec => []NoBestLeft
<1>1. IInv => NoBestLeft
  <2> SUFFICES ASSUME IInv, pc = "done", NEW c \in arrived, NEW b \in gone,
                      c[2] = b[2], Suffix(c[1], b[1]) > 0,
                      \A d \in gone \ {b} : d[2] = c[2]
                          => ~(Suffix(c[1], d[1]) >= Suffix(c[1], b[1])),
                      \A d \in arrived \ {c} : d[2] = c[2]
                          => ~(Suffix(d[1], b[1]) >= Suffix(c[1], b[1]))
               PROVE  FALSE
    BY DEF NoBestLeft
  <2> DEFINE n == c[2]
  <2>1. n \in Names /\ c \in Named(arrived, n) /\ b \in Named(gone, n)
    BY DEF IInv, TypeOK, Identity, Named
  <2>2. \A i \in arrived \cup gone : i[1] \in Files
    BY DEF IInv, TypeOK, Identity
  <2>3. \A i, j \in arrived \cup gone :
           Suffix(i[1], j[1]) \in Nat /\ Suffix(i[1], j[1]) = Suffix(j[1], i[1])
    <3>1. \A i, j \in arrived \cup gone : Suffix(i[1], j[1]) \in Nat
      BY <2>2, SuffixType
    <3>2. ASSUME NEW x \in Files, NEW y \in Files PROVE Suffix(x, y) = Suffix(y, x)
      <4>1. Len(x) \in Nat /\ Len(y) \in Nat
        BY FileLength
      <4>2. {k \in 1 .. Len(x) : k <= Len(y) /\ SameTail(x, y, k)}
              = {k \in 1 .. Len(y) : k <= Len(x) /\ SameTail(y, x, k)}
        BY <4>1 DEF SameTail
      <4> QED
        BY <4>2 DEF Suffix
    <3> QED
      BY <2>2, <3>1, <3>2
  <2>4. Mutual(n, c, b)
    <3>1. Best([d \in Named(gone, n) |-> Suffix(c[1], d[1])], Named(gone, n), b)
      <4>1. \A d \in Named(gone, n) \ {b} : Suffix(c[1], d[1]) < Suffix(c[1], b[1])
        BY <2>1, <2>3 DEF Named
      <4> QED
        BY <2>1, <4>1 DEF Best
    <3>2. Best([d \in Named(arrived, n) |-> Suffix(b[1], d[1])], Named(arrived, n), c)
      <4>1. \A d \in Named(arrived, n) \ {c} : Suffix(b[1], d[1]) < Suffix(b[1], c[1])
        BY <2>1, <2>3 DEF Named
      <4>2. Suffix(b[1], c[1]) > 0
        BY <2>3
      <4> QED
        BY <2>1, <4>1, <4>2 DEF Best
    <3> QED
      BY <3>1, <3>2 DEF Mutual
  <2>5. turns[n] = 0
    BY <2>1 DEF IInv, Judged
  <2>6. Turns(Cardinality(Named(arrived, n)), Cardinality(Named(gone, n))) <= 0
    BY <2>1, <2>4, <2>5 DEF IInv, Enough
  <2>7. Cardinality(Named(arrived, n)) > 0 /\ Cardinality(Named(gone, n)) > 0
    BY <2>1, LeftFinite, FS_EmptySet DEF IInv
  <2> HIDE DEF n
  <2> QED
    BY <2>6, <2>7, LeftFinite DEF IInv, Turns
<1> QED
  BY <1>1, Invariance, PTL
-----------------------------------------------------------------------------
(* Counting to two. *)
LEMMA TwoMembers ==
    ASSUME NEW S, IsFiniteSet(S)
    PROVE  /\ Cardinality(S) \in Nat
           /\ 1 <= Cardinality(S) <=> S # {}
           /\ 2 <= Cardinality(S) <=> \E x, y \in S : x # y
<1>1. Cardinality(S) \in Nat /\ (Cardinality(S) = 0 <=> S = {})
  BY FS_CardinalityType, FS_EmptySet
<1>2. ASSUME NEW x \in S
      PROVE  2 <= Cardinality(S) <=> S \ {x} # {}
  <2>1. IsFiniteSet(S \ {x}) /\ Cardinality(S \ {x}) = Cardinality(S) - 1
    BY FS_RemoveElement
  <2>2. Cardinality(S \ {x}) = 0 <=> S \ {x} = {}
    BY <2>1, FS_EmptySet
  <2>3. Cardinality(S \ {x}) \in Nat
    BY <2>1, FS_CardinalityType
  <2> QED
    BY <1>1, <2>1, <2>2, <2>3
<1>3. CASE S = {}
  BY <1>1, <1>3
<1>4. CASE S # {}
  <2>1. PICK x \in S : TRUE
    BY <1>4
  <2>2. 2 <= Cardinality(S) => \E y \in S : y # x
    BY <1>2, <2>1
  <2>3. (\E y, z \in S : y # z) => 2 <= Cardinality(S)
    BY <1>2
  <2> QED
    BY <1>1, <1>4, <2>1, <2>2, <2>3
<1> QED
  BY <1>3, <1>4

(* How often an identity occurs, once and twice. *)
LEMMA Times ==
    ASSUME TypeOK, NEW g \in DOMAIN current, NEW b \in DOMAIN baseline, NEW i
    PROVE  /\ TimesNow(g, i) \in Nat /\ TimesThen(b, i) \in Nat
           /\ 1 <= TimesNow(g, i) <=> \E l \in current[g] : Same(l) = i
           /\ 2 <= TimesNow(g, i) <=> \E l, m \in current[g] : l # m /\ Same(l) = i /\ Same(m) = i
           /\ 1 <= TimesThen(b, i) <=> \E l \in baseline[b] : Id(l) = i
           /\ 2 <= TimesThen(b, i) <=> \E l, m \in baseline[b] : l # m /\ Id(l) = i /\ Id(m) = i
<1> DEFINE now == {l \in current[g] : Same(l) = i}
           then == {l \in baseline[b] : Id(l) = i}
<1>1. IsFiniteSet(now) /\ IsFiniteSet(then)
  <2>1. IsFiniteSet(current[g]) /\ IsFiniteSet(baseline[b])
    BY Members, FiniteIds
  <2> QED
    BY <2>1, FS_Subset
<1>2. TimesNow(g, i) = Cardinality(now) /\ TimesThen(b, i) = Cardinality(then)
  BY DEF TimesNow, TimesThen
<1>3. /\ now # {} <=> \E l \in current[g] : Same(l) = i
      /\ then # {} <=> \E l \in baseline[b] : Id(l) = i
      /\ (\E l, m \in now : l # m)
           <=> \E l, m \in current[g] : l # m /\ Same(l) = i /\ Same(m) = i
      /\ (\E l, m \in then : l # m)
           <=> \E l, m \in baseline[b] : l # m /\ Id(l) = i /\ Id(m) = i
  OBVIOUS
<1> HIDE DEF now, then
<1> QED
  BY <1>1, <1>2, <1>3, TwoMembers

(* Two members are held together just when a pair is in both. *)
LEMMA HeldTogether ==
    ASSUME TypeOK, NEW g \in DOMAIN current, NEW b \in Recorded
    PROVE  /\ Together(g, b) \in Nat
           /\ 2 <= Together(g, b) <=> \E i \in PairsThen(b) : i \in PairsNow(g)
<1> DEFINE size == Cardinality(baseline[b])
           T == {p \in Ids(baseline[b]) \X (1 .. size) :
                    p[2] <= TimesNow(g, p[1]) /\ p[2] <= TimesThen(b, p[1])}
<1>1. b \in DOMAIN baseline /\ baseline[b] \subseteq Function /\ 2 <= size /\ size \in Nat
  BY Members, FiniteIds, FS_CardinalityType DEF Recorded
<1>2. IsFiniteSet(T)
  <2>1. IsFiniteSet(Ids(baseline[b])) /\ IsFiniteSet(1 .. size)
    BY <1>1, FiniteIds, FS_Interval
  <2>2. IsFiniteSet(Ids(baseline[b]) \X (1 .. size))
    BY <2>1, FS_Product
  <2> QED
    BY <2>2, FS_Subset
<1>3. Together(g, b) \in Nat /\ (2 <= Together(g, b) <=> \E p, q \in T : p # q)
  BY <1>2, TwoMembers DEF Together
<1>4. ASSUME NEW p \in T, NEW q \in T, p # q
      PROVE  \E i \in PairsThen(b) : i \in PairsNow(g)
  <2>1. /\ p[1] \in Ids(baseline[b]) /\ p[2] \in Nat /\ 1 <= p[2] /\ p = <<p[1], p[2]>>
        /\ q[1] \in Ids(baseline[b]) /\ q[2] \in Nat /\ 1 <= q[2] /\ q = <<q[1], q[2]>>
        /\ p[2] <= TimesNow(g, p[1]) /\ p[2] <= TimesThen(b, p[1])
        /\ q[2] <= TimesNow(g, q[1]) /\ q[2] <= TimesThen(b, q[1])
    BY <1>1
  <2>2. CASE p[1] # q[1]
    <3>1. PICK l \in current[g], m \in current[g] : Same(l) = p[1] /\ Same(m) = q[1]
      BY <1>1, <2>1, Times
    <3>2. PICK j \in baseline[b], k \in baseline[b] : Id(j) = p[1] /\ Id(k) = q[1]
      BY <1>1, <2>1, Times
    <3>3. {p[1], q[1]} \in PairsNow(g)
      <4>1. <<l, m>> \in {r \in current[g] \X current[g] : r[1] # r[2]}
        BY <2>2, <3>1
      <4> QED
        BY <3>1, <4>1 DEF PairsNow
    <3>4. {p[1], q[1]} \in PairsThen(b)
      <4>1. <<j, k>> \in {r \in baseline[b] \X baseline[b] : r[1] # r[2]}
        BY <2>2, <3>2
      <4> QED
        BY <3>2, <4>1 DEF PairsThen
    <3> QED
      BY <3>3, <3>4
  <2>3. CASE p[1] = q[1]
    <3>1. 2 <= TimesNow(g, p[1]) /\ 2 <= TimesThen(b, p[1])
      <4>1. TimesNow(g, p[1]) \in Nat /\ TimesThen(b, p[1]) \in Nat
        BY <1>1, Times
      <4>2. p[2] # q[2]
        BY <1>4, <2>1, <2>3
      <4> QED
        BY <2>1, <2>3, <4>1, <4>2
    <3>2. PICK l \in current[g], m \in current[g] : l # m /\ Same(l) = p[1] /\ Same(m) = p[1]
      BY <1>1, <3>1, Times
    <3>3. PICK j \in baseline[b], k \in baseline[b] : j # k /\ Id(j) = p[1] /\ Id(k) = p[1]
      BY <1>1, <3>1, Times
    <3>4. {p[1], p[1]} \in PairsNow(g)
      <4>1. <<l, m>> \in {r \in current[g] \X current[g] : r[1] # r[2]}
        BY <3>2
      <4> QED
        BY <3>2, <4>1 DEF PairsNow
    <3>5. {p[1], p[1]} \in PairsThen(b)
      <4>1. <<j, k>> \in {r \in baseline[b] \X baseline[b] : r[1] # r[2]}
        BY <3>3
      <4> QED
        BY <3>3, <4>1 DEF PairsThen
    <3> QED
      BY <3>4, <3>5
  <2> QED
    BY <2>2, <2>3
<1>5. ASSUME NEW s \in PairsThen(b), s \in PairsNow(g)
      PROVE  \E p, q \in T : p # q
  <2>1. PICK j \in baseline[b], k \in baseline[b] : j # k /\ s = {Id(j), Id(k)}
    BY DEF PairsThen
  <2>2. PICK l \in current[g], m \in current[g] : l # m /\ s = {Same(l), Same(m)}
    BY <1>5 DEF PairsNow
  <2>3. Id(j) \in Ids(baseline[b]) /\ Id(k) \in Ids(baseline[b])
    BY DEF Ids
  <2>4. CASE Id(j) # Id(k)
    <3>1. \A i \in s : (\E f \in current[g] : Same(f) = i) /\ (\E f \in baseline[b] : Id(f) = i)
      BY <2>1, <2>2
    <3>2. \A i \in s : 1 <= TimesNow(g, i) /\ 1 <= TimesThen(b, i)
      BY <1>1, <3>1, Times
    <3>3. <<Id(j), 1>> \in T /\ <<Id(k), 1>> \in T
      BY <1>1, <2>1, <2>3, <3>2
    <3> QED
      BY <2>4, <3>3
  <2>5. CASE Id(j) = Id(k)
    <3>1. Same(l) = Id(j) /\ Same(m) = Id(j)
      BY <2>1, <2>2, <2>5
    <3>2. 2 <= TimesNow(g, Id(j)) /\ 2 <= TimesThen(b, Id(j))
      BY <1>1, <2>1, <2>2, <2>5, <3>1, Times
    <3>3. TimesNow(g, Id(j)) \in Nat /\ TimesThen(b, Id(j)) \in Nat
      BY <1>1, Times
    <3>4. <<Id(j), 1>> \in T /\ <<Id(j), 2>> \in T
      BY <1>1, <2>3, <3>2, <3>3
    <3> QED
      BY <3>4
  <2> QED
    BY <2>4, <2>5
<1> HIDE DEF T
<1> QED
  BY <1>3, <1>4, <1>5

(* The two countings agree: a recorded group is resolved just when no      *)
(* current one holds two of its members.                                   *)
THEOREM CountingsAgree == Spec => []ResolvedMeansGone
<1>1. IInv => ResolvedMeansGone
  <2> SUFFICES ASSUME IInv, pc = "done"
               PROVE  Resolved = {b \in Recorded : \A g \in DOMAIN current : Together(g, b) < 2}
    BY DEF IInv, Judged, ResolvedMeansGone
  <2>1. ASSUME NEW b \in Recorded, NEW g \in DOMAIN current
        PROVE  Together(g, b) < 2 <=> \A p \in PairsThen(b) : p \notin PairsNow(g)
    BY HeldTogether DEF IInv
  <2>2. ASSUME NEW b \in Recorded
        PROVE  (\A p \in PairsThen(b) : p \notin UNION {PairsNow(g) : g \in DOMAIN current})
                 <=> \A g \in DOMAIN current : Together(g, b) < 2
    BY <2>1
  <2> QED
    BY <2>2 DEF Resolved
<1> QED
  BY <1>1, Invariance, PTL

-----------------------------------------------------------------------------
(* Groups recorded under another root *)

(* A path shares so many components at its end with another, or more. *)
LEMMA SharesAtLeast ==
    ASSUME NEW x, NEW y, Len(x) \in Nat, Len(y) \in Nat, NEW k \in Nat \ {0}
    PROVE  k <= Suffix(x, y) <=> k <= Len(x) /\ k <= Len(y) /\ SameTail(x, y, k)
<1> DEFINE common == {n \in 1 .. Len(x) : n <= Len(y) /\ SameTail(x, y, n)}
<1>1. IsFiniteSet(1 .. Len(x)) /\ common \in SUBSET (1 .. Len(x))
  BY FS_Interval
<1>2. IsFiniteSet(common) /\ Cardinality(common) \in Nat /\ Cardinality(common) = Suffix(x, y)
  <2>1. Cardinality(common) = Suffix(x, y)
    BY DEF Suffix
  <2> HIDE DEF common
  <2>2. QED
    BY <1>1, <2>1, FS_Subset, FS_CardinalityType
<1>3. ASSUME k <= Len(x), k <= Len(y), SameTail(x, y, k)
      PROVE  k <= Cardinality(common)
  <2>1. 1 .. k \in SUBSET common
    BY <1>3 DEF SameTail
  <2>2. IsFiniteSet(1 .. k) /\ Cardinality(1 .. k) = k
    <3>1. 1 \in Int /\ k \in Int
      OBVIOUS
    <3>2. IsFiniteSet(1 .. k) /\ Cardinality(1 .. k) = IF 1 > k THEN 0 ELSE k - 1 + 1
      BY <3>1, FS_Interval
    <3>3. QED
      BY <3>2
  <2> HIDE DEF common
  <2>3. QED
    BY <1>2, <2>1, <2>2, FS_Subset
<1>4. ASSUME ~(k <= Len(x) /\ k <= Len(y) /\ SameTail(x, y, k))
      PROVE  ~(k <= Cardinality(common))
  <2>1. common \in SUBSET (1 .. k - 1)
    <3>1. SUFFICES ASSUME NEW n \in common, ~(n <= k - 1)
                   PROVE  FALSE
      OBVIOUS
    <3>2. n \in Nat /\ k <= n /\ n <= Len(x) /\ n <= Len(y) /\ SameTail(x, y, n)
      BY <3>1
    <3>3. SameTail(x, y, k)
      BY <3>2 DEF SameTail
    <3>4. QED
      BY <1>4, <3>2, <3>3
  <2>2. IsFiniteSet(1 .. k - 1) /\ Cardinality(1 .. k - 1) = k - 1
    <3>1. 1 \in Int /\ k - 1 \in Int /\ (1 > k - 1 => k - 1 = 0) /\ k - 1 - 1 + 1 = k - 1
      OBVIOUS
    <3>2. QED
      BY <3>1, FS_Interval
  <2> HIDE DEF common
  <2>3. Cardinality(common) <= k - 1
    BY <2>1, <2>2, FS_Subset
  <2>4. QED
    BY <1>2, <2>3
<1>5. QED
  BY <1>2, <1>3, <1>4

(* Paths under roots of their own, whose components are not the other's    *)
(* below its root, share no more than they have below the roots.           *)
LEMMA RootsApart ==
    ASSUME NEW x, NEW y, NEW n \in Nat, NEW m \in Nat, Len(x) \in Nat, Len(y) \in Nat,
           n < Len(x), m < Len(y),
           \A p \in 1 .. n, q \in m + 1 .. Len(y) : x[p] # y[q],
           \A p \in 1 .. m, q \in n + 1 .. Len(x) : y[p] # x[q],
           NEW k \in Nat, k <= Len(x), k <= Len(y), SameTail(x, y, k)
    PROVE  /\ k > Len(x) - n => Len(y) - m <= Len(x) - n
           /\ k >= Len(x) - n => Len(y) - m >= Len(x) - n
<1>1. ASSUME k > Len(x) - n, Len(y) - m > Len(x) - n
      PROVE  FALSE
  <2> DEFINE l == Len(x) - n
  <2>1. l \in 0 .. k - 1 /\ Len(x) - l = n /\ n \in 1 .. n
    BY <1>1
  <2>2. x[n] = y[Len(y) - l]
    BY <2>1 DEF SameTail
  <2>3. Len(y) - l \in m + 1 .. Len(y)
    BY <1>1
  <2>4. QED
    BY <2>1, <2>2, <2>3
<1>2. ASSUME k >= Len(x) - n, Len(y) - m < Len(x) - n
      PROVE  FALSE
  <2> DEFINE l == Len(y) - m
  <2>1. l \in 0 .. k - 1 /\ Len(y) - l = m /\ m \in 1 .. m
    BY <1>2
  <2>2. x[Len(x) - l] = y[m]
    BY <2>1 DEF SameTail
  <2>3. Len(x) - l \in n + 1 .. Len(x)
    BY <1>2
  <2>4. QED
    BY <2>1, <2>2, <2>3
<1>3. QED
  BY <1>1, <1>2

(* A path's root and what is below it. *)
LEMMA Parts ==
    ASSUME NEW S, NEW x \in Seq(S), NEW n \in Nat, n < Len(x)
    PROVE  /\ Root(x, n) \in Seq(S) /\ Len(Root(x, n)) = n
           /\ \A k \in 1 .. n : Root(x, n)[k] = x[k]
           /\ Below(x, n) \in Seq(S) /\ Len(Below(x, n)) = Len(x) - n
           /\ \A k \in 1 .. Len(x) - n : Below(x, n)[k] = x[n + k]
<1>1. /\ 1 \in Int /\ n \in Int /\ n + 1 \in Int /\ Len(x) \in Int
      /\ \A k \in 1 .. n : x[k] \in S
      /\ \A k \in n + 1 .. Len(x) : x[k] \in S
  OBVIOUS
<1>2. /\ SubSeq(x, 1, n) \in Seq(S)
      /\ Len(SubSeq(x, 1, n)) = IF 1 <= n THEN n - 1 + 1 ELSE 0
      /\ \A k \in 1 .. n - 1 + 1 : SubSeq(x, 1, n)[k] = x[1 + k - 1]
  BY <1>1, SubSeqProperties
<1>3. /\ SubSeq(x, n + 1, Len(x)) \in Seq(S)
      /\ Len(SubSeq(x, n + 1, Len(x))) = IF n + 1 <= Len(x) THEN Len(x) - (n + 1) + 1 ELSE 0
      /\ \A k \in 1 .. Len(x) - (n + 1) + 1 : SubSeq(x, n + 1, Len(x))[k] = x[n + 1 + k - 1]
  BY <1>1, SubSeqProperties
<1>4. /\ \A k \in 1 .. n : k \in 1 .. n - 1 + 1 /\ 1 + k - 1 = k
      /\ \A k \in 1 .. Len(x) - n : k \in 1 .. Len(x) - (n + 1) + 1 /\ n + 1 + k - 1 = n + k
  OBVIOUS
<1>5. QED
  BY <1>2, <1>3, <1>4 DEF Root, Below

(* A remap, component by component: x is y below their roots, u and v      *)
(* are another such pair, and no root has a component of x below its root. *)
Laid(n, m, x, y, u, v) ==
    /\ Len(x) \in Nat /\ Len(y) \in Nat /\ n < Len(x) /\ m < Len(y)
    /\ Len(y) - m = Len(x) - n
    /\ \A k \in 1 .. Len(x) - n : y[m + k] = x[n + k]
    /\ \A k \in 1 .. n : x[k] = u[k]
    /\ \A k \in 1 .. m : y[k] = v[k]
    /\ \A p \in 1 .. n, q \in n + 1 .. Len(u) : x[p] # u[q]
    /\ \A p \in 1 .. m, q \in n + 1 .. Len(u) : y[p] # u[q]


(* A remapped path is nearer to its own than to any other as long below    *)
(* the root, from either side.                                             *)
LEMMA OwnTail ==
    ASSUME NEW n \in Nat, NEW m \in Nat, NEW x, NEW y, NEW u, NEW v, Laid(n, m, x, y, u, v)
    PROVE  Len(x) - n <= Suffix(x, y) /\ Suffix(x, y) \in Nat
<1>1. Len(x) \in Nat /\ Len(y) \in Nat /\ n < Len(x) /\ m < Len(y) /\ Len(y) - m = Len(x) - n
  BY DEF Laid
<1>2. Len(x) - n \in Nat \ {0} /\ Len(x) - n <= Len(x) /\ Len(x) - n <= Len(y)
  BY <1>1
<1>3. SameTail(x, y, Len(x) - n)
  <2>1. SUFFICES ASSUME NEW k \in 0 .. Len(x) - n - 1
                 PROVE  x[Len(x) - k] = y[Len(y) - k]
    BY DEF SameTail
  <2>2. Len(x) - n - k \in 1 .. Len(x) - n
    BY <1>1
  <2>3. m + (Len(x) - n - k) = Len(y) - k /\ n + (Len(x) - n - k) = Len(x) - k
    BY <1>1
  <2>4. y[m + (Len(x) - n - k)] = x[n + (Len(x) - n - k)]
    BY <2>2 DEF Laid
  <2>5. QED
    BY <2>3, <2>4
<1>4. QED
  BY <1>1, <1>2, <1>3, SharesAtLeast, SuffixNat

(* A path that shares that much or more with a remapped one, and is no     *)
(* longer below the root, or shares more, is the one that was remapped.    *)
LEMMA FarTail ==
    ASSUME NEW n \in Nat, NEW m \in Nat, NEW x, NEW y, NEW u, NEW v,
           Laid(n, m, x, y, u, v), Laid(n, m, u, v, x, y)
    PROVE  /\ Suffix(x, v) >= Len(x) - n /\ Len(u) <= Len(x) =>
                Len(y) = Len(v) /\ \A k \in 1 .. Len(y) : y[k] = v[k]
           /\ Suffix(x, v) > Len(x) - n =>
                Len(y) = Len(v) /\ \A k \in 1 .. Len(y) : y[k] = v[k]
<1>1. /\ Len(x) \in Nat /\ Len(y) \in Nat /\ n < Len(x) /\ m < Len(y) /\ Len(y) - m = Len(x) - n
      /\ Len(u) \in Nat /\ Len(v) \in Nat /\ n < Len(u) /\ m < Len(v) /\ Len(v) - m = Len(u) - n
  BY DEF Laid
<1>2. Suffix(x, v) \in Nat
  BY <1>1, SuffixNat
<1>3. \A p \in 1 .. n, q \in m + 1 .. Len(v) : x[p] # v[q]
  <2>1. SUFFICES ASSUME NEW p \in 1 .. n, NEW q \in m + 1 .. Len(v)
                 PROVE  x[p] # v[q]
    OBVIOUS
  <2>2. /\ q - m \in 1 .. Len(u) - n /\ m + (q - m) = q /\ n + (q - m) \in n + 1 .. Len(u)
    BY <1>1
  <2>3. v[q] = u[n + (q - m)] /\ x[p] # u[n + (q - m)]
    BY <2>2 DEF Laid
  <2>4. QED
    BY <2>3
<1>4. \A p \in 1 .. m, q \in n + 1 .. Len(x) : v[p] # x[q]
  BY DEF Laid
<1>5. ASSUME Suffix(x, v) >= Len(x) - n
      PROVE  /\ Len(v) - m >= Len(x) - n
             /\ Suffix(x, v) > Len(x) - n => Len(v) - m <= Len(x) - n
             /\ SameTail(x, v, Len(x) - n)
  <2> DEFINE far == Suffix(x, v)
  <2>1. far \in Nat /\ far \in Nat \ {0} /\ far <= Suffix(x, v) /\ far >= Len(x) - n
    BY <1>1, <1>2, <1>5
  <2> HIDE DEF far
  <2>2. far <= Len(x) /\ far <= Len(v) /\ SameTail(x, v, far)
    BY <1>1, <2>1, SharesAtLeast
  <2>3. /\ far > Len(x) - n => Len(v) - m <= Len(x) - n
        /\ far >= Len(x) - n => Len(v) - m >= Len(x) - n
    BY <1>1, <1>3, <1>4, <2>1, <2>2, RootsApart
  <2>4. SameTail(x, v, Len(x) - n)
    <3>1. \A k \in 0 .. Len(x) - n - 1 : k \in 0 .. far - 1
      BY <1>1, <2>1
    <3>2. QED
      BY <2>2, <3>1 DEF SameTail
  <2>5. QED
    BY <2>1, <2>3, <2>4 DEF far
<1>6. ASSUME SameTail(x, v, Len(x) - n), Len(v) - m = Len(x) - n
      PROVE  Len(y) = Len(v) /\ \A k \in 1 .. Len(y) : y[k] = v[k]
  <2>1. Len(y) = Len(v)
    BY <1>1, <1>6
  <2>2. ASSUME NEW k \in 1 .. Len(y) PROVE y[k] = v[k]
    <3>1. CASE k <= m
      <4>1. k \in 1 .. m
        BY <3>1
      <4>2. QED
        BY <4>1 DEF Laid
    <3>2. CASE k > m
      <4>1. /\ k - m \in 1 .. Len(x) - n /\ m + (k - m) = k
            /\ Len(v) - k \in 0 .. Len(x) - n - 1 /\ Len(v) - (Len(v) - k) = k
            /\ Len(x) - (Len(v) - k) = n + (k - m)
        BY <1>1, <2>1, <3>2
      <4>2. y[m + (k - m)] = x[n + (k - m)]
        BY <4>1 DEF Laid
      <4>3. x[Len(x) - (Len(v) - k)] = v[Len(v) - (Len(v) - k)]
        BY <1>6, <4>1 DEF SameTail
      <4>4. QED
        BY <4>1, <4>2, <4>3
    <3>3. QED
      BY <1>1, <3>1, <3>2
  <2>3. QED
    BY <2>1, <2>2
<1>7. ASSUME Suffix(x, v) >= Len(x) - n, Len(u) <= Len(x)
      PROVE  Len(y) = Len(v) /\ \A k \in 1 .. Len(y) : y[k] = v[k]
  <2>1. Len(v) - m = Len(x) - n
    BY <1>1, <1>5, <1>7
  <2>2. QED
    BY <1>5, <1>6, <1>7, <2>1
<1>8. ASSUME Suffix(x, v) > Len(x) - n
      PROVE  Len(y) = Len(v) /\ \A k \in 1 .. Len(y) : y[k] = v[k]
  <2>1. Suffix(x, v) >= Len(x) - n
    BY <1>1, <1>2, <1>8
  <2>2. Len(v) - m = Len(x) - n
    BY <1>1, <1>5, <1>8, <2>1
  <2>3. QED
    BY <1>5, <1>6, <2>1, <2>2
<1>9. QED
  BY <1>7, <1>8

(* The remap seen from the record. *)
LEMMA LaidBack ==
    ASSUME NEW n \in Nat, NEW m \in Nat, NEW x, NEW y, NEW u, NEW v,
           Laid(n, m, x, y, u, v), Laid(n, m, u, v, x, y)
    PROVE  Laid(m, n, y, x, v, u)
<1>1. /\ Len(x) \in Nat /\ Len(y) \in Nat /\ n < Len(x) /\ m < Len(y) /\ Len(y) - m = Len(x) - n
      /\ Len(u) \in Nat /\ Len(v) \in Nat /\ n < Len(u) /\ m < Len(v) /\ Len(v) - m = Len(u) - n
  BY DEF Laid
<1>2. ASSUME NEW q \in m + 1 .. Len(v)
      PROVE  n + (q - m) \in n + 1 .. Len(u) /\ v[q] = u[n + (q - m)]
  <2>1. q - m \in 1 .. Len(u) - n /\ m + (q - m) = q /\ n + (q - m) \in n + 1 .. Len(u)
    BY <1>1
  <2>2. v[m + (q - m)] = u[n + (q - m)]
    BY <2>1 DEF Laid
  <2>3. QED
    BY <2>1, <2>2
<1>3. /\ \A p \in 1 .. m, q \in m + 1 .. Len(v) : y[p] # v[q]
      /\ \A p \in 1 .. n, q \in m + 1 .. Len(v) : x[p] # v[q]
  <2>1. /\ \A p \in 1 .. m, q \in n + 1 .. Len(u) : y[p] # u[q]
        /\ \A p \in 1 .. n, q \in n + 1 .. Len(u) : x[p] # u[q]
    BY DEF Laid
  <2>2. QED
    BY <1>2, <2>1
<1>4. /\ \A k \in 1 .. Len(y) - m : x[n + k] = y[m + k]
      /\ \A k \in 1 .. n : x[k] = u[k]
      /\ \A k \in 1 .. m : y[k] = v[k]
  BY <1>1 DEF Laid
<1>5. QED
  BY <1>1, <1>3, <1>4 DEF Laid

(* If one remapped path is a path of the tree, the roots are the same. *)
LEMMA SameRoots ==
    ASSUME NEW n \in Nat, NEW m \in Nat, NEW x, NEW y, NEW v,
           Laid(n, m, x, y, v, x), Laid(n, m, v, x, x, y)
    PROVE  n = m /\ \A k \in 1 .. n : x[k] = y[k]
<1>1. /\ Len(x) \in Nat /\ n < Len(x) /\ m < Len(x) /\ Len(v) \in Nat /\ n < Len(v)
      /\ Len(x) - m = Len(v) - n
  BY DEF Laid
<1>2. CASE n < m
  <2>1. n + 1 \in 1 .. m /\ n + 1 \in n + 1 .. Len(x)
    BY <1>1, <1>2
  <2>2. \A p \in 1 .. m, q \in n + 1 .. Len(x) : x[p] # x[q]
    BY DEF Laid
  <2>3. QED
    BY <2>1, <2>2
<1>3. CASE m < n
  <2>1. m + 1 \in 1 .. n /\ n + 1 \in n + 1 .. Len(v) /\ 1 \in 1 .. Len(v) - n
    BY <1>1, <1>3
  <2>2. x[m + 1] # v[n + 1]
    BY <2>1 DEF Laid
  <2>3. x[m + 1] = v[n + 1]
    BY <2>1 DEF Laid
  <2>4. QED
    BY <2>2, <2>3
<1>4. n = m => \A k \in 1 .. n : x[k] = y[k]
  BY DEF Laid
<1>5. QED
  BY <1>2, <1>3, <1>4

(* What the remap makes of an identity. *)
Where(n, root, i) == <<root \o Below(i[1], n), i[2]>>
Remap(n, root) ==
    /\ n \in Nat /\ root \in Seq(Components(root))
    /\ Rerooted(n, root) /\ Fresh(n, root)

LEMMA Layout ==
    ASSUME TypeOK, NEW n, NEW root, Remap(n, root), NEW i \in Ids(Now), NEW j \in Ids(Now)
    PROVE  Laid(n, Len(root), i[1], Where(n, root, i)[1], j[1], Where(n, root, j)[1])
<1>1. PICK l \in Now, k \in Now : Id(l) = i /\ Id(k) = j
  BY DEF Ids
<1> DEFINE x == l.file
           u == k.file
           y == root \o Below(x, n)
           v == root \o Below(u, n)
           m == Len(root)
           S == Components(x) \cup Components(u) \cup Components(root)
<1>2. /\ n \in Nat /\ Len(x) > n /\ Len(u) > n /\ Root(x, n) = Root(u, n)
      /\ (Components(root) \cup Components(Root(x, n))) \cap Components(Below(u, n)) = {}
  BY DEF Remap, Rerooted, Fresh
<1>3. x \in Seq(S) /\ u \in Seq(S) /\ root \in Seq(S)
  <2>1. /\ x \in Seq(Components(x)) /\ u \in Seq(Components(u)) /\ root \in Seq(Components(root))
    BY Members, InputsAssumption DEF Function, Remap
  <2>2. ASSUME NEW f, NEW C, C \subseteq S, f \in Seq(C)
        PROVE  f \in Seq(S)
    <3> HIDE DEF S
    <3>1. QED
      BY <2>2
  <2>3. QED
    BY <2>1, <2>2
<1>4. /\ i[1] = x /\ j[1] = u
      /\ Where(n, root, i)[1] = y /\ Where(n, root, j)[1] = v
  BY <1>1 DEF Id, Where
<1> HIDE DEF x, u, S
<1>5. n \in Nat /\ Len(x) \in Nat /\ Len(u) \in Nat /\ m \in Nat /\ n < Len(x) /\ n < Len(u)
  BY <1>2, <1>3
<1>6. /\ Below(x, n) \in Seq(S) /\ Len(Below(x, n)) = Len(x) - n
      /\ \A p \in 1 .. n : Root(x, n)[p] = x[p]
      /\ Root(x, n) \in Seq(S) /\ Len(Root(x, n)) = n
      /\ \A p \in 1 .. Len(x) - n : Below(x, n)[p] = x[n + p]
  BY <1>2, <1>3, <1>5, Parts
<1>7. /\ Below(u, n) \in Seq(S) /\ Len(Below(u, n)) = Len(u) - n
      /\ \A p \in 1 .. n : Root(u, n)[p] = u[p]
      /\ \A p \in 1 .. Len(u) - n : Below(u, n)[p] = u[n + p]
  BY <1>2, <1>3, <1>5, Parts
<1>8. ASSUME NEW b \in Seq(S)
      PROVE  /\ Len(root \o b) = m + Len(b)
             /\ \A p \in 1 .. m : (root \o b)[p] = root[p]
             /\ \A p \in 1 .. Len(b) : (root \o b)[m + p] = b[p]
  <2>1. /\ Len(root \o b) = m + Len(b)
        /\ \A p \in 1 .. m + Len(b) : (root \o b)[p] = IF p <= m THEN root[p] ELSE b[p - m]
    BY <1>3, ConcatProperties
  <2>2. Len(b) \in Nat
    OBVIOUS
  <2>3. /\ \A p \in 1 .. m : p \in 1 .. m + Len(b) /\ p <= m
        /\ \A p \in 1 .. Len(b) : m + p \in 1 .. m + Len(b) /\ ~(m + p <= m) /\ m + p - m = p
    BY <1>5, <2>2
  <2>4. QED
    BY <2>1, <2>3
<1>9. /\ Len(y) = m + (Len(x) - n) /\ Len(v) = m + (Len(u) - n)
      /\ \A p \in 1 .. m : y[p] = root[p] /\ v[p] = root[p]
      /\ \A p \in 1 .. Len(x) - n : y[m + p] = x[n + p]
  BY <1>6, <1>7, <1>8
<1>10. /\ \A p \in 1 .. n : x[p] \in Components(Root(x, n)) /\ x[p] = u[p]
       /\ \A p \in 1 .. m : root[p] \in Components(root)
  <2>1. \A p \in 1 .. n : p \in DOMAIN Root(x, n) /\ Root(x, n)[p] = x[p]
    BY <1>6
  <2>2. \A p \in 1 .. m : p \in DOMAIN root
    BY <1>3
  <2>3. \A p \in 1 .. n : x[p] = u[p]
    BY <1>2, <1>6, <1>7
  <2>4. QED
    BY <2>1, <2>2, <2>3 DEF Components
<1>11. \A q \in n + 1 .. Len(u) : u[q] \in Components(Below(u, n))
  <2>1. SUFFICES ASSUME NEW q \in n + 1 .. Len(u)
                 PROVE  u[q] \in Components(Below(u, n))
    OBVIOUS
  <2>2. q - n \in 1 .. Len(u) - n /\ n + (q - n) = q
    BY <1>5
  <2>3. Below(u, n)[q - n] = u[q] /\ q - n \in DOMAIN Below(u, n)
    BY <1>7, <2>2
  <2>4. QED
    BY <2>3 DEF Components
<1>12. /\ \A p \in 1 .. n, q \in n + 1 .. Len(u) : x[p] # u[q]
       /\ \A p \in 1 .. m, q \in n + 1 .. Len(u) : y[p] # u[q]
  BY <1>2, <1>9, <1>10, <1>11
<1>13. Len(y) \in Nat /\ m < Len(y) /\ Len(y) - m = Len(x) - n
  BY <1>5, <1>9
<1> HIDE DEF y, v, m
<1>14. Laid(n, m, x, y, u, v)
  BY <1>5, <1>9, <1>10, <1>12, <1>13 DEF Laid
<1>15. QED
  BY <1>4, <1>14 DEF m

Copy(n, root, l) == [l EXCEPT !.file = root \o Below(l.file, n)]

LEMMA WhereIsOneToOne ==
    ASSUME TypeOK, NEW n, NEW root, Remap(n, root), NEW i \in Ids(Now), NEW j \in Ids(Now),
           Where(n, root, i) = Where(n, root, j)
    PROVE  i = j
<1> DEFINE x == i[1]
           u == j[1]
           y == Where(n, root, i)[1]
           m == Len(root)
<1>1. n \in Nat /\ m \in Nat
  BY DEF Remap
<1>2. Laid(n, m, x, y, u, y) /\ Laid(n, m, u, y, x, y)
  BY Layout
<1>3. /\ i \in Identity /\ j \in Identity /\ i[2] = j[2]
  BY Members, FiniteIds DEF Where
<1>4. x \in Seq(Components(x)) /\ u \in Seq(Components(u))
  BY <1>3, InputsAssumption DEF Identity
<1> HIDE DEF x, u, y, m
<1>5. /\ Len(x) \in Nat /\ Len(u) \in Nat /\ n < Len(x) /\ Len(y) \in Nat
      /\ Len(y) - m = Len(x) - n /\ Len(y) - m = Len(u) - n
  BY <1>2 DEF Laid
<1>6. Len(x) = Len(u)
  BY <1>1, <1>5
<1>7. ASSUME NEW k \in 1 .. Len(x) PROVE x[k] = u[k]
  <2>1. CASE k <= n
    <3>1. k \in 1 .. n
      BY <1>1, <2>1
    <3>2. QED
      BY <1>2, <3>1 DEF Laid
  <2>2. CASE k > n
    <3>1. k - n \in 1 .. Len(x) - n /\ k - n \in 1 .. Len(u) - n /\ n + (k - n) = k
      BY <1>1, <1>5, <1>6, <2>2
    <3>2. y[m + (k - n)] = x[n + (k - n)] /\ y[m + (k - n)] = u[n + (k - n)]
      BY <1>2, <3>1 DEF Laid
    <3>3. QED
      BY <3>1, <3>2
  <2>3. QED
    BY <1>1, <1>5, <2>1, <2>2
<1>8. x = u
  BY <1>4, <1>6, <1>7
<1>9. QED
  BY <1>3, <1>8 DEF Identity, x, u

(* The record is a copy, member by member, and every group of it counts. *)
LEMMA Copies ==
    ASSUME TypeOK, NEW n, NEW root, Remap(n, root)
    PROVE  /\ \A l \in Now : Id(Copy(n, root, l)) = Where(n, root, Id(l))
           /\ \A l, k \in Now : Copy(n, root, l) = Copy(n, root, k) => l = k
           /\ Recorded = DOMAIN current
           /\ \A g \in DOMAIN current : baseline[g] = {Copy(n, root, l) : l \in current[g]}
           /\ Before = {Copy(n, root, l) : l \in Now}
           /\ Ids(Before) = {Where(n, root, i) : i \in Ids(Now)}
<1>1. \A l \in Now : Id(Copy(n, root, l)) = Where(n, root, Id(l)) /\ Copy(n, root, l).line = l.line
  BY Members DEF Copy, Id, Where, Function
<1>2. ASSUME NEW l \in Now, NEW k \in Now, Copy(n, root, l) = Copy(n, root, k)
      PROVE  l = k
  <2>1. Id(l) = Id(k)
    BY <1>1, <1>2, WhereIsOneToOne DEF Ids
  <2>2. l.line = k.line /\ l \in Function /\ k \in Function
    BY <1>1, <1>2, Members
  <2>3. QED
    BY <2>1, <2>2 DEF Id, Function
<1>3. /\ DOMAIN current = DOMAIN baseline
      /\ \A g \in DOMAIN current : baseline[g] = {Copy(n, root, l) : l \in current[g]}
  BY DEF Remap, Rerooted, Put, Copy
<1>4. ASSUME NEW g \in DOMAIN current
      PROVE  Cardinality(baseline[g]) >= 2
  <2> DEFINE f == [l \in current[g] |-> Copy(n, root, l)]
  <2>1. IsFiniteSet(current[g]) /\ current[g] \subseteq Now
    BY Members, FiniteIds
  <2>2. f \in Surjection(current[g], baseline[g])
    <3>1. f \in [current[g] -> baseline[g]] /\ \A k \in baseline[g] : \E l \in current[g] : f[l] = k
      BY <1>3
    <3> HIDE DEF f
    <3>2. QED
      BY <3>1 DEF Surjection
  <2>3. f \in Injection(current[g], baseline[g])
    <3>1. \A l, k \in current[g] : f[l] = f[k] => l = k
      BY <1>2, <2>1
    <3>2. f \in [current[g] -> baseline[g]]
      BY <1>3
    <3> HIDE DEF f
    <3>3. QED
      BY <3>1, <3>2 DEF Injection, IsInjective
  <2> HIDE DEF f
  <2>4. Cardinality(baseline[g]) = Cardinality(current[g])
    BY <2>1, <2>2, <2>3, FS_Surjection
  <2>5. QED
    BY <2>4 DEF TypeOK
<1>5. Recorded = DOMAIN current
  BY <1>3, <1>4 DEF Recorded
<1>6. Before = {Copy(n, root, l) : l \in Now}
  BY <1>3, <1>5 DEF Before, Now
<1>7. Ids(Before) = {Where(n, root, i) : i \in Ids(Now)}
  BY <1>1, <1>6 DEF Ids
<1>8. QED
  BY <1>1, <1>2, <1>3, <1>5, <1>6, <1>7

LEMMA SamePath ==
    ASSUME NEW x \in Files, NEW y \in Files, Len(x) = Len(y), \A k \in 1 .. Len(x) : x[k] = y[k]
    PROVE  x = y
<1>1. x \in Seq(Components(x)) /\ y \in Seq(Components(y))
  BY InputsAssumption
<1>2. QED
  BY <1>1

LEMMA WhereFiles ==
    ASSUME TypeOK, NEW n, NEW root, Remap(n, root), NEW i \in Ids(Now)
    PROVE  /\ i \in Identity /\ i[1] \in Files /\ i = <<i[1], i[2]>>
           /\ Where(n, root, i) \in Ids(Before) /\ Where(n, root, i) \in Identity
           /\ Where(n, root, i)[1] \in Files /\ Where(n, root, i)[2] = i[2]
<1>1. i \in Identity
  BY Members, FiniteIds
<1>2. Where(n, root, i) \in Ids(Before) /\ Ids(Before) \subseteq Identity
  BY Members, FiniteIds, Copies
<1>3. Where(n, root, i)[2] = i[2]
  BY DEF Where
<1>4. \A e \in Identity : e[1] \in Files /\ e = <<e[1], e[2]>>
  BY DEF Identity
<1>5. QED
  BY <1>1, <1>2, <1>3, <1>4

(* The two runs have all identities in common, or none. *)
LEMMA AllOrNone ==
    ASSUME TypeOK, NEW n, NEW root, Remap(n, root),
           NEW i \in Ids(Now), Where(n, root, i) \in Ids(Now), NEW j \in Ids(Now)
    PROVE  Where(n, root, j) = j
<1> DEFINE e == Where(n, root, i)
           x == e[1]
           y == Where(n, root, e)[1]
           w == j[1]
           z == Where(n, root, j)[1]
           m == Len(root)
<1>1. n \in Nat /\ m \in Nat
  BY DEF Remap
<1>2. Laid(n, m, x, y, i[1], x) /\ Laid(n, m, i[1], x, x, y)
  BY Layout
<1>3. Laid(n, m, w, z, x, y)
  BY Layout
<1>4. w \in Files /\ z \in Files /\ j = <<w, j[2]>> /\ Where(n, root, j) = <<z, j[2]>>
  BY WhereFiles DEF Where
<1> HIDE DEF x, y, w, z, m
<1>5. n = m /\ \A k \in 1 .. n : x[k] = y[k]
  BY <1>1, <1>2, SameRoots
<1>6. Len(w) \in Nat /\ Len(z) \in Nat /\ n < Len(w) /\ Len(z) - m = Len(w) - n
  BY <1>3 DEF Laid
<1>7. Len(w) = Len(z)
  BY <1>1, <1>5, <1>6
<1>8. ASSUME NEW k \in 1 .. Len(w) PROVE w[k] = z[k]
  <2>1. CASE k <= n
    <3>1. k \in 1 .. n
      BY <1>1, <2>1
    <3>2. w[k] = x[k] /\ z[k] = y[k]
      BY <1>3, <1>5, <3>1 DEF Laid
    <3>3. QED
      BY <1>5, <3>1, <3>2
  <2>2. CASE k > n
    <3>1. k - n \in 1 .. Len(w) - n /\ n + (k - n) = k
      BY <1>1, <1>6, <2>2
    <3>2. z[m + (k - n)] = w[n + (k - n)]
      BY <1>3, <3>1 DEF Laid
    <3>3. QED
      BY <1>5, <3>1, <3>2
  <2>3. QED
    BY <1>1, <1>6, <2>1, <2>2
<1>9. w = z
  BY <1>4, <1>7, <1>8, SamePath
<1>10. QED
  BY <1>4, <1>9

(* The pass follows the remap: each claim is of an identity's own copy,    *)
(* and what is left is left with its copy.                                 *)
Tracked(n, root) ==
    /\ \A p \in claims : p[2] = Where(n, root, p[1])
    /\ gone = {Where(n, root, i) : i \in arrived}

LEMMA TrackedAtFirst ==
    ASSUME Init, TypeOK, NEW n, NEW root, Remap(n, root)
    PROVE  Tracked(n, root)
<1>1. /\ arrived = Ids(Now) \ Ids(Before) /\ gone = Ids(Before) \ Ids(Now) /\ claims = {}
      /\ Ids(Before) = {Where(n, root, i) : i \in Ids(Now)}
  BY Copies DEF Init
<1>2. CASE \E i \in Ids(Now) : Where(n, root, i) \in Ids(Now)
  <2>1. \A j \in Ids(Now) : Where(n, root, j) = j
    BY <1>2, AllOrNone
  <2>2. Ids(Before) = Ids(Now)
    BY <1>1, <2>1
  <2>3. arrived = {} /\ gone = {}
    BY <1>1, <2>2
  <2>4. QED
    BY <1>1, <2>3 DEF Tracked
<1>3. CASE \A i \in Ids(Now) : Where(n, root, i) \notin Ids(Now)
  <2>1. arrived = Ids(Now) /\ gone = Ids(Before)
    BY <1>1, <1>3
  <2>2. QED
    BY <1>1, <2>1 DEF Tracked
<1>4. QED
  BY <1>2, <1>3

LEMMA OwnClaim ==
    ASSUME IInv, NEW n, NEW root, Remap(n, root), Tracked(n, root), NEW name,
           NEW c \in Named(arrived, name), NEW b \in Named(gone, name), Mutual(name, c, b)
    PROVE  b = Where(n, root, c)
<1>0. TypeOK /\ arrived \subseteq Ids(Now)
  BY DEF IInv, OneSided
<1>1. c \in Ids(Now) /\ c \in arrived /\ c[2] = name /\ b \in gone /\ b[2] = name
  BY <1>0 DEF Named
<1>2. PICK d \in arrived : b = Where(n, root, d)
  BY <1>1 DEF Tracked
<1> DEFINE own == Where(n, root, c)
           m == Len(root)
<1>3. own \in Named(gone, name)
  <2>1. own \in gone /\ own[2] = c[2]
    BY <1>1 DEF Tracked, Where
  <2>2. QED
    BY <1>1, <2>1 DEF Named
<1>4. SUFFICES ASSUME b # own PROVE FALSE
  OBVIOUS
<1>5. Suffix(c[1], own[1]) < Suffix(c[1], b[1])
  BY <1>3, <1>4 DEF Mutual, Best
<1>6. n \in Nat /\ m \in Nat
  BY DEF Remap
<1>7. Laid(n, m, c[1], own[1], d[1], b[1]) /\ Laid(n, m, d[1], b[1], c[1], own[1])
  BY <1>0, <1>1, <1>2, Layout
<1>8. /\ own[1] \in Files /\ b[1] \in Files /\ own[2] = b[2]
      /\ own = <<own[1], own[2]>> /\ b = <<b[1], b[2]>>
  <2>1. own \in Identity /\ b \in Identity /\ own[2] = c[2] /\ own[1] \in Files /\ b[1] \in Files
    BY <1>0, <1>1, <1>2, WhereFiles
  <2>2. QED
    BY <1>1, <2>1 DEF Identity
<1> HIDE DEF own, m
<1>9. Len(c[1]) - n <= Suffix(c[1], own[1]) /\ Suffix(c[1], own[1]) \in Nat
  BY <1>6, <1>7, OwnTail
<1>10. Len(c[1]) \in Nat /\ Suffix(c[1], b[1]) \in Nat
  <2>1. Len(c[1]) \in Nat
    BY <1>7 DEF Laid
  <2>2. QED
    BY <2>1, SuffixNat
<1>11. Suffix(c[1], b[1]) > Len(c[1]) - n
  BY <1>5, <1>6, <1>9, <1>10
<1>12. Len(own[1]) = Len(b[1]) /\ \A k \in 1 .. Len(own[1]) : own[1][k] = b[1][k]
  BY <1>6, <1>7, <1>11, FarTail
<1>13. own[1] = b[1]
  BY <1>8, <1>12, SamePath
<1>14. QED
  BY <1>4, <1>8, <1>13

LEMMA TrackedByRound ==
    ASSUME IInv, NEW n, NEW root, Remap(n, root), Tracked(n, root), NEW name \in Names, Round(name)
    PROVE  Tracked(n, root)'
<1> DEFINE found == {p \in Named(arrived, name) \X Named(gone, name) : Mutual(name, p[1], p[2])}
<1>1. /\ claims' = claims \cup found
      /\ arrived' = arrived \ {p[1] : p \in found}
      /\ gone' = gone \ {p[2] : p \in found}
  BY DEF Round
<1>2. \A p \in found : p[2] = Where(n, root, p[1]) /\ p[1] \in arrived
  <2>1. SUFFICES ASSUME NEW p \in found
                 PROVE  p[2] = Where(n, root, p[1]) /\ p[1] \in arrived
    OBVIOUS
  <2>2. p[1] \in Named(arrived, name) /\ p[2] \in Named(gone, name) /\ Mutual(name, p[1], p[2])
    OBVIOUS
  <2>3. QED
    BY <2>2, OwnClaim DEF Named
<1> HIDE DEF found
<1>3. arrived \subseteq Ids(Now) /\ TypeOK
  BY DEF IInv, OneSided
<1>4. \A i, j \in arrived : Where(n, root, i) = Where(n, root, j) => i = j
  BY <1>3, WhereIsOneToOne
<1>5. gone' = {Where(n, root, i) : i \in arrived'}
  <2>1. ASSUME NEW b \in gone'
        PROVE  b \in {Where(n, root, i) : i \in arrived'}
    <3>1. PICK i \in arrived : b = Where(n, root, i)
      BY <1>1 DEF Tracked
    <3>2. i \in arrived'
      BY <1>1, <1>2, <3>1
    <3>3. QED
      BY <3>1, <3>2
  <2>2. ASSUME NEW i \in arrived'
        PROVE  Where(n, root, i) \in gone'
    <3>1. i \in arrived /\ Where(n, root, i) \in gone
      BY <1>1 DEF Tracked
    <3>2. ASSUME NEW p \in found, p[2] = Where(n, root, i) PROVE FALSE
      BY <1>1, <1>2, <1>4, <3>1, <3>2
    <3>3. QED
      BY <1>1, <3>1, <3>2
  <2>3. QED
    BY <2>1, <2>2
<1>6. \A p \in claims' : p[2] = Where(n, root, p[1])
  BY <1>1, <1>2 DEF Tracked
<1>7. QED
  BY <1>5, <1>6 DEF Tracked, Where

(* Of finitely many some is the longest. *)
LEMMA Longest ==
    ASSUME NEW A, IsFiniteSet(A), A # {}, NEW len \in [A -> Nat]
    PROVE  \E c \in A : \A d \in A : len[d] <= len[c]
<1> DEFINE Longer(c) == {d \in A : len[d] > len[c]}
           Counts == {Cardinality(Longer(c)) : c \in A}
           Less == OpToRel(<, Nat)
<1>1. \A c \in A : IsFiniteSet(Longer(c)) /\ Cardinality(Longer(c)) \in Nat
  BY FS_Subset, FS_CardinalityType
<1>2. IsWellFoundedOn(Less, Nat)
  BY NatLessThanWellFounded
<1>3. \A x, y \in Nat : x < y => <<x, y>> \in Less
  BY DEF OpToRel
<1>4. Counts \subseteq Nat /\ Counts # {}
  BY <1>1
<1> HIDE DEF Less, Counts
<1>5. PICK u \in Counts : \A v \in Counts : <<v, u>> \notin Less
  BY <1>2, <1>4, WFMin
<1>6. PICK c \in A : u = Cardinality(Longer(c))
  BY DEF Counts
<1>7. ASSUME NEW d \in A, len[d] > len[c]
      PROVE  FALSE
  <2>1. Longer(d) \subseteq Longer(c) /\ d \in Longer(c) /\ d \notin Longer(d)
    BY <1>7
  <2>2. Cardinality(Longer(d)) < Cardinality(Longer(c))
    <3> HIDE DEF Longer
    <3>1. QED
      BY <1>1, <2>1, RoundShrinks
  <2>3. Cardinality(Longer(d)) \in Counts
    BY DEF Counts
  <2> HIDE DEF Longer
  <2>4. QED
    BY <1>1, <1>3, <1>5, <1>6, <2>2, <2>3
<1>8. QED
  BY <1>7

(* When the rounds are over everything has found its copy: of what were    *)
(* left, the longest path would be paired.                                 *)
LEMMA NoneLeft ==
    ASSUME IInv, pc = "done", NEW n, NEW root, Remap(n, root), Tracked(n, root)
    PROVE  arrived = {}
<1>0. TypeOK /\ arrived \subseteq Ids(Now)
  BY DEF IInv, OneSided
<1>1. SUFFICES ASSUME arrived # {} PROVE FALSE
  OBVIOUS
<1>2. \A i \in arrived : i \in Identity /\ i[1] \in Files /\ i[2] \in Names /\ Len(i[1]) \in Nat
  BY <1>0, FileLength DEF TypeOK, Identity
<1>3. IsFiniteSet(arrived)
  BY <1>0, Members, FiniteIds, FS_Subset
<1>4. PICK c \in arrived : \A d \in arrived : Len(d[1]) <= Len(c[1])
  <2> DEFINE len == [i \in arrived |-> Len(i[1])]
  <2>1. len \in [arrived -> Nat]
    BY <1>2
  <2>2. \A i \in arrived : len[i] = Len(i[1])
    OBVIOUS
  <2> HIDE DEF len
  <2>3. PICK c \in arrived : \A d \in arrived : len[d] <= len[c]
    BY <1>1, <1>3, <2>1, Longest
  <2>4. \A d \in arrived : Len(d[1]) <= Len(c[1])
    BY <2>2, <2>3
  <2>5. QED
    BY <2>4
<1> DEFINE b == Where(n, root, c)
           m == Len(root)
           name == c[2]
<1>5. b \in gone /\ b[2] = name /\ b[1] \in Files /\ n \in Nat /\ m \in Nat
  BY <1>0, WhereFiles DEF Tracked, Remap
<1>6. /\ Laid(n, m, c[1], b[1], c[1], b[1]) /\ Laid(m, n, b[1], c[1], b[1], c[1])
  <2>1. Laid(n, m, c[1], b[1], c[1], b[1])
    BY <1>0, Layout
  <2>2. QED
    BY <1>5, <2>1, LaidBack
<1>7. /\ Suffix(c[1], b[1]) \in Nat /\ Len(c[1]) - n <= Suffix(c[1], b[1])
      /\ Suffix(b[1], c[1]) \in Nat /\ Len(b[1]) - m <= Suffix(b[1], c[1])
      /\ n < Len(c[1]) /\ Len(c[1]) \in Nat /\ Len(b[1]) \in Nat /\ Len(b[1]) - m = Len(c[1]) - n
  <2>1. /\ n < Len(c[1]) /\ Len(c[1]) \in Nat /\ Len(b[1]) \in Nat /\ Len(b[1]) - m = Len(c[1]) - n
    BY <1>6 DEF Laid
  <2>2. /\ Suffix(c[1], b[1]) \in Nat /\ Len(c[1]) - n <= Suffix(c[1], b[1])
    BY <1>5, <1>6, OwnTail
  <2>3. /\ Suffix(b[1], c[1]) \in Nat /\ Len(b[1]) - m <= Suffix(b[1], c[1])
    BY <1>5, <1>6, OwnTail
  <2>4. QED
    BY <2>1, <2>2, <2>3
<1>8. ASSUME NEW d \in arrived, d[2] = name, d # c
      PROVE  /\ Suffix(c[1], Where(n, root, d)[1]) < Suffix(c[1], b[1])
             /\ Suffix(b[1], d[1]) < Suffix(b[1], c[1])
  <2> DEFINE e == Where(n, root, d)
  <2>1. Laid(n, m, c[1], b[1], d[1], e[1]) /\ Laid(n, m, d[1], e[1], c[1], b[1])
    BY <1>0, Layout
  <2>2. Laid(m, n, b[1], c[1], e[1], d[1]) /\ Laid(m, n, e[1], d[1], b[1], c[1])
    BY <1>5, <2>1, LaidBack
  <2>3. e[1] \in Files /\ e[2] = d[2] /\ d[1] \in Files /\ d[1] # c[1]
    <3>1. e[1] \in Files /\ e[2] = d[2]
      BY <1>0, WhereFiles
    <3>2. d = <<d[1], d[2]>> /\ c = <<c[1], c[2]>> /\ d[1] \in Files
      BY <1>0, WhereFiles
    <3>3. QED
      BY <1>8, <3>1, <3>2
  <2>4. b[1] # e[1]
    <3>1. b = e => c = d
      BY <1>0, WhereIsOneToOne
    <3>2. b = <<b[1], b[2]>> /\ e = <<e[1], e[2]>>
      BY DEF Where
    <3>3. QED
      BY <1>5, <1>8, <2>3, <3>1, <3>2
  <2> HIDE DEF e, b, m, name
  <2>5. Len(d[1]) <= Len(c[1]) /\ Len(e[1]) <= Len(b[1])
    <3>1. /\ Len(d[1]) \in Nat /\ Len(e[1]) \in Nat /\ Len(e[1]) - m = Len(d[1]) - n
      BY <2>1 DEF Laid
    <3>2. Len(d[1]) <= Len(c[1])
      BY <1>4
    <3>3. n \in Nat /\ m \in Nat /\ Len(c[1]) \in Nat /\ Len(b[1]) \in Nat /\ Len(b[1]) - m = Len(c[1]) - n
      BY <1>5, <1>7
    <3>4. QED
      BY <3>1, <3>2, <3>3
  <2>6. /\ ~(Suffix(c[1], e[1]) >= Len(c[1]) - n)
        /\ ~(Suffix(b[1], d[1]) >= Len(b[1]) - m)
    <3>1. ASSUME Suffix(c[1], e[1]) >= Len(c[1]) - n
          PROVE  FALSE
      <4>1. Len(b[1]) = Len(e[1]) /\ \A k \in 1 .. Len(b[1]) : b[1][k] = e[1][k]
        BY <1>5, <2>1, <2>5, <3>1, FarTail
      <4>2. QED
        BY <1>5, <2>3, <2>4, <4>1, SamePath
    <3>2. ASSUME Suffix(b[1], d[1]) >= Len(b[1]) - m
          PROVE  FALSE
      <4>1. Len(c[1]) = Len(d[1]) /\ \A k \in 1 .. Len(c[1]) : c[1][k] = d[1][k]
        BY <1>5, <2>2, <2>5, <3>2, FarTail
      <4>2. QED
        BY <1>2, <2>3, <4>1, SamePath
    <3>3. QED
      BY <3>1, <3>2
  <2>7. Suffix(c[1], e[1]) \in Nat /\ Suffix(b[1], d[1]) \in Nat
    BY <1>7, SuffixNat
  <2>8. /\ Suffix(c[1], e[1]) < Suffix(c[1], b[1])
        /\ Suffix(b[1], d[1]) < Suffix(b[1], c[1])
    BY <1>5, <1>7, <2>6, <2>7
  <2>9. QED
    BY <2>8 DEF e
<1> HIDE DEF b, m, name
<1>9. Suffix(c[1], b[1]) > 0 /\ Suffix(b[1], c[1]) > 0
  BY <1>5, <1>7
<1>10. b \in Named(gone, name) /\ c \in Named(arrived, name)
  BY <1>5 DEF Named, name
<1>11. \A e \in Named(gone, name) \ {b} : Suffix(c[1], e[1]) < Suffix(c[1], b[1])
  <2>1. SUFFICES ASSUME NEW e \in gone, e[2] = name, e # b
                 PROVE  Suffix(c[1], e[1]) < Suffix(c[1], b[1])
    BY DEF Named
  <2>2. PICK d \in arrived : e = Where(n, root, d)
    BY DEF Tracked
  <2>3. d[2] = name /\ d # c
    BY <2>1, <2>2 DEF Where, b
  <2>4. QED
    BY <1>8, <2>2, <2>3
<1>12. \A d \in Named(arrived, name) \ {c} : Suffix(b[1], d[1]) < Suffix(b[1], c[1])
  BY <1>8 DEF Named
<1>13. Mutual(name, c, b)
  BY <1>9, <1>10, <1>11, <1>12 DEF Mutual, Best
<1>14. name \in Names /\ turns[name] = 0
  BY <1>2 DEF name, IInv, Judged
<1>15. Turns(Cardinality(Named(arrived, name)), Cardinality(Named(gone, name))) <= 0
  BY <1>10, <1>13, <1>14 DEF IInv, Enough
<1>16. /\ Cardinality(Named(arrived, name)) \in Nat /\ Cardinality(Named(arrived, name)) > 0
       /\ Cardinality(Named(gone, name)) \in Nat /\ Cardinality(Named(gone, name)) > 0
  BY <1>10, LeftFinite, FS_EmptySet DEF IInv
<1>17. QED
  BY <1>15, <1>16 DEF Turns

(* Every function is compared under its own copy's identity. *)
LEMMA ComparedAsCopies ==
    ASSUME IInv, pc = "done", NEW n, NEW root, Remap(n, root), Tracked(n, root), NEW l \in Now
    PROVE  Same(l) = Id(Copy(n, root, l))
<1>1. TypeOK /\ arrived = {} /\ gone = {}
  BY NoneLeft DEF IInv, Tracked
<1>2. /\ {p[1] : p \in claims} = Ids(Now) \ Ids(Before)
      /\ {p[2] : p \in claims} = Ids(Before) \ Ids(Now)
  BY <1>1 DEF IInv, OneSided
<1>3. ASSUME NEW k \in Now
      PROVE  CurrentId(k) = Where(n, root, Id(k))
  <2>0. Id(k) \in Ids(Now)
    BY DEF Ids
  <2>1. CASE \E p \in claims : p[1] = Id(k)
    BY <2>1 DEF CurrentId, Tracked
  <2>2. CASE ~\E p \in claims : p[1] = Id(k)
    <3>1. Id(k) \in Ids(Before)
      BY <1>2, <2>0, <2>2
    <3>2. PICK i \in Ids(Now) : Id(k) = Where(n, root, i)
      BY <1>1, <3>1, Copies
    <3>3. Where(n, root, Id(k)) = Id(k)
      BY <1>1, <2>0, <3>2, AllOrNone
    <3>4. QED
      BY <2>2, <3>3 DEF CurrentId
  <2>3. QED
    BY <2>1, <2>2
<1>4. StraysBefore = {}
  <2>1. SUFFICES ASSUME NEW b \in Before
                 PROVE  \E k \in Now : Id(b) = CurrentId(k)
    BY DEF StraysBefore
  <2>2. PICK k \in Now : b = Copy(n, root, k)
    BY <1>1, Copies
  <2>3. QED
    BY <1>1, <1>3, <2>2, Copies
<1>5. Same(l) = CurrentId(l)
  BY <1>4 DEF Same, Moved, Only
<1>6. QED
  BY <1>1, <1>3, <1>5, Copies

-----------------------------------------------------------------------------
(* A finite set is as large as the numbering of its members under what a   *)
(* function takes them to.                                                 *)
Fibre(S, h, i) == {l \in S : h[l] = i}

LEMMA Numbering ==
    ASSUME NEW S, IsFiniteSet(S), NEW h
    PROVE  \E F : /\ IsFiniteSet(F) /\ Cardinality(F) = Cardinality(S)
                  /\ \A p \in F : p = <<p[1], p[2]>>
                  /\ \A i, k : <<i, k>> \in F <=> k \in 1 .. Cardinality(Fibre(S, h, i))
<1> DEFINE Of(i) == {l \in S : h[l] = i}
           Number(i) == CHOOSE b : b \in Bijection(1 .. Cardinality(Of(i)), Of(i))
           Place(l) == CHOOSE k \in 1 .. Cardinality(Of(h[l])) : Number(h[l])[k] = l
           f == [l \in S |-> <<h[l], Place(l)>>]
           F == {f[l] : l \in S}
<1>1. ASSUME NEW i
      PROVE  /\ Number(i) \in [1 .. Cardinality(Of(i)) -> Of(i)]
             /\ \A j, k \in 1 .. Cardinality(Of(i)) : Number(i)[j] = Number(i)[k] => j = k
             /\ \A l \in Of(i) : \E k \in 1 .. Cardinality(Of(i)) : Number(i)[k] = l
  <2>1. IsFiniteSet(Of(i))
    BY FS_Subset
  <2> HIDE DEF Of
  <2>2. \E b : b \in Bijection(1 .. Cardinality(Of(i)), Of(i))
    BY <2>1, FS_CardinalityType DEF ExistsBijection
  <2>3. Number(i) \in Bijection(1 .. Cardinality(Of(i)), Of(i))
    BY <2>2
  <2> HIDE DEF Number
  <2>4. QED
    BY <2>3 DEF Bijection, Injection, IsInjective, Surjection
<1>2. \A l \in S : /\ Place(l) \in 1 .. Cardinality(Of(h[l]))
                   /\ Number(h[l])[Place(l)] = l
  <2>1. SUFFICES ASSUME NEW l \in S
                 PROVE  /\ Place(l) \in 1 .. Cardinality(Of(h[l]))
                        /\ Number(h[l])[Place(l)] = l
    OBVIOUS
  <2>2. l \in Of(h[l])
    OBVIOUS
  <2> HIDE DEF Of, Number
  <2>3. \E k \in 1 .. Cardinality(Of(h[l])) : Number(h[l])[k] = l
    BY <1>1, <2>2
  <2>4. QED
    BY <2>3
<1>3. ASSUME NEW i, NEW k \in 1 .. Cardinality(Of(i))
      PROVE  \E l \in S : h[l] = i /\ Place(l) = k
  <2> DEFINE l == Number(i)[k]
  <2>1. l \in Of(i)
    <3> HIDE DEF Of, Number
    <3>1. QED
      BY <1>1
  <2>2. l \in S /\ h[l] = i
    BY <2>1
  <2>3. /\ Place(l) \in 1 .. Cardinality(Of(i)) /\ Number(i)[Place(l)] = l
    <3> HIDE DEF l, Of, Number, Place
    <3>1. QED
      BY <1>2, <2>2
  <2>4. Place(l) = k
    <3> HIDE DEF Of, Number, Place
    <3>1. QED
      BY <1>1, <2>3
  <2>5. QED
    BY <2>2, <2>4
<1> HIDE DEF Of, Number, Place
<1>4. \A l, m \in S : f[l] = f[m] => l = m
  BY <1>2
<1>5. f \in [S -> F] /\ \A p \in F : \E l \in S : f[l] = p
  OBVIOUS
<1>6. \A p \in F : p = <<p[1], p[2]>>
  OBVIOUS
<1>7. \A i, k : <<i, k>> \in F <=> k \in 1 .. Cardinality(Of(i))
  BY <1>2, <1>3
<1> HIDE DEF f, F
<1>8. f \in Surjection(S, F) /\ f \in Injection(S, F)
  BY <1>4, <1>5 DEF Surjection, Injection, IsInjective
<1>9. IsFiniteSet(F) /\ Cardinality(F) = Cardinality(S)
  BY <1>8, FS_Surjection
<1>10. QED
  BY <1>6, <1>7, <1>9 DEF Of, Fibre

(* A recorded group can hold no more of a group than there are members. *)
LEMMA HeldAtMost ==
    ASSUME TypeOK, NEW g \in DOMAIN current, NEW b \in Recorded
    PROVE  /\ Together(g, b) \in Nat /\ Together(g, b) <= Cardinality(current[g])
           /\ (\A l \in current[g] : 
                 /\ Same(l) \in Ids(baseline[b])
                 /\ TimesNow(g, Same(l)) <= TimesThen(b, Same(l))
                 /\ TimesNow(g, Same(l)) <= Cardinality(baseline[b]))
              => Together(g, b) = Cardinality(current[g])
<1> DEFINE h == [l \in current[g] |-> Same(l)]
           T == {p \in Ids(baseline[b]) \X (1 .. Cardinality(baseline[b])) :
                    p[2] <= TimesNow(g, p[1]) /\ p[2] <= TimesThen(b, p[1])}
<1>1. IsFiniteSet(current[g]) /\ Cardinality(baseline[b]) \in Nat /\ b \in DOMAIN baseline
  BY Members, FiniteIds, FS_CardinalityType DEF Recorded
<1>2. PICK F : /\ IsFiniteSet(F) /\ Cardinality(F) = Cardinality(current[g])
               /\ \A p \in F : p = <<p[1], p[2]>>
               /\ \A i, k : <<i, k>> \in F <=> k \in 1 .. Cardinality(Fibre(current[g], h, i))
  <2> HIDE DEF h
  <2>1. QED
    BY <1>1, Numbering
<1>3. \A i : Fibre(current[g], h, i) = {l \in current[g] : Same(l) = i}
  BY DEF Fibre
<1> HIDE DEF h
<1>4. \A i, k : <<i, k>> \in F <=> k \in 1 .. TimesNow(g, i)
  BY <1>2, <1>3 DEF TimesNow
<1>5. \A i : TimesNow(g, i) \in Nat /\ TimesThen(b, i) \in Nat
  BY <1>1, Times
<1>6. T \in SUBSET F
  <2>1. SUFFICES ASSUME NEW p \in T PROVE p \in F
    OBVIOUS
  <2>2. p = <<p[1], p[2]>> /\ p[2] \in Nat /\ 1 <= p[2] /\ p[2] <= TimesNow(g, p[1])
    BY <1>1
  <2>3. QED
    BY <1>4, <1>5, <2>2
<1>7. Together(g, b) = Cardinality(T)
  BY DEF Together
<1>8. ASSUME \A l \in current[g] : /\ Same(l) \in Ids(baseline[b])
                                   /\ TimesNow(g, Same(l)) <= TimesThen(b, Same(l))
                                   /\ TimesNow(g, Same(l)) <= Cardinality(baseline[b])
      PROVE  F = T
  <2>1. SUFFICES ASSUME NEW p \in F PROVE p \in T
    BY <1>6
  <2> DEFINE i == p[1]
             k == p[2]
  <2>2. p = <<i, k>> /\ k \in 1 .. TimesNow(g, i)
    BY <1>2, <1>4
  <2> HIDE DEF i, k, T
  <2>3. k \in Nat /\ 1 <= k /\ k <= TimesNow(g, i) /\ 1 <= TimesNow(g, i)
    BY <1>5, <2>2
  <2>4. PICK l \in current[g] : Same(l) = i
    BY <1>1, <2>3, Times
  <2>5. i \in Ids(baseline[b]) /\ k <= TimesThen(b, i) /\ k <= Cardinality(baseline[b])
    BY <1>1, <1>5, <1>8, <2>3, <2>4
  <2>6. <<i, k>> \in Ids(baseline[b]) \X (1 .. Cardinality(baseline[b]))
    BY <1>1, <2>3, <2>5
  <2>7. QED
    BY <2>2, <2>3, <2>5, <2>6 DEF T
<1> HIDE DEF T
<1>9. IsFiniteSet(T) /\ Cardinality(T) \in Nat /\ Cardinality(T) <= Cardinality(F)
  BY <1>2, <1>6, FS_Subset, FS_CardinalityType
<1>10. QED
  BY <1>2, <1>7, <1>8, <1>9

(* A group is held whole by its own record, so nothing is new. *)
LEMMA HeldWhole ==
    ASSUME IInv, pc = "done", NEW n, NEW root, Remap(n, root), Tracked(n, root),
           NEW g \in DOMAIN current
    PROVE  g \in Recorded /\ Together(g, g) = Cardinality(current[g])
<1>0. TypeOK /\ g \in Recorded /\ g \in DOMAIN baseline /\ current[g] \subseteq Now
  BY Members, Copies DEF IInv, Recorded
<1>1. baseline[g] = {Copy(n, root, l) : l \in current[g]}
  BY <1>0, Copies
<1>2. \A l \in current[g] : Same(l) = Id(Copy(n, root, l))
  BY <1>0, ComparedAsCopies
<1>3. \A l, k \in current[g] : Copy(n, root, l) = Copy(n, root, k) => l = k
  BY <1>0, Copies
<1>4. IsFiniteSet(current[g]) /\ IsFiniteSet(baseline[g])
  BY <1>0, Members, FiniteIds
<1>5. ASSUME NEW i
      PROVE  TimesNow(g, i) = TimesThen(g, i) /\ TimesNow(g, i) <= Cardinality(baseline[g])
  <2> DEFINE now == {l \in current[g] : Same(l) = i}
             then == {k \in baseline[g] : Id(k) = i}
             f == [l \in now |-> Copy(n, root, l)]
  <2>1. IsFiniteSet(now) /\ IsFiniteSet(then)
    BY <1>4, FS_Subset
  <2>2. f \in [now -> then] /\ \A k \in then : \E l \in now : f[l] = k
    BY <1>1, <1>2
  <2>3. \A l, k \in now : f[l] = f[k] => l = k
    BY <1>3
  <2>4. then \in SUBSET baseline[g]
    OBVIOUS
  <2>5. TimesNow(g, i) = Cardinality(now) /\ TimesThen(g, i) = Cardinality(then)
    BY DEF TimesNow, TimesThen
  <2> HIDE DEF now, then, f
  <2>6. f \in Surjection(now, then) /\ f \in Injection(now, then)
    BY <2>2, <2>3 DEF Surjection, Injection, IsInjective
  <2>7. Cardinality(then) = Cardinality(now)
    BY <2>1, <2>6, FS_Surjection
  <2>8. Cardinality(then) <= Cardinality(baseline[g])
    BY <1>4, <2>4, FS_Subset
  <2>9. QED
    BY <2>5, <2>7, <2>8
<1>6. \A l \in current[g] : /\ Same(l) \in Ids(baseline[g])
                           /\ TimesNow(g, Same(l)) <= TimesThen(g, Same(l))
                           /\ TimesNow(g, Same(l)) <= Cardinality(baseline[g])
  <2>1. \A i : TimesNow(g, i) \in Nat
    BY <1>0, Times
  <2>2. \A l \in current[g] : Same(l) \in Ids(baseline[g])
    BY <1>1, <1>2 DEF Ids
  <2>3. QED
    BY <1>5, <2>1, <2>2
<1>7. QED
  BY <1>0, <1>6, HeldAtMost

LEMMA RemapChangesNothing ==
    ASSUME IInv, ResolvedMeansGone, pc = "done", NEW n, NEW root, Remap(n, root), Tracked(n, root)
    PROVE  NothingNew
<1>0. TypeOK /\ Recorded = DOMAIN current
  BY Copies DEF IInv
<1>1. \A g \in DOMAIN current : /\ Cardinality(current[g]) \in Nat
                                /\ Cardinality(current[g]) >= 2
  <2>1. \A g \in DOMAIN current : IsFiniteSet(current[g])
    BY <1>0, Members, FiniteIds
  <2>2. QED
    BY <1>0, <2>1, FS_CardinalityType DEF TypeOK
<1>2. ASSUME NEW g \in DOMAIN current
      PROVE  Status(g) = "unchanged"
  <2> DEFINE held == {Together(g, b) : b \in Recorded} \cup {0}
             all == Cardinality(current[g])
  <2>1. all \in held /\ \A k \in held : k \in Nat /\ k <= all
    <3>1. all \in held
      BY HeldWhole
    <3>2. \A b \in Recorded : Together(g, b) \in Nat /\ Together(g, b) <= all
      BY <1>0, HeldAtMost
    <3>3. QED
      BY <1>1, <3>1, <3>2
  <2> HIDE DEF held
  <2>2. \A m \in held : (\A k \in held : k <= m) => m = all
    BY <1>1, <2>1
  <2>3. (CHOOSE m \in held : \A k \in held : k <= m) = all
    BY <2>1, <2>2
  <2>4. Held(g) = all
    BY <2>3 DEF Held, held
  <2>5. QED
    BY <1>1, <2>4 DEF Status
<1>3. \A g \in DOMAIN current : novelty[g].status = "unchanged"
  BY <1>2 DEF IInv, Judged
<1>4. resolved = 0
  <2>1. {b \in Recorded : \A g \in DOMAIN current : Together(g, b) < 2} = {}
    <3>1. SUFFICES ASSUME NEW b \in DOMAIN current, Together(b, b) < 2
                   PROVE  FALSE
      BY <1>0
    <3>2. Together(b, b) = Cardinality(current[b])
      BY HeldWhole
    <3>3. QED
      BY <1>1, <3>1, <3>2
  <2>2. QED
    BY <2>1, FS_EmptySet DEF ResolvedMeansGone
<1>5. QED
  BY <1>3, <1>4 DEF NothingNew

(* Spec 42, for every tree, any number of groups of any size, and any two  *)
(* roots with no component that occurs below them: groups compared with    *)
(* themselves under another root are unchanged and none is resolved.       *)
THEOREM RemapIsNoChange == Spec => []RemapKeepsGroups
<1> DEFINE AllTracked == \A n, root : Remap(n, root) => Tracked(n, root)
<1>1. Init => AllTracked
  BY InitIInv, TrackedAtFirst DEF IInv
<1>2. IInv /\ AllTracked /\ [Next]_vars => AllTracked'
  <2> SUFFICES ASSUME IInv, AllTracked, [Next]_vars, NEW n, NEW root, Remap(n, root)'
               PROVE  Tracked(n, root)'
    OBVIOUS
  <2>1. UNCHANGED <<current, baseline>>
    BY DEF Next, vars, input, Round, Judge
  <2>2. Remap(n, root)
    BY <2>1 DEF Remap, Rerooted, Fresh, Now
  <2>3. Tracked(n, root)
    BY <2>2
  <2>4. ASSUME NEW name \in Names, Round(name) PROVE Tracked(n, root)'
    BY <2>2, <2>3, <2>4, TrackedByRound
  <2>5. CASE UNCHANGED <<claims, arrived, gone>>
    BY <2>3, <2>5 DEF Tracked
  <2>6. QED
    BY <2>4, <2>5 DEF Next, Judge, vars
<1>3. IInv /\ ResolvedMeansGone /\ AllTracked => RemapKeepsGroups
  <2> SUFFICES ASSUME IInv, ResolvedMeansGone, AllTracked, pc = "done",
                      NEW n \in 0 .. 2, NEW root \in RootsOf(Before),
                      Rerooted(n, root), Fresh(n, root)
               PROVE  NothingNew
    BY DEF RemapKeepsGroups
  <2>1. root \in Seq(Components(root))
    <3>1. PICK l \in Before, k \in 0 .. 2 : k < Len(l.file) /\ root = Root(l.file, k)
      BY DEF RootsOf
    <3>2. l.file \in Seq(Components(l.file)) /\ k \in Nat
      BY Members, InputsAssumption DEF IInv, Function
    <3>3. root \in Seq(Components(l.file))
      BY <3>1, <3>2, Parts
    <3>4. QED
      BY <3>3 DEF Components
  <2>2. Remap(n, root)
    BY <2>1 DEF Remap
  <2>3. QED
    BY <2>2, RemapChangesNothing
<1> HIDE DEF AllTracked
<1>4. QED
  BY <1>1, <1>2, <1>3, Invariance, CountingsAgree, PTL DEF Spec
=============================================================================
