---------------------------- MODULE Report_proofs ----------------------------
(***************************************************************************)
(* Proofs about Report: for all functions, thresholds, slices, orders,     *)
(* caps and signals, the page a run writes tells every row its reader is   *)
(* owed, sounds the alarm when the run is to fail and only then, and names *)
(* the same functions above the threshold whatever the format; and the     *)
(* duplicate section shows each verdict beside its own group; the places   *)
(* of a comment tell which file is meant; and a terminal's table fits it   *)
(* if it can.                                                              *)
(*                                                                         *)
(* First come facts about counting, sorting, picking and cutting, then the *)
(* rows a format is given (IInv), then each format in turn.                *)
(***************************************************************************)
EXTENDS Report, FiniteSetTheorems, SequenceTheorems, WellFoundedInduction, TLAPS

-----------------------------------------------------------------------------
(* Counting *)

(* The numbers from 1 to n are n.                                          *)
LEMMA UpTo == \A n \in Nat : IsFiniteSet(1 .. n) /\ Cardinality(1 .. n) = n
  BY FS_Interval

(* Some of a finite set there are when their number is not 0. *)
LEMMA SomeOrNone ==
    ASSUME NEW S, IsFiniteSet(S)
    PROVE  Cardinality(S) \in Nat /\ (Cardinality(S) > 0 <=> S # {})
  BY FS_CardinalityType, FS_EmptySet

(* What holds of 0 and of the next number holds of every number.           *)
LEMMA EveryNumber ==
    ASSUME NEW G, 0 \in G, \A n \in Nat : n \in G => n + 1 \in G
    PROVE  Nat \subseteq G
<1>1. SUFFICES ASSUME Nat \ G # {} PROVE FALSE
  OBVIOUS
<1>2. IsWellFoundedOn(OpToRel(<, Nat), Nat)
  BY NatLessThanWellFounded
<1>3. PICK least \in Nat \ G : \A n \in Nat \ G : <<n, least>> \notin OpToRel(<, Nat)
  <2> DEFINE R == OpToRel(<, Nat)
             B == Nat \ G
  <2>1. B \subseteq Nat /\ B # {} /\ IsWellFoundedOn(R, Nat)
    BY <1>1, <1>2
  <2> HIDE DEF R, B
  <2>2. \E least \in B : \A n \in B : <<n, least>> \notin R
    BY <2>1, WFMin
  <2> QED
    BY <2>2 DEF R, B
<1>4. \A n \in Nat \ G : ~(n < least)
  BY <1>3 DEF OpToRel
<1>5. least - 1 \in Nat /\ least - 1 < least /\ (least - 1) + 1 = least
  <2>1. least \in Nat /\ least # 0
    BY <1>3
  <2>2. QED
    BY <2>1
<1> QED
  BY <1>3, <1>4, <1>5

(* A fold's running totals, which are the only ones ...                    *)
Chosen(s) == CHOOSE x \in s : TRUE
Totals(g, f, S) ==
    g = [s \in SUBSET S |-> IF s = {} THEN 0 ELSE f[Chosen(s)] + g[s \ {Chosen(s)}]]

(* ... are determined by what is added, so any two of them agree.          *)
LEMMA TotalsAgree ==
    ASSUME NEW S, IsFiniteSet(S), NEW f, NEW g, Totals(g, f, S), NEW h, Totals(h, f, S)
    PROVE  g[S] = h[S]
<1> DEFINE G == {n \in Nat : \A s \in SUBSET S : Cardinality(s) = n => g[s] = h[s]}
<1>1. \A s \in SUBSET S : IsFiniteSet(s) /\ Cardinality(s) \in Nat
  BY FS_Subset, FS_CardinalityType
<1>2. \A s \in SUBSET S :
        /\ g[s] = IF s = {} THEN 0 ELSE f[Chosen(s)] + g[s \ {Chosen(s)}]
        /\ h[s] = IF s = {} THEN 0 ELSE f[Chosen(s)] + h[s \ {Chosen(s)}]
  BY DEF Totals
<1>3. 0 \in G
  <2>1. \A s \in SUBSET S : Cardinality(s) = 0 => s = {}
    BY <1>1, FS_EmptySet
  <2>2. QED
    BY <1>2, <2>1
<1>4. ASSUME NEW n \in Nat, n \in G
      PROVE  n + 1 \in G
  <2>1. SUFFICES ASSUME NEW s \in SUBSET S, Cardinality(s) = n + 1 PROVE g[s] = h[s]
    OBVIOUS
  <2>2. s # {}
    BY <2>1, FS_EmptySet
  <2>3. Chosen(s) \in s
    BY <2>2 DEF Chosen
  <2>4. Cardinality(s \ {Chosen(s)}) = n /\ s \ {Chosen(s)} \in SUBSET S
    <3>1. IsFiniteSet(s) /\ Cardinality(s) \in Nat
      BY <1>1
    <3>2. Cardinality(s \ {Chosen(s)}) = Cardinality(s) - 1
      BY <2>3, <3>1, FS_RemoveElement
    <3>3. QED
      BY <2>1, <3>1, <3>2
  <2>5. g[s \ {Chosen(s)}] = h[s \ {Chosen(s)}]
    BY <1>4, <2>4
  <2>6. QED
    BY <1>2, <2>2, <2>5
<1>5. Nat \subseteq G
  <2> HIDE DEF G
  <2> QED
    BY <1>3, <1>4, EveryNumber
<1> QED
  BY <1>1, <1>5

(* ... so the numbers of things with each label add up to the number of    *)
(* those with one.                                                         *)
LEMMA LabelsAddUp ==
    ASSUME NEW U, IsFiniteSet(U), NEW label, NEW S, IsFiniteSet(S), NEW f, NEW labelled,
           \A c \in S : /\ f[c] = Cardinality(labelled[c]) /\ labelled[c] \subseteq U
                       /\ \A x \in U : x \in labelled[c] <=> label[x] = c,
           NEW V \in SUBSET U, \A x \in U : x \in V <=> label[x] \in S
    PROVE  SumFunctionOnSet(f, S) = Cardinality(V)
<1> DEFINE Having(s) == {x \in U : label[x] \in s}
           g == [s \in SUBSET S |-> Cardinality(Having(s))]
<1>1. \A s : IsFiniteSet(Having(s)) /\ Cardinality(Having(s)) \in Nat
  BY FS_Subset, FS_CardinalityType
<1>2. ASSUME NEW s \in SUBSET S, s # {}
      PROVE  Cardinality(Having(s)) = f[Chosen(s)] + Cardinality(Having(s \ {Chosen(s)}))
  <2> DEFINE c == Chosen(s)
             A == labelled[c]
             B == Having(s \ {c})
  <2>1. c \in s
    BY <1>2 DEF Chosen
  <2> HIDE DEF c
  <2>2. Having(s) = A \cup B /\ A \cap B = {}
    BY <2>1
  <2>3. IsFiniteSet(A) /\ IsFiniteSet(B) /\ Cardinality(A) \in Nat /\ Cardinality(B) \in Nat
    BY <1>1, <2>1, FS_Subset, FS_CardinalityType
  <2>4. f[c] = Cardinality(A)
    BY <2>1
  <2> HIDE DEF A, B, Having
  <2>5. Cardinality(A \cup B) = Cardinality(A) + Cardinality(B)
    <3>1. Cardinality(A \cup B) = Cardinality(A) + Cardinality(B) - Cardinality(A \cap B)
      BY <2>3, FS_Union
    <3>2. Cardinality(A \cap B) = 0
      BY <2>2, FS_EmptySet
    <3>3. QED
      BY <2>3, <3>1, <3>2
  <2>6. QED
    BY <2>2, <2>4, <2>5 DEF B, c
<1>3. Cardinality(Having({})) = 0
  <2>1. Having({}) = {}
    OBVIOUS
  <2>2. QED
    BY <2>1, FS_EmptySet
<1>4. Totals(g, f, S)
  <2> HIDE DEF Having
  <2>1. \A s \in SUBSET S : s # {} => s \ {Chosen(s)} \in SUBSET S
    OBVIOUS
  <2>2. \A s \in SUBSET S : g[s] = IF s = {} THEN 0 ELSE f[Chosen(s)] + g[s \ {Chosen(s)}]
    BY <1>2, <1>3, <2>1
  <2>3. g = [s \in SUBSET S |-> IF s = {} THEN 0 ELSE f[Chosen(s)] + g[s \ {Chosen(s)}]]
    BY <2>2
  <2>4. QED
    BY <2>3 DEF Totals
<1> HIDE DEF g
<1> DEFINE t == CHOOSE t : Totals(t, f, S)
<1>5. Totals(t, f, S)
  BY <1>4
<1>6. SumFunctionOnSet(f, S) = t[S]
  BY DEF SumFunctionOnSet, FoldFunctionOnSet, MapThenFoldSet, Totals, Chosen
<1> HIDE DEF t
<1>7. t[S] = g[S]
  BY <1>4, <1>5, TotalsAgree
<1>8. Having(S) = V
  OBVIOUS
<1> QED
  BY <1>6, <1>7, <1>8 DEF g

-----------------------------------------------------------------------------
(* Orders *)

(* A strict total order of a set, as a set of pairs. *)
InOrder(R, S) ==
    /\ \A x \in S : <<x, x>> \notin R
    /\ \A x, y \in S : x # y => <<x, y>> \in R \/ <<y, x>> \in R
    /\ \A x, y, z \in S : <<x, y>> \in R /\ <<y, z>> \in R => <<x, z>> \in R

(* What is further on has more before it. *)
LEMMA MoreBefore ==
    ASSUME NEW S, IsFiniteSet(S), NEW R, InOrder(R, S), NEW x \in S, NEW y \in S, <<x, y>> \in R
    PROVE  Cardinality(Ahead(R, S, x)) < Cardinality(Ahead(R, S, y))
<1>1. IsFiniteSet(Ahead(R, S, y)) /\ Ahead(R, S, x) \subseteq Ahead(R, S, y)
  BY FS_Subset DEF InOrder, Ahead
<1>2. x \in Ahead(R, S, y) /\ x \notin Ahead(R, S, x)
  BY DEF InOrder, Ahead
<1> QED
  BY <1>1, <1>2, FS_Subset, FS_CardinalityType

(* In an order of a finite set some element comes first, one second, and   *)
(* so on for each: an element that has exactly so many before it.          *)
LEMMA Ranks ==
    ASSUME NEW S, IsFiniteSet(S), NEW R, InOrder(R, S)
    PROVE  \A k \in 1 .. Cardinality(S) : \E x \in S : Cardinality(Ahead(R, S, x)) = k - 1
<1> DEFINE n == Cardinality(S)
           rank == [x \in S |-> Cardinality(Ahead(R, S, x))]
<1>1. n \in Nat
  BY FS_CardinalityType
<1>2. \A x \in S : rank[x] \in 0 .. n - 1
  <2>1. SUFFICES ASSUME NEW x \in S PROVE rank[x] \in 0 .. n - 1
    OBVIOUS
  <2>2. Ahead(R, S, x) \subseteq S /\ x \notin Ahead(R, S, x)
    BY DEF InOrder, Ahead
  <2>3. IsFiniteSet(Ahead(R, S, x)) /\ Cardinality(Ahead(R, S, x)) < n
    BY <2>2, FS_Subset, FS_CardinalityType
  <2>4. QED
    BY <1>1, <2>3, FS_CardinalityType
<1>3. \A x, y \in S : rank[x] = rank[y] => x = y
  <2>1. SUFFICES ASSUME NEW x \in S, NEW y \in S, x # y PROVE rank[x] # rank[y]
    OBVIOUS
  <2>2. rank[x] \in Nat /\ rank[y] \in Nat
    BY <1>1, <1>2
  <2>3. CASE <<x, y>> \in R
    BY <2>2, <2>3, MoreBefore
  <2>4. CASE <<y, x>> \in R
    BY <2>2, <2>4, MoreBefore
  <2>5. QED
    BY <2>1, <2>3, <2>4 DEF InOrder
<1>4. IsFiniteSet(0 .. n - 1) /\ Cardinality(0 .. n - 1) = n
  <2> HIDE DEF n, rank
  <2>1. n - 1 \in Int /\ (0 > n - 1 <=> n = 0)
    BY <1>1
  <2>2. QED
    BY <1>1, <2>1, FS_Interval
<1>5. rank \in Injection(S, 0 .. n - 1)
  BY <1>2, <1>3 DEF Injection, IsInjective
<1>6. rank \in Surjection(S, 0 .. n - 1)
  BY <1>4, <1>5, FS_Injection
<1>7. QED
  <2>1. SUFFICES ASSUME NEW k \in 1 .. n PROVE \E x \in S : rank[x] = k - 1
    OBVIOUS
  <2>2. k - 1 \in 0 .. n - 1
    BY <1>1
  <2>3. QED
    BY <1>6, <2>2 DEF Surjection

(* What a sorted list of a set is. *)
IsListing(s, S, R) ==
    /\ s \in Seq(S) /\ Len(s) = Cardinality(S) /\ Cardinality(S) \in Nat
    /\ \A x \in S : \E k \in 1 .. Len(s) : s[k] = x
    /\ \A i, j \in 1 .. Len(s) : s[i] = s[j] => i = j
    /\ \A i, j \in 1 .. Len(s) : i < j => <<s[i], s[j]>> \in R

(* Listing a finite set by an order has each element once, and what comes  *)
(* first in the order first: what a sort of src/ returns.                  *)
LEMMA ListedInOrder ==
    ASSUME NEW S, IsFiniteSet(S), NEW R, InOrder(R, S)
    PROVE  IsListing(Listed(S, R), S, R)
<1> DEFINE n == Cardinality(S)
           s == Listed(S, R)
           rank(x) == Cardinality(Ahead(R, S, x))
<1>1. n \in Nat
  BY FS_CardinalityType
<1>2. DOMAIN s = 1 .. n /\ \A k \in 1 .. n : s[k] \in S /\ rank(s[k]) = k - 1
  <2>1. \A k \in 1 .. n : \E x \in S : rank(x) = k - 1
    BY Ranks
  <2>2. DOMAIN s = 1 .. n /\ \A k \in 1 .. n : s[k] = CHOOSE x \in S : rank(x) = k - 1
    BY DEF Listed
  <2>3. QED
    BY <2>1, <2>2
<1>3. s \in [1 .. n -> S]
  <2>1. s = [k \in 1 .. n |-> s[k]]
    BY DEF Listed
  <2>2. QED
    BY <1>2, <2>1
<1> HIDE DEF s
<1>4. s \in Seq(S) /\ Len(s) = n
  BY <1>1, <1>3, IsASeq, LenProperties
<1>5. \A i, j \in 1 .. n : s[i] = s[j] => i = j
  BY <1>1, <1>2
<1>6. ASSUME NEW i \in 1 .. n, NEW j \in 1 .. n, i < j
      PROVE  <<s[i], s[j]>> \in R
  <2>1. s[i] # s[j]
    BY <1>1, <1>5, <1>6
  <2>2. CASE <<s[j], s[i]>> \in R
    <3>1. rank(s[j]) < rank(s[i])
      BY <1>2, <2>2, MoreBefore
    <3>2. QED
      BY <1>1, <1>2, <1>6, <3>1
  <2>3. QED
    BY <1>2, <2>1, <2>2 DEF InOrder
<1>7. ASSUME NEW x \in S
      PROVE  \E k \in 1 .. n : s[k] = x
  <2>1. s \in Injection(1 .. n, S)
    BY <1>3, <1>5 DEF Injection, IsInjective
  <2>2. IsFiniteSet(1 .. n) /\ Cardinality(1 .. n) = n
    BY <1>1, FS_Interval
  <2>3. s \in Surjection(1 .. n, S)
    BY <2>1, <2>2, FS_Injection
  <2>4. QED
    BY <2>3 DEF Surjection
<1>8. IsListing(s, S, R)
  BY <1>1, <1>4, <1>5, <1>6, <1>7 DEF IsListing
<1> QED
  BY <1>8 DEF s

(* What is picked of a sequence: the elements at those places, in order. *)
Picks(r, s, P, at) ==
    /\ at \in Seq(P) /\ Len(at) = Cardinality(P) /\ Cardinality(P) \in Nat
    /\ \A k \in P : \E i \in 1 .. Len(at) : at[i] = k
    /\ \A i, j \in 1 .. Len(at) : i < j => at[i] < at[j]
    /\ DOMAIN r = 1 .. Len(at) /\ Len(r) = Len(at)
    /\ \A i \in 1 .. Len(at) : at[i] \in P /\ r[i] = s[at[i]]

(* Picking places of a sequence keeps the elements there, in their order:  *)
(* what `filter' or `retain' leaves.                                       *)
LEMMA PickedInOrder ==
    ASSUME NEW T, NEW s \in Seq(T), NEW P \in SUBSET DOMAIN s
    PROVE  Picked(s, P) \in Seq(T) /\ \E at : Picks(Picked(s, P), s, P, at)
<1> DEFINE R == {p \in P \X P : p[1] < p[2]}
           at == Listed(P, R)
           r == [k \in DOMAIN at |-> s[at[k]]]
<1>1. IsFiniteSet(P) /\ P \subseteq Nat /\ DOMAIN s = 1 .. Len(s) /\ Len(s) \in Nat
  <2>1. DOMAIN s = 1 .. Len(s) /\ Len(s) \in Nat
    BY LenProperties
  <2>2. IsFiniteSet(1 .. Len(s))
    BY <2>1, FS_Interval
  <2>3. QED
    BY <2>1, <2>2, FS_Subset
<1>2. InOrder(R, P)
  BY <1>1 DEF InOrder
<1>3. IsListing(at, P, R)
  BY <1>1, <1>2, ListedInOrder
<1>4. Picked(s, P) = r
  BY DEF Picked, Ranked, Precedence
<1> HIDE DEF at
<1>5. at \in Seq(P) /\ DOMAIN at = 1 .. Len(at) /\ Len(at) \in Nat
  BY <1>3, LenProperties DEF IsListing
<1>6. \A i \in 1 .. Len(at) : at[i] \in P /\ s[at[i]] \in T
  BY <1>1, <1>5, ElementOfSeq
<1>7. r \in [1 .. Len(at) -> T]
  BY <1>5, <1>6
<1>8. r \in Seq(T) /\ Len(r) = Len(at) /\ DOMAIN r = 1 .. Len(at)
  BY <1>5, <1>7, IsASeq, LenProperties
<1>9. Picks(r, s, P, at)
  BY <1>3, <1>5, <1>6, <1>8 DEF IsListing, Picks
<1> QED
  BY <1>4, <1>8, <1>9

(* A sequence's elements are its set; each there once, they are as many.  *)
LEMMA OnceCounts ==
    ASSUME NEW T, NEW s \in Seq(T)
    PROVE  /\ DOMAIN s = 1 .. Len(s) /\ Len(s) \in Nat
           /\ ToSet(s) = {s[k] : k \in 1 .. Len(s)} /\ ToSet(s) \subseteq T
           /\ IsFiniteSet(ToSet(s))
           /\ Once(s) => Cardinality(ToSet(s)) = Len(s)
<1>1. DOMAIN s = 1 .. Len(s) /\ Len(s) \in Nat /\ \A k \in 1 .. Len(s) : s[k] \in T
  BY LenProperties, ElementOfSeq
<1>2. ToSet(s) = {s[k] : k \in 1 .. Len(s)} /\ ToSet(s) \subseteq T
  BY <1>1 DEF ToSet
<1>3. IsFiniteSet(1 .. Len(s)) /\ Cardinality(1 .. Len(s)) = Len(s)
  BY <1>1, UpTo
<1> DEFINE f == [k \in 1 .. Len(s) |-> s[k]]
<1>4. f \in Surjection(1 .. Len(s), ToSet(s))
  BY <1>2 DEF Surjection
<1>5. Once(s) => f \in Injection(1 .. Len(s), ToSet(s))
  BY <1>2 DEF Once, Injection, IsInjective
<1> HIDE DEF f
<1>6. IsFiniteSet(ToSet(s)) /\ (Once(s) => Cardinality(ToSet(s)) = Len(s))
  BY <1>3, <1>4, <1>5, FS_Surjection
<1> QED
  BY <1>1, <1>2, <1>6

(* ... so as many are left as were picked, and none twice if none was      *)
(* there twice.                                                            *)
LEMMA PickedTells ==
    ASSUME NEW T, NEW s \in Seq(T), NEW P \in SUBSET DOMAIN s
    PROVE  /\ Picked(s, P) \in Seq(T)
           /\ Len(Picked(s, P)) = Cardinality(P) /\ Cardinality(P) \in Nat
           /\ ToSet(Picked(s, P)) = {s[k] : k \in P}
           /\ Once(s) => Once(Picked(s, P))
<1>1. PICK at : Picks(Picked(s, P), s, P, at)
  BY PickedInOrder
<1> DEFINE r == Picked(s, P)
<1>2. r \in Seq(T)
  BY PickedInOrder
<1> HIDE DEF r
<1>3. /\ Len(r) = Cardinality(P) /\ Cardinality(P) \in Nat /\ DOMAIN r = 1 .. Len(r)
      /\ \A i \in 1 .. Len(r) : at[i] \in P /\ r[i] = s[at[i]]
      /\ \A k \in P : \E i \in 1 .. Len(r) : at[i] = k
      /\ \A i, j \in 1 .. Len(r) : i < j => at[i] < at[j]
      /\ P \subseteq 1 .. Len(s)
  BY <1>1, LenProperties DEF Picks, r
<1>4. ToSet(r) = {s[k] : k \in P}
  <2>1. ASSUME NEW i \in DOMAIN r PROVE r[i] \in {s[k] : k \in P}
    BY <1>3
  <2>2. ASSUME NEW k \in P PROVE \E i \in DOMAIN r : r[i] = s[k]
    BY <1>3
  <2>3. QED
    BY <2>1, <2>2 DEF ToSet
<1>5. ASSUME Once(s) PROVE Once(r)
  <2>1. SUFFICES ASSUME NEW i \in 1 .. Len(r), NEW j \in 1 .. Len(r), r[i] = r[j]
                 PROVE  i = j
    BY DEF Once
  <2>2. at[i] = at[j]
    BY <1>3, <1>5, <2>1 DEF Once
  <2>3. ~(i < j) /\ ~(j < i)
    BY <1>3, <2>2
  <2>4. QED
    BY <1>3, <2>3
<1> QED
  BY <1>2, <1>3, <1>4, <1>5 DEF r

(* Sorting a set loses nothing and repeats nothing.                        *)
LEMMA SortedTells ==
    ASSUME NEW S, IsFiniteSet(S), NEW R, InOrder(R, S)
    PROVE  /\ Listed(S, R) \in Seq(S) /\ Len(Listed(S, R)) = Cardinality(S)
           /\ ToSet(Listed(S, R)) = S /\ Once(Listed(S, R))
<1> DEFINE s == Listed(S, R)
<1>1. IsListing(s, S, R)
  BY ListedInOrder
<1> HIDE DEF s
<1>2. DOMAIN s = 1 .. Len(s) /\ \A k \in 1 .. Len(s) : s[k] \in S
  BY <1>1, LenProperties, ElementOfSeq DEF IsListing
<1>3. ToSet(s) = S
  BY <1>1, <1>2 DEF IsListing, ToSet
<1> QED
  BY <1>1, <1>3 DEF s, IsListing, Once

-----------------------------------------------------------------------------
(* Inputs and rows *)

(* shown_rows and the sorts of DeltaReport: whichever order was asked for, *)
(* the functions sorted are the ones there were, each once.                *)
LEMMA SortedRows ==
    ASSUME IsInput(in), NEW S \in SUBSET in.now
    PROVE  /\ IsFiniteSet(S)
           /\ Ordered(S) \in Seq(S) /\ ToSet(Ordered(S)) = S /\ Once(Ordered(S))
           /\ Len(Ordered(S)) = Cardinality(S)
           /\ Ranked(S, Higher) \in Seq(S) /\ ToSet(Ranked(S, Higher)) = S
           /\ Once(Ranked(S, Higher)) /\ Len(Ranked(S, Higher)) = Cardinality(S)
<1>1. IsFiniteSet(S)
  BY FS_Subset DEF IsInput
<1>2. InOrder({p \in S \X S : Higher(p[1], p[2])}, S)
  <2> DEFINE R == {p \in S \X S : Higher(p[1], p[2])}
  <2>1. /\ \A f \in S : f.crap \in Nat /\ f.key \in Nat
        /\ \A f, g \in S : f.key = g.key => f = g
    BY DEF IsInput
  <2>2. \A f, g \in S : <<f, g>> \in R <=> Higher(f, g)
    OBVIOUS
  <2> HIDE DEF R
  <2>3. \A f \in S : ~Higher(f, f)
    BY <2>1 DEF Higher
  <2>4. \A f, g \in S : f # g => Higher(f, g) \/ Higher(g, f)
    BY <2>1 DEF Higher
  <2>5. \A f, g, h \in S : Higher(f, g) /\ Higher(g, h) => Higher(f, h)
    BY <2>1 DEF Higher
  <2>6. InOrder(R, S)
    BY <2>2, <2>3, <2>4, <2>5 DEF InOrder
  <2> QED
    BY <2>6 DEF R
<1>3. InOrder({p \in S \X S : Earlier(p[1], p[2])}, S)
  BY DEF IsInput, Earlier, InOrder
<1> QED
  BY <1>1, <1>2, <1>3, SortedTells DEF Ordered, Ranked, Precedence

(* There is one row for each function, and different functions have        *)
(* different rows.                                                         *)
LEMMA EntriesTell ==
    ASSUME NEW S, NEW fs \in Seq(S)
    PROVE  /\ Entries(fs) \in Seq({Entry(f) : f \in S}) /\ Len(Entries(fs)) = Len(fs)
           /\ ToSet(Entries(fs)) = {Entry(f) : f \in ToSet(fs)}
           /\ Once(fs) => Once(Entries(fs))
<1>1. Len(fs) \in Nat /\ DOMAIN fs = 1 .. Len(fs) /\ \A k \in 1 .. Len(fs) : fs[k] \in S
  BY LenProperties, ElementOfSeq
<1>2. Entries(fs) = [k \in 1 .. Len(fs) |-> Entry(fs[k])]
  BY DEF Entries
<1>3. Entries(fs) \in [1 .. Len(fs) -> {Entry(f) : f \in S}]
  BY <1>1, <1>2
<1>4. Entries(fs) \in Seq({Entry(f) : f \in S}) /\ Len(Entries(fs)) = Len(fs)
  BY <1>1, <1>3, IsASeq, LenProperties
<1>5. ToSet(Entries(fs)) = {Entry(f) : f \in ToSet(fs)}
  BY <1>1, <1>2 DEF ToSet
<1>6. \A f, g : Entry(f) = Entry(g) => f = g
  BY DEF Entry
<1>7. Once(fs) => Once(Entries(fs))
  BY <1>1, <1>2, <1>4, <1>6 DEF Once
<1> QED
  BY <1>4, <1>5, <1>7

(* One element is a sequence of length 1.                                  *)
LEMMA OneIsASeq == \A x, X : x \in X => <<x>> \in Seq(X) /\ Len(<<x>>) = 1
  OBVIOUS

(* reasons_for: at most one reason for the score and one for each signal;  *)
(* the score is a reason of regressed functions alone.                     *)
LEMMA FewReasons ==
    ASSUME NEW f
    PROVE  /\ DOMAIN Reasons(f) = 1 .. Len(Reasons(f)) /\ Len(Reasons(f)) \in Nat
           /\ Len(Reasons(f)) <= Len(SignalOrder) + 1
           /\ \A j \in DOMAIN Reasons(f) : Reasons(f)[j].about = "crap" => Status(f) = "regressed"
<1> DEFINE P == {k \in DOMAIN SignalOrder : BaselineHasSignals /\ Found(f, SignalOrder[k])}
           found == Picked(SignalOrder, P)
           X == {Reason("crap", TRUE)} \cup {Reason(found[k], Gating(f, found[k])) : k \in DOMAIN found}
           first == IF Status(f) = "regressed" THEN <<Reason("crap", TRUE)>> ELSE <<>>
           then == [k \in DOMAIN found |-> Reason(found[k], Gating(f, found[k]))]
<1>1. SignalOrder \in Seq(STRING \ {"crap"}) /\ P \in SUBSET DOMAIN SignalOrder
  BY SignalsAssumption
<1>2. Len(SignalOrder) \in Nat /\ DOMAIN SignalOrder = 1 .. Len(SignalOrder)
  BY <1>1, LenProperties
<1>3. found \in Seq(STRING \ {"crap"}) /\ Len(found) \in Nat /\ Len(found) <= Len(SignalOrder)
  <2>1. found \in Seq(STRING \ {"crap"}) /\ Len(found) = Cardinality(P)
    BY <1>1, PickedTells
  <2>2. IsFiniteSet(1 .. Len(SignalOrder)) /\ Cardinality(1 .. Len(SignalOrder)) = Len(SignalOrder)
    BY <1>2, UpTo
  <2>3. Cardinality(P) <= Len(SignalOrder)
    BY <1>1, <1>2, <2>2, FS_Subset
  <2>4. QED
    BY <2>1, <2>3, LenProperties
<1> HIDE DEF found
<1>4. then \in Seq(X) /\ Len(then) = Len(found)
  <2>1. DOMAIN found = 1 .. Len(found) /\ \A k \in 1 .. Len(found) : found[k] \in STRING \ {"crap"}
    BY <1>3, LenProperties, ElementOfSeq
  <2>3. then \in [1 .. Len(found) -> X]
    BY <2>1
  <2> HIDE DEF then, X
  <2>4. QED
    BY <1>3, <2>3, IsASeq, LenProperties
<1>5. first \in Seq(X) /\ Len(first) \in 0 .. 1
  <2>1. Reason("crap", TRUE) \in X
    OBVIOUS
  <2> HIDE DEF X
  <2>2. <<Reason("crap", TRUE)>> \in Seq(X) /\ Len(<<Reason("crap", TRUE)>>) = 1
    BY <2>1, OneIsASeq
  <2>3. <<>> \in Seq(X) /\ Len(<<>>) = 0
    BY EmptySeq
  <2>4. first = <<Reason("crap", TRUE)>> \/ first = <<>>
    OBVIOUS
  <2> HIDE DEF first
  <2>5. CASE first = <<>>
    BY <2>3, <2>5
  <2>6. CASE first = <<Reason("crap", TRUE)>>
    <3>1. Len(first) = 1 /\ first \in Seq(X)
      BY <2>2, <2>6
    <3>2. QED
      BY <3>1
  <2>7. QED
    BY <2>4, <2>5, <2>6
<1>6. first \o then \in Seq(X) /\ Len(first \o then) = Len(first) + Len(then)
  BY <1>4, <1>5, ConcatProperties
<1>7. Reasons(f) = IF f.signals = None THEN <<>> ELSE first \o then
  BY DEF Reasons, Where, found
<1>8. CASE f.signals = None
  BY <1>2, <1>7, <1>8
<1>10. \A j \in 1 .. Len(then) : then[j].about # "crap"
  <2>1. DOMAIN found = 1 .. Len(found) /\ \A k \in 1 .. Len(found) : found[k] # "crap"
    BY <1>3, LenProperties, ElementOfSeq
  <2>2. QED
    BY <1>4, <2>1 DEF Reason
<1>11. Len(first) > 0 => Status(f) = "regressed"
  BY EmptySeq
<1>9. CASE f.signals # None
  <2>1. Reasons(f) \in Seq(X) /\ Len(Reasons(f)) = Len(first) + Len(then)
    BY <1>6, <1>7, <1>9
  <2>2. DOMAIN Reasons(f) = 1 .. Len(Reasons(f)) /\ Len(Reasons(f)) \in Nat
    BY <2>1, LenProperties
  <2>3. ASSUME NEW j \in DOMAIN Reasons(f), Reasons(f)[j].about = "crap"
        PROVE  Status(f) = "regressed"
    <3> HIDE DEF first, then, X
    <3>1. j \in 1 .. Len(first) + Len(then) /\ Len(first) \in Nat /\ Len(then) \in Nat
      BY <1>3, <1>4, <1>5, <2>1, <2>2, <2>3
    <3>2. CASE j <= Len(first)
      BY <1>11, <3>1, <3>2
    <3>3. CASE j > Len(first)
      <4>1. Reasons(f)[j] = then[j - Len(first)] /\ j - Len(first) \in 1 .. Len(then)
        BY <1>4, <1>5, <1>7, <1>9, <3>1, <3>3, ConcatProperties
      <4>2. QED
        BY <1>10, <2>3, <4>1
    <3>4. QED
      BY <3>1, <3>2, <3>3
  <2>4. QED
    BY <1>2, <1>3, <1>4, <1>5, <2>1, <2>2, <2>3
<1> QED
  BY <1>8, <1>9

(* The reasons of all the rows are finitely many, each in a row and at a   *)
(* place of its own.                                                       *)
LEMMA PlacesOfReasons ==
    ASSUME NEW S, NEW es \in Seq({Entry(f) : f \in S})
    PROVE  /\ IsFiniteSet(ReasonPlaces(es))
           /\ \A p \in ReasonPlaces(es) : /\ p = <<p[1], p[2]>> /\ p[1] \in Nat /\ p[2] \in Nat
                                         /\ p[1] \in DOMAIN es /\ p[2] \in DOMAIN es[p[1]].reasons
           /\ \A k \in DOMAIN es : \A j \in DOMAIN es[k].reasons : <<k, j>> \in ReasonPlaces(es)
<1>1. DOMAIN es = 1 .. Len(es) /\ Len(es) \in Nat /\ \A k \in 1 .. Len(es) : es[k] \in {Entry(f) : f \in S}
  BY LenProperties, ElementOfSeq
<1> DEFINE m == Len(SignalOrder) + 1
<1>2. m \in Nat
  BY SignalsAssumption, LenProperties
<1>3. ASSUME NEW k \in 1 .. Len(es)
      PROVE  DOMAIN es[k].reasons \subseteq 1 .. m
  <2>1. PICK f \in S : es[k] = Entry(f)
    BY <1>1
  <2>2. es[k].reasons = Reasons(f) \/ es[k].reasons = <<>>
    BY <2>1 DEF Entry
  <2>3. DOMAIN Reasons(f) \subseteq 1 .. m
    BY <1>2, FewReasons
  <2>4. QED
    BY <2>2, <2>3
<1>4. ReasonPlaces(es) \subseteq (1 .. Len(es)) \X (1 .. m)
  BY <1>1, <1>3 DEF ReasonPlaces
<1>5. IsFiniteSet((1 .. Len(es)) \X (1 .. m))
  <2>1. IsFiniteSet(1 .. Len(es)) /\ IsFiniteSet(1 .. m)
    BY <1>1, <1>2, FS_Interval
  <2>2. QED
    BY <2>1, FS_Product
<1>6. IsFiniteSet(ReasonPlaces(es))
  BY <1>4, <1>5, FS_Subset
<1>7. \A p \in ReasonPlaces(es) : p[1] \in DOMAIN es /\ p[2] \in DOMAIN es[p[1]].reasons
  BY DEF ReasonPlaces
<1>8. \A k \in DOMAIN es : \A j \in DOMAIN es[k].reasons : <<k, j>> \in ReasonPlaces(es)
  BY DEF ReasonPlaces
<1>9. \A p \in ReasonPlaces(es) : p = <<p[1], p[2]>> /\ p[1] \in Nat /\ p[2] \in Nat
  BY <1>4
<1> QED
  BY <1>6, <1>7, <1>8, <1>9

(* What is counted of the rows there is in one of them. *)
LEMMA CountsTell ==
    ASSUME NEW S, NEW es \in Seq({Entry(f) : f \in S}), NEW gone
    PROVE  /\ \A s \in Statuses :
                /\ Tally(es, gone)[s] \in Nat
                /\ Tally(es, gone)[s] > 0 <=> \E e \in ToSet(es) : e.status = s
           /\ GatingSignals(es) \in Nat
           /\ GatingSignals(es) > 0 <=>
                \E e \in ToSet(es) : \E j \in DOMAIN e.reasons : GatesAsSignal(e.reasons[j])
<1>1. DOMAIN es = 1 .. Len(es) /\ Len(es) \in Nat /\ IsFiniteSet(DOMAIN es)
  BY LenProperties, FS_Interval
<1>2. ASSUME NEW s \in Statuses
      PROVE  /\ Tally(es, gone)[s] \in Nat
             /\ Tally(es, gone)[s] > 0 <=> \E e \in ToSet(es) : e.status = s
  <2> DEFINE P == {k \in DOMAIN es : es[k].status = s}
  <2>1. Tally(es, gone)[s] = Cardinality(P)
    BY DEF Tally, Statuses
  <2>2. IsFiniteSet(P)
    BY <1>1, FS_Subset
  <2>3. QED
    BY <2>1, <2>2, SomeOrNone DEF ToSet
<1> DEFINE G == {p \in ReasonPlaces(es) : GatesAsSignal(ReasonAt(es, p))}
<1>3. IsFiniteSet(G) /\ GatingSignals(es) = Cardinality(G)
  BY PlacesOfReasons, FS_Subset DEF GatingSignals
<1>4. ASSUME G # {}
      PROVE  \E e \in ToSet(es) : \E j \in DOMAIN e.reasons : GatesAsSignal(e.reasons[j])
  <2>1. PICK p \in ReasonPlaces(es) : GatesAsSignal(ReasonAt(es, p))
    BY <1>4
  <2>2. p[1] \in DOMAIN es /\ p[2] \in DOMAIN es[p[1]].reasons
    BY PlacesOfReasons
  <2>3. QED
    BY <2>1, <2>2 DEF ReasonAt, ToSet
<1>5. ASSUME NEW e \in ToSet(es), NEW j \in DOMAIN e.reasons, GatesAsSignal(e.reasons[j])
      PROVE  G # {}
  <2>1. PICK k \in DOMAIN es : es[k] = e
    BY DEF ToSet
  <2>2. <<k, j>> \in ReasonPlaces(es)
    BY <2>1, PlacesOfReasons
  <2>3. ReasonAt(es, <<k, j>>) = e.reasons[j]
    BY <2>1 DEF ReasonAt
  <2>4. QED
    BY <1>5, <2>2, <2>3
<1> HIDE DEF G
<1> QED
  BY <1>2, <1>3, <1>4, <1>5, SomeOrNone

(* A function's row depends on the run's input alone: no step changes it   *)
(* ...                                                                     *)
LEMMA SameEntries ==
    ASSUME in' = in, NEW f
    PROVE  Entry(f)' = Entry(f)
<1> DEFINE P == {k \in DOMAIN SignalOrder : BaselineHasSignals /\ Found(f, SignalOrder[k])}
           found == Picked(SignalOrder, P)
           then == [k \in DOMAIN found |-> Reason(found[k], Gating(f, found[k]))]
           first == IF Status(f) = "regressed" THEN <<Reason("crap", TRUE)>> ELSE <<>>
<1>1. q' = q
  BY DEF q
<1>2. Status(f)' = Status(f)
  BY <1>1 DEF Status
<1>3. BaselineHasSignals' = BaselineHasSignals
  BY DEF BaselineHasSignals
<1>4. \A s : Found(f, s)' = Found(f, s)
  BY <1>1 DEF Found
<1>5. \A s : Gating(f, s)' = Gating(f, s)
  BY <1>1 DEF Gating
<1>6. P' = P
  BY <1>3, <1>4
<1>7. found' = found
  BY <1>6
<1>8. then' = then
  BY <1>5, <1>7
<1>9. first' = first
  BY <1>2
<1>10. Reasons(f) = (IF f.signals = None THEN <<>> ELSE first \o then)
  BY DEF Reasons, Where
<1>11. Reasons(f)' = (IF f.signals = None THEN <<>> ELSE first' \o then')
  BY DEF Reasons, Where
<1> HIDE DEF P, found, then, first
<1>12. Reasons(f)' = Reasons(f)
  BY <1>8, <1>9, <1>10, <1>11
<1> QED
  BY <1>1, <1>2, <1>12 DEF Entry

(* ... nor whom the slice shows.                                           *)
LEMMA SameShown ==
    ASSUME in' = in
    PROVE  Shown' = Shown
  BY DEF Shown, High, q

(* Who is shown is measured, and all are shown when nothing was cut. *)
LEMMA ShownAre ==
    ASSUME IsInput(in)
    PROVE  Shown \subseteq in.now /\ (~Sliced => Shown = in.now)
<1> DEFINE S == {f \in in.now : q.min = None \/ f.crap >= q.min}
<1>1. High \in Seq(S) /\ ToSet(High) = S /\ S \subseteq in.now
  <2>1. S \in SUBSET in.now
    OBVIOUS
  <2>2. QED
    BY <2>1, SortedRows DEF High
<1> DEFINE n == IF q.top = None \/ q.top > Len(High) THEN Len(High) ELSE q.top
<1>2. Len(High) \in Nat /\ n \in 0 .. Len(High) /\ DOMAIN High = 1 .. Len(High)
  BY <1>1, LenProperties DEF IsInput, q
<1>3. First(High, q.top) = SubSeq(High, 1, n)
  BY DEF First
<1>4. Len(SubSeq(High, 1, n)) = n /\ DOMAIN SubSeq(High, 1, n) = 1 .. n
      /\ \A k \in 1 .. n : SubSeq(High, 1, n)[k] = High[k]
  <2> HIDE DEF S, n
  <2>1. QED
    BY <1>1, <1>2
<1>5. Shown = {High[k] : k \in 1 .. n}
  BY <1>3, <1>4 DEF Shown, ToSet
<1>6. {High[k] : k \in 1 .. Len(High)} = S
  BY <1>1, <1>2 DEF ToSet
<1>7. Shown \subseteq in.now
  BY <1>1, <1>2, <1>5, <1>6
<1>8. ASSUME ~Sliced PROVE Shown = in.now
  <2>1. S = in.now /\ n = Len(High)
    BY <1>8, <1>2 DEF Sliced
  <2>2. QED
    BY <1>5, <1>6, <2>1
<1> QED
  BY <1>7, <1>8

(* What is gone stays, whatever its order. *)
LEMMA SortedGone ==
    ASSUME IsInput(in), NEW s, s = in.gone \/ s = <<>>
    PROVE  /\ s \in Seq(ToSet(in.gone))
           /\ Sorted(s) \in Seq(ToSet(in.gone)) /\ Len(Sorted(s)) = Len(s)
<1>1. in.gone \in Seq(ToSet(in.gone))
  BY DEF IsInput
<1>2. s \in Seq(ToSet(in.gone)) /\ ToSet(s) \subseteq ToSet(in.gone)
  <2>1. CASE s = in.gone
    BY <1>1, <2>1
  <2>2. CASE s = <<>>
    <3>1. <<>> \in Seq(ToSet(in.gone)) /\ DOMAIN <<>> = {}
      BY EmptySeq
    <3>2. QED
      BY <2>2, <3>1 DEF ToSet
  <2>3. QED
    BY <2>1, <2>2
<1>3. /\ \A k \in DOMAIN s : s[k].key \in Nat
      /\ \A j, k \in DOMAIN s : s[j].key = s[k].key => j = k
      /\ DOMAIN s = 1 .. Len(s) /\ Len(s) \in Nat
  BY <1>2, LenProperties, EmptySeq DEF IsInput
<1>4. IsFiniteSet(ToSet(s)) /\ Cardinality(ToSet(s)) = Len(s)
  BY <1>2, <1>3, OnceCounts DEF Once
<1>5. InOrder({p \in ToSet(s) \X ToSet(s) : Earlier(p[1], p[2])}, ToSet(s))
  <2>1. \A x, y \in ToSet(s) : x.key \in Nat /\ (x.key = y.key => x = y)
    BY <1>3 DEF ToSet
  <2> DEFINE T == ToSet(s)
  <2> HIDE DEF T
  <2>2. InOrder({p \in T \X T : p[1].key < p[2].key}, T)
    BY <2>1 DEF InOrder, T
  <2>3. QED
    BY <2>2 DEF T, Earlier
<1>6. CASE q.sort = "file"
  <2>1. Sorted(s) \in Seq(ToSet(s)) /\ Len(Sorted(s)) = Cardinality(ToSet(s))
    BY <1>4, <1>5, <1>6, SortedTells DEF Sorted, Ranked, Precedence
  <2>2. QED
    BY <1>2, <1>4, <2>1, SeqMonotonic
<1>7. CASE q.sort # "file"
  BY <1>2, <1>7 DEF Sorted
<1> QED
  BY <1>2, <1>6, <1>7

-----------------------------------------------------------------------------
(* The inductive invariant *)

(* A run begins in the invariant: nothing is counted yet.                  *)
LEMMA InitIInv == Init => IInv
<1> SUFFICES ASSUME Init PROVE IInv
  OBVIOUS
<1>1. IsInput(in)
  BY InputsAssumption DEF Init
<1>2. removed = <<>> /\ pc = "compare"
  BY DEF Init
<1> QED
  BY <1>1, <1>2 DEF IInv, CountsHold, RowsHold, RemovedHolds, Stages

(* compute_delta and attach_reasons count every function, before anything  *)
(* is cut.                                                                 *)
LEMMA CompareIInv == IInv /\ Compare => IInv'
<1> SUFFICES ASSUME IInv, Compare PROVE IInv'
  OBVIOUS
<1> DEFINE es == Entries(Ranked(in.now, Higher))
           gone == IF q.baseline THEN in.gone ELSE <<>>
<1>1. IsInput(in) /\ in' = in /\ q' = q
  BY DEF IInv, Compare, q
<1>2. es \in Seq({Entry(f) : f \in in.now}) /\ ToSet(es) = {Entry(f) : f \in in.now}
  <2>1. Ranked(in.now, Higher) \in Seq(in.now) /\ ToSet(Ranked(in.now, Higher)) = in.now
    BY <1>1, SortedRows
  <2>2. QED
    BY <2>1, EntriesTell
<1>3. /\ rows' = es /\ removed' = gone /\ counts' = Tally(es, gone) /\ gates' = GatingSignals(es)
      /\ tripped' = (counts'["regressed"] + gates' > 0) /\ pc' = "narrow"
  BY DEF Compare
<1> HIDE DEF es, gone
<1>4. /\ DOMAIN counts' = Statuses \cup {"removed"}
      /\ \A s \in Statuses :
            counts'[s] \in Nat /\ (counts'[s] > 0 <=> \E f \in in.now : Entry(f).status = s)
      /\ gates' \in Nat /\ (gates' > 0 <=> \E f \in in.now : SignalGates(Entry(f)))
  <2>1. DOMAIN counts' = Statuses \cup {"removed"}
    BY <1>3 DEF Tally
  <2>2. \A s \in Statuses :
            counts'[s] \in Nat /\ (counts'[s] > 0 <=> \E e \in ToSet(es) : e.status = s)
    BY <1>2, <1>3, CountsTell
  <2>3. gates' \in Nat /\ (gates' > 0 <=> \E e \in ToSet(es) : SignalGates(e))
    BY <1>2, <1>3, CountsTell DEF SignalGates
  <2>4. QED
    BY <1>2, <2>1, <2>2, <2>3
<1>5. CountsHold'
  <2>1. \A f : Entry(f)' = Entry(f)
    BY <1>1, SameEntries
  <2>2. QED
    BY <1>1, <1>3, <1>4, <2>1 DEF CountsHold, SignalGates
<1>6. RemovedHolds'
  <2>1. removed' \in Seq(ToSet(in.gone)) /\ (q.baseline => Len(removed') = Len(in.gone))
    BY <1>1, <1>3, SortedGone DEF gone
  <2>2. removed' = IF q.baseline THEN in.gone ELSE <<>>
    BY <1>3 DEF gone
  <2>3. QED
    BY <1>1, <2>1, <2>2 DEF RemovedHolds
<1>7. RowsHold' /\ pc' \in Stages /\ IsInput(in')
  BY <1>1, <1>3 DEF RowsHold, Stages
<1> QED
  BY <1>5, <1>6, <1>7 DEF IInv

(* restrict_to and the sorts leave the counts and the gate alone; the rows *)
(* become the slice's, each once, and all that is gone stays.              *)
LEMMA NarrowIInv == IInv /\ Narrow => IInv'
<1> SUFFICES ASSUME IInv, Narrow PROVE IInv'
  OBVIOUS
<1>1. IsInput(in) /\ in' = in /\ q' = q /\ pc = "narrow" /\ pc' = "write"
  BY DEF IInv, Narrow, q
<1>2. \A f : Entry(f)' = Entry(f)
  BY <1>1, SameEntries
<1>3. rows' = Entries(Ordered(Shown)) /\ removed' = Sorted(removed)
      /\ counts' = counts /\ gates' = gates /\ tripped' = tripped
  BY DEF Narrow
<1>4. CountsHold'
  BY <1>1, <1>2, <1>3 DEF IInv, CountsHold, SignalGates
<1>5. RowsHold'
  <2>1. Shown \subseteq in.now /\ Shown' = Shown
    BY <1>1, ShownAre, SameShown
  <2>2. Ordered(Shown) \in Seq(Shown) /\ ToSet(Ordered(Shown)) = Shown /\ Once(Ordered(Shown))
    BY <1>1, <2>1, SortedRows
  <2>3. Ordered(Shown) \in Seq(in.now)
    BY <2>1, <2>2, SeqMonotonic
  <2>4. rows' \in Seq({Entry(f) : f \in in.now}) /\ Once(rows') /\ ToSet(rows') = {Entry(f) : f \in Shown}
    BY <1>3, <2>2, <2>3, EntriesTell
  <2>5. {Entry(f) : f \in in.now}' = {Entry(f) : f \in in.now} /\ {Entry(f) : f \in Shown}' = {Entry(f) : f \in Shown}
    BY <1>1, <1>2, <2>1
  <2>6. QED
    BY <2>4, <2>5 DEF RowsHold
<1>6. RemovedHolds'
  <2>1. removed = in.gone \/ removed = <<>>
    BY <1>1 DEF IInv, RemovedHolds
  <2>2. QED
    BY <1>1, <1>3, <2>1, SortedGone DEF IInv, RemovedHolds
<1>7. pc' \in Stages /\ IsInput(in')
  BY <1>1 DEF Stages
<1> QED
  BY <1>4, <1>5, <1>6, <1>7 DEF IInv

(* Writing and appending change nothing the invariant speaks of.           *)
LEMMA OtherIInv == IInv /\ (Write \/ Bail \/ Duplicates \/ UNCHANGED vars) => IInv'
<1> SUFFICES ASSUME IInv, Write \/ Bail \/ Duplicates \/ UNCHANGED vars PROVE IInv'
  OBVIOUS
<1>1. /\ in' = in /\ q' = q /\ rows' = rows /\ removed' = removed
      /\ counts' = counts /\ gates' = gates /\ tripped' = tripped
  BY DEF Write, Bail, Duplicates, vars, q
<1>2. /\ pc # "compare" \/ pc' = "compare"
      /\ pc' \in Stages /\ (pc' = "narrow" => pc = "narrow")
      /\ pc' \in {"write", "append"} => pc \in {"write", "append"}
  BY DEF IInv, Write, Bail, Duplicates, vars, Stages
<1>3. \A f : Entry(f)' = Entry(f)
  BY <1>1, SameEntries
<1>4. {Entry(f) : f \in in.now}' = {Entry(f) : f \in in.now} /\ {Entry(f) : f \in Shown}' = {Entry(f) : f \in Shown}
  BY <1>1, <1>3, SameShown
<1>5. CountsHold'
  BY <1>1, <1>2, <1>3 DEF IInv, CountsHold, SignalGates
<1>6. RowsHold'
  BY <1>1, <1>2, <1>4 DEF IInv, RowsHold
<1>7. RemovedHolds'
  BY <1>1, <1>2 DEF IInv, RemovedHolds
<1> QED
  BY <1>1, <1>2, <1>5, <1>6, <1>7 DEF IInv

(* What a format is given: in every state of every run the counts and the  *)
(* gate are of the whole comparison, the rows to be written are the        *)
(* slice's, each once, and every function that is gone is there.           *)
THEOREM Invariance == Spec => []IInv
<1>1. IInv /\ [Next]_vars => IInv'
  BY CompareIInv, NarrowIInv, OtherIInv DEF Next
<1> QED
  BY InitIInv, <1>1, PTL DEF Spec

-----------------------------------------------------------------------------
(* The gate is told *)

(* The reasons told are those of the rows. *)
LEMMA ReasonsTell ==
    ASSUME NEW S, NEW es \in Seq({Entry(f) : f \in S})
    PROVE  LET told == {[of |-> es[p[1]].of, reason |-> ReasonAt(es, p)] : p \in ReasonPlaces(es)}
           IN  ReasonRows(es) \in Seq(told) /\ ToSet(ReasonRows(es)) = told
<1> DEFINE P == ReasonPlaces(es)
           gating(p) == ReasonAt(es, p).gating
           sooner(p, r) == p[1] < r[1] \/ (p[1] = r[1] /\ p[2] < r[2])
           above(p, r) == IF gating(p) THEN ~gating(r) \/ sooner(p, r) ELSE ~gating(r) /\ sooner(p, r)
           R == {t \in P \X P : above(t[1], t[2])}
           order == Listed(P, R)
           told == {[of |-> es[p[1]].of, reason |-> ReasonAt(es, p)] : p \in P}
           listed == [k \in DOMAIN order |-> [of |-> es[order[k][1]].of, reason |-> ReasonAt(es, order[k])]]
<1>1. IsFiniteSet(P) /\ \A p \in P : p = <<p[1], p[2]>> /\ p[1] \in Nat /\ p[2] \in Nat
  BY PlacesOfReasons
<1>2. InOrder(R, P)
  <2>1. \A p, r \in P : <<p, r>> \in R <=> above(p, r)
    OBVIOUS
  <2> HIDE DEF R, P, gating
  <2>2. \A p \in P : ~above(p, p)
    BY <1>1
  <2>3. \A p, r \in P : p # r => above(p, r) \/ above(r, p)
    <3>1. \A p, r \in P : p # r => sooner(p, r) \/ sooner(r, p)
      BY <1>1
    <3>2. QED
      BY <3>1
  <2>4. \A p, r, t \in P : above(p, r) /\ above(r, t) => above(p, t)
    <3>1. \A p, r, t \in P : sooner(p, r) /\ sooner(r, t) => sooner(p, t)
      BY <1>1
    <3> HIDE DEF sooner
    <3>2. QED
      BY <3>1
  <2>5. QED
    BY <2>1, <2>2, <2>3, <2>4 DEF InOrder
<1>3. ReasonRows(es) = listed
  BY DEF ReasonRows, Ranked, Precedence
<1>4. order \in Seq(P) /\ ToSet(order) = P
  BY <1>1, <1>2, SortedTells
<1>5. DOMAIN order = 1 .. Len(order) /\ Len(order) \in Nat /\ \A k \in 1 .. Len(order) : order[k] \in P
  <2> HIDE DEF order, P
  <2> QED
    BY <1>4, LenProperties, ElementOfSeq
<1> HIDE DEF order, P
<1>6. listed \in [1 .. Len(order) -> told]
  BY <1>5
<1>7. listed \in Seq(told) /\ DOMAIN listed = 1 .. Len(order)
  <2> HIDE DEF listed, told
  <2> QED
    BY <1>5, <1>6, IsASeq, LenProperties
<1>8. ToSet(listed) = told
  <2>1. {order[k] : k \in 1 .. Len(order)} = P
    BY <1>4, <1>5 DEF ToSet
  <2>2. QED
    BY <1>5, <1>7, <2>1 DEF ToSet
<1> QED
  BY <1>3, <1>7, <1>8 DEF P

(* What passes a test is some of what was tested. *)
LEMMA PassingTells ==
    ASSUME NEW T, NEW s \in Seq(T), NEW A, NEW K \in SUBSET DOMAIN s,
           \A k \in DOMAIN s : k \in K <=> s[k] \in A
    PROVE  /\ Picked(s, K) \in Seq(T) /\ ToSet(Picked(s, K)) = ToSet(s) \cap A
           /\ Once(s) => Once(Picked(s, K))
           /\ Picked(s, K) = <<>> <=> ToSet(s) \cap A = {}
<1>1. Picked(s, K) \in Seq(T) /\ ToSet(Picked(s, K)) = {s[k] : k \in K} /\ (Once(s) => Once(Picked(s, K)))
  BY PickedTells
<1>2. {s[k] : k \in K} = ToSet(s) \cap A
  BY DEF ToSet
<1>3. Picked(s, K) = <<>> <=> ToSet(Picked(s, K)) = {}
  <2> DEFINE r == Picked(s, K)
  <2>1. r \in Seq(T)
    BY <1>1
  <2> HIDE DEF r
  <2>2. DOMAIN r = 1 .. Len(r) /\ Len(r) \in Nat /\ (r # <<>> => Len(r) > 0)
    BY <2>1, LenProperties, EmptySeq
  <2>3. r = <<>> => ToSet(r) = {}
    BY DEF ToSet
  <2>4. ASSUME r # <<>> PROVE ToSet(r) # {}
    <3>1. 1 \in DOMAIN r
      BY <2>2, <2>4
    <3>2. r[1] \in ToSet(r)
      BY <3>1 DEF ToSet
    <3>3. QED
      BY <3>2
  <2>5. QED
    BY <2>3, <2>4 DEF r
<1> QED
  BY <1>1, <1>2, <1>3

(* The rows a format is given, against the counts and the gate, which are  *)
(* of every function.                                                      *)
LEMMA RowsAndCounts ==
    ASSUME IInv, pc = "write", q.baseline
    PROVE  /\ rows \in Seq({Entry(f) : f \in in.now}) /\ Once(rows)
           /\ tripped <=> counts["regressed"] > 0 \/ gates > 0
           /\ (\E e \in ToSet(rows) : e.status = "regressed") => counts["regressed"] > 0
           /\ ~Sliced /\ counts["regressed"] > 0 => \E e \in ToSet(rows) : e.status = "regressed"
           /\ GatingSignals(rows) \in Nat /\ (GatingSignals(rows) > 0 => gates > 0)
           /\ ~Sliced /\ gates > 0 => GatingSignals(rows) > 0
           /\ ~tripped => \A e \in ToSet(rows) : \A j \in DOMAIN e.reasons : ~e.reasons[j].gating
           /\ Empty(counts) => ~tripped
<1>1. /\ IsInput(in) /\ rows \in Seq({Entry(f) : f \in in.now}) /\ Once(rows)
      /\ ToSet(rows) = {Entry(f) : f \in Shown}
      /\ DOMAIN counts = Statuses \cup {"removed"}
      /\ \A s \in Statuses :
            counts[s] \in Nat /\ (counts[s] > 0 <=> \E f \in in.now : Entry(f).status = s)
      /\ gates \in Nat /\ (gates > 0 <=> \E f \in in.now : SignalGates(Entry(f)))
      /\ tripped = (counts["regressed"] + gates > 0)
  BY DEF IInv, CountsHold, RowsHold
<1>2. Shown \subseteq in.now /\ (~Sliced => Shown = in.now)
  BY <1>1, ShownAre
<1>3. "regressed" \in Statuses
  BY DEF Statuses
<1>4. tripped <=> counts["regressed"] > 0 \/ gates > 0
  <2>1. counts["regressed"] \in Nat /\ gates \in Nat
    BY <1>1, <1>3
  <2>2. counts["regressed"] + gates > 0 <=> counts["regressed"] > 0 \/ gates > 0
    BY <2>1
  <2>3. QED
    BY <1>1, <2>2
<1>5. /\ (\E e \in ToSet(rows) : e.status = "regressed") => counts["regressed"] > 0
      /\ ~Sliced /\ counts["regressed"] > 0 => \E e \in ToSet(rows) : e.status = "regressed"
  BY <1>1, <1>2, <1>3
<1>6. /\ GatingSignals(rows) \in Nat
      /\ GatingSignals(rows) > 0 <=> \E e \in ToSet(rows) : SignalGates(e)
  BY <1>1, CountsTell DEF SignalGates
<1>7. (GatingSignals(rows) > 0 => gates > 0) /\ (~Sliced /\ gates > 0 => GatingSignals(rows) > 0)
  BY <1>1, <1>2, <1>6
<1>8. ASSUME ~tripped, NEW e \in ToSet(rows), NEW j \in DOMAIN e.reasons, e.reasons[j].gating
      PROVE  FALSE
  <2>1. PICK f \in in.now : e = Entry(f)
    BY <1>1, <1>2
  <2>2. e.reasons = Reasons(f) /\ e.status = Status(f)
    BY <2>1 DEF Entry
  <2>3. CASE e.reasons[j].about = "crap"
    BY <1>3, <1>4, <1>5, <1>8, <2>2, <2>3, FewReasons
  <2>4. CASE e.reasons[j].about # "crap"
    <3>1. SignalGates(e)
      BY <1>8, <2>4 DEF SignalGates, GatesAsSignal
    <3>2. QED
      BY <1>4, <1>6, <1>7, <1>8, <3>1
  <2>5. QED
    BY <2>3, <2>4
<1>9. ASSUME Empty(counts), tripped
      PROVE  FALSE
  <2>1. \A s \in Statuses : counts[s] = 0
    BY <1>1, <1>9 DEF Empty
  <2>2. PICK f \in in.now : SignalGates(Entry(f))
    BY <1>1, <1>3, <1>4, <1>9, <2>1
  <2>3. Entry(f).status \in Statuses
    BY DEF Entry, Status, Statuses
  <2>4. QED
    BY <1>1, <2>1, <2>3
<1> QED
  BY <1>1, <1>4, <1>5, <1>6, <1>7, <1>8, <1>9

(* Each format, given such rows and counts, sounds the alarm if the run is *)
(* to fail and was not sliced, and never if it is not to fail.             *)
LEMMA GateAsWritten ==
    ASSUME IInv, Write
    PROVE  TellsGate(Rendered)
<1> DEFINE p == Rendered
<1> SUFFICES ASSUME q.baseline, Summarised \/ q.format \notin {"json", "shields"}
             PROVE  /\ tripped /\ (Summarised \/ ~Sliced) => Alarm(p)
                    /\ ~tripped => ~Alarm(p)
  BY DEF TellsGate
<1>1. pc = "write" /\ (Summarised \/ q.format # "sarif") /\ q.format \in Formats
  BY DEF Write, IInv, IsInput, q
<1>2. /\ rows \in Seq({Entry(f) : f \in in.now})
      /\ tripped <=> counts["regressed"] > 0 \/ gates > 0
      /\ (\E e \in ToSet(rows) : e.status = "regressed") => counts["regressed"] > 0
      /\ ~Sliced /\ counts["regressed"] > 0 => \E e \in ToSet(rows) : e.status = "regressed"
      /\ GatingSignals(rows) \in Nat /\ (GatingSignals(rows) > 0 => gates > 0)
      /\ ~Sliced /\ gates > 0 => GatingSignals(rows) > 0
      /\ ~tripped => \A e \in ToSet(rows) : \A j \in DOMAIN e.reasons : ~e.reasons[j].gating
      /\ Empty(counts) => ~tripped
  BY <1>1, RowsAndCounts
<1>3. CASE Summarised
  <2>1. p.says.kind = IF gates > 0 THEN "signals" ELSE "counts"
    BY <1>3 DEF Rendered, DeltaSummary, Page, Says
  <2>2. Alarm(p) <=> gates > 0 \/ counts["regressed"] > 0
    BY <1>3, <2>1 DEF Alarm
  <2>3. QED
    BY <1>2, <2>2
<1> DEFINE told == {[of |-> rows[t[1]].of, reason |-> ReasonAt(rows, t)] : t \in ReasonPlaces(rows)}
<1>4. ReasonRows(rows) \in Seq(told) /\ ToSet(ReasonRows(rows)) = told
  BY <1>2, ReasonsTell
<1>5. \A t \in ReasonPlaces(rows) : t[1] \in DOMAIN rows /\ t[2] \in DOMAIN rows[t[1]].reasons
  BY <1>2, PlacesOfReasons
<1>6. ~tripped => \A r \in told : ~r.reason.gating
  BY <1>2, <1>5 DEF ReasonAt, ToSet
<1>7. GatingSignals(rows) > 0 => \E r \in told : GatesAsSignal(r.reason)
  <2>1. ASSUME GatingSignals(rows) > 0
        PROVE  \E t \in ReasonPlaces(rows) : GatesAsSignal(ReasonAt(rows, t))
    <3>1. IsFiniteSet({t \in ReasonPlaces(rows) : GatesAsSignal(ReasonAt(rows, t))})
      BY <1>2, PlacesOfReasons, FS_Subset
    <3>2. QED
      BY <2>1, <3>1, SomeOrNone DEF GatingSignals
  <2>2. ASSUME NEW t \in ReasonPlaces(rows), GatesAsSignal(ReasonAt(rows, t))
        PROVE  \E r \in told : GatesAsSignal(r.reason)
    <3>1. [of |-> rows[t[1]].of, reason |-> ReasonAt(rows, t)] \in told
      OBVIOUS
    <3>2. QED
      BY <2>2, <3>1
  <2>3. QED
    BY <2>1, <2>2
<1> HIDE DEF told
<1>8. CASE ~Summarised /\ q.format \in {"markdown", "pr-comment"}
  <2>1. p.says = IF Empty(counts) THEN Says("empty", 0) ELSE Headline(rows)
    BY <1>8 DEF Rendered, Compared, Nothing, Page, DeltaMarkdown, DeltaPrComment
  <2>2. p.says.kind \in {"regressed", "signals"}
          <=> ~Empty(counts) /\ (counts["regressed"] > 0 \/ GatingSignals(rows) > 0)
    BY <2>1 DEF Headline, Says
  <2>3. Alarm(p) <=> ~Empty(counts) /\ (counts["regressed"] > 0 \/ GatingSignals(rows) > 0)
    BY <1>8, <2>2 DEF Alarm
  <2>4. QED
    BY <1>2, <1>8, <2>3
<1>9. CASE ~Summarised /\ q.format = "human"
  <2>1. Alarm(p) <=> \/ p.says.kind = "counts" /\ counts["regressed"] > 0
                    \/ \E r \in ToSet(p.sections["reasons"].rows) : r.reason.gating
    BY <1>9 DEF Alarm
  <2>2. CASE Empty(counts)
    <3>1. p.says.kind = "empty" /\ p.sections["reasons"].rows = <<>>
      BY <1>9, <2>2 DEF Rendered, Compared, Nothing, Page, Says, Names, Blank
    <3>2. QED
      BY <1>2, <2>1, <2>2, <3>1 DEF ToSet
  <2>3. CASE ~Empty(counts)
    <3>1. p = DeltaHuman(rows)
      BY <1>9, <2>3 DEF Rendered, Compared
    <3>2. p.says.kind = (IF Quiet(rows) THEN "quiet" ELSE "counts") /\ p.sections["reasons"].rows = ReasonRows(rows)
      BY <3>1 DEF DeltaHuman, Page, Names, ReasonSection, All, Says
    <3>3. (\E e \in ToSet(rows) : e.status = "regressed") => ~Quiet(rows)
      <4> DEFINE A == {e \in ToSet(rows) : q.all \/ e.status # "unchanged"}
                 K == {k \in DOMAIN rows : q.all \/ rows[k].status # "unchanged"}
      <4>1. K \in SUBSET DOMAIN rows /\ \A k \in DOMAIN rows : k \in K <=> rows[k] \in A
        BY DEF ToSet
      <4>2. Visible(rows) = Picked(rows, K)
        BY DEF Visible, Where
      <4>3. Visible(rows) = <<>> <=> ToSet(rows) \cap A = {}
        <5> HIDE DEF K, A
        <5> QED
          BY <1>2, <4>1, <4>2, PassingTells
      <4>4. QED
        BY <4>3 DEF Quiet
    <3>4. Alarm(p) <=> \/ ~Quiet(rows) /\ counts["regressed"] > 0
                      \/ \E r \in told : r.reason.gating
      BY <1>4, <2>1, <3>2
    <3>5. (\E r \in told : GatesAsSignal(r.reason)) => \E r \in told : r.reason.gating
      BY DEF GatesAsSignal
    <3>6. QED
      BY <1>2, <1>6, <1>7, <1>9, <3>3, <3>4, <3>5
  <2>4. QED
    BY <2>2, <2>3
<1>10. CASE ~Summarised /\ q.format = "github"
  <2> DEFINE A == {e \in ToSet(rows) : e.status = "regressed" \/ (e.status = "new" /\ Crappy(e.of))}
             K == {k \in DOMAIN rows :
                    rows[k].status = "regressed" \/ (rows[k].status = "new" /\ Crappy(rows[k].of))}
             rs == ReasonRows(rows)
             B == {r \in ToSet(rs) : GatesAsSignal(r.reason)}
             J == {k \in DOMAIN rs : GatesAsSignal(rs[k].reason)}
  <2>1. p.sections["table"].rows = Picked(rows, K) /\ p.sections["reasons"].rows = Picked(rs, J)
    BY <1>10 DEF Rendered, Compared, DeltaGitHub, Page, Names, All, Where
  <2>2. K \in SUBSET DOMAIN rows /\ \A k \in DOMAIN rows : k \in K <=> rows[k] \in A
    BY DEF ToSet
  <2>3. ToSet(Picked(rows, K)) = ToSet(rows) \cap A
    <3> HIDE DEF K, A
    <3> QED
      BY <1>2, <2>2, PassingTells
  <2>4. J \in SUBSET DOMAIN rs /\ \A k \in DOMAIN rs : k \in J <=> rs[k] \in B
    BY DEF ToSet
  <2>5. Picked(rs, J) = <<>> <=> ToSet(rs) \cap B = {}
    <3>1. rs \in Seq(told)
      BY <1>4
    <3> HIDE DEF J, B, rs
    <3> QED
      BY <2>4, <3>1, PassingTells
  <2>6. Alarm(p) <=> \/ \E e \in ToSet(Picked(rows, K)) : e.status = "regressed"
                    \/ Picked(rs, J) # <<>>
    BY <1>10, <2>1 DEF Alarm
  <2>7. (\E e \in ToSet(Picked(rows, K)) : e.status = "regressed") <=> \E e \in ToSet(rows) : e.status = "regressed"
    BY <2>3
  <2>8. Picked(rs, J) # <<>> <=> \E r \in told : GatesAsSignal(r.reason)
    BY <1>4, <2>5
  <2>9. (\E r \in told : GatesAsSignal(r.reason)) => \E r \in told : r.reason.gating
    BY DEF GatesAsSignal
  <2> HIDE DEF A, B, J, K, rs
  <2>10. QED
    BY <1>2, <1>6, <1>7, <1>10, <2>6, <2>7, <2>8, <2>9
<1>11. q.format \in {"human", "github", "markdown", "pr-comment"} \/ Summarised
  BY <1>1 DEF Formats
<1> QED
  BY <1>3, <1>8, <1>9, <1>10, <1>11

(* No run that will fail its gate writes a page that says nothing of it,   *)
(* whether a headline, counts, reasons, annotations or a summary, unless   *)
(* the slice has cut the row; and no page of a run that will pass cries    *)
(* wolf.                                                                   *)
THEOREM GateAlwaysTold == Spec => []GateIsTold
<1>1. Init => GateIsTold
  BY DEF Init, GateIsTold
<1>2. IInv /\ GateIsTold /\ [Next]_vars => GateIsTold'
  <2> SUFFICES ASSUME IInv, GateIsTold, [Next]_vars PROVE GateIsTold'
    OBVIOUS
  <2>1. CASE Write
    <3>1. TellsGate(Rendered) /\ page' = Rendered
      BY <2>1, GateAsWritten DEF Write
    <3> DEFINE p == Rendered
    <3> HIDE DEF p
    <3>2. TellsGate(p) /\ page' = p
      BY <3>1 DEF p
    <3>3. TellsGate(page)'
      BY <2>1, <3>2 DEF Write, TellsGate, Alarm, Summarised, Sliced, q
    <3>4. QED
      BY <3>3 DEF GateIsTold
  <2>2. CASE Compare \/ Narrow \/ Bail \/ Duplicates
    BY <2>2 DEF GateIsTold, Compare, Narrow, Bail, Duplicates
  <2>3. CASE UNCHANGED vars
    BY <2>3 DEF vars, GateIsTold, TellsGate, Alarm, Summarised, Sliced, q
  <2>4. QED
    BY <2>1, <2>2, <2>3 DEF Next
<1> QED
  BY <1>1, <1>2, Invariance, PTL DEF Spec

-----------------------------------------------------------------------------
(* The formats agree *)

(* A cut is a beginning. *)
LEMMA FirstTells ==
    ASSUME NEW T, NEW s \in Seq(T), NEW n \in Nat \cup {None}
    PROVE  /\ First(s, n) \in Seq(T) /\ Len(First(s, n)) \in 0 .. Len(s)
           /\ n # None => Len(First(s, n)) = IF n <= Len(s) THEN n ELSE Len(s)
           /\ n = None => First(s, n) = s
           /\ \A k \in 1 .. Len(First(s, n)) : First(s, n)[k] = s[k]
           /\ ToSet(First(s, n)) = {s[k] : k \in 1 .. Len(First(s, n))}
           /\ ToSet(First(s, n)) \subseteq ToSet(s)
           /\ Once(s) => Once(First(s, n))
<1> DEFINE m == IF n = None \/ n > Len(s) THEN Len(s) ELSE n
           r == SubSeq(s, 1, m)
<1>1. Len(s) \in Nat /\ DOMAIN s = 1 .. Len(s) /\ \A k \in 1 .. Len(s) : s[k] \in T
  BY LenProperties, ElementOfSeq
<1>2. m \in 0 .. Len(s)
  BY <1>1
<1>3. First(s, n) = r
  BY DEF First
<1>4. r \in Seq(T) /\ Len(r) = m /\ \A k \in 1 .. m : r[k] = s[k]
  <2> HIDE DEF m
  <2>1. \A i \in 1 .. m : s[i] \in T
    BY <1>1, <1>2
  <2>2. r \in Seq(T) /\ Len(r) = (IF 1 <= m THEN m - 1 + 1 ELSE 0) /\ \A i \in 1 .. m - 1 + 1 : r[i] = s[1 + i - 1]
    BY <1>2, <2>1, SubSeqProperties
  <2>3. QED
    BY <1>2, <2>2
<1>5. n = None => r = s
  <2>1. ASSUME n = None PROVE r = s
    <3>1. m = Len(s)
      BY <2>1
    <3> HIDE DEF r
    <3>2. QED
      BY <1>4, <3>1, SeqEqual
  <2>2. QED
    BY <2>1
<1>6. n # None => m = IF n <= Len(s) THEN n ELSE Len(s)
  BY <1>1
<1> HIDE DEF r, m
<1>7. DOMAIN r = 1 .. m
  BY <1>4, LenProperties
<1>8. ToSet(r) = {s[k] : k \in 1 .. m} /\ ToSet(r) \subseteq ToSet(s)
  BY <1>1, <1>2, <1>4, <1>7 DEF ToSet
<1>9. Once(s) => Once(r)
  BY <1>1, <1>2, <1>4 DEF Once
<1> QED
  BY <1>2, <1>3, <1>4, <1>5, <1>6, <1>8, <1>9

(* Sorting moves elements and loses none; the greatest come first. *)
LEMMA DescendingTells ==
    ASSUME NEW T, NEW s \in Seq(T), NEW by \in [DOMAIN s -> Nat]
    PROVE  /\ Descending(s, by) \in Seq(T) /\ Len(Descending(s, by)) = Len(s)
           /\ ToSet(Descending(s, by)) = ToSet(s)
           /\ Once(s) => Once(Descending(s, by))
           /\ \E order \in Seq(DOMAIN s) :
                /\ Len(order) = Len(s)
                /\ \A k \in 1 .. Len(s) : order[k] \in DOMAIN s /\ Descending(s, by)[k] = s[order[k]]
                /\ \A j, k \in 1 .. Len(s) : j < k => by[order[j]] >= by[order[k]]
<1> DEFINE P == DOMAIN s
           above(i, j) == by[i] > by[j] \/ (by[i] = by[j] /\ i < j)
           R == {p \in P \X P : above(p[1], p[2])}
           order == Listed(P, R)
           r == [k \in P |-> s[order[k]]]
<1>1. Len(s) \in Nat /\ P = 1 .. Len(s) /\ \A k \in 1 .. Len(s) : s[k] \in T
  BY LenProperties, ElementOfSeq
<1>2. IsFiniteSet(P) /\ Cardinality(P) = Len(s)
  BY <1>1, UpTo
<1>3. InOrder(R, P)
  <2>1. P \subseteq Nat /\ \A i \in P : by[i] \in Nat
    BY <1>1
  <2> HIDE DEF P
  <2>2. QED
    BY <2>1 DEF InOrder
<1>4. Descending(s, by) = r
  BY DEF Descending, Ranked, Precedence
<1> HIDE DEF R
<1>5. IsListing(order, P, R)
  BY <1>2, <1>3, ListedInOrder
<1> HIDE DEF order
<1>6. /\ order \in Seq(P) /\ Len(order) = Len(s)
      /\ \A k \in 1 .. Len(s) : order[k] \in P
      /\ \A x \in P : \E k \in 1 .. Len(s) : order[k] = x
      /\ \A i, j \in 1 .. Len(s) : order[i] = order[j] => i = j
      /\ \A i, j \in 1 .. Len(s) : i < j => <<order[i], order[j]>> \in R
  <2>1. order \in Seq(P) /\ Len(order) = Len(s)
    BY <1>2, <1>5 DEF IsListing
  <2>2. \A k \in 1 .. Len(s) : order[k] \in P
    <3> HIDE DEF P
    <3> QED
      BY <2>1, ElementOfSeq
  <2>3. QED
    BY <1>5, <2>1, <2>2 DEF IsListing
<1>7. r \in [1 .. Len(s) -> T]
  BY <1>1, <1>6
<1>8. r \in Seq(T) /\ Len(r) = Len(s) /\ DOMAIN r = 1 .. Len(s) /\ \A k \in 1 .. Len(s) : r[k] = s[order[k]]
  <2>1. \A k \in 1 .. Len(s) : r[k] = s[order[k]]
    BY <1>1
  <2> HIDE DEF r
  <2>2. QED
    BY <1>1, <1>7, <2>1, IsASeq, LenProperties
<1> HIDE DEF r
<1>9. ToSet(r) = ToSet(s) /\ (Once(s) => Once(r))
  <2> HIDE DEF P
  <2>1. ToSet(r) \subseteq ToSet(s)
    <3>1. \A k \in 1 .. Len(s) : r[k] = s[order[k]] /\ order[k] \in DOMAIN s
      BY <1>6, <1>8 DEF P
    <3>2. \A k \in 1 .. Len(s) : r[k] \in ToSet(s)
      BY <3>1 DEF ToSet
    <3>3. QED
      BY <1>8, <3>2 DEF ToSet
  <2>2. ASSUME NEW k \in 1 .. Len(s) PROVE s[k] \in ToSet(r)
    <3>1. PICK j \in 1 .. Len(s) : order[j] = k
      BY <1>1, <1>6
    <3>2. QED
      BY <1>8, <3>1 DEF ToSet
  <2>3. ToSet(s) = {s[k] : k \in 1 .. Len(s)}
    BY <1>1 DEF ToSet, P
  <2>4. ASSUME Once(s), NEW j \in 1 .. Len(s), NEW k \in 1 .. Len(s), r[j] = r[k]
        PROVE  j = k
    <3>1. order[j] = order[k]
      <4>1. s[order[j]] = s[order[k]] /\ order[j] \in 1 .. Len(s) /\ order[k] \in 1 .. Len(s)
        BY <1>1, <1>6, <1>8, <2>4
      <4>2. QED
        BY <2>4, <4>1 DEF Once
    <3>2. QED
      BY <1>6, <3>1
  <2>5. Once(s) => Once(r)
    BY <1>8, <2>4 DEF Once
  <2>6. QED
    BY <2>1, <2>2, <2>3, <2>5
<1>10. ASSUME NEW j \in 1 .. Len(s), NEW k \in 1 .. Len(s), j < k
       PROVE  by[order[j]] >= by[order[k]]
  <2>1. order[j] \in P /\ order[k] \in P /\ <<order[j], order[k]>> \in R
    BY <1>6, <1>10
  <2>2. above(order[j], order[k])
    BY <2>1 DEF R
  <2>3. by[order[j]] \in Nat /\ by[order[k]] \in Nat
    BY <2>1
  <2>4. QED
    BY <2>2, <2>3
<1> QED
  BY <1>4, <1>6, <1>8, <1>9, <1>10

(* The rows above the threshold are as many as are counted.                *)
LEMMA CrappyCounts ==
    ASSUME NEW T, NEW s \in Seq(T), Once(s)
    PROVE  LET crappy == {e \in ToSet(s) : Crappy(e.of)}
               them == Picked(s, {k \in DOMAIN s : Crappy(s[k].of)})
           IN  /\ CrappyCount(s) = Cardinality(crappy) /\ IsFiniteSet(crappy)
               /\ them \in Seq(T) /\ ToSet(them) = crappy /\ Len(them) = Cardinality(crappy) /\ Once(them)
<1> DEFINE crappy == {e \in ToSet(s) : Crappy(e.of)}
           K == {k \in DOMAIN s : Crappy(s[k].of)}
           them == Picked(s, K)
<1>1. K \in SUBSET DOMAIN s /\ CrappyCount(s) = Cardinality(K)
  BY DEF CrappyCount
<1>2. {s[k] : k \in K} = crappy
  BY DEF ToSet
<1> HIDE DEF K
<1>3. them \in Seq(T) /\ Len(them) = Cardinality(K) /\ ToSet(them) = crappy /\ Once(them)
  BY <1>1, <1>2, PickedTells
<1> HIDE DEF them, crappy
<1>4. IsFiniteSet(crappy) /\ Cardinality(crappy) = Cardinality(K)
  BY <1>3, OnceCounts
<1> QED
  BY <1>1, <1>3, <1>4 DEF them, crappy, K

(* crate_rollups: what is counted above the threshold crate by crate adds  *)
(* up to the functions above it that are in a crate.                       *)
LEMMA CratesAddUp ==
    ASSUME NEW T, NEW s \in Seq(T), Once(s)
    PROVE  SumFunction([c \in DOMAIN Rollups(s) |-> Rollups(s)[c].crappy])
             = Cardinality({e \in ToSet(s) : Crappy(e.of) /\ e.of.crate # None})
<1> DEFINE U == {e \in ToSet(s) : Crappy(e.of)}
           label == [e \in U |-> e.of.crate]
           C == Crates(s)
           f == [c \in C |-> Rollups(s)[c].crappy]
<1>1. IsFiniteSet(ToSet(s)) /\ IsFiniteSet(U)
  BY OnceCounts, FS_Subset
<1>2. IsFiniteSet(C)
  <2> DEFINE g == [e \in ToSet(s) |-> e.of.crate]
             V == {e.of.crate : e \in ToSet(s)}
  <2>1. g \in Surjection(ToSet(s), V)
    BY DEF Surjection
  <2> HIDE DEF g, V
  <2>2. IsFiniteSet(V)
    BY <1>1, <2>1, FS_Surjection
  <2>3. C \subseteq V
    BY DEF Crates, V
  <2>4. QED
    BY <2>2, <2>3, FS_Subset
<1>3. DOMAIN Rollups(s) = C
  BY DEF Rollups
<1>4. ASSUME NEW c \in C
      PROVE  f[c] = Cardinality({e \in U : label[e] = c})
  <2> DEFINE K == {k \in DOMAIN s : s[k].of.crate = c}
             A == {e \in ToSet(s) : e.of.crate = c}
             its == Picked(s, K)
  <2>1. f[c] = CrappyCount(its)
    BY DEF Rollups, Where
  <2>2. K \in SUBSET DOMAIN s /\ \A k \in DOMAIN s : k \in K <=> s[k] \in A
    BY DEF ToSet
  <2>3. its \in Seq(T) /\ ToSet(its) = ToSet(s) \cap A /\ Once(its)
    <3> HIDE DEF K, A
    <3> QED
      BY <2>2, PassingTells
  <2> HIDE DEF its, f
  <2>4. CrappyCount(its) = Cardinality({e \in ToSet(its) : Crappy(e.of)})
    BY <2>3, CrappyCounts
  <2>5. {e \in ToSet(its) : Crappy(e.of)} = {e \in U : label[e] = c}
    BY <2>3
  <2>6. QED
    BY <2>1, <2>4, <2>5
<1>5. {e \in U : label[e] \in C} = {e \in ToSet(s) : Crappy(e.of) /\ e.of.crate # None}
  BY DEF Crates
<1>6. DOMAIN f = C
  OBVIOUS
<1> HIDE DEF U, label, C, f
<1> DEFINE V == {e \in U : label[e] \in C}
<1>7. SumFunctionOnSet(f, C) = Cardinality(V)
  <2> DEFINE crappy == [c \in C |-> {e \in U : label[e] = c}]
  <2>1. \A c \in C : /\ f[c] = Cardinality(crappy[c]) /\ crappy[c] \subseteq U
                    /\ \A e \in U : e \in crappy[c] <=> label[e] = c
    BY <1>4
  <2>2. V \in SUBSET U /\ \A e \in U : e \in V <=> label[e] \in C
    OBVIOUS
  <2> HIDE DEF crappy, V
  <2>3. QED
    BY <1>1, <1>2, <2>1, <2>2, LabelsAddUp
<1>8. SumFunction(f) = SumFunctionOnSet(f, C)
  BY <1>6 DEF SumFunction
<1> QED
  BY <1>3, <1>5, <1>7, <1>8 DEF f, C

(* SARIF, annotations, tables, comment, badge and crates count the same    *)
(* functions above the threshold, given such rows.                         *)
LEMMA FormatsTell ==
    ASSUME IInv
    PROVE  FormatsAgree
<1> SUFFICES ASSUME pc = "write", ~q.baseline, rows # <<>>
             PROVE  FormatsAgree
  BY DEF FormatsAgree
<1> DEFINE E == {Entry(f) : f \in in.now}
           C == {e \in ToSet(rows) : Crappy(e.of)}
           K == {k \in DOMAIN rows : Crappy(rows[k].of)}
           them == Picked(rows, K)
           comment == PrComment(rows).sections["table"]
<1>1. rows \in Seq(E) /\ Once(rows) /\ ToSet(rows) \subseteq E /\ DOMAIN rows = 1 .. Len(rows)
  BY OnceCounts DEF IInv, RowsHold
<1>2. \A e \in ToSet(rows) : e.of \in in.now /\ e.of.crap \in Nat
  BY <1>1 DEF Entry, IInv, IsInput
<1>3. q.threshold \in Nat
  BY DEF IInv, IsInput, q
<1>4. /\ CrappyCount(rows) = Cardinality(C) /\ IsFiniteSet(C) /\ Cardinality(C) \in Nat
      /\ them \in Seq(E) /\ ToSet(them) = C /\ Len(them) = Cardinality(C) /\ Once(them)
  <2> HIDE DEF E
  <2> QED
    BY <1>1, CrappyCounts, FS_CardinalityType
<1>5. ToSet(Sarif(rows).sections["table"].rows) = C
  <2>1. Sarif(rows).sections["table"].rows = them
    BY DEF Sarif, Page, Names, All, Where
  <2>2. QED
    BY <1>4, <2>1
<1>6. ToSet(GitHub(rows).sections["table"].rows) = C
  <2>1. K = {k \in DOMAIN rows : ~(rows[k].of.crap <= q.threshold)}
    <3>1. \A k \in DOMAIN rows : rows[k].of.crap \in Nat
      BY <1>2 DEF ToSet
    <3>2. QED
      BY <1>3, <3>1 DEF Crappy
  <2>2. GitHub(rows).sections["table"].rows = them
    BY <2>1 DEF GitHub, Page, Names, All, Where
  <2>3. QED
    BY <1>4, <2>2
<1>7. C \subseteq ToSet(Human(rows).sections["table"].rows)
  <2> DEFINE pinned == {e \in ToSet(rows) : Sliced \/ Crappy(e.of)}
             best == ToSet(First(Ranked(ToSet(rows) \ pinned, LAMBDA a, b : Higher(a.of, b.of)), HotSpots))
             J == {k \in DOMAIN rows : rows[k] \in pinned \cup best}
  <2>1. Human(rows).sections["table"].rows = Picked(rows, J)
    BY DEF Human, Page, Names, CapRows, Where
  <2> HIDE DEF best, E
  <2>2. J \in SUBSET DOMAIN rows /\ \A k \in DOMAIN rows : k \in J <=> rows[k] \in pinned \cup best
    OBVIOUS
  <2>3. C \subseteq pinned
    OBVIOUS
  <2> DEFINE A == pinned \cup best
  <2> HIDE DEF J, pinned, A, C, K, them, comment
  <2>4. ToSet(Picked(rows, J)) = ToSet(rows) \cap A
    <3>1. J \in SUBSET DOMAIN rows /\ \A k \in DOMAIN rows : k \in J <=> rows[k] \in A
      BY <2>2 DEF A
    <3>2. QED
      BY <1>1, <3>1, PassingTells
  <2>5. QED
    BY <2>1, <2>3, <2>4 DEF A, C
<1> DEFINE by == [k \in DOMAIN them |-> them[k].of.crap]
           sorted == Descending(them, by)
<1>8. comment = Capped(sorted)
  BY DEF PrComment, Page, Names, AboveThreshold, ByCrap, Where
<1>9. sorted \in Seq(E) /\ Len(sorted) = Cardinality(C) /\ ToSet(sorted) = C
  <2>1. by \in [DOMAIN them -> Nat]
    BY <1>2, <1>4 DEF ToSet
  <2> HIDE DEF E, by, them, C
  <2>2. QED
    BY <1>4, <2>1, DescendingTells
<1>10. /\ ToSet(comment.rows) \subseteq C
       /\ Len(comment.rows) + comment.more = Cardinality(C)
  <2>1. comment.rows = First(sorted, MaxRows) /\ comment.more = Less(Len(sorted), MaxRows)
    BY <1>8 DEF Capped
  <2>2. MaxRows \in Nat /\ MaxRows # None
    BY CapsAssumption, NoneAssumption
  <2> HIDE DEF sorted, comment, E, C, them, K
  <2>3. /\ ToSet(First(sorted, MaxRows)) \subseteq ToSet(sorted)
        /\ Len(First(sorted, MaxRows)) = IF MaxRows <= Len(sorted) THEN MaxRows ELSE Len(sorted)
    BY <1>9, <2>2, FirstTells
  <2> DEFINE n == Cardinality(C)
  <2>4. n \in Nat /\ Len(sorted) = n
    BY <1>4, <1>9
  <2> HIDE DEF n, by
  <2>5. Len(comment.rows) + comment.more = n
    BY <2>1, <2>2, <2>3, <2>4 DEF Less
  <2>6. QED
    BY <1>9, <2>1, <2>3, <2>5 DEF n
<1>11. Shields(rows).says.n = Cardinality(C)
  BY <1>4 DEF Shields, Page, Says
<1>12. Markdown(rows).says.n = Cardinality(C)
  BY <1>4 DEF Markdown, Page, Says, Verdict
<1>13. SumFunction([c \in DOMAIN Rollups(rows) |-> Rollups(rows)[c].crappy]) = Cardinality({e \in C : e.of.crate # None})
  <2>1. {e \in C : e.of.crate # None} = {e \in ToSet(rows) : Crappy(e.of) /\ e.of.crate # None}
    OBVIOUS
  <2> HIDE DEF E
  <2>2. QED
    BY <1>1, <2>1, CratesAddUp
<1> HIDE DEF C, comment
<1> QED
  BY <1>5, <1>6, <1>7, <1>10, <1>11, <1>12, <1>13 DEF FormatsAgree, comment

(* Whatever the functions, the threshold and the slice, the seven formats  *)
(* of a run without a baseline agree on which functions are above the      *)
(* threshold, and on how many.                                             *)
THEOREM FormatsAlwaysAgree == Spec => []FormatsAgree
  BY FormatsTell, Invariance, PTL

-----------------------------------------------------------------------------
(* All is told *)

(* Two sets with nothing in common have together as many as both.          *)
LEMMA CardOfTwo ==
    ASSUME NEW A, NEW B, IsFiniteSet(A), IsFiniteSet(B), A \cap B = {}
    PROVE  /\ IsFiniteSet(A \cup B) /\ Cardinality(A \cup B) = Cardinality(A) + Cardinality(B)
           /\ Cardinality(A) \in Nat /\ Cardinality(B) \in Nat
<1>1. Cardinality(A \cup B) = Cardinality(A) + Cardinality(B) - Cardinality(A \cap B) /\ IsFiniteSet(A \cup B)
  BY FS_Union
<1>2. Cardinality(A \cap B) = 0
  BY FS_EmptySet
<1>3. Cardinality(A) \in Nat /\ Cardinality(B) \in Nat
  BY FS_CardinalityType
<1> QED
  BY <1>1, <1>2, <1>3

(* A section shows some of its rows, each once, and counts the others. *)
Shelf(c, part) ==
    /\ IsFiniteSet(part) /\ ToSet(c.rows) \subseteq part
    /\ Len(c.rows) = Cardinality(ToSet(c.rows)) /\ c.more = Cardinality(part \ ToSet(c.rows))

(* ... and so have four.                                                   *)
LEMMA CardOfFour ==
    ASSUME NEW A, NEW B, NEW C, NEW E,
           IsFiniteSet(A), IsFiniteSet(B), IsFiniteSet(C), IsFiniteSet(E),
           A \cap B = {}, A \cap C = {}, A \cap E = {}, B \cap C = {}, B \cap E = {}, C \cap E = {}
    PROVE  Cardinality(A \cup B \cup C \cup E)
             = Cardinality(A) + Cardinality(B) + Cardinality(C) + Cardinality(E)
<1>1. IsFiniteSet(A \cup B) /\ Cardinality(A \cup B) = Cardinality(A) + Cardinality(B)
  BY CardOfTwo
<1>2. IsFiniteSet((A \cup B) \cup C) /\ Cardinality((A \cup B) \cup C) = Cardinality(A \cup B) + Cardinality(C)
  <2>1. (A \cup B) \cap C = {}
    OBVIOUS
  <2>2. QED
    BY <1>1, <2>1, CardOfTwo
<1>3. Cardinality((A \cup B \cup C) \cup E) = Cardinality(A \cup B \cup C) + Cardinality(E)
  <2>1. (A \cup B \cup C) \cap E = {}
    OBVIOUS
  <2>2. QED
    BY <1>2, <2>1, CardOfTwo
<1> QED
  BY <1>1, <1>2, <1>3

(* Four sections, each of a part of the rows a reader is owed, tell all of *)
(* them: each in a section or in what a section counts as left out.        *)
LEMMA ShelvesTell ==
    ASSUME NEW p, NEW A, NEW B, NEW C, NEW E, Owed = A \cup B \cup C \cup E,
           A \cap B = {}, A \cap C = {}, A \cap E = {}, B \cap C = {}, B \cap E = {}, C \cap E = {},
           Shelf(p.sections["table"], A), Shelf(p.sections["improved"], B),
           Shelf(p.sections["moved"], C), Shelf(p.sections["hot"], E)
    PROVE  /\ Told(p) = ToSet(p.sections["table"].rows) \cup ToSet(p.sections["improved"].rows)
                        \cup ToSet(p.sections["moved"].rows) \cup ToSet(p.sections["hot"].rows)
           /\ Told(p) \subseteq Owed
           /\ OfLists(LAMBDA n : Len(p.sections[n].rows)) = Cardinality(Told(p))
           /\ OfLists(LAMBDA n : p.sections[n].more) = Cardinality(Owed \ Told(p))
<1> DEFINE a == ToSet(p.sections["table"].rows)
           b == ToSet(p.sections["improved"].rows)
           c == ToSet(p.sections["moved"].rows)
           e == ToSet(p.sections["hot"].rows)
<1>1. Told(p) = a \cup b \cup c \cup e
  <2>1. DOMAIN Lists = {1, 2, 3, 4} /\ Lists[1] = "table" /\ Lists[2] = "improved" /\ Lists[3] = "moved" /\ Lists[4] = "hot"
    BY DEF Lists
  <2>2. Told(p) = UNION {ToSet(p.sections[Lists[k]].rows) : k \in {1, 2, 3, 4}}
    BY <2>1 DEF Told
  <2>3. QED
    BY <2>1, <2>2
<1>2. /\ OfLists(LAMBDA n : Len(p.sections[n].rows))
            = Len(p.sections["table"].rows) + Len(p.sections["improved"].rows)
              + Len(p.sections["moved"].rows) + Len(p.sections["hot"].rows)
      /\ OfLists(LAMBDA n : p.sections[n].more)
            = p.sections["table"].more + p.sections["improved"].more + p.sections["moved"].more + p.sections["hot"].more
  BY DEF OfLists, Lists
<1>3. /\ IsFiniteSet(A) /\ IsFiniteSet(B) /\ IsFiniteSet(C) /\ IsFiniteSet(E)
      /\ a \subseteq A /\ b \subseteq B /\ c \subseteq C /\ e \subseteq E
      /\ Len(p.sections["table"].rows) = Cardinality(a) /\ p.sections["table"].more = Cardinality(A \ a)
      /\ Len(p.sections["improved"].rows) = Cardinality(b) /\ p.sections["improved"].more = Cardinality(B \ b)
      /\ Len(p.sections["moved"].rows) = Cardinality(c) /\ p.sections["moved"].more = Cardinality(C \ c)
      /\ Len(p.sections["hot"].rows) = Cardinality(e) /\ p.sections["hot"].more = Cardinality(E \ e)
  BY DEF Shelf
<1> HIDE DEF a, b, c, e
<1>4. Cardinality(a \cup b \cup c \cup e) = Cardinality(a) + Cardinality(b) + Cardinality(c) + Cardinality(e)
  <2>1. IsFiniteSet(a) /\ IsFiniteSet(b) /\ IsFiniteSet(c) /\ IsFiniteSet(e)
    BY <1>3, FS_Subset
  <2>2. a \cap b = {} /\ a \cap c = {} /\ a \cap e = {} /\ b \cap c = {} /\ b \cap e = {} /\ c \cap e = {}
    BY <1>3
  <2>3. QED
    BY <2>1, <2>2, CardOfFour
<1> DEFINE aa == A \ a
           bb == B \ b
           cc == C \ c
           ee == E \ e
<1>5. Cardinality(aa \cup bb \cup cc \cup ee)
        = Cardinality(aa) + Cardinality(bb) + Cardinality(cc) + Cardinality(ee)
  <2>1. aa \subseteq A /\ bb \subseteq B /\ cc \subseteq C /\ ee \subseteq E
    OBVIOUS
  <2> HIDE DEF aa, bb, cc, ee
  <2>2. IsFiniteSet(aa) /\ IsFiniteSet(bb) /\ IsFiniteSet(cc) /\ IsFiniteSet(ee)
    BY <1>3, <2>1, FS_Subset
  <2>3. aa \cap bb = {} /\ aa \cap cc = {} /\ aa \cap ee = {} /\ bb \cap cc = {} /\ bb \cap ee = {} /\ cc \cap ee = {}
    BY <2>1
  <2>4. QED
    BY <2>2, <2>3, CardOfFour
<1>6. Owed \ Told(p) = aa \cup bb \cup cc \cup ee
  BY <1>1, <1>3
<1>7. Told(p) \subseteq Owed
  BY <1>1, <1>3
<1>8. OfLists(LAMBDA n : p.sections[n].more) = Cardinality(aa) + Cardinality(bb) + Cardinality(cc) + Cardinality(ee)
  BY <1>2, <1>3
<1>9. OfLists(LAMBDA n : Len(p.sections[n].rows)) = Cardinality(a) + Cardinality(b) + Cardinality(c) + Cardinality(e)
  BY <1>2, <1>3
<1> HIDE DEF aa, bb, cc, ee
<1>10. OfLists(LAMBDA n : Len(p.sections[n].rows)) = Cardinality(Told(p))
  BY <1>1, <1>4, <1>9
<1>11. OfLists(LAMBDA n : p.sections[n].more) = Cardinality(Owed \ Told(p))
  BY <1>5, <1>6, <1>8
<1> QED
  BY <1>1, <1>7, <1>10, <1>11 DEF a, b, c, e

(* What a section shows stood before what it hides. *)
HidesLater(shelf, s) ==
    \A x \in ToSet(shelf.rows) : \A h \in ToSet(s) \ ToSet(shelf.rows) :
      \E i, j \in 1 .. Len(s) : i < j /\ s[i] = x /\ s[j] = h

(* A capped section; what it hides was further on. *)
LEMMA CappedTells ==
    ASSUME NEW T, NEW s \in Seq(T), Once(s)
    PROVE  /\ Shelf(Capped(s), ToSet(s))
           /\ Len(Capped(s).rows) + Capped(s).more = Len(s)
           /\ HidesLater(Capped(s), s)
<1> DEFINE r == First(s, MaxRows)
<1>1. MaxRows \in Nat /\ MaxRows # None
  BY CapsAssumption, NoneAssumption
<1>2. /\ r \in Seq(T) /\ Len(r) = (IF MaxRows <= Len(s) THEN MaxRows ELSE Len(s))
      /\ ToSet(r) = {s[k] : k \in 1 .. Len(r)} /\ ToSet(r) \subseteq ToSet(s) /\ Once(r)
  BY <1>1, FirstTells
<1>3. Capped(s).rows = r /\ Capped(s).more = Less(Len(s), MaxRows)
  BY DEF Capped
<1> HIDE DEF r
<1>4. IsFiniteSet(ToSet(r)) /\ Cardinality(ToSet(r)) = Len(r)
  BY <1>2, OnceCounts
<1>5. /\ IsFiniteSet(ToSet(s)) /\ Cardinality(ToSet(s)) = Len(s) /\ Len(s) \in Nat
      /\ ToSet(s) = {s[k] : k \in 1 .. Len(s)}
  BY OnceCounts
<1> DEFINE n == Len(s)
           m == Len(r)
<1>9. n \in Nat /\ m \in 0 .. n /\ m = IF MaxRows <= n THEN MaxRows ELSE n
  <2>1. n \in Nat /\ m = IF MaxRows <= n THEN MaxRows ELSE n
    BY <1>2, <1>5
  <2> HIDE DEF n, m
  <2>2. QED
    BY <1>1, <2>1
<1> HIDE DEF n, m
<1>6. Cardinality(ToSet(s) \ ToSet(r)) = n - m
  <2> DEFINE A == ToSet(r)
             B == ToSet(s) \ ToSet(r)
  <2>1. IsFiniteSet(A) /\ IsFiniteSet(B) /\ A \cap B = {} /\ A \cup B = ToSet(s)
    BY <1>2, <1>4, <1>5, FS_Subset
  <2> HIDE DEF A, B
  <2>2. Cardinality(A \cup B) = Cardinality(A) + Cardinality(B) /\ Cardinality(A) \in Nat /\ Cardinality(B) \in Nat
    BY <2>1, CardOfTwo
  <2>3. Cardinality(A) = m /\ Cardinality(A \cup B) = n
    BY <1>4, <1>5, <2>1 DEF A, m, n
  <2>4. Cardinality(B) = n - m
    BY <1>9, <2>2, <2>3
  <2>5. QED
    BY <2>4 DEF B
<1>7. Less(n, MaxRows) = n - m
  BY <1>1, <1>9 DEF Less
<1>8. ASSUME NEW x \in ToSet(r), NEW h \in ToSet(s) \ ToSet(r)
      PROVE  \E i, j \in 1 .. Len(s) : i < j /\ s[i] = x /\ s[j] = h
  <2>1. PICK i \in 1 .. Len(r) : x = s[i]
    BY <1>2
  <2>2. PICK j \in 1 .. Len(s) : h = s[j]
    BY <1>5
  <2>3. j \notin 1 .. Len(r)
    BY <1>2, <2>2
  <2>4. i < j /\ i \in 1 .. Len(s)
    <3>1. i \in 1 .. m /\ j \in 1 .. n /\ j \notin 1 .. m
      BY <2>3 DEF m, n
    <3>2. i < j /\ i \in 1 .. n
      BY <1>9, <3>1
    <3>3. QED
      BY <3>2 DEF n
  <2>5. QED
    BY <2>1, <2>2, <2>4
<1>10. Capped(s).more = Cardinality(ToSet(s) \ ToSet(r)) /\ Len(r) + Capped(s).more = Len(s)
  <2>1. Capped(s).more = n - m
    BY <1>3, <1>7 DEF n
  <2>2. m + (n - m) = n
    BY <1>9
  <2>3. QED
    BY <1>6, <2>1, <2>2 DEF n, m
<1>11. Shelf(Capped(s), ToSet(s))
  BY <1>2, <1>3, <1>4, <1>5, <1>10 DEF Shelf
<1> QED
  BY <1>3, <1>8, <1>10, <1>11 DEF HidesLater

(* The rows sorted by score are the rows, the highest first.               *)
LEMMA ByCrapTells ==
    ASSUME NEW T, NEW s \in Seq(T), Once(s), \A e \in ToSet(s) : e.of.crap \in Nat
    PROVE  /\ ByCrap(s) \in Seq(T) /\ ToSet(ByCrap(s)) = ToSet(s) /\ Once(ByCrap(s))
           /\ Len(ByCrap(s)) = Len(s)
           /\ \A i, j \in 1 .. Len(ByCrap(s)) : i < j => ByCrap(s)[i].of.crap >= ByCrap(s)[j].of.crap
<1> DEFINE by == [k \in DOMAIN s |-> s[k].of.crap]
           r == Descending(s, by)
<1>1. by \in [DOMAIN s -> Nat] /\ \A k \in DOMAIN s : by[k] = s[k].of.crap
  BY DEF ToSet
<1> HIDE DEF by
<1>2. /\ r \in Seq(T) /\ Len(r) = Len(s) /\ ToSet(r) = ToSet(s) /\ Once(r)
      /\ \E order \in Seq(DOMAIN s) :
           /\ Len(order) = Len(s)
           /\ \A k \in 1 .. Len(s) : order[k] \in DOMAIN s /\ r[k] = s[order[k]]
           /\ \A j, k \in 1 .. Len(s) : j < k => by[order[j]] >= by[order[k]]
  BY <1>1, DescendingTells
<1>3. ByCrap(s) = r
  BY DEF ByCrap, by
<1> HIDE DEF r
<1>4. \A i, j \in 1 .. Len(r) : i < j => r[i].of.crap >= r[j].of.crap
  <2>1. PICK order \in Seq(DOMAIN s) :
          /\ \A k \in 1 .. Len(s) : order[k] \in DOMAIN s /\ r[k] = s[order[k]]
          /\ \A j, k \in 1 .. Len(s) : j < k => by[order[j]] >= by[order[k]]
    BY <1>2
  <2>2. \A k \in 1 .. Len(s) : by[order[k]] = r[k].of.crap
    BY <1>1, <2>1
  <2>3. QED
    BY <1>2, <2>1, <2>2
<1> QED
  BY <1>2, <1>3, <1>4

(* The larger of two numbers is one of them.                               *)
LEMMA LargerIsOne == \A a, b \in Nat : Larger(a, b) = IF a >= b THEN a ELSE b
<1> TAKE a \in Nat, b \in Nat
<1> DEFINE S == {a, b}
           m == IF a >= b THEN a ELSE b
<1>1. m \in S /\ \A y \in S : m >= y
  OBVIOUS
<1>2. \A x \in S : (\A y \in S : x >= y) => x = m
  BY <1>1
<1>3. Larger(a, b) = CHOOSE x \in S : \A y \in S : x >= y
  BY DEF Larger, Max
<1> HIDE DEF S, m
<1>4. Larger(a, b) = m
  BY <1>1, <1>2, <1>3
<1> QED
  BY <1>4 DEF m

(* abs_delta: the rows sorted by how far they moved are the rows, the      *)
(* farthest first.                                                         *)
LEMMA ByChangeTells ==
    ASSUME NEW T, NEW s \in Seq(T), Once(s),
           \A e \in ToSet(s) : e.of.crap \in Nat /\ e.of.old.crap \in Nat
    PROVE  /\ ByChange(s) \in Seq(T) /\ ToSet(ByChange(s)) = ToSet(s) /\ Once(ByChange(s))
           /\ Len(ByChange(s)) = Len(s)
           /\ \A i, j \in 1 .. Len(ByChange(s)) : i < j => Change(ByChange(s)[i]) >= Change(ByChange(s)[j])
<1> DEFINE by == [k \in DOMAIN s |-> LET f == s[k].of IN
                                      Larger(Less(f.crap, f.old.crap), Less(f.old.crap, f.crap))]
           r == Descending(s, by)
<1>1. by \in [DOMAIN s -> Nat] /\ \A k \in DOMAIN s : by[k] = Change(s[k])
  <2>1. \A a, b \in Nat : Less(a, b) \in Nat /\ Larger(a, b) \in Nat
    BY LargerIsOne DEF Less
  <2>2. \A k \in DOMAIN s : s[k].of.crap \in Nat /\ s[k].of.old.crap \in Nat
    BY DEF ToSet
  <2>3. \A k \in DOMAIN s : by[k] = Change(s[k])
    BY DEF Change
  <2>4. \A k \in DOMAIN s : Change(s[k]) \in Nat
    BY <2>1, <2>2 DEF Change
  <2>5. QED
    BY <2>3, <2>4
<1> HIDE DEF by
<1>2. /\ r \in Seq(T) /\ Len(r) = Len(s) /\ ToSet(r) = ToSet(s) /\ Once(r)
      /\ \E order \in Seq(DOMAIN s) :
           /\ Len(order) = Len(s)
           /\ \A k \in 1 .. Len(s) : order[k] \in DOMAIN s /\ r[k] = s[order[k]]
           /\ \A j, k \in 1 .. Len(s) : j < k => by[order[j]] >= by[order[k]]
  BY <1>1, DescendingTells
<1>3. ByChange(s) = r
  BY DEF ByChange, by
<1> HIDE DEF r
<1>4. \A i, j \in 1 .. Len(r) : i < j => Change(r[i]) >= Change(r[j])
  <2>1. PICK order \in Seq(DOMAIN s) :
          /\ \A k \in 1 .. Len(s) : order[k] \in DOMAIN s /\ r[k] = s[order[k]]
          /\ \A j, k \in 1 .. Len(s) : j < k => by[order[j]] >= by[order[k]]
    BY <1>2
  <2>2. \A k \in 1 .. Len(s) : by[order[k]] = Change(r[k])
    BY <1>1, <2>1
  <2>3. QED
    BY <1>2, <2>1, <2>2
<1> QED
  BY <1>2, <1>3, <1>4

(* The first of an order come before the others. *)
LEMMA FirstAreBefore ==
    ASSUME NEW S, IsFiniteSet(S), NEW R, InOrder(R, S), NEW n \in Nat
    PROVE  /\ ToSet(First(Listed(S, R), n)) \subseteq S
           /\ \A x \in ToSet(First(Listed(S, R), n)) : \A h \in S \ ToSet(First(Listed(S, R), n)) : <<x, h>> \in R
<1> DEFINE s == Listed(S, R)
           r == First(s, n)
<1>1. IsListing(s, S, R) /\ ToSet(s) = S
  BY ListedInOrder, SortedTells
<1>2. s \in Seq(S) /\ Len(s) \in Nat
  BY <1>1 DEF IsListing
<1> HIDE DEF s
<1>3. ToSet(r) = {s[k] : k \in 1 .. Len(r)} /\ ToSet(r) \subseteq S /\ Len(r) \in 0 .. Len(s)
  BY <1>1, <1>2, FirstTells
<1> HIDE DEF r
<1>4. ASSUME NEW x \in ToSet(r), NEW h \in S \ ToSet(r) PROVE <<x, h>> \in R
  <2>1. PICK i \in 1 .. Len(r) : x = s[i]
    BY <1>3
  <2>2. PICK j \in 1 .. Len(s) : h = s[j]
    BY <1>1 DEF IsListing
  <2>3. i < j /\ i \in 1 .. Len(s)
    BY <1>2, <1>3, <2>1, <2>2
  <2>4. QED
    BY <1>1, <2>1, <2>2, <2>3 DEF IsListing
<1> QED
  BY <1>3, <1>4 DEF r, s

(* What a capped section shows and what it counts as left out are its      *)
(* rows.                                                                   *)
LEMMA CapAddsUp ==
    ASSUME NEW T, NEW s \in Seq(T)
    PROVE  Len(Capped(s).rows) + Capped(s).more = Len(s)
<1> DEFINE n == Len(s)
           m == Len(First(s, MaxRows))
<1>1. MaxRows \in Nat /\ MaxRows # None
  BY CapsAssumption, NoneAssumption
<1>2. n \in Nat /\ m = IF MaxRows <= n THEN MaxRows ELSE n
  BY <1>1, FirstTells, LenProperties
<1>3. Len(Capped(s).rows) = m /\ Capped(s).more = Less(n, MaxRows)
  BY DEF Capped
<1> HIDE DEF n, m
<1>4. m + Less(n, MaxRows) = n
  BY <1>1, <1>2 DEF Less
<1> QED
  BY <1>3, <1>4 DEF n

(* A section that is not capped shows all and leaves nothing out.          *)
LEMMA WholeShelf ==
    ASSUME NEW T, NEW s \in Seq(T), Once(s)
    PROVE  Shelf(All(s), ToSet(s))
<1>1. IsFiniteSet(ToSet(s)) /\ Cardinality(ToSet(s)) = Len(s) /\ ToSet(s) \ ToSet(s) = {}
  BY OnceCounts
<1>2. Cardinality(ToSet(s) \ ToSet(s)) = 0
  BY <1>1, FS_EmptySet
<1> QED
  BY <1>1, <1>2 DEF Shelf, All

(* A section that is not there tells of nothing.                           *)
LEMMA NoShelf == Shelf(Blank, {})
<1>1. Len(<<>>) = 0 /\ ToSet(<<>>) = {} /\ {} \ {} = {}
  BY DEF ToSet
<1>2. IsFiniteSet({}) /\ Cardinality({}) = 0
  BY FS_EmptySet
<1> QED
  BY <1>1, <1>2 DEF Shelf, Blank

(* One sequence after another has the elements of both, the first's first. *)
LEMMA ConcatTells ==
    ASSUME NEW T, NEW s \in Seq(T), NEW t \in Seq(T), Once(s), Once(t), ToSet(s) \cap ToSet(t) = {}
    PROVE  /\ s \o t \in Seq(T) /\ Once(s \o t) /\ ToSet(s \o t) = ToSet(s) \cup ToSet(t)
           /\ Len(s \o t) = Len(s) + Len(t) /\ Len(s) \in Nat /\ Len(t) \in Nat
           /\ \A k \in 1 .. Len(s) : (s \o t)[k] = s[k] /\ s[k] \in ToSet(s)
           /\ \A k \in Len(s) + 1 .. Len(s) + Len(t) :
                (s \o t)[k] = t[k - Len(s)] /\ k - Len(s) \in 1 .. Len(t) /\ t[k - Len(s)] \in ToSet(t)
<1> DEFINE m == Len(s)
           n == Len(t)
           r == s \o t
<1>1. m \in Nat /\ n \in Nat /\ ToSet(s) = {s[k] : k \in 1 .. m} /\ ToSet(t) = {t[k] : k \in 1 .. n}
  BY OnceCounts
<1>2. r \in Seq(T) /\ Len(r) = m + n
  BY ConcatProperties
<1>3. /\ \A k \in 1 .. m : r[k] = s[k]
      /\ \A k \in m + 1 .. m + n : r[k] = t[k - m]
  BY ConcatProperties
<1>4. ToSet(r) = {r[k] : k \in 1 .. m + n}
  BY <1>2, OnceCounts
<1>5. Once(s) <=> \A i, j \in 1 .. m : s[i] = s[j] => i = j
  BY DEF Once
<1>6. Once(t) <=> \A i, j \in 1 .. n : t[i] = t[j] => i = j
  BY DEF Once
<1>7. Once(r) <=> \A i, j \in 1 .. m + n : r[i] = r[j] => i = j
  BY <1>2 DEF Once
<1> HIDE DEF m, n, r
<1>8. \A k \in 1 .. m : r[k] = s[k] /\ s[k] \in ToSet(s)
  BY <1>1, <1>3
<1>9. \A k \in m + 1 .. m + n : r[k] = t[k - m] /\ k - m \in 1 .. n /\ t[k - m] \in ToSet(t)
  <2>1. \A k \in m + 1 .. m + n : k - m \in 1 .. n
    BY <1>1
  <2>2. QED
    BY <1>1, <1>3, <2>1
<1>10. \A k \in 1 .. m + n : k \in 1 .. m \/ k \in m + 1 .. m + n
  BY <1>1
<1>11. ToSet(r) = ToSet(s) \cup ToSet(t)
  <2>1. ToSet(r) \subseteq ToSet(s) \cup ToSet(t)
    BY <1>4, <1>8, <1>9, <1>10
  <2>2. ToSet(s) \subseteq ToSet(r)
    <3>1. \A k \in 1 .. m : k \in 1 .. m + n
      BY <1>1
    <3>2. QED
      BY <1>1, <1>4, <1>8, <3>1
  <2>3. ToSet(t) \subseteq ToSet(r)
    <3>1. \A k \in 1 .. n : m + k \in m + 1 .. m + n /\ m + k \in 1 .. m + n /\ (m + k) - m = k
      BY <1>1
    <3>2. \A k \in 1 .. n : r[m + k] = t[k]
      BY <1>3, <3>1
    <3>3. QED
      BY <1>1, <1>4, <3>1, <3>2
  <2>4. QED
    BY <2>1, <2>2, <2>3
<1>12. Once(r)
  <2>1. SUFFICES ASSUME NEW i \in 1 .. m + n, NEW j \in 1 .. m + n, r[i] = r[j] PROVE i = j
    BY <1>7
  <2>2. CASE i \in 1 .. m /\ j \in 1 .. m
    BY <1>5, <1>8, <2>1, <2>2 DEF m
  <2>3. CASE i \in m + 1 .. m + n /\ j \in m + 1 .. m + n
    <3>1. i - m = j - m
      BY <1>6, <1>9, <2>1, <2>3
    <3>2. QED
      BY <1>1, <2>1, <3>1
  <2>4. ~(i \in 1 .. m /\ j \in m + 1 .. m + n) /\ ~(j \in 1 .. m /\ i \in m + 1 .. m + n)
    BY <1>8, <1>9, <2>1
  <2>5. QED
    BY <1>10, <2>2, <2>3, <2>4
<1> QED
  BY <1>1, <1>2, <1>8, <1>9, <1>11, <1>12 DEF m, n, r

(* The rows of one status, and those a table shows. *)
LEMMA RowsOfStatus ==
    ASSUME IInv, pc = "write", NEW status
    PROVE  LET E == {Entry(f) : f \in in.now} IN
           /\ With(rows, status) \in Seq(E) /\ Once(With(rows, status))
           /\ ToSet(With(rows, status)) = {e \in ToSet(rows) : e.status = status}
<1> DEFINE E == {Entry(f) : f \in in.now}
           A == {e \in ToSet(rows) : e.status = status}
           K == {k \in DOMAIN rows : rows[k].status = status}
<1>1. rows \in Seq(E) /\ Once(rows)
  BY DEF IInv, RowsHold
<1>2. K \in SUBSET DOMAIN rows /\ \A k \in DOMAIN rows : k \in K <=> rows[k] \in A
  BY DEF ToSet
<1>3. With(rows, status) = Picked(rows, K)
  BY DEF With, Where
<1>4. ToSet(rows) \cap A = A
  OBVIOUS
<1> HIDE DEF E, A, K
<1>5. Picked(rows, K) \in Seq(E) /\ ToSet(Picked(rows, K)) = ToSet(rows) \cap A /\ Once(Picked(rows, K))
  BY <1>1, <1>2, PassingTells
<1> QED
  BY <1>3, <1>4, <1>5 DEF A, E

(* visible_delta_entries: the rows that changed, or all of them under      *)
(* --all.                                                                  *)
LEMMA RowsVisible ==
    ASSUME IInv, pc = "write"
    PROVE  LET E == {Entry(f) : f \in in.now} IN
           /\ Visible(rows) \in Seq(E) /\ Once(Visible(rows))
           /\ ToSet(Visible(rows)) = {e \in ToSet(rows) : e.status # "unchanged" \/ q.all}
<1> DEFINE E == {Entry(f) : f \in in.now}
           A == {e \in ToSet(rows) : e.status # "unchanged" \/ q.all}
           K == {k \in DOMAIN rows : q.all \/ rows[k].status # "unchanged"}
<1>1. rows \in Seq(E) /\ Once(rows)
  BY DEF IInv, RowsHold
<1>2. K \in SUBSET DOMAIN rows /\ \A k \in DOMAIN rows : k \in K <=> rows[k] \in A
  BY DEF ToSet
<1>3. Visible(rows) = Picked(rows, K)
  BY DEF Visible, Where
<1>4. ToSet(rows) \cap A = A
  OBVIOUS
<1> HIDE DEF E, A, K
<1>5. Picked(rows, K) \in Seq(E) /\ ToSet(Picked(rows, K)) = ToSet(rows) \cap A /\ Once(Picked(rows, K))
  BY <1>1, <1>2, PassingTells
<1> QED
  BY <1>3, <1>4, <1>5 DEF A, E

(* What there is to say of each row. *)
LEMMA RowFacts ==
    ASSUME IInv, pc = "write", q.baseline
    PROVE  \A e \in ToSet(rows) :
             /\ e.of \in in.now /\ e = Entry(e.of) /\ e.of.crap \in Nat /\ e.status \in Statuses
             /\ e.status \in {"regressed", "improved"} => e.of.old.crap \in Nat /\ Change(e) \in Nat
<1>1. rows \in Seq({Entry(f) : f \in in.now}) /\ IsInput(in)
  BY DEF IInv, RowsHold
<1>2. ToSet(rows) \subseteq {Entry(f) : f \in in.now}
  BY <1>1, OnceCounts
<1>3. SUFFICES ASSUME NEW f \in in.now, Entry(f) \in ToSet(rows)
               PROVE  LET e == Entry(f) IN
                      /\ e.of \in in.now /\ e = Entry(e.of) /\ e.of.crap \in Nat /\ e.status \in Statuses
                      /\ e.status \in {"regressed", "improved"} => e.of.old.crap \in Nat /\ Change(e) \in Nat
  BY <1>2
<1>4. Entry(f).of = f /\ Entry(f).status = Status(f)
  BY DEF Entry
<1>5. Status(f) \in Statuses /\ (Status(f) \in {"regressed", "improved"} => f.old # None)
  BY DEF Status, Statuses
<1>6. f.crap \in Nat /\ (f.old # None => f.old.crap \in Nat)
  BY <1>1 DEF IsInput
<1>7. f.old # None => Change(Entry(f)) \in Nat
  <2>1. \A a, b \in Nat : Less(a, b) \in Nat /\ Larger(a, b) \in Nat
    BY LargerIsOne DEF Less
  <2>2. QED
    BY <1>4, <1>6, <2>1 DEF Change
<1> QED
  BY <1>4, <1>5, <1>6, <1>7

(* The tables of render_delta_markdown leave out none of the rows that     *)
(* changed.                                                                *)
LEMMA MarkdownTells ==
    ASSUME IInv, pc = "write", q.baseline, q.format = "markdown"
    PROVE  TellsAll(DeltaMarkdown(rows))
<1> DEFINE E == {Entry(f) : f \in in.now}
           p == DeltaMarkdown(rows)
           s == Visible(rows)
<1>1. s \in Seq(E) /\ Once(s) /\ ToSet(s) = {e \in ToSet(rows) : e.status # "unchanged" \/ q.all}
  BY RowsVisible
<1>2. ToSet(s) = Owed
  BY <1>1 DEF Owed
<1>3. /\ p.sections["table"] = All(s) /\ p.sections["improved"] = Blank /\ p.sections["moved"] = Blank
      /\ p.sections["hot"] = Blank /\ p.sections["removed"] = All(removed)
  BY DEF DeltaMarkdown, Page, Names
<1> HIDE DEF p, s
<1>4. Shelf(All(s), ToSet(s)) /\ Shelf(Blank, {})
  BY <1>1, WholeShelf, NoShelf
<1> DEFINE A == ToSet(s)
           B == {}
<1>5. /\ Told(p) = ToSet(p.sections["table"].rows) \cup ToSet(p.sections["improved"].rows)
                   \cup ToSet(p.sections["moved"].rows) \cup ToSet(p.sections["hot"].rows)
      /\ Told(p) \subseteq Owed
      /\ OfLists(LAMBDA n : Len(p.sections[n].rows)) = Cardinality(Told(p))
      /\ OfLists(LAMBDA n : p.sections[n].more) = Cardinality(Owed \ Told(p))
  <2>1. Owed = A \cup B \cup B \cup B /\ A \cap B = {} /\ B \cap B = {}
    BY <1>2
  <2>2. /\ Shelf(p.sections["table"], A) /\ Shelf(p.sections["improved"], B)
        /\ Shelf(p.sections["moved"], B) /\ Shelf(p.sections["hot"], B)
    BY <1>3, <1>4
  <2> HIDE DEF A, B
  <2>3. QED
    BY <2>1, <2>2, ShelvesTell
<1>6. Owed \ Told(p) = {}
  <2>1. p.sections["table"].rows = s
    BY <1>3 DEF All
  <2>2. ToSet(s) \subseteq Told(p)
    BY <1>5, <2>1
  <2>3. QED
    BY <1>2, <2>2
<1>7. Len(p.sections["removed"].rows) + p.sections["removed"].more = Len(in.gone)
  <2>1. Len(removed) = Len(in.gone) /\ removed \in Seq(ToSet(in.gone))
    BY DEF IInv, RemovedHolds
  <2>2. Len(removed) \in Nat
    BY <2>1, LenProperties
  <2>3. QED
    BY <1>3, <2>1, <2>2 DEF All
<1>8. TellsAll(p)
  BY <1>5, <1>6, <1>7 DEF TellsAll
<1> QED
  BY <1>8 DEF p

(* The table of render_delta_human leaves out only rows that need not be   *)
(* there, counts those it leaves out, and leaves out none in favour of a   *)
(* lower one.                                                              *)
LEMMA HumanTells ==
    ASSUME IInv, pc = "write", q.baseline, q.format = "human"
    PROVE  TellsAll(DeltaHuman(rows))
<1> DEFINE E == {Entry(f) : f \in in.now}
           p == DeltaHuman(rows)
           s == Visible(rows)
           pinned == {e \in ToSet(rows) : q.all \/ Sliced \/ e.status = "regressed" \/ Crappy(e.of)}
           others == ToSet(s) \ pinned
           R == {t \in others \X others : Higher(t[1].of, t[2].of)}
           best == ToSet(First(Listed(others, R), HotSpots))
           A == pinned \cup best
           K == {k \in DOMAIN s : s[k] \in A}
           kept == Picked(s, K)
<1>1. s \in Seq(E) /\ Once(s) /\ ToSet(s) = {e \in ToSet(rows) : e.status # "unchanged" \/ q.all}
  BY RowsVisible
<1>2. ToSet(s) = Owed
  BY <1>1 DEF Owed
<1>3. /\ p.sections["table"].rows = kept /\ p.sections["table"].more = Len(s) - Len(kept)
      /\ p.sections["improved"] = Blank /\ p.sections["moved"] = Blank
      /\ p.sections["hot"] = Blank /\ p.sections["removed"] = All(removed)
  BY DEF DeltaHuman, Page, Names, CapRows, Where, Ranked, Precedence
<1>4. \A e \in ToSet(s) : e.of \in in.now /\ e = Entry(e.of) /\ e.of.crap \in Nat /\ e.of.key \in Nat
  BY <1>1, RowFacts DEF IInv, IsInput
<1>5. IsFiniteSet(others) /\ InOrder(R, others)
  <2>1. IsFiniteSet(ToSet(s))
    <3> HIDE DEF s, E
    <3> QED
      BY <1>1, OnceCounts
  <2>2. IsFiniteSet(others)
    BY <2>1, FS_Subset
  <2>3. \A x, y \in others : x.of.key = y.of.key => x = y
    BY <1>4 DEF IInv, IsInput
  <2>4. \A x \in others : x.of.crap \in Nat /\ x.of.key \in Nat
    BY <1>4
  <2> HIDE DEF others
  <2>5. InOrder(R, others)
    BY <2>3, <2>4 DEF InOrder, Higher
  <2>6. QED
    BY <2>2, <2>5
<1>6. \A x, h \in others : <<x, h>> \in R => ~(h.of.crap > x.of.crap)
  BY <1>4 DEF Higher
<1> HIDE DEF p, s, R
<1>7. best \subseteq others /\ \A x \in best : \A h \in others \ best : <<x, h>> \in R
  <2>1. HotSpots \in Nat
    BY CapsAssumption
  <2> HIDE DEF others
  <2>2. QED
    BY <1>5, <2>1, FirstAreBefore
<1> HIDE DEF best
<1>8. kept \in Seq(E) /\ ToSet(kept) = ToSet(s) \cap A /\ Once(kept)
  <2>1. K \in SUBSET DOMAIN s /\ \A k \in DOMAIN s : k \in K <=> s[k] \in A
    OBVIOUS
  <2> HIDE DEF K, A, E
  <2>2. QED
    BY <1>1, <2>1, PassingTells
<1> HIDE DEF kept, E, K
<1>9. Shelf(p.sections["table"], ToSet(s))
  <2>1. IsFiniteSet(ToSet(s)) /\ Cardinality(ToSet(s)) = Len(s)
    BY <1>1, OnceCounts
  <2>2. IsFiniteSet(ToSet(kept)) /\ Cardinality(ToSet(kept)) = Len(kept)
    BY <1>8, OnceCounts
  <2> DEFINE T == ToSet(kept)
             U == ToSet(s) \ ToSet(kept)
  <2>3. IsFiniteSet(T) /\ IsFiniteSet(U) /\ T \cap U = {} /\ T \cup U = ToSet(s)
    BY <1>8, <2>1, <2>2, FS_Subset
  <2> HIDE DEF T, U
  <2>4. Cardinality(T \cup U) = Cardinality(T) + Cardinality(U) /\ Cardinality(T) \in Nat /\ Cardinality(U) \in Nat
    BY <2>3, CardOfTwo
  <2>5. Len(s) = Len(kept) + Cardinality(U) /\ Len(kept) \in Nat
    BY <2>1, <2>2, <2>3, <2>4 DEF T
  <2>6. Len(s) - Len(kept) = Cardinality(U)
    BY <2>4, <2>5
  <2>7. QED
    BY <1>3, <1>8, <2>1, <2>2, <2>6 DEF Shelf, U
<1> DEFINE S == ToSet(s)
           B == {}
<1>10. /\ Told(p) = ToSet(p.sections["table"].rows) \cup ToSet(p.sections["improved"].rows)
                   \cup ToSet(p.sections["moved"].rows) \cup ToSet(p.sections["hot"].rows)
      /\ Told(p) \subseteq Owed
      /\ OfLists(LAMBDA n : Len(p.sections[n].rows)) = Cardinality(Told(p))
      /\ OfLists(LAMBDA n : p.sections[n].more) = Cardinality(Owed \ Told(p))
  <2>1. Owed = S \cup B \cup B \cup B /\ S \cap B = {} /\ B \cap B = {}
    BY <1>2
  <2>2. /\ Shelf(p.sections["table"], S) /\ Shelf(p.sections["improved"], B)
        /\ Shelf(p.sections["moved"], B) /\ Shelf(p.sections["hot"], B)
    BY <1>3, <1>9, NoShelf
  <2> HIDE DEF S, B
  <2>3. QED
    BY <2>1, <2>2, ShelvesTell
<1>11. Told(p) = ToSet(s) \cap A
  <2>1. ToSet(Blank.rows) = {}
    BY DEF Blank, ToSet
  <2>2. QED
    BY <1>3, <1>8, <1>10, <2>1
<1>12. ASSUME NEW h \in Owed \ Told(p)
       PROVE  /\ ~Kept(h)
              /\ \A x \in Told(p) : x.status = h.status /\ Outranks(h, x) => Kept(x)
  <2>1. h \in others \ best /\ h \in ToSet(rows)
    BY <1>1, <1>2, <1>11, <1>12
  <2>2. \A e \in ToSet(rows) : Kept(e) <=> e \in pinned
    BY DEF Kept
  <2>3. ~Kept(h)
    BY <2>1, <2>2
  <2>4. ASSUME NEW x \in Told(p), Outranks(h, x), ~Kept(x)
        PROVE  FALSE
    <3>1. x \in best /\ x \in others
      BY <1>1, <1>7, <1>11, <2>2, <2>4
    <3>2. <<x, h>> \in R
      BY <1>7, <2>1, <3>1
    <3>3. h.of.crap > x.of.crap
      BY <2>4 DEF Outranks
    <3>4. QED
      BY <1>6, <2>1, <3>1, <3>2, <3>3
  <2>5. QED
    BY <2>3, <2>4
<1>13. Len(p.sections["removed"].rows) + p.sections["removed"].more = Len(in.gone)
  <2>1. Len(removed) = Len(in.gone) /\ removed \in Seq(ToSet(in.gone))
    BY DEF IInv, RemovedHolds
  <2>2. Len(removed) \in Nat
    BY <2>1, LenProperties
  <2>3. QED
    BY <1>3, <2>1, <2>2 DEF All
<1>14. TellsAll(p)
  BY <1>10, <1>12, <1>13 DEF TellsAll
<1> QED
  BY <1>14 DEF p

(* A section hides nothing that outranks what it shows of the same status. *)
Fair(c, part) ==
    \A x \in ToSet(c.rows) : \A h \in part \ ToSet(c.rows) : x.status = h.status => ~Outranks(h, x)

(* The sections of one status, sorted one way or the other and capped. *)
LEMMA ChangesFair ==
    ASSUME IInv, pc = "write", q.baseline, q.format = "pr-comment", NEW status \in {"regressed", "improved"}
    PROVE  LET s == ByChange(With(rows, status))
               E == {Entry(f) : f \in in.now}
           IN  /\ s \in Seq(E) /\ Once(s) /\ ToSet(s) = {e \in ToSet(rows) : e.status = status}
               /\ \A i, j \in 1 .. Len(s) : i < j => ~Outranks(s[j], s[i])
               /\ Shelf(Capped(s), ToSet(s)) /\ Fair(Capped(s), ToSet(s))
<1> DEFINE E == {Entry(f) : f \in in.now}
           w == With(rows, status)
           s == ByChange(w)
<1>1. w \in Seq(E) /\ Once(w) /\ ToSet(w) = {e \in ToSet(rows) : e.status = status}
  BY RowsOfStatus
<1>2. \A e \in ToSet(w) : e.of.crap \in Nat /\ e.of.old.crap \in Nat /\ Change(e) \in Nat /\ e.status = status
  BY <1>1, RowFacts
<1> HIDE DEF w, E
<1>3. /\ s \in Seq(E) /\ ToSet(s) = ToSet(w) /\ Once(s)
      /\ \A i, j \in 1 .. Len(s) : i < j => Change(s[i]) >= Change(s[j])
  BY <1>1, <1>2, ByChangeTells
<1> HIDE DEF s
<1>4. \A k \in 1 .. Len(s) : s[k] \in ToSet(w)
  BY <1>3, OnceCounts
<1>5. \A i, j \in 1 .. Len(s) : i < j => ~Outranks(s[j], s[i])
  <2>1. ASSUME NEW i \in 1 .. Len(s), NEW j \in 1 .. Len(s), i < j PROVE ~Outranks(s[j], s[i])
    <3>1. Change(s[i]) \in Nat /\ Change(s[j]) \in Nat /\ Change(s[i]) >= Change(s[j]) /\ s[j].status = status
      BY <1>2, <1>3, <1>4, <2>1
    <3>2. Outranks(s[j], s[i]) <=> Change(s[j]) > Change(s[i])
      BY <3>1 DEF Outranks
    <3>3. QED
      BY <3>1, <3>2
  <2>2. QED
    BY <2>1
<1>6. /\ Shelf(Capped(s), ToSet(s))
      /\ \A x \in ToSet(Capped(s).rows) : \A h \in ToSet(s) \ ToSet(Capped(s).rows) :
           \E i, j \in 1 .. Len(s) : i < j /\ s[i] = x /\ s[j] = h
  BY <1>3, CappedTells DEF HidesLater
<1>7. Fair(Capped(s), ToSet(s))
  BY <1>5, <1>6 DEF Fair
<1> QED
  BY <1>1, <1>3, <1>5, <1>6, <1>7 DEF s, w, E

(* The sections sorted by score and capped: new, moved and hot.            *)
LEMMA ScoresFair ==
    ASSUME IInv, pc = "write", q.baseline, q.format = "pr-comment",
           NEW w \in Seq({Entry(f) : f \in in.now}), Once(w), ToSet(w) \subseteq ToSet(rows),
           \A e \in ToSet(w) : e.status \notin {"regressed", "improved"}
    PROVE  LET s == ByCrap(w)
               E == {Entry(f) : f \in in.now}
           IN  /\ s \in Seq(E) /\ Once(s) /\ ToSet(s) = ToSet(w)
               /\ \A i, j \in 1 .. Len(s) : i < j => ~Outranks(s[j], s[i])
               /\ Shelf(Capped(s), ToSet(s)) /\ Fair(Capped(s), ToSet(s))
<1> DEFINE E == {Entry(f) : f \in in.now}
           s == ByCrap(w)
<1>2. \A e \in ToSet(w) : e.of.crap \in Nat
  BY RowFacts
<1> HIDE DEF E
<1>3. /\ s \in Seq(E) /\ ToSet(s) = ToSet(w) /\ Once(s)
      /\ \A i, j \in 1 .. Len(s) : i < j => s[i].of.crap >= s[j].of.crap
  <2>1. w \in Seq(E)
    BY DEF E
  <2>2. QED
    BY <1>2, <2>1, ByCrapTells
<1> HIDE DEF s
<1>4. \A k \in 1 .. Len(s) : s[k] \in ToSet(w)
  BY <1>3, OnceCounts
<1>5. \A i, j \in 1 .. Len(s) : i < j => ~Outranks(s[j], s[i])
  <2>1. ASSUME NEW i \in 1 .. Len(s), NEW j \in 1 .. Len(s), i < j PROVE ~Outranks(s[j], s[i])
    <3>1. s[i].of.crap \in Nat /\ s[j].of.crap \in Nat /\ s[i].of.crap >= s[j].of.crap
          /\ s[j].status \notin {"regressed", "improved"}
      BY <1>2, <1>3, <1>4, <2>1
    <3>2. Outranks(s[j], s[i]) <=> s[j].of.crap > s[i].of.crap
      BY <3>1 DEF Outranks
    <3>3. QED
      BY <3>1, <3>2
  <2>2. QED
    BY <2>1
<1>6. /\ Shelf(Capped(s), ToSet(s))
      /\ \A x \in ToSet(Capped(s).rows) : \A h \in ToSet(s) \ ToSet(Capped(s).rows) :
           \E i, j \in 1 .. Len(s) : i < j /\ s[i] = x /\ s[j] = h
  BY <1>3, CappedTells DEF HidesLater
<1>7. Fair(Capped(s), ToSet(s))
  BY <1>5, <1>6 DEF Fair
<1> QED
  BY <1>3, <1>5, <1>6, <1>7 DEF s, E

(* Capping a sorted section cuts the lowest of each status.                *)
LEMMA CappedFair ==
    ASSUME NEW T, NEW s \in Seq(T), Once(s)
    PROVE  /\ Shelf(Capped(s), ToSet(s))
           /\ (\A i, j \in 1 .. Len(s) :
                  i < j /\ s[i].status = s[j].status => ~Outranks(s[j], s[i]))
              => Fair(Capped(s), ToSet(s))
<1>1. Shelf(Capped(s), ToSet(s)) /\ HidesLater(Capped(s), s)
  BY CappedTells
<1> QED
  BY <1>1 DEF Fair, HidesLater

(* The five sections of render_delta_pr_comment: each row that changed or  *)
(* is above the threshold is in one of four or counted by one, the lowest  *)
(* are cut, and what is gone is all counted.                               *)
LEMMA CommentTells ==
    ASSUME IInv, pc = "write", q.baseline, q.format = "pr-comment"
    PROVE  TellsAll(DeltaPrComment(rows))
<1> DEFINE E == {Entry(f) : f \in in.now}
           p == DeltaPrComment(rows)
           Of(status) == {e \in ToSet(rows) : e.status = status}
           worse == ByChange(With(rows, "regressed"))
           new == ByCrap(With(rows, "new"))
           primary == worse \o new
           improved == ByChange(With(rows, "improved"))
           moved == ByCrap(With(rows, "moved"))
           still == With(rows, "unchanged")
           crappy == Where(still, LAMBDA e : Crappy(e.of))
           hot == ByCrap(crappy)
           gone == Descending(removed, [k \in DOMAIN removed |-> removed[k].crap])
<1>1. /\ p.sections["table"] = Capped(primary) /\ p.sections["improved"] = Capped(improved)
      /\ p.sections["moved"] = Capped(moved) /\ p.sections["hot"] = Capped(hot)
      /\ p.sections["removed"] = Capped(gone)
  <2>1. /\ Buckets(rows).primary = primary /\ Buckets(rows).improved = improved
        /\ Buckets(rows).moved = moved /\ Buckets(rows).hot = hot /\ Buckets(rows).removed = gone
    BY DEF Buckets
  <2> DEFINE B == Buckets(rows)
  <2>2. p.sections = [n \in Names |->
            IF n \in DOMAIN [table |-> Capped(B.primary), improved |-> Capped(B.improved),
                              moved |-> Capped(B.moved), hot |-> Capped(B.hot),
                              removed |-> Capped(B.removed), reasons |-> ReasonSection(rows)]
            THEN [table |-> Capped(B.primary), improved |-> Capped(B.improved),
                  moved |-> Capped(B.moved), hot |-> Capped(B.hot),
                  removed |-> Capped(B.removed), reasons |-> ReasonSection(rows)][n]
            ELSE Blank]
    BY DEF DeltaPrComment, CommentSections, Page
  <2> HIDE DEF B, p, primary, improved, moved, hot, gone
  <2>3. /\ p.sections["table"] = Capped(B.primary) /\ p.sections["improved"] = Capped(B.improved)
        /\ p.sections["moved"] = Capped(B.moved) /\ p.sections["hot"] = Capped(B.hot)
        /\ p.sections["removed"] = Capped(B.removed)
    BY <2>2 DEF Names
  <2>4. QED
    BY <2>1, <2>3 DEF B
<1>2. \A e \in ToSet(rows) : e.status \in Statuses
  BY RowFacts
<1>3. /\ worse \in Seq(E) /\ Once(worse) /\ ToSet(worse) = Of("regressed")
      /\ \A i, j \in 1 .. Len(worse) : i < j => ~Outranks(worse[j], worse[i])
  BY ChangesFair
<1>4. /\ improved \in Seq(E) /\ ToSet(improved) = Of("improved")
      /\ Shelf(Capped(improved), ToSet(improved)) /\ Fair(Capped(improved), ToSet(improved))
  BY ChangesFair
<1>5. /\ new \in Seq(E) /\ Once(new) /\ ToSet(new) = Of("new")
      /\ \A i, j \in 1 .. Len(new) : i < j => ~Outranks(new[j], new[i])
  <2> DEFINE w == With(rows, "new")
  <2>1. w \in Seq(E) /\ Once(w) /\ ToSet(w) = Of("new")
    BY RowsOfStatus
  <2> HIDE DEF w
  <2>2. QED
    BY <2>1, ScoresFair DEF w
<1>6. /\ ToSet(moved) = Of("moved")
      /\ Shelf(Capped(moved), ToSet(moved)) /\ Fair(Capped(moved), ToSet(moved))
  <2> DEFINE w == With(rows, "moved")
  <2>1. w \in Seq(E) /\ Once(w) /\ ToSet(w) = Of("moved")
    BY RowsOfStatus
  <2> HIDE DEF w
  <2>2. QED
    BY <2>1, ScoresFair DEF w
<1>7. /\ ToSet(hot) = {e \in ToSet(rows) : e.status = "unchanged" /\ Crappy(e.of)}
      /\ Shelf(Capped(hot), ToSet(hot)) /\ Fair(Capped(hot), ToSet(hot))
  <2> DEFINE A == {e \in ToSet(rows) : e.status = "unchanged" /\ Crappy(e.of)}
             them == Picked(still, {k \in DOMAIN still : Crappy(still[k].of)})
  <2>1. still \in Seq(E) /\ Once(still) /\ ToSet(still) = Of("unchanged")
    BY RowsOfStatus
  <2>2. crappy = them
    BY DEF Where
  <2>3. {e \in ToSet(still) : Crappy(e.of)} = A
    BY <2>1
  <2> HIDE DEF still, E, A
  <2>4. them \in Seq(E) /\ Once(them) /\ ToSet(them) = {e \in ToSet(still) : Crappy(e.of)}
    BY <2>1, CrappyCounts
  <2> HIDE DEF them
  <2>6. crappy \in Seq(E) /\ Once(crappy) /\ ToSet(crappy) = A
    BY <2>2, <2>3, <2>4
  <2> HIDE DEF crappy
  <2>7. /\ ToSet(crappy) \subseteq ToSet(rows)
        /\ \A e \in ToSet(crappy) : e.status \notin {"regressed", "improved"}
    BY <2>6 DEF A
  <2>8. QED
    BY <2>6, <2>7, ScoresFair DEF A, E
<1> HIDE DEF worse, new, improved, moved, hot, E
<1>8. /\ primary \in Seq(E) /\ Once(primary) /\ ToSet(primary) = Of("regressed") \cup Of("new")
      /\ Len(primary) = Len(worse) + Len(new) /\ Len(worse) \in Nat /\ Len(new) \in Nat
      /\ \A k \in 1 .. Len(worse) : primary[k] = worse[k] /\ worse[k] \in ToSet(worse)
      /\ \A k \in Len(worse) + 1 .. Len(worse) + Len(new) :
            /\ primary[k] = new[k - Len(worse)] /\ k - Len(worse) \in 1 .. Len(new)
            /\ new[k - Len(worse)] \in ToSet(new)
  <2>1. ToSet(worse) \cap ToSet(new) = {}
    BY <1>3, <1>5
  <2>2. QED
    BY <1>3, <1>5, <2>1, ConcatTells
<1>9. ASSUME NEW i \in 1 .. Len(primary), NEW j \in 1 .. Len(primary), i < j,
             primary[i].status = primary[j].status
      PROVE  ~Outranks(primary[j], primary[i])
  <2> DEFINE m == Len(worse)
             n == Len(new)
  <2>1. \A k \in 1 .. m + n : k \in 1 .. m \/ k \in m + 1 .. m + n
    BY <1>8
  <2>2. i \in 1 .. m + n /\ j \in 1 .. m + n
    BY <1>8, <1>9
  <2>3. \A k \in 1 .. m : primary[k] = worse[k] /\ primary[k].status = "regressed"
    BY <1>3, <1>8
  <2>4. \A k \in m + 1 .. m + n : primary[k] = new[k - m] /\ k - m \in 1 .. n /\ primary[k].status = "new"
    BY <1>5, <1>8
  <2>5. CASE i \in 1 .. m /\ j \in 1 .. m
    BY <1>3, <1>9, <2>3, <2>5
  <2>6. CASE i \in m + 1 .. m + n /\ j \in m + 1 .. m + n
    <3>1. i - m < j - m
      BY <1>8, <1>9, <2>6
    <3>2. QED
      BY <1>5, <2>4, <2>6, <3>1
  <2>7. QED
    BY <1>9, <2>1, <2>2, <2>3, <2>4, <2>5, <2>6
<1> HIDE DEF primary
<1>10. Shelf(Capped(primary), ToSet(primary)) /\ Fair(Capped(primary), ToSet(primary))
  <2> HIDE DEF gone, crappy, still, p
  <2>1. primary \in Seq(E) /\ Once(primary)
    BY <1>8
  <2>2. \A i, j \in 1 .. Len(primary) :
          i < j /\ primary[i].status = primary[j].status => ~Outranks(primary[j], primary[i])
    BY <1>9
  <2> HIDE DEF Of
  <2>3. QED
    BY <2>1, <2>2, CappedFair
<1> DEFINE A == ToSet(primary)
           B == ToSet(improved)
           C == ToSet(moved)
           H == ToSet(hot)
<1>11. /\ Owed = A \cup B \cup C \cup H
       /\ A \cap B = {} /\ A \cap C = {} /\ A \cap H = {} /\ B \cap C = {} /\ B \cap H = {} /\ C \cap H = {}
       /\ \A x \in A : x.status \in {"regressed", "new"}
       /\ \A x \in B : x.status = "improved"
       /\ \A x \in C : x.status = "moved"
       /\ \A x \in H : x.status = "unchanged"
  <2>1. Owed = {e \in ToSet(rows) : e.status # "unchanged" \/ Crappy(e.of)}
    BY DEF Owed
  <2>2. QED
    BY <1>2, <1>4, <1>6, <1>7, <1>8, <2>1 DEF Statuses
<1>12. /\ Shelf(p.sections["table"], A) /\ Shelf(p.sections["improved"], B)
       /\ Shelf(p.sections["moved"], C) /\ Shelf(p.sections["hot"], H)
       /\ Fair(p.sections["table"], A) /\ Fair(p.sections["improved"], B)
       /\ Fair(p.sections["moved"], C) /\ Fair(p.sections["hot"], H)
  BY <1>1, <1>4, <1>6, <1>7, <1>10
<1> HIDE DEF A, B, C, H, p
<1>13. /\ Told(p) = ToSet(p.sections["table"].rows) \cup ToSet(p.sections["improved"].rows)
                   \cup ToSet(p.sections["moved"].rows) \cup ToSet(p.sections["hot"].rows)
      /\ Told(p) \subseteq Owed
      /\ OfLists(LAMBDA n : Len(p.sections[n].rows)) = Cardinality(Told(p))
      /\ OfLists(LAMBDA n : p.sections[n].more) = Cardinality(Owed \ Told(p))
  BY <1>11, <1>12, ShelvesTell
<1>14. ASSUME NEW h \in Owed \ Told(p)
       PROVE  /\ ~Kept(h)
              /\ \A x \in Told(p) : x.status = h.status /\ Outranks(h, x) => Kept(x)
  <2>1. ~Kept(h)
    BY DEF Kept
  <2>2. ASSUME NEW x \in Told(p), x.status = h.status, Outranks(h, x) PROVE FALSE
    <3> DEFINE a == ToSet(p.sections["table"].rows)
               b == ToSet(p.sections["improved"].rows)
               c == ToSet(p.sections["moved"].rows)
               e == ToSet(p.sections["hot"].rows)
    <3>1. a \subseteq A /\ b \subseteq B /\ c \subseteq C /\ e \subseteq H
      BY <1>12 DEF Shelf
    <3>2. x \in a \cup b \cup c \cup e /\ h \notin a \cup b \cup c \cup e /\ h \in A \cup B \cup C \cup H
      BY <1>11, <1>13, <1>14, <2>2
    <3>3. /\ \A y \in a : \A g \in A \ a : y.status = g.status => ~Outranks(g, y)
          /\ \A y \in b : \A g \in B \ b : y.status = g.status => ~Outranks(g, y)
          /\ \A y \in c : \A g \in C \ c : y.status = g.status => ~Outranks(g, y)
          /\ \A y \in e : \A g \in H \ e : y.status = g.status => ~Outranks(g, y)
      BY <1>12 DEF Fair
    <3> HIDE DEF a, b, c, e
    <3>4. QED
      BY <1>11, <2>2, <3>1, <3>2, <3>3
  <2>3. QED
    BY <2>1, <2>2
<1>15. Len(p.sections["removed"].rows) + p.sections["removed"].more = Len(in.gone)
  <2> DEFINE G == ToSet(in.gone)
             by == [k \in DOMAIN removed |-> removed[k].crap]
  <2>1. removed \in Seq(G) /\ Len(removed) = Len(in.gone)
    BY DEF IInv, RemovedHolds
  <2>2. \A g \in G : g.crap \in Nat
    BY DEF ToSet, IInv, IsInput
  <2>3. by \in [DOMAIN removed -> Nat]
    <3> HIDE DEF G
    <3>1. \A k \in DOMAIN removed : removed[k] \in G
      BY <2>1, LenProperties, ElementOfSeq
    <3>2. QED
      BY <2>2, <3>1
  <2> HIDE DEF G, by
  <2>4. Descending(removed, by) \in Seq(G) /\ Len(Descending(removed, by)) = Len(removed)
    BY <2>1, <2>3, DescendingTells
  <2>5. gone = Descending(removed, by)
    BY DEF by
  <2> HIDE DEF gone
  <2>6. QED
    BY <1>1, <2>1, <2>4, <2>5, CapAddsUp
<1>16. TellsAll(p)
  BY <1>13, <1>14, <1>15 DEF TellsAll
<1> QED
  BY <1>16 DEF p

(* So each of the three formats with tables tells all.                     *)
LEMMA AllAsWritten ==
    ASSUME IInv, Write, InTables, Rendered.says.kind # "empty"
    PROVE  TellsAll(Rendered)
<1>1. pc = "write" /\ q.baseline /\ ~Summarised /\ q.format \in {"human", "markdown", "pr-comment"}
  BY DEF Write, InTables
<1>2. ~Empty(counts)
  BY <1>1 DEF Rendered, Compared, Nothing, Page, Says
<1>3. CASE q.format = "human"
  BY <1>1, <1>2, <1>3, HumanTells DEF Rendered, Compared
<1>4. CASE q.format = "markdown"
  BY <1>1, <1>2, <1>4, MarkdownTells DEF Rendered, Compared
<1>5. CASE q.format = "pr-comment"
  BY <1>1, <1>2, <1>5, CommentTells DEF Rendered, Compared
<1> QED
  BY <1>1, <1>3, <1>4, <1>5

(* A step that changes neither the input nor the rows does not change what *)
(* a page tells.                                                           *)
LEMMA SameTelling ==
    ASSUME NEW STATE p, in' = in, rows' = rows, page' = p, TellsAll(p)
    PROVE  TellsAll(page)'
<1>1. q' = q
  BY DEF q
<1>2. Owed' = Owed
  BY <1>1 DEF Owed, Crappy
<1>3. \A e : Crappy(e)' <=> Crappy(e)
  BY <1>1 DEF Crappy
<1>4. Sliced' <=> Sliced
  BY <1>1 DEF Sliced
<1>5. \A e : Kept(e)' <=> Kept(e)
  BY <1>1, <1>3, <1>4 DEF Kept
<1>6. \A a, b : Outranks(a, b)' <=> Outranks(a, b)
  BY <1>1 DEF Outranks, Change
<1>7. Told(page)' = Told(p)
  BY DEF Told
<1>8. OfLists(LAMBDA n : Len(page.sections[n].rows))' = OfLists(LAMBDA n : Len(p.sections[n].rows))
  BY DEF OfLists
<1>9. OfLists(LAMBDA n : page.sections[n].more)' = OfLists(LAMBDA n : p.sections[n].more)
  BY DEF OfLists
<1>10. /\ Len(page.sections["removed"].rows)' = Len(p.sections["removed"].rows)
       /\ page.sections["removed"].more' = p.sections["removed"].more
  OBVIOUS
<1> QED
  BY <1>2, <1>5, <1>6, <1>7, <1>8, <1>9, <1>10 DEF TellsAll

(* Every row a reader of a comparison's tables is owed is told or counted  *)
(* as left out, no row is cut in favour of a lesser one of its status,     *)
(* nothing regressed or above the threshold is cut from the human table,   *)
(* and what is gone is all told, for every input, cap and slice.           *)
THEOREM AllAlwaysTold == Spec => []AllTold
<1>1. Init => AllTold
  BY DEF Init, AllTold
<1>2. IInv /\ AllTold /\ [Next]_vars => AllTold'
  <2> SUFFICES ASSUME IInv, AllTold, [Next]_vars PROVE AllTold'
    OBVIOUS
  <2>1. CASE Write
    <3> DEFINE p == Rendered
    <3>1. InTables /\ p.says.kind # "empty" => TellsAll(p)
      BY <2>1, AllAsWritten
    <3>2. page' = p
      BY <2>1 DEF Write
    <3> HIDE DEF p
    <3>3. InTables' <=> InTables
      BY <2>1 DEF Write, InTables, Summarised, q
    <3>4. TellsAll(p) => TellsAll(page)'
      BY <2>1, <3>2, SameTelling DEF Write
    <3>5. QED
      BY <3>1, <3>2, <3>3, <3>4 DEF AllTold
  <2>2. CASE Compare \/ Narrow \/ Bail \/ Duplicates
    BY <2>2 DEF AllTold, Compare, Narrow, Bail, Duplicates
  <2>3. CASE UNCHANGED vars
    <3>1. in' = in /\ rows' = rows /\ page' = page /\ pc' = pc
      BY <2>3 DEF vars
    <3>2. InTables' <=> InTables
      BY <3>1 DEF InTables, Summarised, q
    <3>3. TellsAll(page) => TellsAll(page)'
      BY <3>1, SameTelling
    <3>4. QED
      BY <3>1, <3>2, <3>3 DEF AllTold
  <2>4. QED
    BY <2>1, <2>2, <2>3 DEF Next
<1> QED
  BY <1>1, <1>2, Invariance, PTL DEF Spec
-----------------------------------------------------------------------------
(* Verdicts are in place *)

(* The duplicate section counts ...                                        *)
LEMMA SameCount == \A S : D!Cardinality(S) = Cardinality(S)
  BY DEF D!Cardinality, Cardinality

(* ... sorts ...                                                           *)
LEMMA SameListing == \A S, R : D!Listed(S, R) = Listed(S, R)
  BY DEF D!Listed, D!Ahead, D!Cardinality, Listed, Ahead, Cardinality

(* ... filters ...                                                         *)
LEMMA SamePicked == \A s, P : D!Picked(s, P) = Picked(s, P)
  BY DEF D!Picked, D!Ranked, D!Precedence, D!Listed, D!Ahead, D!Cardinality,
         Picked, Ranked, Precedence, Listed, Ahead, Cardinality

(* ... and adds up as the rest of the page does.                           *)
LEMMA SameSum == \A f : D!SumFunction(f) = SumFunctionOnSet(f, DOMAIN f)
  BY DEF D!SumFunction, D!SumFunctionOnSet, D!FoldFunctionOnSet, D!MapThenFoldSet,
         SumFunctionOnSet, FoldFunctionOnSet, MapThenFoldSet

(* A finite set of numbers has a greatest and a least. *)
LEMMA Extremes ==
    ASSUME NEW S \in SUBSET Nat, IsFiniteSet(S), S # {}
    PROVE  /\ D!Max(S) \in S /\ \A y \in S : D!Max(S) >= y
           /\ D!Min(S) \in S /\ \A y \in S : D!Min(S) <= y
<1> DEFINE Up == {p \in S \X S : p[1] < p[2]}
           Down == {p \in S \X S : p[1] > p[2]}
<1>1. InOrder(Up, S) /\ InOrder(Down, S)
  BY DEF InOrder
<1>2. 1 \in 1 .. Cardinality(S)
  BY FS_CardinalityType, FS_EmptySet
<1> HIDE DEF Up, Down
<1>3. PICK least \in S : Cardinality(Ahead(Up, S, least)) = 1 - 1
  BY <1>1, <1>2, Ranks
<1>4. PICK most \in S : Cardinality(Ahead(Down, S, most)) = 1 - 1
  BY <1>1, <1>2, Ranks
<1>5. \A y \in S : least <= y
  <2>1. IsFiniteSet(Ahead(Up, S, least))
    BY FS_Subset DEF Ahead
  <2>2. Ahead(Up, S, least) = {}
    BY <1>3, <2>1, FS_EmptySet
  <2>3. \A y \in S : ~(y < least)
    BY <2>2 DEF Ahead, Up
  <2>4. QED
    BY <2>3
<1>6. \A y \in S : most >= y
  <2>1. IsFiniteSet(Ahead(Down, S, most))
    BY FS_Subset DEF Ahead
  <2>2. Ahead(Down, S, most) = {}
    BY <1>4, <2>1, FS_EmptySet
  <2>3. \A y \in S : ~(y > most)
    BY <2>2 DEF Ahead, Down
  <2>4. QED
    BY <2>3
<1>7. D!Max(S) \in S /\ \A y \in S : D!Max(S) >= y
  BY <1>6 DEF D!Max
<1>8. D!Min(S) \in S /\ \A y \in S : D!Min(S) <= y
  BY <1>5 DEF D!Min
<1> QED
  BY <1>7, <1>8

(* asked: the groups put to triage, each once and in report order; against *)
(* a record those that will be reported, and without one all there are.    *)
LEMMA AskedTells ==
    ASSUME NEW d, D!IsResult(d)
    PROVE  /\ DOMAIN d.groups = 1 .. Len(d.groups) /\ Len(d.groups) \in Nat
           /\ D!Asked(d) \in Seq(DOMAIN d.groups) /\ Once(D!Asked(d))
           /\ ~d.recorded => Len(D!Asked(d)) = Len(d.groups)
           /\ d.recorded => D!Asked(d) = D!ReportedGroups(d)
           /\ d.groups = <<>> => D!Asked(d) = <<>>
<1> DEFINE n == Len(d.groups)
           K == {k \in DOMAIN d.groups : d.groups[k].status # "unchanged"}
           R == {p \in K \X K : p[1] < p[2]}
           s == Listed(K, R)
           t == [k \in DOMAIN d.groups |-> k]
<1>1. DOMAIN d.groups = 1 .. n /\ n \in Nat
  <2>1. d.groups \in Seq(ToSet(d.groups))
    BY DEF D!IsResult, D!ToSet, ToSet
  <2>2. QED
    BY <2>1, LenProperties
<1>2. IsFiniteSet(K) /\ K \subseteq 1 .. n
  <2>1. IsFiniteSet(1 .. n)
    BY <1>1, UpTo
  <2>2. K \subseteq 1 .. n
    BY <1>1
  <2>3. QED
    BY <2>1, <2>2, FS_Subset
<1>3. InOrder(R, K)
  <2>1. K \subseteq Nat
    BY <1>1, <1>2
  <2> HIDE DEF K
  <2>2. QED
    BY <2>1 DEF InOrder
<1>4. D!ReportedGroups(d) = s
  BY SameListing DEF D!ReportedGroups, D!Ranked, D!Precedence
<1> HIDE DEF n, K, R, s
<1>5. s \in Seq(K) /\ Once(s) /\ Len(s) = Cardinality(K)
  BY <1>2, <1>3, SortedTells DEF s
<1>6. s \in Seq(1 .. n)
  <2>1. Len(s) \in Nat /\ s \in [1 .. Len(s) -> K]
    BY <1>5, LenProperties
  <2>2. s \in [1 .. Len(s) -> 1 .. n]
    BY <1>2, <2>1
  <2>3. QED
    BY <2>1, <2>2, SeqDef
<1>7. t \in Seq(1 .. n) /\ Len(t) = n /\ Once(t)
  <2>1. t \in [1 .. n -> 1 .. n] /\ \A k \in 1 .. n : t[k] = k
    BY <1>1
  <2> HIDE DEF t
  <2>2. t \in Seq(1 .. n) /\ Len(t) = n
    BY <1>1, <2>1, IsASeq, LenProperties
  <2>3. QED
    BY <2>1, <2>2 DEF Once
<1>8. D!Asked(d) = IF d.recorded THEN s ELSE t
  BY <1>4 DEF D!Asked
<1>9. d.groups = <<>> => D!Asked(d) = <<>>
  <2>1. SUFFICES ASSUME d.groups = <<>> PROVE Len(D!Asked(d)) = 0 /\ D!Asked(d) \in Seq(1 .. n)
    BY EmptySeq
  <2>2. n = 0
    BY <2>1 DEF n
  <2>3. K = {}
    BY <1>2, <2>2
  <2>4. Len(s) = 0 /\ Len(t) = 0
    BY <1>5, <1>7, <2>2, <2>3, FS_EmptySet
  <2>5. QED
    BY <1>6, <1>7, <1>8, <2>4
<1> HIDE DEF t
<1> QED
  BY <1>1, <1>4, <1>5, <1>6, <1>7, <1>8, <1>9 DEF n

(* spread: a group has the answer to the question about it, and none if    *)
(* there was no such question.                                             *)
LEMMA SpreadTells ==
    ASSUME NEW d, D!IsResult(d)
    PROVE  /\ \A n \in DOMAIN d.groups : D!Spread(d)[n] # None =>
                /\ d.groups[n].says # None
                /\ D!Spread(d)[n] = D!Assessment(d.groups[n].says, d.floor)
                /\ \E k \in DOMAIN D!Asked(d) : D!Asked(d)[k] = n
           /\ \A k \in DOMAIN D!Asked(d) :
                D!Asked(d)[k] \in DOMAIN d.groups /\ D!Spread(d)[D!Asked(d)[k]] = D!Answers(d)[k]
<1> DEFINE s == D!Asked(d)
<1>1. /\ DOMAIN s = 1 .. Len(s) /\ \A k \in DOMAIN s : s[k] \in DOMAIN d.groups
      /\ \A i, j \in DOMAIN s : s[i] = s[j] => i = j
  <2>1. s \in Seq(DOMAIN d.groups) /\ Once(s)
    BY AskedTells
  <2> HIDE DEF s
  <2>2. DOMAIN s = 1 .. Len(s) /\ \A k \in 1 .. Len(s) : s[k] \in DOMAIN d.groups
    BY <2>1, LenProperties, ElementOfSeq
  <2>3. QED
    BY <2>1, <2>2 DEF Once
<1>2. \A n \in DOMAIN d.groups :
        D!Spread(d)[n] = IF \E k \in DOMAIN s : s[k] = n
                         THEN D!Answers(d)[CHOOSE k \in DOMAIN s : s[k] = n] ELSE None
  BY DEF D!Spread
<1>3. \A k \in DOMAIN s :
        D!Answers(d)[k] = IF d.groups[s[k]].says = None THEN None
                          ELSE D!Assessment(d.groups[s[k]].says, d.floor)
  BY DEF D!Answers
<1> HIDE DEF s
<1>4. ASSUME NEW k \in DOMAIN s
      PROVE  D!Spread(d)[s[k]] = D!Answers(d)[k]
  <2>1. (CHOOSE j \in DOMAIN s : s[j] = s[k]) = k
    BY <1>1
  <2>2. QED
    BY <1>1, <1>2, <2>1
<1>5. ASSUME NEW n \in DOMAIN d.groups, D!Spread(d)[n] # None
      PROVE  /\ d.groups[n].says # None
             /\ D!Spread(d)[n] = D!Assessment(d.groups[n].says, d.floor)
             /\ \E k \in DOMAIN s : s[k] = n
  <2>1. PICK k \in DOMAIN s : s[k] = n
    BY <1>2, <1>5
  <2>2. D!Spread(d)[n] = D!Answers(d)[k]
    BY <1>4, <2>1
  <2>3. QED
    BY <1>3, <1>5, <2>1, <2>2
<1> QED
  BY <1>1, <1>4, <1>5 DEF s

(* A verdict on a group that was given on it: how sure triage was of that  *)
(* group, and what it said of it if it was sure enough.                    *)
Own(d, n, v) ==
    v # None => /\ v.confidence = d.groups[n].says.confidence
                /\ v.level = IF v.confidence < d.floor THEN None ELSE d.groups[n].says.level

(* Verdict::assessment and spread: a group's verdict is its own.           *)
LEMMA OwnVerdicts ==
    ASSUME NEW d, D!IsResult(d), NEW n \in DOMAIN d.groups
    PROVE  Own(d, n, D!VerdictOn(d, n)) /\ (D!Triage(d) # None => Own(d, n, D!Triage(d)[n]))
<1> DEFINE says == d.groups[n].says
<1>1. ASSUME says # None
      PROVE  LET v == D!Assessment(says, d.floor) IN
             /\ v.confidence = says.confidence
             /\ v.level = IF v.confidence < d.floor THEN None ELSE says.level
  <2>1. d.floor \in Nat /\ DOMAIN says = {"level", "confidence"} /\ says.confidence \in Nat
    <3>1. d.groups[n] \in D!ToSet(d.groups)
      BY DEF D!ToSet
    <3>2. QED
      BY <1>1, <3>1 DEF D!IsResult
  <2> HIDE DEF says
  <2>2. LET w == [says EXCEPT !.level = None] IN w.confidence = says.confidence /\ w.level = None
    BY <2>1
  <2>3. CASE says.confidence >= d.floor
    <3>1. D!Assessment(says, d.floor) = says /\ ~(says.confidence < d.floor)
      BY <2>1, <2>3 DEF D!Assessment
    <3>2. QED
      BY <3>1
  <2>4. CASE ~(says.confidence >= d.floor)
    <3>1. D!Assessment(says, d.floor) = [says EXCEPT !.level = None] /\ says.confidence < d.floor
      BY <2>1, <2>4 DEF D!Assessment
    <3>2. QED
      BY <2>2, <3>1
  <2>5. QED
    BY <2>3, <2>4
<1>2. Own(d, n, D!Spread(d)[n])
  <2>1. SUFFICES ASSUME D!Spread(d)[n] # None PROVE Own(d, n, D!Spread(d)[n])
    BY DEF Own
  <2>2. says # None /\ D!Spread(d)[n] = D!Assessment(says, d.floor)
    BY <2>1, SpreadTells
  <2>3. QED
    BY <1>1, <2>2 DEF Own
<1>3. D!Triage(d) = None \/ D!Triage(d) = D!Spread(d)
  BY DEF D!Triage
<1>4. Own(d, n, None)
  BY DEF Own
<1> QED
  BY <1>2, <1>3, <1>4 DEF D!VerdictOn

(* Every question has its verdict beside a group or is counted as          *)
(* untriaged, however the verdicts are counted.                            *)
LEMMA AnswersCount ==
    ASSUME NEW d, D!IsResult(d)
    PROVE  LET s == D!Asked(d) IN
           /\ D!Untriaged(d) \in Nat /\ Len(s) \in Nat /\ D!Untriaged(d) <= Len(s)
           /\ D!Triage(d) # None =>
                /\ Cardinality({k \in DOMAIN s : D!VerdictOn(d, s[k]) # None}) + D!Untriaged(d) = Len(s)
                /\ Cardinality({n \in DOMAIN d.groups : D!VerdictOn(d, n) # None}) + D!Untriaged(d)
                     = Len(s)
<1> DEFINE s == D!Asked(d)
           Y == {k \in DOMAIN s : D!Answers(d)[k] # None}
           N == {k \in DOMAIN s : D!Answers(d)[k] = None}
           G == {n \in DOMAIN d.groups : D!Spread(d)[n] # None}
<1>1. /\ DOMAIN s = 1 .. Len(s) /\ Len(s) \in Nat
      /\ \A i, j \in DOMAIN s : s[i] = s[j] => i = j
  <2>1. s \in Seq(DOMAIN d.groups) /\ Once(s)
    BY AskedTells
  <2> HIDE DEF s
  <2>2. DOMAIN s = 1 .. Len(s) /\ Len(s) \in Nat
    BY <2>1, LenProperties
  <2>3. QED
    BY <2>1, <2>2 DEF Once
<1>2. /\ \A k \in DOMAIN s : s[k] \in DOMAIN d.groups /\ D!Spread(d)[s[k]] = D!Answers(d)[k]
      /\ \A n \in DOMAIN d.groups : D!Spread(d)[n] # None => \E k \in DOMAIN s : s[k] = n
  BY SpreadTells
<1>3. D!Untriaged(d) = IF d.triage # "answers" THEN 0 ELSE Cardinality(N)
  BY SameCount DEF D!Untriaged
<1> HIDE DEF s
<1>4. Cardinality(Y) \in Nat /\ Cardinality(N) \in Nat /\ Cardinality(Y) + Cardinality(N) = Len(s) /\ IsFiniteSet(Y)
  <2>1. Y \cup N = 1 .. Len(s) /\ Y \cap N = {} /\ Y \subseteq 1 .. Len(s) /\ N \subseteq 1 .. Len(s)
    BY <1>1
  <2>2. IsFiniteSet(1 .. Len(s)) /\ Cardinality(1 .. Len(s)) = Len(s)
    BY <1>1, UpTo
  <2> HIDE DEF Y, N
  <2>3. IsFiniteSet(Y) /\ IsFiniteSet(N)
    BY <2>1, <2>2, FS_Subset
  <2>4. QED
    BY <2>1, <2>2, <2>3, CardOfTwo
<1>5. Cardinality(G) = Cardinality(Y)
  <2> DEFINE f == [k \in Y |-> s[k]]
  <2>1. \A k \in Y : f[k] \in G
    BY <1>2
  <2>2. \A i, j \in Y : f[i] = f[j] => i = j
    BY <1>1
  <2>3. \A n \in G : \E k \in Y : f[k] = n
    BY <1>2
  <2>4. f \in Bijection(Y, G)
    <3>1. f \in [Y -> G]
      BY <2>1
    <3> HIDE DEF f, Y, G
    <3>2. QED
      BY <2>2, <2>3, <3>1 DEF Bijection, Injection, Surjection, IsInjective
  <2> HIDE DEF f, Y, G
  <2>5. QED
    BY <1>4, <2>4, FS_Bijection DEF ExistsBijection
<1>6. ASSUME D!Triage(d) # None
      PROVE  /\ {k \in DOMAIN s : D!VerdictOn(d, s[k]) # None} = Y
             /\ {n \in DOMAIN d.groups : D!VerdictOn(d, n) # None} = G
             /\ d.triage = "answers"
  <2>1. d.triage = "answers" /\ D!Triage(d) = D!Spread(d)
    BY <1>6 DEF D!Triage
  <2>2. \A n : D!VerdictOn(d, n) = D!Spread(d)[n]
    BY <1>6, <2>1 DEF D!VerdictOn
  <2>3. QED
    BY <1>2, <2>1, <2>2
<1> HIDE DEF Y, N, G
<1>7. D!Untriaged(d) \in Nat /\ D!Untriaged(d) <= Len(s)
  BY <1>1, <1>3, <1>4
<1>8. D!Triage(d) # None => Cardinality(Y) + D!Untriaged(d) = Len(s)
  BY <1>3, <1>4, <1>6
<1> QED
  BY <1>1, <1>5, <1>6, <1>7, <1>8 DEF s

(* summary_line: its counts add up to the verdicts there are.              *)
LEMMA SummaryAddsUp ==
    ASSUME NEW T, NEW v \in Seq(T)
    PROVE  D!SumFunction(D!SummaryLine(v)) = Cardinality({k \in DOMAIN v : v[k] # None})
<1> DEFINE K == {k \in DOMAIN v : v[k] # None}
           told == Picked(v, K)
           label == [k \in DOMAIN told |-> told[k].level]
           S == {told[k].level : k \in DOMAIN told}
           labelled == [c \in S |-> {k \in DOMAIN told : told[k].level = c}]
           f == [c \in S |-> Cardinality(labelled[c])]
<1>1. told \in Seq(T) /\ Len(told) = Cardinality(K)
  <2> HIDE DEF told
  <2>1. K \in SUBSET DOMAIN v
    OBVIOUS
  <2> HIDE DEF K
  <2>2. QED
    BY <2>1, PickedTells DEF told
<1>2. D!SummaryLine(v) = f
  BY SamePicked, SameCount DEF D!SummaryLine, D!Where, D!Level
<1> HIDE DEF told, K
<1>3. DOMAIN told = 1 .. Len(told) /\ Len(told) \in Nat /\ IsFiniteSet(DOMAIN told) /\ Cardinality(DOMAIN told) = Len(told)
  BY <1>1, LenProperties, UpTo
<1>4. IsFiniteSet(S)
  <2>1. label \in Surjection(DOMAIN told, S)
    BY DEF Surjection
  <2> HIDE DEF label, S
  <2>2. QED
    BY <1>3, <2>1, FS_Surjection
<1>5. SumFunctionOnSet(f, S) = Cardinality(DOMAIN told)
  <2> DEFINE U == DOMAIN told
  <2>1. /\ \A c \in S : /\ f[c] = Cardinality(labelled[c]) /\ labelled[c] \subseteq U
                        /\ \A x \in U : x \in labelled[c] <=> label[x] = c
        /\ \A x \in U : x \in U <=> label[x] \in S
        /\ U \in SUBSET U
    OBVIOUS
  <2> HIDE DEF U, S, f, label, labelled
  <2>2. IsFiniteSet(U)
    BY <1>3 DEF U
  <2>3. SumFunctionOnSet(f, S) = Cardinality(U)
    BY <1>4, <2>1, <2>2, LabelsAddUp
  <2>4. QED
    BY <2>3 DEF U
<1>6. DOMAIN f = S
  OBVIOUS
<1> HIDE DEF f, S
<1> QED
  BY <1>1, <1>2, <1>3, <1>5, <1>6, SameSum DEF K

(* What the rows say of their groups. *)
RowsTell(d, s) ==
    \A k \in DOMAIN s.rows : LET r == s.rows[k] IN
      /\ Own(d, r.group, r.verdict)
      /\ r.from > 0 => r.from = d.groups[r.group].from
      /\ r.named + r.more = Len(d.groups[r.group].members)

(* If every row's and pair's verdict is its own, the section's are.        *)
LEMMA RowsAreOwn ==
    ASSUME NEW d, NEW s, RowsTell(d, s),
           s.pairs # <<>> => \A p \in DOMAIN s.pairs : s.pairs[p] # None =>
             \E n \in DOMAIN d.groups : p \subseteq D!ToSet(d.groups[n].members) /\ Own(d, n, s.pairs[p])
    PROVE  D!VerdictsOwn(d, s)
  BY DEF RowsTell, Own, D!VerdictsOwn

(* The lesser of two numbers.                                              *)
LEMMA LesserOfTwo == \A u, m \in Nat : u <= m => D!Min({u, m}) = u
<1> TAKE u \in Nat, m \in Nat
<1> SUFFICES ASSUME u <= m PROVE D!Min({u, m}) = u
  OBVIOUS
<1> DEFINE S == {u, m}
<1>1. u \in S /\ \A y \in S : u <= y
  OBVIOUS
<1>2. \A x \in S : (\A y \in S : x <= y) => x = u
  OBVIOUS
<1>3. (CHOOSE x \in S : \A y \in S : x <= y) = u
  <2> HIDE DEF S
  <2>1. QED
    BY <1>1, <1>2
<1> QED
  BY <1>3 DEF D!Min

(* A group has a number of members. *)
LEMMA SizeIsNat ==
    ASSUME NEW d, D!IsResult(d), NEW n \in DOMAIN d.groups
    PROVE  D!Size(d, n) = Len(d.groups[n].members) /\ D!Size(d, n) \in Nat
<1>1. d.groups[n].members \in Seq(D!ToSet(d.groups[n].members))
  BY DEF D!IsResult, D!ToSet
<1> QED
  BY <1>1, LenProperties DEF D!Size

(* A whole row for every group, with its verdict. *)
WholeRows(d, rs) ==
    \A k \in DOMAIN d.groups :
      /\ rs[k].group = k /\ rs[k].verdict = D!VerdictOn(d, k)
      /\ rs[k].named = D!Size(d, k) /\ rs[k].more = 0
      /\ rs[k].from \in {0, d.groups[k].from}

(* A section with a whole row for every group, each with its verdict, and  *)
(* a count of the untriaged adds up.                                       *)
LEMMA EveryGroupTells ==
    ASSUME NEW d, D!IsResult(d), NEW s, NEW rs,
           s.says \in {"groups", "data"}, s.of = Len(d.groups), s.more = 0,
           s.untriaged = D!Untriaged(d), s.summary = None,
           s.rows = [k \in DOMAIN d.groups |-> rs[k]], WholeRows(d, rs)
    PROVE  RowsTell(d, s) /\ D!CountsAddUp(d, s)
<1> DEFINE n == Len(d.groups)
           m == Len(D!Asked(d))
           u == D!Untriaged(d)
<1>1. DOMAIN d.groups = 1 .. n /\ n \in Nat /\ m \in Nat /\ u \in Nat /\ u <= m
  BY AskedTells, AnswersCount
<1>2. /\ DOMAIN s.rows = 1 .. n
      /\ \A k \in 1 .. n : /\ s.rows[k].group = k /\ s.rows[k].verdict = D!VerdictOn(d, k)
                           /\ s.rows[k].named = D!Size(d, k) /\ s.rows[k].more = 0
                           /\ s.rows[k].from \in {0, d.groups[k].from}
  BY <1>1 DEF WholeRows
<1>3. Len(s.rows) = n
  <2> DEFINE t == [k \in DOMAIN d.groups |-> rs[k]]
  <2>1. t \in [1 .. n -> {rs[k] : k \in 1 .. n}]
    BY <1>1
  <2> HIDE DEF t, n
  <2>2. Len(t) = n
    BY <1>1, <2>1, IsASeq, LenProperties
  <2>3. QED
    BY <2>2 DEF t
<1> HIDE DEF n, m, u
<1>4. RowsTell(d, s)
  <2>1. \A k \in 1 .. n : /\ Own(d, k, D!VerdictOn(d, k))
                          /\ D!Size(d, k) = Len(d.groups[k].members) /\ D!Size(d, k) \in Nat
    BY <1>1, OwnVerdicts, SizeIsNat
  <2>2. \A k \in 1 .. n : s.rows[k].from > 0 => s.rows[k].from = d.groups[k].from
    <3>1. \A x : x = 0 => ~(x > 0)
      OBVIOUS
    <3>2. QED
      BY <1>2, <3>1
  <2>3. \A k \in 1 .. n : s.rows[k].named + s.rows[k].more = Len(d.groups[k].members)
    BY <1>2, <2>1
  <2>4. \A k \in 1 .. n : Own(d, s.rows[k].group, s.rows[k].verdict)
    BY <1>2, <2>1
  <2>5. \A k \in 1 .. n : s.rows[k].from > 0 => s.rows[k].from = d.groups[s.rows[k].group].from
    <3>1. \A k \in 1 .. n : s.rows[k].group = k
      BY <1>2
    <3>2. QED
      BY <2>2, <3>1
  <2>6. \A k \in 1 .. n : s.rows[k].named + s.rows[k].more = Len(d.groups[s.rows[k].group].members)
    BY <1>2, <2>3
  <2>7. QED
    BY <1>2, <2>4, <2>5, <2>6 DEF RowsTell
<1>5. ASSUME \E k \in DOMAIN s.rows : s.rows[k].verdict # None
      PROVE  Cardinality({k \in DOMAIN s.rows : s.rows[k].verdict # None}) + u + (n - m) = n
  <2> DEFINE V == {k \in DOMAIN d.groups : D!VerdictOn(d, k) # None}
             c == Cardinality(V)
  <2>1. {k \in DOMAIN s.rows : s.rows[k].verdict # None} = V
    BY <1>1, <1>2
  <2>2. D!Triage(d) # None
    BY <1>2, <1>5 DEF D!VerdictOn
  <2>3. c + u = m
    BY <2>2, AnswersCount DEF u, m
  <2>4. c \in Nat
    <3>1. IsFiniteSet(1 .. n) /\ V \subseteq 1 .. n
      BY <1>1, FS_Interval
    <3> HIDE DEF V
    <3>2. QED
      BY <3>1, FS_Subset, FS_CardinalityType
  <2> HIDE DEF c
  <2>5. c + u + (n - m) = n
    BY <1>1, <2>3, <2>4
  <2>6. QED
    BY <2>1, <2>5 DEF c
<1>6. D!CountsAddUp(d, s)
  <2>1. \A k \in DOMAIN s.rows : s.rows[k].named + s.rows[k].more = Len(d.groups[s.rows[k].group].members)
    BY <1>4 DEF RowsTell
  <2>2. n + 0 = n
    BY <1>1
  <2>3. QED
    BY <1>3, <1>5, <2>1, <2>2, SameCount DEF D!CountsAddUp, n, m, u
<1> QED
  BY <1>4, <1>6

(* A section without rows and pairs has no verdict out of place.           *)
LEMMA NoRowsTell ==
    ASSUME NEW d, NEW s, s.rows = <<>>, s.pairs = <<>>
    PROVE  D!VerdictsOwn(d, s)
<1>1. \A e : e = <<>> => DOMAIN e = {}
  OBVIOUS
<1>2. RowsTell(d, s)
  BY <1>1 DEF RowsTell
<1> QED
  BY <1>2, RowsAreOwn

(* render_human_section and render_grouped: every group has its row.       *)
LEMMA HumanSectionTells ==
    ASSUME NEW d, D!IsResult(d)
    PROVE  D!VerdictsOwn(d, D!Human(d)) /\ D!CountsAddUp(d, D!Human(d))
<1> DEFINE h == D!Human(d)
<1>1. CASE d.groups = <<>>
  <2>1. h.says = "none found" /\ h.rows = <<>> /\ h.pairs = <<>>
    BY <1>1 DEF D!Human, D!Silence
  <2>2. D!Asked(d) = <<>>
    BY <1>1, AskedTells
  <2> HIDE DEF h
  <2>3. D!VerdictsOwn(d, h)
    BY <2>1, NoRowsTell
  <2>4. D!CountsAddUp(d, h)
    BY <2>1, <2>2 DEF D!CountsAddUp
  <2> QED
    BY <2>3, <2>4 DEF h
<1>2. CASE d.groups # <<>>
  <2> DEFINE among == IF d.recorded THEN Len(D!ReportedGroups(d)) ELSE Len(d.groups)
             m == Len(D!Asked(d))
             u == D!Untriaged(d)
             rs == [k \in DOMAIN d.groups |-> D!HumanRow(d, k)]
  <2>1. among = m
    BY AskedTells
  <2>2. D!Min({u, among}) = u
    <3>1. u \in Nat /\ m \in Nat /\ u <= m
      BY AnswersCount
    <3> HIDE DEF u, m, among
    <3> QED
      BY <2>1, <3>1, LesserOfTwo
  <2>3. h.says = "groups" /\ h.of = Len(d.groups) /\ h.rows = [k \in DOMAIN d.groups |-> D!HumanRow(d, k)]
    BY <1>2 DEF D!Human, D!Silence
  <2>4. h.more = 0 /\ h.summary = None /\ h.pairs = <<>>
    BY <1>2 DEF D!Human, D!Silence
  <2>5. h.untriaged = u
    <3>1. h.untriaged = D!Min({u, among})
      BY <1>2 DEF D!Human, D!Silence
    <3>2. QED
      BY <2>2, <3>1
  <2>6. WholeRows(d, rs) /\ \A k \in DOMAIN d.groups : rs[k] = D!HumanRow(d, k)
    BY DEF D!HumanRow, D!Row, WholeRows
  <2> HIDE DEF h, rs
  <2>7. h.rows = [k \in DOMAIN d.groups |-> rs[k]]
    BY <2>3, <2>6
  <2>8. RowsTell(d, h) /\ D!CountsAddUp(d, h)
    BY <2>3, <2>4, <2>5, <2>6, <2>7, EveryGroupTells
  <2>9. D!VerdictsOwn(d, h)
    BY <2>4, <2>8, RowsAreOwn
  <2> QED
    BY <2>8, <2>9 DEF h
<1> QED
  BY <1>1, <1>2

(* wire: every group has its row, and a pair the verdict of a group that   *)
(* holds both its functions.                                               *)
LEMMA JsonSectionTells ==
    ASSUME NEW d, D!IsResult(d)
    PROVE  D!VerdictsOwn(d, D!Json(d)) /\ D!CountsAddUp(d, D!Json(d))
<1> DEFINE h == D!Json(d)
           rs == [k \in DOMAIN d.groups |-> D!JsonRow(d, k)]
<1>1. h.says = "data" /\ h.of = Len(d.groups) /\ h.rows = [k \in DOMAIN d.groups |-> D!JsonRow(d, k)]
  BY DEF D!Json, D!Silence
<1>2. h.more = 0 /\ h.summary = None /\ h.untriaged = D!Untriaged(d)
  BY DEF D!Json, D!Silence
<1>3. h.pairs = D!JsonPairs(d)
  BY DEF D!Json, D!Silence
<1>4. WholeRows(d, rs) /\ \A k \in DOMAIN d.groups : rs[k] = D!JsonRow(d, k)
  BY DEF D!JsonRow, D!Row, WholeRows
<1> HIDE DEF h, rs
<1>5. RowsTell(d, h) /\ D!CountsAddUp(d, h)
  <2>1. h.rows = [k \in DOMAIN d.groups |-> rs[k]]
    BY <1>1, <1>4
  <2>2. QED
    BY <1>1, <1>2, <1>4, <2>1, EveryGroupTells
<1>6. ASSUME NEW p \in d.pairs, D!PairVerdict(d, p) # None
      PROVE  \E n \in DOMAIN d.groups :
               p \subseteq D!ToSet(d.groups[n].members) /\ Own(d, n, D!PairVerdict(d, p))
  <2> DEFINE H == D!Holding(d, p)
  <2>1. D!Triage(d) # None /\ H # {} /\ D!PairVerdict(d, p) = D!Triage(d)[D!Max(H)]
    BY <1>6 DEF D!PairVerdict
  <2>2. H \in SUBSET Nat /\ IsFiniteSet(H) /\ H \subseteq DOMAIN d.groups
    <3>1. DOMAIN d.groups = 1 .. Len(d.groups) /\ Len(d.groups) \in Nat
      BY AskedTells
    <3>2. H \subseteq 1 .. Len(d.groups)
      BY <3>1 DEF D!Holding
    <3> HIDE DEF H
    <3>3. IsFiniteSet(1 .. Len(d.groups))
      BY <3>1, FS_Interval
    <3>4. IsFiniteSet(H)
      BY <3>2, <3>3, FS_Subset
    <3>5. QED
      BY <3>1, <3>2, <3>4
  <2>3. D!Max(H) \in H
    <3> HIDE DEF H
    <3> QED
      BY <2>1, <2>2, Extremes
  <2>4. Own(d, D!Max(H), D!Triage(d)[D!Max(H)])
    BY <2>1, <2>2, <2>3, OwnVerdicts
  <2>5. D!Max(H) \in DOMAIN d.groups /\ p \subseteq D!ToSet(d.groups[D!Max(H)].members)
    BY <2>2, <2>3 DEF D!Holding
  <2> QED
    BY <2>1, <2>4, <2>5
<1>7. \A p \in DOMAIN h.pairs : h.pairs[p] # None =>
        \E n \in DOMAIN d.groups : p \subseteq D!ToSet(d.groups[n].members) /\ Own(d, n, h.pairs[p])
  <2>1. DOMAIN h.pairs = d.pairs /\ \A p \in d.pairs : h.pairs[p] = D!PairVerdict(d, p)
    BY <1>3 DEF D!JsonPairs
  <2>2. QED
    BY <1>6, <2>1
<1>8. D!VerdictsOwn(d, h)
  BY <1>5, <1>7, RowsAreOwn
<1> QED
  BY <1>5, <1>8 DEF h

(* write_capped: the rows shown and those left out are the groups kept,    *)
(* each row names its group's members or counts them, and the summary      *)
(* counts every verdict on a group kept.                                   *)
LEMMA TableTells ==
    ASSUME NEW d, D!IsResult(d), NEW cap \in {None, MaxRows}
    PROVE  LET t == D!Table(d, D!Asked(d), cap)
               m == Len(D!Asked(d))
           IN  /\ t.says = "table" /\ t.of = m /\ t.unchanged = 0 /\ t.pairs = <<>>
               /\ RowsTell(d, t) /\ Len(t.rows) + t.more = m
               /\ t.summary # None => D!SumFunction(t.summary) + D!Untriaged(d) = m
<1> DEFINE kept == D!Asked(d)
           t == D!Table(d, kept, cap)
           m == Len(kept)
           verdicts == D!Verdicts(d, kept)
           shown == IF cap = None \/ cap > m THEN kept ELSE SubSeq(kept, 1, cap)
           from(n) == IF d.recorded THEN d.groups[n].from ELSE 0
           Cells(k) == D!Row(kept[k], D!Names(d, kept[k]), D!Size(d, kept[k]) - D!Names(d, kept[k]),
                             from(kept[k]), verdicts[k])
<1>1. /\ kept \in Seq(DOMAIN d.groups) /\ m \in Nat /\ DOMAIN kept = 1 .. m
      /\ \A k \in 1 .. m : kept[k] \in DOMAIN d.groups
  <2>1. kept \in Seq(DOMAIN d.groups)
    BY AskedTells
  <2> HIDE DEF kept
  <2>2. QED
    BY <2>1, LenProperties, ElementOfSeq
<1>2. t.says = "table" /\ t.of = m
  BY DEF D!Table, D!Silence
<1>3. t.unchanged = 0 /\ t.pairs = <<>>
  BY DEF D!Table, D!Silence
<1>4. t.rows = [k \in DOMAIN shown |-> Cells(k)]
  BY DEF D!Table, D!Silence
<1>5. t.more = m - Len(shown)
  BY DEF D!Table, D!Silence
<1>6. t.summary # None => t.summary = D!SummaryLine(verdicts) /\ \E k \in DOMAIN kept : verdicts[k] # None
  BY DEF D!Table, D!Silence, D!Told
<1>7. /\ verdicts = [k \in 1 .. m |-> D!VerdictOn(d, kept[k])]
      /\ \A k \in 1 .. m : verdicts[k] = D!VerdictOn(d, kept[k])
  BY <1>1 DEF D!Verdicts
<1> HIDE DEF t
<1>8. DOMAIN shown = 1 .. Len(shown) /\ Len(shown) \in Nat /\ Len(shown) <= m
  <2>1. CASE cap = None \/ cap > m
    <3>1. shown = kept
      BY <2>1
    <3> HIDE DEF shown, kept
    <3>2. QED
      BY <1>1, <3>1
  <2>2. CASE ~(cap = None \/ cap > m)
    <3>1. shown = First(kept, cap) /\ cap \in Nat
      BY <2>2, CapsAssumption DEF First
    <3> HIDE DEF shown, kept, m
    <3>2. First(kept, cap) \in Seq(DOMAIN d.groups) /\ Len(First(kept, cap)) \in 0 .. Len(kept)
      BY <1>1, <3>1, FirstTells
    <3>3. QED
      BY <1>1, <3>1, <3>2, LenProperties DEF m
  <2>3. QED
    BY <2>1, <2>2
<1> HIDE DEF kept, m, verdicts, shown
<1>9. \A k \in 1 .. Len(shown) :
        /\ t.rows[k].group = kept[k] /\ t.rows[k].verdict = verdicts[k] /\ t.rows[k].from = from(kept[k])
        /\ t.rows[k].named = D!Names(d, kept[k])
        /\ t.rows[k].more = D!Size(d, kept[k]) - D!Names(d, kept[k])
  BY <1>4, <1>8 DEF D!Row
<1>10. DOMAIN t.rows = 1 .. Len(shown) /\ Len(t.rows) = Len(shown)
  <2> DEFINE rs == [k \in DOMAIN shown |-> Cells(k)]
  <2>1. rs \in [1 .. Len(shown) -> {Cells(k) : k \in 1 .. Len(shown)}] /\ DOMAIN rs = 1 .. Len(shown)
    BY <1>8
  <2>2. t.rows = rs
    BY <1>4
  <2> HIDE DEF rs
  <2>3. Len(rs) = Len(shown)
    BY <1>8, <2>1, IsASeq, LenProperties
  <2>4. QED
    BY <2>1, <2>2, <2>3
<1>11. ASSUME NEW n \in DOMAIN d.groups
       PROVE  D!Names(d, n) + (D!Size(d, n) - D!Names(d, n)) = Len(d.groups[n].members)
  <2> DEFINE x == D!Size(d, n)
  <2>1. x \in Nat /\ x = Len(d.groups[n].members)
    BY SizeIsNat
  <2>2. D!Names(d, n) = x \/ D!Names(d, n) = Named
    BY DEF D!Names
  <2>3. D!Names(d, n) \in Nat
    BY <2>1, <2>2, CapsAssumption
  <2> HIDE DEF x
  <2>4. D!Names(d, n) + (x - D!Names(d, n)) = x
    BY <2>1, <2>3
  <2>5. QED
    BY <2>1, <2>4 DEF x
<1>12. RowsTell(d, t)
  <2>1. \A k \in 1 .. Len(shown) : k \in 1 .. m /\ kept[k] \in DOMAIN d.groups
    BY <1>1, <1>8
  <2>2. \A k \in 1 .. Len(shown) : Own(d, t.rows[k].group, t.rows[k].verdict)
    BY <1>7, <1>9, <2>1, OwnVerdicts
  <2>3. \A k \in 1 .. Len(shown) : t.rows[k].from > 0 => t.rows[k].from = d.groups[t.rows[k].group].from
    BY <1>9
  <2>4. \A k \in 1 .. Len(shown) : t.rows[k].named + t.rows[k].more = Len(d.groups[t.rows[k].group].members)
    BY <1>9, <1>11, <2>1
  <2>5. QED
    BY <1>10, <2>2, <2>3, <2>4 DEF RowsTell
<1>13. Len(t.rows) + t.more = m
  BY <1>1, <1>5, <1>8, <1>10
<1>14. ASSUME t.summary # None
       PROVE  D!SumFunction(t.summary) + D!Untriaged(d) = m
  <2>1. t.summary = D!SummaryLine(verdicts) /\ \E k \in 1 .. m : verdicts[k] # None
    BY <1>1, <1>6, <1>14
  <2>2. verdicts \in Seq({verdicts[k] : k \in 1 .. m}) /\ DOMAIN verdicts = 1 .. m
    <3>1. verdicts \in [1 .. m -> {verdicts[k] : k \in 1 .. m}] /\ DOMAIN verdicts = 1 .. m
      BY <1>7
    <3> DEFINE X == {verdicts[k] : k \in 1 .. m}
    <3> HIDE DEF X
    <3>2. verdicts \in [1 .. m -> X] => verdicts \in Seq(X)
      BY <1>1, IsASeq
    <3>3. QED
      BY <3>1, <3>2 DEF X
  <2>3. D!SumFunction(t.summary) = Cardinality({k \in DOMAIN verdicts : verdicts[k] # None})
    BY <2>1, <2>2, SummaryAddsUp
  <2>4. {k \in DOMAIN verdicts : verdicts[k] # None} = {k \in DOMAIN kept : D!VerdictOn(d, kept[k]) # None}
    BY <1>1, <1>7, <2>2
  <2>5. D!Triage(d) # None
    BY <1>7, <2>1 DEF D!VerdictOn
  <2>6. Cardinality({k \in DOMAIN kept : D!VerdictOn(d, kept[k]) # None}) + D!Untriaged(d) = m
    BY <2>5, AnswersCount DEF kept, m
  <2>7. QED
    BY <2>3, <2>4, <2>6
<1> QED
  BY <1>2, <1>3, <1>12, <1>13, <1>14 DEF t, kept, m

(* render_table and render_new_table: with the unchanged groups the groups *)
(* kept are all there are, and the untriaged are counted.                  *)
LEMMA MarkdownSectionTells ==
    ASSUME NEW d, D!IsResult(d), NEW cap \in {None, MaxRows}
    PROVE  D!VerdictsOwn(d, D!Markdown(d, cap)) /\ D!CountsAddUp(d, D!Markdown(d, cap))
<1> DEFINE s == D!Markdown(d, cap)
           kept == D!Asked(d)
           t == D!Table(d, kept, cap)
           n == Len(d.groups)
           m == Len(kept)
           u == D!Untriaged(d)
<1>1. /\ n \in Nat /\ m \in Nat /\ u \in Nat /\ u <= m
      /\ ~d.recorded => m = n
      /\ d.groups = <<>> => kept = <<>>
  BY AskedTells, AnswersCount
<1>2. D!Min({u, m}) = u
  <2> HIDE DEF u, m
  <2> QED
    BY <1>1, LesserOfTwo
<1>3. /\ t.says = "table" /\ t.of = m /\ t.unchanged = 0 /\ t.pairs = <<>>
      /\ RowsTell(d, t) /\ Len(t.rows) + t.more = m
      /\ t.summary # None => D!SumFunction(t.summary) + u = m
  BY TableTells
<1>4. CASE IF d.recorded THEN kept = <<>> ELSE d.groups = <<>>
  <2>1. s.says \in {"none found", "none new"} /\ s.rows = <<>> /\ s.pairs = <<>>
    <3>1. CASE ~d.recorded /\ d.groups = <<>>
      BY <3>1 DEF D!Markdown, D!Silence
    <3>2. CASE d.recorded /\ kept = <<>>
      BY <3>2 DEF D!Markdown, D!Silence
    <3>3. QED
      BY <1>4, <3>1, <3>2
  <2>2. kept = <<>>
    BY <1>1, <1>4
  <2> HIDE DEF s
  <2>3. D!VerdictsOwn(d, s)
    BY <2>1, NoRowsTell
  <2>4. D!CountsAddUp(d, s)
    BY <2>1, <2>2 DEF D!CountsAddUp
  <2>5. QED
    BY <2>3, <2>4 DEF s
<1>5. CASE ~(IF d.recorded THEN kept = <<>> ELSE d.groups = <<>>)
  <2>1. /\ s.says = t.says /\ s.of = t.of /\ s.pairs = t.pairs /\ s.rows = t.rows
        /\ s.more = t.more /\ s.summary = t.summary
        /\ s.untriaged = D!Min({u, m})
        /\ s.unchanged = n - m
    <3> DEFINE w == D!Min({u, m})
               a == n - m
               table == [t EXCEPT !.untriaged = w]
    <3>1. s = IF d.recorded THEN [table EXCEPT !.unchanged = a, !.resolved = d.resolved] ELSE table
      <4>1. CASE d.recorded
        <5>1. kept # <<>>
          BY <1>5, <4>1
        <5>2. D!Markdown(d, cap) = [table EXCEPT !.unchanged = Len(d.groups) - Len(kept), !.resolved = d.resolved]
          BY <4>1, <5>1 DEF D!Markdown
        <5>3. QED
          BY <4>1, <5>2
      <4>2. CASE ~d.recorded
        <5>1. d.groups # <<>>
          BY <1>5, <4>2
        <5>2. D!Markdown(d, cap) = table
          BY <4>2, <5>1 DEF D!Markdown
        <5>3. QED
          BY <4>2, <5>2
      <4>3. QED
        BY <4>1, <4>2
    <3>2. DOMAIN t = DOMAIN D!Silence
      BY DEF D!Table
    <3>3. {"says", "of", "rows", "more", "summary", "unchanged", "resolved", "untriaged", "pairs"} \subseteq DOMAIN t
      BY <3>2 DEF D!Silence
    <3>4. a = IF d.recorded THEN n - m ELSE 0
      BY <1>1
    <3> HIDE DEF s, t, u, m, n, w, a
    <3>5. CASE d.recorded
      BY <3>1, <3>3, <3>5 DEF w, a
    <3>6. CASE ~d.recorded
      BY <1>3, <3>1, <3>3, <3>4, <3>6 DEF w, a
    <3>7. QED
      BY <3>5, <3>6
  <2> HIDE DEF s, t, u, m, n, kept
  <2>2. RowsTell(d, s)
    BY <1>3, <2>1 DEF RowsTell
  <2>3. D!VerdictsOwn(d, s)
    BY <1>3, <2>1, <2>2, RowsAreOwn
  <2>4. \A k \in DOMAIN s.rows : s.rows[k].named + s.rows[k].more = Len(d.groups[s.rows[k].group].members)
    BY <2>2 DEF RowsTell
  <2>5. m + (n - m) = n
    BY <1>1
  <2>6. D!CountsAddUp(d, s)
    BY <1>2, <1>3, <2>1, <2>4, <2>5 DEF D!CountsAddUp, n, m, kept
  <2>7. QED
    BY <2>3, <2>6 DEF s
<1> QED
  BY <1>4, <1>5

(* Whichever format writes the section.                                    *)
LEMMA SectionTells ==
    ASSUME NEW d, D!IsResult(d), NEW format
    PROVE  /\ D!VerdictsOwn(d, D!Section(d, format))
           /\ D!Found(d, format) => D!CountsAddUp(d, D!Section(d, format))
<1> DEFINE s == D!Section(d, format)
<1>1. /\ D!Silence.says = "nothing" /\ D!Silence.rows = <<>> /\ D!Silence.pairs = <<>>
      /\ D!VerdictsOwn(d, D!Silence)
  <2>1. D!Silence.says = "nothing" /\ D!Silence.rows = <<>> /\ D!Silence.pairs = <<>>
    BY DEF D!Silence
  <2>2. QED
    BY <2>1, NoRowsTell
<1>2. CASE ~D!Found(d, format)
  BY <1>1, <1>2 DEF D!Section
<1>3. CASE D!Found(d, format)
  <2>1. format \in {"human", "json", "markdown", "pr-comment"}
    BY <1>3 DEF D!Found
  <2>2. CASE format = "human"
    BY <1>3, <2>2, HumanSectionTells DEF D!Section
  <2>3. CASE format = "json"
    BY <1>3, <2>3, JsonSectionTells DEF D!Section
  <2>4. CASE format = "markdown"
    BY <1>3, <2>4, MarkdownSectionTells DEF D!Section
  <2>5. CASE format = "pr-comment" /\ ~D!NothingNew(d)
    BY <1>3, <2>5, MarkdownSectionTells DEF D!Section
  <2>6. CASE format = "pr-comment" /\ D!NothingNew(d)
    <3>1. s = D!Silence
      BY <1>3, <2>6 DEF D!Section
    <3>2. D!CountsAddUp(d, D!Silence)
      BY <1>1, <2>6 DEF D!CountsAddUp
    <3>3. QED
      BY <1>1, <3>1, <3>2
  <2>7. QED
    BY <2>1, <2>2, <2>3, <2>4, <2>5, <2>6
<1> QED
  BY <1>2, <1>3

(* A verdict is always beside the group it was given on, certain only from *)
(* the floor up, and no group, member, verdict or open question is lost    *)
(* between the section's heading, its rows and its closing lines: for all  *)
(* groups, verdicts, budgets, records and caps, in every format.           *)
THEOREM VerdictsAlwaysInPlace == Spec => []VerdictsInPlace
<1>1. Init => VerdictsInPlace
  BY DEF Init, VerdictsInPlace
<1>2. IInv /\ VerdictsInPlace /\ [Next]_vars => VerdictsInPlace'
  <2> SUFFICES ASSUME IInv, VerdictsInPlace, [Next]_vars PROVE VerdictsInPlace'
    OBVIOUS
  <2>1. CASE Duplicates
    <3>1. in' = in /\ section' = D!Section(in.dups, in.q.format) /\ q' = in.q
      BY <2>1 DEF Duplicates, q
    <3>2. D!IsResult(in.dups)
      BY DEF IInv, IsInput
    <3>3. /\ D!VerdictsOwn(in.dups, section')
          /\ D!Found(in.dups, in.q.format) => D!CountsAddUp(in.dups, section')
      BY <3>1, <3>2, SectionTells
    <3>4. QED
      BY <3>1, <3>3 DEF VerdictsInPlace
  <2>2. CASE Compare \/ Narrow \/ Write \/ Bail
    <3>1. pc' # "done"
      BY <2>2 DEF Compare, Narrow, Write, Bail
    <3>2. QED
      BY <3>1 DEF VerdictsInPlace
  <2>3. CASE UNCHANGED vars
    BY <2>3 DEF vars, VerdictsInPlace, q
  <2>4. QED
    BY <2>1, <2>2, <2>3 DEF Next
<1> QED
  BY <1>1, <1>2, Invariance, PTL DEF Spec
-----------------------------------------------------------------------------
(* Places tell *)

(* The greatest and the least of numbers, for the rest of the page.        *)
LEMMA Bounds ==
    ASSUME NEW S \in SUBSET Nat, IsFiniteSet(S), S # {}
    PROVE  /\ Max(S) \in S /\ \A y \in S : Max(S) >= y
           /\ Min(S) \in S /\ \A y \in S : Min(S) <= y
<1>1. Max(S) = D!Max(S) /\ Min(S) = D!Min(S)
  BY DEF Max, D!Max, Min, D!Min
<1> QED
  BY <1>1, Extremes

(* A path cut in two is the one part and the other.                        *)
LEMMA CutTells ==
    ASSUME NEW T, NEW x \in Seq(T), NEW n \in 0 .. Len(x)
    PROVE  /\ Root(x, n) \in Seq(T) /\ Len(Root(x, n)) = n
           /\ \A k \in 1 .. n : Root(x, n)[k] = x[k]
           /\ Below(x, n) \in Seq(T) /\ Len(Below(x, n)) = Len(x) - n
           /\ \A k \in 1 .. Len(x) - n : Below(x, n)[k] = x[n + k]
           /\ Root(x, n) \o Below(x, n) = x
<1> DEFINE l == Len(x)
           a == Root(x, n)
           b == Below(x, n)
<1>1. l \in Nat /\ n \in Nat /\ n <= l /\ \A k \in 1 .. l : x[k] \in T
  BY LenProperties, ElementOfSeq
<1>2. a \in Seq(T) /\ Len(a) = n /\ \A k \in 1 .. n : a[k] = x[k]
  <2>1. \A k \in 1 .. n : x[k] \in T
    BY <1>1
  <2>2. /\ SubSeq(x, 1, n) \in Seq(T)
        /\ Len(SubSeq(x, 1, n)) = IF 1 <= n THEN n - 1 + 1 ELSE 0
        /\ \A i \in 1 .. n - 1 + 1 : SubSeq(x, 1, n)[i] = x[1 + i - 1]
    BY <1>1, <2>1, SubSeqProperties
  <2>3. QED
    BY <1>1, <2>2 DEF Root
<1>3. b \in Seq(T) /\ Len(b) = l - n /\ \A k \in 1 .. l - n : b[k] = x[n + k]
  <2>1. \A k \in n + 1 .. l : x[k] \in T
    BY <1>1
  <2>2. /\ SubSeq(x, n + 1, l) \in Seq(T)
        /\ Len(SubSeq(x, n + 1, l)) = IF n + 1 <= l THEN l - (n + 1) + 1 ELSE 0
        /\ \A i \in 1 .. l - (n + 1) + 1 : SubSeq(x, n + 1, l)[i] = x[n + 1 + i - 1]
    BY <1>1, <2>1, SubSeqProperties
  <2>3. l - (n + 1) + 1 = l - n /\ \A i \in 1 .. l - n : n + 1 + i - 1 = n + i
    BY <1>1
  <2>4. b = SubSeq(x, n + 1, l)
    BY DEF Below
  <2> HIDE DEF b, l
  <2>5. Len(b) = l - n
    BY <1>1, <2>2, <2>3, <2>4
  <2>6. \A k \in 1 .. l - n : b[k] = x[n + k]
    BY <2>2, <2>3, <2>4
  <2>7. QED
    BY <2>2, <2>4, <2>5, <2>6
<1> HIDE DEF a, b
<1>4. a \o b = x
  <2>1. /\ a \o b \in Seq(T) /\ Len(a \o b) = Len(a) + Len(b)
        /\ \A k \in 1 .. Len(a) + Len(b) : (a \o b)[k] = IF k <= Len(a) THEN a[k] ELSE b[k - Len(a)]
    BY <1>2, <1>3, ConcatProperties
  <2>2. Len(a) + Len(b) = l
    BY <1>1, <1>2, <1>3
  <2>3. ASSUME NEW k \in 1 .. l PROVE (a \o b)[k] = x[k]
    <3>1. CASE k <= n
      BY <1>1, <1>2, <2>1, <2>2, <3>1
    <3>2. CASE ~(k <= n)
      <4>1. k - n \in 1 .. l - n /\ n + (k - n) = k
        BY <1>1, <3>2
      <4>2. QED
        BY <1>1, <1>2, <1>3, <2>1, <2>2, <3>2, <4>1
    <3>3. QED
      BY <3>1, <3>2
  <2>4. QED
    BY <2>1, <2>2, <2>3, SeqEqual
<1> QED
  BY <1>2, <1>3, <1>4 DEF a, b

(* strip_prefix: what is below a directory a file starts with, put behind  *)
(* the directory, is the file.                                             *)
LEMMA StripTells ==
    ASSUME NEW T, NEW x \in Seq(T), NEW dir \in Seq(T), Starts(x, dir)
    PROVE  /\ Len(dir) \in 0 .. Len(x)
           /\ Under(x, dir) = Below(x, Len(dir)) /\ Under(x, dir) \in Seq(T)
           /\ dir \o Under(x, dir) = x
           /\ x # dir => Len(dir) < Len(x)
<1>1. Len(dir) \in 0 .. Len(x) /\ Root(x, Len(dir)) = dir
  BY LenProperties DEF Starts
<1>2. Under(x, dir) = Below(x, Len(dir))
  BY DEF Under
<1>3. Below(x, Len(dir)) \in Seq(T) /\ dir \o Below(x, Len(dir)) = x
  BY <1>1, CutTells
<1>4. Len(dir) = Len(x) => x = dir
  <2>1. SUFFICES ASSUME Len(dir) = Len(x) PROVE x = dir
    OBVIOUS
  <2>2. \A k \in 1 .. Len(dir) : Root(x, Len(dir))[k] = x[k]
    BY <1>1, CutTells
  <2>3. \A k \in 1 .. Len(x) : dir[k] = x[k]
    BY <1>1, <2>1, <2>2
  <2>4. QED
    BY <2>1, <2>3, SeqEqual
<1> QED
  BY <1>1, <1>2, <1>3, <1>4

(* A prefix of a file's directory is one of the file, and shorter.         *)
LEMMA DirectoryTells ==
    ASSUME NEW T, NEW x \in Seq(T), x # <<>>, NEW p \in Seq(T), Starts(Root(x, Len(x) - 1), p)
    PROVE  Starts(x, p) /\ Len(p) < Len(x)
<1> DEFINE n == Len(x) - 1
           d == Root(x, n)
<1>1. n \in Nat /\ n < Len(x) /\ n \in 0 .. Len(x)
  BY LenProperties, EmptySeq
<1>2. d \in Seq(T) /\ Len(d) = n /\ \A k \in 1 .. n : d[k] = x[k]
  <2> HIDE DEF n
  <2>1. QED
    BY <1>1, CutTells
<1> HIDE DEF n, d
<1>3. Starts(d, p)
  BY DEF d, n
<1>4. Len(p) \in 0 .. Len(d) /\ Root(d, Len(p)) = p
  BY <1>2, <1>3, LenProperties DEF Starts
<1>5. Len(p) \in 0 .. Len(x)
  BY <1>1, <1>2, <1>4
<1>6. Root(x, Len(p)) = p
  <2>1. Root(x, Len(p)) \in Seq(T) /\ Len(Root(x, Len(p))) = Len(p)
    BY <1>5, CutTells
  <2>2. \A k \in 1 .. Len(p) : Root(x, Len(p))[k] = x[k]
    BY <1>5, CutTells
  <2>3. \A k \in 1 .. Len(p) : p[k] = d[k]
    BY <1>2, <1>4, CutTells
  <2>4. \A k \in 1 .. Len(p) : k \in 1 .. n
    BY <1>1, <1>2, <1>4
  <2>5. \A k \in 1 .. Len(p) : Root(x, Len(p))[k] = p[k]
    BY <1>2, <2>2, <2>3, <2>4
  <2>6. QED
    BY <2>1, <2>5, SeqEqual
<1> QED
  BY <1>1, <1>2, <1>4, <1>5, <1>6 DEF Starts

(* compute_render_prefix: what is cut off the locations is a directory     *)
(* that every file starts with and none is: one common to the directories  *)
(* of the files, the working directory, or nothing.                        *)
LEMMA RenderPrefixTells ==
    ASSUME NEW T, NEW files \in Seq(Seq(T)), q.cwd \in Seq(T),
           \A k \in 1 .. Len(files) : files[k] # <<>> /\ files[k] # q.cwd
    PROVE  /\ RenderPrefix(files) \in Seq(T)
           /\ \A k \in 1 .. Len(files) : /\ Starts(files[k], RenderPrefix(files))
                                         /\ Len(RenderPrefix(files)) < Len(files[k])
<1> DEFINE P == RenderPrefix(files)
           c == CommonPrefix(files)
<1>1. /\ DOMAIN files = 1 .. Len(files) /\ Len(files) \in Nat
      /\ \A k \in 1 .. Len(files) : files[k] \in Seq(T)
  BY LenProperties, ElementOfSeq
<1>2. <<>> \in Seq(T) /\ Len(<<>>) = 0
  BY EmptySeq
<1>3. \A x \in Seq(T) : Root(x, 0) = <<>>
  <2>1. SUFFICES ASSUME NEW x \in Seq(T) PROVE Root(x, 0) = <<>>
    OBVIOUS
  <2>2. 0 \in 0 .. Len(x)
    BY LenProperties
  <2>3. Root(x, 0) \in Seq(T) /\ Len(Root(x, 0)) = 0
    BY <2>2, CutTells
  <2>4. QED
    BY <2>3, EmptySeq
<1>4. \A x \in Seq(T) : x # <<>> => Len(x) \in Nat /\ 0 < Len(x)
  BY LenProperties, EmptySeq
<1>5. CASE c # <<>>
  <2> DEFINE one == files[1]
             S == {n \in 0 .. Len(one) - 1 :
                     \A k \in DOMAIN files : Starts(Root(files[k], Len(files[k]) - 1), Root(one, n))}
  <2>1. c = Root(one, Max(S)) /\ ~(Len(files) < 2)
    BY <1>5 DEF CommonPrefix
  <2>2. 1 \in 1 .. Len(files) /\ one \in Seq(T) /\ one # <<>> /\ Len(one) \in Nat /\ 0 < Len(one)
    BY <1>1, <1>4, <2>1
  <2> HIDE DEF one
  <2>3. S \in SUBSET Nat /\ IsFiniteSet(S)
    <3>1. S \subseteq 0 .. Len(one) - 1 /\ Len(one) - 1 \in Int
      BY <2>2
    <3> HIDE DEF S
    <3>2. IsFiniteSet(0 .. Len(one) - 1)
      BY <3>1, FS_Interval
    <3>3. IsFiniteSet(S)
      BY <3>1, <3>2, FS_Subset
    <3>4. QED
      BY <3>1, <3>3
  <2>4. 0 \in S
    <3>1. \A k \in DOMAIN files : Starts(Root(files[k], Len(files[k]) - 1), Root(one, 0))
      <4>1. SUFFICES ASSUME NEW k \in DOMAIN files
                     PROVE  Starts(Root(files[k], Len(files[k]) - 1), <<>>)
        BY <1>3, <2>2
      <4> DEFINE x == files[k]
                 n == Len(x) - 1
                 y == Root(x, n)
      <4>2. x \in Seq(T) /\ x # <<>>
        BY <1>1
      <4> HIDE DEF x
      <4>3. n \in 0 .. Len(x)
        BY <1>4, <4>2
      <4> HIDE DEF n
      <4>4. y \in Seq(T) /\ Len(y) \in Nat
        BY <4>2, <4>3, CutTells, LenProperties
      <4> HIDE DEF y
      <4>5. Starts(y, <<>>)
        BY <1>2, <1>3, <4>4 DEF Starts
      <4>6. QED
        BY <4>5 DEF x, n, y
    <3>2. 0 \in 0 .. Len(one) - 1
      BY <2>2
    <3>3. QED
      BY <3>1, <3>2
  <2> DEFINE m == Max(S)
  <2>5. m \in S
    <3> HIDE DEF S
    <3>1. S # {}
      BY <2>4
    <3>2. QED
      BY <2>3, <3>1, Bounds
  <2>6. /\ m \in 0 .. Len(one)
        /\ \A k \in 1 .. Len(files) : Starts(Root(files[k], Len(files[k]) - 1), c)
    <3> HIDE DEF m
    <3>1. m \in 0 .. Len(one) - 1 /\ \A k \in DOMAIN files : Starts(Root(files[k], Len(files[k]) - 1), Root(one, m))
      BY <2>5
    <3>2. c = Root(one, m)
      BY <2>1 DEF m
    <3> HIDE DEF c, S
    <3>3. m \in 0 .. Len(one)
      BY <2>2, <3>1
    <3>4. QED
      BY <1>1, <3>1, <3>2, <3>3
  <2> HIDE DEF m, S, c
  <2>7. c \in Seq(T)
    BY <2>1, <2>2, <2>6, CutTells DEF m
  <2>8. \A k \in 1 .. Len(files) : Starts(files[k], c) /\ Len(c) < Len(files[k])
    BY <1>1, <2>6, <2>7, DirectoryTells
  <2>9. P = c
    BY <1>5 DEF RenderPrefix, c
  <2> QED
    BY <2>7, <2>8, <2>9
<1>6. CASE c = <<>> /\ P = q.cwd /\ \A k \in 1 .. Len(files) : Starts(files[k], q.cwd)
  <2> DEFINE w == q.cwd
  <2>1. \A k \in 1 .. Len(files) : Starts(files[k], w) /\ files[k] \in Seq(T) /\ files[k] # w
    BY <1>1, <1>6
  <2>2. \A k \in 1 .. Len(files) : Len(w) < Len(files[k])
    <3> HIDE DEF w
    <3>1. w \in Seq(T)
      BY DEF w
    <3>2. QED
      BY <2>1, <3>1, StripTells
  <2>3. QED
    BY <1>6, <2>1, <2>2
<1>7. CASE P = <<>>
  <2>1. ASSUME NEW x \in Seq(T), x # <<>> PROVE Starts(x, <<>>) /\ Len(<<>>) < Len(x)
    BY <1>2, <1>3, <1>4, <2>1 DEF Starts
  <2>2. \A k \in 1 .. Len(files) : Starts(files[k], <<>>) /\ Len(<<>>) < Len(files[k])
    BY <1>1, <2>1
  <2>3. RenderPrefix(files) = <<>>
    BY <1>7
  <2>4. QED
    BY <1>2, <2>2, <2>3
<1>8. c = <<>> => P = <<>> \/ (P = q.cwd /\ \A k \in 1 .. Len(files) : Starts(files[k], q.cwd))
  BY <1>1 DEF RenderPrefix
<1> HIDE DEF P, c
<1> QED
  BY <1>5, <1>6, <1>7, <1>8 DEF P

(* Files as a report writes them: named, and none the working directory.   *)
WrittenFiles == {x \in Seq(STRING) : x # <<>> /\ x # q.cwd}

(* What follows a directory in a path is no path from the root.            *)
LEMMA BelowIsRelative ==
    ASSUME NEW x, IsPath(x), NEW dir, IsDirectory(dir), Starts(x, dir), x # dir
    PROVE  /\ Under(x, dir) \in Seq(STRING) /\ Under(x, dir) # <<>>
           /\ ~Absolutely(Under(x, dir)) /\ dir \o Under(x, dir) = x
<1> DEFINE y == Under(x, dir)
           n == Len(dir)
<1>1. x \in Seq(STRING) /\ dir \in Seq(STRING) /\ dir # <<>> /\ \A k \in DOMAIN x : x[k] = "/" => k = 1
  BY DEF IsPath, IsDirectory
<1>2. n \in 0 .. Len(x) /\ y = Below(x, n) /\ y \in Seq(STRING) /\ dir \o y = x /\ n < Len(x)
  BY <1>1, StripTells
<1>3. 0 < n /\ Len(x) \in Nat /\ n \in Nat /\ DOMAIN x = 1 .. Len(x)
  BY <1>1, LenProperties, EmptySeq
<1> HIDE DEF y, n
<1>4. Len(y) = Len(x) - n /\ \A k \in 1 .. Len(x) - n : y[k] = x[n + k]
  <2>1. x \in Seq(STRING) /\ n \in 0 .. Len(x)
    BY <1>1, <1>2
  <2>2. Len(Below(x, n)) = Len(x) - n
    BY <2>1, CutTells
  <2>3. \A k \in 1 .. Len(x) - n : Below(x, n)[k] = x[n + k]
    BY <2>1, CutTells
  <2>4. QED
    BY <1>2, <2>2, <2>3
<1>5. y # <<>>
  BY <1>2, <1>3, <1>4, EmptySeq
<1>6. y[1] # "/"
  <2>1. y[1] = x[n + 1] /\ n + 1 \in DOMAIN x /\ n + 1 # 1
    BY <1>2, <1>3, <1>4
  <2>2. QED
    BY <1>1, <2>1
<1> QED
  BY <1>2, <1>5, <1>6 DEF y, Absolutely

(* workspace_relative: a file keeps a name, and the way back to it.        *)
LEMMA WrittenTells ==
    ASSUME IsInput(in), NEW x, IsFile(x, q)
    PROVE  /\ Written(x) \in WrittenFiles
           /\ Absolutely(x) => Joined(Written(x)) = x
<1>1. /\ IsPath(x) /\ x # q.cwd /\ x # q.workspace /\ x \in Seq(STRING) /\ x # <<>>
      /\ IsDirectory(q.cwd) /\ (q.workspace # None => IsDirectory(q.workspace))
  BY DEF IsInput, IsFile, IsPath, q
<1>2. Absolutely(q.cwd)
  BY <1>1 DEF IsDirectory, IsPath, Absolutely
<1>3. CASE q.workspace # None /\ Starts(x, q.workspace)
  <2>1. Written(x) = Under(x, q.workspace)
    BY <1>3 DEF Written
  <2>2. /\ Written(x) \in Seq(STRING) /\ Written(x) # <<>>
        /\ ~Absolutely(Written(x)) /\ q.workspace \o Written(x) = x
    BY <1>1, <1>3, <2>1, BelowIsRelative
  <2>3. Joined(Written(x)) = x
    BY <1>3, <2>2 DEF Joined
  <2>4. QED
    BY <1>2, <2>2, <2>3 DEF WrittenFiles
<1>4. CASE ~(q.workspace # None /\ Starts(x, q.workspace))
  <2>1. Written(x) = x
    BY <1>4 DEF Written, Under
  <2>2. Absolutely(x) => Joined(x) = x
    BY DEF Joined
  <2>3. QED
    BY <1>1, <2>1, <2>2 DEF WrittenFiles
<1> QED
  BY <1>3, <1>4

(* link_path: a link leads to the file it was made of.                     *)
LEMMA LinkTells ==
    ASSUME IsInput(in), NEW x, IsFile(x, q), Absolutely(x), Link(Written(x)) # None
    PROVE  q.cwd \o Link(Written(x)) = x
<1>1. Joined(Written(x)) = x
  BY WrittenTells
<1>2. Starts(x, q.cwd) /\ Link(Written(x)) = Below(x, Len(q.cwd))
  BY <1>1 DEF Link
<1>3. x \in Seq(STRING) /\ q.cwd \in Seq(STRING)
  BY DEF IsInput, IsFile, IsDirectory, IsPath, q
<1>4. q.cwd \o Under(x, q.cwd) = x /\ Under(x, q.cwd) = Below(x, Len(q.cwd))
  BY <1>2, <1>3, StripTells
<1> QED
  BY <1>2, <1>4

(* collect_paths: of every row where the function is and where it was.     *)
LEMMA FilesAre ==
    ASSUME IsInput(in), NEW s \in Seq({Entry(f) : f \in in.now})
    PROVE  Files(s) \in Seq(WrittenFiles)
<1> DEFINE E == {Entry(f) : f \in in.now}
           K == {k \in DOMAIN s : s[k].status \notin {"none", "new"} /\ s[k].of.previous # None}
           moved == Picked(s, K)
           a == [k \in DOMAIN s |-> Written(s[k].of.file)]
           b == [k \in DOMAIN moved |-> Written(moved[k].of.previous)]
<1>1. \A e \in E : /\ Written(e.of.file) \in WrittenFiles
                   /\ e.of.previous # None => Written(e.of.previous) \in WrittenFiles
  <2>1. SUFFICES ASSUME NEW f \in in.now
                 PROVE  /\ Written(f.file) \in WrittenFiles
                        /\ f.previous # None => Written(f.previous) \in WrittenFiles
    BY DEF Entry
  <2>2. IsFile(f.file, q) /\ (f.previous # None => IsFile(f.previous, q))
    BY DEF IsInput, q
  <2>3. QED
    BY <2>2, WrittenTells
<1>2. DOMAIN s = 1 .. Len(s) /\ Len(s) \in Nat /\ \A k \in 1 .. Len(s) : s[k] \in E
  BY LenProperties, ElementOfSeq
<1>3. a \in Seq(WrittenFiles)
  <2>1. a \in [1 .. Len(s) -> WrittenFiles]
    BY <1>1, <1>2
  <2> HIDE DEF a
  <2>2. QED
    BY <1>2, <2>1, IsASeq
<1>4. moved \in Seq(E) /\ \A k \in DOMAIN moved : moved[k] \in E /\ moved[k].of.previous # None
  <2>1. K \in SUBSET DOMAIN s
    OBVIOUS
  <2>2. moved \in Seq(E) /\ ToSet(moved) = {s[k] : k \in K}
    <3> HIDE DEF K, E
    <3>1. s \in Seq(E)
      BY DEF E
    <3>2. QED
      BY <2>1, <3>1, PickedTells
  <2>3. \A k \in DOMAIN moved : \E j \in K : moved[k] = s[j]
    BY <2>2 DEF ToSet
  <2> HIDE DEF moved
  <2>4. QED
    BY <1>2, <2>2, <2>3
<1>5. b \in Seq(WrittenFiles)
  <2> HIDE DEF moved
  <2>1. DOMAIN moved = 1 .. Len(moved) /\ Len(moved) \in Nat
    BY <1>4, LenProperties
  <2>2. b \in [1 .. Len(moved) -> WrittenFiles]
    BY <1>1, <1>4, <2>1
  <2> HIDE DEF b
  <2>3. QED
    BY <2>1, <2>2, IsASeq
<1>6. Files(s) = a \o b
  BY DEF Files, Where
<1> HIDE DEF a, b
<1> QED
  BY <1>3, <1>5, <1>6, ConcatProperties

(* DeltaBuckets::common_prefix, and the rows of a comment without a        *)
(* baseline: every path is a file's.                                       *)
LEMMA CommentFilesAre ==
    ASSUME IInv, pc = "append"
    PROVE  CommentFiles(rows) \in Seq(WrittenFiles)
<1> DEFINE E == {Entry(f) : f \in in.now}
<1>1. IsInput(in) /\ rows \in Seq(E) /\ Once(rows)
  BY DEF IInv, RowsHold
<1>2. CASE ~q.baseline
  <2> DEFINE K == {k \in DOMAIN rows : Crappy(rows[k].of)}
             s == Picked(rows, K)
  <2>1. s \in Seq(E) /\ Once(s)
    BY <1>1, CrappyCounts
  <2>2. AboveThreshold(rows) = ByCrap(s)
    BY DEF AboveThreshold, Where
  <2> HIDE DEF s, K
  <2>3. \A e \in ToSet(s) : e.of.crap \in Nat
    <3>1. \A f \in in.now : f.crap \in Nat /\ Entry(f).of = f
      BY <1>1 DEF IsInput, Entry
    <3>2. ToSet(s) \subseteq E
      BY <2>1, OnceCounts
    <3>3. QED
      BY <3>1, <3>2
  <2>4. AboveThreshold(rows) \in Seq(E)
    <3> HIDE DEF E
    <3>1. QED
      BY <2>1, <2>2, <2>3, ByCrapTells
  <2>5. Files(AboveThreshold(rows)) \in Seq(WrittenFiles)
    BY <1>1, <2>4, FilesAre
  <2>6. QED
    BY <1>2, <2>5 DEF CommentFiles
<1>3. CASE q.baseline
  <2> DEFINE K == {k \in DOMAIN rows : rows[k].status # "unchanged" \/ Crappy(rows[k].of)}
             s == Picked(rows, K)
             b == [k \in DOMAIN removed |-> Written(removed[k].file)]
  <2>1. s \in Seq(E)
    <3>1. K \in SUBSET DOMAIN rows
      OBVIOUS
    <3> HIDE DEF K, E
    <3>2. QED
      BY <1>1, <3>1, PickedTells
  <2>2. Files(s) \in Seq(WrittenFiles)
    <3> HIDE DEF s
    <3>1. QED
      BY <1>1, <2>1, FilesAre
  <2>3. b \in Seq(WrittenFiles)
    <3>1. removed \in Seq(ToSet(in.gone))
      BY DEF IInv, RemovedHolds
    <3>2. DOMAIN removed = 1 .. Len(removed) /\ Len(removed) \in Nat /\ \A k \in 1 .. Len(removed) : removed[k] \in ToSet(in.gone)
      BY <3>1, LenProperties, ElementOfSeq
    <3>3. \A g \in ToSet(in.gone) : IsFile(g.file, q)
      BY <1>1 DEF IsInput, ToSet, q
    <3>4. \A g \in ToSet(in.gone) : Written(g.file) \in WrittenFiles
      BY <1>1, <3>3, WrittenTells
    <3>5. b \in [1 .. Len(removed) -> WrittenFiles]
      BY <3>2, <3>4
    <3> HIDE DEF b
    <3>6. QED
      BY <3>2, <3>5, IsASeq
  <2>4. CommentFiles(rows) = Files(s) \o b
    BY <1>3 DEF CommentFiles, Where
  <2> HIDE DEF s, b
  <2>5. QED
    BY <2>2, <2>3, <2>4, ConcatProperties
<1> QED
  BY <1>2, <1>3

(* All files are below a directory; and cutting it off leaves each its     *)
(* name, and different files different.                                    *)
AllBelow(F, P) == \A x \in F : Starts(x, P) /\ Len(P) < Len(x)
CutApart(F, P) ==
    /\ \A x, y \in F : Under(x, P) = Under(y, P) => x = y
    /\ \A x \in F : Under(x, P) # <<>> /\ Under(x, P)[Len(Under(x, P))] = x[Len(x)]

(* strip_prefix: the one makes the other.                                  *)
LEMMA StrippedApart ==
    ASSUME NEW T, NEW P \in Seq(T), NEW F \in SUBSET Seq(T), AllBelow(F, P)
    PROVE  CutApart(F, P)
<1>1. \A x \in F : P \o Under(x, P) = x
  BY StripTells DEF AllBelow
<1>2. ASSUME NEW x \in F
      PROVE  Under(x, P) # <<>> /\ Under(x, P)[Len(Under(x, P))] = x[Len(x)]
  <2> DEFINE y == Under(x, P)
             n == Len(P)
             m == Len(x) - n
  <2>1. n \in 0 .. Len(x) /\ n < Len(x) /\ Len(x) \in Nat /\ y = Below(x, n) /\ y \in Seq(T)
    BY StripTells, LenProperties DEF AllBelow
  <2> HIDE DEF y, n
  <2>2. Len(y) = m /\ \A k \in 1 .. m : y[k] = x[n + k]
    BY <2>1, CutTells
  <2>3. m \in 1 .. m /\ n + m = Len(x)
    BY <2>1
  <2> HIDE DEF m
  <2>4. y[m] = x[Len(x)]
    BY <2>2, <2>3
  <2>5. y # <<>>
    <3>1. m # 0
      BY <2>3
    <3>2. QED
      BY <2>1, <2>2, <3>1, EmptySeq
  <2>6. QED
    BY <2>2, <2>4, <2>5 DEF y
<1> QED
  BY <1>1, <1>2 DEF CutApart

(* What is written of places, from the rows and the settings alone.        *)
LEMMA PlacesAsWritten ==
    ASSUME IInv
    PROVE  PlacesTell
<1> SUFFICES ASSUME pc = "append" PROVE PlacesTell
  BY DEF PlacesTell
<1> DEFINE paths == CommentFiles(rows)
           F == ToSet(paths)
           P == RenderPrefix(paths)
<1>1. IsInput(in) /\ q.cwd \in Seq(STRING)
  BY DEF IInv, IsInput, IsDirectory, IsPath, q
<1>2. paths \in Seq(WrittenFiles)
  BY CommentFilesAre
<1> HIDE DEF paths
<1>3. /\ F \in SUBSET Seq(STRING) /\ F = {paths[k] : k \in 1 .. Len(paths)} /\ paths \in Seq(Seq(STRING))
      /\ \A k \in 1 .. Len(paths) : paths[k] # <<>> /\ paths[k] # q.cwd
  <2>1. \A k \in 1 .. Len(paths) : paths[k] \in WrittenFiles
    BY <1>2, ElementOfSeq
  <2>2. F = {paths[k] : k \in 1 .. Len(paths)}
    BY <1>2, OnceCounts
  <2>3. paths \in Seq(Seq(STRING))
    <3>1. Len(paths) \in Nat /\ paths \in [1 .. Len(paths) -> WrittenFiles]
      BY <1>2, LenProperties
    <3>2. paths \in [1 .. Len(paths) -> Seq(STRING)]
      BY <3>1 DEF WrittenFiles
    <3>3. QED
      BY <3>1, <3>2, SeqDef
  <2>4. QED
    BY <2>1, <2>2, <2>3 DEF WrittenFiles
<1>4. P \in Seq(STRING) /\ AllBelow(F, P)
  <2>1. /\ P \in Seq(STRING)
        /\ \A k \in 1 .. Len(paths) : Starts(paths[k], P) /\ Len(P) < Len(paths[k])
    BY <1>1, <1>3, RenderPrefixTells
  <2> HIDE DEF P
  <2>2. QED
    BY <1>3, <2>1 DEF AllBelow
<1>5. \A x : Place(x) = Under(x, P)
  BY DEF Place, paths
<1> HIDE DEF F, P
<1>6. /\ \A x, y \in F : Place(x) = Place(y) => x = y
      /\ \A x \in F : Place(x) # <<>> /\ Place(x)[Len(Place(x))] = x[Len(x)]
  <2>1. CutApart(F, P)
    BY <1>3, <1>4, StrippedApart
  <2>2. QED
    BY <1>5, <2>1 DEF CutApart
<1>7. ASSUME NEW e \in ToSet(rows), Absolutely(e.of.file), Link(Written(e.of.file)) # None
      PROVE  q.cwd \o Link(Written(e.of.file)) = e.of.file
  <2>1. rows \in Seq({Entry(f) : f \in in.now})
    BY DEF IInv, RowsHold
  <2>2. e \in {Entry(f) : f \in in.now}
    BY <2>1, OnceCounts
  <2>3. e.of \in in.now
    BY <2>2 DEF Entry
  <2>4. IsFile(e.of.file, q)
    BY <1>1, <2>3 DEF IsInput, q
  <2>5. QED
    BY <1>1, <1>7, <2>4, LinkTells
<1> QED
  BY <1>6, <1>7 DEF PlacesTell, F, paths

(* The comment's locations name different files differently and down to    *)
(* their own names, and each link leads from the working directory to the  *)
(* file measured, for all files, workspaces and working directories.       *)
THEOREM PlacesAlwaysTell == Spec => []PlacesTell
  BY PlacesAsWritten, Invariance, PTL
-----------------------------------------------------------------------------
(* The table fits *)

(* What a table is laid out from.                                          *)
AreTexts(T) == IsFiniteSet(T) /\ \A r \in T : IsText(r)
IsTier(t) == t \in [bar : Nat, cc : BOOLEAN, uncovered : BOOLEAN]
Budgets == [uncovered : Nat \cup {None}, function : Nat \cup {None}, location : Nat \cup {None}]

(* A column is as wide as its header or as one of its cells, and no cell   *)
(* is wider.                                                               *)
LEMMA ColumnTells ==
    ASSUME NEW T, IsFiniteSet(T), NEW g \in [T -> Nat], NEW header \in Nat
    PROVE  LET c == Column(header, {g[r] : r \in T}) IN
           /\ c \in Nat /\ c >= header /\ \A r \in T : c >= g[r]
           /\ c = header \/ \E r \in T : c = g[r]
<1> DEFINE C == {g[r] : r \in T}
           S == {header} \cup C
<1>1. IsFiniteSet(C)
  <2>1. g \in Surjection(T, C)
    BY DEF Surjection
  <2>2. QED
    BY <2>1, FS_Surjection
<1>2. IsFiniteSet(S) /\ S # {} /\ S \in SUBSET Nat
  <2>1. IsFiniteSet({header})
    BY FS_Singleton
  <2>2. QED
    BY <1>1, <2>1, FS_Union
<1>3. Max(S) \in S /\ \A y \in S : Max(S) >= y
  BY <1>2, Bounds
<1> QED
  BY <1>2, <1>3 DEF Column

(* A location cut to a budget is within it, or is cut as far as it can be. *)
LEMMA LocationTells ==
    ASSUME NEW at, IsLocation(at), NEW b \in Nat \cup {None}
    PROVE  /\ CutLocation(at, b) \in Nat
           /\ b \in Nat => CutLocation(at, b) <= b \/ CutLocation(at, b) = CutLocation(at, 0)
<1> DEFINE w == at.whole
           a == at.arrow
           least == 1 + Min(at.tails)
<1>1. w \in Nat /\ a \in Nat /\ at.tails \in SUBSET Nat /\ IsFiniteSet(at.tails)
  <2>1. w \in Nat /\ a \in Nat /\ at.tails \subseteq 0 .. w
    BY DEF IsLocation
  <2> HIDE DEF w
  <2>2. IsFiniteSet(0 .. w)
    BY <2>1, FS_Interval
  <2>3. QED
    BY <2>1, <2>2, FS_Subset
<1>2. at.tails # {} => least \in Nat
  BY <1>1, Bounds
<1>3. ASSUME NEW m \in Nat
      PROVE  /\ CutPath(at, m) \in Nat
             /\ CutPath(at, m) <= m \/ CutPath(at, m) = IF at.tails = {} THEN w ELSE least
  <2> DEFINE F == {t \in at.tails : t < m}
  <2>1. IsFiniteSet(F) /\ F \in SUBSET Nat
    BY <1>1, FS_Subset
  <2>2. F # {} => Max(F) \in Nat /\ Max(F) < m
    BY <2>1, Bounds
  <2>3. CutPath(at, m) = IF w <= m \/ at.tails = {} THEN w ELSE 1 + IF F # {} THEN Max(F) ELSE Min(at.tails)
    BY DEF CutPath
  <2> HIDE DEF F, w
  <2>4. CASE w <= m \/ at.tails = {}
    BY <1>1, <2>3, <2>4
  <2>5. CASE ~(w <= m) /\ at.tails # {} /\ F # {}
    BY <2>2, <2>3, <2>5
  <2>6. CASE ~(w <= m) /\ at.tails # {} /\ F = {}
    BY <1>2, <2>3, <2>6
  <2>7. QED
    BY <2>4, <2>5, <2>6
<1>4. \A x, y \in Nat : Less(x, y) \in Nat /\ (y <= x => Less(x, y) + y = x) /\ (x <= y => Less(x, y) = 0)
  BY DEF Less
<1> HIDE DEF w, a, least
<1>5. \A c \in Nat : CutLocation(at, c) = IF w + a <= c THEN w + a ELSE CutPath(at, Less(c, a)) + a
  BY NoneAssumption DEF CutLocation, w, a
<1>6. CASE b = None
  BY <1>1, <1>6, NoneAssumption DEF CutLocation, w, a
<1>7. CASE b \in Nat
  <2>1. CutLocation(at, b) \in Nat
    <3>1. Less(b, a) \in Nat
      BY <1>1, <1>4, <1>7
    <3>2. CutPath(at, Less(b, a)) \in Nat
      BY <1>3, <3>1
    <3>3. QED
      BY <1>1, <1>5, <1>7, <3>2
  <2>2. ASSUME ~(w + a <= b), ~(CutLocation(at, b) <= b) PROVE CutLocation(at, b) = CutLocation(at, 0)
    <3>1. /\ CutLocation(at, b) = CutPath(at, Less(b, a)) + a
          /\ CutLocation(at, 0) = CutPath(at, Less(0, a)) + a
      BY <1>1, <1>5, <1>7, <2>2
    <3>2. Less(0, a) = 0
      BY <1>1, <1>4
    <3>3. CASE b <= a
      BY <1>1, <1>4, <1>7, <3>1, <3>2, <3>3
    <3>4. CASE ~(b <= a)
      <4>1. Less(b, a) \in Nat /\ Less(b, a) + a = b
        BY <1>1, <1>4, <1>7, <3>4
      <4>2. CutPath(at, Less(b, a)) = IF at.tails = {} THEN w ELSE least
        BY <1>1, <1>3, <1>7, <2>2, <3>1, <4>1
      <4>3. w > 0
        BY <1>1, <1>7, <2>2, <3>4
      <4>4. {t \in at.tails : t < 0} = {}
        BY <1>1
      <4>5. CutPath(at, 0) = IF at.tails = {} THEN w ELSE least
        BY <1>1, <4>3, <4>4 DEF CutPath, w, least
      <4>6. QED
        BY <3>1, <3>2, <4>2, <4>5
    <3>5. QED
      BY <3>3, <3>4
  <2>3. QED
    BY <1>1, <1>5, <1>7, <2>1, <2>2
<1> QED
  BY <1>6, <1>7

(* The cuts of a table's columns keep to any budget from their floors up.  *)
LEMMA FunctionsTell ==
    ASSUME NEW T, AreTexts(T), NEW b \in Nat \cup {None}
    PROVE  /\ Functions(T, b) \in Nat /\ Functions(T, b) >= 8 /\ Functions(T, 0) = 8
           /\ b \in Nat /\ b >= 8 => Functions(T, b) <= b
<1>1. ASSUME NEW c \in Nat \cup {None}
      PROVE  /\ Functions(T, c) \in Nat /\ Functions(T, c) >= 8
             /\ Functions(T, c) = 8 \/ \E r \in T : Functions(T, c) = CutEnd(r.function, c)
  <2> DEFINE g == [r \in T |-> CutEnd(r.function, c)]
  <2>1. g \in [T -> Nat]
    BY <1>1 DEF AreTexts, IsText, CutEnd
  <2>2. Functions(T, c) = Column(8, {g[r] : r \in T})
    BY DEF Functions
  <2>3. \A r \in T : g[r] = CutEnd(r.function, c)
    OBVIOUS
  <2> HIDE DEF g
  <2>4. IsFiniteSet(T) /\ 8 \in Nat
    BY DEF AreTexts
  <2>5. LET k == Column(8, {g[r] : r \in T}) IN
        /\ k \in Nat /\ k >= 8 /\ \A r \in T : k >= g[r]
        /\ k = 8 \/ \E r \in T : k = g[r]
    BY <2>1, <2>4, ColumnTells
  <2>6. QED
    BY <2>2, <2>3, <2>5
<1>2. \A r \in T : r.function \in Nat
  BY DEF AreTexts, IsText
<1>3. \A r \in T, c \in Nat : CutEnd(r.function, c) <= c
  BY <1>2, NoneAssumption DEF CutEnd
<1>4. Functions(T, 0) = 8
  <2>1. 0 \in Nat
    OBVIOUS
  <2>2. \A r \in T : CutEnd(r.function, 0) <= 0
    BY <1>3, <2>1
  <2>3. QED
    BY <1>1, <2>1, <2>2
<1>5. b \in Nat /\ b >= 8 => Functions(T, b) <= b
  BY <1>1, <1>3
<1> QED
  BY <1>1, <1>4, <1>5

LEMMA UncoveredTells ==
    ASSUME NEW T, AreTexts(T), NEW b \in Nat \cup {None}
    PROVE  /\ Uncovered(T, b) \in Nat /\ Uncovered(T, b) >= 9
           /\ b \in Nat /\ b >= 9 => Uncovered(T, b) <= b
<1> DEFINE g == [r \in T |-> CutEnd(r.uncovered, b)]
<1>1. g \in [T -> Nat]
  BY DEF AreTexts, IsText, CutEnd
<1>2. Uncovered(T, b) = Column(9, {g[r] : r \in T})
  BY DEF Uncovered
<1>3. b \in Nat => \A r \in T : g[r] <= b
  BY NoneAssumption DEF AreTexts, IsText, CutEnd
<1> HIDE DEF g
<1>4. IsFiniteSet(T) /\ 9 \in Nat
  BY DEF AreTexts
<1> QED
  BY <1>1, <1>2, <1>3, <1>4, ColumnTells

LEMMA LocationsTell ==
    ASSUME NEW T, AreTexts(T), NEW b \in Nat \cup {None}
    PROVE  /\ Locations(T, b) \in Nat /\ Locations(T, b) >= 8
           /\ b \in Nat /\ b >= Locations(T, 0) => Locations(T, b) <= b
<1>1. ASSUME NEW c \in Nat \cup {None}
      PROVE  /\ Locations(T, c) \in Nat /\ Locations(T, c) >= 8
             /\ \A r \in T : Locations(T, c) >= CutLocation(r.location, c)
             /\ Locations(T, c) = 8 \/ \E r \in T : Locations(T, c) = CutLocation(r.location, c)
  <2> DEFINE g == [r \in T |-> CutLocation(r.location, c)]
  <2>1. g \in [T -> Nat]
    BY <1>1, LocationTells DEF AreTexts, IsText
  <2>2. Locations(T, c) = Column(8, {g[r] : r \in T})
    BY DEF Locations
  <2>3. \A r \in T : g[r] = CutLocation(r.location, c)
    OBVIOUS
  <2> HIDE DEF g
  <2>4. IsFiniteSet(T) /\ 8 \in Nat
    BY DEF AreTexts
  <2>5. LET k == Column(8, {g[r] : r \in T}) IN
        /\ k \in Nat /\ k >= 8 /\ \A r \in T : k >= g[r]
        /\ k = 8 \/ \E r \in T : k = g[r]
    BY <2>1, <2>4, ColumnTells
  <2>6. QED
    BY <2>2, <2>3, <2>5
<1>2. ASSUME b \in Nat, b >= Locations(T, 0) PROVE Locations(T, b) <= b
  <2>1. \A r \in T : CutLocation(r.location, b) <= b \/ CutLocation(r.location, b) = CutLocation(r.location, 0)
    BY <1>2, LocationTells DEF AreTexts, IsText
  <2>2. /\ Locations(T, 0) \in Nat /\ Locations(T, 0) >= 8
        /\ \A r \in T : Locations(T, 0) >= CutLocation(r.location, 0)
    BY <1>1
  <2>3. \A r \in T : CutLocation(r.location, b) \in Nat /\ CutLocation(r.location, 0) \in Nat
    BY LocationTells DEF AreTexts, IsText
  <2>4. \A r \in T : CutLocation(r.location, b) <= b
    BY <1>2, <2>1, <2>2, <2>3
  <2>5. QED
    BY <1>1, <1>2, <2>2, <2>4
<1> QED
  BY <1>1, <1>2

(* The columns that are never cut have a width.                            *)
LEMMA FixedTells ==
    ASSUME NEW T, AreTexts(T), NEW hints \in BOOLEAN, NEW t, IsTier(t), NEW delta \in Nat \cup {None}
    PROVE  Fixed(T, hints, t, delta) \in Nat
<1>1. \A r \in T : r.crap \in Nat /\ r.cc \in Nat /\ r.known \in BOOLEAN
  BY DEF AreTexts, IsText
<1>2. IsFiniteSet(T) /\ t.bar \in Nat /\ t.cc \in BOOLEAN /\ t.uncovered \in BOOLEAN
  BY DEF AreTexts, IsTier
<1>3. Column(4, {r.crap : r \in T}) \in Nat
  <2> DEFINE g == [r \in T |-> r.crap]
  <2>1. g \in [T -> Nat] /\ {r.crap : r \in T} = {g[r] : r \in T}
    BY <1>1
  <2> HIDE DEF g
  <2>2. QED
    BY <1>2, <2>1, ColumnTells
<1>4. Column(2, {r.cc : r \in T}) \in Nat
  <2> DEFINE g == [r \in T |-> r.cc]
  <2>1. g \in [T -> Nat] /\ {r.cc : r \in T} = {g[r] : r \in T}
    BY <1>1
  <2> HIDE DEF g
  <2>2. QED
    BY <1>2, <2>1, ColumnTells
<1>5. Column(8, {CoverageCell(r.known, t.bar) : r \in T}) \in Nat
  <2> DEFINE g == [r \in T |-> CoverageCell(r.known, t.bar)]
  <2>1. g \in [T -> Nat] /\ {CoverageCell(r.known, t.bar) : r \in T} = {g[r] : r \in T}
    BY <1>1, <1>2 DEF CoverageCell
  <2> HIDE DEF g
  <2>2. QED
    BY <1>2, <2>1, ColumnTells
<1>6. \A shown \in BOOLEAN : One(shown) \in Nat
  BY DEF One
<1>7. One(delta # None) \in Nat /\ One(t.cc) \in Nat /\ One(Shows(hints, t)) \in Nat
  BY <1>2, <1>6 DEF Shows
<1> QED
  BY <1>2, <1>3, <1>4, <1>5, <1>7 DEF Fixed

(* Less and Larger of numbers.                                             *)
LEMMA LessTells ==
    \A a, b \in Nat : /\ Less(a, b) \in Nat
                      /\ b <= a => Less(a, b) + b = a
                      /\ a <= b => Less(a, b) = 0
  BY DEF Less

(* fit_two: what has room for both columns at their floors has room for    *)
(* them as they are cut.                                                   *)
LEMMA FitTwoTells ==
    ASSUME NEW T, AreTexts(T), NEW room \in Nat, 8 + Locations(T, 0) <= room
    PROVE  /\ FitTwo(T, room) \in Budgets /\ FitTwo(T, room).uncovered = None
           /\ Functions(T, FitTwo(T, room).function) + Locations(T, FitTwo(T, room).location) <= room
<1> DEFINE f == Functions(T, None)
           l == Locations(T, None)
           least == Locations(T, 0)
           location == Larger(Less(room, f), least)
           used == Locations(T, location)
           function == Larger(Less(room, used), 8)
<1>1. f \in Nat /\ f >= 8 /\ l \in Nat /\ least \in Nat /\ least >= 8
  BY FunctionsTell, LocationsTell
<1>2. FitTwo(T, room) = IF f + l <= room THEN Whole
                        ELSE [uncovered |-> None, location |-> location,
                              function |-> IF f + used <= room THEN None ELSE function]
  BY DEF FitTwo
<1>3. location \in Nat /\ location >= least /\ used \in Nat /\ used <= location
  <2>1. location \in Nat /\ location >= least
    <3>1. Less(room, f) \in Nat
      BY <1>1, LessTells
    <3>2. location = IF Less(room, f) >= least THEN Less(room, f) ELSE least
      BY <1>1, <3>1, LargerIsOne
    <3>3. QED
      BY <1>1, <3>1, <3>2
  <2> HIDE DEF location
  <2>2. QED
    BY <2>1, LocationsTell
<1>4. location + f = room \/ location = least
  <2>1. location = IF Less(room, f) >= least THEN Less(room, f) ELSE least
    BY <1>1, LessTells, LargerIsOne
  <2>2. f <= room => Less(room, f) + f = room
    BY <1>1, LessTells
  <2>3. ~(f <= room) => Less(room, f) = 0
    BY <1>1, LessTells
  <2>4. Less(room, f) \in Nat
    BY <1>1, LessTells
  <2> HIDE DEF location, f, least
  <2>5. QED
    BY <1>1, <2>1, <2>2, <2>3, <2>4
<1> HIDE DEF f, l, least, location, used
<1>5. CASE f + l <= room
  BY <1>2, <1>5 DEF Whole, Budgets, f, l
<1>6. CASE ~(f + l <= room) /\ f + used <= room
  BY <1>1, <1>2, <1>3, <1>6 DEF Budgets, f, used
<1>7. CASE ~(f + l <= room) /\ ~(f + used <= room)
  <2>1. used <= location /\ location = least
    BY <1>1, <1>3, <1>4, <1>7
  <2>2. Less(room, used) \in Nat /\ Less(room, used) + used = room /\ Less(room, used) >= 8
    <3>1. used + 8 <= room
      BY <1>1, <1>3, <2>1 DEF least
    <3>2. used <= room
      BY <1>3, <3>1
    <3>3. Less(room, used) \in Nat /\ Less(room, used) + used = room
      BY <1>3, <3>2, LessTells
    <3>4. QED
      BY <1>3, <3>1, <3>3
  <2>3. function = Less(room, used)
    BY <2>2, LargerIsOne
  <2>4. Functions(T, function) \in Nat /\ Functions(T, function) <= function
    BY <2>2, <2>3, FunctionsTell
  <2>5. /\ FitTwo(T, room) = [uncovered |-> None, location |-> location, function |-> function]
        /\ function \in Nat /\ function + used = room
    BY <1>2, <1>7, <2>2, <2>3
  <2> HIDE DEF function
  <2>6. QED
    BY <1>3, <2>4, <2>5 DEF Budgets, used
<1> QED
  BY <1>5, <1>6, <1>7

(* fit: and so with Uncovered, which gives way first.                      *)
LEMMA FitTells ==
    ASSUME NEW T, AreTexts(T), NEW shows \in BOOLEAN, NEW room \in Nat,
           (IF shows THEN 9 ELSE 0) + Functions(T, 0) + Locations(T, 0) <= room
    PROVE  /\ Fit(T, shows, room) \in Budgets
           /\ (IF shows THEN Uncovered(T, Fit(T, shows, room).uncovered) ELSE 0)
                + Functions(T, Fit(T, shows, room).function) + Locations(T, Fit(T, shows, room).location)
                  <= room
<1> DEFINE others == Functions(T, None) + Locations(T, None)
           width(b) == IF shows THEN Uncovered(T, b) ELSE 0
           floor == IF shows THEN 9 ELSE 0
           budget == IF shows THEN Larger(Less(room, others), 9) ELSE None
           rest == Less(room, width(budget))
           two == FitTwo(T, rest)
<1>1. /\ Functions(T, None) \in Nat /\ Functions(T, 0) = 8
      /\ Locations(T, None) \in Nat /\ Locations(T, 0) \in Nat
  BY FunctionsTell, LocationsTell
<1>2. Fit(T, shows, room) = IF width(None) + others <= room THEN Whole
                            ELSE [two EXCEPT !.uncovered = budget]
  BY DEF Fit
<1>3. width(None) \in Nat /\ others \in Nat /\ floor \in Nat
  <2>1. Uncovered(T, None) \in Nat
    BY UncoveredTells
  <2>2. QED
    BY <1>1, <2>1
<1>4. CASE width(None) + others <= room
  <2>1. Fit(T, shows, room) = Whole
    BY <1>2, <1>4
  <2>2. QED
    BY <1>1, <1>3, <1>4, <2>1 DEF Whole, Budgets
<1>5. CASE ~(width(None) + others <= room)
  <2>1. /\ budget \in Nat \cup {None} /\ width(budget) \in Nat
        /\ width(budget) = floor \/ width(budget) + others <= room
    <3>1. CASE ~shows
      BY <3>1
    <3>2. CASE shows
      <4>1. /\ Less(room, others) \in Nat
            /\ Less(room, others) + others = room \/ Less(room, others) = 0
        BY <1>3, LessTells
      <4>2. budget = IF Less(room, others) >= 9 THEN Less(room, others) ELSE 9
        BY <3>2, <4>1, LargerIsOne
      <4> HIDE DEF budget, others
      <4>3. budget \in Nat /\ budget >= 9
        BY <4>1, <4>2
      <4>4. /\ Uncovered(T, budget) \in Nat /\ Uncovered(T, budget) >= 9
            /\ Uncovered(T, budget) <= budget
        BY <4>3, UncoveredTells
      <4>5. width(budget) = Uncovered(T, budget) /\ floor = 9
        BY <3>2
      <4> HIDE DEF width, floor
      <4>6. QED
        BY <1>3, <4>1, <4>2, <4>3, <4>4, <4>5
    <3>3. QED
      BY <3>1, <3>2
  <2> HIDE DEF width, budget, floor
  <2>2. floor + 8 + Locations(T, 0) <= room
    BY <1>1 DEF floor
  <2>3. CASE width(budget) = floor
    <3>1. rest \in Nat /\ rest + width(budget) = room /\ 8 + Locations(T, 0) <= rest
      <4>1. width(budget) <= room /\ width(budget) + 8 + Locations(T, 0) <= room
        BY <1>1, <1>3, <2>1, <2>2, <2>3
      <4>2. rest \in Nat /\ rest + width(budget) = room
        BY <2>1, <4>1, LessTells
      <4> HIDE DEF rest
      <4>3. QED
        BY <1>1, <2>1, <4>1, <4>2
    <3> HIDE DEF rest
    <3>2. /\ two \in Budgets
          /\ Functions(T, two.function) + Locations(T, two.location) <= rest
      BY <3>1, FitTwoTells
    <3> HIDE DEF two
    <3>3. QED
      <4>1. /\ Fit(T, shows, room).uncovered = budget
            /\ Fit(T, shows, room).function = two.function
            /\ Fit(T, shows, room).location = two.location
        BY <1>2, <1>5, <3>2 DEF Budgets
      <4>2. Functions(T, two.function) \in Nat /\ Locations(T, two.location) \in Nat
        BY <3>2, FunctionsTell, LocationsTell DEF Budgets
      <4>3. width(budget) = IF shows THEN Uncovered(T, budget) ELSE 0
        BY DEF width
      <4>4. Fit(T, shows, room) \in Budgets
        BY <1>2, <1>5, <2>1, <3>2 DEF Budgets
      <4>5. QED
        BY <2>1, <3>1, <3>2, <4>1, <4>2, <4>3, <4>4
  <2>4. CASE width(budget) + others <= room
    <3>1. rest \in Nat /\ rest + width(budget) = room /\ others <= rest
      <4>1. width(budget) <= room
        BY <1>3, <2>1, <2>4
      <4>2. rest \in Nat /\ rest + width(budget) = room
        BY <2>1, <4>1, LessTells
      <4> HIDE DEF rest, others
      <4>3. QED
        BY <1>3, <2>1, <2>4, <4>2
    <3> HIDE DEF rest
    <3>2. two = Whole
      BY <3>1 DEF FitTwo
    <3>3. /\ Fit(T, shows, room).uncovered = budget
          /\ Fit(T, shows, room).function = None
          /\ Fit(T, shows, room).location = None
      BY <1>2, <1>5, <3>2 DEF Whole
    <3>4. width(budget) = IF shows THEN Uncovered(T, budget) ELSE 0
      BY DEF width
    <3>5. Fit(T, shows, room) \in Budgets
      BY <1>2, <1>5, <2>1, <3>2 DEF Budgets, Whole
    <3>6. QED
      BY <1>1, <2>1, <2>4, <3>3, <3>4, <3>5
  <2>5. QED
    BY <2>1, <2>3, <2>4
<1> QED
  BY <1>4, <1>5

(* A table laid out in columns that can fit, fits.                         *)
LEMMA TierFits ==
    ASSUME NEW T, AreTexts(T), NEW hints \in BOOLEAN, NEW delta \in Nat \cup {None}, NEW width \in Nat,
           NEW l, IsTier(l.tier), CanFit(T, hints, l.tier, delta, width),
           l.budgets = Fit(T, Shows(hints, l.tier), Room(T, hints, l.tier, delta, width))
    PROVE  Width(T, hints, delta, l) <= width
<1> DEFINE shows == Shows(hints, l.tier)
           room == Room(T, hints, l.tier, delta, width)
           fixed == Fixed(T, hints, l.tier, delta)
           U == IF shows THEN Uncovered(T, l.budgets.uncovered) ELSE 0
           F == Functions(T, l.budgets.function)
           L == Locations(T, l.budgets.location)
<1>1. shows \in BOOLEAN
  BY DEF Shows, IsTier
<1>2. fixed \in Nat
  BY FixedTells
<1>3. /\ room \in Nat
      /\ fixed <= width => room + fixed = width
      /\ room # 0 => fixed <= width
  <2>1. room = Less(width, fixed)
    BY DEF Room
  <2> HIDE DEF fixed, room
  <2>2. room \in Nat /\ (fixed <= width => room + fixed = width) /\ (width <= fixed => room = 0)
    BY <1>2, <2>1, LessTells
  <2>3. QED
    BY <1>2, <2>2
<1>4. (IF shows THEN 9 ELSE 0) + Functions(T, 0) + Locations(T, 0) <= room
  BY DEF CanFit
<1>5. Functions(T, 0) = 8 /\ Locations(T, 0) \in Nat
  BY FunctionsTell, LocationsTell
<1> HIDE DEF shows, room, fixed
<1>6. l.budgets \in Budgets /\ U + F + L <= room
  <2>1. l.budgets = Fit(T, shows, room)
    BY DEF shows, room
  <2>2. /\ Fit(T, shows, room) \in Budgets
        /\ (IF shows THEN Uncovered(T, Fit(T, shows, room).uncovered) ELSE 0)
             + Functions(T, Fit(T, shows, room).function) + Locations(T, Fit(T, shows, room).location)
                <= room
    BY <1>1, <1>3, <1>4, FitTells
  <2>3. QED
    BY <2>1, <2>2
<1>7. U \in Nat /\ F \in Nat /\ L \in Nat
  BY <1>6, FunctionsTell, LocationsTell, UncoveredTells DEF Budgets
<1>8. Width(T, hints, delta, l) = fixed + U + F + L
  BY DEF Width, fixed, shows
<1>9. room # 0
  BY <1>1, <1>4, <1>5
<1> HIDE DEF U, F, L
<1>10. room + fixed = width
  BY <1>3, <1>9
<1>11. fixed + U + F + L <= room + fixed
  BY <1>2, <1>3, <1>6, <1>7
<1> QED
  BY <1>8, <1>10, <1>11

(* The columns a width allows, and what is left when some of them go.      *)
LEMMA StepsTell ==
    ASSUME NEW width \in Nat \cup {None}
    PROVE  /\ \A k \in 1 .. 4 : IsTier(Steps(width)[k])
           /\ Steps(width)[1] = TierOf(width) /\ Steps(width)[4] = Narrowest
           /\ IsTier(TierOf(width))
<1>1. IsTier(TierOf(width)) /\ IsTier(Narrowest)
  BY DEF TierOf, Tier, IsTier, Narrowest
<1>2. /\ Steps(width)[1] = TierOf(width) /\ Steps(width)[4] = Narrowest
      /\ Steps(width)[2] = [TierOf(width) EXCEPT !.bar = 0]
      /\ Steps(width)[3] = [TierOf(width) EXCEPT !.bar = 0, !.uncovered = FALSE]
  BY DEF Steps
<1>3. IsTier(Steps(width)[2]) /\ IsTier(Steps(width)[3])
  <2>1. ASSUME NEW t, IsTier(t) PROVE IsTier([t EXCEPT !.bar = 0]) /\ IsTier([t EXCEPT !.bar = 0, !.uncovered = FALSE])
    BY <2>1 DEF IsTier
  <2>2. /\ IsTier([TierOf(width) EXCEPT !.bar = 0])
        /\ IsTier([TierOf(width) EXCEPT !.bar = 0, !.uncovered = FALSE])
    BY <1>1, <2>1
  <2>3. QED
    BY <1>2, <2>2
<1>4. \A k \in 1 .. 4 : k = 1 \/ k = 2 \/ k = 3 \/ k = 4
  OBVIOUS
<1> QED
  BY <1>1, <1>2, <1>3, <1>4

(* layout's promise for one form of the rows.                              *)
LEMMA LayoutTells ==
    ASSUME NEW T, AreTexts(T), NEW hints \in BOOLEAN, NEW delta \in Nat \cup {None}, NEW width \in Nat
    PROVE  LET p == Layout(T, hints, width, delta)
               full == [tier |-> TierOf(width), budgets |-> Whole]
           IN /\ p.fits \in BOOLEAN
              /\ p.fits => Width(T, hints, delta, p) <= width
              /\ CanFit(T, hints, Narrowest, delta, width) => p.fits
              /\ Width(T, hints, delta, full) <= width /\ Locations(T, 0) <= Locations(T, None) =>
                   p.fits /\ p.tier = TierOf(width) /\ p.budgets = Whole
<1> DEFINE p == Layout(T, hints, width, delta)
           full == [tier |-> TierOf(width), budgets |-> Whole]
           K == {k \in 1 .. 4 : CanFit(T, hints, Steps(width)[k], delta, width)}
           chosen == IF K = {} THEN Narrowest ELSE Steps(width)[Min(K)]
           room(t) == Room(T, hints, t, delta, width)
<1>1. /\ p.tier = chosen /\ p.fits = (K # {})
      /\ p.budgets = Fit(T, Shows(hints, chosen), room(chosen))
  BY NoneAssumption DEF Layout
<1>2. K \subseteq 1 .. 4 /\ (K # {} => Min(K) \in K /\ \A k \in K : Min(K) <= k)
  <2>1. IsFiniteSet(K) /\ K \in SUBSET Nat
    BY UpTo, FS_Subset
  <2> HIDE DEF K
  <2>2. K # {} => Min(K) \in K /\ \A k \in K : Min(K) <= k
    BY <2>1, Bounds
  <2>3. QED
    BY <2>2 DEF K
<1>3. width # None
  BY NoneAssumption
<1>4. ASSUME p.fits PROVE Width(T, hints, delta, p) <= width
  <2>1. Min(K) \in K /\ chosen = Steps(width)[Min(K)]
    BY <1>1, <1>2, <1>4
  <2>2. IsTier(chosen) /\ CanFit(T, hints, chosen, delta, width)
    BY <2>1, StepsTell
  <2> HIDE DEF p, chosen, K
  <2>3. QED
    BY <1>1, <2>2, TierFits
<1>5. ASSUME CanFit(T, hints, Narrowest, delta, width) PROVE p.fits
  <2>1. 4 \in K
    BY <1>5, StepsTell
  <2>2. QED
    BY <1>1, <2>1
<1>6. ASSUME Width(T, hints, delta, full) <= width, Locations(T, 0) <= Locations(T, None)
      PROVE  p.fits /\ p.tier = TierOf(width) /\ p.budgets = Whole
  <2> DEFINE t == TierOf(width)
             fixed == Fixed(T, hints, t, delta)
             U == IF Shows(hints, t) THEN Uncovered(T, None) ELSE 0
             F == Functions(T, None)
             L == Locations(T, None)
             least == Locations(T, 0)
  <2>1. IsTier(t) /\ t = Steps(width)[1]
    BY StepsTell
  <2>2. Shows(hints, t) \in BOOLEAN
    BY <2>1 DEF Shows, IsTier
  <2>3. /\ F \in Nat /\ F >= 8 /\ Functions(T, 0) = 8
        /\ L \in Nat /\ least \in Nat /\ least <= L
    BY <1>6, FunctionsTell, LocationsTell
  <2>4. U \in Nat /\ U >= IF Shows(hints, t) THEN 9 ELSE 0
    <3>1. Uncovered(T, None) \in Nat /\ Uncovered(T, None) >= 9
      BY UncoveredTells
    <3>2. QED
      BY <2>2, <3>1
  <2>5. fixed + U + F + L <= width
    BY <1>6 DEF Width, Whole
  <2>6. fixed \in Nat
    BY <2>1, FixedTells
  <2>7. room(t) \in Nat /\ room(t) = Less(width, fixed)
    BY <2>6, LessTells DEF Room
  <2> HIDE DEF t, fixed, U, F, L, least, room
  <2>8. U + F + L <= room(t)
    <3>1. fixed <= width
      BY <2>3, <2>4, <2>5, <2>6
    <3>2. room(t) + fixed = width
      BY <2>6, <2>7, <3>1, LessTells
    <3>3. QED
      BY <2>3, <2>4, <2>5, <2>6, <2>7, <3>2
  <2>9. CanFit(T, hints, t, delta, width)
    <3>1. (IF Shows(hints, t) THEN 9 ELSE 0) + 8 + least <= room(t)
      BY <2>2, <2>3, <2>4, <2>7, <2>8
    <3>2. QED
      BY <2>3, <3>1 DEF CanFit, room, least
  <2>10. 1 \in K
    BY <2>1, <2>9
  <2>11. Min(K) = 1
    <3>1. K # {} /\ Min(K) \in 1 .. 4 /\ Min(K) <= 1
      BY <1>2, <2>10
    <3> HIDE DEF K
    <3>2. QED
      BY <3>1
  <2>12. chosen = t
    BY <2>1, <2>10, <2>11
  <2>13. Fit(T, Shows(hints, t), room(t)) = Whole
    <3>1. U + (F + L) <= room(t)
      BY <2>3, <2>4, <2>7, <2>8
    <3>2. QED
      BY <3>1 DEF Fit, U, F, L
  <2>14. QED
    BY <1>1, <2>10, <2>12, <2>13 DEF t
<1>7. p.fits \in BOOLEAN
  BY <1>1
<1> QED
  BY <1>4, <1>5, <1>6, <1>7

(* A row's Location keeps its form whatever follows its arrow.             *)
LEMMA TailedTells ==
    ASSUME NEW T, AreTexts(T), NEW form
    PROVE  AreTexts(Tailed(T, form))
<1> DEFINE cut(r) == [r EXCEPT !.location.arrow =
                        IF r.previous = None \/ form = "dropped" THEN 0
                        ELSE 3 + IF form = "whole" THEN r.previous.whole ELSE r.previous.name]
           g == [r \in T |-> cut(r)]
<1>1. Tailed(T, form) = {cut(r) : r \in T}
  BY DEF Tailed
<1>2. IsFiniteSet({cut(r) : r \in T})
  <2>1. g \in Surjection(T, {cut(r) : r \in T})
    BY DEF Surjection
  <2>2. IsFiniteSet(T)
    BY DEF AreTexts
  <2>3. QED
    BY <2>1, <2>2, FS_Surjection
<1>3. ASSUME NEW r \in T PROVE IsText(cut(r))
  <2> DEFINE n == IF r.previous = None \/ form = "dropped" THEN 0
                  ELSE 3 + IF form = "whole" THEN r.previous.whole ELSE r.previous.name
  <2>1. IsText(r)
    BY DEF AreTexts
  <2>2. n \in Nat
    BY <2>1 DEF IsText
  <2>3. cut(r) = [r EXCEPT !.location.arrow = n]
    OBVIOUS
  <2> HIDE DEF n, cut
  <2>4. QED
    BY <2>1, <2>2, <2>3 DEF IsText, IsLocation
<1> QED
  BY <1>1, <1>2, <1>3 DEF AreTexts

(* fit_delta_rows keeps that promise for the form it chooses.              *)
LEMMA DrawnTells ==
    ASSUME NEW T, AreTexts(T), NEW hints \in BOOLEAN, NEW delta \in Nat \cup {None},
           NEW width \in Nat \cup {None}
    PROVE  FitsIfItCan(T, hints, width, delta)
<1> SUFFICES ASSUME width \in Nat PROVE FitsIfItCan(T, hints, width, delta)
  BY DEF FitsIfItCan
<1> DEFINE its(form) == Tailed(T, form)
           plan(form) == Layout(its(form), hints, width, delta)
           as(form) == [rows |-> its(form), plan |-> plan(form)]
           d == Drawn(T, hints, width, delta)
           full == [tier |-> TierOf(width), budgets |-> Whole]
           ample == its("whole")
<1>1. ASSUME NEW form
      PROVE  /\ plan(form).fits => Width(its(form), hints, delta, plan(form)) <= width
             /\ CanFit(its(form), hints, Narrowest, delta, width) => plan(form).fits
             /\ Width(its(form), hints, delta, full) <= width
                  /\ Locations(its(form), 0) <= Locations(its(form), None) =>
                    /\ plan(form).fits /\ plan(form).tier = TierOf(width)
                    /\ plan(form).budgets = Whole
  <2>1. AreTexts(its(form))
    BY TailedTells
  <2>2. QED
    BY <2>1, LayoutTells
<1>2. /\ d = as("whole") \/ d = as("name") \/ d = as("dropped")
      /\ d = as("whole") => d = as("dropped") \/ plan("whole").fits
      /\ d = as("name") => d = as("dropped") \/ d = as("whole") \/ plan("name").fits
      /\ ~(width < 80) /\ plan("whole").fits /\ plan("whole").tier = TierOf(width)
           /\ plan("whole").budgets.location = None => d = as("whole")
  BY DEF Drawn
<1> HIDE DEF d, full, ample, its, plan
<1>3. ASSUME CanFit(its("dropped"), hints, Narrowest, delta, width)
      PROVE  Width(d.rows, hints, delta, d.plan) <= width
  <2>1. plan("dropped").fits
    BY <1>1, <1>3
  <2>2. CASE d = as("dropped")
    BY <1>1, <2>1, <2>2
  <2>3. CASE d = as("whole") /\ d # as("dropped")
    BY <1>1, <1>2, <2>3
  <2>4. CASE d = as("name") /\ d # as("dropped") /\ d # as("whole")
    BY <1>1, <1>2, <2>4
  <2>5. QED
    BY <1>2, <2>2, <2>3, <2>4
<1>4. ASSUME Width(ample, hints, delta, full) <= width, width >= 80,
             Locations(ample, 0) <= Locations(ample, None)
      PROVE  d.rows = ample /\ d.plan.budgets = Whole /\ d.plan.tier = TierOf(width)
  <2>1. plan("whole").fits /\ plan("whole").tier = TierOf(width) /\ plan("whole").budgets = Whole
    BY <1>1, <1>4 DEF ample
  <2>2. ~(width < 80)
    BY <1>4
  <2>3. d = as("whole")
    BY <1>2, <2>1, <2>2 DEF Whole
  <2>4. QED
    BY <2>1, <2>3 DEF ample
<1> QED
  BY <1>3, <1>4 DEF FitsIfItCan, d, full, ample, its

(* cap_rows leaves only rows there were.                                   *)
LEMMA CappedAreRows ==
    ASSUME NEW E, NEW s \in Seq(E), NEW pinned
    PROVE  ToSet(CapRows(s, pinned).rows) \subseteq E
<1> DEFINE best == ToSet(First(Ranked(ToSet(s) \ pinned, LAMBDA a, b : Higher(a.of, b.of)), HotSpots))
           K == {k \in DOMAIN s : s[k] \in pinned \cup best}
<1>1. CapRows(s, pinned).rows = Picked(s, K)
  BY DEF CapRows, Where
<1>2. K \in SUBSET DOMAIN s
  OBVIOUS
<1> HIDE DEF K
<1>3. ToSet(Picked(s, K)) = {s[k] : k \in K}
  BY <1>2, PickedTells
<1>4. \A k \in K : s[k] \in E
  BY <1>2, LenProperties, ElementOfSeq
<1> QED
  BY <1>1, <1>3, <1>4

(* So what the human table is laid out from are texts of functions there   *)
(* are.                                                                    *)
LEMMA TableIsOfTexts ==
    ASSUME IInv, pc = "write", q.format = "human", ~Summarised
    PROVE  AreTexts({e.of.text : e \in ToSet(Rendered.sections["table"].rows)})
<1> DEFINE E == {Entry(f) : f \in in.now}
           X == ToSet(Rendered.sections["table"].rows)
           texts == {f.text : f \in in.now}
<1>1. rows \in Seq(E)
  BY DEF IInv, RowsHold
<1>2. X \subseteq E
  <2>1. Visible(rows) \in Seq(E)
    BY RowsVisible
  <2>2. ToSet(Nothing.sections["table"].rows) = {}
    BY DEF Nothing, Page, Names, Blank, ToSet
  <2>3. Rendered = IF q.baseline THEN IF Empty(counts) THEN Nothing ELSE DeltaHuman(rows) ELSE Human(rows)
    BY DEF Rendered, Compared, Absolute
  <2>4. \E pinned : DeltaHuman(rows).sections["table"] = CapRows(Visible(rows), pinned)
    BY DEF DeltaHuman, Page, Names
  <2>5. rows # <<>> => \E pinned : Human(rows).sections["table"] = CapRows(rows, pinned)
    BY DEF Human, Page, Names
  <2>6. rows = <<>> => Human(rows) = Nothing
    BY DEF Human
  <2> HIDE DEF E
  <2>7. ToSet(DeltaHuman(rows).sections["table"].rows) \subseteq E
    BY <2>1, <2>4, CappedAreRows
  <2>8. ToSet(Human(rows).sections["table"].rows) \subseteq E
    BY <1>1, <2>2, <2>5, <2>6, CappedAreRows
  <2>9. QED
    BY <2>2, <2>3, <2>7, <2>8
<1>3. {e.of.text : e \in X} \subseteq texts
  <2>1. \A e \in E : e.of \in in.now
    BY DEF Entry
  <2> HIDE DEF E, X
  <2>2. QED
    BY <1>2, <2>1
<1>4. IsFiniteSet(in.now) /\ \A f \in in.now : IsText(f.text)
  BY DEF IInv, IsInput
<1>5. IsFiniteSet(texts)
  <2> DEFINE g == [f \in in.now |-> f.text]
  <2>1. g \in Surjection(in.now, texts)
    BY DEF Surjection
  <2>2. QED
    BY <1>4, <2>1, FS_Surjection
<1>6. IsFiniteSet({e.of.text : e \in X})
  BY <1>3, <1>5, FS_Subset
<1> HIDE DEF X
<1> QED
  BY <1>3, <1>4, <1>6 DEF AreTexts, X

(* The human table is no wider than the terminal whenever its columns can  *)
(* be cut so far, and nothing of it is cut or dropped when it fits as it   *)
(* is, for every width, delta column, hint and text.                       *)
THEOREM TableAlwaysFits == Spec => []TableFits
<1>1. Init => TableFits
  BY DEF Init, TableFits
<1>2. IInv /\ TableFits /\ [Next]_vars => TableFits'
  <2> SUFFICES ASSUME IInv, TableFits, [Next]_vars PROVE TableFits'
    OBVIOUS
  <2>1. CASE Write
    <3> DEFINE T == {e.of.text : e \in ToSet(Rendered.sections["table"].rows)}
               delta == IF q.baseline THEN q.delta ELSE None
    <3>1. pc = "write" /\ page' = Rendered /\ q' = q
      BY <2>1 DEF Write, q
    <3>2. Summarised' <=> Summarised
      BY <3>1 DEF Summarised
    <3>3. ASSUME q.format = "human", ~Summarised PROVE FitsIfItCan(T, q.hints, q.width, delta)
      <4>1. AreTexts(T)
        BY <3>1, <3>3, TableIsOfTexts
      <4>2. q.hints \in BOOLEAN /\ q.width \in Nat \cup {None} /\ delta \in Nat \cup {None}
        BY DEF IInv, IsInput, q
      <4> HIDE DEF T, delta
      <4>3. QED
        BY <4>1, <4>2, DrawnTells
    <3>4. QED
      BY <3>1, <3>2, <3>3 DEF TableFits
  <2>2. CASE Compare \/ Narrow \/ Bail \/ Duplicates
    BY <2>2 DEF TableFits, Compare, Narrow, Bail, Duplicates
  <2>3. CASE UNCHANGED vars
    <3>1. pc' = pc /\ page' = page /\ q' = q
      BY <2>3 DEF vars, q
    <3>2. Summarised' <=> Summarised
      BY <3>1 DEF Summarised
    <3>3. QED
      BY <3>1, <3>2 DEF TableFits
  <2>4. QED
    BY <2>1, <2>2, <2>3 DEF Next
<1> QED
  BY <1>1, <1>2, Invariance, PTL DEF Spec
=============================================================================
