--------------------------- MODULE Syntax_proofs ----------------------------
EXTENDS Syntax, FiniteSetTheorems, SequenceTheorems, WellFoundedInduction, TLAPS

(* Numbers *)

(* What holds of 0 and of the next number holds of every number.           *)
LEMMA FromZero ==
    ASSUME NEW G, 0 \in G, \A n \in Nat : n \in G => n + 1 \in G
    PROVE  Nat \subseteq G
<1> DEFINE Less == OpToRel(<, Nat)
           Left == Nat \ G
<1>1. IsWellFoundedOn(Less, Nat)
  BY NatLessThanWellFounded
<1>2. \A m, n \in Nat : <<m, n>> \in Less <=> m < n
  BY DEF OpToRel
<1> HIDE DEF Less
<1>3. SUFFICES ASSUME Left # {}
               PROVE  FALSE
  OBVIOUS
<1>4. PICK u \in Left : \A v \in Left : <<v, u>> \notin Less
  <2>1. Left \subseteq Nat
    OBVIOUS
  <2>2. QED
    BY <1>1, <1>3, <2>1, WFMin
<1>5. u \in Nat /\ u # 0
  OBVIOUS
<1>6. u - 1 \in Nat /\ u - 1 < u /\ (u - 1) + 1 = u
  BY <1>5
<1>7. u - 1 \in G
  BY <1>2, <1>4, <1>5, <1>6
<1>8. QED
  BY <1>4, <1>6, <1>7

(* What holds of a number as soon as it holds of all the larger ones.      *)
LEMMA FromTheTop ==
    ASSUME NEW low \in Nat, NEW top \in Nat, NEW G,
           \A k \in low .. top : (\A j \in k + 1 .. top : j \in G) => k \in G
    PROVE  \A k \in low .. top : k \in G
<1> DEFINE H == {n \in Nat : \A k \in low .. top : top - k < n => k \in G}
<1>1. 0 \in H
  OBVIOUS
<1>2. ASSUME NEW n \in Nat, n \in H
      PROVE  n + 1 \in H
  <2>1. SUFFICES ASSUME NEW k \in low .. top, top - k < n + 1
                 PROVE  k \in G
    OBVIOUS
  <2>2. ASSUME NEW j \in k + 1 .. top
        PROVE  j \in G
    <3>1. j \in low .. top /\ top - j < n
      BY <2>1
    <3> QED
      BY <1>2, <3>1
  <2> QED
    BY <2>2
<1> HIDE DEF H
<1>3. Nat \subseteq H
  BY <1>1, <1>2, FromZero
<1>4. SUFFICES ASSUME NEW k \in low .. top
               PROVE  k \in G
  OBVIOUS
<1>5. top - k + 1 \in Nat /\ top - k < top - k + 1
  OBVIOUS
<1>6. top - k + 1 \in H
  BY <1>3, <1>5
<1> QED
  BY <1>5, <1>6 DEF H

-----------------------------------------------------------------------------
(* Orders *)

(* A strict total order of a set, as a set of pairs. *)
InOrder(R, S) ==
    /\ \A x \in S : <<x, x>> \notin R
    /\ \A x, y \in S : x # y => <<x, y>> \in R \/ <<y, x>> \in R
    /\ \A x, y, z \in S : <<x, y>> \in R /\ <<y, z>> \in R => <<x, z>> \in R

(* What is further on has more before it. *)
LEMMA MoreBefore ==
    ASSUME NEW S, IsFiniteSet(S), NEW R, InOrder(R, S), NEW x \in S, NEW y \in S, <<x, y>> \in R
    PROVE  Cardinality(Ahead(R, S, x)) < Cardinality(Ahead(R, S, y))
<1>1. IsFiniteSet(Ahead(R, S, y)) /\ Ahead(R, S, x) \subseteq Ahead(R, S, y)
  BY FS_Subset DEF InOrder, Ahead
<1>2. x \in Ahead(R, S, y) /\ x \notin Ahead(R, S, x)
  BY DEF InOrder, Ahead
<1> QED
  BY <1>1, <1>2, FS_Subset, FS_CardinalityType

(* In an order of a finite set some element comes first, one second, and   *)
(* so on for each: an element that has exactly so many before it.          *)
LEMMA Ranks ==
    ASSUME NEW S, IsFiniteSet(S), NEW R, InOrder(R, S)
    PROVE  \A k \in 1 .. Cardinality(S) : \E x \in S : Cardinality(Ahead(R, S, x)) = k - 1
<1> DEFINE n == Cardinality(S)
           rank == [x \in S |-> Cardinality(Ahead(R, S, x))]
<1>1. n \in Nat
  BY FS_CardinalityType
<1>2. \A x \in S : rank[x] \in 0 .. n - 1
  <2>1. SUFFICES ASSUME NEW x \in S PROVE rank[x] \in 0 .. n - 1
    OBVIOUS
  <2>2. Ahead(R, S, x) \subseteq S /\ x \notin Ahead(R, S, x)
    BY DEF InOrder, Ahead
  <2>3. IsFiniteSet(Ahead(R, S, x)) /\ Cardinality(Ahead(R, S, x)) < n
    BY <2>2, FS_Subset, FS_CardinalityType
  <2>4. QED
    BY <1>1, <2>3, FS_CardinalityType
<1>3. \A x, y \in S : rank[x] = rank[y] => x = y
  <2>1. SUFFICES ASSUME NEW x \in S, NEW y \in S, x # y PROVE rank[x] # rank[y]
    OBVIOUS
  <2>2. rank[x] \in Nat /\ rank[y] \in Nat
    BY <1>1, <1>2
  <2>3. CASE <<x, y>> \in R
    BY <2>2, <2>3, MoreBefore
  <2>4. CASE <<y, x>> \in R
    BY <2>2, <2>4, MoreBefore
  <2>5. QED
    BY <2>1, <2>3, <2>4 DEF InOrder
<1>4. IsFiniteSet(0 .. n - 1) /\ Cardinality(0 .. n - 1) = n
  <2> HIDE DEF n, rank
  <2>1. n - 1 \in Int /\ (0 > n - 1 <=> n = 0)
    BY <1>1
  <2>2. QED
    BY <1>1, <2>1, FS_Interval
<1>5. rank \in Injection(S, 0 .. n - 1)
  BY <1>2, <1>3 DEF Injection, IsInjective
<1>6. rank \in Surjection(S, 0 .. n - 1)
  BY <1>4, <1>5, FS_Injection
<1>7. QED
  <2>1. SUFFICES ASSUME NEW k \in 1 .. n PROVE \E x \in S : rank[x] = k - 1
    OBVIOUS
  <2>2. k - 1 \in 0 .. n - 1
    BY <1>1
  <2>3. QED
    BY <1>6, <2>2 DEF Surjection

(* What a sorted list of a set is. *)
IsListing(s, S, R) ==
    /\ s \in Seq(S) /\ Len(s) = Cardinality(S) /\ Cardinality(S) \in Nat
    /\ \A x \in S : \E k \in 1 .. Len(s) : s[k] = x
    /\ \A i, j \in 1 .. Len(s) : s[i] = s[j] => i = j
    /\ \A i, j \in 1 .. Len(s) : i < j => <<s[i], s[j]>> \in R

(* Listing a finite set by an order has each element once, and what comes  *)
(* first in the order first: what a sort of src/ returns.                  *)
LEMMA ListedInOrder ==
    ASSUME NEW S, IsFiniteSet(S), NEW R, InOrder(R, S)
    PROVE  IsListing(Listed(S, R), S, R)
<1> DEFINE n == Cardinality(S)
           s == Listed(S, R)
           rank(x) == Cardinality(Ahead(R, S, x))
<1>1. n \in Nat
  BY FS_CardinalityType
<1>2. DOMAIN s = 1 .. n /\ \A k \in 1 .. n : s[k] \in S /\ rank(s[k]) = k - 1
  <2>1. \A k \in 1 .. n : \E x \in S : rank(x) = k - 1
    BY Ranks
  <2>2. DOMAIN s = 1 .. n /\ \A k \in 1 .. n : s[k] = CHOOSE x \in S : rank(x) = k - 1
    BY DEF Listed
  <2>3. QED
    BY <2>1, <2>2
<1>3. s \in [1 .. n -> S]
  <2>1. s = [k \in 1 .. n |-> s[k]]
    BY DEF Listed
  <2>2. QED
    BY <1>2, <2>1
<1> HIDE DEF s
<1>4. s \in Seq(S) /\ Len(s) = n
  BY <1>1, <1>3, IsASeq, LenProperties
<1>5. \A i, j \in 1 .. n : s[i] = s[j] => i = j
  BY <1>1, <1>2
<1>6. ASSUME NEW i \in 1 .. n, NEW j \in 1 .. n, i < j
      PROVE  <<s[i], s[j]>> \in R
  <2>1. s[i] # s[j]
    BY <1>1, <1>5, <1>6
  <2>2. CASE <<s[j], s[i]>> \in R
    <3>1. rank(s[j]) < rank(s[i])
      BY <1>2, <2>2, MoreBefore
    <3>2. QED
      BY <1>1, <1>2, <1>6, <3>1
  <2>3. QED
    BY <1>2, <2>1, <2>2 DEF InOrder
<1>7. ASSUME NEW x \in S
      PROVE  \E k \in 1 .. n : s[k] = x
  <2>1. s \in Injection(1 .. n, S)
    BY <1>3, <1>5 DEF Injection, IsInjective
  <2>2. IsFiniteSet(1 .. n) /\ Cardinality(1 .. n) = n
    BY <1>1, FS_Interval
  <2>3. s \in Surjection(1 .. n, S)
    BY <2>1, <2>2, FS_Injection
  <2>4. QED
    BY <2>3 DEF Surjection
<1>8. IsListing(s, S, R)
  BY <1>1, <1>4, <1>5, <1>6, <1>7 DEF IsListing
<1> QED
  BY <1>8 DEF s

-----------------------------------------------------------------------------
(* Pairs *)

Scores == [same : Nat, of : Nat \ {0}]

(* A larger share of a larger share is the larger one.                     *)
LEMMA Products ==
    ASSUME NEW a \in Nat, NEW b \in Nat, NEW c \in Nat
    PROVE  /\ a * b = b * a /\ a * b \in Nat /\ (a * b) * c = a * (b * c)
           /\ a >= b => a * c >= b * c
           /\ a > b /\ c > 0 => a * c > b * c
<1>1. a * b = b * a /\ a * b \in Nat /\ (a * b) * c = a * (b * c)
  OBVIOUS
<1>2. ASSUME a >= b PROVE a * c >= b * c
  <2>1. (a - b) \in Nat /\ a = b + (a - b)
    BY <1>2
  <2>2. (a - b) * c \in Nat
    BY <2>1
  <2>3. a * c = b * c + (a - b) * c
    OBVIOUS
  <2> QED
    BY <2>2, <2>3
<1>3. ASSUME a > b, c > 0 PROVE a * c > b * c
  <2>1. (a - b) \in Nat /\ (a - b) >= 1
    BY <1>3
  <2>2. (a - b) * c >= 1
    BY <1>3, <2>1
  <2>3. a * c = b * c + (a - b) * c
    OBVIOUS
  <2> QED
    BY <2>2, <2>3
<1> QED
  BY <1>1, <1>2, <1>3

LEMMA Shares ==
    ASSUME NEW r \in Scores, NEW s \in Scores, NEW t \in Scores
    PROVE  /\ ~Over(s, s) /\ (AtLeast(s, t) <=> ~Over(t, s))
           /\ AtLeast(r, s) /\ AtLeast(s, t) => AtLeast(r, t)
<1>1. /\ r.same \in Nat /\ s.same \in Nat /\ t.same \in Nat
      /\ r.of \in Nat \ {0} /\ s.of \in Nat \ {0} /\ t.of \in Nat \ {0}
  BY DEF Scores
<1>2. ~Over(s, s) /\ (AtLeast(s, t) <=> ~Over(t, s))
  <2>1. s.same * t.of \in Nat /\ t.same * s.of \in Nat /\ s.same * s.of \in Nat
    BY <1>1
  <2> QED
    BY <2>1 DEF Over, AtLeast
<1>3. ASSUME AtLeast(r, s), AtLeast(s, t), ~AtLeast(r, t)
      PROVE  FALSE
  <2> DEFINE a == r.same
             b == s.same
             c == t.same
             x == r.of
             y == s.of
             z == t.of
  <2>1. a \in Nat /\ b \in Nat /\ c \in Nat /\ x \in Nat \ {0} /\ y \in Nat \ {0} /\ z \in Nat \ {0}
    BY <1>1
  <2>2. a * y >= b * x /\ b * z >= c * y /\ ~(a * z >= c * x)
    BY <1>3 DEF AtLeast
  <2> HIDE DEF a, b, c, x, y, z
  <2>3. a * y \in Nat /\ b * x \in Nat /\ b * z \in Nat /\ c * y \in Nat /\ a * z \in Nat /\ c * x \in Nat
    BY <2>1
  <2>4. (a * y) * z >= (b * x) * z
    BY <2>1, <2>2, <2>3, Products
  <2>5. (b * z) * x >= (c * y) * x
    BY <2>1, <2>2, <2>3, Products
  <2>6. (c * x) * y > (a * z) * y
    <3>1. c * x > a * z
      BY <2>2, <2>3
    <3> QED
      BY <2>1, <2>3, <3>1, Products
  <2>7. (a * y) * z = (a * z) * y /\ (b * x) * z = (b * z) * x /\ (c * y) * x = (c * x) * y
    BY <2>1
  <2>8. /\ (a * z) * y \in Nat /\ (b * z) * x \in Nat /\ (c * x) * y \in Nat
    BY <2>1
  <2> QED
    BY <2>4, <2>5, <2>6, <2>7, <2>8
<1> QED
  BY <1>2, <1>3

(* What the duplicate pass keeps of a function. *)
Words == STRING \cup {"item", "block", "lit", "path", "pattuple", "other", "function", "verbatim", ""}
ShapeNodes == [kind : Words, label : Words, under : Nat]
Records == {f \in [file : Nat, at : Nat, name : STRING, nodes : Nat, prints : SUBSET Seq(ShapeNodes)] :
              IsFiniteSet(f.prints) /\ f.prints # {}}

LEMMA JaccardIsLikeness ==
    ASSUME NEW a \in Records, NEW b \in Records
    PROVE  Jaccard(a, b) = Likeness(a, b) /\ Likeness(a, b) \in Scores
<1> DEFINE A == a.prints
           B == b.prints
<1>1. IsFiniteSet(A) /\ IsFiniteSet(B) /\ A # {}
  BY DEF Records
<1> HIDE DEF A, B
<1>2. /\ IsFiniteSet(A \cup B) /\ IsFiniteSet(A \cap B)
      /\ Cardinality(A \cup B) = Cardinality(A) + Cardinality(B) - Cardinality(A \cap B)
      /\ Cardinality(A \cap B) <= Cardinality(A)
  BY <1>1, FS_Union, FS_Subset
<1>3. Cardinality(A \cup B) \in Nat /\ Cardinality(A \cap B) \in Nat
  BY <1>2, FS_CardinalityType
<1>4. Cardinality(A \cup B) # 0
  BY <1>1, <1>2, FS_EmptySet
<1>5. /\ Jaccard(a, b) = [same |-> Cardinality(A \cap B), of |-> Cardinality(A \cup B)]
      /\ Likeness(a, b) = [same |-> Cardinality(A \cap B), of |-> Cardinality(A \cup B)]
  BY <1>2, <1>4 DEF Jaccard, Likeness, A, B
<1> QED
  BY <1>3, <1>4, <1>5 DEF Scores

(* No two functions are at one place, and in place order the first comes   *)
(* first.                                                                  *)
Apart(fns) ==
    \A i, j \in DOMAIN fns : i # j => Precedes(fns[i], fns[j]) \/ Precedes(fns[j], fns[i])
InPlace(fns) == \A i, j \in DOMAIN fns : i < j => Precedes(fns[i], fns[j])

LEMMA PlacesAreOrdered ==
    ASSUME NEW f \in Records, NEW g \in Records, NEW h \in Records
    PROVE  /\ ~Precedes(f, f) /\ ~(Precedes(f, g) /\ Precedes(g, f))
           /\ Precedes(f, g) /\ Precedes(g, h) => Precedes(f, h)
  BY DEF Precedes, Records

(* retain and sort: the functions that are large enough, in place order.   *)
LEMMA RetainedTells ==
    ASSUME NEW fns \in Seq(Records), Apart(fns), input.minNodes \in Nat
    PROVE  /\ Retained(fns) \in Seq(Records) /\ InPlace(Retained(fns))
           /\ ToSet(Retained(fns)) = {f \in ToSet(fns) : f.nodes >= input.minNodes}
<1> DEFINE kept == {i \in DOMAIN fns : fns[i].nodes >= input.minNodes}
           R == {p \in kept \X kept : \/ Precedes(fns[p[1]], fns[p[2]])
                                      \/ ~Precedes(fns[p[2]], fns[p[1]]) /\ p[1] < p[2]}
           order == Listed(kept, R)
           r == [n \in DOMAIN order |-> fns[order[n]]]
<1>1. Retained(fns) = r
  BY DEF Retained, Ranked, Precedence
<1>2. /\ DOMAIN fns = 1 .. Len(fns) /\ Len(fns) \in Nat
      /\ \A i \in 1 .. Len(fns) : fns[i] \in Records
  BY LenProperties, ElementOfSeq
<1>3. kept \subseteq 1 .. Len(fns) /\ IsFiniteSet(kept)
  <2>1. kept \subseteq 1 .. Len(fns) /\ IsFiniteSet(1 .. Len(fns))
    BY <1>2, FS_Interval
  <2> HIDE DEF kept
  <2> QED
    BY <2>1, FS_Subset
<1>4. \A i, j \in kept : <<i, j>> \in R <=> Precedes(fns[i], fns[j])
  <2>1. SUFFICES ASSUME NEW i \in kept, NEW j \in kept
                 PROVE  <<i, j>> \in R <=> Precedes(fns[i], fns[j])
    OBVIOUS
  <2>2. <<i, j>> \in R <=> \/ Precedes(fns[i], fns[j])
                           \/ ~Precedes(fns[j], fns[i]) /\ i < j
    OBVIOUS
  <2>3. fns[i] \in Records /\ fns[j] \in Records /\ i \in Nat /\ j \in Nat
    BY <1>2
  <2> HIDE DEF R, kept
  <2>4. i # j => Precedes(fns[i], fns[j]) \/ Precedes(fns[j], fns[i])
    BY <1>2, <1>3 DEF Apart
  <2> QED
    BY <2>2, <2>3, <2>4, PlacesAreOrdered
<1> HIDE DEF R
<1>5. InOrder(R, kept)
  <2>1. \A i \in kept : fns[i] \in Records /\ i \in DOMAIN fns
    BY <1>2, <1>3
  <2>2. \A i \in kept : <<i, i>> \notin R
    BY <1>4, <2>1, PlacesAreOrdered
  <2>3. \A i, j \in kept : i # j => <<i, j>> \in R \/ <<j, i>> \in R
    BY <1>4, <2>1 DEF Apart
  <2>4. \A i, j, k \in kept : <<i, j>> \in R /\ <<j, k>> \in R => <<i, k>> \in R
    <3> HIDE DEF kept
    <3>1. SUFFICES ASSUME NEW i \in kept, NEW j \in kept, NEW k \in kept, <<i, j>> \in R, <<j, k>> \in R
                   PROVE  <<i, k>> \in R
      OBVIOUS
    <3>2. Precedes(fns[i], fns[j]) /\ Precedes(fns[j], fns[k])
      BY <1>4, <3>1
    <3>3. Precedes(fns[i], fns[k])
      BY <2>1, <3>2, PlacesAreOrdered
    <3> QED
      BY <1>4, <3>3
  <2> QED
    BY <2>2, <2>3, <2>4 DEF InOrder
<1>6. IsListing(order, kept, R)
  BY <1>3, <1>5, ListedInOrder
<1> HIDE DEF order
<1>7. /\ DOMAIN order = 1 .. Len(order) /\ Len(order) \in Nat
      /\ \A n \in 1 .. Len(order) : order[n] \in kept /\ order[n] \in DOMAIN fns
  <2>1. \A k \in kept : k \in DOMAIN fns
    OBVIOUS
  <2> HIDE DEF kept
  <2>2. order \in Seq(kept)
    BY <1>6 DEF IsListing
  <2>3. DOMAIN order = 1 .. Len(order) /\ Len(order) \in Nat
    BY <2>2, LenProperties
  <2>4. \A n \in 1 .. Len(order) : order[n] \in kept
    BY <2>2, ElementOfSeq
  <2> QED
    BY <2>1, <2>3, <2>4
<1>8. r \in [1 .. Len(order) -> Records]
  BY <1>2, <1>7
<1>9. r \in Seq(Records) /\ DOMAIN r = 1 .. Len(order)
  BY <1>7, <1>8, IsASeq
<1>10. InPlace(r)
  BY <1>4, <1>6, <1>7, <1>9 DEF InPlace, IsListing
<1>11. ToSet(r) = {f \in ToSet(fns) : f.nodes >= input.minNodes}
  <2>1. \A n \in 1 .. Len(order) : r[n] = fns[order[n]] /\ order[n] \in DOMAIN fns /\ r[n].nodes >= input.minNodes
    BY <1>7
  <2>2. \A i \in DOMAIN fns : fns[i].nodes >= input.minNodes => \E n \in 1 .. Len(order) : r[n] = fns[i]
    BY <1>6, <1>7 DEF IsListing
  <2> HIDE DEF r
  <2>3. ToSet(fns) = {fns[i] : i \in DOMAIN fns} /\ ToSet(r) = {r[n] : n \in 1 .. Len(order)}
    BY <1>9 DEF ToSet
  <2>4. \A f \in ToSet(r) : f \in ToSet(fns) /\ f.nodes >= input.minNodes
    BY <2>1, <2>3
  <2>5. \A f \in ToSet(fns) : f.nodes >= input.minNodes => f \in ToSet(r)
    BY <2>2, <2>3
  <2> QED
    BY <2>4, <2>5
<1> QED
  BY <1>1, <1>9, <1>10, <1>11

(* In functions in place order, a pair is two of them with their likeness. *)
IsFoundPair(fns, p, pair) ==
    pair = [first |-> Location(fns[p[1]]), second |-> Location(fns[p[2]]),
            score |-> Likeness(fns[p[1]], fns[p[2]])]

LEMMA PairsTell ==
    ASSUME NEW fns \in Seq(Records), InPlace(fns)
    PROVE  /\ Twos(fns) \subseteq Nat \X Nat /\ IsFiniteSet(Twos(fns))
           /\ \A p \in Twos(fns) :
                /\ p[1] \in 1 .. Len(fns) /\ p[2] \in 1 .. Len(fns) /\ p[1] < p[2]
                /\ fns[p[1]] \in Records /\ fns[p[2]] \in Records
                /\ IsFoundPair(fns, p, PairAt(fns, p))
                /\ PairAt(fns, p).score \in Scores
<1>1. /\ DOMAIN fns = 1 .. Len(fns) /\ Len(fns) \in Nat
      /\ \A i \in 1 .. Len(fns) : fns[i] \in Records
  BY LenProperties, ElementOfSeq
<1>2. Twos(fns) \subseteq Nat \X Nat
  BY <1>1 DEF Twos
<1>3. IsFiniteSet(Twos(fns))
  <2>1. IsFiniteSet(1 .. Len(fns))
    BY <1>1, FS_Interval
  <2>2. IsFiniteSet((1 .. Len(fns)) \X (1 .. Len(fns)))
    BY <2>1, FS_Product
  <2>3. Twos(fns) \subseteq (1 .. Len(fns)) \X (1 .. Len(fns))
    BY DEF Twos
  <2> QED
    BY <2>2, <2>3, FS_Subset
<1>4. ASSUME NEW p \in Twos(fns)
      PROVE  /\ p[1] \in 1 .. Len(fns) /\ p[2] \in 1 .. Len(fns) /\ p[1] < p[2]
             /\ fns[p[1]] \in Records /\ fns[p[2]] \in Records
             /\ IsFoundPair(fns, p, PairAt(fns, p))
             /\ PairAt(fns, p).score \in Scores
  <2>1. p[1] \in 1 .. Len(fns) /\ p[2] \in 1 .. Len(fns) /\ p[1] < p[2]
    BY DEF Twos
  <2> DEFINE a == fns[p[1]]
             b == fns[p[2]]
  <2>2. a \in Records /\ b \in Records /\ Precedes(a, b)
    BY <1>1, <2>1 DEF InPlace
  <2> HIDE DEF a, b
  <2>3. ~Precedes(b, a) /\ Jaccard(a, b) = Likeness(a, b) /\ Likeness(a, b) \in Scores
    BY <2>2, PlacesAreOrdered, JaccardIsLikeness
  <2>4. Pair(a, b) = [first |-> Location(a), second |-> Location(b), score |-> Likeness(a, b)]
    BY <2>3 DEF Pair
  <2>5. PairAt(fns, p) = Pair(a, b)
    BY DEF PairAt, a, b
  <2> QED
    BY <2>1, <2>2, <2>3, <2>4, <2>5 DEF IsFoundPair, a, b
<1> QED
  BY <1>2, <1>3, <1>4

(* The order of the report: how alike, then where. *)
Sooner(fns, p, q) ==
    \/ Over(PairAt(fns, p).score, PairAt(fns, q).score)
    \/ ~Over(PairAt(fns, q).score, PairAt(fns, p).score) /\ FoundFirst(p, q)

LEMMA StrongestIsSooner ==
    ASSUME NEW fns \in Seq(Records), InPlace(fns), NEW p \in Twos(fns), NEW q \in Twos(fns)
    PROVE  StrongestFirst(PairAt(fns, p), PairAt(fns, q)) <=> Sooner(fns, p, q)
<1>1. /\ DOMAIN fns = 1 .. Len(fns) /\ Len(fns) \in Nat
      /\ \A i \in 1 .. Len(fns) : fns[i] \in Records
  BY LenProperties, ElementOfSeq
<1>2. \A i, j \in 1 .. Len(fns) :
        /\ Precedes(Location(fns[i]), Location(fns[j])) <=> i < j
        /\ Location(fns[i]) = Location(fns[j]) <=> i = j
  <2>1. SUFFICES ASSUME NEW i \in 1 .. Len(fns), NEW j \in 1 .. Len(fns)
                 PROVE  /\ Precedes(Location(fns[i]), Location(fns[j])) <=> i < j
                        /\ Location(fns[i]) = Location(fns[j]) <=> i = j
    OBVIOUS
  <2> DEFINE f == fns[i]
             g == fns[j]
  <2>2. f \in Records /\ g \in Records
    BY <1>1
  <2>3. (i < j => Precedes(f, g)) /\ (j < i => Precedes(g, f)) /\ (i = j => f = g)
    BY <1>1 DEF InPlace
  <2> HIDE DEF f, g
  <2>4. Precedes(Location(f), Location(g)) <=> Precedes(f, g)
    BY DEF Location, Precedes
  <2>5. Location(f) = Location(g) <=> f.file = g.file /\ f.at = g.at
    BY DEF Location
  <2>6. /\ Precedes(f, g) => ~Precedes(g, f) /\ ~(f.file = g.file /\ f.at = g.at)
        /\ Precedes(g, f) => ~Precedes(f, g) /\ ~(f.file = g.file /\ f.at = g.at)
    <3>1. f.file \in Nat /\ f.at \in Nat /\ g.file \in Nat /\ g.at \in Nat
      BY <2>2 DEF Records
    <3> QED
      BY <3>1 DEF Precedes
  <2>7. ~Precedes(f, f)
    BY <2>2, PlacesAreOrdered
  <2>8. CASE i < j
    BY <1>1, <2>3, <2>4, <2>5, <2>6, <2>8 DEF f, g
  <2>9. CASE j < i
    <3>1. Precedes(g, f) /\ ~(i < j) /\ i # j
      BY <1>1, <2>3, <2>9
    <3>2. ~Precedes(f, g) /\ ~(f.file = g.file /\ f.at = g.at)
      BY <2>6, <3>1
    <3> QED
      BY <2>4, <2>5, <3>1, <3>2 DEF f, g
  <2>10. CASE i = j
    <3>1. f = g /\ ~(i < j)
      BY <2>3, <2>10
    <3> QED
      BY <2>4, <2>7, <2>10, <3>1 DEF f, g
  <2> QED
    BY <1>1, <2>8, <2>9, <2>10
<1> DEFINE a == PairAt(fns, p)
           b == PairAt(fns, q)
<1>3. /\ a.first = Location(fns[p[1]]) /\ a.second = Location(fns[p[2]])
      /\ b.first = Location(fns[q[1]]) /\ b.second = Location(fns[q[2]])
      /\ p[1] \in 1 .. Len(fns) /\ p[2] \in 1 .. Len(fns)
      /\ q[1] \in 1 .. Len(fns) /\ q[2] \in 1 .. Len(fns)
  BY PairsTell DEF IsFoundPair
<1> HIDE DEF a, b
<1>4. (Precedes(a.first, b.first) \/ (a.first = b.first /\ Precedes(a.second, b.second)))
        <=> FoundFirst(p, q)
  BY <1>2, <1>3 DEF FoundFirst
<1>5. StrongestFirst(a, b) <=> Over(a.score, b.score) \/ (~Over(b.score, a.score) /\ FoundFirst(p, q))
  BY <1>4 DEF StrongestFirst
<1> QED
  BY <1>5 DEF a, b, Sooner

LEMMA SoonerIsAnOrder ==
    ASSUME NEW fns \in Seq(Records), InPlace(fns), NEW P \in SUBSET Twos(fns)
    PROVE  InOrder({x \in P \X P : Sooner(fns, x[1], x[2])}, P)
<1> DEFINE R == {x \in P \X P : Sooner(fns, x[1], x[2])}
           score(p) == PairAt(fns, p).score
<1>1. \A p \in P : score(p) \in Scores /\ p \in Nat \X Nat
  BY PairsTell
<1>2. \A p, q \in P : <<p, q>> \in R <=> Sooner(fns, p, q)
  OBVIOUS
<1>3. \A p, q \in P : Sooner(fns, p, q) <=> Over(score(p), score(q))
                                              \/ (~Over(score(q), score(p)) /\ FoundFirst(p, q))
  BY DEF Sooner
<1> HIDE DEF R, score
<1>4. \A p, q \in P : ~Over(score(p), score(p)) /\ (AtLeast(score(p), score(q)) <=> ~Over(score(q), score(p)))
  BY <1>1, Shares
<1>5. \A p, q, r \in P : AtLeast(score(p), score(q)) /\ AtLeast(score(q), score(r)) => AtLeast(score(p), score(r))
  BY <1>1, Shares
<1>6. \A p, q \in P : Over(score(p), score(q)) => ~Over(score(q), score(p))
  <2>1. SUFFICES ASSUME NEW p \in P, NEW q \in P, Over(score(p), score(q)), Over(score(q), score(p))
                 PROVE  FALSE
    OBVIOUS
  <2>2. /\ score(p).same \in Nat /\ score(q).same \in Nat /\ score(p).of \in Nat /\ score(q).of \in Nat
    BY <1>1 DEF Scores
  <2>3. score(p).same * score(q).of \in Nat /\ score(q).same * score(p).of \in Nat
    BY <2>2
  <2> QED
    BY <2>1, <2>3 DEF Over
<1>7. /\ \A p \in P : ~FoundFirst(p, p)
      /\ \A p, q \in P : p # q => FoundFirst(p, q) \/ FoundFirst(q, p)
      /\ \A p, q, r \in P : FoundFirst(p, q) /\ FoundFirst(q, r) => FoundFirst(p, r)
  <2>1. \A p, q \in Nat \X Nat : p # q => p[1] # q[1] \/ p[2] # q[2]
    OBVIOUS
  <2>2. \A p \in P : p \in Nat \X Nat /\ p[1] \in Nat /\ p[2] \in Nat
    BY <1>1
  <2> QED
    BY <2>1, <2>2 DEF FoundFirst
<1>8. \A p \in P : <<p, p>> \notin R
  BY <1>2, <1>3, <1>4, <1>7
<1>9. \A p, q \in P : p # q => <<p, q>> \in R \/ <<q, p>> \in R
  BY <1>2, <1>3, <1>7
<1>10. ASSUME NEW p \in P, NEW q \in P, NEW r \in P, <<p, q>> \in R, <<q, r>> \in R
       PROVE  <<p, r>> \in R
  <2>1. AtLeast(score(p), score(q)) /\ AtLeast(score(q), score(r))
    BY <1>2, <1>3, <1>4, <1>6, <1>10
  <2>2. AtLeast(score(p), score(r)) /\ ~Over(score(r), score(p))
    BY <1>4, <1>5, <2>1
  <2>3. CASE Over(score(p), score(r))
    BY <1>2, <1>3, <2>3
  <2>4. CASE ~Over(score(p), score(r))
    <3>1. AtLeast(score(r), score(p))
      BY <1>4, <2>4
    <3>2. AtLeast(score(r), score(q)) /\ AtLeast(score(q), score(p))
      BY <1>5, <2>1, <3>1
    <3>3. ~Over(score(q), score(r)) /\ ~Over(score(p), score(q))
      BY <1>4, <3>2
    <3>4. FoundFirst(p, q) /\ FoundFirst(q, r)
      BY <1>2, <1>3, <1>10, <3>3
    <3> QED
      BY <1>2, <1>3, <1>7, <2>2, <3>4
  <2> QED
    BY <2>3, <2>4
<1>11. InOrder(R, P)
  BY <1>8, <1>9, <1>10 DEF InOrder
<1> QED
  BY <1>11 DEF R

(* Which two of some functions are alike, and what the report says.        *)
AlikeOf(S, threshold) ==
    {p \in S \X S : Precedes(p[1], p[2]) /\ AtLeast(Likeness(p[1], p[2]), threshold)}
PairOf(p) == [first |-> Location(p[1]), second |-> Location(p[2]), score |-> Likeness(p[1], p[2])]
Strongest(out) == \A i, j \in DOMAIN out : i < j => StrongestFirst(out[i], out[j])

LEMMA FoundAreAlike ==
    ASSUME NEW fns \in Seq(Records), InPlace(fns), NEW threshold
    PROVE  /\ FindPairs(fns, threshold) \in SUBSET Twos(fns)
           /\ \A p \in FindPairs(fns, threshold) :
                /\ <<fns[p[1]], fns[p[2]]>> \in AlikeOf(ToSet(fns), threshold)
                /\ PairAt(fns, p) = PairOf(<<fns[p[1]], fns[p[2]]>>)
           /\ \A x \in AlikeOf(ToSet(fns), threshold) :
                \E p \in FindPairs(fns, threshold) : x = <<fns[p[1]], fns[p[2]]>>
           /\ \A p, q \in FindPairs(fns, threshold) :
                fns[p[1]] = fns[q[1]] /\ fns[p[2]] = fns[q[2]] => p = q
<1> DEFINE P == FindPairs(fns, threshold)
           A == AlikeOf(ToSet(fns), threshold)
<1>1. /\ DOMAIN fns = 1 .. Len(fns) /\ Len(fns) \in Nat
      /\ \A i \in 1 .. Len(fns) : fns[i] \in Records
      /\ \A i, j \in 1 .. Len(fns) : i < j => Precedes(fns[i], fns[j])
  BY LenProperties, ElementOfSeq DEF InPlace
<1>2. P \in SUBSET Twos(fns) /\ \A p \in Twos(fns) : p \in P <=> AtLeast(PairAt(fns, p).score, threshold)
  BY DEF FindPairs
<1> HIDE DEF P
<1>3. ToSet(fns) = {fns[i] : i \in 1 .. Len(fns)}
  BY <1>1 DEF ToSet
<1>4. \A p \in Twos(fns) : PairAt(fns, p) = PairOf(<<fns[p[1]], fns[p[2]]>>)
  BY PairsTell DEF IsFoundPair, PairOf
<1>5. \A p \in Twos(fns) : PairAt(fns, p).score = Likeness(fns[p[1]], fns[p[2]])
  BY PairsTell DEF IsFoundPair
<1>6. \A x : x \in A <=> /\ x \in ToSet(fns) \X ToSet(fns) /\ Precedes(x[1], x[2])
                         /\ AtLeast(Likeness(x[1], x[2]), threshold)
  BY DEF AlikeOf
<1> HIDE DEF A
<1>7. ASSUME NEW p \in P
      PROVE  <<fns[p[1]], fns[p[2]]>> \in A
  <2>1. p \in Twos(fns) /\ p[1] \in 1 .. Len(fns) /\ p[2] \in 1 .. Len(fns) /\ p[1] < p[2]
    BY <1>2, PairsTell
  <2> DEFINE x == <<fns[p[1]], fns[p[2]]>>
  <2>2. x \in ToSet(fns) \X ToSet(fns) /\ x[1] = fns[p[1]] /\ x[2] = fns[p[2]]
    BY <1>3, <2>1
  <2> HIDE DEF x
  <2>3. Precedes(x[1], x[2]) /\ AtLeast(Likeness(x[1], x[2]), threshold)
    BY <1>1, <1>2, <1>5, <2>1, <2>2
  <2>4. x \in A
    BY <1>6, <2>2, <2>3
  <2> QED
    BY <2>4 DEF x
<1>8. ASSUME NEW x \in A
      PROVE  \E p \in P : x = <<fns[p[1]], fns[p[2]]>>
  <2>1. PICK i \in 1 .. Len(fns), j \in 1 .. Len(fns) : x = <<fns[i], fns[j]>>
    BY <1>3, <1>6
  <2>2. x[1] = fns[i] /\ x[2] = fns[j]
    BY <2>1
  <2>3. Precedes(fns[i], fns[j]) /\ AtLeast(Likeness(fns[i], fns[j]), threshold)
    BY <1>6, <2>2
  <2>4. i < j
    <3>1. fns[i] \in Records /\ fns[j] \in Records
      BY <1>1
    <3>2. ~Precedes(fns[j], fns[i]) /\ ~Precedes(fns[i], fns[i])
      BY <2>3, <3>1, PlacesAreOrdered
    <3>3. ~(j < i) /\ i # j
      BY <1>1, <2>3, <3>2
    <3> QED
      BY <3>3
  <2> DEFINE p == <<i, j>>
  <2>5. p \in Twos(fns) /\ p[1] = i /\ p[2] = j
    BY <2>4 DEF Twos
  <2> HIDE DEF p
  <2>6. p \in P
    BY <1>2, <1>5, <2>3, <2>5
  <2> QED
    BY <2>1, <2>5, <2>6
<1>9. ASSUME NEW p \in P, NEW q \in P, fns[p[1]] = fns[q[1]], fns[p[2]] = fns[q[2]]
      PROVE  p = q
  <2>1. \A i, j \in 1 .. Len(fns) : fns[i] = fns[j] => i = j
    <3>1. \A i \in 1 .. Len(fns) : ~Precedes(fns[i], fns[i])
      BY <1>1, PlacesAreOrdered
    <3>2. \A i, j \in 1 .. Len(fns) : i < j => fns[i] # fns[j]
      BY <1>1, <3>1
    <3> QED
      BY <1>1, <3>2
  <2>2. /\ p \in Nat \X Nat /\ q \in Nat \X Nat
        /\ p[1] \in 1 .. Len(fns) /\ p[2] \in 1 .. Len(fns)
        /\ q[1] \in 1 .. Len(fns) /\ q[2] \in 1 .. Len(fns)
    BY <1>2, PairsTell
  <2>3. p[1] = q[1] /\ p[2] = q[2]
    BY <1>9, <2>1, <2>2
  <2> QED
    BY <2>2, <2>3
<1>10. \A p \in P : PairAt(fns, p) = PairOf(<<fns[p[1]], fns[p[2]]>>)
  BY <1>2, <1>4
<1> QED
  BY <1>2, <1>7, <1>8, <1>9, <1>10 DEF P, A

(* find_pairs and sort_pairs: each two that are alike once, the strongest  *)
(* first.                                                                  *)
LEMMA SortedPairsTell ==
    ASSUME NEW fns \in Seq(Records), InPlace(fns), NEW threshold
    PROVE  LET out == SortPairs(fns, FindPairs(fns, threshold))
               alike == AlikeOf(ToSet(fns), threshold)
           IN /\ Len(out) = Cardinality(alike)
              /\ ToSet(out) = {PairOf(p) : p \in alike}
              /\ Strongest(out)
<1> DEFINE P == FindPairs(fns, threshold)
           A == AlikeOf(ToSet(fns), threshold)
           two(p) == <<fns[p[1]], fns[p[2]]>>
           R == {x \in P \X P : Sooner(fns, x[1], x[2])}
           order == Listed(P, R)
           out == [n \in DOMAIN order |-> PairAt(fns, order[n])]
           before(p, q) == \/ StrongestFirst(PairAt(fns, p), PairAt(fns, q))
                           \/ /\ ~StrongestFirst(PairAt(fns, q), PairAt(fns, p))
                              /\ FoundFirst(p, q)
<1>1. /\ P \in SUBSET Twos(fns)
      /\ \A p \in P : two(p) \in A /\ PairAt(fns, p) = PairOf(two(p))
      /\ \A x \in A : \E p \in P : x = two(p)
      /\ \A p, q \in P : two(p) = two(q) => p = q
  <2>1. \A p, q \in P : two(p) = two(q) => fns[p[1]] = fns[q[1]] /\ fns[p[2]] = fns[q[2]]
    OBVIOUS
  <2> QED
    BY <2>1, FoundAreAlike
<1>2. IsFiniteSet(P)
  BY <1>1, PairsTell, FS_Subset
<1> HIDE DEF P, A, two
<1>3. SortPairs(fns, P) = out
  <2>1. {x \in P \X P : before(x[1], x[2])} = R
    <3>1. ASSUME NEW p \in P, NEW q \in P
          PROVE  before(p, q) <=> Sooner(fns, p, q)
      <4>1. p \in Twos(fns) /\ q \in Twos(fns)
        BY <1>1
      <4>2. StrongestFirst(PairAt(fns, p), PairAt(fns, q)) <=> Sooner(fns, p, q)
        BY <4>1, StrongestIsSooner
      <4>3. StrongestFirst(PairAt(fns, q), PairAt(fns, p)) <=> Sooner(fns, q, p)
        BY <4>1, StrongestIsSooner
      <4>4. ~Sooner(fns, q, p) /\ FoundFirst(p, q) => Sooner(fns, p, q)
        BY DEF Sooner
      <4> QED
        BY <4>2, <4>3, <4>4
    <3>2. \A x \in P \X P : x[1] \in P /\ x[2] \in P
      OBVIOUS
    <3> QED
      BY <3>1, <3>2
  <2>2. SortPairs(fns, P) = LET o == Listed(P, {x \in P \X P : before(x[1], x[2])})
                            IN [n \in DOMAIN o |-> PairAt(fns, o[n])]
    BY DEF SortPairs, Ranked, Precedence
  <2> QED
    BY <2>1, <2>2
<1>4. IsListing(order, P, R)
  BY <1>1, <1>2, SoonerIsAnOrder, ListedInOrder
<1>5. \A p, q \in P : <<p, q>> \in R <=> Sooner(fns, p, q)
  OBVIOUS
<1> HIDE DEF R, order
<1>6. /\ order \in Seq(P) /\ Len(order) = Cardinality(P)
      /\ DOMAIN order = 1 .. Len(order) /\ Len(order) \in Nat
      /\ \A n \in 1 .. Len(order) : order[n] \in P
  BY <1>4, LenProperties, ElementOfSeq DEF IsListing
<1>7. /\ DOMAIN out = 1 .. Len(order) /\ out \in Seq({PairAt(fns, p) : p \in P})
      /\ Len(out) = Len(order)
      /\ \A n \in 1 .. Len(order) : out[n] = PairAt(fns, order[n])
  <2>1. out \in [1 .. Len(order) -> {PairAt(fns, p) : p \in P}]
    BY <1>6
  <2>2. \A n \in 1 .. Len(order) : out[n] = PairAt(fns, order[n])
    BY <1>6
  <2> HIDE DEF out
  <2> QED
    BY <1>6, <2>1, <2>2, IsASeq, LenProperties
<1> HIDE DEF out
<1>8. Len(out) = Cardinality(A)
  <2> DEFINE f == [p \in P |-> two(p)]
  <2>1. f \in Bijection(P, A)
    <3>1. f \in Injection(P, A)
      BY <1>1 DEF Injection, IsInjective
    <3>2. f \in Surjection(P, A)
      BY <1>1 DEF Surjection
    <3> QED
      BY <3>1, <3>2 DEF Bijection
  <2>2. ExistsBijection(P, A)
    BY <2>1 DEF ExistsBijection
  <2> QED
    BY <1>2, <1>6, <1>7, <2>2, FS_Bijection
<1>9. ToSet(out) = {PairOf(p) : p \in A}
  <2>1. ToSet(out) = {out[n] : n \in 1 .. Len(order)}
    BY <1>7 DEF ToSet
  <2>2. \A n \in 1 .. Len(order) : out[n] = PairOf(two(order[n])) /\ two(order[n]) \in A
    BY <1>1, <1>6, <1>7
  <2>3. \A x \in A : \E n \in 1 .. Len(order) : out[n] = PairOf(x)
    <3>1. SUFFICES ASSUME NEW x \in A PROVE \E n \in 1 .. Len(order) : out[n] = PairOf(x)
      OBVIOUS
    <3>2. PICK p \in P : x = two(p)
      BY <1>1
    <3>3. PICK n \in 1 .. Len(order) : order[n] = p
      BY <1>4 DEF IsListing
    <3> QED
      BY <2>2, <3>2, <3>3
  <2> QED
    BY <2>1, <2>2, <2>3
<1>10. Strongest(out)
  <2>1. SUFFICES ASSUME NEW i \in 1 .. Len(order), NEW j \in 1 .. Len(order), i < j
                 PROVE  StrongestFirst(out[i], out[j])
    BY <1>7 DEF Strongest
  <2>2. Sooner(fns, order[i], order[j]) /\ order[i] \in Twos(fns) /\ order[j] \in Twos(fns)
    BY <1>1, <1>4, <1>5, <1>6, <2>1 DEF IsListing
  <2> QED
    BY <1>7, <2>2, StrongestIsSooner
<1> QED
  BY <1>3, <1>8, <1>9, <1>10 DEF P, A

-----------------------------------------------------------------------------
(* Nodes *)

(* The nodes from one to another are whole subtrees. *)
Forest(T, from, to) ==
    /\ from \in Nat /\ to \in Nat
    /\ \A q \in from .. to : /\ T[q].last \in q .. to
                             /\ \A r \in q .. T[q].last : T[r].last \in r .. T[q].last

(* What a visitor that stops at some nodes sees of them. *)
Shown(T, stops, from, to) == {p \in from .. to : \A q \in from .. p : q \in stops => T[q].last < p}

LEMMA ForestsWithin ==
    ASSUME NEW T, NEW from, NEW to, Forest(T, from, to), NEW q \in from .. to
    PROVE  /\ T[q].last \in q .. to /\ q \in Nat /\ T[q].last \in Nat
           /\ Forest(T, q, T[q].last) /\ Forest(T, q + 1, T[q].last)
           /\ Forest(T, T[q].last + 1, to) /\ Forest(T, q, to) /\ Forest(T, q + 1, to)
<1>1. from \in Nat /\ to \in Nat /\ q \in Nat /\ T[q].last \in q .. to /\ T[q].last \in Nat
  BY DEF Forest
<1> DEFINE e == T[q].last
<1>2. \A r \in from .. to : /\ T[r].last \in r .. to
                            /\ \A s \in r .. T[r].last : T[s].last \in s .. T[r].last
  BY DEF Forest
<1>3. \A r \in q .. e : T[r].last \in r .. e
  BY <1>1, <1>2
<1> HIDE DEF e
<1>4. e \in q .. to /\ e \in Nat
  BY <1>1 DEF e
<1>5. Forest(T, q, e) /\ Forest(T, q + 1, e)
  BY <1>1, <1>2, <1>3, <1>4 DEF Forest
<1>6. Forest(T, e + 1, to) /\ Forest(T, q, to) /\ Forest(T, q + 1, to)
  BY <1>1, <1>2, <1>4 DEF Forest
<1> QED
  BY <1>1, <1>5, <1>6 DEF e

LEMMA ShownStep ==
    ASSUME NEW T, NEW from, NEW to, Forest(T, from, to), NEW stops
    PROVE  /\ from > to => Shown(T, stops, from, to) = {}
           /\ from <= to /\ from \in stops =>
                Shown(T, stops, from, to) = Shown(T, stops, T[from].last + 1, to)
           /\ from <= to /\ from \notin stops =>
                Shown(T, stops, from, to) = {from} \cup Shown(T, stops, from + 1, to)
<1>1. from \in Nat /\ to \in Nat
  BY DEF Forest
<1>2. from > to => Shown(T, stops, from, to) = {}
  BY <1>1 DEF Shown
<1>3. ASSUME from <= to, from \in stops
      PROVE  Shown(T, stops, from, to) = Shown(T, stops, T[from].last + 1, to)
  <2> DEFINE e == T[from].last
  <2>1. e \in from .. to /\ \A q \in from .. e : T[q].last \in q .. e
    BY <1>1, <1>3 DEF Forest
  <2> HIDE DEF e
  <2>2. ASSUME NEW p \in Shown(T, stops, from, to)
        PROVE  p \in Shown(T, stops, e + 1, to)
    <3>1. p \in from .. to /\ \A q \in from .. p : q \in stops => T[q].last < p
      BY DEF Shown
    <3>2. e < p
      BY <1>1, <1>3, <3>1 DEF e
    <3> QED
      BY <1>1, <2>1, <3>1, <3>2 DEF Shown
  <2>3. ASSUME NEW p \in Shown(T, stops, e + 1, to)
        PROVE  p \in Shown(T, stops, from, to)
    <3>1. p \in e + 1 .. to /\ \A q \in e + 1 .. p : q \in stops => T[q].last < p
      BY DEF Shown
    <3>2. ASSUME NEW q \in from .. p, q \in stops
          PROVE  T[q].last < p
      <4>1. CASE q <= e
        <5>1. T[q].last \in q .. e
          BY <1>1, <2>1, <3>1, <4>1
        <5> QED
          BY <1>1, <2>1, <3>1, <5>1
      <4>2. CASE q > e
        BY <1>1, <2>1, <3>1, <3>2, <4>2
      <4> QED
        BY <1>1, <2>1, <4>1, <4>2
    <3>3. p \in from .. to
      BY <1>1, <2>1, <3>1
    <3> QED
      BY <3>2, <3>3 DEF Shown
  <2> QED
    BY <2>2, <2>3 DEF e
<1>4. ASSUME from <= to, from \notin stops
      PROVE  Shown(T, stops, from, to) = {from} \cup Shown(T, stops, from + 1, to)
  <2>1. \A p \in from .. to : p = from \/ p \in from + 1 .. to
    BY <1>1
  <2>2. from \in Shown(T, stops, from, to)
    BY <1>1, <1>4 DEF Shown
  <2>3. ASSUME NEW p \in from + 1 .. to
        PROVE  p \in Shown(T, stops, from, to) <=> p \in Shown(T, stops, from + 1, to)
    <3>1. \A q : q \in from .. p <=> q = from \/ q \in from + 1 .. p
      BY <1>1, <2>3
    <3> QED
      BY <1>1, <1>4, <2>3, <3>1 DEF Shown
  <2> QED
    BY <2>1, <2>2, <2>3 DEF Shown
<1> QED
  BY <1>2, <1>3, <1>4

LEMMA ShownSplit ==
    ASSUME NEW T, NEW a \in Nat, NEW b \in Nat, NEW c \in Nat, Forest(T, a, b), a <= b + 1, b <= c, NEW stops
    PROVE  Shown(T, stops, a, c) = Shown(T, stops, a, b) \cup Shown(T, stops, b + 1, c)
<1>1. \A q \in a .. b : T[q].last \in q .. b
  BY DEF Forest
<1>2. \A p \in a .. b : p \in Shown(T, stops, a, c) <=> p \in Shown(T, stops, a, b)
  BY DEF Shown
<1>3. ASSUME NEW p \in b + 1 .. c
      PROVE  p \in Shown(T, stops, a, c) <=> p \in Shown(T, stops, b + 1, c)
  <2>1. \A q \in a .. p : q \in b + 1 .. p \/ (q \in a .. b /\ T[q].last < p)
    BY <1>1
  <2>2. \A q \in b + 1 .. p : q \in a .. p
    OBVIOUS
  <2>3. p \in a .. c
    OBVIOUS
  <2> QED
    BY <2>1, <2>2, <2>3 DEF Shown
<1>4. \A p \in a .. c : p \in a .. b \/ p \in b + 1 .. c
  OBVIOUS
<1>5. \A p \in Shown(T, stops, a, c) \cup Shown(T, stops, a, b) \cup Shown(T, stops, b + 1, c) : p \in a .. c
  BY DEF Shown
<1>6. \A p \in Shown(T, stops, a, b) : p \in a .. b
  BY DEF Shown
<1>7. \A p \in Shown(T, stops, b + 1, c) : p \in b + 1 .. c
  BY DEF Shown
<1> QED
  BY <1>2, <1>3, <1>4, <1>5, <1>6, <1>7

(* The recursion of Taken, as a property of a function ...                 *)
TakeAt(T, stops, sites, to, take, n) ==
    IF n > to THEN <<>>
    ELSE IF n \in stops THEN take[T[n].last + 1]
    ELSE (IF n \in sites THEN <<n>> ELSE <<>>) \o take[n + 1]
IsTake(T, stops, sites, from, to, take) ==
    take = [n \in from .. to + 1 |-> TakeAt(T, stops, sites, to, take, n)]

(* ... that some function has: what a node needs comes after it.           *)
LEMMA TakesExist ==
    ASSUME NEW T, NEW from, NEW to, Forest(T, from, to), from <= to + 1, NEW stops, NEW sites
    PROVE  \E take : IsTake(T, stops, sites, from, to, take)
<1> DEFINE D == from .. to + 1
           Row(g, n) == TakeAt(T, stops, sites, to, g, n)
           G == {k \in D : \E g : \A n \in D : n >= k => g[n] = Row(g, n)}
<1>1. from \in Nat /\ to \in Nat /\ to + 1 \in D
  BY DEF Forest
<1>2. ASSUME NEW g, NEW h, NEW k \in D, \A n \in D : n > k => g[n] = h[n]
      PROVE  Row(g, k) = Row(h, k)
  <2>1. CASE k > to
    BY <2>1 DEF TakeAt
  <2>2. CASE ~(k > to)
    <3>1. T[k].last + 1 \in D /\ T[k].last + 1 > k /\ k + 1 \in D /\ k + 1 > k
      BY <1>1, <2>2 DEF Forest
    <3>2. g[T[k].last + 1] = h[T[k].last + 1] /\ g[k + 1] = h[k + 1]
      BY <1>2, <3>1
    <3> QED
      BY <3>2 DEF TakeAt
  <2> QED
    BY <2>1, <2>2
<1> HIDE DEF Row
<1>3. ASSUME NEW k \in D, \A j \in k + 1 .. to + 1 : j \in G
      PROVE  k \in G
  <2>1. PICK g : \A n \in D : n >= k + 1 => g[n] = Row(g, n)
    <3>1. CASE k + 1 \in D
      <4>1. k + 1 \in k + 1 .. to + 1
        BY <1>1, <3>1
      <4> QED
        BY <1>3, <4>1
    <3>2. CASE k + 1 \notin D
      <4>1. \A n \in D : ~(n >= k + 1)
        BY <1>1, <3>2
      <4> QED
        BY <4>1
    <3> QED
      BY <3>1, <3>2
  <2> DEFINE h == [n \in D |-> Row(g, n)]
  <2>2. \A n \in D : h[n] = Row(g, n) /\ (n >= k + 1 => h[n] = g[n])
    BY <2>1
  <2> HIDE DEF h
  <2>3. ASSUME NEW n \in D, n >= k
        PROVE  h[n] = Row(h, n)
    <3>1. \A m \in D : m > n => g[m] = h[m]
      BY <1>1, <2>2, <2>3
    <3> QED
      BY <1>2, <2>2, <3>1
  <2> QED
    BY <2>3
<1> HIDE DEF G
<1>4. from \in G
  <2>1. to + 1 \in Nat
    BY <1>1
  <2>2. \A k \in from .. to + 1 : k \in G
    BY <1>1, <1>3, <2>1, FromTheTop
  <2> QED
    BY <1>1, <2>2
<1>5. PICK g : \A n \in D : n >= from => g[n] = Row(g, n)
  BY <1>4 DEF G
<1> DEFINE h == [n \in D |-> g[n]]
<1>6. \A n \in D : Row(g, n) = Row(h, n) /\ g[n] = Row(g, n)
  <2>1. SUFFICES ASSUME NEW n \in D PROVE Row(g, n) = Row(h, n) /\ g[n] = Row(g, n)
    OBVIOUS
  <2>2. \A m \in D : m > n => g[m] = h[m]
    OBVIOUS
  <2>3. n >= from
    BY <1>1
  <2> HIDE DEF h
  <2> QED
    BY <1>2, <1>5, <2>2, <2>3
<1>7. h = [n \in D |-> Row(h, n)]
  BY <1>6
<1> QED
  BY <1>7 DEF IsTake, Row

LEMMA TakenIsTake ==
    ASSUME NEW T, NEW from, NEW to, Forest(T, from, to), from <= to + 1, NEW stops, NEW sites
    PROVE  \E take : /\ IsTake(T, stops, sites, from, to, take)
                     /\ Taken(T, stops, sites, from, to) = take[from]
<1> DEFINE take == CHOOSE g : IsTake(T, stops, sites, from, to, g)
<1>1. IsTake(T, stops, sites, from, to, take)
  BY TakesExist
<1>2. Taken(T, stops, sites, from, to) = take[from]
  BY DEF Taken, IsTake, TakeAt
<1> QED
  BY <1>1, <1>2

LEMMA NothingListed == <<>> \in Seq(Nat) /\ Lists(<<>>, {})
  BY EmptySeq DEF Lists, ToSet

(* A visitor takes what it sees of the sites, each node once and in order. *)
LEMMA TakenLists ==
    ASSUME NEW T, NEW from, NEW to, Forest(T, from, to), from <= to + 1, NEW stops, NEW sites
    PROVE  /\ Taken(T, stops, sites, from, to) \in Seq(Nat)
           /\ Lists(Taken(T, stops, sites, from, to), Shown(T, stops, from, to) \cap sites)
<1> DEFINE S(n) == Shown(T, stops, n, to) \cap sites
           Good(s, n) == s \in Seq(Nat) /\ Lists(s, S(n))
<1>1. from \in Nat /\ to \in Nat
  BY DEF Forest
<1>2. PICK take : /\ IsTake(T, stops, sites, from, to, take)
                  /\ Taken(T, stops, sites, from, to) = take[from]
  BY TakenIsTake
<1>3. \A n \in from .. to + 1 : take[n] = TakeAt(T, stops, sites, to, take, n)
  BY <1>2 DEF IsTake
<1> DEFINE G == {n \in from .. to + 1 : Good(take[n], n)}
<1>4. ASSUME NEW k \in from .. to + 1, \A j \in k + 1 .. to + 1 : j \in G
      PROVE  k \in G
  <2>0. \A j \in k + 1 .. to + 1 : Good(take[j], j)
    BY <1>4
  <2>1. CASE k > to
    <3>1. take[k] = <<>>
      BY <1>3, <2>1 DEF TakeAt
    <3>2. S(k) = {}
      BY <1>1, <2>1 DEF Shown
    <3> HIDE DEF S
    <3> QED
      BY <3>1, <3>2, NothingListed
  <2>2. CASE k <= to
    <3>1. /\ k \in from .. to /\ Forest(T, k, to) /\ T[k].last \in k .. to
          /\ k + 1 \in k + 1 .. to + 1 /\ T[k].last + 1 \in k + 1 .. to + 1
      <4>1. k \in from .. to
        BY <1>1, <2>2
      <4> QED
        BY <1>1, <4>1, ForestsWithin
    <3>0. take[k] = TakeAt(T, stops, sites, to, take, k) /\ ~(k > to)
      BY <1>1, <1>3, <2>2, <3>1
    <3>2. CASE k \in stops
      <4>1. take[k] = take[T[k].last + 1]
        BY <3>0, <3>2 DEF TakeAt
      <4>2. S(k) = S(T[k].last + 1)
        BY <2>2, <3>1, <3>2, ShownStep
      <4>3. Good(take[T[k].last + 1], T[k].last + 1)
        BY <2>0, <3>1
      <4> QED
        BY <4>1, <4>2, <4>3
    <3>3. CASE k \notin stops
      <4> DEFINE rest == take[k + 1]
      <4>1. take[k] = (IF k \in sites THEN <<k>> ELSE <<>>) \o rest
        BY <3>0, <3>3 DEF TakeAt
      <4>2. S(k) = (IF k \in sites THEN {k} ELSE {}) \cup S(k + 1)
        BY <2>2, <3>1, <3>3, ShownStep
      <4>3. rest \in Seq(Nat) /\ Lists(rest, S(k + 1)) /\ \A p \in S(k + 1) : p > k
        <5>1. Good(rest, k + 1)
          BY <2>0, <3>1
        <5>2. \A p \in S(k + 1) : p \in k + 1 .. to
          BY DEF Shown
        <5> QED
          BY <1>1, <5>1, <5>2
      <4>4. k \in Nat
        BY <1>1
      <4> HIDE DEF rest, S
      <4>5. CASE k \in sites
        <5>1. <<k>> \o rest \in Seq(Nat) /\ Lists(<<k>> \o rest, {k} \cup S(k + 1))
          <6>1. \A i \in DOMAIN rest : rest[i] \in S(k + 1)
            BY <4>3 DEF Lists, ToSet
          <6>2. DOMAIN rest = 1 .. Len(rest) /\ Len(rest) \in Nat
            BY <4>3, LenProperties
          <6> DEFINE s == <<k>> \o rest
          <6>3. /\ s \in Seq(Nat) /\ Len(s) = Len(rest) + 1 /\ DOMAIN s = 1 .. Len(rest) + 1
                /\ s[1] = k /\ \A i \in 2 .. Len(rest) + 1 : s[i] = rest[i - 1]
            BY <4>3, <4>4, <6>2
          <6> HIDE DEF s
          <6>4. \A i, j \in DOMAIN s : i < j => s[i] < s[j]
            <7>1. SUFFICES ASSUME NEW i \in DOMAIN s, NEW j \in DOMAIN s, i < j PROVE s[i] < s[j]
              OBVIOUS
            <7>2. j \in 2 .. Len(rest) + 1 /\ s[j] = rest[j - 1] /\ j - 1 \in DOMAIN rest
              BY <6>2, <6>3, <7>1
            <7>3. CASE i = 1
              <8>1. rest[j - 1] > k
                BY <4>3, <6>1, <7>2
              <8> QED
                BY <4>3, <4>4, <6>2, <6>3, <7>2, <7>3, <8>1, ElementOfSeq
            <7>4. CASE i # 1
              <8>1. i \in 2 .. Len(rest) + 1 /\ s[i] = rest[i - 1] /\ i - 1 \in DOMAIN rest /\ i - 1 < j - 1
                BY <6>2, <6>3, <7>1, <7>4
              <8> QED
                BY <4>3, <7>2, <8>1 DEF Lists
            <7> QED
              BY <7>3, <7>4
          <6>5. ToSet(s) = {k} \cup S(k + 1)
            <7>1. \A i \in DOMAIN s : s[i] = k \/ s[i] \in S(k + 1)
              <8>1. \A i \in DOMAIN s : i = 1 \/ (i \in 2 .. Len(rest) + 1 /\ i - 1 \in DOMAIN rest)
                BY <6>2, <6>3
              <8> QED
                BY <6>1, <6>3, <8>1
            <7>2. k \in ToSet(s)
              BY <6>2, <6>3 DEF ToSet
            <7>3. ASSUME NEW p \in S(k + 1) PROVE p \in ToSet(s)
              <8>1. PICK i \in DOMAIN rest : rest[i] = p
                BY <4>3 DEF Lists, ToSet
              <8>2. i + 1 \in 2 .. Len(rest) + 1 /\ i + 1 \in DOMAIN s /\ (i + 1) - 1 = i
                BY <6>2, <6>3, <8>1
              <8>3. s[i + 1] = p
                BY <6>3, <8>1, <8>2
              <8> QED
                BY <8>2, <8>3 DEF ToSet
            <7> QED
              BY <7>1, <7>2, <7>3 DEF ToSet
          <6>6. Lists(s, {k} \cup S(k + 1))
            BY <6>4, <6>5 DEF Lists
          <6> QED
            BY <6>3, <6>6 DEF s
        <5> QED
          BY <4>1, <4>2, <4>5, <5>1
      <4>6. CASE k \notin sites
        <5>1. <<>> \o rest = rest
          BY <4>3, ConcatEmptySeq
        <5> QED
          BY <4>1, <4>2, <4>3, <4>6, <5>1
      <4> QED
        BY <4>5, <4>6
    <3> QED
      BY <3>2, <3>3
  <2> QED
    BY <1>1, <2>1, <2>2
<1>5. from \in G
  <2> HIDE DEF G
  <2>1. to + 1 \in Nat
    BY <1>1
  <2>2. \A k \in from .. to + 1 : k \in G
    BY <1>1, <1>4, <2>1, FromTheTop
  <2> QED
    BY <1>1, <2>2
<1> QED
  BY <1>2, <1>5

LEMMA ListedAre ==
    ASSUME NEW s \in Seq(Nat), NEW S, Lists(s, S)
    PROVE  IsFiniteSet(S) /\ Len(s) = Cardinality(S) /\ Len(s) \in Nat
<1>1. DOMAIN s = 1 .. Len(s) /\ Len(s) \in Nat /\ \A i \in 1 .. Len(s) : s[i] \in Nat
  BY LenProperties, ElementOfSeq
<1>2. S = {s[i] : i \in 1 .. Len(s)}
  BY <1>1 DEF Lists, ToSet
<1>3. \A i, j \in 1 .. Len(s) : s[i] = s[j] => i = j
  <2>1. \A i, j \in 1 .. Len(s) : i < j => s[i] < s[j]
    BY <1>1 DEF Lists
  <2>2. \A i, j \in 1 .. Len(s) : i < j => s[i] # s[j]
    BY <1>1, <2>1
  <2> QED
    BY <1>1, <2>2
<1> DEFINE f == [i \in 1 .. Len(s) |-> s[i]]
<1>4. f \in Bijection(1 .. Len(s), S)
  <2>1. f \in Injection(1 .. Len(s), S)
    BY <1>2, <1>3 DEF Injection, IsInjective
  <2>2. f \in Surjection(1 .. Len(s), S)
    BY <1>2 DEF Surjection
  <2> QED
    BY <2>1, <2>2 DEF Bijection
<1>5. ExistsBijection(1 .. Len(s), S)
  BY <1>4 DEF ExistsBijection
<1>6. IsFiniteSet(1 .. Len(s)) /\ Cardinality(1 .. Len(s)) = Len(s)
  BY <1>1, FS_Interval
<1> QED
  BY <1>1, <1>5, <1>6, FS_Bijection

(* A file's tree. *)
LEMMA TreeTells ==
    ASSUME NEW T, IsTree(T)
    PROVE  /\ T \in Seq(Nodes) /\ DOMAIN T = 1 .. Len(T) /\ Len(T) \in Nat \ {0} /\ T[1].last = Len(T)
           /\ Forest(T, 1, Len(T))
           /\ \A k \in 1 .. Len(T) :
                /\ T[k] \in Nodes /\ T[k].kids \in Seq(Nat) /\ Nests(T, k) /\ Shaped(T, k)
                /\ T[k].last \in k .. Len(T) /\ Forest(T, k, T[k].last) /\ Forest(T, k + 1, T[k].last)
<1>1. /\ T \in Seq(Nodes) /\ T # <<>> /\ DOMAIN T = 1 .. Len(T) /\ Len(T) \in Nat
      /\ \A k \in 1 .. Len(T) : T[k] \in Nodes
      /\ \A k \in 1 .. Len(T) : Nests(T, k) /\ Shaped(T, k)
      /\ T[1].last = Len(T)
  BY LenProperties, ElementOfSeq DEF IsTree
<1>2. Len(T) # 0
  BY <1>1
<1>3. \A k \in 1 .. Len(T) : T[k].last \in k .. Len(T) /\ \A q \in k .. T[k].last : T[q].last <= T[k].last
  BY <1>1 DEF Nests
<1>4. Forest(T, 1, Len(T))
  <2>1. ASSUME NEW q \in 1 .. Len(T), NEW r \in q .. T[q].last
        PROVE  T[r].last \in r .. T[q].last
    <3>1. r \in 1 .. Len(T) /\ T[q].last \in Nat
      BY <1>1, <1>3
    <3> QED
      BY <1>3, <3>1
  <2> QED
    BY <1>1, <1>3, <2>1 DEF Forest
<1>5. \A k \in 1 .. Len(T) : Forest(T, k, T[k].last) /\ Forest(T, k + 1, T[k].last)
  BY <1>4, ForestsWithin
<1>6. \A k \in 1 .. Len(T) : T[k].kids \in Seq(Nat)
  BY <1>1 DEF Nodes
<1> QED
  BY <1>1, <1>2, <1>3, <1>4, <1>5, <1>6

LEMMA ScopeIsShown ==
    ASSUME NEW T, IsTree(T), NEW b \in DOMAIN T, NEW kinds
    PROVE  Scope(T, b, kinds) = Shown(T, OfKind(T, kinds), b, T[b].last)
<1>1. DOMAIN T = 1 .. Len(T) /\ T[b].last \in b .. Len(T) /\ Len(T) \in Nat
  BY TreeTells
<1>2. \A q \in b .. T[b].last : q \in OfKind(T, kinds) <=> T[q].kind \in kinds
  BY <1>1 DEF OfKind
<1>3. \A p \in b .. T[b].last : \A q \in b .. p : q \in b .. T[b].last
  BY <1>1
<1> QED
  BY <1>2, <1>3 DEF Scope, Shown

(* CcCounter counts what is a function's own. *)
LEMMA CountTells ==
    ASSUME NEW T, IsTree(T), NEW b \in DOMAIN T, NEW sites \in SUBSET DOMAIN T
    PROVE  Count(T, sites, b) = Cardinality(Scope(T, b, Items \cup {"closure"}) \cap sites)
<1>1. Forest(T, b, T[b].last) /\ b <= T[b].last + 1
  BY TreeTells
<1> DEFINE stops == OfKind(T, Items \cup {"closure"})
<1>2. /\ Taken(T, stops, sites, b, T[b].last) \in Seq(Nat)
      /\ Lists(Taken(T, stops, sites, b, T[b].last), Shown(T, stops, b, T[b].last) \cap sites)
  BY <1>1, TakenLists
<1>3. Len(Taken(T, stops, sites, b, T[b].last)) = Cardinality(Shown(T, stops, b, T[b].last) \cap sites)
  BY <1>2, ListedAre
<1> QED
  BY <1>3, ScopeIsShown DEF Count

LEMMA CyclomaticTells ==
    ASSUME NEW T, IsTree(T), NEW b \in DOMAIN T
    PROVE  LET own == Scope(T, b, Items \cup {"closure"})
           IN Cyclomatic(T, b) = 2 + 2 * Cardinality({p \in own : Decides(T[p])})
                                   + TryWeight * Cardinality({p \in own : Tries(T[p])})
<1> DEFINE own == Scope(T, b, Items \cup {"closure"})
           a == Cardinality({p \in own : Decides(T[p])})
           c == Cardinality({p \in own : Tries(T[p])})
<1>1. own \subseteq DOMAIN T /\ IsFiniteSet(own)
  <2>1. DOMAIN T = 1 .. Len(T) /\ T[b].last \in b .. Len(T) /\ Len(T) \in Nat
    BY TreeTells
  <2>2. own \subseteq 1 .. Len(T)
    BY <2>1 DEF Scope
  <2>3. IsFiniteSet(1 .. Len(T))
    BY <2>1, FS_Interval
  <2> HIDE DEF own
  <2> QED
    BY <2>1, <2>2, <2>3, FS_Subset
<1>2. That(T, Decides) \in SUBSET DOMAIN T /\ That(T, Tries) \in SUBSET DOMAIN T
  BY DEF That
<1>3. Count(T, That(T, Decides), b) = Cardinality(own \cap That(T, Decides))
  BY <1>2, CountTells
<1>4. Count(T, That(T, Tries), b) = Cardinality(own \cap That(T, Tries))
  BY <1>2, CountTells
<1> HIDE DEF own
<1>5. own \cap That(T, Decides) = {p \in own : Decides(T[p])}
  BY <1>1 DEF That
<1>6. own \cap That(T, Tries) = {p \in own : Tries(T[p])}
  BY <1>1 DEF That
<1>7. a \in Nat /\ c \in Nat
  <2>1. IsFiniteSet({p \in own : Decides(T[p])}) /\ IsFiniteSet({p \in own : Tries(T[p])})
    BY <1>1, FS_Subset
  <2> QED
    BY <2>1, FS_CardinalityType
<1> HIDE DEF a, c
<1>8. Cyclomatic(T, b) = 2 * (1 + a) + TryWeight * c
  BY <1>3, <1>4, <1>5, <1>6 DEF Cyclomatic, a, c
<1>9. 2 * (1 + a) = 2 + 2 * a
  BY <1>7
<1> QED
  BY <1>8, <1>9 DEF a, c, own

-----------------------------------------------------------------------------
(* Shapes *)

(* The recursion of Norm, and that there is such a function.               *)
NormAt(T, norm, k) ==
    [to \in 0 .. Len(T) |->
       IF k > to THEN <<>> ELSE NormNode(T, norm, k) \o norm[T[k].last + 1][to]]
IsNorm(T, norm) == norm = [k \in 1 .. Len(T) + 1 |-> NormAt(T, norm, k)]

LEMMA NormsExist ==
    ASSUME NEW T, IsTree(T)
    PROVE  \E norm : IsNorm(T, norm)
<1> DEFINE D == 1 .. Len(T) + 1
           Row(g, n) == NormAt(T, g, n)
           G == {k \in D : \E g : \A n \in D : n >= k => g[n] = Row(g, n)}
<1>1. Len(T) \in Nat /\ Len(T) + 1 \in Nat /\ 1 \in D
  BY TreeTells
<1>2. ASSUME NEW g, NEW h, NEW k \in D, \A n \in D : n > k => g[n] = h[n]
      PROVE  Row(g, k) = Row(h, k)
  <2>1. CASE k = Len(T) + 1
    <3>1. \A to \in 0 .. Len(T) : k > to
      BY <1>1, <2>1
    <3> QED
      BY <3>1 DEF NormAt
  <2>2. CASE k # Len(T) + 1
    <3>1. T[k].last + 1 \in D /\ T[k].last + 1 > k /\ k + 1 \in D /\ k + 1 > k
      <4>1. k \in 1 .. Len(T)
        BY <1>1, <2>2
      <4>2. T[k].last \in k .. Len(T)
        BY <4>1, TreeTells
      <4> QED
        BY <1>1, <4>1, <4>2
    <3>2. g[T[k].last + 1] = h[T[k].last + 1] /\ g[k + 1] = h[k + 1]
      BY <1>2, <3>1
    <3>3. NormNode(T, g, k) = NormNode(T, h, k)
      BY <3>2 DEF NormNode
    <3> QED
      BY <3>2, <3>3 DEF NormAt
  <2> QED
    BY <2>1, <2>2
<1> HIDE DEF Row
<1>3. ASSUME NEW k \in D, \A j \in k + 1 .. Len(T) + 1 : j \in G
      PROVE  k \in G
  <2>1. PICK g : \A n \in D : n >= k + 1 => g[n] = Row(g, n)
    <3>1. CASE k + 1 \in D
      <4>1. k + 1 \in k + 1 .. Len(T) + 1
        BY <1>1, <3>1
      <4> QED
        BY <1>3, <4>1
    <3>2. CASE k + 1 \notin D
      <4>1. \A n \in D : ~(n >= k + 1)
        BY <1>1, <3>2
      <4> QED
        BY <4>1
    <3> QED
      BY <3>1, <3>2
  <2> DEFINE h == [n \in D |-> Row(g, n)]
  <2>2. \A n \in D : h[n] = Row(g, n) /\ (n >= k + 1 => h[n] = g[n])
    BY <2>1
  <2> HIDE DEF h
  <2>3. ASSUME NEW n \in D, n >= k
        PROVE  h[n] = Row(h, n)
    <3>1. \A m \in D : m > n => g[m] = h[m]
      BY <1>1, <2>2, <2>3
    <3> QED
      BY <1>2, <2>2, <3>1
  <2> QED
    BY <2>3
<1> HIDE DEF G
<1>4. 1 \in G
  <2>1. \A k \in 1 .. Len(T) + 1 : k \in G
    BY <1>1, <1>3, FromTheTop
  <2> QED
    BY <1>1, <2>1
<1>5. PICK g : \A n \in D : n >= 1 => g[n] = Row(g, n)
  BY <1>4 DEF G
<1> DEFINE h == [n \in D |-> g[n]]
<1>6. \A n \in D : Row(g, n) = Row(h, n) /\ g[n] = Row(g, n)
  <2>1. SUFFICES ASSUME NEW n \in D PROVE Row(g, n) = Row(h, n) /\ g[n] = Row(g, n)
    OBVIOUS
  <2>2. \A m \in D : m > n => g[m] = h[m]
    OBVIOUS
  <2>3. n >= 1
    BY <1>1
  <2> HIDE DEF h
  <2> QED
    BY <1>2, <1>5, <2>2, <2>3
<1>7. h = [n \in D |-> Row(h, n)]
  BY <1>6
<1> QED
  BY <1>7 DEF IsNorm, Row

LEMMA NormIsNorm ==
    ASSUME NEW T, IsTree(T)
    PROVE  /\ \A k \in 1 .. Len(T), to \in 0 .. Len(T) :
                k <= to => Norm(T)[k][to] = NormNode(T, Norm(T), k) \o Norm(T)[T[k].last + 1][to]
           /\ \A k \in 1 .. Len(T) + 1, to \in 0 .. Len(T) : k > to => Norm(T)[k][to] = <<>>
<1> DEFINE norm == CHOOSE g : IsNorm(T, g)
<1>1. IsNorm(T, norm)
  BY NormsExist
<1>2. Norm(T) = norm
  BY DEF Norm, IsNorm, NormAt
<1> HIDE DEF norm
<1>3. \A k \in 1 .. Len(T) + 1 : norm[k] = NormAt(T, norm, k)
  BY <1>1 DEF IsNorm
<1>4. Len(T) \in Nat
  BY TreeTells
<1>5. \A k \in 1 .. Len(T) + 1, to \in 0 .. Len(T) :
        norm[k][to] = IF k > to THEN <<>> ELSE NormNode(T, norm, k) \o norm[T[k].last + 1][to]
  BY <1>3 DEF NormAt
<1>6. \A k \in 1 .. Len(T) : k \in 1 .. Len(T) + 1
  BY <1>4
<1>7. \A k \in 1 .. Len(T), to \in 0 .. Len(T) : k <= to => ~(k > to)
  BY <1>4
<1> QED
  BY <1>2, <1>5, <1>6, <1>7

LEMMA JoinTells ==
    ASSUME NEW X, NEW s \in Seq(X), NEW t \in Seq(X)
    PROVE  /\ s \o t \in Seq(X) /\ DOMAIN (s \o t) = 1 .. Len(s \o t) /\ Len(s \o t) = Len(s) + Len(t)
           /\ Len(s) \in Nat /\ Len(t) \in Nat
           /\ \A i \in 1 .. Len(s) : i \in 1 .. Len(s \o t) /\ (s \o t)[i] = s[i]
           /\ \A i \in 1 .. Len(t) : Len(s) + i \in 1 .. Len(s \o t) /\ (s \o t)[Len(s) + i] = t[i]
           /\ \A i \in 1 .. Len(s \o t) : \/ i \in 1 .. Len(s)
                                           \/ \E j \in 1 .. Len(t) : i = Len(s) + j
<1>1. /\ s \o t \in Seq(X) /\ Len(s \o t) = Len(s) + Len(t) /\ Len(s) \in Nat /\ Len(t) \in Nat
      /\ \A i \in 1 .. Len(s) + Len(t) : (s \o t)[i] = IF i <= Len(s) THEN s[i] ELSE t[i - Len(s)]
  BY ConcatProperties, LenProperties
<1>2. DOMAIN (s \o t) = 1 .. Len(s \o t)
  BY <1>1, LenProperties
<1>3. \A i \in 1 .. Len(s) : i \in 1 .. Len(s \o t) /\ (s \o t)[i] = s[i]
  BY <1>1
<1>4. \A i \in 1 .. Len(t) : Len(s) + i \in 1 .. Len(s \o t) /\ (s \o t)[Len(s) + i] = t[i]
  <2>1. SUFFICES ASSUME NEW i \in 1 .. Len(t)
                 PROVE  Len(s) + i \in 1 .. Len(s \o t) /\ (s \o t)[Len(s) + i] = t[i]
    OBVIOUS
  <2>2. Len(s) + i \in 1 .. Len(s) + Len(t) /\ ~(Len(s) + i <= Len(s)) /\ (Len(s) + i) - Len(s) = i
    BY <1>1
  <2> QED
    BY <1>1, <2>2
<1>5. ASSUME NEW i \in 1 .. Len(s \o t), i \notin 1 .. Len(s)
      PROVE  \E j \in 1 .. Len(t) : i = Len(s) + j
  <2>1. i - Len(s) \in 1 .. Len(t) /\ i = Len(s) + (i - Len(s))
    BY <1>1, <1>5
  <2> QED
    BY <2>1
<1> QED
  BY <1>1, <1>2, <1>3, <1>4, <1>5

(* Two lists, one after the other.                                         *)
LEMMA ListsJoin ==
    ASSUME NEW s \in Seq(Nat), NEW t \in Seq(Nat), NEW A, NEW B, Lists(s, A), Lists(t, B),
           \A a \in A, b \in B : a < b
    PROVE  s \o t \in Seq(Nat) /\ Lists(s \o t, A \cup B)
<1> DEFINE r == s \o t
<1>1. /\ r \in Seq(Nat) /\ DOMAIN r = 1 .. Len(r) /\ Len(r) = Len(s) + Len(t)
      /\ Len(s) \in Nat /\ Len(t) \in Nat
      /\ \A i \in 1 .. Len(s) : i \in 1 .. Len(r) /\ r[i] = s[i]
      /\ \A i \in 1 .. Len(t) : Len(s) + i \in 1 .. Len(r) /\ r[Len(s) + i] = t[i]
      /\ \A i \in 1 .. Len(r) : i \in 1 .. Len(s) \/ \E j \in 1 .. Len(t) : i = Len(s) + j
  BY JoinTells
<1> HIDE DEF r
<1>2. /\ DOMAIN s = 1 .. Len(s) /\ DOMAIN t = 1 .. Len(t)
  BY LenProperties
<1>3. /\ \A i \in 1 .. Len(s) : s[i] \in A
      /\ \A a \in A : \E i \in 1 .. Len(s) : s[i] = a
      /\ \A i \in 1 .. Len(t) : t[i] \in B
      /\ \A b \in B : \E i \in 1 .. Len(t) : t[i] = b
      /\ \A i, j \in 1 .. Len(s) : i < j => s[i] < s[j]
      /\ \A i, j \in 1 .. Len(t) : i < j => t[i] < t[j]
  BY <1>2 DEF Lists, ToSet
<1>4. ToSet(r) = A \cup B
  <2>1. ASSUME NEW i \in 1 .. Len(r) PROVE r[i] \in A \cup B
    <3>1. CASE i \in 1 .. Len(s)
      BY <1>1, <1>3, <3>1
    <3>2. CASE i \notin 1 .. Len(s)
      <4>1. PICK j \in 1 .. Len(t) : i = Len(s) + j
        BY <1>1, <3>2
      <4>2. r[i] = t[j]
        BY <1>1, <4>1
      <4> QED
        BY <1>3, <4>2
    <3> QED
      BY <3>1, <3>2
  <2>2. ASSUME NEW a \in A \cup B PROVE \E i \in 1 .. Len(r) : r[i] = a
    <3>1. CASE a \in A
      <4>1. PICK i \in 1 .. Len(s) : s[i] = a
        BY <1>3, <3>1
      <4> QED
        BY <1>1, <4>1
    <3>2. CASE a \in B
      <4>1. PICK i \in 1 .. Len(t) : t[i] = a
        BY <1>3, <3>2
      <4>2. Len(s) + i \in 1 .. Len(r) /\ r[Len(s) + i] = a
        BY <1>1, <4>1
      <4> QED
        BY <4>2
    <3> QED
      BY <3>1, <3>2
  <2>3. DOMAIN r = 1 .. Len(r)
    BY <1>1
  <2>4. ToSet(r) = {r[i] : i \in 1 .. Len(r)}
    BY <2>3 DEF ToSet
  <2> QED
    BY <2>1, <2>2, <2>4
<1>5. ASSUME NEW i \in 1 .. Len(r), NEW j \in 1 .. Len(r), i < j
      PROVE  r[i] < r[j]
  <2>1. CASE i \in 1 .. Len(s) /\ j \in 1 .. Len(s)
    BY <1>1, <1>3, <1>5, <2>1
  <2>2. CASE i \in 1 .. Len(s) /\ j \notin 1 .. Len(s)
    <3>1. PICK b \in 1 .. Len(t) : j = Len(s) + b
      BY <1>1, <2>2
    <3>2. r[i] = s[i] /\ r[j] = t[b]
      BY <1>1, <2>2, <3>1
    <3>3. s[i] \in A /\ t[b] \in B
      BY <1>3, <2>2
    <3> QED
      BY <3>2, <3>3
  <2>3. CASE i \notin 1 .. Len(s)
    <3>1. PICK a \in 1 .. Len(t) : i = Len(s) + a
      BY <1>1, <2>3
    <3>2. j \notin 1 .. Len(s)
      BY <1>1, <1>5, <2>3
    <3>3. PICK b \in 1 .. Len(t) : j = Len(s) + b
      BY <1>1, <3>2
    <3>4. a < b
      BY <1>1, <1>5, <3>1, <3>3
    <3> QED
      BY <1>1, <1>3, <3>1, <3>3, <3>4
  <2> QED
    BY <2>1, <2>2, <2>3
<1>6. Lists(r, A \cup B)
  BY <1>1, <1>4, <1>5 DEF Lists
<1> QED
  BY <1>1, <1>6 DEF r

LEMMA OneListed == \A k \in Nat : <<k>> \in Seq(Nat) /\ Lists(<<k>>, {k}) /\ Len(<<k>>) = 1 /\ <<k>>[1] = k
<1>1. SUFFICES ASSUME NEW k \in Nat PROVE <<k>> \in Seq(Nat) /\ Lists(<<k>>, {k}) /\ Len(<<k>>) = 1 /\ <<k>>[1] = k
  OBVIOUS
<1>2. <<k>> \in Seq(Nat) /\ DOMAIN <<k>> = 1 .. 1 /\ <<k>>[1] = k /\ Len(<<k>>) = 1
  OBVIOUS
<1>3. ToSet(<<k>>) = {k}
  BY <1>2 DEF ToSet
<1> QED
  BY <1>2, <1>3 DEF Lists

(* The nodes a shape shows: no grouping, and nothing inside a leaf.        *)
Inner(T, from, to) ==
    {p \in from .. to : /\ T[p].kind \notin Transparent \cup Unread
                        /\ \A q \in from .. p - 1 : T[q].kind \in Leaves \cup Unread => T[q].last < p}

LEMMA KindsApart ==
    /\ Transparent \cap (Leaves \cup Unread) = {} /\ Unread \cap Leaves = {}
  BY DEF Transparent, Leaves, Unread, LeafExprs, LeafPats, LeafTypes, Items

LEMMA InnerSplit ==
    ASSUME NEW T, NEW a \in Nat, NEW b \in Nat, NEW c \in Nat, Forest(T, a, b), a <= b + 1, b <= c
    PROVE  Inner(T, a, c) = Inner(T, a, b) \cup Inner(T, b + 1, c)
<1>1. \A q \in a .. b : T[q].last \in q .. b
  BY DEF Forest
<1>2. \A p \in a .. b : p \in Inner(T, a, c) <=> p \in Inner(T, a, b)
  BY DEF Inner
<1>3. ASSUME NEW p \in b + 1 .. c
      PROVE  p \in Inner(T, a, c) <=> p \in Inner(T, b + 1, c)
  <2>1. \A q \in a .. p - 1 : q \in b + 1 .. p - 1 \/ (q \in a .. b /\ T[q].last < p)
    BY <1>1
  <2>2. \A q \in b + 1 .. p - 1 : q \in a .. p - 1
    OBVIOUS
  <2>3. p \in a .. c
    OBVIOUS
  <2> QED
    BY <2>1, <2>2, <2>3 DEF Inner
<1>4. \A p \in a .. c : p \in a .. b \/ p \in b + 1 .. c
  OBVIOUS
<1>5. \A p \in Inner(T, a, c) \cup Inner(T, a, b) \cup Inner(T, b + 1, c) : p \in a .. c
  BY DEF Inner
<1>6. \A p \in Inner(T, a, b) : p \in a .. b
  BY DEF Inner
<1>7. \A p \in Inner(T, b + 1, c) : p \in b + 1 .. c
  BY DEF Inner
<1> QED
  BY <1>2, <1>3, <1>4, <1>5, <1>6, <1>7

LEMMA InnerStep ==
    ASSUME NEW T, NEW k \in Nat, NEW e \in Nat, k <= e, T[k].last = e, Forest(T, k, e)
    PROVE  /\ T[k].kind \in Unread => Inner(T, k, e) = {}
           /\ T[k].kind \in Transparent => Inner(T, k, e) = Inner(T, k + 1, e)
           /\ T[k].kind \in Leaves => Inner(T, k, e) = {k}
           /\ T[k].kind \notin Transparent \cup Unread \cup Leaves =>
                Inner(T, k, e) = {k} \cup Inner(T, k + 1, e)
<1>1. \A p \in k .. e : p = k \/ p \in k + 1 .. e
  OBVIOUS
<1>2. T[k].kind \in Unread => Inner(T, k, e) = {}
  <2>1. SUFFICES ASSUME T[k].kind \in Unread, NEW p \in Inner(T, k, e) PROVE FALSE
    OBVIOUS
  <2>2. p \in k .. e /\ p # k
    BY <2>1 DEF Inner
  <2>3. k \in k .. p - 1 /\ ~(e < p)
    BY <2>2
  <2> QED
    BY <2>1, <2>2, <2>3 DEF Inner
<1>3. T[k].kind \in Leaves => Inner(T, k, e) = {k}
  <2>1. SUFFICES ASSUME T[k].kind \in Leaves PROVE Inner(T, k, e) = {k}
    OBVIOUS
  <2>2. k \in Inner(T, k, e)
    BY <2>1, KindsApart DEF Inner
  <2>3. ASSUME NEW p \in Inner(T, k, e), p # k PROVE FALSE
    <3>1. p \in k .. e
      BY DEF Inner
    <3>2. k \in k .. p - 1 /\ ~(e < p)
      BY <2>3, <3>1
    <3> QED
      BY <2>1, <3>1, <3>2 DEF Inner
  <2> QED
    BY <2>2, <2>3
<1>4. ASSUME T[k].kind \notin Leaves \cup Unread
      PROVE  \A p \in k + 1 .. e : p \in Inner(T, k, e) <=> p \in Inner(T, k + 1, e)
  <2>1. SUFFICES ASSUME NEW p \in k + 1 .. e
                 PROVE  p \in Inner(T, k, e) <=> p \in Inner(T, k + 1, e)
    OBVIOUS
  <2>2. \A q : q \in k .. p - 1 <=> q = k \/ q \in k + 1 .. p - 1
    BY <2>1
  <2>3. p \in k .. e
    BY <2>1
  <2> QED
    BY <1>4, <2>1, <2>2, <2>3 DEF Inner
<1>5. \A p \in Inner(T, k, e) : p \in k .. e
  BY DEF Inner
<1>6. \A p \in Inner(T, k + 1, e) : p \in k + 1 .. e
  BY DEF Inner
<1>7. T[k].kind \in Transparent => Inner(T, k, e) = Inner(T, k + 1, e)
  <2>1. SUFFICES ASSUME T[k].kind \in Transparent PROVE Inner(T, k, e) = Inner(T, k + 1, e)
    OBVIOUS
  <2>2. k \notin Inner(T, k, e) /\ T[k].kind \notin Leaves \cup Unread
    BY <2>1, KindsApart DEF Inner
  <2> QED
    BY <1>1, <1>4, <1>5, <1>6, <2>2
<1>8. T[k].kind \notin Transparent \cup Unread \cup Leaves => Inner(T, k, e) = {k} \cup Inner(T, k + 1, e)
  <2>1. SUFFICES ASSUME T[k].kind \notin Transparent \cup Unread \cup Leaves
                 PROVE  Inner(T, k, e) = {k} \cup Inner(T, k + 1, e)
    OBVIOUS
  <2>2. k \in Inner(T, k, e)
    BY <2>1 DEF Inner
  <2> QED
    BY <1>1, <1>4, <1>5, <1>6, <2>1, <2>2
<1> QED
  BY <1>2, <1>3, <1>7, <1>8

(* A row of a shape: its nodes in order, and as many under each as there   *)
(* are inside it.                                                          *)
Spells(T, s, at, from, to) ==
    /\ s \in Seq(ShapeNodes) /\ at \in Seq(Nat) /\ Len(at) = Len(s)
    /\ Lists(at, Inner(T, from, to))
    /\ \A i \in 1 .. Len(s) :
         /\ s[i].kind = Kind(T[at[i]]) /\ s[i].label = Label(T[at[i]])
         /\ i + s[i].under <= Len(s)
         /\ \A j \in 1 .. Len(s) : i < j => (j <= i + s[i].under <=> at[j] <= T[at[i]].last)

LEMMA SpellsNothing ==
    ASSUME NEW T, NEW from, NEW to, Inner(T, from, to) = {}
    PROVE  Spells(T, <<>>, <<>>, from, to)
  BY NothingListed, EmptySeq DEF Spells

LEMMA SpellsJoin ==
    ASSUME NEW T, NEW a \in Nat, NEW b \in Nat, NEW c \in Nat, Forest(T, a, b), a <= b + 1, b <= c,
           NEW s, NEW t, NEW p, NEW q, Spells(T, s, p, a, b), Spells(T, t, q, b + 1, c)
    PROVE  Spells(T, s \o t, p \o q, a, c)
<1> DEFINE r == s \o t
           at == p \o q
<1>1. /\ s \in Seq(ShapeNodes) /\ t \in Seq(ShapeNodes) /\ p \in Seq(Nat) /\ q \in Seq(Nat)
      /\ Len(p) = Len(s) /\ Len(q) = Len(t)
      /\ Lists(p, Inner(T, a, b)) /\ Lists(q, Inner(T, b + 1, c))
  BY DEF Spells
<1>2. \A x \in Inner(T, a, b), y \in Inner(T, b + 1, c) : x \in a .. b /\ y \in b + 1 .. c /\ x < y
  BY DEF Inner
<1>3. at \in Seq(Nat) /\ Lists(at, Inner(T, a, c))
  <2>1. Inner(T, a, c) = Inner(T, a, b) \cup Inner(T, b + 1, c)
    BY InnerSplit
  <2>2. \A x \in Inner(T, a, b), y \in Inner(T, b + 1, c) : x < y
    BY <1>2
  <2>3. p \o q \in Seq(Nat) /\ Lists(p \o q, Inner(T, a, b) \cup Inner(T, b + 1, c))
    BY <1>1, <2>2, ListsJoin
  <2> QED
    BY <2>1, <2>3
<1>4. /\ r \in Seq(ShapeNodes) /\ Len(r) = Len(s) + Len(t)
      /\ Len(s) \in Nat /\ Len(t) \in Nat
      /\ \A i \in 1 .. Len(s) : i \in 1 .. Len(r) /\ r[i] = s[i]
      /\ \A i \in 1 .. Len(t) : Len(s) + i \in 1 .. Len(r) /\ r[Len(s) + i] = t[i]
      /\ \A i \in 1 .. Len(r) : i \in 1 .. Len(s) \/ \E j \in 1 .. Len(t) : i = Len(s) + j
  <2>1. s \in Seq(ShapeNodes) /\ t \in Seq(ShapeNodes)
    BY <1>1
  <2> QED
    BY <2>1, JoinTells
<1>5. /\ Len(at) = Len(r)
      /\ \A i \in 1 .. Len(s) : at[i] = p[i]
      /\ \A i \in 1 .. Len(t) : at[Len(s) + i] = q[i]
  <2>1. /\ Len(p \o q) = Len(p) + Len(q)
        /\ \A i \in 1 .. Len(p) : (p \o q)[i] = p[i]
        /\ \A i \in 1 .. Len(q) : (p \o q)[Len(p) + i] = q[i]
    <3>1. p \in Seq(Nat) /\ q \in Seq(Nat)
      BY <1>1
    <3> QED
      BY <3>1, JoinTells
  <2> QED
    BY <1>1, <1>4, <2>1
<1>6. /\ \A i \in 1 .. Len(s) : p[i] \in Inner(T, a, b)
      /\ \A i \in 1 .. Len(t) : q[i] \in Inner(T, b + 1, c)
  <2>1. DOMAIN p = 1 .. Len(s) /\ DOMAIN q = 1 .. Len(t)
    BY <1>1, LenProperties
  <2> QED
    BY <1>1, <2>1 DEF Lists, ToSet
<1> HIDE DEF r, at
<1>7. /\ \A i \in 1 .. Len(s) : s[i].under \in Nat
      /\ \A i \in 1 .. Len(t) : t[i].under \in Nat
  <2>1. /\ \A i \in 1 .. Len(s) : s[i] \in ShapeNodes
        /\ \A i \in 1 .. Len(t) : t[i] \in ShapeNodes
    BY <1>1, ElementOfSeq
  <2>2. \A x \in ShapeNodes : x.under \in Nat
    BY DEF ShapeNodes
  <2> QED
    BY <2>1, <2>2
<1>8. ASSUME NEW i \in 1 .. Len(r)
      PROVE  /\ r[i].kind = Kind(T[at[i]]) /\ r[i].label = Label(T[at[i]])
             /\ i + r[i].under <= Len(r)
             /\ \A j \in 1 .. Len(r) : i < j => (j <= i + r[i].under <=> at[j] <= T[at[i]].last)
  <2>1. CASE i \in 1 .. Len(s)
    <3>1. /\ r[i] = s[i] /\ at[i] = p[i]
          /\ s[i].kind = Kind(T[p[i]]) /\ s[i].label = Label(T[p[i]])
          /\ i + s[i].under <= Len(s)
          /\ \A j \in 1 .. Len(s) : i < j => (j <= i + s[i].under <=> p[j] <= T[p[i]].last)
      BY <1>4, <1>5, <2>1 DEF Spells
    <3>2. i + s[i].under <= Len(r)
      BY <1>4, <1>7, <2>1, <3>1
    <3>3. ASSUME NEW j \in 1 .. Len(r), i < j
          PROVE  j <= i + s[i].under <=> at[j] <= T[p[i]].last
      <4>1. CASE j \in 1 .. Len(s)
        BY <1>5, <3>1, <3>3, <4>1
      <4>2. CASE j \notin 1 .. Len(s)
        <5>1. PICK m \in 1 .. Len(t) : j = Len(s) + m
          BY <1>4, <4>2
        <5>2. at[j] = q[m] /\ q[m] \in b + 1 .. c
          BY <1>2, <1>5, <1>6, <2>1, <5>1
        <5>3. p[i] \in a .. b
          BY <1>2, <1>5, <1>6, <2>1, <5>1
        <5>4. T[p[i]].last \in p[i] .. b
          BY <5>3 DEF Forest
        <5>5. ~(at[j] <= T[p[i]].last)
          BY <5>2, <5>4
        <5>6. ~(j <= i + s[i].under)
          BY <1>4, <1>7, <2>1, <3>1, <5>1
        <5> QED
          BY <5>5, <5>6
      <4> QED
        BY <4>1, <4>2
    <3> QED
      BY <3>1, <3>2, <3>3
  <2>2. CASE i \notin 1 .. Len(s)
    <3>1. PICK m \in 1 .. Len(t) : i = Len(s) + m
      BY <1>4, <2>2
    <3>2. /\ r[i] = t[m] /\ at[i] = q[m]
          /\ t[m].kind = Kind(T[q[m]]) /\ t[m].label = Label(T[q[m]])
          /\ m + t[m].under <= Len(t)
          /\ \A j \in 1 .. Len(t) : m < j => (j <= m + t[m].under <=> q[j] <= T[q[m]].last)
      BY <1>4, <1>5, <3>1 DEF Spells
    <3> DEFINE u == t[m].under
    <3>0. u \in Nat /\ m + u <= Len(t) /\ Len(s) \in Nat /\ Len(t) \in Nat /\ Len(r) = Len(s) + Len(t)
      BY <1>4, <1>7, <3>2
    <3> HIDE DEF u
    <3>3. i + u <= Len(r)
      BY <3>0, <3>1
    <3>4. ASSUME NEW j \in 1 .. Len(r), i < j
          PROVE  j <= i + u <=> at[j] <= T[q[m]].last
      <4>1. j \notin 1 .. Len(s)
        BY <1>4, <2>2, <3>4
      <4>2. PICK n \in 1 .. Len(t) : j = Len(s) + n
        BY <1>4, <4>1
      <4>3. m < n /\ (j <= i + u <=> n <= m + u)
        BY <3>0, <3>1, <3>4, <4>2
      <4> QED
        BY <1>5, <3>2, <4>2, <4>3 DEF u
    <3> QED
      BY <3>2, <3>3, <3>4 DEF u
  <2> QED
    BY <2>1, <2>2
<1> QED
  BY <1>3, <1>4, <1>5, <1>8 DEF Spells, r, at

LEMMA LabelsType == \A t \in Nodes : Kind(t) \in Words /\ Label(t) \in Words
<1>1. SUFFICES ASSUME NEW t \in Nodes PROVE Kind(t) \in Words /\ Label(t) \in Words
  OBVIOUS
<1>2. t.kind \in STRING /\ t.label \in STRING
  BY DEF Nodes
<1>3. Kind(t) \in {"item", "block", "lit", "path", "pattuple", "other", t.kind}
  BY DEF Kind, Items
<1>4. Label(t) \in {LitKind(t), t.label, ""}
  BY DEF Label, Labelled
<1>5. LitKind(t) \in {t.label, "verbatim"}
  BY DEF LitKind
<1> QED
  BY <1>2, <1>3, <1>4, <1>5 DEF Words

LEMMA NormNodeTells ==
    ASSUME NEW T, NEW norm, NEW k
    PROVE  /\ T[k].kind \in Unread => NormNode(T, norm, k) = <<>>
           /\ T[k].kind \in Transparent => NormNode(T, norm, k) = norm[k + 1][T[k].last]
           /\ T[k].kind \in Leaves => NormNode(T, norm, k) = Spelled(Kind(T[k]), Label(T[k]), <<>>)
           /\ T[k].kind \notin Transparent \cup Unread \cup Leaves =>
                NormNode(T, norm, k) = Spelled(Kind(T[k]), Label(T[k]), norm[k + 1][T[k].last])
<1>1. CASE T[k].kind \in Unread
  <2>1. T[k].kind \notin Transparent /\ T[k].kind \notin Leaves
    BY <1>1, KindsApart
  <2> QED
    BY <1>1, <2>1 DEF NormNode
<1>2. CASE T[k].kind \in Transparent
  <2>1. T[k].kind \notin Unread /\ T[k].kind \notin Leaves
    BY <1>2, KindsApart
  <2> QED
    BY <1>2, <2>1 DEF NormNode
<1>3. CASE T[k].kind \in Leaves
  <2>1. T[k].kind \notin Unread /\ T[k].kind \notin Transparent
    BY <1>3, KindsApart
  <2> QED
    BY <1>3, <2>1 DEF NormNode
<1>4. CASE T[k].kind \notin Transparent \cup Unread \cup Leaves
  BY <1>4 DEF NormNode
<1> QED
  BY <1>1, <1>2, <1>3, <1>4

LEMMA SpellsUnder ==
    ASSUME NEW T, NEW k \in Nat, NEW e \in Nat, k <= e, T[k].last = e, Forest(T, k, e), T[k] \in Nodes,
           NEW s, NEW p,
           \/ T[k].kind \in Leaves /\ s = <<>> /\ p = <<>>
           \/ T[k].kind \notin Transparent \cup Unread \cup Leaves /\ Spells(T, s, p, k + 1, e)
    PROVE  Spells(T, Spelled(Kind(T[k]), Label(T[k]), s), <<k>> \o p, k, e)
<1> DEFINE here == [kind |-> Kind(T[k]), label |-> Label(T[k]), under |-> Len(s)]
           r == <<here>> \o s
           at == <<k>> \o p
           below == IF T[k].kind \in Leaves THEN {} ELSE Inner(T, k + 1, e)
<1>1. Inner(T, k, e) = {k} \cup below
  BY InnerStep
<1>2. /\ s \in Seq(ShapeNodes) /\ p \in Seq(Nat) /\ Len(p) = Len(s) /\ Lists(p, below)
      /\ \A i \in 1 .. Len(s) :
         /\ s[i].kind = Kind(T[p[i]]) /\ s[i].label = Label(T[p[i]])
         /\ i + s[i].under <= Len(s)
         /\ \A j \in 1 .. Len(s) : i < j => (j <= i + s[i].under <=> p[j] <= T[p[i]].last)
  <2>1. CASE T[k].kind \in Leaves
    <3>1. s = <<>> /\ p = <<>> /\ below = {}
      BY <2>1
    <3>2. Spells(T, s, p, k + 1, k)
      <4>1. Inner(T, k + 1, k) = {}
        BY DEF Inner
      <4> QED
        BY <3>1, <4>1, SpellsNothing
    <3>3. Inner(T, k + 1, k) = below
      BY <3>1 DEF Inner
    <3> QED
      BY <3>2, <3>3 DEF Spells
  <2>2. CASE T[k].kind \notin Leaves
    BY <2>2 DEF Spells
  <2> QED
    BY <2>1, <2>2
<1>3. \A x \in below : x \in k + 1 .. e
  BY DEF Inner
<1> HIDE DEF below
<1>4. here \in ShapeNodes
  <2>1. Kind(T[k]) \in Words
    BY LabelsType
  <2>2. Label(T[k]) \in Words
    BY LabelsType
  <2>3. Len(s) \in Nat
    BY <1>2, LenProperties
  <2> QED
    BY <2>1, <2>2, <2>3 DEF ShapeNodes
<1>5. here.kind = Kind(T[k]) /\ here.label = Label(T[k]) /\ here.under = Len(s)
  OBVIOUS
<1> HIDE DEF here
<1>6. at \in Seq(Nat) /\ Lists(at, Inner(T, k, e))
  <2>1. \A x \in {k}, y \in below : x < y
    BY <1>3
  <2>2. <<k>> \in Seq(Nat) /\ Lists(<<k>>, {k})
    BY OneListed
  <2>3. p \in Seq(Nat) /\ Lists(p, below)
    BY <1>2
  <2>4. <<k>> \o p \in Seq(Nat) /\ Lists(<<k>> \o p, {k} \cup below)
    BY <2>1, <2>2, <2>3, ListsJoin
  <2> QED
    BY <1>1, <2>4
<1>7. <<here>> \in Seq(ShapeNodes) /\ Len(<<here>>) = 1 /\ <<here>>[1] = here
  BY <1>4
<1>8. /\ r \in Seq(ShapeNodes) /\ Len(r) = Len(s) + 1 /\ Len(s) \in Nat /\ r[1] = here
      /\ \A i \in 1 .. Len(s) : r[1 + i] = s[i]
  <2>1. s \in Seq(ShapeNodes)
    BY <1>2
  <2>2. /\ r \in Seq(ShapeNodes) /\ Len(r) = Len(<<here>>) + Len(s) /\ Len(s) \in Nat
        /\ \A i \in 1 .. Len(<<here>>) : r[i] = <<here>>[i]
        /\ \A i \in 1 .. Len(s) : r[Len(<<here>>) + i] = s[i]
    BY <1>7, <2>1, JoinTells
  <2> HIDE DEF r
  <2>3. 1 \in 1 .. 1
    OBVIOUS
  <2> QED
    BY <1>7, <2>2, <2>3
<1>9. /\ Len(at) = Len(r) /\ at[1] = k
      /\ \A i \in 1 .. Len(s) : at[1 + i] = p[i]
  <2>1. p \in Seq(Nat) /\ <<k>> \in Seq(Nat) /\ Len(<<k>>) = 1 /\ <<k>>[1] = k
    BY <1>2, OneListed
  <2>2. /\ Len(at) = Len(<<k>>) + Len(p)
        /\ \A i \in 1 .. Len(<<k>>) : at[i] = <<k>>[i]
        /\ \A i \in 1 .. Len(p) : at[Len(<<k>>) + i] = p[i]
    BY <2>1, JoinTells
  <2> HIDE DEF r, at
  <2>3. 1 \in 1 .. 1
    OBVIOUS
  <2> QED
    BY <1>2, <1>8, <2>1, <2>2, <2>3
<1> HIDE DEF r, at
<1>10. \A i \in 1 .. Len(s) : p[i] \in k + 1 .. e
  <2>1. DOMAIN p = 1 .. Len(s)
    BY <1>2, LenProperties
  <2>2. \A i \in 1 .. Len(s) : p[i] \in below
    BY <1>2, <2>1 DEF Lists, ToSet
  <2> QED
    BY <1>3, <2>2
<1>11. \A i \in 1 .. Len(r) : i = 1 \/ \E j \in 1 .. Len(s) : i = 1 + j
  <2>1. \A i \in 1 .. Len(r) : i # 1 => i - 1 \in 1 .. Len(s) /\ i = 1 + (i - 1)
    BY <1>8
  <2> QED
    BY <2>1
<1>12. ASSUME NEW i \in 1 .. Len(r)
       PROVE  /\ r[i].kind = Kind(T[at[i]]) /\ r[i].label = Label(T[at[i]])
              /\ i + r[i].under <= Len(r)
              /\ \A j \in 1 .. Len(r) : i < j => (j <= i + r[i].under <=> at[j] <= T[at[i]].last)
  <2>1. CASE i = 1
    <3>1. r[i] = here /\ at[i] = k /\ i + here.under = Len(r)
      BY <1>5, <1>8, <1>9, <2>1
    <3>2. ASSUME NEW j \in 1 .. Len(r), i < j
          PROVE  j <= Len(r) /\ at[j] <= e
      <4>1. PICK m \in 1 .. Len(s) : j = 1 + m
        BY <1>11, <2>1, <3>2
      <4> QED
        BY <1>8, <1>9, <1>10, <4>1
    <3>3. i + here.under <= Len(r)
      BY <1>8, <3>1
    <3> QED
      BY <1>5, <3>1, <3>2, <3>3
  <2>2. CASE i # 1
    <3>1. PICK m \in 1 .. Len(s) : i = 1 + m
      BY <1>11, <2>2
    <3>2. /\ r[i] = s[m] /\ at[i] = p[m]
          /\ s[m].kind = Kind(T[p[m]]) /\ s[m].label = Label(T[p[m]])
          /\ m + s[m].under <= Len(s)
          /\ \A j \in 1 .. Len(s) : m < j => (j <= m + s[m].under <=> p[j] <= T[p[m]].last)
      BY <1>2, <1>8, <1>9, <3>1
    <3> DEFINE u == s[m].under
    <3>3. u \in Nat
      <4>1. s[m] \in ShapeNodes
        BY <1>2, ElementOfSeq
      <4> QED
        BY <4>1 DEF ShapeNodes
    <3>4. m + u <= Len(s) /\ Len(s) \in Nat /\ Len(r) = Len(s) + 1
      BY <1>8, <3>2
    <3> HIDE DEF u
    <3>5. i + u <= Len(r)
      BY <3>1, <3>3, <3>4
    <3>6. ASSUME NEW j \in 1 .. Len(r), i < j
          PROVE  j <= i + u <=> at[j] <= T[p[m]].last
      <4>1. PICK n \in 1 .. Len(s) : j = 1 + n
        BY <1>11, <3>1, <3>6
      <4>2. m < n /\ (j <= i + u <=> n <= m + u)
        BY <3>1, <3>3, <3>6, <4>1
      <4> QED
        BY <1>9, <3>2, <4>1, <4>2 DEF u
    <3> QED
      BY <3>2, <3>5, <3>6 DEF u
  <2> QED
    BY <2>1, <2>2
<1>13. Spells(T, r, at, k, e)
  BY <1>6, <1>8, <1>9, <1>12 DEF Spells
<1> QED
  BY <1>13 DEF Spelled, r, at, here

(* norm_expr, norm_pat, norm_type: a row of nodes is spelled as it stands. *)
LEMMA NormSpells ==
    ASSUME NEW T, IsTree(T), NEW from \in Nat, NEW end \in 0 .. Len(T), 1 <= from, from <= end + 1,
           Forest(T, from, end)
    PROVE  \E at : Spells(T, Norm(T)[from][end], at, from, end)
<1> DEFINE N == Len(T)
           Good(k, to) == Forest(T, k, to) => \E at : Spells(T, Norm(T)[k][to], at, k, to)
           G == {k \in 1 .. N + 1 : \A to \in 0 .. N : k <= to + 1 => Good(k, to)}
<1>1. N \in Nat /\ N + 1 \in Nat
  BY TreeTells
<1>2. ASSUME NEW k \in 1 .. N + 1, \A j \in k + 1 .. N + 1 : j \in G
      PROVE  k \in G
  <2>1. SUFFICES ASSUME NEW to \in 0 .. N, k <= to + 1, Forest(T, k, to)
                 PROVE  \E at : Spells(T, Norm(T)[k][to], at, k, to)
    OBVIOUS
  <2>2. CASE k > to
    <3>1. Norm(T)[k][to] = <<>>
      BY <2>2, NormIsNorm
    <3>2. Inner(T, k, to) = {}
      BY <1>1, <2>2 DEF Inner
    <3> QED
      BY <3>1, <3>2, SpellsNothing
  <2>3. CASE k <= to
    <3> DEFINE e == T[k].last
    <3>1. k \in 1 .. N /\ k \in k .. to
      BY <1>1, <2>3
    <3>2. /\ Norm(T)[k][to] = NormNode(T, Norm(T), k) \o Norm(T)[e + 1][to]
          /\ e \in k .. to /\ e \in 0 .. N /\ e \in Nat
          /\ Forest(T, k, e) /\ Forest(T, k + 1, e) /\ Forest(T, e + 1, to)
          /\ T[k] \in Nodes
      <4>1. /\ e \in k .. to /\ Forest(T, k, e) /\ Forest(T, k + 1, e) /\ Forest(T, e + 1, to)
        BY <2>1, <3>1, ForestsWithin
      <4>2. T[k] \in Nodes
        BY <3>1, TreeTells
      <4>3. Norm(T)[k][to] = NormNode(T, Norm(T), k) \o Norm(T)[e + 1][to]
        BY <2>3, <3>1, NormIsNorm
      <4> QED
        BY <1>1, <4>1, <4>2, <4>3
    <3> HIDE DEF e
    <3>3. PICK q : Spells(T, Norm(T)[e + 1][to], q, e + 1, to)
      <4>1. e + 1 \in k + 1 .. N + 1 /\ e + 1 <= to + 1
        BY <1>1, <3>2
      <4>2. e + 1 \in G
        BY <1>2, <4>1
      <4> QED
        BY <3>2, <4>1, <4>2
    <3>4. PICK p : Spells(T, Norm(T)[k + 1][e], p, k + 1, e)
      <4>1. k + 1 \in k + 1 .. N + 1 /\ k + 1 <= e + 1
        BY <1>1, <3>1, <3>2
      <4>2. k + 1 \in G
        BY <1>2, <4>1
      <4> QED
        BY <3>2, <4>1, <4>2
    <3>5. k \in Nat /\ k <= e /\ T[k].last = e
      BY <3>1, <3>2 DEF e
    <3>6. \E r : Spells(T, NormNode(T, Norm(T), k), r, k, e)
      <4>1. CASE T[k].kind \in Unread
        <5>1. NormNode(T, Norm(T), k) = <<>> /\ Inner(T, k, e) = {}
          <6>1. NormNode(T, Norm(T), k) = <<>>
            BY <4>1, NormNodeTells
          <6> QED
            BY <3>2, <3>5, <4>1, <6>1, InnerStep
        <5> QED
          BY <5>1, SpellsNothing
      <4>2. CASE T[k].kind \in Transparent
        <5>1. NormNode(T, Norm(T), k) = Norm(T)[k + 1][e] /\ Inner(T, k, e) = Inner(T, k + 1, e)
          <6>2. NormNode(T, Norm(T), k) = Norm(T)[k + 1][e]
            BY <3>5, <4>2, NormNodeTells
          <6> QED
            BY <3>2, <3>5, <4>2, <6>2, InnerStep
        <5> QED
          BY <3>4, <5>1 DEF Spells
      <4>3. CASE T[k].kind \in Leaves
        <5>2. NormNode(T, Norm(T), k) = Spelled(Kind(T[k]), Label(T[k]), <<>>)
          BY <4>3, NormNodeTells
        <5> QED
          BY <3>2, <3>5, <4>3, <5>2, SpellsUnder
      <4>4. CASE T[k].kind \notin Transparent \cup Unread \cup Leaves
        <5>1. NormNode(T, Norm(T), k) = Spelled(Kind(T[k]), Label(T[k]), Norm(T)[k + 1][e])
          BY <3>5, <4>4, NormNodeTells
        <5> QED
          BY <3>2, <3>4, <3>5, <4>4, <5>1, SpellsUnder
      <4> QED
        BY <4>1, <4>2, <4>3, <4>4
    <3>7. PICK r : Spells(T, NormNode(T, Norm(T), k), r, k, e)
      BY <3>6
    <3>8. Spells(T, NormNode(T, Norm(T), k) \o Norm(T)[e + 1][to], r \o q, k, to)
      <4>1. to \in Nat /\ k <= e + 1 /\ e <= to
        BY <1>1, <3>2, <3>5
      <4> QED
        BY <3>2, <3>3, <3>5, <3>7, <4>1, SpellsJoin
    <3> QED
      BY <3>2, <3>8
  <2> QED
    BY <1>1, <2>2, <2>3
<1> HIDE DEF G
<1>3. from \in G
  <2>1. from \in 1 .. N + 1
    BY <1>1
  <2>2. \A k \in 1 .. N + 1 : k \in G
    BY <1>1, <1>2, FromTheTop
  <2> QED
    BY <2>1, <2>2
<1> QED
  BY <1>3 DEF G

(* A shape: every node says how many are under it, the first the others.   *)
IsShape(s) ==
    /\ s \in Seq(ShapeNodes) /\ Len(s) >= 1 /\ s[1].under = Len(s) - 1
    /\ \A i \in 1 .. Len(s) : i + s[i].under <= Len(s)

LEMMA ShapeTells ==
    ASSUME NEW s, IsShape(s)
    PROVE  /\ s \in Seq(ShapeNodes) /\ Len(s) \in Nat \ {0} /\ DOMAIN s = 1 .. Len(s)
           /\ \A i \in 1 .. Len(s) : /\ s[i] \in ShapeNodes /\ s[i].under \in Nat /\ i + s[i].under \in Nat
                                     /\ i + s[i].under <= Len(s)
<1>1. s \in Seq(ShapeNodes) /\ Len(s) \in Nat \ {0} /\ DOMAIN s = 1 .. Len(s)
  BY LenProperties DEF IsShape
<1>2. \A i \in 1 .. Len(s) : s[i] \in ShapeNodes
  BY <1>1, ElementOfSeq
<1>3. \A i \in 1 .. Len(s) : s[i].under \in Nat
  BY <1>2 DEF ShapeNodes
<1>4. \A i \in 1 .. Len(s) : i + s[i].under <= Len(s)
  BY DEF IsShape
<1>5. \A i \in 1 .. Len(s) : i + s[i].under \in Nat
  BY <1>1, <1>3
<1> QED
  BY <1>1, <1>2, <1>3, <1>4, <1>5

LEMMA PrintsAre ==
    ASSUME NEW s, IsShape(s)
    PROVE  /\ IsFiniteSet(Fingerprints(s)) /\ Fingerprints(s) \in SUBSET Seq(ShapeNodes)
           /\ s \in Fingerprints(s)
           /\ \A p \in Fingerprints(s) : /\ Len(p) \in Nat /\ Len(p) <= Len(s)
                                         /\ Len(p) = Len(s) => p = s
<1>1. /\ s \in Seq(ShapeNodes) /\ Len(s) \in Nat \ {0} /\ DOMAIN s = 1 .. Len(s) /\ s[1].under = Len(s) - 1
      /\ \A i \in 1 .. Len(s) : /\ s[i] \in ShapeNodes /\ s[i].under \in Nat /\ i + s[i].under \in Nat
                                /\ i + s[i].under <= Len(s)
  BY ShapeTells DEF IsShape
<1> DEFINE N == Len(s)
           cut(i) == SubSeq(s, i, i + s[i].under)
<1>2. Fingerprints(s) = {cut(i) : i \in 1 .. N}
  BY <1>1 DEF Fingerprints
<1>3. ASSUME NEW i \in 1 .. N
      PROVE  cut(i) \in Seq(ShapeNodes) /\ Len(cut(i)) = s[i].under + 1
  <2>1. i \in Int /\ i + s[i].under \in Int /\ i <= i + s[i].under
    BY <1>1
  <2>2. \A j \in i .. i + s[i].under : s[j] \in ShapeNodes
    BY <1>1
  <2>3. /\ cut(i) \in Seq(ShapeNodes)
        /\ Len(cut(i)) = IF i <= i + s[i].under THEN (i + s[i].under) - i + 1 ELSE 0
    BY <2>1, <2>2, SubSeqProperties
  <2> QED
    BY <1>1, <2>1, <2>3
<1>4. cut(1) = s
  <2>1. 1 + s[1].under = N
    BY <1>1
  <2>2. SubSeq(s, 1, N) = s
    BY <1>1, SubSeqFull
  <2> QED
    BY <2>1, <2>2
<1>5. IsFiniteSet({cut(i) : i \in 1 .. N})
  <2> DEFINE P == {cut(i) : i \in 1 .. N}
             f == [i \in 1 .. N |-> cut(i)]
  <2> HIDE DEF cut
  <2>1. f \in Surjection(1 .. N, P)
    BY DEF Surjection
  <2>2. IsFiniteSet(1 .. N)
    BY <1>1, FS_Interval
  <2> HIDE DEF P, f
  <2> QED
    BY <2>1, <2>2, FS_Surjection DEF P
<1>6. ASSUME NEW i \in 1 .. N, s[i].under + 1 = N
      PROVE  i = 1
  BY <1>1, <1>6
<1> HIDE DEF cut
<1>7. ASSUME NEW i \in 1 .. N
      PROVE  Len(cut(i)) \in Nat /\ Len(cut(i)) <= N /\ (Len(cut(i)) = N => cut(i) = s)
  <2>1. Len(cut(i)) = s[i].under + 1
    BY <1>3
  <2>2. s[i].under \in Nat /\ i + s[i].under <= N /\ i >= 1
    BY <1>1
  <2>3. Len(cut(i)) = N => i = 1
    BY <1>6, <2>1
  <2> QED
    BY <1>1, <1>4, <2>1, <2>2, <2>3
<1>8. 1 \in 1 .. N
  BY <1>1
<1> QED
  BY <1>2, <1>3, <1>4, <1>5, <1>7, <1>8

(* Shapes of equal fingerprints are equal: the longest print is the shape. *)
LEMMA PrintsTell ==
    ASSUME NEW s, IsShape(s), NEW t, IsShape(t), Fingerprints(s) = Fingerprints(t)
    PROVE  s = t
<1>1. s \in Fingerprints(t) /\ t \in Fingerprints(s)
  BY PrintsAre
<1>2. Len(s) <= Len(t) /\ Len(t) <= Len(s) /\ Len(s) \in Nat /\ Len(t) \in Nat
  BY <1>1, PrintsAre
<1>3. Len(s) = Len(t)
  BY <1>2
<1> QED
  BY <1>1, <1>3, PrintsAre

(* A score of one says that all prints are shared.                         *)
LEMMA OneMeansSamePrints ==
    ASSUME NEW a \in Records, NEW b \in Records
    PROVE  Jaccard(a, b).same = Jaccard(a, b).of <=> a.prints = b.prints
<1> DEFINE A == a.prints
           B == b.prints
<1>1. IsFiniteSet(A) /\ IsFiniteSet(B)
  BY DEF Records
<1>2. Jaccard(a, b) = Likeness(a, b)
  BY JaccardIsLikeness
<1>3. Jaccard(a, b).same = Cardinality(A \cap B) /\ Jaccard(a, b).of = Cardinality(A \cup B)
  BY <1>2 DEF Likeness
<1> HIDE DEF A, B
<1>4. IsFiniteSet(A \cup B)
  BY <1>1, FS_Union
<1>5. ASSUME Cardinality(A \cap B) = Cardinality(A \cup B)
      PROVE  A = B
  <2>1. A \cap B \in SUBSET (A \cup B)
    OBVIOUS
  <2>2. A \cap B = A \cup B
    BY <1>4, <1>5, <2>1, FS_Subset
  <2> QED
    BY <2>2
<1>6. A = B => A \cap B = A \cup B
  OBVIOUS
<1> QED
  BY <1>3, <1>5, <1>6 DEF A, B

(* What a row of a shape says of its function.                             *)
Holds(s, i) == {j \in 1 .. Len(s) : j < i /\ i <= j + s[j].under}
Facts(label, s) ==
    {<<label>>} \cup {<<i - 1, s[i].kind, s[i].label, {j - 1 : j \in Holds(s, i)}>> : i \in 1 .. Len(s)}
IsRow(s) ==
    s \in Seq(ShapeNodes) /\ \A i \in 1 .. Len(s) : i + s[i].under <= Len(s)

LEMMA FactsTellOne ==
    ASSUME NEW l, NEW m, NEW s, NEW t, IsRow(s), IsRow(t), Facts(l, s) \subseteq Facts(m, t)
    PROVE  /\ l = m /\ Len(s) \in Nat /\ Len(t) \in Nat /\ Len(s) <= Len(t)
           /\ \A i \in 1 .. Len(s) : /\ s[i].kind = t[i].kind /\ s[i].label = t[i].label
                                     /\ \A j \in 1 .. i - 1 : j \in Holds(s, i) <=> j \in Holds(t, i)
<1>1. /\ s \in Seq(ShapeNodes) /\ Len(s) \in Nat /\ t \in Seq(ShapeNodes) /\ Len(t) \in Nat
  BY LenProperties DEF IsRow
<1> DEFINE fact(r, i) == <<i - 1, r[i].kind, r[i].label, {j - 1 : j \in Holds(r, i)}>>
<1>2. \A i \in 1 .. Len(t) : \A x : <<x>> # fact(t, i)
  OBVIOUS
<1>3. l = m
  <2>1. <<l>> \in Facts(l, s)
    BY DEF Facts
  <2>2. <<l>> \in Facts(m, t)
    BY <2>1
  <2>3. <<l>> = <<m>>
    BY <1>2, <2>2 DEF Facts
  <2> QED
    BY <2>3
<1>4. ASSUME NEW i \in 1 .. Len(s)
      PROVE  i \in 1 .. Len(t) /\ fact(s, i) = fact(t, i)
  <2>1. fact(s, i) \in Facts(l, s)
    BY DEF Facts
  <2>2. fact(s, i) \in Facts(m, t)
    BY <2>1
  <2>3. fact(s, i) # <<m>>
    OBVIOUS
  <2>4. PICK n \in 1 .. Len(t) : fact(s, i) = fact(t, n)
    BY <2>2, <2>3 DEF Facts
  <2>5. i - 1 = n - 1
    BY <2>4
  <2>6. i = n
    BY <1>1, <2>5
  <2> QED
    BY <2>4, <2>6
<1>5. Len(s) <= Len(t)
  <2>1. CASE Len(s) = 0
    BY <1>1, <2>1
  <2>2. CASE Len(s) # 0
    <3>1. Len(s) \in 1 .. Len(s)
      BY <1>1, <2>2
    <3>2. Len(s) \in 1 .. Len(t)
      BY <1>4, <3>1
    <3> QED
      BY <1>1, <3>2
  <2> QED
    BY <2>1, <2>2
<1>6. ASSUME NEW i \in 1 .. Len(s)
      PROVE  /\ s[i].kind = t[i].kind /\ s[i].label = t[i].label
             /\ \A j \in 1 .. i - 1 : j \in Holds(s, i) <=> j \in Holds(t, i)
  <2>1. fact(s, i) = fact(t, i)
    BY <1>4
  <2>2. s[i].kind = t[i].kind /\ s[i].label = t[i].label
    BY <2>1
  <2>3. {j - 1 : j \in Holds(s, i)} = {j - 1 : j \in Holds(t, i)}
    BY <2>1
  <2>4. \A j \in Holds(s, i) \cup Holds(t, i) : j \in Nat
    BY DEF Holds
  <2> HIDE DEF fact
  <2>5. \A j \in Nat : j \in Holds(s, i) <=> j \in Holds(t, i)
    <3>1. ASSUME NEW j \in Holds(s, i) PROVE j \in Holds(t, i)
      <4>1. j - 1 \in {n - 1 : n \in Holds(t, i)}
        BY <2>3, <3>1
      <4>2. PICK n \in Holds(t, i) : j - 1 = n - 1
        BY <4>1
      <4>3. j = n
        BY <2>4, <3>1, <4>2
      <4> QED
        BY <4>2, <4>3
    <3>2. ASSUME NEW j \in Holds(t, i) PROVE j \in Holds(s, i)
      <4>1. j - 1 \in {n - 1 : n \in Holds(s, i)}
        BY <2>3, <3>2
      <4>2. PICK n \in Holds(s, i) : j - 1 = n - 1
        BY <4>1
      <4>3. j = n
        BY <2>4, <3>2, <4>2
      <4> QED
        BY <4>2, <4>3
    <3> QED
      BY <3>1, <3>2
  <2> QED
    BY <2>2, <2>5
<1> QED
  BY <1>1, <1>3, <1>5, <1>6

(* The facts tell the row: what is under a node is where it is around.     *)
LEMMA FactsTell ==
    ASSUME NEW l, NEW m, NEW s, NEW t, IsRow(s), IsRow(t), Facts(l, s) = Facts(m, t)
    PROVE  l = m /\ s = t
<1>1. /\ l = m /\ Len(s) \in Nat /\ Len(t) \in Nat /\ Len(s) <= Len(t) /\ Len(t) <= Len(s)
      /\ \A i \in 1 .. Len(s) : /\ s[i].kind = t[i].kind /\ s[i].label = t[i].label
                                /\ \A j \in 1 .. i - 1 : j \in Holds(s, i) <=> j \in Holds(t, i)
  BY FactsTellOne
<1> DEFINE N == Len(s)
<1>2. Len(t) = N /\ N \in Nat
  BY <1>1
<1>3. /\ s \in Seq(ShapeNodes) /\ t \in Seq(ShapeNodes)
      /\ \A i \in 1 .. N : s[i] \in ShapeNodes /\ t[i] \in ShapeNodes
  BY <1>2, ElementOfSeq DEF IsRow
<1>4. \A i \in 1 .. N : s[i].under \in Nat /\ t[i].under \in Nat /\ i + s[i].under <= N /\ i + t[i].under <= N
  BY <1>2, <1>3 DEF IsRow, ShapeNodes
<1>5. ASSUME NEW j \in 1 .. N
      PROVE  s[j].under = t[j].under
  <2> DEFINE a == s[j].under
             b == t[j].under
  <2>1. a \in Nat /\ b \in Nat /\ j + a <= N /\ j + b <= N /\ j \in 1 .. N
    BY <1>4
  <2>2. \A i \in 1 .. N : j < i => (i <= j + a <=> i <= j + b)
    <3>1. SUFFICES ASSUME NEW i \in 1 .. N, j < i
                   PROVE  i <= j + a <=> i <= j + b
      OBVIOUS
    <3>2. j \in 1 .. i - 1
      BY <1>2, <3>1
    <3>3. j \in Holds(s, i) <=> j \in Holds(t, i)
      BY <1>1, <3>1, <3>2
    <3> QED
      BY <1>2, <3>1, <3>3 DEF Holds
  <2> HIDE DEF a, b
  <2>3. ~(a < b)
    <3>1. SUFFICES ASSUME a < b PROVE FALSE
      OBVIOUS
    <3>2. j + b \in 1 .. N /\ j < j + b /\ ~(j + b <= j + a)
      BY <1>2, <2>1, <3>1
    <3> QED
      BY <2>2, <3>2
  <2>4. ~(b < a)
    <3>1. SUFFICES ASSUME b < a PROVE FALSE
      OBVIOUS
    <3>2. j + a \in 1 .. N /\ j < j + a /\ ~(j + a <= j + b)
      BY <1>2, <2>1, <3>1
    <3> QED
      BY <2>2, <3>2
  <2>5. a = b
    BY <2>1, <2>3, <2>4
  <2> QED
    BY <2>5 DEF a, b
<1>6. \A i \in 1 .. N : s[i] = t[i]
  <2>1. SUFFICES ASSUME NEW i \in 1 .. N PROVE s[i] = t[i]
    OBVIOUS
  <2>2. \A x, y \in ShapeNodes : x.kind = y.kind /\ x.label = y.label /\ x.under = y.under => x = y
    BY DEF ShapeNodes
  <2>3. s[i].kind = t[i].kind /\ s[i].label = t[i].label /\ s[i].under = t[i].under
    BY <1>1, <1>5
  <2> QED
    BY <1>3, <2>2, <2>3
<1>7. s = t
  BY <1>2, <1>3, <1>6, SeqEqual
<1> QED
  BY <1>1, <1>7

LEMMA OutlineWords ==
    /\ Groups = Transparent /\ Opaque = Leaves
    /\ \A t : Alias(t.kind) = Kind(t) /\ Told(t) = Label(t)
<1>1. Groups = Transparent
  BY DEF Groups, Transparent
<1>2. Opaque = Leaves
  BY DEF Opaque, Leaves, LeafExprs, LeafPats, LeafTypes
<1>3. \A t : Alias(t.kind) = Kind(t)
  BY DEF Alias, Kind
<1>4. \A t : Told(t) = Label(t)
  <2>1. SUFFICES ASSUME NEW t PROVE Told(t) = Label(t)
    OBVIOUS
  <2>2. CASE t.kind \in {"lit", "patlit"}
    <3>1. t.kind \notin {"binary", "unary", "reference", "tyref", "typtr"}
      BY <2>2
    <3> QED
      BY <2>2, <3>1 DEF Told, Label, LitKind, LitKinds, Labelled
  <2>3. CASE t.kind \notin {"lit", "patlit"}
    BY <2>3 DEF Told, Label, Labelled
  <2> QED
    BY <2>2, <2>3
<1> QED
  BY <1>1, <1>2, <1>3, <1>4

(* The number of listed nodes before one is its place in the list.         *)
LEMMA PlacesTell ==
    ASSUME NEW s \in Seq(Nat), NEW S, Lists(s, S), NEW i \in 1 .. Len(s)
    PROVE  Cardinality({q \in S : q < s[i]}) = i - 1
<1>1. /\ DOMAIN s = 1 .. Len(s) /\ Len(s) \in Nat /\ \A n \in 1 .. Len(s) : s[n] \in Nat
  BY LenProperties, ElementOfSeq
<1>2. /\ S = {s[n] : n \in 1 .. Len(s)}
      /\ \A m, n \in 1 .. Len(s) : m < n => s[m] < s[n]
  BY <1>1 DEF Lists, ToSet
<1>3. \A n \in 1 .. Len(s) : s[n] < s[i] <=> n < i
  <2>1. SUFFICES ASSUME NEW n \in 1 .. Len(s) PROVE s[n] < s[i] <=> n < i
    OBVIOUS
  <2>2. n < i \/ n = i \/ i < n
    BY <1>1
  <2> QED
    BY <1>1, <1>2, <2>2
<1> DEFINE B == {q \in S : q < s[i]}
           f == [n \in 1 .. i - 1 |-> s[n]]
<1>4. B = {s[n] : n \in 1 .. i - 1}
  <2>1. \A n \in 1 .. i - 1 : n \in 1 .. Len(s) /\ n < i
    BY <1>1
  <2>2. \A n \in 1 .. Len(s) : n < i => n \in 1 .. i - 1
    BY <1>1
  <2> QED
    BY <1>2, <1>3, <2>1, <2>2
<1>5. \A m, n \in 1 .. i - 1 : s[m] = s[n] => m = n
  <2>1. SUFFICES ASSUME NEW m \in 1 .. i - 1, NEW n \in 1 .. i - 1, s[m] = s[n], m # n
                 PROVE  FALSE
    OBVIOUS
  <2>2. m \in 1 .. Len(s) /\ n \in 1 .. Len(s) /\ (m < n \/ n < m)
    BY <1>1, <2>1
  <2>3. s[m] < s[n] \/ s[n] < s[m]
    BY <1>2, <2>2
  <2> QED
    BY <1>1, <2>1, <2>2, <2>3
<1> HIDE DEF B
<1>6. f \in Surjection(1 .. i - 1, B) /\ f \in Injection(1 .. i - 1, B)
  BY <1>4, <1>5 DEF Surjection, Injection, IsInjective
<1>7. IsFiniteSet(1 .. i - 1) /\ Cardinality(1 .. i - 1) = i - 1
  <2>1. i - 1 \in Int /\ 1 \in Int /\ ~(1 > i - 1 /\ i # 1)
    BY <1>1
  <2>2. Cardinality(1 .. i - 1) = IF 1 > i - 1 THEN 0 ELSE (i - 1) - 1 + 1
    BY <2>1, FS_Interval
  <2>3. IsFiniteSet(1 .. i - 1)
    BY <2>1, FS_Interval
  <2> QED
    BY <1>1, <2>2, <2>3
<1> HIDE DEF f
<1>8. Cardinality(B) = i - 1
  BY <1>6, <1>7, FS_Surjection
<1> QED
  BY <1>8 DEF B

(* Above and under, in a row of a shape. *)
LEMMA AroundTells ==
    ASSUME NEW T, NEW s, NEW at, NEW from \in Nat, NEW to, Spells(T, s, at, from, to), from >= 1,
           NEW i \in 1 .. Len(s)
    PROVE  /\ IsRow(s)
           /\ Inner(T, from, to) \cap Above(T, at[i]) = {at[j] : j \in Holds(s, i)}
<1>1. /\ s \in Seq(ShapeNodes) /\ at \in Seq(Nat) /\ Len(at) = Len(s)
      /\ Lists(at, Inner(T, from, to))
      /\ \A n \in 1 .. Len(s) :
           /\ n + s[n].under <= Len(s)
           /\ \A j \in 1 .. Len(s) : n < j => (j <= n + s[n].under <=> at[j] <= T[at[n]].last)
  BY DEF Spells
<1>2. /\ DOMAIN at = 1 .. Len(s) /\ Len(s) \in Nat /\ \A n \in 1 .. Len(s) : at[n] \in Nat
  BY <1>1, LenProperties, ElementOfSeq
<1>3. /\ Inner(T, from, to) = {at[n] : n \in 1 .. Len(s)}
      /\ \A m, n \in 1 .. Len(s) : m < n => at[m] < at[n]
  BY <1>1, <1>2 DEF Lists, ToSet
<1>4. \A n \in 1 .. Len(s) : at[n] >= 1
  <2>1. \A p \in Inner(T, from, to) : p \in from .. to
    BY DEF Inner
  <2> QED
    BY <1>2, <1>3, <2>1
<1>5. ASSUME NEW n \in 1 .. Len(s)
      PROVE  at[n] \in Above(T, at[i]) <=> n \in Holds(s, i)
  <2>1. at[n] < at[i] <=> n < i
    <3>1. n < i \/ n = i \/ i < n
      BY <1>2
    <3> QED
      BY <1>2, <1>3, <3>1
  <2>2. at[n] \in 1 .. at[i] - 1 <=> n < i
    BY <1>2, <1>4, <2>1
  <2>3. n < i => (i <= n + s[n].under <=> at[i] <= T[at[n]].last)
    BY <1>1
  <2> QED
    BY <2>2, <2>3 DEF Above, Holds
<1>6. \A n \in Holds(s, i) : n \in 1 .. Len(s)
  BY DEF Holds
<1> QED
  BY <1>1, <1>3, <1>5, <1>6 DEF IsRow

(* An outline is the facts of the normalised parts.                        *)
LEMMA OutlineIsFacts ==
    ASSUME NEW T, IsTree(T), NEW f \in DOMAIN T
    PROVE  LET s == Norm(T)[f + 1][T[f].last]
           IN IsRow(s) /\ Outline(T, f) = Facts(T[f].label, s)
<1> DEFINE s == Norm(T)[f + 1][T[f].last]
           e == T[f].last
           I == Inner(T, f + 1, e)
           place(p) == Cardinality({q \in I : q < p})
           around(p) == {place(q) : q \in I \cap Above(T, p)}
<1>1. /\ f \in 1 .. Len(T) /\ Len(T) \in Nat /\ e \in f .. Len(T) /\ Forest(T, f + 1, e)
  BY TreeTells
<1>2. PICK at : Spells(T, s, at, f + 1, e)
  <2>1. f + 1 \in Nat /\ 1 <= f + 1 /\ f + 1 <= e + 1 /\ e \in 0 .. Len(T)
    BY <1>1
  <2> HIDE DEF e
  <2>2. \E at : Spells(T, Norm(T)[f + 1][e], at, f + 1, e)
    BY <1>1, <2>1, NormSpells
  <2> QED
    BY <2>2 DEF e
<1>3. I = {p \in f + 1 .. T[f].last :
             /\ T[p].kind \notin Groups \cup Unread
             /\ \A q \in f + 1 .. p - 1 : T[q].kind \in Opaque \cup Unread => T[q].last < p}
  BY OutlineWords DEF Inner
<1>4. Outline(T, f) = {<<T[f].label>>} \cup {<<place(p), Kind(T[p]), Label(T[p]), around(p)>> : p \in I}
  <2> HIDE DEF I
  <2>1. Outline(T, f) = {<<T[f].label>>}
                          \cup {<<place(p), Alias(T[p].kind), Told(T[p]), around(p)>> : p \in I}
    BY <1>3 DEF Outline
  <2> HIDE DEF place, around
  <2> QED
    BY <2>1, OutlineWords
<1> HIDE DEF s, e
<1>5. /\ at \in Seq(Nat) /\ Len(at) = Len(s) /\ Lists(at, I) /\ Len(s) \in Nat
      /\ \A i \in 1 .. Len(s) : s[i].kind = Kind(T[at[i]]) /\ s[i].label = Label(T[at[i]])
  BY <1>2, LenProperties DEF Spells
<1>6. IsRow(s) /\ \A i \in 1 .. Len(s) : I \cap Above(T, at[i]) = {at[j] : j \in Holds(s, i)}
  <2>1. f + 1 \in Nat /\ f + 1 >= 1
    BY <1>1
  <2>2. ASSUME NEW i \in 1 .. Len(s)
        PROVE  I \cap Above(T, at[i]) = {at[j] : j \in Holds(s, i)}
    <3> DEFINE low == f + 1
    <3>1. low \in Nat /\ low >= 1 /\ Spells(T, s, at, low, e)
      BY <1>2, <2>1
    <3> HIDE DEF low
    <3>2. Inner(T, low, e) \cap Above(T, at[i]) = {at[j] : j \in Holds(s, i)}
      BY <3>1, AroundTells
    <3> QED
      BY <3>2 DEF low
  <2>3. IsRow(s)
    BY <1>2 DEF Spells, IsRow
  <2> QED
    BY <2>2, <2>3
<1> HIDE DEF I
<1>7. \A i \in 1 .. Len(s) : place(at[i]) = i - 1
  BY <1>5, PlacesTell
<1>8. I = {at[i] : i \in 1 .. Len(s)}
  <2>1. DOMAIN at = 1 .. Len(s)
    BY <1>5, LenProperties
  <2> QED
    BY <1>5, <2>1 DEF Lists, ToSet
<1> HIDE DEF place
<1>9. \A i \in 1 .. Len(s) : around(at[i]) = {j - 1 : j \in Holds(s, i)}
  <2>1. SUFFICES ASSUME NEW i \in 1 .. Len(s) PROVE around(at[i]) = {j - 1 : j \in Holds(s, i)}
    OBVIOUS
  <2>2. around(at[i]) = {place(q) : q \in {at[j] : j \in Holds(s, i)}}
    BY <1>6
  <2>3. \A j \in Holds(s, i) : place(at[j]) = j - 1
    BY <1>7 DEF Holds
  <2> HIDE DEF around
  <2> QED
    BY <2>2, <2>3
<1> HIDE DEF around
<1>10. {<<place(p), Kind(T[p]), Label(T[p]), around(p)>> : p \in I}
         = {<<i - 1, s[i].kind, s[i].label, {j - 1 : j \in Holds(s, i)}>> : i \in 1 .. Len(s)}
  <2>1. \A i \in 1 .. Len(s) :
          <<place(at[i]), Kind(T[at[i]]), Label(T[at[i]]), around(at[i])>>
            = <<i - 1, s[i].kind, s[i].label, {j - 1 : j \in Holds(s, i)}>>
    BY <1>5, <1>7, <1>9
  <2> DEFINE told(p) == <<place(p), Kind(T[p]), Label(T[p]), around(p)>>
             fact(i) == <<i - 1, s[i].kind, s[i].label, {j - 1 : j \in Holds(s, i)}>>
  <2>2. \A i \in 1 .. Len(s) : told(at[i]) = fact(i)
    BY <2>1
  <2> HIDE DEF told, fact
  <2>3. {told(p) : p \in I} = {fact(i) : i \in 1 .. Len(s)}
    BY <1>8, <2>2
  <2> QED
    BY <2>3 DEF told, fact
<1>11. Outline(T, f) = Facts(T[f].label, s)
  BY <1>4, <1>10 DEF Facts
<1> QED
  BY <1>6, <1>11 DEF s

(* normalize: the label, then the parts in their order.                    *)
LEMMA NormalizeTells ==
    ASSUME NEW T, IsTree(T), NEW f \in DOMAIN T
    PROVE  LET s == Norm(T)[f + 1][T[f].last]
               r == Normalize(T, f)
           IN /\ IsShape(r) /\ s \in Seq(ShapeNodes)
              /\ r[1].label = T[f].label /\ Len(r) = Len(s) + 1
              /\ \A i \in 1 .. Len(s) : r[1 + i] = s[i]
<1> DEFINE s == Norm(T)[f + 1][T[f].last]
           here == [kind |-> "function", label |-> T[f].label, under |-> Len(s)]
           r == <<here>> \o s
<1>1. IsRow(s)
  BY OutlineIsFacts
<1>2. Normalize(T, f) = r
  BY DEF Normalize, Spelled
<1>3. T[f].label \in Words
  <2>1. T[f] \in Nodes
    BY TreeTells
  <2> QED
    BY <2>1 DEF Nodes, Words
<1> HIDE DEF s
<1>4. s \in Seq(ShapeNodes) /\ Len(s) \in Nat /\ \A i \in 1 .. Len(s) : i + s[i].under <= Len(s)
  BY <1>1, LenProperties DEF IsRow
<1>5. here \in ShapeNodes
  BY <1>3, <1>4 DEF ShapeNodes, Words
<1>6. here.under = Len(s) /\ here.label = T[f].label
  OBVIOUS
<1> HIDE DEF here
<1>7. <<here>> \in Seq(ShapeNodes) /\ Len(<<here>>) = 1 /\ <<here>>[1] = here
  BY <1>5
<1>8. /\ r \in Seq(ShapeNodes) /\ Len(r) = 1 + Len(s) /\ r[1] = here
      /\ \A i \in 1 .. Len(s) : r[1 + i] = s[i]
      /\ \A i \in 1 .. Len(r) : i = 1 \/ \E j \in 1 .. Len(s) : i = 1 + j
  <2>1. /\ <<here>> \o s \in Seq(ShapeNodes) /\ Len(<<here>> \o s) = Len(<<here>>) + Len(s)
        /\ \A i \in 1 .. Len(<<here>>) : (<<here>> \o s)[i] = <<here>>[i]
        /\ \A i \in 1 .. Len(s) : (<<here>> \o s)[Len(<<here>>) + i] = s[i]
        /\ \A i \in 1 .. Len(<<here>> \o s) :
             i \in 1 .. Len(<<here>>) \/ \E j \in 1 .. Len(s) : i = Len(<<here>>) + j
    BY <1>4, <1>7, JoinTells
  <2>2. 1 \in 1 .. 1
    OBVIOUS
  <2> QED
    BY <1>7, <2>1, <2>2
<1> HIDE DEF r
<1>9. ASSUME NEW i \in 1 .. Len(r)
      PROVE  i + r[i].under <= Len(r)
  <2>1. CASE i = 1
    BY <1>4, <1>6, <1>8, <2>1
  <2>2. CASE i # 1
    <3>1. PICK j \in 1 .. Len(s) : i = 1 + j
      BY <1>8, <2>2
    <3>2. r[i] = s[j] /\ j + s[j].under <= Len(s)
      BY <1>4, <1>8, <3>1
    <3>3. s[j].under \in Nat
      <4>1. s[j] \in ShapeNodes
        BY <1>4, ElementOfSeq
      <4> QED
        BY <4>1 DEF ShapeNodes
    <3> QED
      BY <1>4, <1>8, <3>1, <3>2, <3>3
  <2> QED
    BY <2>1, <2>2
<1>10. IsShape(r)
  BY <1>4, <1>6, <1>8, <1>9 DEF IsShape
<1> QED
  BY <1>2, <1>4, <1>6, <1>8, <1>10 DEF s

(* Functions of equal shape are functions of equal outline.                *)
LEMMA ShapesTellOutlines ==
    ASSUME NEW T, IsTree(T), NEW f \in DOMAIN T, NEW U, IsTree(U), NEW g \in DOMAIN U
    PROVE  Normalize(T, f) = Normalize(U, g) <=> Outline(T, f) = Outline(U, g)
<1> DEFINE s == Norm(T)[f + 1][T[f].last]
           t == Norm(U)[g + 1][U[g].last]
<1>1. IsRow(s) /\ Outline(T, f) = Facts(T[f].label, s) /\ IsRow(t) /\ Outline(U, g) = Facts(U[g].label, t)
  BY OutlineIsFacts
<1>2. /\ s \in Seq(ShapeNodes) /\ Normalize(T, f)[1].label = T[f].label
      /\ Len(Normalize(T, f)) = Len(s) + 1 /\ \A i \in 1 .. Len(s) : Normalize(T, f)[1 + i] = s[i]
  BY NormalizeTells
<1>3. /\ t \in Seq(ShapeNodes) /\ Normalize(U, g)[1].label = U[g].label
      /\ Len(Normalize(U, g)) = Len(t) + 1 /\ \A i \in 1 .. Len(t) : Normalize(U, g)[1 + i] = t[i]
  BY NormalizeTells
<1>4. Normalize(T, f) = Spelled("function", T[f].label, s) /\ Normalize(U, g) = Spelled("function", U[g].label, t)
  BY DEF Normalize
<1> HIDE DEF s, t
<1>5. ASSUME Normalize(T, f) = Normalize(U, g)
      PROVE  T[f].label = U[g].label /\ s = t
  <2>1. T[f].label = U[g].label
    BY <1>2, <1>3, <1>5
  <2>2. Len(s) = Len(t) /\ \A i \in 1 .. Len(s) : s[i] = t[i]
    <3>1. Len(s) \in Nat /\ Len(t) \in Nat
      BY <1>2, <1>3, LenProperties
    <3> QED
      BY <1>2, <1>3, <1>5, <3>1
  <2> QED
    BY <1>2, <1>3, <2>1, <2>2, SeqEqual
<1>6. ASSUME Outline(T, f) = Outline(U, g)
      PROVE  T[f].label = U[g].label /\ s = t
  <2> DEFINE l == T[f].label
             m == U[g].label
  <2>1. Facts(l, s) = Facts(m, t) /\ IsRow(s) /\ IsRow(t)
    BY <1>1, <1>6
  <2> HIDE DEF l, m
  <2>2. l = m /\ s = t
    BY <2>1, FactsTell
  <2> QED
    BY <2>2 DEF l, m
<1> QED
  BY <1>1, <1>4, <1>5, <1>6

(* What the duplicate pass keeps of a function of a file.                  *)
LEMMA RecordTells ==
    ASSUME NEW T, IsTree(T), NEW f \in DOMAIN T, NEW file \in Nat
    PROVE  LET r == Record(file, T, f)
           IN /\ r \in Records /\ r.file = file /\ r.at = f
              /\ r.prints = Fingerprints(Normalize(T, f))
<1> DEFINE shape == Normalize(T, f)
<1>1. IsShape(shape)
  BY NormalizeTells
<1>2. T[f] \in Nodes /\ f \in Nat
  BY TreeTells
<1>3. T[f].name \in STRING
  BY <1>2 DEF Nodes
<1>4. Record(file, T, f) = [file |-> file, at |-> f, name |-> T[f].name, nodes |-> Len(shape),
                            prints |-> Fingerprints(shape)]
  BY DEF Record
<1> HIDE DEF shape
<1>5. /\ IsFiniteSet(Fingerprints(shape)) /\ Fingerprints(shape) \in SUBSET Seq(ShapeNodes)
      /\ Fingerprints(shape) # {}
  BY <1>1, PrintsAre
<1>6. Len(shape) \in Nat
  BY <1>1, ShapeTells
<1> QED
  BY <1>2, <1>3, <1>4, <1>5, <1>6 DEF Records, shape

LEMMA RecordsTellOutlines ==
    ASSUME NEW T, IsTree(T), NEW f \in DOMAIN T, NEW U, IsTree(U), NEW g \in DOMAIN U,
           NEW n \in Nat, NEW m \in Nat
    PROVE  LET score == Jaccard(Record(n, T, f), Record(m, U, g))
           IN score.same = score.of <=> Outline(T, f) = Outline(U, g)
<1> DEFINE a == Record(n, T, f)
           b == Record(m, U, g)
           s == Normalize(T, f)
           t == Normalize(U, g)
<1>1. /\ a \in Records /\ b \in Records /\ a.prints = Fingerprints(s) /\ b.prints = Fingerprints(t)
  BY RecordTells
<1>2. IsShape(s) /\ IsShape(t)
  BY NormalizeTells
<1>3. s = t <=> Outline(T, f) = Outline(U, g)
  BY ShapesTellOutlines
<1> HIDE DEF a, b, s, t
<1>4. Jaccard(a, b).same = Jaccard(a, b).of <=> a.prints = b.prints
  BY <1>1, OneMeansSamePrints
<1>5. Fingerprints(s) = Fingerprints(t) <=> s = t
  BY <1>2, PrintsTell
<1> QED
  BY <1>1, <1>3, <1>4, <1>5 DEF a, b

-----------------------------------------------------------------------------
(* Functions *)

LEMMA AboveTells ==
    ASSUME NEW T, IsTree(T), NEW kinds
    PROVE  \A p \in DOMAIN T :
             /\ Above(T, p) \subseteq DOMAIN T
             /\ p \in Shown(T, kinds, 1, Len(T)) <=> \A q \in Above(T, p) \cup {p} : q \notin kinds
<1>1. DOMAIN T = 1 .. Len(T) /\ Len(T) \in Nat /\ \A k \in 1 .. Len(T) : T[k].last \in k .. Len(T)
  BY TreeTells
<1>2. SUFFICES ASSUME NEW p \in 1 .. Len(T)
               PROVE  /\ Above(T, p) \subseteq DOMAIN T
                      /\ p \in Shown(T, kinds, 1, Len(T)) <=> \A q \in Above(T, p) \cup {p} : q \notin kinds
  BY <1>1
<1>3. \A q \in 1 .. p : q \in 1 .. Len(T) /\ (q \in Above(T, p) \cup {p} <=> ~(T[q].last < p))
  <2>1. SUFFICES ASSUME NEW q \in 1 .. p
                 PROVE  q \in 1 .. Len(T) /\ (q \in Above(T, p) \cup {p} <=> ~(T[q].last < p))
    OBVIOUS
  <2>2. q \in 1 .. Len(T) /\ T[q].last \in Nat /\ T[p].last >= p
    BY <1>1
  <2>3. CASE q = p
    BY <2>2, <2>3
  <2>4. CASE q # p
    <3>1. q \in 1 .. p - 1
      BY <2>4
    <3> QED
      BY <2>2, <2>4, <3>1 DEF Above
  <2> QED
    BY <2>3, <2>4
<1>4. \A q \in Above(T, p) \cup {p} : q \in 1 .. p
  BY DEF Above
<1> QED
  BY <1>1, <1>3, <1>4 DEF Shown

(* Collector finds the code of a file.                                     *)
LEMMA CollectLists ==
    ASSUME NEW T, IsTree(T)
    PROVE  Collect(T) \in Seq(Nat) /\ Lists(Collect(T), Code(T)) /\ Code(T) \subseteq DOMAIN T
<1> DEFINE stops == That(T, IsTest)
           sites == {k \in OfKind(T, Callables) : HasBody(T, k)}
<1>1. DOMAIN T = 1 .. Len(T) /\ Len(T) \in Nat \ {0} /\ Forest(T, 1, Len(T)) /\ 1 <= Len(T) + 1
  BY TreeTells
<1>2. /\ Taken(T, stops, sites, 1, Len(T)) \in Seq(Nat)
      /\ Lists(Taken(T, stops, sites, 1, Len(T)), Shown(T, stops, 1, Len(T)) \cap sites)
  BY <1>1, TakenLists
<1>3. Shown(T, stops, 1, Len(T)) \cap sites = Code(T)
  <2>1. \A p \in DOMAIN T : /\ Above(T, p) \subseteq DOMAIN T
                            /\ p \in Shown(T, stops, 1, Len(T)) <=> \A q \in Above(T, p) \cup {p} : q \notin stops
    BY AboveTells
  <2>2. \A p \in DOMAIN T : p \in stops <=> IsTest(T[p])
    BY DEF That
  <2>3. \A p \in DOMAIN T : p \in sites <=> T[p].kind \in Callables /\ HasBody(T, p)
    BY DEF OfKind
  <2>4. sites \subseteq DOMAIN T /\ Code(T) \subseteq DOMAIN T
    BY DEF OfKind, Code
  <2> HIDE DEF stops, sites
  <2>5. \A p \in DOMAIN T : p \in Shown(T, stops, 1, Len(T)) <=> \A q \in Above(T, p) \cup {p} : ~IsTest(T[q])
    BY <2>1, <2>2
  <2>6. \A p \in DOMAIN T : p \in Code(T) <=> /\ T[p].kind \in Callables /\ HasBody(T, p)
                                              /\ \A q \in Above(T, p) \cup {p} : ~IsTest(T[q])
    BY DEF Code
  <2> QED
    BY <2>3, <2>4, <2>5, <2>6
<1> QED
  BY <1>2, <1>3 DEF Collect, Code

(* The children of a node cover what is inside it.                         *)
LEMMA KidsCover ==
    ASSUME NEW T, IsTree(T), NEW k \in 1 .. Len(T), NEW p \in k + 1 .. T[k].last
    PROVE  \E i \in DOMAIN T[k].kids : T[k].kids[i] <= p /\ p <= T[T[k].kids[i]].last
<1> DEFINE kids == T[k].kids
           e == T[k].last
           G == {i \in DOMAIN kids : kids[i] <= p =>
                   \E j \in DOMAIN kids : kids[j] <= p /\ p <= T[kids[j]].last}
<1>1. /\ kids \in Seq(Nat) /\ Nests(T, k) /\ e \in k .. Len(T) /\ Len(T) \in Nat
      /\ \A q \in 1 .. Len(T) : T[q].last \in q .. Len(T)
  BY TreeTells
<1>2. kids # <<>>
  BY <1>1 DEF Nests
<1>3. DOMAIN kids = 1 .. Len(kids) /\ Len(kids) \in Nat /\ Len(kids) >= 1
  BY <1>1, <1>2, LenProperties
<1>4. \A i \in 1 .. Len(kids) :
        /\ kids[i] \in k + 1 .. e
        /\ kids[i] = IF i = 1 THEN k + 1 ELSE T[kids[i - 1]].last + 1
        /\ i = Len(kids) => T[kids[i]].last = e
        /\ kids[i] \in 1 .. Len(T)
  <2>1. \A i \in 1 .. Len(kids) :
        /\ kids[i] \in k + 1 .. e
        /\ kids[i] = IF i = 1 THEN k + 1 ELSE T[kids[i - 1]].last + 1
        /\ i = Len(kids) => T[kids[i]].last = e
    BY <1>1, <1>3 DEF Nests
  <2>2. \A q \in k + 1 .. e : q \in 1 .. Len(T)
    BY <1>1
  <2> HIDE DEF kids, e
  <2> QED
    BY <2>1, <2>2
<1>5. e \in Nat /\ p \in Nat /\ p <= e /\ k + 1 <= p
  BY <1>1
<1> HIDE DEF kids, e
<1>6. ASSUME NEW i \in 1 .. Len(kids), \A j \in i + 1 .. Len(kids) : j \in G
      PROVE  i \in G
  <2>1. SUFFICES ASSUME kids[i] <= p
                 PROVE  \E j \in DOMAIN kids : kids[j] <= p /\ p <= T[kids[j]].last
    BY <1>3
  <2>2. CASE p <= T[kids[i]].last
    BY <1>3, <2>1, <2>2
  <2>3. CASE ~(p <= T[kids[i]].last)
    <3>1. i # Len(kids)
      BY <1>4, <1>5, <2>3
    <3>2. i + 1 \in 1 .. Len(kids) /\ i + 1 # 1 /\ (i + 1) - 1 = i /\ i + 1 \in i + 1 .. Len(kids)
      <4> DEFINE n == Len(kids)
      <4>4. i \in Nat /\ n \in Nat /\ 1 <= i /\ i <= n
        BY <1>3
      <4>5. i # n
        BY <3>1
      <4> HIDE DEF G, n
      <4>1. i \in Nat /\ n \in Nat /\ 1 <= i /\ i < n
        BY <4>4, <4>5
      <4>2. i + 1 \in 1 .. n /\ i + 1 \in i + 1 .. n
        BY <4>1
      <4>3. i + 1 # 1 /\ (i + 1) - 1 = i
        BY <4>1
      <4> QED
        BY <4>2, <4>3 DEF n
    <3>3. kids[i + 1] = T[kids[i]].last + 1
      BY <1>4, <3>2
    <3>4. T[kids[i]].last \in Nat
      BY <1>1, <1>4
    <3>5. kids[i + 1] <= p
      BY <1>5, <2>3, <3>3, <3>4
    <3>6. i + 1 \in G
      BY <1>6, <3>2
    <3> QED
      BY <3>5, <3>6
  <2> QED
    BY <2>2, <2>3
<1> HIDE DEF G
<1>7. 1 \in G
  <2>1. 1 \in Nat /\ Len(kids) \in Nat
    BY <1>3
  <2>2. \A i \in 1 .. Len(kids) : i \in G
    BY <1>6, <2>1, FromTheTop
  <2> QED
    BY <1>3, <2>2
<1>8. kids[1] <= p
  <2>1. 1 \in 1 .. Len(kids)
    BY <1>3
  <2>2. kids[1] = k + 1
    BY <1>4, <2>1
  <2> QED
    BY <1>5, <2>2
<1> QED
  BY <1>7, <1>8 DEF G, kids

(* The nodes of a row that are inside of no other of it.                   *)
Tops(T, from, to) == {p \in from .. to : \A q \in from .. p - 1 : T[q].last < p}

LEMMA TopsAreKids ==
    ASSUME NEW T, IsTree(T), NEW k \in 1 .. Len(T), NEW p \in Tops(T, k + 1, T[k].last)
    PROVE  p \in ToSet(T[k].kids)
<1>1. p \in k + 1 .. T[k].last /\ \A q \in k + 1 .. p - 1 : T[q].last < p
  BY DEF Tops
<1>2. PICK i \in DOMAIN T[k].kids : T[k].kids[i] <= p /\ p <= T[T[k].kids[i]].last
  BY <1>1, KidsCover
<1>3. T[k].kids[i] \in k + 1 .. T[k].last /\ T[k].last \in Nat
  BY TreeTells DEF Nests
<1> DEFINE c == T[k].kids[i]
<1>4. c \in Nat /\ k + 1 <= c /\ c <= p /\ p <= T[c].last /\ p \in Nat
  BY <1>1, <1>2, <1>3
<1>5. T[c].last \in Nat
  <2>1. c \in 1 .. Len(T)
    BY <1>3, TreeTells
  <2> QED
    BY <2>1, TreeTells
<1> HIDE DEF c
<1>6. c = p
  <2>1. SUFFICES ASSUME c # p PROVE FALSE
    OBVIOUS
  <2>2. c \in k + 1 .. p - 1
    BY <1>4, <2>1
  <2> QED
    BY <1>1, <1>4, <1>5, <2>2
<1> QED
  BY <1>2, <1>6 DEF ToSet, c

(* Found functions, one file's after another's: where they are, in order.  *)
Marks(s, S) == {s[i].at : i \in DOMAIN s} = S /\ \A i, j \in DOMAIN s : i < j => s[i].at < s[j].at

LEMMA MarksJoin ==
    ASSUME NEW X, \A x \in X : x.at \in Nat, NEW s \in Seq(X), NEW t \in Seq(X), NEW A, NEW B,
           Marks(s, A), Marks(t, B), \A a \in A, b \in B : a < b
    PROVE  s \o t \in Seq(X) /\ Marks(s \o t, A \cup B)
<1> DEFINE r == s \o t
<1>1. /\ r \in Seq(X) /\ DOMAIN r = 1 .. Len(r) /\ Len(r) = Len(s) + Len(t)
      /\ Len(s) \in Nat /\ Len(t) \in Nat
      /\ \A i \in 1 .. Len(s) : i \in 1 .. Len(r) /\ r[i] = s[i]
      /\ \A i \in 1 .. Len(t) : Len(s) + i \in 1 .. Len(r) /\ r[Len(s) + i] = t[i]
      /\ \A i \in 1 .. Len(r) : i \in 1 .. Len(s) \/ \E j \in 1 .. Len(t) : i = Len(s) + j
  BY JoinTells
<1> HIDE DEF r
<1>2. /\ DOMAIN s = 1 .. Len(s) /\ DOMAIN t = 1 .. Len(t)
  BY LenProperties
<1>3. /\ \A i \in 1 .. Len(s) : s[i].at \in A
      /\ \A a \in A : \E i \in 1 .. Len(s) : s[i].at = a
      /\ \A i \in 1 .. Len(t) : t[i].at \in B
      /\ \A b \in B : \E i \in 1 .. Len(t) : t[i].at = b
      /\ \A i, j \in 1 .. Len(s) : i < j => s[i].at < s[j].at
      /\ \A i, j \in 1 .. Len(t) : i < j => t[i].at < t[j].at
  BY <1>2 DEF Marks
<1>4. {r[i].at : i \in DOMAIN r} = A \cup B
  <2>1. ASSUME NEW i \in 1 .. Len(r) PROVE r[i].at \in A \cup B
    <3>1. CASE i \in 1 .. Len(s)
      BY <1>1, <1>3, <3>1
    <3>2. CASE i \notin 1 .. Len(s)
      <4>1. PICK j \in 1 .. Len(t) : i = Len(s) + j
        BY <1>1, <3>2
      <4>2. r[i] = t[j]
        BY <1>1, <4>1
      <4> QED
        BY <1>3, <4>2
    <3> QED
      BY <3>1, <3>2
  <2>2. ASSUME NEW a \in A \cup B PROVE \E i \in 1 .. Len(r) : r[i].at = a
    <3>1. CASE a \in A
      <4>1. PICK i \in 1 .. Len(s) : s[i].at = a
        BY <1>3, <3>1
      <4> QED
        BY <1>1, <4>1
    <3>2. CASE a \in B
      <4>1. PICK i \in 1 .. Len(t) : t[i].at = a
        BY <1>3, <3>2
      <4> QED
        BY <1>1, <4>1
    <3> QED
      BY <3>1, <3>2
  <2> QED
    BY <1>1, <2>1, <2>2
<1>5. ASSUME NEW i \in 1 .. Len(r), NEW j \in 1 .. Len(r), i < j
      PROVE  r[i].at < r[j].at
  <2>1. CASE i \in 1 .. Len(s) /\ j \in 1 .. Len(s)
    BY <1>1, <1>3, <1>5, <2>1
  <2>2. CASE i \in 1 .. Len(s) /\ j \notin 1 .. Len(s)
    <3>1. PICK b \in 1 .. Len(t) : j = Len(s) + b
      BY <1>1, <2>2
    <3>2. r[i] = s[i] /\ r[j] = t[b]
      BY <1>1, <2>2, <3>1
    <3>3. s[i].at \in A /\ t[b].at \in B
      BY <1>3, <2>2
    <3> QED
      BY <3>2, <3>3
  <2>3. CASE i \notin 1 .. Len(s)
    <3>1. PICK a \in 1 .. Len(t) : i = Len(s) + a
      BY <1>1, <2>3
    <3>2. j \notin 1 .. Len(s)
      BY <1>1, <1>5, <2>3
    <3>3. PICK b \in 1 .. Len(t) : j = Len(s) + b
      BY <1>1, <3>2
    <3>4. a < b
      BY <1>1, <1>5, <3>1, <3>3
    <3> QED
      BY <1>1, <1>3, <3>1, <3>3, <3>4
  <2> QED
    BY <2>1, <2>2, <2>3
<1>6. Marks(r, A \cup B)
  BY <1>1, <1>4, <1>5 DEF Marks
<1> QED
  BY <1>1, <1>6 DEF r

(* What a visitor keeps that stops at some nodes and may keep those too.   *)
Held(T, stops, sites, from, to) ==
    {p \in from .. to : p \in sites /\ \A q \in from .. p - 1 : q \in stops => T[q].last < p}

LEMMA HeldSplit ==
    ASSUME NEW T, NEW a \in Nat, NEW b \in Nat, NEW c \in Nat, Forest(T, a, b), a <= b + 1, b <= c,
           NEW stops, NEW sites
    PROVE  Held(T, stops, sites, a, c) = Held(T, stops, sites, a, b) \cup Held(T, stops, sites, b + 1, c)
<1>1. \A q \in a .. b : T[q].last \in q .. b
  BY DEF Forest
<1>2. \A p \in a .. b : p \in Held(T, stops, sites, a, c) <=> p \in Held(T, stops, sites, a, b)
  BY DEF Held
<1>3. ASSUME NEW p \in b + 1 .. c
      PROVE  p \in Held(T, stops, sites, a, c) <=> p \in Held(T, stops, sites, b + 1, c)
  <2>1. \A q \in a .. p - 1 : q \in b + 1 .. p - 1 \/ (q \in a .. b /\ T[q].last < p)
    BY <1>1
  <2>2. \A q \in b + 1 .. p - 1 : q \in a .. p - 1
    OBVIOUS
  <2>3. p \in a .. c
    OBVIOUS
  <2> QED
    BY <2>1, <2>2, <2>3 DEF Held
<1>4. \A p \in a .. c : p \in a .. b \/ p \in b + 1 .. c
  OBVIOUS
<1>5. /\ \A p \in Held(T, stops, sites, a, c) : p \in a .. c
      /\ \A p \in Held(T, stops, sites, a, b) : p \in a .. b
      /\ \A p \in Held(T, stops, sites, b + 1, c) : p \in b + 1 .. c
  BY DEF Held
<1> QED
  BY <1>2, <1>3, <1>4, <1>5

LEMMA HeldStep ==
    ASSUME NEW T, NEW k \in Nat, NEW e \in Nat, k <= e, T[k].last = e, NEW stops, NEW sites
    PROVE  /\ k \in stops => Held(T, stops, sites, k, e) = {k} \cap sites
           /\ k \notin stops => Held(T, stops, sites, k, e) = ({k} \cap sites) \cup Held(T, stops, sites, k + 1, e)
<1>1. \A p \in k .. e : p = k \/ p \in k + 1 .. e
  OBVIOUS
<1>2. k \in Held(T, stops, sites, k, e) <=> k \in sites
  BY DEF Held
<1>3. /\ \A p \in Held(T, stops, sites, k, e) : p \in k .. e
      /\ \A p \in Held(T, stops, sites, k + 1, e) : p \in k + 1 .. e
  BY DEF Held
<1>4. ASSUME k \in stops
      PROVE  \A p \in k + 1 .. e : p \notin Held(T, stops, sites, k, e)
  <2>1. \A p \in k + 1 .. e : k \in k .. p - 1 /\ ~(e < p)
    OBVIOUS
  <2> QED
    BY <1>4, <2>1 DEF Held
<1>5. ASSUME k \notin stops
      PROVE  \A p \in k + 1 .. e : p \in Held(T, stops, sites, k, e) <=> p \in Held(T, stops, sites, k + 1, e)
  <2>1. SUFFICES ASSUME NEW p \in k + 1 .. e
                 PROVE  p \in Held(T, stops, sites, k, e) <=> p \in Held(T, stops, sites, k + 1, e)
    OBVIOUS
  <2>2. \A q : q \in k .. p - 1 <=> q = k \/ q \in k + 1 .. p - 1
    BY <2>1
  <2>3. p \in k .. e
    BY <2>1
  <2> QED
    BY <1>5, <2>1, <2>2, <2>3 DEF Held
<1>6. k \in stops => Held(T, stops, sites, k, e) = {k} \cap sites
  BY <1>1, <1>2, <1>3, <1>4
<1>7. k \notin stops => Held(T, stops, sites, k, e) = ({k} \cap sites) \cup Held(T, stops, sites, k + 1, e)
  BY <1>1, <1>2, <1>3, <1>5
<1> QED
  BY <1>6, <1>7

(* The recursion of Visit, and that there is such a function.              *)
VisitAt(T, visit, k) ==
    [to \in 0 .. Len(T) |-> [owner \in Owners(T) |->
       IF k > to THEN [out |-> <<>>, owner |-> owner]
       ELSE LET here == VisitNode(T, visit, k, owner)
                rest == visit[T[k].last + 1][to][here.owner]
            IN [out |-> here.out \o rest.out, owner |-> rest.owner]]]
IsVisit(T, visit) == visit = [k \in 1 .. Len(T) + 1 |-> VisitAt(T, visit, k)]

LEMMA VisitsExist ==
    ASSUME NEW T, IsTree(T)
    PROVE  \E visit : IsVisit(T, visit)
<1> DEFINE D == 1 .. Len(T) + 1
           Row(g, n) == VisitAt(T, g, n)
           G == {k \in D : \E g : \A n \in D : n >= k => g[n] = Row(g, n)}
<1>1. Len(T) \in Nat /\ Len(T) + 1 \in Nat /\ 1 \in D
  BY TreeTells
<1>2. ASSUME NEW g, NEW h, NEW k \in D, \A n \in D : n > k => g[n] = h[n]
      PROVE  Row(g, k) = Row(h, k)
  <2>1. CASE k = Len(T) + 1
    <3>1. \A to \in 0 .. Len(T) : k > to
      BY <1>1, <2>1
    <3> QED
      BY <3>1 DEF VisitAt
  <2>2. CASE k # Len(T) + 1
    <3>1. T[k].last + 1 \in D /\ T[k].last + 1 > k /\ k + 1 \in D /\ k + 1 > k
      <4>1. k \in 1 .. Len(T)
        BY <1>1, <2>2
      <4>2. T[k].last \in k .. Len(T)
        BY <4>1, TreeTells
      <4> QED
        BY <1>1, <4>1, <4>2
    <3>2. g[T[k].last + 1] = h[T[k].last + 1] /\ g[k + 1] = h[k + 1]
      BY <1>2, <3>1
    <3>3. \A owner \in Owners(T) : VisitNode(T, g, k, owner) = VisitNode(T, h, k, owner)
      BY <3>2 DEF VisitNode, VisitOwned
    <3> QED
      BY <3>2, <3>3 DEF VisitAt
  <2> QED
    BY <2>1, <2>2
<1> HIDE DEF Row
<1>3. ASSUME NEW k \in D, \A j \in k + 1 .. Len(T) + 1 : j \in G
      PROVE  k \in G
  <2>1. PICK g : \A n \in D : n >= k + 1 => g[n] = Row(g, n)
    <3>1. CASE k + 1 \in D
      <4>1. k + 1 \in k + 1 .. Len(T) + 1
        BY <1>1, <3>1
      <4> QED
        BY <1>3, <4>1
    <3>2. CASE k + 1 \notin D
      <4>1. \A n \in D : ~(n >= k + 1)
        BY <1>1, <3>2
      <4> QED
        BY <4>1
    <3> QED
      BY <3>1, <3>2
  <2> DEFINE h == [n \in D |-> Row(g, n)]
  <2>2. \A n \in D : h[n] = Row(g, n) /\ (n >= k + 1 => h[n] = g[n])
    BY <2>1
  <2> HIDE DEF h
  <2>3. ASSUME NEW n \in D, n >= k
        PROVE  h[n] = Row(h, n)
    <3>1. \A m \in D : m > n => g[m] = h[m]
      BY <1>1, <2>2, <2>3
    <3> QED
      BY <1>2, <2>2, <3>1
  <2> QED
    BY <2>3
<1> HIDE DEF G
<1>4. 1 \in G
  <2>1. \A k \in 1 .. Len(T) + 1 : k \in G
    BY <1>1, <1>3, FromTheTop
  <2> QED
    BY <1>1, <2>1
<1>5. PICK g : \A n \in D : n >= 1 => g[n] = Row(g, n)
  BY <1>4 DEF G
<1> DEFINE h == [n \in D |-> g[n]]
<1>6. \A n \in D : Row(g, n) = Row(h, n) /\ g[n] = Row(g, n)
  <2>1. SUFFICES ASSUME NEW n \in D PROVE Row(g, n) = Row(h, n) /\ g[n] = Row(g, n)
    OBVIOUS
  <2>2. \A m \in D : m > n => g[m] = h[m]
    OBVIOUS
  <2>3. n >= 1
    BY <1>1
  <2> HIDE DEF h
  <2> QED
    BY <1>2, <1>5, <2>2, <2>3
<1>7. h = [n \in D |-> Row(h, n)]
  BY <1>6
<1> QED
  BY <1>7 DEF IsVisit, Row

LEMMA VisitIsVisit ==
    ASSUME NEW T, IsTree(T), NEW k \in 1 .. Len(T) + 1, NEW to \in 0 .. Len(T), NEW owner \in Owners(T)
    PROVE  /\ k > to => Visit(T)[k][to][owner] = [out |-> <<>>, owner |-> owner]
           /\ k <= to => LET here == VisitNode(T, Visit(T), k, owner)
                             rest == Visit(T)[T[k].last + 1][to][here.owner]
                         IN Visit(T)[k][to][owner] = [out |-> here.out \o rest.out, owner |-> rest.owner]
<1> DEFINE visit == CHOOSE g : IsVisit(T, g)
<1>1. IsVisit(T, visit)
  BY VisitsExist
<1>2. Visit(T) = visit
  BY DEF Visit, IsVisit, VisitAt
<1> HIDE DEF visit
<1>3. visit[k] = VisitAt(T, visit, k)
  BY <1>1 DEF IsVisit
<1>4. Len(T) \in Nat
  BY TreeTells
<1>6. visit[k][to][owner] =
        IF k > to THEN [out |-> <<>>, owner |-> owner]
        ELSE LET here == VisitNode(T, visit, k, owner)
                 rest == visit[T[k].last + 1][to][here.owner]
             IN [out |-> here.out \o rest.out, owner |-> rest.owner]
  <2> DEFINE here(o) == VisitNode(T, visit, k, o)
             rest(t, o) == visit[T[k].last + 1][t][here(o).owner]
             cell(t, o) == IF k > t THEN [out |-> <<>>, owner |-> o]
                           ELSE [out |-> here(o).out \o rest(t, o).out, owner |-> rest(t, o).owner]
  <2>1. VisitAt(T, visit, k) = [t \in 0 .. Len(T) |-> [o \in Owners(T) |-> cell(t, o)]]
    BY DEF VisitAt
  <2> HIDE DEF cell
  <2>2. VisitAt(T, visit, k)[to][owner] = cell(to, owner)
    BY <2>1
  <2> QED
    BY <1>3, <2>2 DEF cell
<1>7. k <= to => ~(k > to)
  BY <1>4
<1> QED
  BY <1>2, <1>6, <1>7

(* What a visit of a row of nodes finds, and whose it takes it for.        *)
Finds(T) == [at : Nat, owner : Owners(T)]
Barred(T) == {q \in DOMAIN T : IsTest(T[q]) \/ T[q].kind \in Callables}
Tested(T) == {q \in DOMAIN T : T[q].kind \in Callables /\ HasBody(T, q) /\ ~T[q].test}
OwnedBy(T, e, from, to, owner) ==
    \/ T[e.at].kind # "method" /\ e.owner = ""
    \/ \E q \in DOMAIN T : e.at \in ToSet(T[q].kids) /\ e.owner = T[q].name
    \/ T[e.at].kind = "method" /\ e.at \in Tops(T, from, to) /\ e.owner = owner
Seen(T, v, from, to, owner) ==
    /\ v \in [out : Seq(Finds(T)), owner : Owners(T)] /\ v.owner = owner
    /\ Marks(v.out, Held(T, Barred(T), Tested(T), from, to))
    /\ \A i \in DOMAIN v.out : OwnedBy(T, v.out[i], from, to, owner)

LEMMA NothingSeen ==
    ASSUME NEW T, NEW from, NEW to, NEW owner \in Owners(T), Held(T, Barred(T), Tested(T), from, to) = {}
    PROVE  Seen(T, [out |-> <<>>, owner |-> owner], from, to, owner)
<1> DEFINE v == [out |-> <<>>, owner |-> owner]
<1>2. <<>> \in Seq(Finds(T)) /\ DOMAIN <<>> = {}
  OBVIOUS
<1>1. v.out = <<>> /\ v.owner = owner /\ v \in [out : Seq(Finds(T)), owner : Owners(T)]
  BY <1>2
<1>3. Marks(<<>>, {})
  BY <1>2 DEF Marks
<1> HIDE DEF v
<1>4. Seen(T, v, from, to, owner)
  BY <1>1, <1>2, <1>3 DEF Seen
<1> QED
  BY <1>4 DEF v

LEMMA SeenJoin ==
    ASSUME NEW T, NEW a \in Nat, NEW b \in Nat, NEW c \in Nat, Forest(T, a, b), a <= b + 1, b <= c,
           NEW owner, NEW v, NEW w, Seen(T, v, a, b, owner), Seen(T, w, b + 1, c, owner)
    PROVE  Seen(T, [out |-> v.out \o w.out, owner |-> w.owner], a, c, owner)
<1> DEFINE s == v.out
           t == w.out
           r == s \o t
           A == Held(T, Barred(T), Tested(T), a, b)
           B == Held(T, Barred(T), Tested(T), b + 1, c)
           X == Finds(T)
<1>1. s \in Seq(X) /\ t \in Seq(X) /\ Marks(s, A) /\ Marks(t, B) /\ w.owner = owner /\ owner \in Owners(T)
  BY DEF Seen
<1>2. \A x \in A, y \in B : x < y
  <2>1. \A x \in A : x \in a .. b
    BY DEF Held
  <2>2. \A y \in B : y \in b + 1 .. c
    BY DEF Held
  <2> HIDE DEF A, B
  <2> QED
    BY <2>1, <2>2
<1>3. \A x \in X : x.at \in Nat
  BY DEF Finds
<1>4. Held(T, Barred(T), Tested(T), a, c) = A \cup B
  BY HeldSplit
<1>5. /\ \A i \in DOMAIN s : OwnedBy(T, s[i], a, b, owner)
      /\ \A i \in DOMAIN t : OwnedBy(T, t[i], b + 1, c, owner)
  BY DEF Seen
<1>6. Tops(T, a, b) \subseteq Tops(T, a, c) /\ Tops(T, b + 1, c) \subseteq Tops(T, a, c)
  <2>1. \A q \in a .. b : T[q].last \in q .. b
    BY DEF Forest
  <2>2. Tops(T, a, b) \subseteq Tops(T, a, c)
    BY DEF Tops
  <2>3. ASSUME NEW p \in Tops(T, b + 1, c) PROVE p \in Tops(T, a, c)
    <3>1. p \in b + 1 .. c /\ \A q \in b + 1 .. p - 1 : T[q].last < p
      BY DEF Tops
    <3>2. \A q \in a .. p - 1 : q \in b + 1 .. p - 1 \/ (q \in a .. b /\ T[q].last < p)
      BY <2>1, <3>1
    <3>3. p \in a .. c
      BY <3>1
    <3> QED
      BY <3>1, <3>2, <3>3 DEF Tops
  <2> QED
    BY <2>2, <2>3
<1> HIDE DEF s, t, A, B, X
<1>7. r \in Seq(X) /\ Marks(r, A \cup B)
  BY <1>1, <1>2, <1>3, MarksJoin
<1>8. /\ DOMAIN r = 1 .. Len(r) /\ DOMAIN s = 1 .. Len(s) /\ DOMAIN t = 1 .. Len(t)
      /\ \A i \in 1 .. Len(s) : r[i] = s[i]
      /\ \A i \in 1 .. Len(t) : r[Len(s) + i] = t[i]
      /\ \A i \in 1 .. Len(r) : i \in 1 .. Len(s) \/ \E j \in 1 .. Len(t) : i = Len(s) + j
  BY <1>1, JoinTells, LenProperties
<1>9. ASSUME NEW e, OwnedBy(T, e, a, b, owner) \/ OwnedBy(T, e, b + 1, c, owner)
      PROVE  OwnedBy(T, e, a, c, owner)
  BY <1>6, <1>9 DEF OwnedBy
<1> HIDE DEF r
<1>10. ASSUME NEW i \in 1 .. Len(r)
       PROVE  OwnedBy(T, r[i], a, c, owner)
  <2>1. CASE i \in 1 .. Len(s)
    BY <1>5, <1>8, <1>9, <2>1
  <2>2. CASE i \notin 1 .. Len(s)
    <3>1. PICK j \in 1 .. Len(t) : i = Len(s) + j
      BY <1>8, <2>2
    <3>2. r[i] = t[j]
      BY <1>8, <3>1
    <3> QED
      BY <1>5, <1>8, <1>9, <3>2
  <2> QED
    BY <2>1, <2>2
<1> DEFINE z == [out |-> r, owner |-> w.owner]
<1>11. z.out = r /\ z.owner = owner /\ z \in [out : Seq(X), owner : Owners(T)]
  BY <1>1, <1>7
<1> HIDE DEF z
<1>12. Seen(T, z, a, c, owner)
  BY <1>4, <1>7, <1>8, <1>10, <1>11 DEF Seen, X
<1> QED
  BY <1>12 DEF z, r, s, t

(* A function is found where it stands, in the name it is visited under.   *)
LEMMA PushSeen ==
    ASSUME NEW T, IsTree(T), NEW k \in 1 .. Len(T), T[k].kind \in Callables, NEW owner \in Owners(T)
    PROVE  Seen(T, [out |-> Push(T, k, owner), owner |-> owner], k, T[k].last, owner)
<1>1. /\ DOMAIN T = 1 .. Len(T) /\ Len(T) \in Nat /\ T[k].last \in k .. Len(T)
  BY TreeTells
<1>2. k \in Barred(T) /\ (k \in Tested(T) <=> ~(T[k].test \/ ~HasBody(T, k)))
  BY <1>1 DEF Barred, Tested
<1>3. Held(T, Barred(T), Tested(T), k, T[k].last) = {k} \cap Tested(T)
  <2> DEFINE e == T[k].last
  <2>1. k \in Nat /\ e \in Nat /\ k <= e /\ T[k].last = e
    BY <1>1
  <2> HIDE DEF e
  <2>2. Held(T, Barred(T), Tested(T), k, e) = {k} \cap Tested(T)
    BY <1>2, <2>1, HeldStep
  <2> QED
    BY <2>2 DEF e
<1>4. CASE k \notin Tested(T)
  <2>1. Push(T, k, owner) = <<>>
    BY <1>2, <1>4 DEF Push
  <2> QED
    BY <1>3, <1>4, <2>1, NothingSeen
<1>5. CASE k \in Tested(T)
  <2> DEFINE entry == [at |-> k, owner |-> IF T[k].kind = "method" THEN owner ELSE ""]
             v == [out |-> <<entry>>, owner |-> owner]
  <2>1. Push(T, k, owner) = <<entry>>
    BY <1>2, <1>5 DEF Push
  <2>2. entry \in Finds(T)
    <3>1. "" \in Owners(T)
      BY DEF Owners
    <3>2. k \in Nat
      BY <1>1
    <3> QED
      BY <3>1, <3>2 DEF Finds
  <2>3. entry.at = k /\ entry.owner = IF T[k].kind = "method" THEN owner ELSE ""
    OBVIOUS
  <2>4. k \in Tops(T, k, T[k].last)
    BY <1>1 DEF Tops
  <2>5. OwnedBy(T, entry, k, T[k].last, owner)
    <3> HIDE DEF entry
    <3> QED
      BY <2>3, <2>4 DEF OwnedBy
  <2>6. v.out = <<entry>> /\ v.owner = owner /\ v \in [out : Seq(Finds(T)), owner : Owners(T)]
    <3> HIDE DEF entry
    <3> QED
      BY <2>2
  <2> HIDE DEF entry, v
  <2>7. /\ <<entry>> \in Seq(Finds(T)) /\ DOMAIN <<entry>> = {1} /\ <<entry>>[1] = entry
    BY <2>2
  <2>8. Marks(<<entry>>, {k})
    <3> DEFINE one == <<entry>>
    <3>1. DOMAIN one = {1} /\ one[1].at = k
      BY <2>3, <2>7
    <3> HIDE DEF one
    <3>2. {one[i].at : i \in DOMAIN one} = {k}
      BY <3>1
    <3>3. \A i, j \in DOMAIN one : ~(i < j)
      BY <3>1
    <3>4. Marks(one, {k})
      BY <3>2, <3>3 DEF Marks
    <3> QED
      BY <3>4 DEF one
  <2>9. Seen(T, v, k, T[k].last, owner)
    BY <1>3, <1>5, <2>5, <2>6, <2>7, <2>8 DEF Seen
  <2> QED
    BY <2>1, <2>9 DEF v
<1> QED
  BY <1>4, <1>5

(* VisitNode: a node and what is inside it.                                *)
LEMMA NodeSeen ==
    ASSUME NEW T, IsTree(T), NEW k \in 1 .. Len(T), NEW visit, NEW owner \in Owners(T),
           \A name \in Owners(T) : Seen(T, visit[k + 1][T[k].last][name], k + 1, T[k].last, name)
    PROVE  Seen(T, VisitNode(T, visit, k, owner), k, T[k].last, owner)
<1> DEFINE e == T[k].last
           inside(name) == visit[k + 1][e][name]
           held(from) == Held(T, Barred(T), Tested(T), from, e)
<1>1. /\ DOMAIN T = 1 .. Len(T) /\ Len(T) \in Nat /\ e \in k .. Len(T) /\ Shaped(T, k)
      /\ \A q \in DOMAIN T : T[q].kids \in Seq(Nat)
  BY TreeTells
<1>2. k \in Nat /\ e \in Nat /\ k <= e
  BY <1>1
<1>3. /\ k \in Barred(T) => held(k) = {k} \cap Tested(T)
      /\ k \notin Barred(T) => held(k) = ({k} \cap Tested(T)) \cup held(k + 1)
  <2> HIDE DEF e
  <2>1. T[k].last = e
    BY DEF e
  <2> QED
    BY <1>2, <2>1, HeldStep
<1>4. CASE T[k].kind \in Callables
  <2>1. VisitNode(T, visit, k, owner) = [out |-> Push(T, k, owner), owner |-> owner]
    <3>1. T[k].kind \notin {"impl", "trait"} /\ T[k].kind # "mod"
      BY <1>4 DEF Callables
    <3> QED
      BY <1>4, <3>1 DEF VisitNode
  <2> QED
    BY <1>4, <2>1, PushSeen
<1>5. CASE T[k].kind \in {"impl", "trait"}
  <2> DEFINE name == T[k].name
             w == inside(name)
             v == [w EXCEPT !.owner = owner]
  <2>1. VisitNode(T, visit, k, owner) = v
    BY <1>5 DEF VisitNode, VisitOwned, Callables
  <2>2. name \in Owners(T)
    BY <1>1 DEF Owners
  <2>3. Seen(T, w, k + 1, e, name)
    BY <2>2
  <2>4. k \notin Barred(T) /\ k \notin Tested(T)
    BY <1>5 DEF Barred, Tested, IsTest, Callables
  <2>5. held(k) = held(k + 1)
    BY <1>3, <2>4
  <2>6. \A i \in DOMAIN w.out : OwnedBy(T, w.out[i], k, e, owner)
    <3>1. SUFFICES ASSUME NEW i \in DOMAIN w.out PROVE OwnedBy(T, w.out[i], k, e, owner)
      OBVIOUS
    <3> DEFINE x == w.out[i]
    <3>2. OwnedBy(T, x, k + 1, e, name)
      BY <2>3, <3>1 DEF Seen
    <3>3. x.at \in Tops(T, k + 1, e) => x.at \in ToSet(T[k].kids)
      BY TopsAreKids
    <3> HIDE DEF x
    <3>4. OwnedBy(T, x, k, e, owner)
      BY <1>1, <3>2, <3>3 DEF OwnedBy
    <3> QED
      BY <3>4 DEF x
  <2>7. /\ w \in [out : Seq(Finds(T)), owner : Owners(T)]
        /\ Marks(w.out, held(k + 1))
    BY <2>3 DEF Seen
  <2> HIDE DEF w, held
  <2>8. v \in [out : Seq(Finds(T)), owner : Owners(T)] /\ v.owner = owner /\ v.out = w.out
    BY <2>7
  <2> HIDE DEF v
  <2>9. Seen(T, v, k, e, owner)
    BY <2>5, <2>6, <2>7, <2>8 DEF Seen, held
  <2> QED
    BY <2>1, <2>9
<1>6. CASE T[k].kind = "mod" /\ T[k].test
  <2>1. VisitNode(T, visit, k, owner) = [out |-> <<>>, owner |-> owner]
    BY <1>6 DEF VisitNode, Callables
  <2>2. k \in Barred(T) /\ k \notin Tested(T)
    BY <1>1, <1>6 DEF Barred, Tested, IsTest, Callables
  <2>3. held(k) = {}
    BY <1>3, <2>2
  <2> QED
    BY <2>1, <2>3, NothingSeen
<1>7. CASE T[k].kind \notin Callables /\ T[k].kind \notin {"impl", "trait"} /\ ~(T[k].kind = "mod" /\ T[k].test)
  <2> DEFINE w == inside(owner)
  <2>1. VisitNode(T, visit, k, owner) = w
    BY <1>7 DEF VisitNode
  <2>2. Seen(T, w, k + 1, e, owner)
    OBVIOUS
  <2>3. k \notin Barred(T) /\ k \notin Tested(T)
    BY <1>7 DEF Barred, Tested, IsTest
  <2>4. held(k) = held(k + 1)
    BY <1>3, <2>3
  <2>5. \A p \in Tops(T, k + 1, e) : T[p].kind # "method"
    <3>1. SUFFICES ASSUME NEW p \in Tops(T, k + 1, e) PROVE T[p].kind # "method"
      OBVIOUS
    <3>2. p \in ToSet(T[k].kids)
      BY TopsAreKids
    <3>3. PICK i \in DOMAIN T[k].kids : T[k].kids[i] = p
      BY <3>2 DEF ToSet
    <3> QED
      BY <1>1, <1>7, <3>3 DEF Shaped
  <2>6. \A i \in DOMAIN w.out : OwnedBy(T, w.out[i], k, e, owner)
    <3>1. SUFFICES ASSUME NEW i \in DOMAIN w.out PROVE OwnedBy(T, w.out[i], k, e, owner)
      OBVIOUS
    <3>2. OwnedBy(T, w.out[i], k + 1, e, owner)
      BY <2>2, <3>1 DEF Seen
    <3> QED
      BY <2>5, <3>2 DEF OwnedBy
  <2> HIDE DEF w, held
  <2>7. Seen(T, w, k, e, owner)
    BY <2>2, <2>4, <2>6 DEF Seen, held
  <2> QED
    BY <2>1, <2>7
<1> QED
  BY <1>4, <1>5, <1>6, <1>7

(* FunctionVisitor: a row of nodes, the owner put back.                    *)
LEMMA VisitSees ==
    ASSUME NEW T, IsTree(T), NEW from \in Nat, NEW end \in 0 .. Len(T), 1 <= from, from <= end + 1,
           Forest(T, from, end), NEW whose \in Owners(T)
    PROVE  Seen(T, Visit(T)[from][end][whose], from, end, whose)
<1> DEFINE N == Len(T)
           Good(k, to, owner) == Forest(T, k, to) => Seen(T, Visit(T)[k][to][owner], k, to, owner)
           G == {k \in 1 .. N + 1 : \A to \in 0 .. N, owner \in Owners(T) : k <= to + 1 => Good(k, to, owner)}
<1>1. N \in Nat /\ N + 1 \in Nat
  BY TreeTells
<1>2. ASSUME NEW k \in 1 .. N + 1, \A j \in k + 1 .. N + 1 : j \in G
      PROVE  k \in G
  <2>1. SUFFICES ASSUME NEW to \in 0 .. N, NEW owner \in Owners(T), k <= to + 1, Forest(T, k, to)
                 PROVE  Seen(T, Visit(T)[k][to][owner], k, to, owner)
    OBVIOUS
  <2>2. CASE k > to
    <3> DEFINE none == [out |-> <<>>, owner |-> owner]
               here == VisitNode(T, Visit(T), k, owner)
               rest == Visit(T)[T[k].last + 1][to][here.owner]
               both == [out |-> here.out \o rest.out, owner |-> rest.owner]
    <3>3. (k > to => Visit(T)[k][to][owner] = none) /\ (k <= to => Visit(T)[k][to][owner] = both)
      BY VisitIsVisit
    <3> HIDE DEF none, both
    <3>4. Visit(T)[k][to][owner] = none
      BY <2>2, <3>3
    <3>1. Visit(T)[k][to][owner] = [out |-> <<>>, owner |-> owner]
      BY <3>4 DEF none
    <3>2. Held(T, Barred(T), Tested(T), k, to) = {}
      BY <1>1, <2>2 DEF Held
    <3> QED
      BY <3>1, <3>2, NothingSeen
  <2>3. CASE k <= to
    <3> DEFINE e == T[k].last
               here == VisitNode(T, Visit(T), k, owner)
               rest == Visit(T)[e + 1][to][owner]
    <3>1. k \in 1 .. N /\ k \in k .. to
      BY <1>1, <2>3
    <3>2. /\ e \in k .. to /\ e \in 0 .. N /\ e \in Nat
          /\ Forest(T, k, e) /\ Forest(T, k + 1, e) /\ Forest(T, e + 1, to)
      <4>1. /\ e \in k .. to /\ Forest(T, k, e) /\ Forest(T, k + 1, e) /\ Forest(T, e + 1, to)
        BY <2>1, <3>1, ForestsWithin
      <4> QED
        BY <1>1, <3>1, <4>1
    <3>3. Seen(T, rest, e + 1, to, owner)
      <4>1. e + 1 \in k + 1 .. N + 1 /\ e + 1 <= to + 1
        BY <1>1, <3>2
      <4>2. e + 1 \in G
        BY <1>2, <4>1
      <4> HIDE DEF e
      <4> QED
        BY <3>2, <4>1, <4>2
    <3>4. \A name \in Owners(T) : Seen(T, Visit(T)[k + 1][e][name], k + 1, e, name)
      <4>1. k + 1 \in k + 1 .. N + 1 /\ k + 1 <= e + 1
        BY <1>1, <3>1, <3>2
      <4>2. k + 1 \in G
        BY <1>2, <4>1
      <4> HIDE DEF e
      <4> QED
        BY <3>2, <4>1, <4>2
    <3>5. Seen(T, here, k, e, owner)
      BY <3>1, <3>4, NodeSeen
    <3>6. here.owner = owner
      BY <3>5 DEF Seen
    <3>7. Visit(T)[k][to][owner] = [out |-> here.out \o rest.out, owner |-> rest.owner]
      <4>1. LET r == Visit(T)[e + 1][to][here.owner]
            IN Visit(T)[k][to][owner] = [out |-> here.out \o r.out, owner |-> r.owner]
        BY <2>3, <3>1, VisitIsVisit
      <4> QED
        BY <3>6, <4>1
    <3>8. k \in Nat /\ to \in Nat /\ k <= e + 1 /\ e <= to
      BY <1>1, <3>1, <3>2
    <3> HIDE DEF e, here, rest
    <3> QED
      BY <3>2, <3>3, <3>5, <3>7, <3>8, SeenJoin
  <2> QED
    BY <1>1, <2>2, <2>3
<1> HIDE DEF G
<1>3. from \in G
  <2>1. from \in 1 .. N + 1
    BY <1>1
  <2>2. \A k \in 1 .. N + 1 : k \in G
    BY <1>1, <1>2, FromTheTop
  <2> QED
    BY <2>1, <2>2
<1> QED
  BY <1>3 DEF G

(* analyze_source: the outer functions of a file, each under its owner.    *)
Owned(T, f) ==
    \/ T[f.at].kind # "method" /\ f.owner = ""
    \/ \E q \in DOMAIN T : f.at \in ToSet(T[q].kids) /\ f.owner = T[q].name

LEMMA AnalyzeTells ==
    ASSUME NEW T, IsTree(T), NEW file
    PROVE  LET fns == AnalyzeSource(file, T)
           IN /\ DOMAIN fns = 1 .. Len(fns) /\ Len(fns) \in Nat
              /\ Marks(fns, Outer(T))
              /\ \A i \in DOMAIN fns : /\ fns[i].file = file /\ fns[i].at \in Outer(T)
                                       /\ fns[i].owner \in Owners(T) /\ Owned(T, fns[i])
                                       /\ fns[i] = Entry(file, T, [at |-> fns[i].at, owner |-> fns[i].owner])
<1> DEFINE v == Visit(T)[1][Len(T)][""]
           out == v.out
           fns == AnalyzeSource(file, T)
<1>1. /\ DOMAIN T = 1 .. Len(T) /\ Len(T) \in Nat \ {0} /\ Forest(T, 1, Len(T)) /\ T[1].last = Len(T)
      /\ \A k \in 1 .. Len(T) : T[k].last \in k .. Len(T)
  BY TreeTells
<1>2. Seen(T, v, 1, Len(T), "")
  <2>1. "" \in Owners(T) /\ 1 \in Nat /\ 1 <= Len(T) + 1 /\ Len(T) \in 0 .. Len(T)
    BY <1>1 DEF Owners
  <2> DEFINE low == 1
             none == ""
             end == Len(T)
  <2>2. none \in Owners(T) /\ Forest(T, low, end)
    BY <1>1, <2>1
  <2>3. low \in Nat /\ 1 <= low /\ low <= end + 1 /\ end \in 0 .. Len(T)
    BY <1>1
  <2> HIDE DEF low, none, end
  <2>4. Seen(T, Visit(T)[low][end][none], low, end, none)
    BY <2>2, <2>3, VisitSees
  <2> QED
    BY <2>4 DEF low, none, end
<1>3. Held(T, Barred(T), Tested(T), 1, Len(T)) = Outer(T)
  <2>1. \A p \in DOMAIN T : p \in Held(T, Barred(T), Tested(T), 1, Len(T)) <=>
          p \in Tested(T) /\ \A q \in Above(T, p) : q \notin Barred(T)
    <3>1. SUFFICES ASSUME NEW p \in 1 .. Len(T)
                   PROVE  (\A q \in 1 .. p - 1 : q \in Barred(T) => T[q].last < p)
                            <=> \A q \in Above(T, p) : q \notin Barred(T)
      BY <1>1 DEF Held
    <3>2. \A q \in 1 .. p - 1 : q \in Above(T, p) <=> ~(T[q].last < p)
      <4>1. SUFFICES ASSUME NEW q \in 1 .. p - 1 PROVE q \in Above(T, p) <=> ~(T[q].last < p)
        OBVIOUS
      <4>2. q \in 1 .. Len(T) /\ T[q].last \in Nat
        BY <1>1
      <4> QED
        BY <1>1, <4>2 DEF Above
    <3>3. \A q \in Above(T, p) : q \in 1 .. p - 1
      BY DEF Above
    <3> QED
      BY <3>2, <3>3
  <2>2. \A p \in DOMAIN T : \A q \in Above(T, p) : q \in DOMAIN T
    BY AboveTells
  <2>3. \A p \in DOMAIN T : p \in Outer(T) <=> p \in Tested(T) /\ \A q \in Above(T, p) : q \notin Barred(T)
    <3>1. SUFFICES ASSUME NEW p \in DOMAIN T
                   PROVE  p \in Outer(T) <=> p \in Tested(T) /\ \A q \in Above(T, p) : q \notin Barred(T)
      OBVIOUS
    <3>2. T[p].kind \in Callables => (IsTest(T[p]) <=> T[p].test)
      BY DEF IsTest
    <3>3. \A q \in Above(T, p) : q \in Barred(T) <=> IsTest(T[q]) \/ T[q].kind \in Callables
      BY <2>2 DEF Barred
    <3>4. p \in Tested(T) <=> T[p].kind \in Callables /\ HasBody(T, p) /\ ~T[p].test
      BY DEF Tested
    <3>5. p \in Outer(T) <=> /\ T[p].kind \in Callables /\ HasBody(T, p)
                             /\ \A q \in Above(T, p) \cup {p} : ~IsTest(T[q])
                             /\ \A q \in Above(T, p) : T[q].kind \notin Callables
      BY DEF Outer, Code
    <3> QED
      BY <3>2, <3>3, <3>4, <3>5
  <2>4. Outer(T) \subseteq DOMAIN T /\ Held(T, Barred(T), Tested(T), 1, Len(T)) \subseteq DOMAIN T
    BY <1>1 DEF Outer, Code, Held
  <2> QED
    BY <2>1, <2>3, <2>4
<1>4. \A p \in Tops(T, 1, Len(T)) : T[p].kind # "method"
  <2>1. SUFFICES ASSUME NEW p \in Tops(T, 1, Len(T)) PROVE T[p].kind # "method"
    OBVIOUS
  <2>2. p \in 1 .. Len(T) /\ \A q \in 1 .. p - 1 : T[q].last < p
    BY DEF Tops
  <2>3. p = 1
    <3>1. SUFFICES ASSUME p # 1 PROVE FALSE
      OBVIOUS
    <3>2. 1 \in 1 .. p - 1
      BY <2>2, <3>1
    <3>3. Len(T) < p
      BY <1>1, <2>2, <3>2
    <3> QED
      BY <1>1, <2>2, <3>3
  <2> QED
    BY <2>3 DEF IsTree
<1>5. /\ out \in Seq(Finds(T)) /\ Marks(out, Outer(T)) /\ DOMAIN out = 1 .. Len(out) /\ Len(out) \in Nat
      /\ \A i \in DOMAIN out : Owned(T, out[i])
  <2>1. /\ out \in Seq(Finds(T)) /\ Marks(out, Outer(T))
        /\ \A i \in DOMAIN out : OwnedBy(T, out[i], 1, Len(T), "")
    BY <1>2, <1>3 DEF Seen
  <2> HIDE DEF out
  <2>2. \A i \in DOMAIN out : Owned(T, out[i])
    BY <1>4, <2>1 DEF Owned, OwnedBy
  <2> QED
    BY <2>1, <2>2, LenProperties
<1>6. fns = [i \in DOMAIN out |-> Entry(file, T, out[i])]
  BY DEF AnalyzeSource
<1> HIDE DEF out, v, fns
<1>7. DOMAIN fns = 1 .. Len(out) /\ Len(fns) = Len(out)
  <2>1. DOMAIN fns = 1 .. Len(out)
    BY <1>5, <1>6
  <2>2. fns \in Seq({Entry(file, T, out[i]) : i \in DOMAIN out})
    BY <1>5, <1>6
  <2> QED
    BY <1>5, <2>1, <2>2, LenProperties
<1>8. ASSUME NEW i \in DOMAIN fns
      PROVE  /\ i \in DOMAIN out /\ fns[i].file = file /\ fns[i].at = out[i].at /\ fns[i].owner = out[i].owner
             /\ fns[i].owner \in Owners(T)
             /\ fns[i] = Entry(file, T, [at |-> fns[i].at, owner |-> fns[i].owner])
  <2>1. i \in DOMAIN out /\ fns[i] = Entry(file, T, out[i])
    BY <1>5, <1>6, <1>7
  <2>2. out[i] \in Finds(T)
    BY <1>5, <2>1, ElementOfSeq
  <2>3. fns[i].file = file /\ fns[i].at = out[i].at /\ fns[i].owner = out[i].owner
    BY <2>1 DEF Entry
  <2>4. out[i] = [at |-> out[i].at, owner |-> out[i].owner] /\ out[i].owner \in Owners(T)
    BY <2>2 DEF Finds
  <2> QED
    BY <2>1, <2>3, <2>4
<1>9. Marks(fns, Outer(T)) /\ \A i \in DOMAIN fns : fns[i].at \in Outer(T) /\ Owned(T, fns[i])
  <2>1. {fns[i].at : i \in DOMAIN fns} = {out[i].at : i \in DOMAIN out}
    BY <1>5, <1>7, <1>8
  <2>2. \A i, j \in DOMAIN fns : i < j => fns[i].at < fns[j].at
    BY <1>5, <1>8 DEF Marks
  <2>3. \A i \in DOMAIN fns : Owned(T, fns[i])
    BY <1>5, <1>8 DEF Owned
  <2> QED
    BY <1>5, <2>1, <2>2, <2>3 DEF Marks
<1> QED
  BY <1>5, <1>7, <1>8, <1>9 DEF fns

(* One file's functions after those of the files before it.                *)
LEMMA FoundJoin ==
    ASSUME NEW X, NEW s \in Seq(X), NEW t \in Seq(X), NEW name, NEW S
    PROVE  /\ FoundIn(s, name, S) /\ (\A i \in DOMAIN t : t[i].file # name) => FoundIn(s \o t, name, S)
           /\ FoundIn(s, name, {}) /\ (\A i \in DOMAIN t : t[i].file = name) /\ Marks(t, S)
                => FoundIn(s \o t, name, S)
<1> DEFINE r == s \o t
           Mine(u) == {i \in DOMAIN u : u[i].file = name}
<1>1. /\ DOMAIN r = 1 .. Len(r) /\ DOMAIN s = 1 .. Len(s) /\ DOMAIN t = 1 .. Len(t)
      /\ Len(s) \in Nat /\ Len(t) \in Nat /\ Len(r) \in Nat
      /\ \A i \in 1 .. Len(s) : i \in 1 .. Len(r) /\ r[i] = s[i]
      /\ \A i \in 1 .. Len(t) : Len(s) + i \in 1 .. Len(r) /\ r[Len(s) + i] = t[i]
      /\ \A i \in 1 .. Len(r) : i \in 1 .. Len(s) \/ \E j \in 1 .. Len(t) : i = Len(s) + j
  <2>1. s \o t \in Seq(X)
    BY JoinTells
  <2> QED
    BY <2>1, JoinTells, LenProperties
<1> HIDE DEF r
<1>2. ASSUME FoundIn(s, name, S), \A i \in DOMAIN t : t[i].file # name
      PROVE  FoundIn(r, name, S)
  <2>1. ASSUME NEW i \in Mine(r) PROVE i \in Mine(s) /\ r[i] = s[i]
    <3>1. i \in 1 .. Len(r) /\ r[i].file = name
      BY <1>1, <2>1
    <3>2. i \in 1 .. Len(s)
      <4>1. SUFFICES ASSUME i \notin 1 .. Len(s) PROVE FALSE
        OBVIOUS
      <4>2. PICK j \in 1 .. Len(t) : i = Len(s) + j
        BY <1>1, <3>1, <4>1
      <4>3. r[i] = t[j] /\ t[j].file # name
        BY <1>1, <1>2, <4>2
      <4> QED
        BY <3>1, <4>3
    <3> QED
      BY <1>1, <3>1, <3>2
  <2>2. \A i \in Mine(s) : i \in Mine(r)
    BY <1>1
  <2>3. {s[i].at : i \in Mine(s)} = S /\ \A i, j \in Mine(s) : i < j => s[i].at < s[j].at
    BY <1>2 DEF FoundIn
  <2> HIDE DEF Mine
  <2>4. {r[i].at : i \in Mine(r)} = S /\ \A i, j \in Mine(r) : i < j => r[i].at < r[j].at
    BY <2>1, <2>2, <2>3
  <2> QED
    BY <2>4 DEF FoundIn, Mine
<1>3. ASSUME FoundIn(s, name, {}), \A i \in DOMAIN t : t[i].file = name, Marks(t, S)
      PROVE  FoundIn(r, name, S)
  <2>1. \A i \in 1 .. Len(s) : s[i].file # name
    BY <1>1, <1>3 DEF FoundIn
  <2>2. \A j \in 1 .. Len(t) : Len(s) + j \in Mine(r) /\ r[Len(s) + j] = t[j]
    BY <1>1, <1>3
  <2>3. ASSUME NEW i \in Mine(r) PROVE \E j \in 1 .. Len(t) : i = Len(s) + j
    <3>1. i \in 1 .. Len(r) /\ i \notin 1 .. Len(s)
      BY <1>1, <2>1
    <3> QED
      BY <1>1, <3>1
  <2>4. {t[i].at : i \in 1 .. Len(t)} = S /\ \A i, j \in 1 .. Len(t) : i < j => t[i].at < t[j].at
    BY <1>1, <1>3 DEF Marks
  <2> HIDE DEF Mine
  <2>5. {r[i].at : i \in Mine(r)} = S
    <3>1. ASSUME NEW i \in Mine(r) PROVE r[i].at \in S
      <4>1. PICK j \in 1 .. Len(t) : i = Len(s) + j
        BY <2>3
      <4>2. r[i] = t[j]
        BY <2>2, <4>1
      <4> QED
        BY <2>4, <4>2
    <3>2. ASSUME NEW x \in S PROVE \E i \in Mine(r) : r[i].at = x
      <4>1. PICK j \in 1 .. Len(t) : t[j].at = x
        BY <2>4
      <4> QED
        BY <2>2, <4>1
    <3> QED
      BY <3>1, <3>2
  <2>6. ASSUME NEW i \in Mine(r), NEW j \in Mine(r), i < j PROVE r[i].at < r[j].at
    <3>1. PICK a \in 1 .. Len(t) : i = Len(s) + a
      BY <2>3
    <3>2. PICK b \in 1 .. Len(t) : j = Len(s) + b
      BY <2>3
    <3>3. a < b
      BY <1>1, <2>6, <3>1, <3>2
    <3>4. r[i] = t[a] /\ r[j] = t[b]
      BY <2>2, <3>1, <3>2
    <3> QED
      BY <2>4, <3>3, <3>4
  <2> QED
    BY <2>5, <2>6 DEF FoundIn, Mine
<1> QED
  BY <1>2, <1>3 DEF r

LEMMA OwnedJoin ==
    ASSUME NEW X, NEW s \in Seq(X), NEW t \in Seq(X), NEW f, OwnedIn(s, f),
           \A i \in DOMAIN t : t[i].file = f.name => Owned(f.tree, t[i])
    PROVE  OwnedIn(s \o t, f)
<1> DEFINE r == s \o t
<1>1. /\ DOMAIN r = 1 .. Len(r) /\ DOMAIN s = 1 .. Len(s) /\ DOMAIN t = 1 .. Len(t)
      /\ \A i \in 1 .. Len(s) : r[i] = s[i]
      /\ \A i \in 1 .. Len(t) : r[Len(s) + i] = t[i]
      /\ \A i \in 1 .. Len(r) : i \in 1 .. Len(s) \/ \E j \in 1 .. Len(t) : i = Len(s) + j
  <2>1. s \o t \in Seq(X)
    BY JoinTells
  <2> QED
    BY <2>1, JoinTells, LenProperties
<1> HIDE DEF r
<1>2. \A i \in DOMAIN s : s[i].file = f.name => Owned(f.tree, s[i])
  BY DEF OwnedIn, Owned
<1>3. ASSUME NEW i \in DOMAIN r, r[i].file = f.name PROVE Owned(f.tree, r[i])
  <2>1. CASE i \in 1 .. Len(s)
    BY <1>1, <1>2, <1>3, <2>1
  <2>2. CASE i \notin 1 .. Len(s)
    <3>1. PICK j \in 1 .. Len(t) : i = Len(s) + j
      BY <1>1, <2>2
    <3>2. r[i] = t[j]
      BY <1>1, <3>1
    <3> QED
      BY <1>1, <1>3, <3>2
  <2> QED
    BY <2>1, <2>2
<1>4. OwnedIn(r, f)
  BY <1>3 DEF OwnedIn, Owned
<1> QED
  BY <1>4 DEF r

-----------------------------------------------------------------------------
(* The two passes *)

(* All that a pass can find in a file, and in the files of a run.          *)
EntriesIn(f) ==
    IF f.parses THEN {Entry(f.name, f.tree, [at |-> a, owner |-> o]) : a \in Outer(f.tree), o \in Owners(f.tree)}
    ELSE {}
RecordsIn(f) == IF f.parses THEN {Record(f.name, f.tree, a) : a \in Code(f.tree)} ELSE {}
Entries(in) == UNION {EntriesIn(in.files[i]) : i \in DOMAIN in.files}
Recorded(in) == UNION {RecordsIn(in.files[i]) : i \in DOMAIN in.files}

(* A pass has taken the first files of the walk, and no others.            *)
MeasuredTo(n) ==
    \A i \in DOMAIN input.files :
      /\ FoundIn(functions, input.files[i].name,
                 IF i <= n /\ input.files[i].parses THEN Outer(input.files[i].tree) ELSE {})
      /\ OwnedIn(functions, input.files[i])
ScannedTo(n) ==
    \A i \in DOMAIN input.files :
      FoundIn(found, input.files[i].name,
              IF i <= n /\ input.files[i].parses THEN Code(input.files[i].tree) ELSE {})

(* The inductive invariant.                                                *)
IInv ==
    /\ IsInput(input)
    /\ stage \in {"complexity", "duplicates", "compare", "done"}
    /\ next \in 1 .. Len(input.files) + 1
    /\ functions \in Seq(Entries(input)) /\ found \in Seq(Recorded(input))
    /\ MeasuredTo(IF stage = "complexity" THEN next - 1 ELSE Len(input.files))
    /\ stage = "complexity" => ScannedTo(0)
    /\ stage = "duplicates" => ScannedTo(next - 1)
    /\ stage \in {"compare", "done"} =>
         InPlace(found) /\ \A i \in DOMAIN found : found[i].nodes >= input.minNodes
    /\ stage = "done" => pairs = SortPairs(found, FindPairs(found, input.threshold))

LEMMA FilesTell ==
    ASSUME NEW in, IsInput(in)
    PROVE  /\ DOMAIN in.files = 1 .. Len(in.files) /\ Len(in.files) \in Nat /\ in.minNodes \in Nat
           /\ \A i \in 1 .. Len(in.files) :
                /\ in.files[i].name \in Nat /\ in.files[i].parses \in BOOLEAN
                /\ in.files[i].parses => IsTree(in.files[i].tree)
                /\ \A j \in 1 .. Len(in.files) : in.files[i].name = in.files[j].name => i = j
<1>1. in.files \in Seq([name : Nat, tree : Seq(Nodes), parses : BOOLEAN])
  BY DEF IsInput
<1>2. DOMAIN in.files = 1 .. Len(in.files) /\ Len(in.files) \in Nat
  BY <1>1, LenProperties
<1>3. \A i \in 1 .. Len(in.files) : in.files[i] \in [name : Nat, tree : Seq(Nodes), parses : BOOLEAN]
  BY <1>1, ElementOfSeq
<1> QED
  BY <1>2, <1>3 DEF IsInput

(* What one file adds to each pass.                                        *)
LEMMA FileMeasured ==
    ASSUME NEW in, IsInput(in), NEW n \in 1 .. Len(in.files)
    PROVE  LET f == in.files[n]
               add == IF f.parses THEN AnalyzeSource(f.name, f.tree) ELSE <<>>
           IN /\ add \in Seq(Entries(in)) /\ \A i \in DOMAIN add : add[i].file = f.name
              /\ Marks(add, IF f.parses THEN Outer(f.tree) ELSE {})
              /\ \A i \in DOMAIN add : Owned(f.tree, add[i])
<1> DEFINE f == in.files[n]
           add == IF f.parses THEN AnalyzeSource(f.name, f.tree) ELSE <<>>
<1>1. n \in DOMAIN in.files /\ f.parses \in BOOLEAN /\ (f.parses => IsTree(f.tree))
  BY FilesTell
<1>2. EntriesIn(f) \subseteq Entries(in)
  BY <1>1 DEF Entries
<1> HIDE DEF f
<1>3. CASE f.parses
  <2> DEFINE fns == AnalyzeSource(f.name, f.tree)
  <2>1. /\ DOMAIN fns = 1 .. Len(fns) /\ Len(fns) \in Nat
        /\ Marks(fns, Outer(f.tree))
        /\ \A i \in DOMAIN fns : /\ fns[i].file = f.name /\ fns[i].at \in Outer(f.tree)
                                 /\ fns[i].owner \in Owners(f.tree) /\ Owned(f.tree, fns[i])
                                 /\ fns[i] = Entry(f.name, f.tree, [at |-> fns[i].at, owner |-> fns[i].owner])
    BY <1>1, <1>3, AnalyzeTells
  <2>2. \A i \in DOMAIN fns : fns[i] \in EntriesIn(f)
    <3> DEFINE entry(a, o) == Entry(f.name, f.tree, [at |-> a, owner |-> o])
    <3>1. EntriesIn(f) = {entry(a, o) : a \in Outer(f.tree), o \in Owners(f.tree)}
      BY <1>3 DEF EntriesIn
    <3> HIDE DEF fns
    <3>2. \A i \in DOMAIN fns : fns[i] = entry(fns[i].at, fns[i].owner)
      BY <2>1
    <3>3. \A i \in DOMAIN fns : fns[i].at \in Outer(f.tree) /\ fns[i].owner \in Owners(f.tree)
      BY <2>1
    <3> HIDE DEF entry
    <3> SUFFICES ASSUME NEW i \in DOMAIN fns PROVE fns[i] \in EntriesIn(f)
      OBVIOUS
    <3>4. \E a \in Outer(f.tree), o \in Owners(f.tree) : fns[i] = entry(a, o)
      BY <3>2, <3>3
    <3> QED
      BY <3>1, <3>4
  <2>3. add = fns
    BY <1>3
  <2>4. \E out : fns = [i \in DOMAIN out |-> Entry(f.name, f.tree, out[i])]
    BY DEF AnalyzeSource
  <2> HIDE DEF fns, add
  <2>5. fns \in Seq(Entries(in))
    <3>1. PICK out : fns = [i \in DOMAIN out |-> Entry(f.name, f.tree, out[i])]
      BY <2>4
    <3>2. fns = [i \in 1 .. Len(fns) |-> fns[i]]
      BY <2>1, <3>1
    <3>3. \A i \in 1 .. Len(fns) : fns[i] \in Entries(in)
      BY <1>2, <2>1, <2>2
    <3> DEFINE m == Len(fns)
    <3>4. m \in Nat /\ fns = [i \in 1 .. m |-> fns[i]] /\ \A i \in 1 .. m : fns[i] \in Entries(in)
      BY <2>1, <3>2, <3>3
    <3> HIDE DEF m
    <3>5. fns \in [1 .. m -> Entries(in)]
      BY <3>4
    <3> QED
      BY <3>4, <3>5, SeqDef
  <2>6. /\ add \in Seq(Entries(in)) /\ \A i \in DOMAIN add : add[i].file = f.name
        /\ Marks(add, Outer(f.tree)) /\ \A i \in DOMAIN add : Owned(f.tree, add[i])
    BY <2>1, <2>3, <2>5
  <2> QED
    BY <1>3, <2>6 DEF f, add
<1>4. CASE ~f.parses
  <2>1. add = <<>> /\ DOMAIN <<>> = {}
    BY <1>4
  <2> HIDE DEF add
  <2>2. Marks(add, {}) /\ add \in Seq(Entries(in)) /\ DOMAIN add = {}
    BY <2>1 DEF Marks
  <2> QED
    BY <1>4, <2>2 DEF f, add
<1> QED
  BY <1>3, <1>4

LEMMA RecordsAre ==
    ASSUME NEW in, IsInput(in)
    PROVE  \A r \in Recorded(in) :
             /\ r \in Records
             /\ \E i \in 1 .. Len(in.files) :
                  /\ in.files[i].parses /\ IsTree(in.files[i].tree) /\ in.files[i].name \in Nat
                  /\ r.file = in.files[i].name /\ r.at \in Code(in.files[i].tree)
                  /\ r.at \in DOMAIN in.files[i].tree /\ r.at \in Nat
                  /\ r = Record(in.files[i].name, in.files[i].tree, r.at)
<1> SUFFICES ASSUME NEW r \in Recorded(in)
             PROVE  /\ r \in Records
                    /\ \E i \in 1 .. Len(in.files) :
                         /\ in.files[i].parses /\ IsTree(in.files[i].tree) /\ in.files[i].name \in Nat
                         /\ r.file = in.files[i].name /\ r.at \in Code(in.files[i].tree)
                         /\ r.at \in DOMAIN in.files[i].tree /\ r.at \in Nat
                         /\ r = Record(in.files[i].name, in.files[i].tree, r.at)
  OBVIOUS
<1>1. PICK i \in DOMAIN in.files : r \in RecordsIn(in.files[i])
  BY DEF Recorded
<1> DEFINE f == in.files[i]
<1>2. i \in 1 .. Len(in.files) /\ f.name \in Nat /\ (f.parses => IsTree(f.tree))
  BY FilesTell
<1>3. f.parses /\ \E a \in Code(f.tree) : r = Record(f.name, f.tree, a)
  BY <1>1 DEF RecordsIn
<1>4. PICK a \in Code(f.tree) : r = Record(f.name, f.tree, a)
  BY <1>3
<1> HIDE DEF f
<1>5. IsTree(f.tree) /\ a \in DOMAIN f.tree
  BY <1>2, <1>3, CollectLists
<1>6. r \in Records /\ r.file = f.name /\ r.at = a
  BY <1>2, <1>4, <1>5, RecordTells
<1>7. a \in Nat
  BY <1>6 DEF Records
<1> QED
  BY <1>2, <1>3, <1>4, <1>5, <1>6, <1>7 DEF f

LEMMA FileScanned ==
    ASSUME NEW in, IsInput(in), NEW n \in 1 .. Len(in.files)
    PROVE  LET f == in.files[n]
               add == IF f.parses THEN FunctionsIn(f.name, f.tree) ELSE <<>>
           IN /\ add \in Seq(Recorded(in)) /\ \A i \in DOMAIN add : add[i].file = f.name
              /\ Marks(add, IF f.parses THEN Code(f.tree) ELSE {})
<1> DEFINE f == in.files[n]
           add == IF f.parses THEN FunctionsIn(f.name, f.tree) ELSE <<>>
<1>1. n \in DOMAIN in.files /\ f.parses \in BOOLEAN /\ (f.parses => IsTree(f.tree)) /\ f.name \in Nat
  BY FilesTell
<1>2. RecordsIn(f) \subseteq Recorded(in)
  BY <1>1 DEF Recorded
<1> HIDE DEF f
<1>3. CASE f.parses
  <2> DEFINE out == Collect(f.tree)
             fns == FunctionsIn(f.name, f.tree)
  <2>1. out \in Seq(Nat) /\ Lists(out, Code(f.tree)) /\ Code(f.tree) \subseteq DOMAIN f.tree
    BY <1>1, <1>3, CollectLists
  <2>2. DOMAIN out = 1 .. Len(out) /\ Len(out) \in Nat
    BY <2>1, LenProperties
  <2>3. fns = [i \in DOMAIN out |-> Record(f.name, f.tree, out[i])]
    BY DEF FunctionsIn
  <2>4. add = fns
    BY <1>3
  <2> HIDE DEF out, fns, add
  <2>5. ASSUME NEW i \in 1 .. Len(out)
        PROVE  /\ out[i] \in Code(f.tree) /\ fns[i] = Record(f.name, f.tree, out[i])
               /\ fns[i].file = f.name /\ fns[i].at = out[i] /\ fns[i] \in RecordsIn(f)
    <3>1. out[i] \in Code(f.tree) /\ fns[i] = Record(f.name, f.tree, out[i])
      BY <2>1, <2>2, <2>3 DEF Lists, ToSet
    <3>2. fns[i].file = f.name /\ fns[i].at = out[i]
      BY <1>1, <1>3, <2>1, <3>1, RecordTells
    <3> QED
      BY <1>3, <3>1, <3>2 DEF RecordsIn
  <2>6. DOMAIN fns = 1 .. Len(out)
    BY <2>2, <2>3
  <2>7. fns \in Seq(Recorded(in))
    <3> DEFINE m == Len(out)
    <3>1. m \in Nat /\ fns = [i \in 1 .. m |-> fns[i]] /\ \A i \in 1 .. m : fns[i] \in Recorded(in)
      BY <1>2, <2>2, <2>3, <2>5
    <3> HIDE DEF m
    <3>2. fns \in [1 .. m -> Recorded(in)]
      BY <3>1
    <3> QED
      BY <3>1, <3>2, SeqDef
  <2>8. Marks(fns, Code(f.tree))
    <3>1. {out[i] : i \in 1 .. Len(out)} = Code(f.tree) /\ \A i, j \in 1 .. Len(out) : i < j => out[i] < out[j]
      BY <2>1, <2>2 DEF Lists, ToSet
    <3>2. \A i \in 1 .. Len(out) : fns[i].at = out[i]
      BY <2>5
    <3>3. {fns[i].at : i \in 1 .. Len(out)} = Code(f.tree)
      BY <3>1, <3>2
    <3>4. \A i, j \in 1 .. Len(out) : i < j => fns[i].at < fns[j].at
      BY <3>1, <3>2
    <3> QED
      BY <2>6, <3>3, <3>4 DEF Marks
  <2>9. /\ add \in Seq(Recorded(in)) /\ \A i \in DOMAIN add : add[i].file = f.name
        /\ Marks(add, Code(f.tree))
    BY <2>4, <2>5, <2>6, <2>7, <2>8
  <2> QED
    BY <1>3, <2>9 DEF f, add
<1>4. CASE ~f.parses
  <2>1. add = <<>> /\ DOMAIN <<>> = {}
    BY <1>4
  <2> HIDE DEF add
  <2>2. Marks(add, {}) /\ add \in Seq(Recorded(in)) /\ DOMAIN add = {}
    BY <2>1 DEF Marks
  <2> QED
    BY <1>4, <2>2 DEF f, add
<1> QED
  BY <1>3, <1>4

(* What both passes found is in different places.                          *)
LEMMA FoundApart ==
    ASSUME IsInput(input), found \in Seq(Recorded(input)), NEW n, ScannedTo(n)
    PROVE  Apart(found) /\ found \in Seq(Records)
<1>1. DOMAIN found = 1 .. Len(found) /\ Len(found) \in Nat
  BY LenProperties
<1>2. \A i \in 1 .. Len(found) : found[i] \in Recorded(input)
  BY ElementOfSeq
<1>3. \A i \in 1 .. Len(found) : found[i] \in Records
  BY <1>2, RecordsAre
<1>4. ASSUME NEW i \in DOMAIN found, NEW j \in DOMAIN found, i < j
      PROVE  Precedes(found[i], found[j]) \/ Precedes(found[j], found[i])
  <2>1. found[i].file \in Nat /\ found[j].file \in Nat
    BY <1>1, <1>3 DEF Records
  <2>2. CASE found[i].file = found[j].file
    <3>1. PICK m \in 1 .. Len(input.files) : found[i].file = input.files[m].name
      BY <1>1, <1>2, RecordsAre
    <3>2. m \in DOMAIN input.files
      BY FilesTell
    <3>3. found[i].at < found[j].at
      BY <1>4, <2>2, <3>1, <3>2 DEF ScannedTo, FoundIn
    <3> QED
      BY <2>2, <3>3 DEF Precedes
  <2>3. CASE found[i].file # found[j].file
    BY <2>1, <2>3 DEF Precedes
  <2> QED
    BY <2>2, <2>3
<1>5. Apart(found)
  <2>1. SUFFICES ASSUME NEW i \in DOMAIN found, NEW j \in DOMAIN found, i # j
                 PROVE  Precedes(found[i], found[j]) \/ Precedes(found[j], found[i])
    BY DEF Apart
  <2>2. i < j \/ j < i
    BY <1>1, <2>1
  <2> QED
    BY <1>4, <2>2
<1>6. found \in Seq(Records)
  <2>1. Recorded(input) \subseteq Records
    BY RecordsAre
  <2> QED
    BY <2>1, SeqMonotonic
<1> QED
  BY <1>5, <1>6

(* The files and what a pass finds in them: how the invariant is kept.     *)
LEMMA InvariantInit == Init => IInv
<1> SUFFICES ASSUME Init PROVE IInv
  OBVIOUS
<1>1. IsInput(input)
  BY InputsAssumption DEF Init
<1>2. Len(input.files) \in Nat /\ DOMAIN input.files = 1 .. Len(input.files)
  BY <1>1, FilesTell
<1>3. stage = "complexity" /\ next = 1 /\ functions = <<>> /\ found = <<>>
  BY DEF Init
<1>4. functions \in Seq(Entries(input)) /\ found \in Seq(Recorded(input)) /\ DOMAIN <<>> = {}
  BY <1>3
<1>5. \A name : FoundIn(functions, name, {}) /\ FoundIn(found, name, {})
  BY <1>3, <1>4 DEF FoundIn
<1>6. \A f : OwnedIn(functions, f)
  BY <1>3, <1>4 DEF OwnedIn
<1>7. \A i \in DOMAIN input.files : ~(i <= 0)
  BY <1>2
<1>8. MeasuredTo(next - 1) /\ ScannedTo(0)
  <2>1. next - 1 = 0
    BY <1>3
  <2>2. MeasuredTo(0) /\ ScannedTo(0)
    BY <1>5, <1>6, <1>7 DEF MeasuredTo, ScannedTo
  <2> QED
    BY <2>1, <2>2
<1>9. next \in 1 .. Len(input.files) + 1
  BY <1>2, <1>3
<1> QED
  BY <1>1, <1>3, <1>4, <1>8, <1>9 DEF IInv

LEMMA ComplexityKeeps == IInv /\ Complexity => IInv'
<1> SUFFICES ASSUME IInv, Complexity PROVE IInv'
  OBVIOUS
<1> DEFINE f == input.files[next]
           add == IF f.parses THEN AnalyzeSource(f.name, f.tree) ELSE <<>>
           N == Len(input.files)
<1>1. /\ stage = "complexity" /\ stage' = stage /\ next' = next + 1 /\ functions' = functions \o add
      /\ input' = input /\ found' = found /\ pairs' = pairs /\ next <= N
  BY DEF Complexity
<1>2. /\ IsInput(input) /\ next \in 1 .. N + 1 /\ functions \in Seq(Entries(input))
      /\ found \in Seq(Recorded(input)) /\ MeasuredTo(next - 1) /\ ScannedTo(0)
  BY <1>1 DEF IInv
<1>3. /\ DOMAIN input.files = 1 .. N /\ N \in Nat
      /\ \A i, j \in 1 .. N : input.files[i].name = input.files[j].name => i = j
  BY <1>2, FilesTell
<1>4. next \in 1 .. N /\ next \in Nat
  BY <1>1, <1>2, <1>3
<1>5. /\ add \in Seq(Entries(input)) /\ \A i \in DOMAIN add : add[i].file = f.name
      /\ Marks(add, IF f.parses THEN Outer(f.tree) ELSE {})
      /\ \A i \in DOMAIN add : Owned(f.tree, add[i])
  BY <1>2, <1>4, FileMeasured
<1> HIDE DEF add
<1>6. functions' \in Seq(Entries(input'))
  BY <1>1, <1>2, <1>5, JoinTells
<1>7. ASSUME NEW i \in 1 .. N
      PROVE  /\ FoundIn(functions \o add, input.files[i].name,
                   IF i <= next /\ input.files[i].parses THEN Outer(input.files[i].tree) ELSE {})
             /\ OwnedIn(functions \o add, input.files[i])
  <2> DEFINE g == input.files[i]
             S == IF g.parses THEN Outer(g.tree) ELSE {}
             before == IF i <= next - 1 /\ g.parses THEN Outer(g.tree) ELSE {}
             after == IF i <= next /\ g.parses THEN Outer(g.tree) ELSE {}
  <2>1. FoundIn(functions, g.name, before) /\ OwnedIn(functions, g)
    BY <1>2, <1>3 DEF MeasuredTo
  <2>2. CASE i = next
    <3>1. before = {} /\ after = S /\ g = f
      BY <1>4, <2>2
    <3> HIDE DEF f, g, S, before, after
    <3>2. Marks(add, S)
      BY <1>5, <3>1 DEF S
    <3>3. FoundIn(functions \o add, g.name, S)
      BY <1>2, <1>5, <2>1, <3>1, <3>2, FoundJoin
    <3>4. OwnedIn(functions \o add, g)
      BY <1>2, <1>5, <2>1, <3>1, OwnedJoin
    <3> QED
      BY <3>1, <3>3, <3>4 DEF g, after
  <2>3. CASE i # next
    <3>1. before = after
      BY <1>4, <2>3
    <3>2. \A n \in DOMAIN add : add[n].file # g.name
      BY <1>3, <1>4, <1>5, <2>3
    <3> HIDE DEF g, before, after
    <3>3. FoundIn(functions \o add, g.name, before)
      BY <1>2, <1>5, <2>1, <3>2, FoundJoin
    <3>4. OwnedIn(functions \o add, g)
      BY <1>2, <1>5, <2>1, <3>2, OwnedJoin
    <3> QED
      BY <3>1, <3>3, <3>4 DEF g, after
  <2> QED
    BY <2>2, <2>3
<1>8. MeasuredTo(next - 1)'
  <2>1. next' - 1 = next
    BY <1>1, <1>4
  <2> QED
    BY <1>1, <1>3, <1>7, <2>1 DEF MeasuredTo
<1>9. ScannedTo(0)'
  BY <1>1, <1>2 DEF ScannedTo
<1>10. next' \in 1 .. Len(input'.files) + 1
  BY <1>1, <1>3, <1>4
<1> QED
  BY <1>1, <1>2, <1>6, <1>8, <1>9, <1>10 DEF IInv

LEMMA ScanKeeps == IInv /\ Scan => IInv'
<1> SUFFICES ASSUME IInv, Scan PROVE IInv'
  OBVIOUS
<1> DEFINE f == input.files[next]
           add == IF f.parses THEN FunctionsIn(f.name, f.tree) ELSE <<>>
           N == Len(input.files)
<1>1. /\ stage = "duplicates" /\ stage' = stage /\ next' = next + 1 /\ found' = found \o add
      /\ input' = input /\ functions' = functions /\ pairs' = pairs /\ next <= N
  BY DEF Scan
<1>2. /\ IsInput(input) /\ next \in 1 .. N + 1 /\ functions \in Seq(Entries(input))
      /\ found \in Seq(Recorded(input)) /\ MeasuredTo(N) /\ ScannedTo(next - 1)
  BY <1>1 DEF IInv
<1>3. /\ DOMAIN input.files = 1 .. N /\ N \in Nat
      /\ \A i, j \in 1 .. N : input.files[i].name = input.files[j].name => i = j
  BY <1>2, FilesTell
<1>4. next \in 1 .. N /\ next \in Nat
  BY <1>1, <1>2, <1>3
<1>5. /\ add \in Seq(Recorded(input)) /\ \A i \in DOMAIN add : add[i].file = f.name
      /\ Marks(add, IF f.parses THEN Code(f.tree) ELSE {})
  BY <1>2, <1>4, FileScanned
<1> HIDE DEF add
<1>6. found' \in Seq(Recorded(input'))
  BY <1>1, <1>2, <1>5, JoinTells
<1>7. ASSUME NEW i \in 1 .. N
      PROVE  FoundIn(found \o add, input.files[i].name,
                IF i <= next /\ input.files[i].parses THEN Code(input.files[i].tree) ELSE {})
  <2> DEFINE g == input.files[i]
             S == IF g.parses THEN Code(g.tree) ELSE {}
             before == IF i <= next - 1 /\ g.parses THEN Code(g.tree) ELSE {}
             after == IF i <= next /\ g.parses THEN Code(g.tree) ELSE {}
  <2>1. FoundIn(found, g.name, before)
    BY <1>2, <1>3 DEF ScannedTo
  <2>2. CASE i = next
    <3>1. before = {} /\ after = S /\ g = f
      BY <1>4, <2>2
    <3> HIDE DEF f, g, S, before, after
    <3>2. Marks(add, S)
      BY <1>5, <3>1 DEF S
    <3>3. FoundIn(found \o add, g.name, S)
      BY <1>2, <1>5, <2>1, <3>1, <3>2, FoundJoin
    <3> QED
      BY <3>1, <3>3 DEF g, after
  <2>3. CASE i # next
    <3>1. before = after
      BY <1>4, <2>3
    <3>2. \A n \in DOMAIN add : add[n].file # g.name
      BY <1>3, <1>4, <1>5, <2>3
    <3> HIDE DEF g, before, after
    <3>3. FoundIn(found \o add, g.name, before)
      BY <1>2, <1>5, <2>1, <3>2, FoundJoin
    <3> QED
      BY <3>1, <3>3 DEF g, after
  <2> QED
    BY <2>2, <2>3
<1>8. ScannedTo(next - 1)'
  <2>1. next' - 1 = next
    BY <1>1, <1>4
  <2> QED
    BY <1>1, <1>3, <1>7, <2>1 DEF ScannedTo
<1>9. MeasuredTo(N)'
  BY <1>1, <1>2 DEF MeasuredTo
<1>10. next' \in 1 .. Len(input'.files) + 1
  BY <1>1, <1>3, <1>4
<1> QED
  BY <1>1, <1>2, <1>6, <1>8, <1>9, <1>10 DEF IInv

LEMMA PassOverKeeps == IInv /\ PassOver => IInv'
<1> SUFFICES ASSUME IInv, PassOver PROVE IInv'
  OBVIOUS
<1> DEFINE N == Len(input.files)
<1>1. /\ input' = input /\ functions' = functions /\ pairs' = pairs /\ next' = 1 /\ next > N
  BY DEF PassOver
<1>2. /\ IsInput(input) /\ next \in 1 .. N + 1 /\ functions \in Seq(Entries(input))
      /\ found \in Seq(Recorded(input))
  BY DEF IInv
<1>3. DOMAIN input.files = 1 .. N /\ N \in Nat /\ input.minNodes \in Nat
  BY <1>2, FilesTell
<1>4. next - 1 = N
  BY <1>1, <1>2, <1>3
<1>5. MeasuredTo(N)'
  <2>1. stage \in {"complexity", "duplicates"}
    BY DEF PassOver
  <2>2. MeasuredTo(N)
    BY <1>4, <2>1 DEF IInv
  <2> QED
    BY <1>1, <2>2 DEF MeasuredTo
<1>6. next' \in 1 .. Len(input'.files) + 1
  BY <1>1, <1>3
<1>7. CASE stage = "complexity" /\ stage' = "duplicates" /\ found' = found
  <2>1. ScannedTo(0)'
    BY <1>1, <1>7 DEF IInv, ScannedTo
  <2>2. next' - 1 = 0
    BY <1>1
  <2> QED
    BY <1>1, <1>2, <1>5, <1>6, <1>7, <2>1, <2>2 DEF IInv
<1>8. CASE stage = "duplicates" /\ stage' = "compare" /\ found' = Retained(found)
  <2>1. ScannedTo(N)
    BY <1>4, <1>8 DEF IInv
  <2>2. Apart(found) /\ found \in Seq(Records)
    BY <1>2, <2>1, FoundApart
  <2> DEFINE kept == Retained(found)
  <2>3. /\ kept \in Seq(Records) /\ InPlace(kept)
        /\ ToSet(kept) = {f \in ToSet(found) : f.nodes >= input.minNodes}
    BY <1>3, <2>2, RetainedTells
  <2>4. \A f \in ToSet(found) : f \in Recorded(input)
    BY <1>2, LenProperties, ElementOfSeq DEF ToSet
  <2> HIDE DEF kept
  <2>5. DOMAIN kept = 1 .. Len(kept) /\ Len(kept) \in Nat /\ kept \in [1 .. Len(kept) -> Records]
    BY <2>3, LenProperties
  <2>6. \A i \in DOMAIN kept : kept[i] \in Recorded(input) /\ kept[i].nodes >= input.minNodes
    BY <2>3, <2>4 DEF ToSet
  <2>7. kept \in Seq(Recorded(input))
    <3>1. kept \in [1 .. Len(kept) -> Recorded(input)]
      BY <2>5, <2>6
    <3> QED
      BY <2>5, <3>1, SeqDef
  <2>8. found' = kept
    BY <1>8 DEF kept
  <2> QED
    BY <1>1, <1>2, <1>5, <1>6, <1>8, <2>3, <2>6, <2>7, <2>8 DEF IInv
<1>9. \/ stage = "complexity" /\ stage' = "duplicates" /\ found' = found
      \/ stage = "duplicates" /\ stage' = "compare" /\ found' = Retained(found)
  BY DEF PassOver
<1> QED
  BY <1>7, <1>8, <1>9

LEMMA CompareKeeps == IInv /\ Compare => IInv'
<1> SUFFICES ASSUME IInv, Compare PROVE IInv'
  OBVIOUS
<1>1. /\ input' = input /\ functions' = functions /\ next' = next /\ found' = found
      /\ stage = "compare" /\ stage' = "done"
      /\ pairs' = SortPairs(found, FindPairs(found, input.threshold))
  BY DEF Compare
<1>2. MeasuredTo(Len(input.files))'
  BY <1>1 DEF IInv, MeasuredTo
<1>3. InPlace(found)'
  BY <1>1 DEF IInv
<1> QED
  BY <1>1, <1>2, <1>3 DEF IInv

LEMMA InvariantStep == IInv /\ [Next]_vars => IInv'
<1>1. IInv /\ UNCHANGED vars => IInv'
  <2> SUFFICES ASSUME IInv, UNCHANGED vars PROVE IInv'
    OBVIOUS
  <2>1. /\ input' = input /\ functions' = functions /\ next' = next /\ found' = found
        /\ stage' = stage /\ pairs' = pairs
    BY DEF vars
  <2>2. \A n : MeasuredTo(n) => MeasuredTo(n)'
    BY <2>1 DEF MeasuredTo
  <2>3. \A n : ScannedTo(n) => ScannedTo(n)'
    BY <2>1 DEF ScannedTo
  <2> QED
    BY <2>1, <2>2, <2>3 DEF IInv
<1> QED
  BY <1>1, ComplexityKeeps, ScanKeeps, PassOverKeeps, CompareKeeps DEF Next

(* The invariant the theorems rest on: each pass has found, file for file  *)
(* in the order of the walk, just what is in the files it has taken.       *)
THEOREM Invariance == Spec => []IInv
<1>1. Init => IInv
  BY InvariantInit
<1>2. IInv /\ [Next]_vars => IInv'
  BY InvariantStep
<1> QED
  BY <1>1, <1>2, PTL DEF Spec

(* The complexity pass and the duplicate pass leave out the same test      *)
(* code and disagree on nothing but the functions inside functions.        *)
THEOREM PassesAlwaysAgree == Spec => []PassesAgree
<1>1. IInv => PassesAgree
  <2> SUFFICES ASSUME IInv, NEW f \in ToSet(input.files)
               PROVE  /\ stage = "duplicates" /\ next = 1 =>
                           /\ FoundIn(functions, f.name, IF f.parses THEN Outer(f.tree) ELSE {})
                           /\ OwnedIn(functions, f)
                      /\ stage = "duplicates" /\ next > Len(input.files) =>
                           FoundIn(found, f.name, IF f.parses THEN Code(f.tree) ELSE {})
    BY DEF PassesAgree
  <2>1. DOMAIN input.files = 1 .. Len(input.files) /\ Len(input.files) \in Nat
    BY FilesTell DEF IInv
  <2>2. PICK i \in DOMAIN input.files : f = input.files[i]
    BY DEF ToSet
  <2>3. i <= Len(input.files)
    BY <2>1
  <2>4. ASSUME stage = "duplicates"
        PROVE  /\ FoundIn(functions, f.name, IF f.parses THEN Outer(f.tree) ELSE {})
               /\ OwnedIn(functions, f)
    <3>1. MeasuredTo(Len(input.files))
      BY <2>4 DEF IInv
    <3> QED
      BY <2>2, <2>3, <3>1 DEF MeasuredTo
  <2>5. ASSUME stage = "duplicates", next > Len(input.files)
        PROVE  FoundIn(found, f.name, IF f.parses THEN Code(f.tree) ELSE {})
    <3>1. ScannedTo(next - 1) /\ next \in 1 .. Len(input.files) + 1
      BY <2>5 DEF IInv
    <3>2. i <= next - 1
      BY <2>1, <2>3, <2>5, <3>1
    <3> QED
      BY <2>2, <3>1, <3>2 DEF ScannedTo
  <2> QED
    BY <2>4, <2>5
<1> QED
  BY <1>1, Invariance, PTL

(* The properties find a file by its name.                                 *)
LEMMA FileIsTold ==
    ASSUME IsInput(input), NEW i \in DOMAIN input.files, NEW e, e.file = input.files[i].name
    PROVE  Tree(e) = input.files[i].tree
<1>1. input.files[i] \in ToSet(input.files)
  BY DEF ToSet
<1>2. \A f \in ToSet(input.files) : f.name = e.file => f = input.files[i]
  <2>1. \A j \in DOMAIN input.files : input.files[j].name = input.files[i].name => j = i
    BY FilesTell
  <2> QED
    BY <2>1 DEF ToSet
<1>3. File(e.file) = input.files[i]
  BY <1>1, <1>2 DEF File
<1> QED
  BY <1>3 DEF Tree

LEMMA EntriesAre ==
    ASSUME IsInput(input), NEW e \in Entries(input)
    PROVE  LET T == Tree(e)
           IN /\ IsTree(T) /\ BodyOf(e) \in DOMAIN T /\ e.at \in DOMAIN T
              /\ T[e.at].kind \in Callables /\ HasBody(T, e.at)
              /\ e.cyclomatic = Cyclomatic(T, BodyOf(e))
              /\ e.signals = Signals(T, BodyOf(e)) /\ T[BodyOf(e)].kind = "block"
<1>1. PICK i \in DOMAIN input.files : e \in EntriesIn(input.files[i])
  BY DEF Entries
<1> DEFINE f == input.files[i]
<1>2. f.parses => IsTree(f.tree)
  BY FilesTell
<1>3. e.file = f.name => Tree(e) = f.tree
  BY FileIsTold
<1>4. e \in EntriesIn(f)
  BY <1>1
<1> HIDE DEF f
<1> DEFINE entry(a, o) == Entry(f.name, f.tree, [at |-> a, owner |-> o])
<1>5. f.parses /\ e \in {entry(a, o) : a \in Outer(f.tree), o \in Owners(f.tree)}
  BY <1>4 DEF EntriesIn
<1> HIDE DEF entry
<1>6. PICK a \in Outer(f.tree), o \in Owners(f.tree) : e = entry(a, o)
  BY <1>5
<1>7. /\ e.file = f.name /\ e.at = a
      /\ e.cyclomatic = Cyclomatic(f.tree, Body(f.tree, a)) /\ e.signals = Signals(f.tree, Body(f.tree, a))
  BY <1>6 DEF entry, Entry
<1>8. Tree(e) = f.tree /\ IsTree(f.tree) /\ BodyOf(e) = Body(f.tree, a)
  BY <1>2, <1>3, <1>5, <1>7 DEF BodyOf
<1>9. a \in DOMAIN f.tree /\ HasBody(f.tree, a) /\ f.tree[a].kind \in Callables
  BY DEF Outer, Code
<1>10. Body(f.tree, a) \in DOMAIN f.tree
  <2> DEFINE T == f.tree
             kids == T[a].kids
  <2>1. /\ kids \in Seq(Nat) /\ Nests(T, a) /\ T[a].last \in a .. Len(T) /\ DOMAIN T = 1 .. Len(T) /\ Len(T) \in Nat
    BY <1>8, <1>9, TreeTells
  <2>2. kids # <<>>
    BY <1>9 DEF HasBody
  <2>3. Len(kids) \in DOMAIN kids /\ Last(kids) = kids[Len(kids)]
    <3>1. DOMAIN kids = 1 .. Len(kids) /\ Len(kids) \in Nat \ {0}
      BY <2>1, <2>2, LenProperties, EmptySeq
    <3> QED
      BY <3>1 DEF Last
  <2>4. kids[Len(kids)] \in a + 1 .. T[a].last
    BY <2>1, <2>3 DEF Nests
  <2>5. a \in Nat /\ a >= 1
    BY <1>9, <2>1
  <2> QED
    BY <2>1, <2>3, <2>4, <2>5 DEF Body
<1>11. f.tree[Body(f.tree, a)].kind = "block"
  BY <1>9 DEF HasBody
<1> QED
  BY <1>7, <1>8, <1>9, <1>10, <1>11

LEMMA MeasuredAre == IInv => \A e \in Measured : e \in Entries(input) /\ IsInput(input)
<1> SUFFICES ASSUME IInv, NEW e \in Measured PROVE e \in Entries(input)
  BY DEF IInv
<1>1. e \in ToSet(functions) /\ functions \in Seq(Entries(input))
  BY DEF Measured, IInv
<1> QED
  BY <1>1, LenProperties, ElementOfSeq DEF ToSet

(* A function's complexity is one more than the decisions it makes itself, *)
(* however closures, async blocks and declared functions nest in its body. *)
THEOREM ComplexityIsAlwaysOwn == Spec => []ComplexityIsOwn
<1>1. IInv => ComplexityIsOwn
  <2> SUFFICES ASSUME IInv, NEW e \in Measured
               PROVE  LET T == Tree(e)
                          own == Scope(T, BodyOf(e), Items \cup {"closure"})
                      IN e.cyclomatic = 2 + 2 * Cardinality({p \in own : Decides(T[p])})
                                          + TryWeight * Cardinality({p \in own : Tries(T[p])})
    BY DEF ComplexityIsOwn
  <2>1. IsInput(input) /\ e \in Entries(input)
    BY MeasuredAre
  <2>2. /\ IsTree(Tree(e)) /\ BodyOf(e) \in DOMAIN Tree(e)
        /\ e.cyclomatic = Cyclomatic(Tree(e), BodyOf(e))
    BY <2>1, EntriesAre
  <2> DEFINE T == Tree(e)
             b == BodyOf(e)
  <2>3. IsTree(T) /\ b \in DOMAIN T /\ e.cyclomatic = Cyclomatic(T, b)
    BY <2>2
  <2> HIDE DEF T, b
  <2>4. LET own == Scope(T, b, Items \cup {"closure"})
        IN e.cyclomatic = 2 + 2 * Cardinality({p \in own : Decides(T[p])})
                            + TryWeight * Cardinality({p \in own : Tries(T[p])})
    BY <2>3, CyclomaticTells
  <2> QED
    BY <2>4 DEF T, b
<1> QED
  BY <1>1, Invariance, PTL

(* Two functions score 1.0 exactly when they differ only in names, literal *)
(* values, grouping and what normalisation does not look into.             *)
THEOREM OneAlwaysMeansSameOutline == Spec => []OneMeansSameOutline
<1>1. IInv => OneMeansSameOutline
  <2> SUFFICES ASSUME IInv, NEW a \in Scanned, NEW b \in Scanned
               PROVE  LET score == Jaccard(a, b) IN
                      score.same = score.of <=> Outline(Tree(a), a.at) = Outline(Tree(b), b.at)
    BY DEF OneMeansSameOutline
  <2>1. IsInput(input) /\ found \in Seq(Recorded(input))
    BY DEF IInv
  <2>2. a \in Recorded(input) /\ b \in Recorded(input)
    <3>1. a \in ToSet(found) /\ b \in ToSet(found)
      BY DEF Scanned
    <3> QED
      BY <2>1, <3>1, LenProperties, ElementOfSeq DEF ToSet
  <2>3. DOMAIN input.files = 1 .. Len(input.files)
    BY <2>1, FilesTell
  <2>4. PICK i \in 1 .. Len(input.files) :
          /\ IsTree(input.files[i].tree) /\ input.files[i].name \in Nat /\ a.file = input.files[i].name
          /\ a.at \in DOMAIN input.files[i].tree /\ a = Record(input.files[i].name, input.files[i].tree, a.at)
    BY <2>1, <2>2, RecordsAre
  <2>5. PICK j \in 1 .. Len(input.files) :
          /\ IsTree(input.files[j].tree) /\ input.files[j].name \in Nat /\ b.file = input.files[j].name
          /\ b.at \in DOMAIN input.files[j].tree /\ b = Record(input.files[j].name, input.files[j].tree, b.at)
    BY <2>1, <2>2, RecordsAre
  <2>6. Tree(a) = input.files[i].tree /\ Tree(b) = input.files[j].tree
    BY <2>1, <2>3, <2>4, <2>5, FileIsTold
  <2> DEFINE T == input.files[i].tree
             U == input.files[j].tree
             n == input.files[i].name
             m == input.files[j].name
             f == a.at
             g == b.at
  <2>7. /\ IsTree(T) /\ IsTree(U) /\ n \in Nat /\ m \in Nat /\ f \in DOMAIN T /\ g \in DOMAIN U
        /\ a = Record(n, T, f) /\ b = Record(m, U, g) /\ Tree(a) = T /\ Tree(b) = U /\ a.at = f /\ b.at = g
    BY <2>4, <2>5, <2>6
  <2> HIDE DEF T, U, n, m, f, g
  <2>8. LET score == Jaccard(Record(n, T, f), Record(m, U, g))
        IN score.same = score.of <=> Outline(T, f) = Outline(U, g)
    BY <2>7, RecordsTellOutlines
  <2> QED
    BY <2>7, <2>8
<1> QED
  BY <1>1, Invariance, PTL

(* Every two functions large enough and alike enough are one pair, the     *)
(* earlier first and the strongest pairs first, in whatever order the walk *)
(* gave the files.                                                         *)
THEOREM PairsAlwaysExact == Spec => []PairsExact
<1>1. IInv => PairsExact
  <2> SUFFICES ASSUME IInv, stage = "done" PROVE PairsExact
    BY DEF PairsExact
  <2> DEFINE fns == ToSet(found)
             alike == {p \in fns \X fns :
                         Precedes(p[1], p[2]) /\ AtLeast(Likeness(p[1], p[2]), input.threshold)}
             out == SortPairs(found, FindPairs(found, input.threshold))
  <2>1. /\ IsInput(input) /\ found \in Seq(Recorded(input)) /\ InPlace(found) /\ pairs = out
        /\ \A i \in DOMAIN found : found[i].nodes >= input.minNodes
    BY DEF IInv
  <2>2. found \in Seq(Records)
    <3>1. Recorded(input) \subseteq Records
      BY <2>1, RecordsAre
    <3> QED
      BY <2>1, <3>1, SeqMonotonic
  <2>3. alike = AlikeOf(fns, input.threshold)
    BY DEF AlikeOf
  <2>4. /\ Len(out) = Cardinality(AlikeOf(fns, input.threshold))
        /\ ToSet(out) = {PairOf(p) : p \in AlikeOf(fns, input.threshold)}
        /\ Strongest(out)
    BY <2>1, <2>2, SortedPairsTell
  <2>5. \A f \in fns : f.nodes >= input.minNodes
    BY <2>1 DEF ToSet
  <2> HIDE DEF out, alike
  <2>6. /\ Len(pairs) = Cardinality(alike)
        /\ ToSet(pairs) = {[first |-> Location(p[1]), second |-> Location(p[2]),
                            score |-> Likeness(p[1], p[2])] : p \in alike}
    BY <2>1, <2>3, <2>4 DEF PairOf
  <2>7. \A i, j \in DOMAIN pairs : i < j => StrongestFirst(pairs[i], pairs[j])
    BY <2>1, <2>4 DEF Strongest
  <2> QED
    BY <2>5, <2>6, <2>7 DEF PairsExact, StrongestFirst, alike
<1> QED
  BY <1>1, Invariance, PTL

-----------------------------------------------------------------------------
(* signals::compute: how deep a node is in its file, and what a walk of a  *)
(* row of siblings does to a walker.                                       *)

(* The children of a node, one after the other.                            *)
LEMMA KidsTell ==
    ASSUME NEW T, IsTree(T), NEW k \in 1 .. Len(T)
    PROVE  LET kids == T[k].kids IN
           /\ kids \in Seq(Nat) /\ DOMAIN kids = 1 .. Len(kids) /\ Len(kids) \in Nat
           /\ k \in Nat /\ T[k].last \in Nat /\ k <= T[k].last /\ T[k].last <= Len(T) /\ Len(T) \in Nat
           /\ (kids = <<>> <=> T[k].last = k) /\ (Len(kids) = 0 <=> kids = <<>>)
           /\ \A i \in 1 .. Len(kids) :
                /\ kids[i] \in Nat /\ k < kids[i] /\ kids[i] \in 1 .. Len(T)
                /\ T[kids[i]].last \in Nat /\ kids[i] <= T[kids[i]].last /\ T[kids[i]].last <= T[k].last
                /\ kids[i] = IF i = 1 THEN k + 1 ELSE T[kids[i - 1]].last + 1
                /\ i = Len(kids) => T[kids[i]].last = T[k].last
<1> DEFINE kids == T[k].kids
           e == T[k].last
<1>1. /\ kids \in Seq(Nat) /\ Nests(T, k) /\ e \in k .. Len(T) /\ Len(T) \in Nat
      /\ \A q \in 1 .. Len(T) : T[q].last \in q .. Len(T)
  BY TreeTells
<1>2. DOMAIN kids = 1 .. Len(kids) /\ Len(kids) \in Nat /\ (Len(kids) = 0 <=> kids = <<>>)
  BY <1>1, LenProperties, EmptySeq
<1>3. \A i \in 1 .. Len(kids) :
        /\ kids[i] \in k + 1 .. e
        /\ kids[i] = IF i = 1 THEN k + 1 ELSE T[kids[i - 1]].last + 1
        /\ i = Len(kids) => T[kids[i]].last = e
  BY <1>1, <1>2, Zenon DEF Nests
<1>4. \A q \in k + 1 .. e : q \in 1 .. Len(T) /\ T[q].last \in q .. e
  <2>1. \A q \in k .. e : T[q].last <= e
    BY <1>1 DEF Nests
  <2>2. SUFFICES ASSUME NEW q \in k + 1 .. e PROVE q \in 1 .. Len(T) /\ T[q].last \in q .. e
    OBVIOUS
  <2>3. q \in 1 .. Len(T) /\ q \in k .. e
    BY <1>1
  <2>4. T[q].last \in q .. Len(T) /\ T[q].last <= e
    BY <1>1, <2>1, <2>3
  <2> QED
    BY <1>1, <2>3, <2>4
<1>5. kids = <<>> <=> e = k
  BY <1>1 DEF Nests
<1> HIDE DEF kids, e
<1>6. k \in Nat /\ e \in Nat /\ k <= e /\ e <= Len(T)
  BY <1>1
<1>7. ASSUME NEW q \in k + 1 .. e
      PROVE  /\ q \in Nat /\ k < q /\ q \in 1 .. Len(T)
             /\ T[q].last \in Nat /\ q <= T[q].last /\ T[q].last <= e
  <2>1. q \in Nat /\ k < q
    BY <1>6
  <2>2. q \in 1 .. Len(T) /\ T[q].last \in q .. e
    BY <1>4
  <2> DEFINE r == T[q].last
  <2>3. r \in q .. e
    BY <2>2
  <2> HIDE DEF r
  <2>4. r \in Nat /\ q <= r /\ r <= e
    BY <1>6, <2>1, <2>3
  <2> QED
    BY <2>1, <2>2, <2>4 DEF r
<1>8. \A i \in 1 .. Len(kids) :
        /\ kids[i] \in Nat /\ k < kids[i] /\ kids[i] \in 1 .. Len(T)
        /\ T[kids[i]].last \in Nat /\ kids[i] <= T[kids[i]].last /\ T[kids[i]].last <= e
  BY <1>3, <1>7
<1>9. /\ kids \in Seq(Nat) /\ DOMAIN kids = 1 .. Len(kids) /\ Len(kids) \in Nat /\ Len(T) \in Nat
      /\ k \in Nat /\ e \in Nat /\ k <= e /\ e <= Len(T)
      /\ (kids = <<>> <=> e = k) /\ (Len(kids) = 0 <=> kids = <<>>)
      /\ \A i \in 1 .. Len(kids) :
           /\ kids[i] \in Nat /\ k < kids[i] /\ kids[i] \in 1 .. Len(T)
           /\ T[kids[i]].last \in Nat /\ kids[i] <= T[kids[i]].last /\ T[kids[i]].last <= e
           /\ kids[i] = IF i = 1 THEN k + 1 ELSE T[kids[i - 1]].last + 1
           /\ i = Len(kids) => T[kids[i]].last = e
  BY <1>1, <1>2, <1>3, <1>5, <1>6, <1>8, Zenon
<1> QED
  BY <1>9 DEF kids, e

LEMMA KidTells ==
    ASSUME NEW T, IsTree(T), NEW k \in 1 .. Len(T), NEW i \in 1 .. Len(T[k].kids)
    PROVE  /\ i = 1 => T[k].kids[i] = k + 1
           /\ i # 1 => T[k].kids[i] = T[T[k].kids[i - 1]].last + 1
           /\ i = Len(T[k].kids) => T[T[k].kids[i]].last = T[k].last
<1> DEFINE kids == T[k].kids
<1>1. \A j \in 1 .. Len(kids) :
        /\ kids[j] \in Nat /\ k < kids[j] /\ kids[j] \in 1 .. Len(T)
        /\ T[kids[j]].last \in Nat /\ kids[j] <= T[kids[j]].last /\ T[kids[j]].last <= T[k].last
        /\ kids[j] = IF j = 1 THEN k + 1 ELSE T[kids[j - 1]].last + 1
        /\ j = Len(kids) => T[kids[j]].last = T[k].last
  BY KidsTell
<1> HIDE DEF kids
<1>2. i \in 1 .. Len(kids)
  BY DEF kids
<1>3. /\ kids[i] = IF i = 1 THEN k + 1 ELSE T[kids[i - 1]].last + 1
      /\ i = Len(kids) => T[kids[i]].last = T[k].last
  BY <1>1, <1>2
<1> QED
  BY <1>3 DEF kids

LEMMA KidsInOrder ==
    ASSUME NEW T, IsTree(T), NEW k \in 1 .. Len(T),
           NEW i \in 1 .. Len(T[k].kids), NEW j \in 1 .. Len(T[k].kids), i < j
    PROVE  T[T[k].kids[i]].last < T[k].kids[j]
<1> DEFINE kids == T[k].kids
           n == Len(kids)
           end(m) == T[kids[m]].last
           G == {m \in 1 .. n : i < m => end(i) < kids[m]}
<1>1. /\ n \in Nat
      /\ \A m \in 1 .. n : /\ kids[m] \in Nat /\ end(m) \in Nat /\ kids[m] <= end(m)
                           /\ kids[m] = IF m = 1 THEN k + 1 ELSE end(m - 1) + 1
  BY KidsTell
<1>2. i \in 1 .. n /\ j \in 1 .. n
  OBVIOUS
<1> HIDE DEF n, kids, end
<1> DEFINE H == {m \in Nat : m \in 1 .. n => m \in G}
<1>3. 0 \in H
  BY <1>1
<1>4. ASSUME NEW m \in Nat, m \in H
      PROVE  m + 1 \in H
  <2>1. SUFFICES ASSUME m + 1 \in 1 .. n, i < m + 1
                 PROVE  end(i) < kids[m + 1]
    OBVIOUS
  <2>3. m \in 1 .. n /\ m + 1 # 1 /\ (m + 1) - 1 = m /\ i \in Nat
    BY <1>1, <1>2, <2>1
  <2>4. kids[m + 1] = end(m) + 1
    BY <1>1, <2>1, <2>3
  <2>7. end(m) \in Nat /\ kids[m] \in Nat /\ kids[m] <= end(m) /\ end(i) \in Nat
    BY <1>1, <1>2, <2>3
  <2>5. CASE i = m
    BY <2>4, <2>5, <2>7
  <2>6. CASE i # m
    <3>1. i < m
      BY <2>1, <2>3, <2>6
    <3>2. end(i) < kids[m]
      BY <1>4, <2>3, <3>1
    <3> QED
      BY <2>4, <2>7, <3>2
  <2> QED
    BY <2>5, <2>6
<1> HIDE DEF H
<1>5. Nat \subseteq H
  BY <1>3, <1>4, FromZero, Zenon
<1>6. j \in Nat
  BY <1>1, <1>2
<1>7. j \in H
  BY <1>5, <1>6
<1>8. j \in G
  BY <1>2, <1>7 DEF H
<1> QED
  BY <1>8 DEF kids, end

(* Nothing among its siblings is around a child.                           *)
LEMMA KidsAreTops ==
    ASSUME NEW T, IsTree(T), NEW k \in 1 .. Len(T), NEW i \in 1 .. Len(T[k].kids)
    PROVE  T[k].kids[i] \in Tops(T, k + 1, T[k].last)
<1> DEFINE kids == T[k].kids
           n == Len(kids)
           N == Len(T)
           e == T[k].last
           end(m) == T[kids[m]].last
           c == kids[i]
<1>1. /\ DOMAIN kids = 1 .. n /\ n \in Nat /\ N \in Nat /\ i \in 1 .. n
      /\ k \in Nat /\ e \in Nat /\ k <= e /\ e <= N
      /\ \A j \in 1 .. n : /\ kids[j] \in Nat /\ kids[j] \in 1 .. N /\ end(j) \in Nat /\ kids[j] <= end(j)
                           /\ k < kids[j] /\ end(j) <= e
  BY KidsTell
<1>2. \A q \in 1 .. N : T[q].last \in Nat /\ Forest(T, q, T[q].last)
  <2>1. \A q \in 1 .. N : T[q].last \in q .. N /\ Forest(T, q, T[q].last)
    BY TreeTells
  <2> QED
    BY <2>1, <1>1
<1>3. \A p \in k + 1 .. e : \E j \in 1 .. n : kids[j] <= p /\ p <= end(j)
  BY <1>1, KidsCover, Zenon
<1>4. \A a, b \in 1 .. n : a < b => end(a) < kids[b]
  BY KidsInOrder
<1> HIDE DEF kids, n, end, e, N
<1>5. c \in Nat /\ k + 1 <= c /\ c <= e /\ c <= end(i) /\ end(i) \in Nat
  BY <1>1
<1> HIDE DEF c
<1>6. ASSUME NEW q \in k + 1 .. c - 1
      PROVE  T[q].last < c
  <2>1. q \in k + 1 .. e /\ q \in 1 .. N /\ q \in Nat /\ q < c
    BY <1>1, <1>5
  <2>2. PICK j \in 1 .. n : kids[j] <= q /\ q <= end(j)
    BY <1>3, <2>1
  <2>3. kids[j] \in 1 .. N /\ kids[j] \in Nat /\ end(j) \in Nat
    BY <1>1, Zenon
  <2>4. T[q].last <= end(j) /\ T[q].last \in Nat
    <3>1. Forest(T, kids[j], end(j))
      BY <1>2, <2>3 DEF end
    <3>2. q \in kids[j] .. end(j)
      BY <2>1, <2>2, <2>3
    <3>3. T[q].last \in q .. end(j)
      BY <3>1, <3>2, ForestsWithin
    <3> QED
      BY <2>1, <2>3, <3>3
  <2>5. CASE j < i
    <3>1. end(j) < c
      BY <1>1, <1>4, <2>5 DEF c
    <3> QED
      BY <1>5, <2>3, <2>4, <3>1
  <2>6. CASE j = i
    <3>1. c <= q
      BY <2>2, <2>6 DEF c
    <3> QED
      BY <1>5, <2>1, <3>1
  <2>7. CASE i < j
    <3>1. end(i) < kids[j]
      BY <1>1, <1>4, <2>7
    <3> QED
      BY <1>5, <2>1, <2>2, <2>3, <3>1
  <2>8. i \in Nat /\ j \in Nat
    BY <1>1
  <2> QED
    BY <2>5, <2>6, <2>7, <2>8
<1>7. c \in Tops(T, k + 1, e)
  BY <1>1, <1>5, <1>6 DEF Tops
<1> QED
  BY <1>7 DEF c, e, kids

LEMMA OneParent ==
    ASSUME NEW T, IsTree(T), NEW k \in 1 .. Len(T), NEW m \in 1 .. Len(T),
           NEW i \in 1 .. Len(T[k].kids), NEW j \in 1 .. Len(T[m].kids), T[k].kids[i] = T[m].kids[j]
    PROVE  k = m /\ i = j
<1> DEFINE c == T[k].kids[i]
<1>1. /\ c \in Nat /\ k \in Nat /\ m \in Nat /\ k < c /\ m < c
      /\ c <= T[c].last /\ T[c].last \in Nat
      /\ T[c].last <= T[k].last /\ T[c].last <= T[m].last /\ T[k].last \in Nat /\ T[m].last \in Nat
  <2>1. k \in Nat /\ T[k].last \in Nat /\ m \in Nat /\ T[m].last \in Nat
    BY KidsTell, Zenon
  <2>2. c \in Nat /\ k < c /\ c <= T[c].last /\ T[c].last \in Nat /\ T[c].last <= T[k].last
    BY KidsTell, Zenon
  <2>3. c = T[m].kids[j] /\ m < c /\ T[c].last <= T[m].last
    <3> DEFINE d == T[m].kids[j]
    <3>1. m < d /\ T[d].last <= T[m].last
      BY KidsTell, Zenon
    <3>2. c = d
      OBVIOUS
    <3> QED
      BY <3>1, <3>2
  <2> QED
    BY <2>1, <2>2, <2>3
<1>2. /\ \A q \in k + 1 .. c - 1 : T[q].last < c
      /\ \A q \in m + 1 .. c - 1 : T[q].last < c
  <2>1. c \in Tops(T, k + 1, T[k].last) /\ c \in Tops(T, m + 1, T[m].last)
    BY KidsAreTops, Zenon
  <2> QED
    BY <2>1, Zenon DEF Tops
<1>6. /\ i \in Nat /\ j \in Nat
      /\ \A a, b \in 1 .. Len(T[k].kids) : a < b => T[T[k].kids[a]].last < T[k].kids[b]
      /\ \A a \in 1 .. Len(T[k].kids) : /\ T[k].kids[a] \in Nat /\ T[T[k].kids[a]].last \in Nat
                                        /\ T[k].kids[a] <= T[T[k].kids[a]].last
  <2>1. i \in Nat /\ j \in Nat
    OBVIOUS
  <2>2. \A a, b \in 1 .. Len(T[k].kids) : a < b => T[T[k].kids[a]].last < T[k].kids[b]
    BY KidsInOrder
  <2>3. \A a \in 1 .. Len(T[k].kids) : /\ T[k].kids[a] \in Nat /\ T[T[k].kids[a]].last \in Nat
                                        /\ T[k].kids[a] <= T[T[k].kids[a]].last
    BY KidsTell
  <2> QED
    BY <2>1, <2>2, <2>3
<1> HIDE DEF c
<1>3. ~(k < m)
  <2>1. SUFFICES ASSUME k < m PROVE FALSE
    OBVIOUS
  <2>2. m \in k + 1 .. c - 1
    BY <1>1, <2>1
  <2>3. T[m].last < c
    BY <1>2, <2>2
  <2> QED
    BY <1>1, <2>3
<1>4. ~(m < k)
  <2>1. SUFFICES ASSUME m < k PROVE FALSE
    OBVIOUS
  <2>2. k \in m + 1 .. c - 1
    BY <1>1, <2>1
  <2>3. T[k].last < c
    BY <1>2, <2>2
  <2> QED
    BY <1>1, <2>3
<1>5. k = m
  BY <1>1, <1>3, <1>4
<1> DEFINE kids == T[k].kids
           end(a) == T[kids[a]].last
<1>7. /\ \A a, b \in 1 .. Len(kids) : a < b => end(a) < kids[b]
      /\ \A a \in 1 .. Len(kids) : kids[a] \in Nat /\ end(a) \in Nat /\ kids[a] <= end(a)
      /\ i \in 1 .. Len(kids) /\ j \in 1 .. Len(kids) /\ kids[i] = kids[j]
  BY <1>5, <1>6, Zenon
<1> HIDE DEF kids
<1>8. kids[i] \in Nat /\ end(i) \in Nat /\ kids[i] <= end(i) /\ end(j) \in Nat /\ kids[j] <= end(j)
  BY <1>7, Zenon
<1>9. i < j => end(i) < kids[j]
  BY <1>7, Zenon
<1>10. j < i => end(j) < kids[i]
  BY <1>7, Zenon
<1>11. kids[i] = kids[j]
  BY <1>7
<1> HIDE DEF end
<1>12. ~(i < j) /\ ~(j < i)
  BY <1>8, <1>9, <1>10, <1>11 DEF end
<1> QED
  BY <1>5, <1>6, <1>12

(* A node is a body, or a condition, by what it is to its parent.          *)
LEMMA BodiesAre ==
    ASSUME NEW T, IsTree(T)
    PROVE  /\ \A c : c \in Bodies(T) <=>
                \E k \in 1 .. Len(T) : \E i \in 1 .. Len(T[k].kids) : c = T[k].kids[i] /\ IsBody(T, T[k], i)
           /\ \A c : c \in Conditions(T) <=>
                \E k \in 1 .. Len(T) : \E i \in 1 .. Len(T[k].kids) : c = T[k].kids[i] /\ IsCondition(T[k], i)
<1>1. /\ ToSet(T) = {T[k] : k \in 1 .. Len(T)}
      /\ \A k \in 1 .. Len(T) : DOMAIN T[k].kids = 1 .. Len(T[k].kids)
  BY TreeTells, KidsTell DEF ToSet
<1>2. ASSUME NEW c
      PROVE  c \in Bodies(T) <=>
               \E k \in 1 .. Len(T) : \E i \in 1 .. Len(T[k].kids) : c = T[k].kids[i] /\ IsBody(T, T[k], i)
  <2>1. ASSUME c \in Bodies(T)
        PROVE  \E k \in 1 .. Len(T) : \E i \in 1 .. Len(T[k].kids) : c = T[k].kids[i] /\ IsBody(T, T[k], i)
    <3>1. PICK t \in ToSet(T) : c \in {t.kids[i] : i \in {j \in DOMAIN t.kids : IsBody(T, t, j)}}
      BY <2>1 DEF Bodies
    <3>2. PICK i \in DOMAIN t.kids : IsBody(T, t, i) /\ c = t.kids[i]
      BY <3>1
    <3>3. PICK k \in 1 .. Len(T) : t = T[k]
      BY <1>1
    <3>4. i \in 1 .. Len(T[k].kids)
      BY <1>1, <3>2, <3>3
    <3> QED
      BY <3>2, <3>3, <3>4
  <2>2. ASSUME NEW k \in 1 .. Len(T), NEW i \in 1 .. Len(T[k].kids), c = T[k].kids[i], IsBody(T, T[k], i)
        PROVE  c \in Bodies(T)
    <3>1. T[k] \in ToSet(T) /\ i \in DOMAIN T[k].kids
      BY <1>1
    <3>2. i \in {j \in DOMAIN T[k].kids : IsBody(T, T[k], j)}
      BY <2>2, <3>1
    <3>3. c \in {T[k].kids[a] : a \in {j \in DOMAIN T[k].kids : IsBody(T, T[k], j)}}
      BY <2>2, <3>2
    <3> QED
      BY <3>1, <3>3 DEF Bodies
  <2> QED
    BY <2>1, <2>2
<1>3. ASSUME NEW c
      PROVE  c \in Conditions(T) <=>
               \E k \in 1 .. Len(T) : \E i \in 1 .. Len(T[k].kids) : c = T[k].kids[i] /\ IsCondition(T[k], i)
  <2>1. ASSUME c \in Conditions(T)
        PROVE  \E k \in 1 .. Len(T) : \E i \in 1 .. Len(T[k].kids) : c = T[k].kids[i] /\ IsCondition(T[k], i)
    <3>1. PICK t \in ToSet(T) : c \in {t.kids[i] : i \in {j \in DOMAIN t.kids : IsCondition(t, j)}}
      BY <2>1 DEF Conditions
    <3>2. PICK i \in DOMAIN t.kids : IsCondition(t, i) /\ c = t.kids[i]
      BY <3>1
    <3>3. PICK k \in 1 .. Len(T) : t = T[k]
      BY <1>1
    <3>4. i \in 1 .. Len(T[k].kids)
      BY <1>1, <3>2, <3>3
    <3> QED
      BY <3>2, <3>3, <3>4
  <2>2. ASSUME NEW k \in 1 .. Len(T), NEW i \in 1 .. Len(T[k].kids), c = T[k].kids[i], IsCondition(T[k], i)
        PROVE  c \in Conditions(T)
    <3>1. T[k] \in ToSet(T) /\ i \in DOMAIN T[k].kids
      BY <1>1
    <3>2. i \in {j \in DOMAIN T[k].kids : IsCondition(T[k], j)}
      BY <2>2, <3>1
    <3>3. c \in {T[k].kids[a] : a \in {j \in DOMAIN T[k].kids : IsCondition(T[k], j)}}
      BY <2>2, <3>2
    <3> QED
      BY <3>1, <3>3 DEF Conditions
  <2> QED
    BY <2>1, <2>2
<1> QED
  BY <1>2, <1>3

LEMMA KidsPart ==
    ASSUME NEW T, IsTree(T), NEW k \in 1 .. Len(T), NEW i \in 1 .. Len(T[k].kids)
    PROVE  /\ T[k].kids[i] \in Bodies(T) <=> IsBody(T, T[k], i)
           /\ T[k].kids[i] \in Conditions(T) <=> IsCondition(T[k], i)
<1> DEFINE c == T[k].kids[i]
<1>1. ASSUME c \in Bodies(T) PROVE IsBody(T, T[k], i)
  <2>1. PICK m \in 1 .. Len(T) : \E j \in 1 .. Len(T[m].kids) : c = T[m].kids[j] /\ IsBody(T, T[m], j)
    BY <1>1, BodiesAre, Zenon
  <2>2. PICK j \in 1 .. Len(T[m].kids) : c = T[m].kids[j] /\ IsBody(T, T[m], j)
    BY <2>1
  <2>3. k = m /\ i = j
    BY <2>2, OneParent
  <2> QED
    BY <2>2, <2>3
<1>2. ASSUME c \in Conditions(T) PROVE IsCondition(T[k], i)
  <2>1. PICK m \in 1 .. Len(T) : \E j \in 1 .. Len(T[m].kids) : c = T[m].kids[j] /\ IsCondition(T[m], j)
    BY <1>2, BodiesAre, Zenon
  <2>2. PICK j \in 1 .. Len(T[m].kids) : c = T[m].kids[j] /\ IsCondition(T[m], j)
    BY <2>1
  <2>3. k = m /\ i = j
    BY <2>2, OneParent
  <2> QED
    BY <2>2, <2>3
<1>3. (IsBody(T, T[k], i) => c \in Bodies(T)) /\ (IsCondition(T[k], i) => c \in Conditions(T))
  BY BodiesAre
<1> QED
  BY <1>1, <1>2, <1>3

(* How deep a node is in its file, and how deep what it is reaches.        *)
BodiesOver(T, p) == {q \in 1 .. p : q \in Bodies(T) /\ p <= T[q].last}
Level(T, p) == Cardinality(BodiesOver(T, p))
NoArms(t) == t.kind = "match" /\ Len(t.kids) = 1
Reach(T, p) == Level(T, p) + (IF NoArms(T[p]) THEN 1 ELSE 0)

LEMMA LevelsType ==
    ASSUME NEW T, NEW p \in Nat
    PROVE  IsFiniteSet(BodiesOver(T, p)) /\ Level(T, p) \in Nat /\ Reach(T, p) \in Nat /\ Level(T, p) <= Reach(T, p)
<1>1. IsFiniteSet(1 .. p) /\ BodiesOver(T, p) \subseteq 1 .. p
  BY FS_Interval DEF BodiesOver
<1>2. IsFiniteSet(BodiesOver(T, p))
  BY <1>1, FS_Subset
<1>3. Level(T, p) \in Nat
  BY <1>2, FS_CardinalityType DEF Level
<1> QED
  BY <1>2, <1>3 DEF Reach

(* A body is one level down, every other child is on its parent's level.   *)
LEMMA KidLevel ==
    ASSUME NEW T, IsTree(T), NEW k \in 1 .. Len(T), NEW i \in 1 .. Len(T[k].kids)
    PROVE  Level(T, T[k].kids[i]) = Level(T, k) + (IF IsBody(T, T[k], i) THEN 1 ELSE 0)
<1> DEFINE c == T[k].kids[i]
           B == Bodies(T)
<1>1. /\ k \in Nat /\ c \in Nat /\ k < c /\ T[c].last \in Nat /\ c <= T[c].last
      /\ c \in 1 .. Len(T) /\ T[c].last <= T[k].last /\ T[k].last \in Nat /\ Len(T) \in Nat
  BY KidsTell
<1>2. c \in B <=> IsBody(T, T[k], i)
  BY KidsPart
<1>3. \A q \in k + 1 .. c - 1 : T[q].last < c
  BY KidsAreTops DEF Tops
<1>4. \A q \in 1 .. Len(T) : /\ T[q].last \in Nat
                             /\ \A r \in q .. T[q].last : T[r].last <= T[q].last
  <2>1. \A q \in 1 .. Len(T) : T[q].last \in q .. Len(T) /\ Nests(T, q)
    BY TreeTells, Zenon
  <2> QED
    BY <1>1, <2>1 DEF Nests
<1> HIDE DEF c, B
<1>5. ASSUME NEW q \in 1 .. c - 1
      PROVE  c <= T[q].last <=> q \in 1 .. k /\ k <= T[q].last
  <2>1. q \in 1 .. Len(T) /\ q \in Nat /\ 1 <= q /\ q < c /\ T[q].last \in Nat
    BY <1>1, <1>4
  <2>2. CASE q <= k
    <3>1. q \in 1 .. k
      BY <1>1, <2>1, <2>2
    <3>2. ASSUME k <= T[q].last PROVE c <= T[q].last
      <4>1. k \in q .. T[q].last
        BY <1>1, <2>1, <2>2, <3>2
      <4>2. T[k].last <= T[q].last
        BY <1>4, <2>1, <4>1
      <4> QED
        BY <1>1, <2>1, <4>2
    <3>3. ASSUME c <= T[q].last PROVE k <= T[q].last
      BY <1>1, <2>1, <3>3
    <3> QED
      BY <3>1, <3>2, <3>3
  <2>3. CASE ~(q <= k)
    <3>1. q \in k + 1 .. c - 1
      BY <1>1, <2>1, <2>3
    <3>2. T[q].last < c
      BY <1>3, <3>1
    <3> QED
      BY <1>1, <2>1, <2>3, <3>2
  <2> QED
    BY <2>2, <2>3
<1>6. ASSUME NEW q
      PROVE  q \in BodiesOver(T, c) <=> q \in BodiesOver(T, k) \/ (q = c /\ c \in B)
  <2>1. q \in BodiesOver(T, c) <=> q \in 1 .. c /\ q \in B /\ c <= T[q].last
    BY DEF BodiesOver, B
  <2>2. q \in BodiesOver(T, k) <=> q \in 1 .. k /\ q \in B /\ k <= T[q].last
    BY DEF BodiesOver, B
  <2>3. CASE q = c
    <3>1. q \in 1 .. c /\ q \notin 1 .. k
      BY <1>1, <2>3
    <3> QED
      BY <1>1, <2>1, <2>2, <2>3, <3>1
  <2>4. CASE q \in 1 .. c - 1
    <3>1. q \in 1 .. c /\ q # c
      BY <1>1, <2>4
    <3>2. c <= T[q].last <=> q \in 1 .. k /\ k <= T[q].last
      BY <1>5, <2>4
    <3> QED
      BY <2>1, <2>2, <3>1, <3>2
  <2>5. CASE q # c /\ q \notin 1 .. c - 1
    <3>1. q \notin 1 .. c /\ q \notin 1 .. k
      BY <1>1, <2>5
    <3> QED
      BY <2>1, <2>2, <2>5, <3>1
  <2> QED
    BY <2>3, <2>4, <2>5
<1>7. IsFiniteSet(BodiesOver(T, k)) /\ Level(T, k) \in Nat
  BY <1>1, LevelsType
<1>8. CASE c \in B
  <2>1. BodiesOver(T, c) = BodiesOver(T, k) \cup {c}
    BY <1>6, <1>8
  <2>2. c \notin BodiesOver(T, k)
    <3>1. c \notin 1 .. k
      BY <1>1
    <3> QED
      BY <3>1 DEF BodiesOver
  <2>3. Cardinality(BodiesOver(T, k) \cup {c}) = Cardinality(BodiesOver(T, k)) + 1
    BY <1>7, <2>2, FS_AddElement, Zenon
  <2>4. Level(T, c) = Level(T, k) + 1
    BY <2>1, <2>3 DEF Level
  <2> QED
    BY <1>2, <1>8, <2>4 DEF c
<1>9. CASE c \notin B
  <2>1. BodiesOver(T, c) = BodiesOver(T, k)
    BY <1>6, <1>9, Zenon
  <2>2. Level(T, c) = Level(T, k) /\ ~IsBody(T, T[k], i)
    BY <1>2, <1>9, <2>1 DEF Level
  <2> QED
    BY <1>7, <2>2 DEF c
<1> QED
  BY <1>8, <1>9

(* The depth of a node below another is how much deeper its level is.      *)
LEMMA DepthIsLevel ==
    ASSUME NEW T, IsTree(T), NEW s \in 1 .. Len(T), NEW p \in s .. T[s].last
    PROVE  Reach(T, p) = Level(T, s) + Depth(T, Bodies(T), s, p) /\ Depth(T, Bodies(T), s, p) \in Nat
<1> DEFINE B == Bodies(T)
           D == {q \in s + 1 .. p : q \in B /\ p <= T[q].last}
<1>1. s \in Nat /\ p \in Nat /\ s <= p /\ p <= T[s].last /\ 1 <= s /\ T[s].last \in Nat /\ Len(T) \in Nat
  <2>1. s \in Nat /\ T[s].last \in Nat /\ Len(T) \in Nat
    BY KidsTell
  <2> QED
    BY <2>1
<1>2. \A q \in 1 .. s : T[q].last \in Nat /\ (s <= T[q].last => T[s].last <= T[q].last)
  <2>1. SUFFICES ASSUME NEW q \in 1 .. s
                 PROVE  T[q].last \in Nat /\ (s <= T[q].last => T[s].last <= T[q].last)
    OBVIOUS
  <2>2. q \in 1 .. Len(T)
    BY <1>1
  <2>3. T[q].last \in q .. Len(T) /\ Nests(T, q)
    BY <2>2, TreeTells
  <2>4. s <= T[q].last => s \in q .. T[q].last
    BY <1>1, <2>3
  <2>5. s \in q .. T[q].last => T[s].last <= T[q].last
    BY <2>3 DEF Nests
  <2> QED
    BY <1>1, <2>3, <2>4, <2>5
<1>3. ASSUME NEW q
      PROVE  q \in BodiesOver(T, p) <=> q \in BodiesOver(T, s) \/ q \in D
  <2>1. q \in BodiesOver(T, p) <=> q \in 1 .. p /\ q \in B /\ p <= T[q].last
    BY DEF BodiesOver
  <2>2. q \in BodiesOver(T, s) <=> q \in 1 .. s /\ q \in B /\ s <= T[q].last
    BY DEF BodiesOver
  <2>3. q \in 1 .. p <=> q \in 1 .. s \/ q \in s + 1 .. p
    BY <1>1
  <2>4. q \in 1 .. s => (p <= T[q].last <=> s <= T[q].last)
    BY <1>1, <1>2
  <2> HIDE DEF B
  <2> QED
    BY <2>1, <2>2, <2>3, <2>4
<1>4. IsFiniteSet(D) /\ BodiesOver(T, s) \cap D = {}
  <2>3. \A q \in s + 1 .. p : q \in 1 .. p
    BY <1>1
  <2>4. IsFiniteSet(1 .. p)
    BY <1>1, FS_Interval
  <2>1. D \subseteq 1 .. p /\ IsFiniteSet(1 .. p)
    BY <2>3, <2>4
  <2>2. \A q \in D : q \notin 1 .. s
    BY <1>1
  <2> QED
    BY <2>1, <2>2, FS_Subset DEF BodiesOver
<1> HIDE DEF D
<1>5. BodiesOver(T, p) = BodiesOver(T, s) \cup D
  BY <1>3
<1>6. IsFiniteSet(BodiesOver(T, s)) /\ Level(T, s) \in Nat
  BY <1>1, LevelsType
<1>8. Cardinality(D) \in Nat /\ Cardinality(BodiesOver(T, s)) \in Nat
  BY <1>4, <1>6, FS_CardinalityType
<1>7. Cardinality(BodiesOver(T, s) \cup D) = Cardinality(BodiesOver(T, s)) + Cardinality(D)
  <2>1. Cardinality(BodiesOver(T, s) \cup D) = Cardinality(BodiesOver(T, s)) + Cardinality(D) - Cardinality({})
    BY <1>4, <1>6, FS_Union
  <2> QED
    BY <1>8, <2>1, FS_EmptySet
<1> DEFINE d == Cardinality(D)
<1>9. Level(T, p) = Level(T, s) + d
  BY <1>5, <1>7 DEF Level
<1>10. Depth(T, B, s, p) = d + (IF NoArms(T[p]) THEN 1 ELSE 0)
  BY DEF Depth, D, NoArms
<1>11. Reach(T, p) = Level(T, p) + (IF NoArms(T[p]) THEN 1 ELSE 0)
  BY DEF Reach
<1> DEFINE l == Level(T, s)
           r == Reach(T, p)
           x == Depth(T, B, s, p)
<1>12. CASE NoArms(T[p])
  <2>1. r = l + d + 1 /\ x = d + 1 /\ l \in Nat /\ d \in Nat
    BY <1>6, <1>8, <1>9, <1>10, <1>11, <1>12
  <2> HIDE DEF l, r, x, d
  <2>2. r = l + x /\ x \in Nat
    BY <2>1
  <2> QED
    BY <2>2 DEF l, r, x
<1>13. CASE ~NoArms(T[p])
  <2>1. r = (l + d) + 0 /\ x = d + 0 /\ l \in Nat /\ d \in Nat
    BY <1>6, <1>8, <1>9, <1>10, <1>11, <1>13
  <2> HIDE DEF l, r, x, d
  <2>2. r = l + x /\ x \in Nat
    BY <2>1
  <2> QED
    BY <2>2 DEF l, r, x
<1> QED
  BY <1>12, <1>13

IsSite(t) == Stubs(t) \/ Panics(t)

(* What binds is on one level, and holds no condition and no site.         *)
LEMMA BindersAreQuiet ==
    ASSUME NEW T, IsTree(T), NEW c \in 1 .. Len(T),
           \A q \in c .. T[c].last : T[q].kind \in Patterns, NEW p \in c .. T[c].last
    PROVE  /\ p # c => p \notin Bodies(T) /\ p \notin Conditions(T)
           /\ Reach(T, p) = Level(T, c)
           /\ ~IsSite(T[p])
<1>1. /\ c \in Nat /\ p \in Nat /\ c <= p /\ p <= T[c].last /\ T[c].last \in Nat /\ p \in 1 .. Len(T)
      /\ Len(T) \in Nat /\ 1 <= c
  <2>1. c \in Nat /\ T[c].last \in Nat /\ Len(T) \in Nat /\ T[c].last <= Len(T)
    BY KidsTell
  <2> QED
    BY <2>1
<1>2. ASSUME NEW m \in 1 .. Len(T), NEW j \in 1 .. Len(T[m].kids), NEW q \in c + 1 .. T[c].last,
             q = T[m].kids[j]
      PROVE  ~IsBody(T, T[m], j) /\ ~IsCondition(T[m], j)
  <2>1. m \in Nat /\ q \in Nat /\ m < q /\ c < q /\ q <= T[c].last
    BY <1>1, <1>2, KidsTell
  <2>2. c <= m
    <3>1. SUFFICES ASSUME m < c PROVE FALSE
      BY <1>1, <2>1
    <3>2. c \in m + 1 .. q - 1
      BY <1>1, <2>1, <3>1
    <3>3. T[c].last < q
      BY <1>2, <3>2, KidsAreTops, Zenon DEF Tops
    <3> QED
      BY <1>1, <2>1, <3>3
  <2>3. m \in c .. T[c].last
    BY <1>1, <2>1, <2>2
  <2>4. T[m].kind \in Patterns
    BY <2>3
  <2>5. Patterns \cap {"for", "local", "while", "if", "loop", "closure", "async", "match", "arm"} = {}
    BY DEF Patterns
  <2> QED
    BY <2>4, <2>5 DEF IsBody, IsCondition
<1>3. ASSUME NEW q \in c + 1 .. T[c].last
      PROVE  q \notin Bodies(T) /\ q \notin Conditions(T)
  BY <1>2, BodiesAre, Zenon
<1>4. p # c => p \in c + 1 .. T[c].last
  BY <1>1
<1>5. T[p].kind \in Patterns
  OBVIOUS
<1>6. Patterns \cap {"match", "macro", "call"} = {}
  BY DEF Patterns
<1>7. ~NoArms(T[p]) /\ ~IsSite(T[p])
  BY <1>5, <1>6 DEF NoArms, IsSite, Stubs, Panics, Unwraps
<1>8. Depth(T, Bodies(T), c, p) = 0
  <2>1. {q \in c + 1 .. p : q \in Bodies(T) /\ p <= T[q].last} = {}
    <3>1. \A q \in c + 1 .. p : q \in c + 1 .. T[c].last
      BY <1>1
    <3> QED
      BY <1>3, <3>1
  <2>2. Cardinality({q \in c + 1 .. p : q \in Bodies(T) /\ p <= T[q].last}) = 0
    BY <2>1, FS_EmptySet, Zenon
  <2>3. Depth(T, Bodies(T), c, p) = 0 + (IF NoArms(T[p]) THEN 1 ELSE 0)
    BY <2>2 DEF Depth, NoArms
  <2> QED
    BY <2>3, <1>7
<1>9. Reach(T, p) = Level(T, c)
  <2>1. Reach(T, p) = Level(T, c) + 0 /\ Level(T, c) \in Nat
    BY <1>1, <1>8, DepthIsLevel, LevelsType
  <2> QED
    BY <2>1
<1> QED
  BY <1>3, <1>4, <1>7, <1>9

(* What a walk does to a walker: it has passed the nodes of P and scored   *)
(* the conditions of C.  `o' is what a depth is ahead of its level.        *)
Deepens(T, o, w, v, P) ==
    /\ v.depth = w.depth /\ w.deepest <= v.deepest
    /\ \A p \in P : o + Reach(T, p) <= v.deepest
    /\ v.deepest = w.deepest \/ \E p \in P : v.deepest = o + Reach(T, p)
Scored(T, w, v, C) ==
    /\ w.ops <= v.ops
    /\ \A c \in C : Operators(T, c) <= v.ops
    /\ \/ v.ops = w.ops /\ v.worst = w.worst
       \/ /\ w.ops < v.ops /\ v.worst \in C /\ Operators(T, v.worst) = v.ops
          /\ \A c \in C : c < v.worst => Operators(T, c) < v.ops
Adds(a, b, S) == \E s \in Seq(Nat) : b = a \o s /\ Lists(s, S)
StubsOf(T, P) == {p \in P : Stubs(T[p])}
PanicsOf(T, P) == {p \in P : Panics(T[p])}
Walked(T, o, w, v, P, C) ==
    /\ v \in Walkers
    /\ Deepens(T, o, w, v, P)
    /\ Scored(T, w, v, C)
    /\ Adds(w.stubs, v.stubs, StubsOf(T, P))
    /\ Adds(w.panics, v.panics, PanicsOf(T, P))

(* The nodes of one set that count come before those of another.           *)
SitesApart(T, P, Q) == \A p \in P, q \in Q : IsSite(T[p]) /\ IsSite(T[q]) => p < q

LEMMA WalkersType ==
    ASSUME NEW w \in Walkers
    PROVE  w.depth \in Int /\ w.deepest \in Int /\ w.ops \in Nat /\ w.worst \in Nat
           /\ w.stubs \in Seq(Nat) /\ w.panics \in Seq(Nat)
BY DEF Walkers

LEMMA OperatorsType ==
    ASSUME NEW T, IsTree(T), NEW c \in 1 .. Len(T)
    PROVE  Operators(T, c) \in Nat /\ BoolOps(T, c) = Operators(T, c)
<1> DEFINE kinds == {"closure", "if", "match", "exprblock"}
           stops == OfKind(T, kinds)
           sites == That(T, Connects)
           seen == Taken(T, stops, sites, c, T[c].last)
           S == Shown(T, stops, c, T[c].last)
<1>1. DOMAIN T = 1 .. Len(T) /\ Forest(T, c, T[c].last) /\ T[c].last \in c .. Len(T) /\ c <= T[c].last + 1
  BY TreeTells
<1>2. seen \in Seq(Nat) /\ Lists(seen, S \cap sites)
  BY <1>1, TakenLists, Zenon
<1>3. S = Scope(T, c, kinds)
  BY <1>1, ScopeIsShown
<1>4. S \cap sites = {q \in S : Connects(T[q])}
  <2>1. \A q \in S : q \in DOMAIN T
    <3>1. \A q \in c .. T[c].last : q \in 1 .. Len(T)
      BY <1>1
    <3> QED
      BY <1>1, <3>1 DEF Shown
  <2> HIDE DEF S
  <2> QED
    BY <2>1 DEF That
<1>5. Len(seen) = Cardinality(S \cap sites) /\ Len(seen) \in Nat
  BY <1>2, ListedAre
<1>6. BoolOps(T, c) = Len(seen)
  BY DEF BoolOps
<1>7. Operators(T, c) = Cardinality(S \cap sites)
  BY <1>3, <1>4, Zenon DEF Operators
<1> QED
  BY <1>5, <1>6, <1>7

LEMMA AddsNothing ==
    ASSUME NEW a \in Seq(Nat) PROVE Adds(a, a, {})
<1>1. a = a \o <<>>
  BY ConcatEmptySeq
<1> QED
  BY <1>1, NothingListed, Zenon DEF Adds

LEMMA AddsMore ==
    ASSUME NEW a \in Seq(Nat), NEW b, NEW c, NEW A, NEW B, Adds(a, b, A), Adds(b, c, B),
           \A x \in A, y \in B : x < y
    PROVE  Adds(a, c, A \cup B)
<1>1. PICK s \in Seq(Nat) : b = a \o s /\ Lists(s, A)
  BY Zenon DEF Adds
<1>2. PICK t \in Seq(Nat) : c = b \o t /\ Lists(t, B)
  BY Zenon DEF Adds
<1>3. s \o t \in Seq(Nat) /\ Lists(s \o t, A \cup B)
  BY <1>1, <1>2, ListsJoin, Zenon
<1>4. c = a \o (s \o t)
  <2>1. (a \o s) \o t = a \o (s \o t)
    BY ConcatAssociative, SMTT(30)
  <2>2. c = (a \o s) \o t
    BY <1>1, <1>2
  <2> QED
    BY <2>1, <2>2
<1> QED
  BY <1>3, <1>4, Zenon DEF Adds

(* Two walks, one after the other.                                         *)
LEMMA ScoredJoin ==
    ASSUME NEW T, IsTree(T), NEW w \in Walkers, NEW u \in Walkers, NEW v \in Walkers,
           NEW C \in SUBSET (1 .. Len(T)), NEW E \in SUBSET (1 .. Len(T)),
           Scored(T, w, u, C), Scored(T, u, v, E), \A c \in C, e \in E : c < e
    PROVE  Scored(T, w, v, C \cup E)
<1>1. /\ w.ops \in Nat /\ u.ops \in Nat /\ v.ops \in Nat /\ u.worst \in Nat /\ v.worst \in Nat
      /\ \A c \in C \cup E : Operators(T, c) \in Nat /\ c \in Nat
  <2>1. \A c \in 1 .. Len(T) : Operators(T, c) \in Nat /\ c \in Nat
    BY OperatorsType
  <2> QED
    BY <2>1, WalkersType
<1>2. /\ w.ops <= u.ops /\ u.ops <= v.ops
      /\ \A c \in C : Operators(T, c) <= u.ops
      /\ \A c \in E : Operators(T, c) <= v.ops
  BY DEF Scored
<1>3. w.ops <= v.ops /\ \A c \in C \cup E : Operators(T, c) <= v.ops
  BY <1>1, <1>2
<1>4. CASE v.ops = u.ops /\ v.worst = u.worst
  <2>1. CASE u.ops = w.ops /\ u.worst = w.worst
    BY <1>3, <1>4, <2>1 DEF Scored
  <2>2. CASE /\ w.ops < u.ops /\ u.worst \in C /\ Operators(T, u.worst) = u.ops
             /\ \A c \in C : c < u.worst => Operators(T, c) < u.ops
    <3>1. \A c \in C \cup E : c < u.worst => Operators(T, c) < u.ops
      <4>1. \A c \in E : ~(c < u.worst)
        BY <1>1, <2>2
      <4> QED
        BY <2>2, <4>1
    <3> QED
      BY <1>3, <1>4, <2>2, <3>1 DEF Scored
  <2> QED
    BY <2>1, <2>2 DEF Scored
<1>5. CASE /\ u.ops < v.ops /\ v.worst \in E /\ Operators(T, v.worst) = v.ops
           /\ \A c \in E : c < v.worst => Operators(T, c) < v.ops
  <2>1. w.ops < v.ops
    BY <1>1, <1>2, <1>5
  <2>2. \A c \in C : Operators(T, c) < v.ops
    BY <1>1, <1>2, <1>5
  <2> QED
    BY <1>3, <1>5, <2>1, <2>2 DEF Scored
<1> QED
  BY <1>4, <1>5 DEF Scored

LEMMA WalkedJoin ==
    ASSUME NEW T, IsTree(T), NEW o \in Int, NEW w \in Walkers, NEW u, NEW v,
           NEW P \in SUBSET (1 .. Len(T)), NEW Q \in SUBSET (1 .. Len(T)),
           NEW C \in SUBSET (1 .. Len(T)), NEW E \in SUBSET (1 .. Len(T)),
           Walked(T, o, w, u, P, C), Walked(T, o, u, v, Q, E),
           SitesApart(T, P, Q), \A c \in C, e \in E : c < e
    PROVE  Walked(T, o, w, v, P \cup Q, C \cup E)
<1>1. u \in Walkers /\ v \in Walkers
  BY DEF Walked
<1>2. Deepens(T, o, w, v, P \cup Q)
  <2>1. /\ w.deepest \in Int /\ u.deepest \in Int /\ v.deepest \in Int
        /\ \A p \in P \cup Q : o + Reach(T, p) \in Int
    <3>1. \A p \in 1 .. Len(T) : p \in Nat
      OBVIOUS
    <3>2. \A p \in 1 .. Len(T) : Reach(T, p) \in Nat
      BY <3>1, LevelsType
    <3> QED
      BY <1>1, <3>2, WalkersType
  <2>2. Deepens(T, o, w, u, P) /\ Deepens(T, o, u, v, Q)
    BY DEF Walked
  <2>3. v.depth = w.depth /\ w.deepest <= u.deepest /\ u.deepest <= v.deepest
        /\ (\A p \in P : o + Reach(T, p) <= u.deepest) /\ (\A p \in Q : o + Reach(T, p) <= v.deepest)
    BY <2>2 DEF Deepens
  <2> DEFINE at(p) == o + Reach(T, p)
  <2>4. w.deepest <= v.deepest /\ \A p \in P \cup Q : at(p) <= v.deepest
    <3> HIDE DEF at
    <3>1. \A p \in P \cup Q : at(p) \in Int
      BY <2>1 DEF at
    <3>2. (\A p \in P : at(p) <= u.deepest) /\ (\A p \in Q : at(p) <= v.deepest)
      BY <2>3 DEF at
    <3> QED
      BY <2>1, <2>3, <3>1, <3>2
  <2>5. v.deepest = w.deepest \/ \E p \in P \cup Q : v.deepest = at(p)
    <3>1. /\ u.deepest = w.deepest \/ \E p \in P : u.deepest = at(p)
          /\ v.deepest = u.deepest \/ \E p \in Q : v.deepest = at(p)
      BY <2>2 DEF Deepens
    <3> HIDE DEF at
    <3> QED
      BY <3>1
  <2> QED
    BY <2>3, <2>4, <2>5 DEF Deepens
<1>3. Scored(T, w, v, C \cup E)
  BY <1>1, ScoredJoin DEF Walked
<1>4. Adds(w.stubs, v.stubs, StubsOf(T, P \cup Q))
  <2>1. StubsOf(T, P \cup Q) = StubsOf(T, P) \cup StubsOf(T, Q)
    BY DEF StubsOf
  <2>2. \A x \in StubsOf(T, P), y \in StubsOf(T, Q) : x < y
    BY DEF StubsOf, SitesApart, IsSite
  <2> DEFINE a == w.stubs
             b == u.stubs
             c == v.stubs
             A == StubsOf(T, P)
             B == StubsOf(T, Q)
  <2>3. a \in Seq(Nat) /\ Adds(a, b, A) /\ Adds(b, c, B) /\ \A x \in A, y \in B : x < y
    BY <2>2, WalkersType DEF Walked
  <2> HIDE DEF a, b, c, A, B
  <2>4. Adds(a, c, A \cup B)
    BY <2>3, AddsMore
  <2> QED
    BY <2>1, <2>4, Zenon DEF a, c, A, B
<1>5. Adds(w.panics, v.panics, PanicsOf(T, P \cup Q))
  <2>1. PanicsOf(T, P \cup Q) = PanicsOf(T, P) \cup PanicsOf(T, Q)
    BY DEF PanicsOf
  <2>2. \A x \in PanicsOf(T, P), y \in PanicsOf(T, Q) : x < y
    BY DEF PanicsOf, SitesApart, IsSite
  <2> DEFINE a == w.panics
             b == u.panics
             c == v.panics
             A == PanicsOf(T, P)
             B == PanicsOf(T, Q)
  <2>3. a \in Seq(Nat) /\ Adds(a, b, A) /\ Adds(b, c, B) /\ \A x \in A, y \in B : x < y
    BY <2>2, WalkersType DEF Walked
  <2> HIDE DEF a, b, c, A, B
  <2>4. Adds(a, c, A \cup B)
    BY <2>3, AddsMore
  <2> QED
    BY <2>1, <2>4, Zenon DEF a, c, A, B
<1> QED
  BY <1>1, <1>2, <1>3, <1>4, <1>5 DEF Walked

(* Nothing to do for nodes no deeper than the walk has been.               *)
LEMMA WalkedPast ==
    ASSUME NEW T, NEW o \in Int, NEW w \in Walkers, NEW N,
           \A n \in N : ~IsSite(T[n]) /\ o + Reach(T, n) <= w.deepest
    PROVE  Walked(T, o, w, w, N, {})
<1>1. StubsOf(T, N) = {} /\ PanicsOf(T, N) = {}
  BY DEF StubsOf, PanicsOf, IsSite
<1>2. Adds(w.stubs, w.stubs, {}) /\ Adds(w.panics, w.panics, {})
  BY WalkersType, AddsNothing
<1>3. Deepens(T, o, w, w, N)
  BY WalkersType DEF Deepens
<1>4. Scored(T, w, w, {})
  BY WalkersType DEF Scored
<1> QED
  BY <1>1, <1>2, <1>3, <1>4 DEF Walked

(* Walker::visit_macro, visit_expr_method_call.                            *)
LEMMA SiteWalked ==
    ASSUME NEW T, NEW o \in Int, NEW w \in Walkers, NEW k \in Nat, o + Reach(T, k) <= w.deepest
    PROVE  Walked(T, o, w, Site(T, w, k), {k}, {})
<1> DEFINE v == Site(T, w, k)
<1>1. ~(Stubs(T[k]) /\ Panics(T[k]))
  BY DEF Stubs, Panics, Unwraps
<1>2. /\ w.stubs \in Seq(Nat) /\ w.panics \in Seq(Nat) /\ <<k>> \in Seq(Nat) /\ Lists(<<k>>, {k})
      /\ Append(w.stubs, k) = w.stubs \o <<k>> /\ Append(w.panics, k) = w.panics \o <<k>>
      /\ Append(w.stubs, k) \in Seq(Nat) /\ Append(w.panics, k) \in Seq(Nat)
  <2>1. w.stubs \in Seq(Nat) /\ w.panics \in Seq(Nat)
    BY WalkersType
  <2>2. <<k>> \in Seq(Nat) /\ Lists(<<k>>, {k})
    BY OneListed
  <2> QED
    BY <2>1, <2>2, AppendIsConcat, AppendProperties, Zenon
<1>3. /\ v \in Walkers /\ v.depth = w.depth /\ v.deepest = w.deepest /\ v.ops = w.ops /\ v.worst = w.worst
      /\ v.stubs = IF Stubs(T[k]) THEN Append(w.stubs, k) ELSE w.stubs
      /\ v.panics = IF Panics(T[k]) THEN Append(w.panics, k) ELSE w.panics
  BY <1>1, <1>2, Zenon DEF Walkers, Site
<1> HIDE DEF v
<1>4. Adds(w.stubs, v.stubs, StubsOf(T, {k}))
  <2>1. CASE Stubs(T[k])
    <3>1. StubsOf(T, {k}) = {k}
      BY <2>1 DEF StubsOf
    <3> QED
      BY <1>2, <1>3, <2>1, <3>1, Zenon DEF Adds
  <2>2. CASE ~Stubs(T[k])
    <3>1. StubsOf(T, {k}) = {}
      BY <2>2 DEF StubsOf
    <3> QED
      BY <1>2, <1>3, <2>2, <3>1, AddsNothing, Zenon
  <2> QED
    BY <2>1, <2>2
<1>5. Adds(w.panics, v.panics, PanicsOf(T, {k}))
  <2>1. CASE Panics(T[k])
    <3>1. PanicsOf(T, {k}) = {k}
      BY <2>1 DEF PanicsOf
    <3> QED
      BY <1>2, <1>3, <2>1, <3>1, Zenon DEF Adds
  <2>2. CASE ~Panics(T[k])
    <3>1. PanicsOf(T, {k}) = {}
      BY <2>2 DEF PanicsOf
    <3> QED
      BY <1>2, <1>3, <2>2, <3>1, AddsNothing, Zenon
  <2> QED
    BY <2>1, <2>2
<1>6. Deepens(T, o, w, v, {k})
  BY <1>3, WalkersType DEF Deepens
<1>7. Scored(T, w, v, {})
  BY <1>3, WalkersType DEF Scored
<1> QED
  BY <1>3, <1>4, <1>5, <1>6, <1>7 DEF Walked, v

(* Walker::condition, before the walk of it.                               *)
LEMMA ScoreWalked ==
    ASSUME NEW T, IsTree(T), NEW o \in Int, NEW w \in Walkers, NEW c \in 1 .. Len(T)
    PROVE  Walked(T, o, w, Score(T, w, c), {}, {c}) /\ Score(T, w, c).deepest = w.deepest
           /\ Score(T, w, c).depth = w.depth
<1> DEFINE v == Score(T, w, c)
           n == Operators(T, c)
<1>1. n \in Nat /\ BoolOps(T, c) = n /\ c \in Nat
  BY OperatorsType
<1>2. v = IF n > w.ops THEN [w EXCEPT !.ops = n, !.worst = c] ELSE w
  BY <1>1 DEF Score
<1> HIDE DEF v, n
<1>3. /\ v \in Walkers /\ v.depth = w.depth /\ v.deepest = w.deepest /\ v.stubs = w.stubs /\ v.panics = w.panics
      /\ v.ops = (IF n > w.ops THEN n ELSE w.ops) /\ v.worst = (IF n > w.ops THEN c ELSE w.worst)
  BY <1>1, <1>2, Zenon DEF Walkers
<1>4. StubsOf(T, {}) = {} /\ PanicsOf(T, {}) = {}
  BY DEF StubsOf, PanicsOf
<1>5. Adds(w.stubs, v.stubs, {}) /\ Adds(w.panics, v.panics, {})
  BY <1>3, WalkersType, AddsNothing
<1>6. Deepens(T, o, w, v, {})
  BY <1>3, WalkersType DEF Deepens
<1>7. Scored(T, w, v, {c})
  <2>1. w.ops \in Nat
    BY WalkersType
  <2>2. CASE n > w.ops
    <3>1. v.ops = n /\ v.worst = c /\ w.ops < v.ops /\ w.ops <= v.ops
      BY <1>1, <1>3, <2>1, <2>2
    <3>2. /\ \A d \in {c} : Operators(T, d) = n
          /\ \A d \in {c} : ~(d < c)
      BY <1>1 DEF n
    <3> QED
      BY <1>1, <3>1, <3>2 DEF Scored
  <2>3. CASE ~(n > w.ops)
    <3>1. v.ops = w.ops /\ v.worst = w.worst /\ w.ops <= v.ops /\ n <= v.ops
      BY <1>1, <1>3, <2>1, <2>3
    <3>2. \A d \in {c} : Operators(T, d) = n
      BY DEF n
    <3> QED
      BY <3>1, <3>2 DEF Scored
  <2> QED
    BY <2>2, <2>3
<1> QED
  BY <1>3, <1>4, <1>5, <1>6, <1>7, Zenon DEF Walked, v

(* Walker::nested: one deeper for what is inside.                          *)
LEMMA IntoTells ==
    ASSUME NEW w \in Walkers
    PROVE  /\ Into(w) \in Walkers /\ Into(w).depth = w.depth + 1 /\ Into(w).ops = w.ops
           /\ Into(w).worst = w.worst /\ Into(w).stubs = w.stubs /\ Into(w).panics = w.panics
           /\ w.deepest <= Into(w).deepest /\ w.depth + 1 <= Into(w).deepest
           /\ Into(w).deepest = w.deepest \/ Into(w).deepest = w.depth + 1
<1>1. w.depth \in Int /\ w.deepest \in Int
  BY WalkersType
<1> DEFINE d == IF w.deepest >= w.depth + 1 THEN w.deepest ELSE w.depth + 1
<1>2. Into(w) = [w EXCEPT !.depth = w.depth + 1, !.deepest = d]
  BY DEF Into, Larger
<1>3. d \in Int /\ w.deepest <= d /\ w.depth + 1 <= d /\ (d = w.deepest \/ d = w.depth + 1) /\ w.depth + 1 \in Int
  BY <1>1
<1> HIDE DEF d
<1>4. /\ Into(w) \in Walkers /\ Into(w).depth = w.depth + 1 /\ Into(w).deepest = d /\ Into(w).ops = w.ops
      /\ Into(w).worst = w.worst /\ Into(w).stubs = w.stubs /\ Into(w).panics = w.panics
  BY <1>2, <1>3, Zenon DEF Walkers
<1> QED
  BY <1>3, <1>4

LEMMA NestedWalked ==
    ASSUME NEW T, NEW o \in Int, NEW w \in Walkers, NEW v, NEW P \in SUBSET Nat, NEW C,
           Walked(T, o, Into(w), v, P, C), NEW N \in SUBSET Nat,
           \A n \in N : ~IsSite(T[n]) /\ o + Reach(T, n) <= w.depth + 1,
           \E q \in P \cup N : w.depth + 1 <= o + Reach(T, q)
    PROVE  Walked(T, o, w, OutOf(v), P \cup N, C)
<1> DEFINE u == Into(w)
           x == OutOf(v)
           at(p) == o + Reach(T, p)
<1>1. /\ u \in Walkers /\ u.depth = w.depth + 1 /\ u.ops = w.ops /\ u.worst = w.worst
      /\ u.stubs = w.stubs /\ u.panics = w.panics /\ w.deepest <= u.deepest /\ w.depth + 1 <= u.deepest
      /\ u.deepest = w.deepest \/ u.deepest = w.depth + 1
  BY IntoTells
<1>2. /\ v \in Walkers /\ Deepens(T, o, u, v, P) /\ Scored(T, u, v, C)
      /\ Adds(u.stubs, v.stubs, StubsOf(T, P)) /\ Adds(u.panics, v.panics, PanicsOf(T, P))
  BY DEF Walked
<1>3. /\ w.depth \in Int /\ w.deepest \in Int /\ v.depth \in Int /\ v.deepest \in Int
      /\ u.depth \in Int /\ u.deepest \in Int
      /\ \A p \in P \cup N : at(p) \in Int
  <2>1. \A p \in P \cup N : Reach(T, p) \in Nat
    BY LevelsType
  <2> HIDE DEF u
  <2> QED
    BY <1>1, <1>2, <2>1, WalkersType
<1>4. v.depth = u.depth /\ u.deepest <= v.deepest /\ (\A p \in P : at(p) <= v.deepest)
      /\ (v.deepest = u.deepest \/ \E p \in P : v.deepest = at(p))
  BY <1>2 DEF Deepens
<1>5. \A n \in N : at(n) <= w.depth + 1
  OBVIOUS
<1>6. PICK q \in P \cup N : w.depth + 1 <= at(q)
  OBVIOUS
<1> HIDE DEF u, at
<1>7. /\ x \in Walkers /\ x.depth = w.depth /\ x.deepest = v.deepest /\ x.ops = v.ops /\ x.worst = v.worst
      /\ x.stubs = v.stubs /\ x.panics = v.panics
  <2>1. x = [v EXCEPT !.depth = v.depth - 1]
    BY DEF OutOf
  <2>2. v.depth - 1 = w.depth /\ v.depth - 1 \in Int
    BY <1>1, <1>3, <1>4
  <2> HIDE DEF x
  <2> QED
    BY <1>2, <2>1, <2>2, Zenon DEF Walkers
<1> HIDE DEF x
<1>8. Deepens(T, o, w, x, P \cup N)
  <2>1. w.deepest <= v.deepest /\ w.depth + 1 <= v.deepest
    BY <1>1, <1>3, <1>4
  <2>2. \A p \in P \cup N : at(p) <= v.deepest
    BY <1>3, <1>4, <1>5, <2>1
  <2>3. v.deepest = w.deepest \/ \E p \in P \cup N : v.deepest = at(p)
    <3>1. CASE v.deepest = u.deepest /\ u.deepest # w.deepest
      <4>1. v.deepest = w.depth + 1
        BY <1>1, <3>1
      <4>2. at(q) <= v.deepest /\ at(q) \in Int
        BY <1>3, <2>2
      <4>3. v.deepest = at(q)
        BY <1>3, <1>6, <4>1, <4>2
      <4> QED
        BY <4>3
    <3>2. CASE ~(v.deepest = u.deepest /\ u.deepest # w.deepest)
      BY <1>4, <3>2
    <3> QED
      BY <3>1, <3>2
  <2> QED
    BY <1>7, <2>1, <2>2, <2>3 DEF Deepens, at
<1>9. Scored(T, w, x, C)
  BY <1>1, <1>2, <1>7 DEF Scored
<1>10. StubsOf(T, P \cup N) = StubsOf(T, P) /\ PanicsOf(T, P \cup N) = PanicsOf(T, P)
  BY Zenon DEF StubsOf, PanicsOf, IsSite
<1> QED
  BY <1>1, <1>2, <1>7, <1>8, <1>9, <1>10 DEF Walked, x

(* A function's own nodes of a row, and the conditions among them.         *)
Own(T, a, b) == Shown(T, OfKind(T, Items), a, b)
Judged(T, a, b) == Conditions(T) \cap Own(T, a, b)
WalkedAll(T, o, w, v, a, b) == Walked(T, o, w, v, Own(T, a, b), Judged(T, a, b))

(* A walker on a node's level.                                             *)
OnLevel(T, o, w, k) == w \in Walkers /\ w.depth <= w.deepest /\ w.depth = o + Level(T, k)

(* What a walk does to a row that starts at k: a condition that stands in  *)
(* the row itself is scored by who walks the row.                          *)
WalksFrom(T, o, walk, k) ==
    \A to \in 0 .. Len(T), w \in Walkers :
      /\ k <= to + 1 /\ Forest(T, k, to)
      /\ w.depth <= w.deepest /\ \A c \in Tops(T, k, to) : w.depth = o + Level(T, c)
      => Walked(T, o, w, walk[k][to][w], Own(T, k, to), Judged(T, k, to) \ Tops(T, k, to))

LEMMA OwnType ==
    ASSUME NEW T, IsTree(T), NEW a \in Nat, NEW b \in Nat, 1 <= a, b <= Len(T)
    PROVE  /\ Own(T, a, b) \in SUBSET (1 .. Len(T)) /\ Judged(T, a, b) \in SUBSET (1 .. Len(T))
           /\ \A p \in Own(T, a, b) : p \in Nat /\ a <= p /\ p <= b
           /\ \A p \in Judged(T, a, b) : p \in Nat /\ a <= p /\ p <= b
<1>1. \A p \in Own(T, a, b) : p \in a .. b
  BY DEF Own, Shown
<1>2. \A p \in Judged(T, a, b) : p \in Own(T, a, b)
  BY DEF Judged
<1>3. Len(T) \in Nat
  BY TreeTells
<1>4. \A p \in a .. b : p \in Nat /\ a <= p /\ p <= b /\ p \in 1 .. Len(T)
  BY <1>3
<1> QED
  BY <1>1, <1>2, <1>4

LEMMA StaysOnLevel ==
    ASSUME NEW T, NEW o \in Int, NEW k \in Nat, NEW w, NEW v, NEW P, NEW C,
           OnLevel(T, o, w, k), Walked(T, o, w, v, P, C)
    PROVE  OnLevel(T, o, v, k) /\ w.deepest <= v.deepest
<1>1. w \in Walkers /\ v \in Walkers /\ v.depth = w.depth /\ w.deepest <= v.deepest /\ w.depth <= w.deepest
  BY DEF OnLevel, Walked, Deepens
<1>2. w.depth \in Int /\ w.deepest \in Int /\ v.deepest \in Int
  BY <1>1, WalkersType
<1>3. v.depth <= v.deepest
  BY <1>1, <1>2
<1> QED
  BY <1>1, <1>3 DEF OnLevel

LEMMA SpansJoin ==
    ASSUME NEW T, IsTree(T), NEW o \in Int, NEW w, NEW u, NEW v, w \in Walkers,
           NEW a \in Nat, NEW b \in Nat, NEW c \in Nat, 1 <= a, a <= b + 1, b <= c, c <= Len(T),
           Forest(T, a, b), WalkedAll(T, o, w, u, a, b), WalkedAll(T, o, u, v, b + 1, c)
    PROVE  WalkedAll(T, o, w, v, a, c)
<1> DEFINE P == Own(T, a, b)
           Q == Own(T, b + 1, c)
           C == Judged(T, a, b)
           E == Judged(T, b + 1, c)
<1>1. /\ P \in SUBSET (1 .. Len(T)) /\ C \in SUBSET (1 .. Len(T))
      /\ (\A p \in P : p \in Nat /\ p <= b) /\ (\A p \in C : p \in Nat /\ p <= b)
  <2>1. b <= Len(T)
    BY TreeTells
  <2> QED
    BY <2>1, OwnType
<1>2. /\ Q \in SUBSET (1 .. Len(T)) /\ E \in SUBSET (1 .. Len(T))
      /\ (\A p \in Q : p \in Nat /\ b + 1 <= p) /\ (\A p \in E : p \in Nat /\ b + 1 <= p)
  <2> DEFINE d == b + 1
  <2>1. d \in Nat /\ 1 <= d
    OBVIOUS
  <2> HIDE DEF d
  <2>2. /\ Own(T, d, c) \in SUBSET (1 .. Len(T)) /\ Judged(T, d, c) \in SUBSET (1 .. Len(T))
        /\ \A p \in Own(T, d, c) : p \in Nat /\ d <= p /\ p <= c
        /\ \A p \in Judged(T, d, c) : p \in Nat /\ d <= p /\ p <= c
    BY <2>1, OwnType
  <2> QED
    BY <2>2 DEF d
<1>3. Own(T, a, c) = P \cup Q
  BY ShownSplit DEF Own
<1>4. Judged(T, a, c) = C \cup E
  BY <1>3 DEF Judged
<1>5. Walked(T, o, w, u, P, C) /\ Walked(T, o, u, v, Q, E)
  BY DEF WalkedAll
<1> HIDE DEF P, Q, C, E
<1>6. (\A p \in P, q \in Q : p < q) /\ (\A p \in C, q \in E : p < q)
  BY <1>1, <1>2
<1>7. SitesApart(T, P, Q)
  BY <1>6 DEF SitesApart
<1>8. Walked(T, o, w, v, P \cup Q, C \cup E)
  BY <1>1, <1>2, <1>5, <1>6, <1>7, WalkedJoin
<1> QED
  BY <1>3, <1>4, <1>8 DEF WalkedAll

(* A node, then what it is made of.                                        *)
LEMMA OwnStep ==
    ASSUME NEW T, IsTree(T), NEW k \in 1 .. Len(T)
    PROVE  /\ T[k].kind \in Items => Own(T, k, T[k].last) = {}
           /\ T[k].kind \notin Items => Own(T, k, T[k].last) = {k} \cup Own(T, k + 1, T[k].last)
           /\ Tops(T, k, T[k].last) = {k}
           /\ Judged(T, k, T[k].last) \ {k} = IF T[k].kind \in Items THEN {} ELSE Judged(T, k + 1, T[k].last)
<1> DEFINE e == T[k].last
           stops == OfKind(T, Items)
<1>1. /\ k \in Nat /\ e \in Nat /\ k <= e /\ Forest(T, k, e) /\ Len(T) \in Nat /\ e <= Len(T)
      /\ DOMAIN T = 1 .. Len(T) /\ 1 <= k
  BY TreeTells, KidsTell
<1>2. k \in stops <=> T[k].kind \in Items
  BY <1>1 DEF OfKind
<1>3. T[k].kind \in Items => Own(T, k, e) = {}
  <2>1. SUFFICES ASSUME T[k].kind \in Items, NEW p \in Own(T, k, e) PROVE FALSE
    OBVIOUS
  <2>2. p \in k .. e /\ \A q \in k .. p : q \in stops => T[q].last < p
    BY DEF Own, Shown
  <2>3. k \in k .. p
    BY <1>1, <2>2
  <2>4. e < p
    BY <1>2, <2>1, <2>2, <2>3
  <2> QED
    BY <1>1, <2>2, <2>4
<1>4. T[k].kind \notin Items => Own(T, k, e) = {k} \cup Own(T, k + 1, e)
  BY <1>1, <1>2, ShownStep DEF Own
<1>5. Tops(T, k, e) = {k}
  <2>1. k \in Tops(T, k, e)
    BY <1>1 DEF Tops
  <2>2. ASSUME NEW p \in Tops(T, k, e), p # k PROVE FALSE
    <3>1. p \in k .. e /\ \A q \in k .. p - 1 : T[q].last < p
      BY DEF Tops
    <3>2. k \in k .. p - 1
      BY <1>1, <2>2, <3>1
    <3>3. e < p
      BY <3>1, <3>2
    <3> QED
      BY <1>1, <3>1, <3>3
  <2> QED
    BY <2>1, <2>2
<1>6. k \notin Own(T, k + 1, e)
  <2>1. k \notin k + 1 .. e
    BY <1>1
  <2> QED
    BY <2>1 DEF Own, Shown
<1> HIDE DEF e
<1>7. Judged(T, k, e) \ {k} = IF T[k].kind \in Items THEN {} ELSE Judged(T, k + 1, e)
  BY <1>3, <1>4, <1>6 DEF Judged
<1> QED
  BY <1>3, <1>4, <1>5, <1>7 DEF e

LEMMA NodeThenInside ==
    ASSUME NEW T, IsTree(T), NEW o \in Int, NEW k \in 1 .. Len(T), T[k].kind \notin Items,
           NEW w \in Walkers, NEW u, NEW v, Walked(T, o, w, u, {k}, {}), WalkedAll(T, o, u, v, k + 1, T[k].last)
    PROVE  Walked(T, o, w, v, Own(T, k, T[k].last), Judged(T, k, T[k].last) \ {k})
<1> DEFINE e == T[k].last
           P == Own(T, k + 1, e)
           C == Judged(T, k + 1, e)
<1>1. k \in Nat /\ e \in Nat /\ e <= Len(T) /\ 1 <= k + 1 /\ k + 1 \in Nat
  BY KidsTell
<1>2. P \in SUBSET (1 .. Len(T)) /\ C \in SUBSET (1 .. Len(T)) /\ \A p \in P : p \in Nat /\ k + 1 <= p
  <2> DEFINE d == k + 1
  <2> HIDE DEF d, e
  <2>1. d \in Nat /\ 1 <= d
    BY <1>1 DEF d
  <2>2. /\ Own(T, d, e) \in SUBSET (1 .. Len(T)) /\ Judged(T, d, e) \in SUBSET (1 .. Len(T))
        /\ \A p \in Own(T, d, e) : p \in Nat /\ d <= p
    BY <1>1, <2>1, OwnType
  <2> QED
    BY <2>2 DEF d
<1>3. Own(T, k, e) = {k} \cup P /\ Judged(T, k, e) \ {k} = C
  BY OwnStep, Zenon
<1>4. Walked(T, o, u, v, P, C)
  BY DEF WalkedAll
<1>5. SitesApart(T, {k}, P)
  <2> HIDE DEF P
  <2>1. \A p \in P : k < p
    BY <1>1, <1>2
  <2> QED
    BY <2>1 DEF SitesApart
<1>6. {k} \in SUBSET (1 .. Len(T)) /\ {} \in SUBSET (1 .. Len(T))
  OBVIOUS
<1> HIDE DEF P, C
<1>7. Walked(T, o, w, v, {k} \cup P, {} \cup C)
  BY <1>2, <1>4, <1>5, <1>6, WalkedJoin
<1> QED
  BY <1>3, <1>7, Zenon

LEMMA KidKinds ==
    ASSUME NEW T, IsTree(T), NEW k \in 1 .. Len(T), NEW i \in 1 .. Len(T[k].kids)
    PROVE  LET c == T[k].kids[i] IN
           /\ T[c].kind = "arm" <=> (T[k].kind = "match" /\ i > 1)
           /\ T[c].kind \in Items => T[k].kind \in {"file", "impl", "trait", "mod", "block", "exprblock"}
<1>1. Shaped(T, k) /\ i \in DOMAIN T[k].kids
  BY TreeTells, KidsTell
<1> QED
  BY <1>1 DEF Shaped

LEMMA NextKid ==
    ASSUME NEW T, IsTree(T), NEW k \in 1 .. Len(T), NEW i \in 1 .. Len(T[k].kids), NEW j \in 1 .. Len(T[k].kids),
           j = i + 1
    PROVE  T[k].kids[j] = T[T[k].kids[i]].last + 1
<1>1. j # 1 /\ j - 1 = i
  OBVIOUS
<1>2. T[k].kids[j] = IF j = 1 THEN k + 1 ELSE T[T[k].kids[j - 1]].last + 1
  <2>1. \A m \in 1 .. Len(T[k].kids) :
          T[k].kids[m] = IF m = 1 THEN k + 1 ELSE T[T[k].kids[m - 1]].last + 1
    BY KidsTell
  <2> QED
    BY <2>1
<1> QED
  BY <1>1, <1>2, Zenon

LEMMA LastKid ==
    ASSUME NEW T, IsTree(T), NEW k \in 1 .. Len(T), NEW i \in 1 .. Len(T[k].kids), i = Len(T[k].kids)
    PROVE  T[T[k].kids[i]].last = T[k].last
  BY KidsTell

(* What a walk has done with one child of a node.                          *)
KidWalked(T, o, w, v, k, i) == WalkedAll(T, o, w, v, T[k].kids[i], T[T[k].kids[i]].last)
WalksBelow(T, o, walk, k) == \A j \in k + 1 .. Len(T) + 1 : WalksFrom(T, o, walk, j)

LEMMA KidEntered ==
    ASSUME NEW T, IsTree(T), NEW o \in Int, NEW walk, NEW k \in 1 .. Len(T), WalksBelow(T, o, walk, k),
           NEW i \in 1 .. Len(T[k].kids), NEW w, w \in Walkers, w.depth <= w.deepest,
           w.depth = o + Level(T, T[k].kids[i])
    PROVE  LET c == T[k].kids[i]
           IN Walked(T, o, w, Enter(T, walk, w, c), Own(T, c, T[c].last), Judged(T, c, T[c].last) \ {c})
<1> DEFINE c == T[k].kids[i]
           e == T[c].last
<1>1. /\ c \in Nat /\ k < c /\ c \in 1 .. Len(T) /\ e \in Nat /\ c <= e /\ k \in Nat /\ Len(T) \in Nat
      /\ e <= Len(T)
  <2>1. c \in Nat /\ k < c /\ c \in 1 .. Len(T) /\ k \in Nat /\ Len(T) \in Nat
    BY KidsTell
  <2>2. e \in Nat /\ c <= e /\ e <= Len(T)
    BY <2>1, KidsTell, Zenon
  <2> QED
    BY <2>1, <2>2
<1>2. Forest(T, c, e) /\ Tops(T, c, e) = {c}
  <2> HIDE DEF c
  <2>1. Forest(T, c, e)
    BY <1>1, TreeTells, Zenon
  <2>2. Tops(T, c, e) = {c}
    BY <1>1, OwnStep, Zenon
  <2> QED
    BY <2>1, <2>2
<1>3. WalksFrom(T, o, walk, c)
  <2>1. c \in k + 1 .. Len(T) + 1
    BY <1>1
  <2> QED
    BY <2>1 DEF WalksBelow
<1>4. e \in 0 .. Len(T) /\ c <= e + 1
  BY <1>1
<1>5. w.depth = o + Level(T, c)
  OBVIOUS
<1> HIDE DEF c, e
<1>6. Walked(T, o, w, walk[c][e][w], Own(T, c, e), Judged(T, c, e) \ Tops(T, c, e))
  BY <1>2, <1>3, <1>4, <1>5, Zenon DEF WalksFrom
<1>7. Walked(T, o, w, walk[c][e][w], Own(T, c, e), Judged(T, c, e) \ {c})
  BY <1>2, <1>6
<1> QED
  BY <1>7, Zenon DEF Enter, c, e

(* A child that is neither body nor condition, a condition, and a body.    *)
LEMMA KidPlain ==
    ASSUME NEW T, IsTree(T), NEW o \in Int, NEW walk, NEW k \in 1 .. Len(T), WalksBelow(T, o, walk, k),
           NEW i \in 1 .. Len(T[k].kids), ~IsBody(T, T[k], i), ~IsCondition(T[k], i), NEW w, OnLevel(T, o, w, k)
    PROVE  /\ KidWalked(T, o, w, Enter(T, walk, w, T[k].kids[i]), k, i)
           /\ OnLevel(T, o, Enter(T, walk, w, T[k].kids[i]), k)
<1> DEFINE c == T[k].kids[i]
           e == T[c].last
           v == Enter(T, walk, w, c)
<1>1. w \in Walkers /\ w.depth <= w.deepest /\ w.depth = o + Level(T, k)
  BY DEF OnLevel
<1>2. Level(T, c) = Level(T, k)
  <2>1. Level(T, c) = Level(T, k) + 0 /\ Level(T, k) \in Nat
    BY KidLevel, KidsTell, LevelsType
  <2> QED
    BY <2>1
<1>3. Walked(T, o, w, v, Own(T, c, e), Judged(T, c, e) \ {c})
  BY <1>1, <1>2, KidEntered, Zenon
<1>4. Judged(T, c, e) \ {c} = Judged(T, c, e)
  BY KidsPart DEF Judged
<1>5. k \in Nat
  BY KidsTell
<1> HIDE DEF c, e, v
<1>6. WalkedAll(T, o, w, v, c, e) /\ OnLevel(T, o, v, k)
  BY <1>3, <1>4, <1>5, StaysOnLevel, Zenon DEF WalkedAll
<1> QED
  BY <1>6 DEF KidWalked, c, e, v

LEMMA KidCondition ==
    ASSUME NEW T, IsTree(T), NEW o \in Int, NEW walk, NEW k \in 1 .. Len(T), WalksBelow(T, o, walk, k),
           NEW i \in 1 .. Len(T[k].kids), ~IsBody(T, T[k], i), IsCondition(T[k], i), NEW w, OnLevel(T, o, w, k)
    PROVE  /\ KidWalked(T, o, w, Condition(T, walk, w, T[k].kids[i]), k, i)
           /\ OnLevel(T, o, Condition(T, walk, w, T[k].kids[i]), k)
<1> DEFINE c == T[k].kids[i]
           e == T[c].last
           u == Score(T, w, c)
           v == Enter(T, walk, u, c)
           P == Own(T, c, e)
           C == Judged(T, c, e)
<1>1. w \in Walkers /\ w.depth <= w.deepest /\ w.depth = o + Level(T, k)
  BY DEF OnLevel
<1>2. Level(T, c) = Level(T, k)
  <2>1. Level(T, c) = Level(T, k) + 0 /\ Level(T, k) \in Nat
    BY KidLevel, KidsTell, LevelsType
  <2> QED
    BY <2>1
<1>3. c \in 1 .. Len(T) /\ k \in Nat
  BY KidsTell, Zenon
<1>4. Walked(T, o, w, u, {}, {c}) /\ u.deepest = w.deepest /\ u.depth = w.depth
  BY <1>1, <1>3, ScoreWalked, Zenon
<1>5. u \in Walkers
  BY <1>4 DEF Walked
<1>6. Walked(T, o, u, v, P, C \ {c})
  BY <1>1, <1>2, <1>4, <1>5, KidEntered, Zenon
<1>7. c \in Nat /\ e \in Nat /\ 1 <= c /\ e <= Len(T)
  BY <1>3, KidsTell
<1>8. P \in SUBSET (1 .. Len(T)) /\ C \in SUBSET (1 .. Len(T)) /\ \A p \in C : p \in Nat /\ c <= p
  BY <1>7, OwnType, Zenon
<1>9. c \in C
  <2>1. T[c].kind \notin Items
    <3>1. T[c].kind \in Items => T[k].kind \in {"file", "impl", "trait", "mod", "block", "exprblock"}
      BY KidKinds
    <3>2. T[k].kind \in {"if", "while", "arm"}
      BY DEF IsCondition
    <3> QED
      BY <3>1, <3>2
  <2>2. c \in Own(T, c, e)
    <3> HIDE DEF c
    <3>1. Own(T, c, e) = {c} \cup Own(T, c + 1, e)
      BY <1>3, <2>1, OwnStep, Zenon
    <3> QED
      BY <3>1
  <2> QED
    BY <2>2, KidsPart DEF Judged
<1>10. KidWalked(T, o, w, Condition(T, walk, w, c), k, i) <=> Walked(T, o, w, v, P, C)
  BY DEF KidWalked, WalkedAll, Condition
<1>11. Condition(T, walk, w, c) = v
  BY DEF Condition
<1> HIDE DEF e, u, v, P, C, c
<1>12. SitesApart(T, {}, P)
  BY DEF SitesApart
<1>13. \A a \in {c}, b \in C \ {c} : a < b
  BY <1>7, <1>8
<1>14. {c} \in SUBSET (1 .. Len(T)) /\ C \ {c} \in SUBSET (1 .. Len(T)) /\ {} \in SUBSET (1 .. Len(T))
  BY <1>3, <1>8
<1>15. Walked(T, o, w, v, {} \cup P, {c} \cup (C \ {c}))
  BY <1>1, <1>4, <1>6, <1>8, <1>12, <1>13, <1>14, WalkedJoin, Zenon
<1>16. {} \cup P = P /\ {c} \cup (C \ {c}) = C
  BY <1>9
<1>17. Walked(T, o, w, v, P, C)
  BY <1>15, <1>16, Zenon
<1>18. OnLevel(T, o, v, k)
  BY <1>3, <1>17, StaysOnLevel
<1> QED
  BY <1>10, <1>11, <1>17, <1>18 DEF c

LEMMA KidNested ==
    ASSUME NEW T, IsTree(T), NEW o \in Int, NEW walk, NEW k \in 1 .. Len(T), WalksBelow(T, o, walk, k),
           NEW i \in 1 .. Len(T[k].kids), IsBody(T, T[k], i), ~IsCondition(T[k], i), NEW w, OnLevel(T, o, w, k)
    PROVE  /\ KidWalked(T, o, w, Nested(T, walk, w, T[k].kids[i]), k, i)
           /\ OnLevel(T, o, Nested(T, walk, w, T[k].kids[i]), k)
<1> DEFINE c == T[k].kids[i]
           e == T[c].last
           u == Into(w)
           v == Enter(T, walk, u, c)
           P == Own(T, c, e)
           C == Judged(T, c, e)
<1>1. w \in Walkers /\ w.depth <= w.deepest /\ w.depth = o + Level(T, k)
  BY DEF OnLevel
<1>2. Level(T, c) = Level(T, k) + 1 /\ Level(T, k) \in Nat /\ Level(T, c) <= Reach(T, c) /\ Reach(T, c) \in Nat
  BY KidLevel, KidsTell, LevelsType, Zenon
<1>3. c \in 1 .. Len(T) /\ k \in Nat
  BY KidsTell, Zenon
<1>4. u \in Walkers /\ u.depth = w.depth + 1 /\ u.depth <= u.deepest
  BY <1>1, IntoTells
<1>5. u.depth = o + Level(T, c)
  BY <1>1, <1>2, <1>4
<1>6. Walked(T, o, u, v, P, C \ {c})
  BY <1>4, <1>5, KidEntered, Zenon
<1>7. C \ {c} = C
  BY KidsPart DEF Judged
<1>8. c \in P
  <2>1. T[c].kind \notin Items
    <3>1. T[c].kind \in Items => T[k].kind \in {"file", "impl", "trait", "mod", "block", "exprblock"}
      BY KidKinds
    <3>2. T[k].kind \in {"for", "local", "while", "if", "loop", "closure", "async", "match"}
      BY DEF IsBody
    <3> QED
      BY <3>1, <3>2
  <2> HIDE DEF c
  <2>2. P = {c} \cup Own(T, c + 1, e)
    BY <1>3, <2>1, OwnStep, Zenon
  <2> QED
    BY <2>2
<1>9. c \in Nat /\ e \in Nat /\ 1 <= c /\ e <= Len(T)
  BY <1>3, KidsTell
<1>10. P \in SUBSET Nat
  BY <1>9, OwnType, Zenon
<1>11. w.depth + 1 <= o + Reach(T, c)
  BY <1>1, <1>2
<1>12. Nested(T, walk, w, c) = OutOf(v)
  BY DEF Nested
<1> HIDE DEF e, u, v, P, C, c
<1>13. Walked(T, o, Into(w), v, P, C)
  BY <1>6, <1>7, Zenon DEF u
<1>14. Walked(T, o, w, OutOf(v), P \cup {}, C)
  BY <1>1, <1>8, <1>10, <1>11, <1>13, NestedWalked, Zenon
<1>15. P \cup {} = P
  OBVIOUS
<1>16. Walked(T, o, w, OutOf(v), P, C)
  BY <1>14, <1>15
<1>17. OnLevel(T, o, OutOf(v), k)
  BY <1>3, <1>16, StaysOnLevel
<1> QED
  BY <1>12, <1>16, <1>17 DEF c, KidWalked, WalkedAll, P, C, e

(* A child that only binds is passed over.                                 *)
LEMMA KidPassed ==
    ASSUME NEW T, IsTree(T), NEW o \in Int, NEW k \in 1 .. Len(T),
           NEW i \in 1 .. Len(T[k].kids), i \in Binders(T[k]), ~IsBody(T, T[k], i), ~IsCondition(T[k], i),
           NEW w, OnLevel(T, o, w, k)
    PROVE  KidWalked(T, o, w, w, k, i)
<1> DEFINE c == T[k].kids[i]
           e == T[c].last
           P == Own(T, c, e)
<1>1. w \in Walkers /\ w.depth <= w.deepest /\ w.depth = o + Level(T, k)
  BY DEF OnLevel
<1>2. Level(T, c) = Level(T, k)
  <2>1. Level(T, c) = Level(T, k) + 0 /\ Level(T, k) \in Nat
    BY KidLevel, KidsTell, LevelsType
  <2> QED
    BY <2>1
<1>3. \A q \in c .. e : T[q].kind \in Patterns
  BY TreeTells, Zenon DEF Shaped
<1>4. c \in 1 .. Len(T)
  BY KidsTell, Zenon
<1>5. \A p \in P : p \in c .. e
  BY DEF Own, Shown
<1>6. \A p \in c .. e : /\ p # c => p \notin Conditions(T)
                        /\ Reach(T, p) = Level(T, c) /\ ~IsSite(T[p])
  BY <1>3, <1>4, BindersAreQuiet, Zenon
<1>7. c \notin Conditions(T)
  BY KidsPart
<1> HIDE DEF c, e
<1>8. \A p \in P : ~IsSite(T[p]) /\ o + Reach(T, p) <= w.deepest
  BY <1>1, <1>2, <1>5, <1>6
<1>9. Judged(T, c, e) = {}
  BY <1>5, <1>6, <1>7 DEF Judged
<1>10. Walked(T, o, w, w, P, {})
  BY <1>1, <1>8, WalkedPast
<1> QED
  BY <1>9, <1>10 DEF KidWalked, WalkedAll, c, e

(* The children together are what a node is made of.                       *)
LEMMA OneKid ==
    ASSUME NEW T, IsTree(T), NEW o \in Int, NEW k \in 1 .. Len(T), Len(T[k].kids) = 1,
           NEW w, NEW v, KidWalked(T, o, w, v, k, 1)
    PROVE  WalkedAll(T, o, w, v, k + 1, T[k].last)
<1>1. 1 \in 1 .. Len(T[k].kids)
  OBVIOUS
<1>2. T[k].kids[1] = k + 1 /\ T[T[k].kids[1]].last = T[k].last
  BY <1>1, KidTells, Zenon
<1> QED
  BY <1>2 DEF KidWalked

LEMMA TwoKids ==
    ASSUME NEW T, IsTree(T), NEW o \in Int, NEW k \in 1 .. Len(T), Len(T[k].kids) = 2,
           NEW w \in Walkers, NEW u, NEW v, KidWalked(T, o, w, u, k, 1), KidWalked(T, o, u, v, k, 2)
    PROVE  WalkedAll(T, o, w, v, k + 1, T[k].last)
<1> DEFINE a == T[k].kids[1]
           b == T[k].kids[2]
           x == T[a].last
           e == T[k].last
<1>1. 1 \in 1 .. Len(T[k].kids) /\ 2 \in 1 .. Len(T[k].kids) /\ 2 = Len(T[k].kids) /\ 2 - 1 = 1
  OBVIOUS
<1>2. a = k + 1 /\ a \in Nat /\ x \in Nat /\ a <= x /\ x <= e /\ a \in 1 .. Len(T)
  BY <1>1, KidsTell
<1>3. b = x + 1 /\ T[b].last = e /\ e \in Nat /\ e <= Len(T) /\ k \in Nat
  <2>1. 2 = 1 + 1
    OBVIOUS
  <2>2. b = x + 1
    BY <1>1, <2>1, NextKid
  <2>3. T[b].last = e
    BY <1>1, LastKid
  <2>4. e \in Nat /\ e <= Len(T) /\ k \in Nat
    BY KidsTell
  <2> QED
    BY <2>2, <2>3, <2>4
<1>4. Forest(T, a, x)
  BY <1>2, TreeTells, Zenon
<1>5. WalkedAll(T, o, w, u, a, x) /\ WalkedAll(T, o, u, v, b, T[b].last)
  BY DEF KidWalked
<1>6. 1 <= a /\ a <= x + 1
  BY <1>2
<1> HIDE DEF a, b, x, e
<1>7. WalkedAll(T, o, w, v, a, e)
  BY <1>2, <1>3, <1>4, <1>5, <1>6, SpansJoin
<1> QED
  BY <1>2, <1>7 DEF e

LEMMA ThreeKids ==
    ASSUME NEW T, IsTree(T), NEW o \in Int, NEW k \in 1 .. Len(T), Len(T[k].kids) = 3,
           NEW w \in Walkers, NEW u, NEW v, NEW z, KidWalked(T, o, w, u, k, 1), KidWalked(T, o, u, v, k, 2),
           KidWalked(T, o, v, z, k, 3)
    PROVE  WalkedAll(T, o, w, z, k + 1, T[k].last)
<1> DEFINE a == T[k].kids[1]
           b == T[k].kids[2]
           c == T[k].kids[3]
           x == T[a].last
           y == T[b].last
           e == T[k].last
<1>1. /\ 1 \in 1 .. Len(T[k].kids) /\ 2 \in 1 .. Len(T[k].kids) /\ 3 \in 1 .. Len(T[k].kids)
      /\ 3 = Len(T[k].kids) /\ 2 - 1 = 1 /\ 3 - 1 = 2
  OBVIOUS
<1>2. a = k + 1 /\ a \in Nat /\ x \in Nat /\ a <= x /\ x <= e /\ a \in 1 .. Len(T)
  BY <1>1, KidsTell
<1>3. b = x + 1 /\ b \in Nat /\ y \in Nat /\ b <= y /\ y <= e /\ b \in 1 .. Len(T)
  <2>1. 2 = 1 + 1
    OBVIOUS
  <2>2. b = x + 1
    BY <1>1, <2>1, NextKid
  <2>3. b \in Nat /\ y \in Nat /\ b <= y /\ y <= e /\ b \in 1 .. Len(T)
    BY <1>1, KidsTell
  <2> QED
    BY <2>2, <2>3
<1>4. c = y + 1 /\ T[c].last = e /\ e \in Nat /\ e <= Len(T) /\ k \in Nat
  <2>1. 3 = 2 + 1
    OBVIOUS
  <2>2. c = y + 1
    BY <1>1, <2>1, NextKid
  <2>3. T[c].last = e
    BY <1>1, LastKid, Zenon
  <2>4. e \in Nat /\ e <= Len(T) /\ k \in Nat
    BY KidsTell
  <2> QED
    BY <2>2, <2>3, <2>4
<1>5. Forest(T, a, x) /\ Forest(T, b, y)
  BY <1>2, <1>3, TreeTells, Zenon
<1>6. WalkedAll(T, o, w, u, a, x) /\ WalkedAll(T, o, u, v, b, y) /\ WalkedAll(T, o, v, z, c, T[c].last)
  BY DEF KidWalked
<1>7. 1 <= a /\ a <= x + 1 /\ 1 <= b /\ b <= y + 1
  BY <1>2, <1>3
<1>8. u \in Walkers
  BY <1>6, Zenon DEF WalkedAll, Walked
<1> HIDE DEF a, b, c, x, y, e
<1>9. WalkedAll(T, o, u, z, b, e)
  BY <1>3, <1>4, <1>5, <1>6, <1>7, <1>8, SpansJoin
<1>10. x <= e
  BY <1>2
<1>11. WalkedAll(T, o, w, z, a, e)
  BY <1>2, <1>3, <1>4, <1>5, <1>6, <1>7, <1>9, SpansJoin
<1> QED
  BY <1>2, <1>11 DEF e

LEMMA Firsts ==
    /\ \A n : n = 1 \/ n = 2 \/ n = 3 => 1 \in 1 .. n /\ (n # 1 => 2 \in 1 .. n) /\ (n = 3 => 3 \in 1 .. n)
    /\ \A n : n = 2 \/ n = 3 => 1 \in 1 .. n /\ 2 \in 1 .. n /\ (n = 3 => 3 \in 1 .. n)
OBVIOUS

(* What a walk does with the children of a node of each kind.              *)
LEMMA IfWalked ==
    ASSUME NEW T, IsTree(T), NEW o \in Int, NEW walk, NEW k \in 1 .. Len(T), WalksBelow(T, o, walk, k),
           NEW w, OnLevel(T, o, w, k), T[k].kind = "if"
    PROVE  WalkedAll(T, o, w, Through(T, walk, w, k), k + 1, T[k].last)
<1> DEFINE kids == T[k].kids
           u == Condition(T, walk, w, kids[1])
           v == Nested(T, walk, u, kids[2])
           x == Enter(T, walk, v, kids[3])
           y == Nested(T, walk, v, kids[3])
<1>1. w \in Walkers
  BY DEF OnLevel
<1>2. Through(T, walk, w, k) = IF Len(kids) = 2 THEN v ELSE IF T[kids[3]].kind = "if" THEN x ELSE y
  BY DEF Through, IfChain, Items
<1>3. Len(kids) = 2 \/ Len(kids) = 3
  <2>1. Len(kids) \in 2 .. 3
    BY TreeTells, Zenon DEF Shaped, Arity
  <2> QED
    BY <2>1
<1>4. 1 \in 1 .. Len(kids) /\ 2 \in 1 .. Len(kids) /\ (Len(kids) = 3 => 3 \in 1 .. Len(kids))
  BY <1>3, Firsts, Zenon
<1>5. /\ IsCondition(T[k], 1) /\ ~IsBody(T, T[k], 1)
      /\ IsBody(T, T[k], 2) /\ ~IsCondition(T[k], 2)
      /\ ~IsCondition(T[k], 3)
      /\ IsBody(T, T[k], 3) <=> T[kids[3]].kind # "if"
  BY DEF IsCondition, IsBody
<1>6. KidWalked(T, o, w, u, k, 1) /\ OnLevel(T, o, u, k)
  BY <1>4, <1>5, KidCondition
<1>7. KidWalked(T, o, u, v, k, 2) /\ OnLevel(T, o, v, k)
  <2> HIDE DEF u
  <2> QED
    BY <1>4, <1>5, <1>6, KidNested
<1>8. CASE Len(kids) = 2
  <2> HIDE DEF u, v
  <2>1. WalkedAll(T, o, w, v, k + 1, T[k].last)
    BY <1>1, <1>6, <1>7, <1>8, TwoKids
  <2> QED
    BY <1>2, <1>8, <2>1
<1>9. CASE Len(kids) = 3 /\ T[kids[3]].kind = "if"
  <2>1. KidWalked(T, o, v, x, k, 3)
    <3> HIDE DEF u, v
    <3> QED
      BY <1>4, <1>5, <1>7, <1>9, KidPlain
  <2> HIDE DEF u, v, x
  <2>2. WalkedAll(T, o, w, x, k + 1, T[k].last)
    BY <1>1, <1>6, <1>7, <1>9, <2>1, ThreeKids
  <2> QED
    BY <1>2, <1>9, <2>2
<1>10. CASE Len(kids) = 3 /\ T[kids[3]].kind # "if"
  <2>1. KidWalked(T, o, v, y, k, 3)
    <3> HIDE DEF u, v
    <3> QED
      BY <1>4, <1>5, <1>7, <1>10, KidNested
  <2> HIDE DEF u, v, y
  <2>2. WalkedAll(T, o, w, y, k + 1, T[k].last)
    BY <1>1, <1>6, <1>7, <1>10, <2>1, ThreeKids
  <2> QED
    BY <1>2, <1>10, <2>2
<1> QED
  BY <1>3, <1>8, <1>9, <1>10

LEMMA ArmWalked ==
    ASSUME NEW T, IsTree(T), NEW o \in Int, NEW walk, NEW k \in 1 .. Len(T), WalksBelow(T, o, walk, k),
           NEW w, OnLevel(T, o, w, k), T[k].kind = "arm"
    PROVE  WalkedAll(T, o, w, Through(T, walk, w, k), k + 1, T[k].last)
<1> DEFINE kids == T[k].kids
           u == Condition(T, walk, w, kids[2])
           v == Enter(T, walk, u, kids[3])
           x == Enter(T, walk, w, kids[2])
<1>1. w \in Walkers
  BY DEF OnLevel
<1>2. Through(T, walk, w, k) = IF Len(kids) = 3 THEN v ELSE x
  BY DEF Through, WalkArm, Items
<1>3. Len(kids) = 2 \/ Len(kids) = 3
  <2>1. Len(kids) \in 2 .. 3
    BY TreeTells, Zenon DEF Shaped, Arity
  <2> QED
    BY <2>1
<1>4. 1 \in 1 .. Len(kids) /\ 2 \in 1 .. Len(kids) /\ (Len(kids) = 3 => 3 \in 1 .. Len(kids))
  BY <1>3, Firsts, Zenon
<1>5. /\ 1 \in Binders(T[k]) /\ ~IsBody(T, T[k], 1) /\ ~IsBody(T, T[k], 2) /\ ~IsBody(T, T[k], 3)
      /\ ~IsCondition(T[k], 1) /\ (IsCondition(T[k], 2) <=> Len(kids) = 3) /\ ~IsCondition(T[k], 3)
  BY DEF IsCondition, IsBody, Binders
<1>6. KidWalked(T, o, w, w, k, 1)
  BY <1>4, <1>5, KidPassed
<1>7. CASE Len(kids) = 2
  <2>1. KidWalked(T, o, w, x, k, 2)
    BY <1>4, <1>5, <1>7, KidPlain
  <2> HIDE DEF x
  <2>2. WalkedAll(T, o, w, x, k + 1, T[k].last)
    BY <1>1, <1>6, <1>7, <2>1, TwoKids
  <2> QED
    BY <1>2, <1>7, <2>2
<1>8. CASE Len(kids) = 3
  <2>1. KidWalked(T, o, w, u, k, 2) /\ OnLevel(T, o, u, k)
    BY <1>4, <1>5, <1>8, KidCondition
  <2>2. KidWalked(T, o, u, v, k, 3)
    <3> HIDE DEF u
    <3> QED
      BY <1>4, <1>5, <1>8, <2>1, KidPlain
  <2> HIDE DEF u, v
  <2>3. WalkedAll(T, o, w, v, k + 1, T[k].last)
    BY <1>1, <1>6, <1>8, <2>1, <2>2, ThreeKids, Zenon
  <2> QED
    BY <1>2, <1>8, <2>3
<1> QED
  BY <1>3, <1>7, <1>8

LEMMA ForWalked ==
    ASSUME NEW T, IsTree(T), NEW o \in Int, NEW walk, NEW k \in 1 .. Len(T), WalksBelow(T, o, walk, k),
           NEW w, OnLevel(T, o, w, k), T[k].kind = "for"
    PROVE  WalkedAll(T, o, w, Through(T, walk, w, k), k + 1, T[k].last)
<1> DEFINE kids == T[k].kids
           u == Enter(T, walk, w, kids[2])
           v == Nested(T, walk, u, kids[3])
<1>1. w \in Walkers
  BY DEF OnLevel
<1>2. Through(T, walk, w, k) = v
  BY DEF Through, Items
<1>3. Len(kids) = 3
  <2>1. Len(kids) \in {3}
    BY TreeTells, Zenon DEF Shaped, Arity
  <2> QED
    BY <2>1
<1>4. 1 \in 1 .. Len(kids) /\ 2 \in 1 .. Len(kids) /\ 3 \in 1 .. Len(kids)
  BY <1>3
<1>5. /\ 1 \in Binders(T[k]) /\ ~IsBody(T, T[k], 1) /\ ~IsBody(T, T[k], 2) /\ IsBody(T, T[k], 3)
      /\ ~IsCondition(T[k], 1) /\ ~IsCondition(T[k], 2) /\ ~IsCondition(T[k], 3)
  BY DEF IsCondition, IsBody, Binders
<1>6. KidWalked(T, o, w, w, k, 1)
  BY <1>4, <1>5, KidPassed
<1>7. KidWalked(T, o, w, u, k, 2) /\ OnLevel(T, o, u, k)
  BY <1>4, <1>5, KidPlain
<1>8. KidWalked(T, o, u, v, k, 3)
  <2> HIDE DEF u
  <2> QED
    BY <1>4, <1>5, <1>7, KidNested
<1> HIDE DEF u, v
<1>9. WalkedAll(T, o, w, v, k + 1, T[k].last)
  BY <1>1, <1>3, <1>6, <1>7, <1>8, ThreeKids
<1> QED
  BY <1>2, <1>9

LEMMA WhileWalked ==
    ASSUME NEW T, IsTree(T), NEW o \in Int, NEW walk, NEW k \in 1 .. Len(T), WalksBelow(T, o, walk, k),
           NEW w, OnLevel(T, o, w, k), T[k].kind = "while"
    PROVE  WalkedAll(T, o, w, Through(T, walk, w, k), k + 1, T[k].last)
<1> DEFINE kids == T[k].kids
           u == Condition(T, walk, w, kids[1])
           v == Nested(T, walk, u, kids[2])
<1>1. w \in Walkers
  BY DEF OnLevel
<1>2. Through(T, walk, w, k) = v
  BY DEF Through, Items
<1>3. Len(kids) = 2
  <2>1. Len(kids) \in {2}
    BY TreeTells, Zenon DEF Shaped, Arity
  <2> QED
    BY <2>1
<1>4. 1 \in 1 .. Len(kids) /\ 2 \in 1 .. Len(kids)
  BY <1>3
<1>5. ~IsBody(T, T[k], 1) /\ IsCondition(T[k], 1) /\ IsBody(T, T[k], 2) /\ ~IsCondition(T[k], 2)
  BY DEF IsCondition, IsBody
<1>6. KidWalked(T, o, w, u, k, 1) /\ OnLevel(T, o, u, k)
  BY <1>4, <1>5, KidCondition
<1>7. KidWalked(T, o, u, v, k, 2)
  <2> HIDE DEF u
  <2> QED
    BY <1>4, <1>5, <1>6, KidNested
<1> HIDE DEF u, v
<1>8. WalkedAll(T, o, w, v, k + 1, T[k].last)
  BY <1>1, <1>3, <1>6, <1>7, TwoKids
<1> QED
  BY <1>2, <1>8

LEMMA LocalWalked ==
    ASSUME NEW T, IsTree(T), NEW o \in Int, NEW walk, NEW k \in 1 .. Len(T), WalksBelow(T, o, walk, k),
           NEW w, OnLevel(T, o, w, k), T[k].kind = "local"
    PROVE  WalkedAll(T, o, w, Through(T, walk, w, k), k + 1, T[k].last)
<1> DEFINE kids == T[k].kids
           u == Enter(T, walk, w, kids[2])
           v == Nested(T, walk, u, kids[3])
<1>1. w \in Walkers
  BY DEF OnLevel
<1>2. Len(kids) = 1 \/ Len(kids) = 2 \/ Len(kids) = 3
  <2>1. Len(kids) \in 1 .. 3
    BY TreeTells, Zenon DEF Shaped, Arity
  <2> QED
    BY <2>1
<1>3. Through(T, walk, w, k) = IF Len(kids) = 1 THEN w ELSE IF Len(kids) = 2 THEN u ELSE v
  <2>1. Through(T, walk, w, k) = WalkLocal(T, walk, w, kids)
    BY DEF Through, Items
  <2> QED
    BY <1>2, <2>1 DEF WalkLocal
<1>4. 1 \in 1 .. Len(kids) /\ (Len(kids) # 1 => 2 \in 1 .. Len(kids)) /\ (Len(kids) = 3 => 3 \in 1 .. Len(kids))
  BY <1>2, Firsts, Zenon
<1>5. /\ 1 \in Binders(T[k]) /\ ~IsBody(T, T[k], 1) /\ ~IsBody(T, T[k], 2) /\ IsBody(T, T[k], 3)
      /\ ~IsCondition(T[k], 1) /\ ~IsCondition(T[k], 2) /\ ~IsCondition(T[k], 3)
  BY DEF IsCondition, IsBody, Binders
<1>6. KidWalked(T, o, w, w, k, 1)
  BY <1>4, <1>5, KidPassed
<1>7. CASE Len(kids) = 1
  <2>1. WalkedAll(T, o, w, w, k + 1, T[k].last)
    BY <1>6, <1>7, OneKid
  <2> QED
    BY <1>3, <1>7, <2>1
<1>8. ASSUME Len(kids) # 1 PROVE KidWalked(T, o, w, u, k, 2) /\ OnLevel(T, o, u, k)
  BY <1>4, <1>5, <1>8, KidPlain
<1>9. CASE Len(kids) = 2
  <2>1. KidWalked(T, o, w, u, k, 2)
    BY <1>8, <1>9
  <2> HIDE DEF u
  <2>2. WalkedAll(T, o, w, u, k + 1, T[k].last)
    BY <1>1, <1>6, <1>9, <2>1, TwoKids, Zenon
  <2> QED
    BY <1>3, <1>9, <2>2
<1>10. CASE Len(kids) = 3
  <2>1. KidWalked(T, o, w, u, k, 2) /\ OnLevel(T, o, u, k)
    BY <1>8, <1>10
  <2>2. KidWalked(T, o, u, v, k, 3)
    <3> HIDE DEF u
    <3> QED
      BY <1>4, <1>5, <1>10, <2>1, KidNested
  <2> HIDE DEF u, v
  <2>3. WalkedAll(T, o, w, v, k + 1, T[k].last)
    BY <1>1, <1>6, <1>10, <2>1, <2>2, ThreeKids, Zenon
  <2> QED
    BY <1>3, <1>10, <2>3
<1> QED
  BY <1>2, <1>7, <1>9, <1>10

LEMMA OnceWalked ==
    ASSUME NEW T, IsTree(T), NEW o \in Int, NEW walk, NEW k \in 1 .. Len(T), WalksBelow(T, o, walk, k),
           NEW w, OnLevel(T, o, w, k), T[k].kind \in {"loop", "closure", "async"}
    PROVE  WalkedAll(T, o, w, Through(T, walk, w, k), k + 1, T[k].last)
<1> DEFINE kids == T[k].kids
           n == Len(kids)
           c == kids[n]
           e == T[k].last
           v == Nested(T, walk, w, c)
           before == c - 1
<1>1. w \in Walkers /\ w.depth <= w.deepest /\ w.depth = o + Level(T, k)
  BY DEF OnLevel
<1>2. Through(T, walk, w, k) = v
  <2>1. Through(T, walk, w, k) = Nested(T, walk, w, Last(kids))
    BY DEF Through, Items
  <2> QED
    BY <2>1 DEF Last
<1>3. n \in Nat /\ n # 0 /\ (T[k].kind # "closure" => n = 1)
  <2>1. n \in Arity(T[k]) /\ n \in Nat
    BY TreeTells, KidsTell DEF Shaped
  <2>2. CASE T[k].kind = "closure"
    <3>1. n \in Nat \ {0}
      BY <2>1, <2>2 DEF Arity
    <3> QED
      BY <2>2, <3>1
  <2>3. CASE T[k].kind # "closure"
    <3>1. n \in {1}
      BY <2>1, <2>3, Zenon DEF Arity
    <3> HIDE DEF n
    <3>2. n = 1 /\ 1 \in Nat /\ 1 # 0
      BY <3>1
    <3> QED
      BY <3>2
  <2> QED
    BY <2>2, <2>3
<1>4. n \in 1 .. Len(kids)
  BY <1>3
<1>5. IsBody(T, T[k], n) /\ \A i \in 1 .. n : ~IsCondition(T[k], i) /\ (i # n => ~IsBody(T, T[k], i))
  BY DEF IsBody, IsCondition
<1>6. KidWalked(T, o, w, v, k, n)
  <2> HIDE DEF n
  <2> QED
    BY <1>4, <1>5, KidNested DEF n
<1>7. /\ c \in Nat /\ k < c /\ T[c].last = e /\ k \in Nat /\ e \in Nat /\ c <= e /\ e <= Len(T)
      /\ \A i \in 1 .. n : kids[i] \in 1 .. Len(T) /\ kids[i] \in Nat /\ T[kids[i]].last \in Nat
  <2> HIDE DEF n
  <2>1. c \in Nat /\ k < c /\ T[c].last = e /\ c <= T[c].last
    BY <1>4, KidsTell, LastKid DEF n
  <2>2. k \in Nat /\ e \in Nat /\ e <= Len(T)
    BY KidsTell
  <2>3. \A i \in 1 .. n : kids[i] \in 1 .. Len(T) /\ kids[i] \in Nat /\ T[kids[i]].last \in Nat
    BY KidsTell DEF n
  <2> QED
    BY <2>1, <2>2, <2>3
<1>8. \A q \in k + 1 .. c - 1 : T[q].last < c
  BY <1>4, KidsAreTops, Zenon DEF Tops
<1>9. Forest(T, k + 1, before)
  <2>1. Forest(T, k + 1, e)
    BY TreeTells, Zenon
  <2> HIDE DEF c, e
  <2>2. ASSUME NEW q \in k + 1 .. before
        PROVE  /\ T[q].last \in q .. before
               /\ \A r \in q .. T[q].last : T[r].last \in r .. T[q].last
    <3>1. q \in k + 1 .. e /\ q \in Nat
      BY <1>7, <2>2
    <3>2. T[q].last \in q .. e /\ \A r \in q .. T[q].last : T[r].last \in r .. T[q].last
      BY <2>1, <3>1 DEF Forest
    <3>3. T[q].last < c
      BY <1>8, <2>2
    <3>4. T[q].last \in q .. before
      BY <1>7, <3>1, <3>2, <3>3
    <3> QED
      BY <3>2, <3>4
  <2>3. before \in Nat /\ k + 1 \in Nat
    BY <1>7
  <2> HIDE DEF before
  <2> QED
    BY <2>2, <2>3 DEF Forest
<1>10. ASSUME NEW p \in k + 1 .. before
       PROVE  p \notin Conditions(T) /\ ~IsSite(T[p]) /\ o + Reach(T, p) <= w.deepest
  <2>1. p \in k + 1 .. e /\ p < c /\ p \in Nat
    <3> HIDE DEF c, e
    <3> QED
      BY <1>7
  <2>2. PICK j \in DOMAIN kids : kids[j] <= p /\ p <= T[kids[j]].last
    BY <2>1, KidsCover, Zenon
  <2>3. j \in 1 .. Len(kids)
    BY KidsTell
  <2>4. j # n
    <3>1. SUFFICES ASSUME j = n PROVE FALSE
      OBVIOUS
    <3>2. c <= p
      BY <2>2, <3>1
    <3> HIDE DEF c
    <3> QED
      BY <1>7, <2>1, <3>2
  <2>5. n # 1 /\ j \in 1 .. n - 1
    <3>1. j \in 1 .. n
      BY <2>3
    <3> HIDE DEF n
    <3> QED
      BY <1>3, <2>4, <3>1
  <2>6. j \in Binders(T[k])
    <3>1. T[k].kind = "closure"
      BY <1>3, <2>5
    <3> QED
      BY <2>5, <3>1 DEF Binders
  <2>7. ~IsBody(T, T[k], j) /\ ~IsCondition(T[k], j)
    BY <1>5, <2>3, <2>4
  <2> DEFINE d == kids[j]
  <2>8. d \in 1 .. Len(T) /\ d \in Nat /\ T[d].last \in Nat
    BY <1>7, <2>3, Zenon
  <2>9. \A q \in d .. T[d].last : T[q].kind \in Patterns
    <3>1. Shaped(T, k)
      BY TreeTells
    <3> QED
      BY <2>6, <3>1 DEF Shaped
  <2>10. p \in d .. T[d].last
    <3>1. d <= p /\ p <= T[d].last
      BY <2>2
    <3> HIDE DEF d
    <3> QED
      BY <2>1, <2>8, <3>1
  <2>11. Level(T, d) = Level(T, k)
    <3>1. Level(T, d) = Level(T, k) + 0 /\ Level(T, k) \in Nat
      BY <2>3, <2>7, <1>7, KidLevel, LevelsType
    <3> QED
      BY <3>1
  <2>12. d \notin Conditions(T)
    BY <2>3, <2>7, KidsPart
  <2> HIDE DEF d
  <2>13. (p # d => p \notin Conditions(T)) /\ Reach(T, p) = Level(T, d) /\ ~IsSite(T[p])
    BY <2>8, <2>9, <2>10, BindersAreQuiet, Zenon
  <2> QED
    BY <1>1, <2>11, <2>12, <2>13
<1>11. WalkedAll(T, o, w, w, k + 1, before)
  <2>1. \A p \in Own(T, k + 1, before) : p \in k + 1 .. before
    BY DEF Own, Shown
  <2> HIDE DEF before
  <2>2. Judged(T, k + 1, before) = {}
    BY <1>10, <2>1 DEF Judged
  <2>3. Walked(T, o, w, w, Own(T, k + 1, before), {})
    BY <1>1, <1>10, <2>1, WalkedPast
  <2> QED
    BY <2>2, <2>3, Zenon DEF WalkedAll
<1>12. WalkedAll(T, o, w, v, c, e)
  BY <1>6, <1>7 DEF KidWalked
<1> HIDE DEF c, e, v
<1>13. /\ before \in Nat /\ k + 1 \in Nat /\ 1 <= k + 1 /\ k + 1 <= before + 1 /\ before <= e
       /\ before + 1 = c
  BY <1>7
<1> DEFINE a == k + 1
<1> HIDE DEF before, a
<1>14. WalkedAll(T, o, w, v, a, e)
  <2>1. /\ a \in Nat /\ 1 <= a /\ a <= before + 1 /\ before \in Nat /\ before <= e /\ e \in Nat /\ e <= Len(T)
        /\ Forest(T, a, before) /\ WalkedAll(T, o, w, w, a, before) /\ WalkedAll(T, o, w, v, before + 1, e)
    BY <1>7, <1>9, <1>11, <1>12, <1>13, Zenon DEF a
  <2> QED
    BY <1>1, <2>1, SpansJoin
<1> QED
  BY <1>2, <1>14 DEF a, e

(* The children of a match from one on, or of a node, are its row.         *)
LEMMA RowsTops ==
    ASSUME NEW T, IsTree(T), NEW k \in 1 .. Len(T), NEW i \in 1 .. Len(T[k].kids),
           NEW p \in Tops(T, T[T[k].kids[i]].last + 1, T[k].last)
    PROVE  \E j \in 1 .. Len(T[k].kids) : p = T[k].kids[j] /\ i < j
<1> DEFINE kids == T[k].kids
           end(m) == T[kids[m]].last
           e == T[k].last
           from == end(i) + 1
<1>1. p \in from .. e /\ \A q \in from .. p - 1 : T[q].last < p
  BY DEF Tops
<1>2. /\ k \in Nat /\ e \in Nat
      /\ \A m \in 1 .. Len(kids) : kids[m] \in Nat /\ end(m) \in Nat /\ k < kids[m] /\ kids[m] <= end(m)
  BY KidsTell
<1>3. i \in 1 .. Len(kids) /\ Len(kids) \in Nat /\ DOMAIN kids = 1 .. Len(kids)
  BY KidsTell
<1>4. \A a, b \in 1 .. Len(kids) : a < b => end(a) < kids[b]
  BY KidsInOrder
<1>5. \A q \in k + 1 .. e : \E j \in 1 .. Len(kids) : kids[j] <= q /\ q <= end(j)
  BY <1>3, KidsCover, Zenon
<1> HIDE DEF kids, end, e
<1>6. p \in k + 1 .. e /\ p \in Nat /\ end(i) < p /\ end(i) \in Nat
  BY <1>1, <1>2, <1>3
<1>7. PICK j \in 1 .. Len(kids) : kids[j] <= p /\ p <= end(j)
  BY <1>5, <1>6
<1>8. kids[j] \in Nat /\ end(j) \in Nat
  BY <1>2
<1>9. i < j
  <2>1. j # i
    BY <1>6, <1>7, <1>8
  <2>2. ~(j < i)
    <3>1. SUFFICES ASSUME j < i PROVE FALSE
      OBVIOUS
    <3>2. end(j) < kids[i] /\ kids[i] <= end(i) /\ kids[i] \in Nat
      BY <1>2, <1>3, <1>4, <3>1
    <3> QED
      BY <1>6, <1>7, <1>8, <3>2
  <2> QED
    BY <1>3, <2>1, <2>2
<1>10. end(i) < kids[j]
  BY <1>3, <1>4, <1>9
<1>11. kids[j] = p
  <2>1. SUFFICES ASSUME kids[j] # p PROVE FALSE
    OBVIOUS
  <2>2. kids[j] \in from .. p - 1
    BY <1>6, <1>7, <1>8, <1>10, <2>1
  <2>3. end(j) < p
    BY <1>1, <2>2, Zenon DEF end
  <2> QED
    BY <1>6, <1>7, <1>8, <2>3
<1> QED
  BY <1>9, <1>11 DEF kids

LEMMA SelfPassed ==
    ASSUME NEW T, IsTree(T), NEW o \in Int, NEW k \in 1 .. Len(T),
           NEW w, OnLevel(T, o, w, k), ~NoArms(T[k]), ~IsSite(T[k])
    PROVE  Walked(T, o, w, w, {k}, {})
<1>1. w \in Walkers /\ w.depth <= w.deepest /\ w.depth = o + Level(T, k)
  BY DEF OnLevel
<1>2. k \in Nat
  BY KidsTell
<1>3. Reach(T, k) = Level(T, k)
  <2>1. Reach(T, k) = Level(T, k) + 0 /\ Level(T, k) \in Nat
    BY <1>2, LevelsType DEF Reach
  <2> QED
    BY <2>1
<1> QED
  BY <1>1, <1>3, WalkedPast

LEMMA OtherWalked ==
    ASSUME NEW T, IsTree(T), NEW o \in Int, NEW walk, NEW k \in 1 .. Len(T), WalksBelow(T, o, walk, k),
           NEW w, OnLevel(T, o, w, k),
           T[k].kind \notin Items \cup {"if", "match", "arm", "for", "while", "loop", "closure", "async", "local"}
    PROVE  Walked(T, o, w, Through(T, walk, w, k), Own(T, k, T[k].last), Judged(T, k, T[k].last) \ {k})
<1> DEFINE e == T[k].last
           from == k + 1
           u == Site(T, w, k)
           v == walk[from][e][u]
<1>1. w \in Walkers /\ w.depth <= w.deepest /\ w.depth = o + Level(T, k)
  BY DEF OnLevel
<1>2. Through(T, walk, w, k) = v
  BY DEF Through
<1>3. k \in Nat /\ e \in Nat /\ k <= e /\ e <= Len(T) /\ Len(T) \in Nat /\ 1 <= k
  BY KidsTell
<1>4. Walked(T, o, w, u, {k}, {}) /\ OnLevel(T, o, u, k)
  <2>1. ~NoArms(T[k])
    BY DEF NoArms
  <2>2. Reach(T, k) = Level(T, k)
    <3>1. Reach(T, k) = Level(T, k) + 0 /\ Level(T, k) \in Nat
      BY <1>3, <2>1, LevelsType DEF Reach
    <3> QED
      BY <3>1
  <2>3. Walked(T, o, w, u, {k}, {})
    BY <1>1, <1>3, <2>2, SiteWalked
  <2> HIDE DEF u
  <2> QED
    BY <1>3, <2>3, StaysOnLevel
<1>5. u \in Walkers /\ u.depth <= u.deepest /\ u.depth = o + Level(T, k)
  BY <1>4 DEF OnLevel
<1>6. ASSUME NEW p \in Tops(T, from, e)
      PROVE  p \notin Conditions(T) /\ Level(T, p) = Level(T, k)
  <2>1. p \in ToSet(T[k].kids)
    BY TopsAreKids
  <2>2. PICK i \in 1 .. Len(T[k].kids) : p = T[k].kids[i]
    BY <2>1, KidsTell DEF ToSet
  <2>3. ~IsBody(T, T[k], i) /\ ~IsCondition(T[k], i)
    BY DEF IsBody, IsCondition
  <2>4. p \notin Conditions(T)
    BY <2>2, <2>3, KidsPart
  <2>5. Level(T, p) = Level(T, k) + 0 /\ Level(T, k) \in Nat
    BY <1>3, <2>2, <2>3, KidLevel, LevelsType
  <2> QED
    BY <2>4, <2>5
<1>7. WalksFrom(T, o, walk, from)
  <2>1. from \in k + 1 .. Len(T) + 1
    BY <1>3
  <2> QED
    BY <2>1 DEF WalksBelow
<1>8. Forest(T, from, e) /\ e \in 0 .. Len(T) /\ from <= e + 1
  BY <1>3, TreeTells
<1> HIDE DEF u, e, from
<1>9. Walked(T, o, u, v, Own(T, from, e), Judged(T, from, e) \ Tops(T, from, e))
  BY <1>5, <1>6, <1>7, <1>8, Zenon DEF WalksFrom
<1>10. Judged(T, from, e) \ Tops(T, from, e) = Judged(T, from, e)
  BY <1>6 DEF Judged
<1> HIDE DEF v
<1>11. WalkedAll(T, o, u, v, from, e)
  BY <1>9, <1>10, Zenon DEF WalkedAll
<1>12. Walked(T, o, w, v, Own(T, k, e), Judged(T, k, e) \ {k})
  BY <1>1, <1>4, <1>11, NodeThenInside, Zenon DEF from, e
<1> QED
  BY <1>2, <1>12 DEF e

LEMMA MatchWalked ==
    ASSUME NEW T, IsTree(T), NEW o \in Int, NEW walk, NEW k \in 1 .. Len(T), WalksBelow(T, o, walk, k),
           NEW w, OnLevel(T, o, w, k), T[k].kind = "match"
    PROVE  Walked(T, o, w, Through(T, walk, w, k), Own(T, k, T[k].last), Judged(T, k, T[k].last) \ {k})
<1> DEFINE kids == T[k].kids
           n == Len(kids)
           first == kids[1]
           x == T[first].last
           e == T[k].last
           from == x + 1
           u == Enter(T, walk, w, first)
           v == walk[from][e][Into(u)]
<1>1. w \in Walkers /\ w.depth <= w.deepest /\ w.depth = o + Level(T, k)
  BY DEF OnLevel
<1>2. Through(T, walk, w, k) = OutOf(v)
  BY DEF Through, WalkMatch, Items
<1>3. n \in Nat /\ n # 0 /\ 1 \in 1 .. n
  <2>1. n \in Nat \ {0}
    BY TreeTells DEF Shaped, Arity
  <2> HIDE DEF n
  <2> QED
    BY <2>1
<1>4. /\ k \in Nat /\ e \in Nat /\ k <= e /\ e <= Len(T) /\ Len(T) \in Nat /\ 1 <= k
      /\ first = k + 1 /\ first \in Nat /\ x \in Nat /\ first <= x /\ x <= e /\ first \in 1 .. Len(T)
  <2>1. k \in Nat /\ e \in Nat /\ k <= e /\ e <= Len(T) /\ Len(T) \in Nat /\ 1 <= k
    BY KidsTell
  <2>2. first = k + 1 /\ first \in Nat /\ x \in Nat /\ first <= x /\ x <= e /\ first \in 1 .. Len(T)
    BY <1>3, KidsTell
  <2> QED
    BY <2>1, <2>2
<1>5. ~IsBody(T, T[k], 1) /\ ~IsCondition(T[k], 1) /\ \A i \in 1 .. n : 1 < i => IsBody(T, T[k], i) /\ ~IsCondition(T[k], i)
  BY DEF IsBody, IsCondition
<1>6. KidWalked(T, o, w, u, k, 1) /\ OnLevel(T, o, u, k)
  BY <1>3, <1>5, KidPlain
<1>7. WalkedAll(T, o, w, u, k + 1, x)
  BY <1>4, <1>6 DEF KidWalked
<1>8. u \in Walkers /\ u.depth <= u.deepest /\ u.depth = o + Level(T, k) /\ Level(T, k) \in Nat
  <2>1. Level(T, k) \in Nat
    BY <1>4, LevelsType
  <2> QED
    BY <1>6, <2>1 DEF OnLevel
<1>9. ASSUME NEW p \in Tops(T, from, e)
      PROVE  p \notin Conditions(T) /\ Level(T, p) = Level(T, k) + 1
  <2>1. PICK i \in 1 .. n : p = kids[i] /\ 1 < i
    BY <1>3, RowsTops
  <2>2. IsBody(T, T[k], i) /\ ~IsCondition(T[k], i)
    BY <1>5, <2>1
  <2>3. p \notin Conditions(T)
    BY <2>1, <2>2, KidsPart, Zenon
  <2>4. Level(T, p) = Level(T, k) + 1
    BY <2>1, <2>2, KidLevel
  <2> QED
    BY <2>3, <2>4
<1>10. WalksFrom(T, o, walk, from)
  <2> HIDE DEF x, e
  <2>1. from \in k + 1 .. Len(T) + 1
    BY <1>4
  <2> QED
    BY <2>1 DEF WalksBelow
<1>11. Forest(T, from, e) /\ e \in 0 .. Len(T) /\ from <= e + 1 /\ from \in Nat /\ 1 <= from
  <2>1. Forest(T, k, e)
    BY TreeTells
  <2>2. first \in k .. e
    BY <1>4
  <2>3. Forest(T, T[first].last + 1, e)
    BY <2>1, <2>2, ForestsWithin
  <2> HIDE DEF first, e
  <2> QED
    BY <1>4, <2>3
<1>12. /\ Into(u) \in Walkers /\ Into(u).depth = u.depth + 1 /\ Into(u).depth <= Into(u).deepest
  BY <1>8, IntoTells
<1>13. Into(u).depth = o + (Level(T, k) + 1)
  <2> HIDE DEF u
  <2> QED
    BY <1>8, <1>12
<1> DEFINE P == Own(T, from, e)
           C == Judged(T, from, e)
<1>14. Walked(T, o, Into(u), v, P, C)
  <2> HIDE DEF u, e, from
  <2>1. Walked(T, o, Into(u), v, Own(T, from, e), Judged(T, from, e) \ Tops(T, from, e))
    BY <1>9, <1>10, <1>11, <1>12, <1>13, Zenon DEF WalksFrom
  <2>2. Judged(T, from, e) \ Tops(T, from, e) = Judged(T, from, e)
    BY <1>9 DEF Judged
  <2> QED
    BY <2>1, <2>2, Zenon
<1>15. P \in SUBSET Nat /\ {k} \in SUBSET Nat /\ {} \in SUBSET Nat
  <2> HIDE DEF e, from
  <2> QED
    BY <1>4, <1>11, OwnType
<1>16. ~IsSite(T[k])
  BY DEF IsSite, Stubs, Panics, Unwraps
<1>17. T[k].kind \notin Items
  BY DEF Items
<1>18. CASE n = 1
  <2>1. x = e
    <3>1. 1 \in 1 .. Len(kids) /\ 1 = Len(kids)
      BY <1>3, <1>18
    <3> QED
      BY <3>1, LastKid
  <2>2. NoArms(T[k])
    BY <1>18 DEF NoArms
  <2>3. o + Reach(T, k) = u.depth + 1
    <3>1. Reach(T, k) = Level(T, k) + 1
      BY <2>2 DEF Reach
    <3> HIDE DEF u
    <3> QED
      BY <1>8, <3>1
  <2>4. P = {}
    <3> HIDE DEF x, e
    <3>1. from > e
      BY <1>4, <2>1
    <3>2. from .. e = {}
      BY <1>4, <1>11, <3>1
    <3> QED
      BY <3>2 DEF Own, Shown
  <2>5. C = {}
    BY <2>4 DEF Judged
  <2>6. u.depth + 1 \in Int
    BY <1>8, WalkersType
  <2> HIDE DEF u, v, P, C
  <2>7. Walked(T, o, u, OutOf(v), P \cup {k}, C)
    <3>1. \A a \in {k} : ~IsSite(T[a]) /\ o + Reach(T, a) <= u.depth + 1
      BY <1>16, <2>3, <2>6
    <3>2. \E a \in P \cup {k} : u.depth + 1 <= o + Reach(T, a)
      BY <2>3, <2>6
    <3> QED
      BY <1>8, <1>14, <1>15, <3>1, <3>2, NestedWalked, Zenon
  <2>8. Walked(T, o, u, OutOf(v), {k}, {})
    BY <2>4, <2>5, <2>7
  <2> DEFINE Q == Own(T, k + 1, e)
             E == Judged(T, k + 1, e)
  <2>9. Walked(T, o, w, u, Q, E)
    BY <1>7, <2>1 DEF WalkedAll
  <2>10. Q \in SUBSET (1 .. Len(T)) /\ E \in SUBSET (1 .. Len(T)) /\ {k} \in SUBSET (1 .. Len(T)) /\ {} \in SUBSET (1 .. Len(T))
    <3> DEFINE d == k + 1
    <3>1. d \in Nat /\ 1 <= d
      BY <1>4
    <3> HIDE DEF d, e
    <3>2. Own(T, d, e) \in SUBSET (1 .. Len(T)) /\ Judged(T, d, e) \in SUBSET (1 .. Len(T))
      BY <1>4, <3>1, OwnType
    <3> QED
      BY <3>2 DEF d
  <2>11. Own(T, k, e) = {k} \cup Q /\ Judged(T, k, e) \ {k} = E
    BY <1>17, OwnStep, Zenon
  <2>12. SitesApart(T, Q, {k})
    BY <1>16 DEF SitesApart
  <2> HIDE DEF Q, E
  <2>13. Walked(T, o, w, OutOf(v), Q \cup {k}, E \cup {})
    BY <1>1, <2>8, <2>9, <2>10, <2>12, WalkedJoin
  <2>14. Q \cup {k} = {k} \cup Q /\ E \cup {} = E
    OBVIOUS
  <2>15. Walked(T, o, w, OutOf(v), Own(T, k, e), Judged(T, k, e) \ {k})
    BY <2>11, <2>13, <2>14, Zenon
  <2> HIDE DEF e
  <2> QED
    BY <1>2, <2>15 DEF e
<1>19. CASE n # 1
  <2>1. 2 \in 1 .. n /\ 1 < 2
    <3> HIDE DEF n
    <3> QED
      BY <1>3, <1>19
  <2> DEFINE q == kids[2]
  <2>2. q = from
    <3>1. 2 = 1 + 1
      OBVIOUS
    <3> QED
      BY <1>3, <2>1, <3>1, NextKid
  <2>3. Level(T, q) = Level(T, k) + 1 /\ q \in Nat /\ q \in 1 .. Len(T) /\ q <= T[q].last /\ T[q].last <= e /\ T[q].last \in Nat
    <3>1. Level(T, q) = Level(T, k) + 1
      BY <1>5, <2>1, KidLevel
    <3>2. q \in Nat /\ q \in 1 .. Len(T) /\ q <= T[q].last /\ T[q].last <= e /\ T[q].last \in Nat
      BY <2>1, KidsTell
    <3> QED
      BY <3>1, <3>2
  <2>4. T[q].kind \notin Items
    <3>1. T[q].kind \in Items => T[k].kind \in {"file", "impl", "trait", "mod", "block", "exprblock"}
      BY <2>1, KidKinds, Zenon
    <3> QED
      BY <3>1
  <2>5. q \in P
    <3> HIDE DEF q, from, e
    <3>1. q <= e
      BY <1>4, <2>3
    <3>2. q \notin OfKind(T, Items)
      BY <2>4 DEF OfKind
    <3>3. Shown(T, OfKind(T, Items), q, e) = {q} \cup Shown(T, OfKind(T, Items), q + 1, e)
      BY <1>11, <2>2, <3>1, <3>2, ShownStep
    <3> QED
      BY <2>2, <3>3 DEF Own
  <2>6. u.depth + 1 <= o + Reach(T, q)
    <3>1. Level(T, q) <= Reach(T, q) /\ Reach(T, q) \in Nat
      BY <2>3, LevelsType, Zenon
    <3> HIDE DEF u, q
    <3> QED
      BY <1>8, <2>3, <3>1
  <2> HIDE DEF u, v, P, C, q
  <2>7. Walked(T, o, u, OutOf(v), P \cup {}, C)
    BY <1>8, <1>14, <1>15, <2>5, <2>6, NestedWalked, Zenon
  <2>8. Walked(T, o, u, OutOf(v), P, C)
    <3>1. P \cup {} = P
      OBVIOUS
    <3> QED
      BY <2>7, <3>1
  <2>9. WalkedAll(T, o, u, OutOf(v), from, e)
    BY <2>8 DEF WalkedAll, P, C
  <2>10. Forest(T, k + 1, x)
    <3>1. Forest(T, first, x)
      BY <1>4, TreeTells
    <3> QED
      BY <1>4, <3>1
  <2>11. WalkedAll(T, o, w, OutOf(v), k + 1, e)
    <3> DEFINE a == k + 1
    <3> HIDE DEF x, e, first
    <3>1. a \in Nat /\ 1 <= a /\ a <= x + 1 /\ x <= e /\ x \in Nat /\ e \in Nat /\ e <= Len(T)
      BY <1>4
    <3>2. Forest(T, a, x) /\ WalkedAll(T, o, w, u, a, x) /\ WalkedAll(T, o, u, OutOf(v), x + 1, e)
      BY <1>7, <2>9, <2>10
    <3> HIDE DEF a
    <3>3. WalkedAll(T, o, w, OutOf(v), a, e)
      BY <1>1, <3>1, <3>2, SpansJoin
    <3> QED
      BY <3>3 DEF a
  <2>12. Walked(T, o, w, w, {k}, {})
    <3>1. ~NoArms(T[k])
      BY <1>19 DEF NoArms
    <3> QED
      BY <1>16, <3>1, SelfPassed
  <2>13. Walked(T, o, w, OutOf(v), Own(T, k, e), Judged(T, k, e) \ {k})
    BY <1>1, <1>17, <2>11, <2>12, NodeThenInside, Zenon
  <2> HIDE DEF e
  <2> QED
    BY <1>2, <2>13 DEF e
<1> QED
  BY <1>18, <1>19

(* What a walk does with a node.                                           *)
LEMMA NodeWalked ==
    ASSUME NEW T, IsTree(T), NEW o \in Int, NEW walk, NEW k \in 1 .. Len(T), WalksBelow(T, o, walk, k),
           NEW w, T[k].kind \notin Items => OnLevel(T, o, w, k), w \in Walkers
    PROVE  Walked(T, o, w, Through(T, walk, w, k), Own(T, k, T[k].last), Judged(T, k, T[k].last) \ {k})
<1> DEFINE v == Through(T, walk, w, k)
           plain == {"if", "arm", "for", "while", "loop", "closure", "async", "local"}
<1>1. CASE T[k].kind \in Items
  <2>1. v = w
    BY <1>1 DEF Through, Items
  <2>2. Own(T, k, T[k].last) = {} /\ Judged(T, k, T[k].last) \ {k} = {}
    BY <1>1, OwnStep, Zenon
  <2>3. Walked(T, o, w, w, {}, {})
    BY WalkedPast
  <2> QED
    BY <2>1, <2>2, <2>3, Zenon
<1>2. CASE T[k].kind \in plain
  <2>1. T[k].kind \notin Items /\ ~NoArms(T[k]) /\ ~IsSite(T[k])
    BY <1>2 DEF Items, NoArms, IsSite, Stubs, Panics, Unwraps
  <2>2. OnLevel(T, o, w, k)
    BY <2>1
  <2>3. WalkedAll(T, o, w, v, k + 1, T[k].last)
    BY <1>2, <2>2, IfWalked, ArmWalked, ForWalked, WhileWalked, OnceWalked, LocalWalked
  <2>4. Walked(T, o, w, w, {k}, {})
    BY <2>1, <2>2, SelfPassed
  <2> HIDE DEF v
  <2>5. Walked(T, o, w, v, Own(T, k, T[k].last), Judged(T, k, T[k].last) \ {k})
    BY <2>1, <2>3, <2>4, NodeThenInside, Zenon
  <2> QED
    BY <2>5 DEF v
<1>3. CASE T[k].kind = "match"
  <2>1. OnLevel(T, o, w, k)
    BY <1>3 DEF Items
  <2> QED
    BY <1>3, <2>1, MatchWalked, Zenon
<1>4. CASE T[k].kind \notin Items \cup plain \cup {"match"}
  <2>1. OnLevel(T, o, w, k)
    BY <1>4
  <2> QED
    BY <1>4, <2>1, OtherWalked, Zenon
<1> QED
  BY <1>1, <1>2, <1>3, <1>4

(* A node's walk asks only for what comes after the node.                  *)
LEMMA ThroughAgrees ==
    ASSUME NEW T, IsTree(T), NEW k \in 1 .. Len(T), NEW g, NEW h,
           \A n \in k + 1 .. Len(T) + 1 : g[n] = h[n], NEW w
    PROVE  Through(T, g, w, k) = Through(T, h, w, k)
<1> DEFINE kids == T[k].kids
<1>1. \A i \in 1 .. Len(kids) : g[kids[i]] = h[kids[i]]
  <2>1. SUFFICES ASSUME NEW i \in 1 .. Len(kids) PROVE g[kids[i]] = h[kids[i]]
    OBVIOUS
  <2> DEFINE c == kids[i]
  <2>2. c \in Nat /\ k < c /\ c \in 1 .. Len(T) /\ k \in Nat /\ Len(T) \in Nat
    BY KidsTell
  <2> HIDE DEF c
  <2>3. c \in k + 1 .. Len(T) + 1
    BY <2>2
  <2> QED
    BY <2>3 DEF c
<1>2. g[k + 1] = h[k + 1]
  <2>1. k + 1 \in k + 1 .. Len(T) + 1
    BY KidsTell
  <2> QED
    BY <2>1
<1>3. \A i \in 1 .. Len(kids) : g[T[kids[i]].last + 1] = h[T[kids[i]].last + 1]
  <2>1. SUFFICES ASSUME NEW i \in 1 .. Len(kids) PROVE g[T[kids[i]].last + 1] = h[T[kids[i]].last + 1]
    OBVIOUS
  <2> DEFINE c == kids[i]
             x == T[c].last
             e == T[k].last
  <2>2. c \in Nat /\ k < c /\ x \in Nat /\ c <= x /\ x <= e
    BY KidsTell
  <2>3. k \in Nat /\ e \in Nat /\ e <= Len(T) /\ Len(T) \in Nat
    BY KidsTell
  <2> HIDE DEF x, c, e
  <2>4. x + 1 \in k + 1 .. Len(T) + 1
    BY <2>2, <2>3
  <2> QED
    BY <2>4 DEF x, c
<1>4. Shaped(T, k) /\ Len(kids) \in Nat
  BY TreeTells, KidsTell, Zenon
<1>5. CASE T[k].kind \in Items
  BY <1>5 DEF Through, Items
<1>6. CASE T[k].kind = "if"
  <2>1. Len(kids) = 2 \/ Len(kids) = 3
    <3>1. Len(kids) \in 2 .. 3
      BY <1>4, <1>6 DEF Shaped, Arity
    <3> QED
      BY <3>1
  <2>2. /\ g[kids[1]] = h[kids[1]] /\ g[kids[2]] = h[kids[2]]
        /\ Len(kids) # 2 => g[kids[3]] = h[kids[3]]
    BY <1>1, <2>1, Firsts
  <2>3. IfChain(T, g, w, kids) = IfChain(T, h, w, kids)
    BY <2>2, Zenon DEF IfChain, Nested, Condition, Enter
  <2> QED
    BY <1>6, <2>3 DEF Through, Items
<1>7. CASE T[k].kind = "arm"
  <2>1. Len(kids) = 2 \/ Len(kids) = 3
    <3>1. Len(kids) \in 2 .. 3
      BY <1>4, <1>7 DEF Shaped, Arity
    <3> QED
      BY <3>1
  <2>2. /\ g[kids[1]] = h[kids[1]] /\ g[kids[2]] = h[kids[2]]
        /\ Len(kids) = 3 => g[kids[3]] = h[kids[3]]
    BY <1>1, <2>1, Firsts
  <2>3. WalkArm(T, g, w, kids) = WalkArm(T, h, w, kids)
    BY <2>2, Zenon DEF WalkArm, Condition, Enter
  <2> QED
    BY <1>7, <2>3 DEF Through, Items
<1>8. CASE T[k].kind = "for"
  <2>1. Len(kids) = 3
    <3>1. Len(kids) \in {3}
      BY <1>4, <1>8 DEF Shaped, Arity
    <3> QED
      BY <3>1
  <2>2. g[kids[2]] = h[kids[2]] /\ g[kids[3]] = h[kids[3]]
    BY <1>1, <2>1, Firsts
  <2>3. Nested(T, g, Enter(T, g, w, kids[2]), kids[3]) = Nested(T, h, Enter(T, h, w, kids[2]), kids[3])
    BY <2>2 DEF Nested, Enter
  <2> QED
    BY <1>8, <2>3 DEF Through, Items
<1>9. CASE T[k].kind = "while"
  <2>1. Len(kids) = 2
    <3>1. Len(kids) \in {2}
      BY <1>4, <1>9 DEF Shaped, Arity
    <3> QED
      BY <3>1
  <2>2. g[kids[1]] = h[kids[1]] /\ g[kids[2]] = h[kids[2]]
    BY <1>1, <2>1, Firsts
  <2>3. Nested(T, g, Condition(T, g, w, kids[1]), kids[2]) = Nested(T, h, Condition(T, h, w, kids[1]), kids[2])
    BY <2>2 DEF Nested, Condition, Enter
  <2> QED
    BY <1>9, <2>3 DEF Through, Items
<1>10. CASE T[k].kind \in {"loop", "closure", "async"}
  <2> DEFINE n == Len(kids)
  <2>1. n \in 1 .. Len(kids)
    <3>1. n \in Arity(T[k])
      BY <1>4 DEF Shaped
    <3>2. n \in {1} \cup (Nat \ {0})
      BY <1>10, <3>1 DEF Arity
    <3> HIDE DEF n
    <3>3. n \in 1 .. n
      BY <3>2
    <3> QED
      BY <3>3 DEF n
  <2>2. g[kids[n]] = h[kids[n]]
    BY <1>1, <2>1
  <2>3. Last(kids) = kids[n]
    BY DEF Last
  <2>4. Nested(T, g, w, Last(kids)) = Nested(T, h, w, Last(kids))
    BY <2>2, <2>3, Zenon DEF Nested, Enter
  <2> QED
    BY <1>10, <2>4 DEF Through, Items
<1>11. CASE T[k].kind = "local"
  <2>1. Len(kids) = 1 \/ Len(kids) = 2 \/ Len(kids) = 3
    <3>1. Len(kids) \in 1 .. 3
      BY <1>4, <1>11 DEF Shaped, Arity
    <3> QED
      BY <3>1
  <2>2. /\ Len(kids) # 1 => g[kids[2]] = h[kids[2]]
        /\ Len(kids) = 3 => g[kids[3]] = h[kids[3]]
    BY <1>1, <2>1, Firsts
  <2>3. WalkLocal(T, g, w, kids) = WalkLocal(T, h, w, kids)
    BY <2>2, Zenon DEF WalkLocal, Nested, Enter
  <2> QED
    BY <1>11, <2>3 DEF Through, Items
<1>12. CASE T[k].kind = "match"
  <2>1. 1 \in 1 .. Len(kids)
    <3> DEFINE n == Len(kids)
    <3>1. n \in Nat \ {0}
      BY <1>4, <1>12 DEF Shaped, Arity
    <3> HIDE DEF n
    <3>2. 1 \in 1 .. n
      BY <3>1
    <3> QED
      BY <3>2 DEF n
  <2>2. g[kids[1]] = h[kids[1]] /\ g[T[kids[1]].last + 1] = h[T[kids[1]].last + 1]
    BY <1>1, <1>3, <2>1
  <2>3. WalkMatch(T, g, w, k) = WalkMatch(T, h, w, k)
    BY <2>2 DEF WalkMatch, Enter
  <2> QED
    BY <1>12, <2>3 DEF Through, Items
<1>13. CASE T[k].kind \notin Items \cup {"if", "match", "arm", "for", "while", "loop", "closure", "async", "local"}
  BY <1>2, <1>13 DEF Through
<1> QED
  BY <1>5, <1>6, <1>7, <1>8, <1>9, <1>10, <1>11, <1>12, <1>13

(* The recursion of Walk, and that there is such a function.               *)
WalkAt(T, walk, k) ==
    [to \in 0 .. Len(T) |-> [w \in Walkers |->
       IF k > to THEN w ELSE walk[T[k].last + 1][to][Through(T, walk, w, k)]]]
IsWalk(T, walk) == walk = [k \in 1 .. Len(T) + 1 |-> WalkAt(T, walk, k)]

LEMMA WalksExist ==
    ASSUME NEW T, IsTree(T)
    PROVE  \E walk : IsWalk(T, walk)
<1> DEFINE D == 1 .. Len(T) + 1
           Row(g, n) == WalkAt(T, g, n)
           G == {k \in D : \E g : \A n \in D : n >= k => g[n] = Row(g, n)}
<1>1. Len(T) \in Nat /\ Len(T) + 1 \in Nat /\ 1 \in D
  BY TreeTells
<1>2. ASSUME NEW g, NEW h, NEW k \in D, \A n \in D : n > k => g[n] = h[n]
      PROVE  Row(g, k) = Row(h, k)
  <2>1. CASE k = Len(T) + 1
    <3>1. \A to \in 0 .. Len(T) : k > to
      BY <1>1, <2>1
    <3> QED
      BY <3>1 DEF WalkAt
  <2>2. CASE k # Len(T) + 1
    <3>1. k \in 1 .. Len(T)
      BY <1>1, <2>2
    <3>2. T[k].last + 1 \in D /\ T[k].last + 1 > k
      <4>1. T[k].last \in k .. Len(T)
        BY <3>1, TreeTells
      <4> QED
        BY <1>1, <3>1, <4>1
    <3>3. g[T[k].last + 1] = h[T[k].last + 1]
      BY <1>2, <3>2
    <3>4. \A n \in k + 1 .. Len(T) + 1 : g[n] = h[n]
      <4>1. \A n \in k + 1 .. Len(T) + 1 : n \in D /\ n > k
        BY <1>1, <3>1
      <4> QED
        BY <1>2, <4>1
    <3>5. \A w \in Walkers : Through(T, g, w, k) = Through(T, h, w, k)
      BY <3>1, <3>4, ThroughAgrees
    <3> QED
      BY <3>3, <3>5 DEF WalkAt
  <2> QED
    BY <2>1, <2>2
<1> HIDE DEF Row
<1>3. ASSUME NEW k \in D, \A j \in k + 1 .. Len(T) + 1 : j \in G
      PROVE  k \in G
  <2>1. PICK g : \A n \in D : n >= k + 1 => g[n] = Row(g, n)
    <3>1. CASE k + 1 \in D
      <4>1. k + 1 \in k + 1 .. Len(T) + 1
        BY <1>1, <3>1
      <4> QED
        BY <1>3, <4>1, Zenon
    <3>2. CASE k + 1 \notin D
      <4>1. \A n \in D : ~(n >= k + 1)
        BY <1>1, <3>2
      <4> QED
        BY <4>1
    <3> QED
      BY <3>1, <3>2
  <2> DEFINE h == [n \in D |-> Row(g, n)]
  <2>2. \A n \in D : h[n] = Row(g, n) /\ (n >= k + 1 => h[n] = g[n])
    BY <2>1
  <2> HIDE DEF h
  <2>3. ASSUME NEW n \in D, n >= k
        PROVE  h[n] = Row(h, n)
    <3>1. \A m \in D : m > n => g[m] = h[m]
      BY <1>1, <2>2, <2>3
    <3> QED
      BY <1>2, <2>2, <3>1
  <2> QED
    BY <2>3
<1> HIDE DEF G
<1>4. 1 \in G
  <2>1. \A k \in 1 .. Len(T) + 1 : k \in G
    BY <1>1, <1>3, FromTheTop, Zenon
  <2> QED
    BY <1>1, <2>1
<1>5. PICK g : \A n \in D : n >= 1 => g[n] = Row(g, n)
  BY <1>4 DEF G
<1> DEFINE h == [n \in D |-> g[n]]
<1>6. \A n \in D : Row(g, n) = Row(h, n) /\ g[n] = Row(g, n)
  <2>1. SUFFICES ASSUME NEW n \in D PROVE Row(g, n) = Row(h, n) /\ g[n] = Row(g, n)
    OBVIOUS
  <2>2. \A m \in D : m > n => g[m] = h[m]
    OBVIOUS
  <2>3. n >= 1
    BY <1>1
  <2> HIDE DEF h
  <2> QED
    BY <1>2, <1>5, <2>2, <2>3
<1>7. h = [n \in D |-> Row(h, n)]
  BY <1>6
<1> QED
  BY <1>7, Zenon DEF IsWalk, Row

LEMMA WalkIsWalk ==
    ASSUME NEW T, IsTree(T), NEW k \in 1 .. Len(T) + 1, NEW to \in 0 .. Len(T), NEW w \in Walkers
    PROVE  /\ k > to => Walk(T)[k][to][w] = w
           /\ k <= to => Walk(T)[k][to][w] = Walk(T)[T[k].last + 1][to][Through(T, Walk(T), w, k)]
<1> DEFINE walk == CHOOSE g : IsWalk(T, g)
<1>1. IsWalk(T, walk)
  BY WalksExist
<1>2. Walk(T) = walk
  BY DEF Walk, IsWalk, WalkAt
<1> HIDE DEF walk
<1>3. walk[k] = WalkAt(T, walk, k)
  BY <1>1 DEF IsWalk
<1>4. Len(T) \in Nat
  BY TreeTells
<1>5. walk[k][to][w] = IF k > to THEN w ELSE walk[T[k].last + 1][to][Through(T, walk, w, k)]
  <2> DEFINE cell(t, v) == IF k > t THEN v ELSE walk[T[k].last + 1][t][Through(T, walk, v, k)]
  <2>1. WalkAt(T, walk, k) = [t \in 0 .. Len(T) |-> [v \in Walkers |-> cell(t, v)]]
    BY DEF WalkAt
  <2> HIDE DEF cell
  <2>2. WalkAt(T, walk, k)[to][w] = cell(to, w)
    BY <2>1
  <2> QED
    BY <1>3, <2>2 DEF cell
<1>6. k <= to => ~(k > to)
  BY <1>4
<1> QED
  BY <1>2, <1>5, <1>6

LEMMA WalkWalks ==
    ASSUME NEW T, IsTree(T), NEW o \in Int
    PROVE  \A k \in 1 .. Len(T) + 1 : WalksFrom(T, o, Walk(T), k)
<1> DEFINE N == Len(T)
           walk == Walk(T)
           G == {k \in 1 .. N + 1 : WalksFrom(T, o, walk, k)}
<1>1. N \in Nat /\ N + 1 \in Nat
  BY TreeTells
<1>2. ASSUME NEW k \in 1 .. N + 1, \A j \in k + 1 .. N + 1 : j \in G
      PROVE  k \in G
  <2>1. SUFFICES ASSUME NEW to \in 0 .. N, NEW w \in Walkers, k <= to + 1, Forest(T, k, to),
                        w.depth <= w.deepest, \A c \in Tops(T, k, to) : w.depth = o + Level(T, c)
                 PROVE  Walked(T, o, w, walk[k][to][w], Own(T, k, to), Judged(T, k, to) \ Tops(T, k, to))
    BY Zenon DEF WalksFrom
  <2>2. WalksBelow(T, o, walk, k)
    BY <1>2 DEF WalksBelow
  <2>3. k \in Nat /\ to \in Nat
    BY <1>1
  <2>4. (k > to => walk[k][to][w] = w)
        /\ (k <= to => walk[k][to][w] = walk[T[k].last + 1][to][Through(T, walk, w, k)])
    BY WalkIsWalk
  <2> HIDE DEF walk
  <2>5. CASE k > to
    <3>1. walk[k][to][w] = w
      BY <2>4, <2>5
    <3>2. k .. to = {}
      BY <2>3, <2>5
    <3>3. Own(T, k, to) = {}
      BY <3>2 DEF Own, Shown
    <3>4. Judged(T, k, to) \ Tops(T, k, to) = {}
      BY <3>3 DEF Judged
    <3>5. Walked(T, o, w, w, {}, {})
      BY WalkedPast, Zenon
    <3> QED
      BY <3>1, <3>3, <3>4, <3>5, Zenon
  <2>6. CASE k <= to
    <3> DEFINE e == T[k].last
               u == Through(T, walk, w, k)
               v == walk[e + 1][to][u]
               P == Own(T, k, e)
               Q == Own(T, e + 1, to)
               C == Judged(T, k, e) \ {k}
               E == Judged(T, e + 1, to) \ Tops(T, e + 1, to)
    <3>1. k \in 1 .. N /\ k \in k .. to
      BY <1>1, <2>3, <2>6
    <3>2. e \in k .. to /\ e \in Nat /\ Forest(T, k, e) /\ Forest(T, e + 1, to)
      BY <2>1, <3>1, ForestsWithin
    <3>3. k <= e /\ e <= to /\ to <= N
      BY <1>1, <2>3, <3>2
    <3>4. k \in Tops(T, k, to)
      <4>1. \A q \in k .. k - 1 : FALSE
        BY <2>3
      <4> QED
        BY <3>1, <4>1 DEF Tops
    <3>5. OnLevel(T, o, w, k)
      BY <2>1, <3>4 DEF OnLevel
    <3>6. Walked(T, o, w, u, P, C)
      BY <2>2, <3>1, <3>5, NodeWalked, Zenon
    <3>7. u \in Walkers /\ u.depth <= u.deepest /\ u.depth = w.depth
      <4>1. OnLevel(T, o, u, k)
        <5> HIDE DEF u, P, C
        <5> QED
          BY <2>3, <3>5, <3>6, StaysOnLevel
      <4>2. u.depth = w.depth
        BY <3>6 DEF Walked, Deepens
      <4> QED
        BY <4>1, <4>2 DEF OnLevel
    <3>8. Tops(T, k, to) = {k} \cup Tops(T, e + 1, to)
      <4>1. \A q \in k .. e : T[q].last \in q .. e
        BY <3>2 DEF Forest
      <4> HIDE DEF e
      <4>2. ASSUME NEW p \in Tops(T, e + 1, to)
            PROVE  p \in Tops(T, k, to)
        <5>1. p \in e + 1 .. to /\ \A q \in e + 1 .. p - 1 : T[q].last < p
          BY DEF Tops
        <5>2. ASSUME NEW q \in k .. p - 1 PROVE T[q].last < p
          <6>1. q \in k .. e \/ q \in e + 1 .. p - 1
            BY <2>3, <3>2, <5>1
          <6>2. ASSUME q \in k .. e PROVE T[q].last < p
            <7>1. T[q].last \in q .. e
              BY <4>1, <6>2
            <7> QED
              BY <2>3, <3>2, <5>1, <6>2, <7>1
          <6> QED
            BY <5>1, <6>1, <6>2
        <5>3. p \in k .. to
          BY <2>3, <3>2, <3>3, <5>1
        <5> QED
          BY <5>2, <5>3 DEF Tops
      <4>3. ASSUME NEW p \in Tops(T, k, to), p # k
            PROVE  p \in Tops(T, e + 1, to)
        <5>1. p \in k .. to /\ \A q \in k .. p - 1 : T[q].last < p
          BY DEF Tops
        <5>2. k \in k .. p - 1
          BY <2>3, <4>3, <5>1
        <5>3. e < p
          BY <5>1, <5>2 DEF e
        <5>4. p \in e + 1 .. to /\ \A q \in e + 1 .. p - 1 : q \in k .. p - 1
          BY <2>3, <3>2, <3>3, <5>1, <5>3
        <5> QED
          BY <5>1, <5>4 DEF Tops
      <4> QED
        BY <3>4, <4>2, <4>3
    <3>9. \A c \in Tops(T, e + 1, to) : u.depth = o + Level(T, c)
      BY <2>1, <3>7, <3>8
    <3>10. Walked(T, o, u, v, Q, E)
      <4> HIDE DEF e, u
      <4>1. e + 1 \in k + 1 .. N + 1 /\ e + 1 <= to + 1
        BY <1>1, <2>3, <3>2, <3>3
      <4>2. WalksFrom(T, o, walk, e + 1)
        BY <1>2, <4>1
      <4> QED
        BY <3>2, <3>7, <3>9, <4>1, <4>2, Zenon DEF WalksFrom
    <3>11. /\ P \in SUBSET (1 .. N) /\ Judged(T, k, e) \in SUBSET (1 .. N)
           /\ (\A p \in P : p \in Nat /\ p <= e) /\ (\A p \in Judged(T, k, e) : p \in Nat /\ p <= e)
      <4> HIDE DEF e
      <4>1. 1 <= k /\ e <= N
        BY <1>1, <2>3, <3>1, <3>2, <3>3
      <4> QED
        BY <2>3, <3>2, <4>1, OwnType
    <3>12. /\ Q \in SUBSET (1 .. N) /\ Judged(T, e + 1, to) \in SUBSET (1 .. N)
           /\ (\A p \in Q : p \in Nat /\ e + 1 <= p) /\ (\A p \in Judged(T, e + 1, to) : p \in Nat /\ e + 1 <= p)
      <4> DEFINE d == e + 1
      <4> HIDE DEF e
      <4>1. d \in Nat /\ 1 <= d
        BY <3>2
      <4> HIDE DEF d
      <4>2. /\ Own(T, d, to) \in SUBSET (1 .. N) /\ Judged(T, d, to) \in SUBSET (1 .. N)
            /\ (\A p \in Own(T, d, to) : p \in Nat /\ d <= p)
            /\ (\A p \in Judged(T, d, to) : p \in Nat /\ d <= p)
        BY <2>3, <3>3, <4>1, OwnType
      <4> QED
        BY <4>2 DEF d
    <3>13. Own(T, k, to) = P \cup Q
      <4> HIDE DEF e
      <4>1. k <= e + 1
        BY <2>3, <3>2, <3>3
      <4> QED
        BY <2>3, <3>2, <3>3, <4>1, ShownSplit DEF Own
    <3>14. Judged(T, k, to) \ Tops(T, k, to) = C \cup E
      <4> HIDE DEF e
      <4>1. Judged(T, k, to) = Judged(T, k, e) \cup Judged(T, e + 1, to)
        BY <3>13 DEF Judged
      <4>2. \A p \in Judged(T, k, e) : p \notin Tops(T, e + 1, to)
        <5>1. \A p \in Tops(T, e + 1, to) : p \in e + 1 .. to
          BY DEF Tops
        <5>2. \A p \in e + 1 .. to : ~(p <= e)
          BY <2>3, <3>2
        <5> QED
          BY <3>11, <5>1, <5>2
      <4>3. k \notin Judged(T, e + 1, to)
        <5>1. ~(e + 1 <= k)
          BY <2>3, <3>2, <3>3
        <5> QED
          BY <3>12, <5>1
      <4> QED
        BY <3>8, <4>1, <4>2, <4>3
    <3>15. (\A p \in P, q \in Q : p < q) /\ (\A p \in C, q \in E : p < q)
      <4> HIDE DEF e, P, Q
      <4> QED
        BY <3>2, <3>11, <3>12
    <3>16. SitesApart(T, P, Q) /\ C \in SUBSET (1 .. N) /\ E \in SUBSET (1 .. N)
      <4> HIDE DEF e, P, Q
      <4> QED
        BY <3>11, <3>12, <3>15 DEF SitesApart
    <3>17. walk[k][to][w] = v
      BY <2>4, <2>6
    <3> HIDE DEF e, u, v, P, Q, C, E
    <3>18. Walked(T, o, w, v, P \cup Q, C \cup E)
      BY <3>6, <3>10, <3>11, <3>12, <3>15, <3>16, WalkedJoin
    <3> QED
      BY <3>13, <3>14, <3>17, <3>18, Zenon
  <2> QED
    BY <2>3, <2>5, <2>6
<1> HIDE DEF G
<1>3. \A k \in 1 .. N + 1 : k \in G
  BY <1>1, <1>2, FromTheTop, Zenon
<1> QED
  BY <1>3 DEF G

LEMMA MaxIs ==
    ASSUME NEW S \in SUBSET Int, NEW m \in S, \A x \in S : x <= m
    PROVE  Max(S) = m
<1>1. \A x \in S : (\A y \in S : x >= y) <=> x = m
  <2>1. SUFFICES ASSUME NEW x \in S PROVE (\A y \in S : x >= y) <=> x = m
    OBVIOUS
  <2>2. \A y \in S : y \in Int /\ y <= m
    OBVIOUS
  <2>3. (\A y \in S : x >= y) => x = m
    BY <2>2
  <2>4. x = m => (\A y \in S : x >= y)
    BY <2>2
  <2> QED
    BY <2>3, <2>4
<1>2. (CHOOSE x \in S : \A y \in S : x >= y) = m
  BY <1>1, Zenon
<1> QED
  BY <1>2 DEF Max

(* How many bodies around its deepest code a statement has.                *)
Goes(T, s) == Max({0} \cup {Depth(T, Bodies(T), s, p) : p \in Scope(T, s, Items)})

LEMMA WalkerTells ==
    /\ Walker \in Walkers /\ Walker.depth = 0 /\ Walker.deepest = 0 /\ Walker.ops = 0
    /\ Walker.worst = None /\ Walker.stubs = <<>> /\ Walker.panics = <<>>
<1>1. <<>> \in Seq(Nat)
  BY EmptySeq
<1> QED
  BY <1>1 DEF Walker, Walkers, None

LEMMA AddsToNothing ==
    ASSUME NEW b, NEW S, Adds(<<>>, b, S)
    PROVE  b \in Seq(Nat) /\ Lists(b, S)
<1>1. PICK s \in Seq(Nat) : b = <<>> \o s /\ Lists(s, S)
  BY DEF Adds
<1>2. b = s
  BY <1>1, ConcatEmptySeq
<1> QED
  BY <1>1, <1>2

(* compute walks each statement with a walker of its own.                  *)
LEMMA StatementWalked ==
    ASSUME NEW T, IsTree(T), NEW b \in 1 .. Len(T), T[b].kind = "block", NEW i \in 1 .. Len(T[b].kids)
    PROVE  LET s == T[b].kids[i]
               w == Enter(T, Walk(T), Walker, s)
           IN /\ w \in Walkers /\ w.deepest = Goes(T, s) /\ Goes(T, s) \in Nat
              /\ Scored(T, Walker, w, Judged(T, s, T[s].last))
              /\ Lists(w.stubs, StubsOf(T, Own(T, s, T[s].last)))
              /\ Lists(w.panics, PanicsOf(T, Own(T, s, T[s].last)))
<1> DEFINE s == T[b].kids[i]
           e == T[s].last
           w == Enter(T, Walk(T), Walker, s)
           o == -Level(T, s)
           P == Own(T, s, e)
           C == Judged(T, s, e)
<1>1. s \in Nat /\ s \in 1 .. Len(T) /\ Len(T) \in Nat
  BY KidsTell
<1>2. s \notin Conditions(T)
  <2>1. ~IsCondition(T[b], i)
    BY DEF IsCondition
  <2> QED
    BY <2>1, KidsPart
<1> HIDE DEF s
<1>3. e \in s .. Len(T) /\ e \in Nat /\ s <= e /\ e <= Len(T)
  <2>1. e \in s .. Len(T)
    BY <1>1, TreeTells, Zenon
  <2> HIDE DEF e
  <2> QED
    BY <1>1, <2>1
<1>4. Tops(T, s, e) = {s}
  BY <1>1, OwnStep
<1>5. Forest(T, s, e)
  BY <1>1, TreeTells
<1>6. o \in Int /\ Level(T, s) \in Nat /\ Walker.depth = o + Level(T, s)
  <2>1. Level(T, s) \in Nat
    BY <1>1, LevelsType
  <2> HIDE DEF s
  <2> QED
    BY <2>1, WalkerTells
<1>7. C \ {s} = C
  BY <1>2 DEF Judged
<1>8. w = Walk(T)[s][e][Walker]
  BY DEF Enter
<1>9. Walked(T, o, Walker, w, P, C)
  <2>1. WalksFrom(T, o, Walk(T), s)
    <3>1. s \in 1 .. Len(T) + 1
      BY <1>1
    <3> QED
      BY <1>6, <3>1, WalkWalks
  <2>2. e \in 0 .. Len(T) /\ s <= e + 1
    <3> HIDE DEF e
    <3> QED
      BY <1>1, <1>3
  <2>3. Walker.depth <= Walker.deepest
    BY WalkerTells
  <2> HIDE DEF e, o, w
  <2>4. \A c \in Tops(T, s, e) : Walker.depth = o + Level(T, c)
    BY <1>4, <1>6
  <2>5. Walked(T, o, Walker, Walk(T)[s][e][Walker], Own(T, s, e), Judged(T, s, e) \ Tops(T, s, e))
    BY <1>5, <2>1, <2>2, <2>3, <2>4, WalkerTells, Zenon DEF WalksFrom
  <2> QED
    BY <1>4, <1>7, <1>8, <2>5, Zenon
<1>10. \A p \in P : o + Reach(T, p) = Depth(T, Bodies(T), s, p) /\ Depth(T, Bodies(T), s, p) \in Nat
  <2>1. SUFFICES ASSUME NEW p \in P
                 PROVE  o + Reach(T, p) = Depth(T, Bodies(T), s, p) /\ Depth(T, Bodies(T), s, p) \in Nat
    OBVIOUS
  <2>2. p \in s .. T[s].last
    BY DEF Own, Shown
  <2>3. Reach(T, p) = Level(T, s) + Depth(T, Bodies(T), s, p) /\ Depth(T, Bodies(T), s, p) \in Nat
    BY <1>1, <2>2, DepthIsLevel
  <2> QED
    BY <1>6, <2>3
<1>11. Scope(T, s, Items) = P
  <2>1. s \in DOMAIN T
    BY <1>1, TreeTells
  <2> QED
    BY <2>1, ScopeIsShown DEF Own
<1>12. w \in Walkers /\ Deepens(T, o, Walker, w, P) /\ Scored(T, Walker, w, C)
       /\ Adds(<<>>, w.stubs, StubsOf(T, P)) /\ Adds(<<>>, w.panics, PanicsOf(T, P))
  BY <1>9, WalkerTells DEF Walked
<1>13. w.deepest = Goes(T, s) /\ w.deepest \in Nat
  <2> HIDE DEF w, o, P
  <2> DEFINE S == {0} \cup {Depth(T, Bodies(T), s, p) : p \in P}
  <2>1. 0 <= w.deepest /\ w.deepest \in Int /\ \A p \in P : Depth(T, Bodies(T), s, p) <= w.deepest
    BY <1>10, <1>12, WalkersType, WalkerTells DEF Deepens
  <2>2. w.deepest \in S
    BY <1>10, <1>12, WalkerTells DEF Deepens
  <2>3. S \in SUBSET Int /\ \A x \in S : x <= w.deepest
    BY <1>10, <2>1
  <2> HIDE DEF S
  <2>4. Max(S) = w.deepest
    BY <2>2, <2>3, MaxIs, Zenon
  <2> QED
    BY <1>11, <2>1, <2>4 DEF Goes, S
<1>14. Lists(w.stubs, StubsOf(T, P)) /\ Lists(w.panics, PanicsOf(T, P))
  BY <1>12, AddsToNothing
<1> HIDE DEF w, P, C
<1>15. Goes(T, s) \in Nat
  BY <1>13
<1> QED
  BY <1>12, <1>13, <1>14, <1>15, Zenon DEF w, P, C, e, s

(* The recursion of compute over a body's statements, and that there is    *)
(* such a function.                                                        *)
UptoAt(T, kids, upto, i) ==
    IF i = 0 THEN Unmeasured ELSE Add(upto[i - 1], Enter(T, Walk(T), Walker, kids[i]), kids[i])
IsUpto(T, kids, upto) == upto = [i \in 0 .. Len(kids) |-> UptoAt(T, kids, upto, i)]

LEMMA UptosExist ==
    ASSUME NEW T, NEW kids, Len(kids) \in Nat
    PROVE  \E upto : IsUpto(T, kids, upto)
<1> DEFINE D == 0 .. Len(kids)
           Row(g, n) == UptoAt(T, kids, g, n)
           G == {k \in Nat : \E g : \A n \in 0 .. k : g[n] = Row(g, n)}
<1>1. ASSUME NEW g, NEW h, NEW k \in Nat, k > 0 => g[k - 1] = h[k - 1]
      PROVE  Row(g, k) = Row(h, k)
  <2>1. CASE k = 0
    BY <2>1 DEF UptoAt
  <2>2. CASE k # 0
    <3>1. k > 0
      BY <2>2
    <3> QED
      BY <1>1, <3>1 DEF UptoAt
  <2> QED
    BY <2>1, <2>2
<1> HIDE DEF Row
<1>2. 0 \in G
  <2> DEFINE g == [n \in {0} |-> Row(<<>>, 0)]
  <2>1. g[0] = Row(<<>>, 0)
    OBVIOUS
  <2> HIDE DEF g
  <2>2. Row(g, 0) = Row(<<>>, 0)
    BY <1>1
  <2>3. \A n \in 0 .. 0 : n = 0
    OBVIOUS
  <2>4. \A n \in 0 .. 0 : g[n] = Row(g, n)
    BY <2>1, <2>2, <2>3
  <2> QED
    BY <2>4
<1>3. ASSUME NEW k \in Nat, k \in G
      PROVE  k + 1 \in G
  <2>1. PICK g : \A n \in 0 .. k : g[n] = Row(g, n)
    BY <1>3
  <2> DEFINE h == [n \in 0 .. k + 1 |-> Row(g, n)]
  <2>2. \A n \in 0 .. k : h[n] = g[n]
    <3>1. \A n \in 0 .. k : n \in 0 .. k + 1
      OBVIOUS
    <3> QED
      BY <2>1, <3>1
  <2>3. \A n \in 0 .. k + 1 : h[n] = Row(g, n)
    OBVIOUS
  <2> HIDE DEF h
  <2>4. ASSUME NEW n \in 0 .. k + 1
        PROVE  h[n] = Row(h, n)
    <3>1. n \in Nat /\ (n > 0 => n - 1 \in 0 .. k)
      OBVIOUS
    <3>2. n > 0 => g[n - 1] = h[n - 1]
      BY <2>2, <3>1
    <3>3. Row(g, n) = Row(h, n)
      BY <1>1, <3>1, <3>2
    <3> QED
      BY <2>3, <3>3
  <2> QED
    BY <2>4
<1> HIDE DEF G
<1>4. Nat \subseteq G
  BY <1>2, <1>3, FromZero
<1>5. PICK g : \A n \in D : g[n] = Row(g, n)
  BY <1>4 DEF G
<1> DEFINE h == [n \in D |-> g[n]]
<1>6. \A n \in D : h[n] = g[n]
  OBVIOUS
<1> HIDE DEF h
<1>7. \A n \in D : g[n] = Row(h, n)
  <2>1. SUFFICES ASSUME NEW n \in D PROVE g[n] = Row(h, n)
    OBVIOUS
  <2>2. n \in Nat /\ (n > 0 => n - 1 \in D)
    OBVIOUS
  <2>3. Row(g, n) = Row(h, n)
    BY <1>1, <1>6, <2>2
  <2> QED
    BY <1>5, <2>3
<1>8. h = [n \in D |-> Row(h, n)]
  BY <1>7 DEF h
<1> QED
  BY <1>8 DEF IsUpto, Row

(* What compute has of the statements so far.                              *)
Upto(T, kids) == CHOOSE upto : IsUpto(T, kids, upto)

LEMMA UptoIsUpto ==
    ASSUME NEW T, NEW b, Len(T[b].kids) \in Nat
    PROVE  LET kids == T[b].kids
               upto == Upto(T, kids)
           IN /\ Signals(T, b) = upto[Len(kids)] /\ upto[0] = Unmeasured
              /\ \A i \in 1 .. Len(kids) :
                   upto[i] = Add(upto[i - 1], Enter(T, Walk(T), Walker, kids[i]), kids[i])
<1> DEFINE kids == T[b].kids
           upto == Upto(T, kids)
<1>1. IsUpto(T, kids, upto)
  BY UptosExist, Zenon DEF Upto
<1>2. Signals(T, b) = upto[Len(kids)]
  BY DEF Signals, Upto, IsUpto, UptoAt
<1> HIDE DEF kids, upto
<1>3. Len(kids) \in Nat
  BY DEF kids
<1>4. \A i \in 0 .. Len(kids) : upto[i] = UptoAt(T, kids, upto, i)
  BY <1>1 DEF IsUpto
<1>5. upto[0] = Unmeasured
  BY <1>3, <1>4 DEF UptoAt
<1>6. \A i \in 1 .. Len(kids) : upto[i] = Add(upto[i - 1], Enter(T, Walk(T), Walker, kids[i]), kids[i])
  <2>1. \A i \in 1 .. Len(kids) : i \in 0 .. Len(kids) /\ i # 0
    BY <1>3
  <2> QED
    BY <1>4, <2>1 DEF UptoAt
<1> QED
  BY <1>2, <1>5, <1>6 DEF kids, upto

(* What of a body's first statements compute has put together.             *)
Measures == [nesting : Nat, nest : Seq(Nat), bumps : Seq(Nat), ops : Nat, worst : Nat,
             stubs : Seq(Nat), panics : Seq(Nat)]
Bumping(T, kids, i) == {kids[j] : j \in {l \in 1 .. i : Goes(T, kids[l]) >= 2}}
Deepest(T, kids, i, m) ==
    /\ \A j \in 1 .. i : Goes(T, kids[j]) <= m.nesting
    /\ \/ m.nesting = 0 /\ m.nest = <<>>
       \/ /\ m.nesting > 0
          /\ \E j \in 1 .. i : /\ Goes(T, kids[j]) = m.nesting /\ m.nest = <<kids[j]>>
                               /\ \A l \in 1 .. j - 1 : Goes(T, kids[l]) < m.nesting
Summed(T, m, P, C) ==
    /\ Scored(T, Walker, m, C)
    /\ Lists(m.stubs, StubsOf(T, P)) /\ Lists(m.panics, PanicsOf(T, P))

LEMMA MeasuresType ==
    ASSUME NEW m \in Measures, NEW w \in Walkers, NEW s \in Nat, w.deepest \in Nat
    PROVE  /\ Add(m, w, s) \in Measures
           /\ Add(m, w, s).nesting = Larger(m.nesting, w.deepest)
           /\ Add(m, w, s).nest = (IF w.deepest > m.nesting THEN <<s>> ELSE m.nest)
           /\ Add(m, w, s).bumps = (IF w.deepest >= 2 THEN Append(m.bumps, s) ELSE m.bumps)
           /\ Add(m, w, s).ops = Larger(m.ops, w.ops)
           /\ Add(m, w, s).worst = (IF w.ops > m.ops THEN w.worst ELSE m.worst)
           /\ Add(m, w, s).stubs = m.stubs \o w.stubs
           /\ Add(m, w, s).panics = m.panics \o w.panics
           /\ m.nesting \in Nat /\ m.ops \in Nat /\ m.worst \in Nat
           /\ m.nest \in Seq(Nat) /\ m.bumps \in Seq(Nat) /\ m.stubs \in Seq(Nat) /\ m.panics \in Seq(Nat)
           /\ w.ops \in Nat /\ w.worst \in Nat /\ w.stubs \in Seq(Nat) /\ w.panics \in Seq(Nat)
<1>1. /\ m.nesting \in Nat /\ m.ops \in Nat /\ m.worst \in Nat
      /\ m.nest \in Seq(Nat) /\ m.bumps \in Seq(Nat) /\ m.stubs \in Seq(Nat) /\ m.panics \in Seq(Nat)
  BY DEF Measures
<1>2. w.ops \in Nat /\ w.worst \in Nat /\ w.stubs \in Seq(Nat) /\ w.panics \in Seq(Nat)
  BY WalkersType
<1>3. <<s>> \in Seq(Nat) /\ Append(m.bumps, s) \in Seq(Nat)
  BY <1>1, OneListed, AppendProperties
<1>4. m.stubs \o w.stubs \in Seq(Nat) /\ m.panics \o w.panics \in Seq(Nat)
  BY <1>1, <1>2, ConcatProperties
<1>5. Larger(m.nesting, w.deepest) \in Nat /\ Larger(m.ops, w.ops) \in Nat
  BY <1>1, <1>2 DEF Larger
<1>6. Add(m, w, s) \in Measures
  BY <1>1, <1>2, <1>3, <1>4, <1>5 DEF Add, Measures
<1> QED
  BY <1>1, <1>2, <1>6, Zenon DEF Add

(* One statement more: its depth.                                          *)
LEMMA DeepestMore ==
    ASSUME NEW T, NEW kids, NEW i \in Nat, i > 0, NEW m, NEW v,
           \A j \in 1 .. i : Goes(T, kids[j]) \in Nat, m.nesting \in Nat,
           Deepest(T, kids, i - 1, m), v.nesting = Larger(m.nesting, Goes(T, kids[i])),
           v.nest = (IF Goes(T, kids[i]) > m.nesting THEN <<kids[i]>> ELSE m.nest)
    PROVE  Deepest(T, kids, i, v)
<1> DEFINE g(j) == Goes(T, kids[j])
<1>1. \A j \in 1 .. i : g(j) \in Nat
  OBVIOUS
<1>2. i \in 1 .. i /\ (\A j \in 1 .. i : j \in 1 .. i - 1 \/ j = i) /\ (\A j \in 1 .. i - 1 : j \in 1 .. i)
  OBVIOUS
<1>3. \A j \in 1 .. i - 1 : g(j) <= m.nesting
  BY DEF Deepest
<1>4. v.nesting = Larger(m.nesting, g(i)) /\ v.nest = (IF g(i) > m.nesting THEN <<kids[i]>> ELSE m.nest)
  OBVIOUS
<1>5. \/ m.nesting = 0 /\ m.nest = <<>>
      \/ /\ m.nesting > 0
         /\ \E j \in 1 .. i - 1 : /\ g(j) = m.nesting /\ m.nest = <<kids[j]>>
                                  /\ \A l \in 1 .. j - 1 : g(l) < m.nesting
  BY DEF Deepest
<1> HIDE DEF g
<1>6. \A j \in 1 .. i : g(j) <= v.nesting
  <2>1. m.nesting <= v.nesting /\ g(i) <= v.nesting /\ v.nesting \in Nat
    BY <1>1, <1>2, <1>4 DEF Larger
  <2>2. \A j \in 1 .. i - 1 : g(j) <= v.nesting
    BY <1>1, <1>2, <1>3, <2>1
  <2> QED
    BY <1>2, <2>1, <2>2
<1>7. \/ v.nesting = 0 /\ v.nest = <<>>
      \/ /\ v.nesting > 0
         /\ \E j \in 1 .. i : /\ g(j) = v.nesting /\ v.nest = <<kids[j]>>
                              /\ \A l \in 1 .. j - 1 : g(l) < v.nesting
  <2>1. CASE g(i) > m.nesting
    <3>1. v.nesting = g(i) /\ v.nest = <<kids[i]>> /\ v.nesting > 0
      BY <1>1, <1>2, <1>4, <2>1 DEF Larger
    <3>2. \A l \in 1 .. i - 1 : g(l) < v.nesting
      BY <1>1, <1>2, <1>3, <2>1, <3>1
    <3> QED
      BY <1>2, <3>1, <3>2
  <2>2. CASE ~(g(i) > m.nesting)
    <3>1. v.nesting = m.nesting /\ v.nest = m.nest
      BY <1>1, <1>2, <1>4, <2>2 DEF Larger
    <3> QED
      BY <1>2, <1>5, <3>1, Zenon
  <2> QED
    BY <2>1, <2>2, Zenon
<1> QED
  BY <1>6, <1>7 DEF Deepest, g

(* Its line, when it goes two deep.                                        *)
LEMMA BumpsMore ==
    ASSUME NEW T, NEW kids, NEW i \in Nat, i > 0, \A j \in 1 .. i : kids[j] \in Nat,
           \A j \in 1 .. i - 1 : kids[j] < kids[i], NEW a \in Seq(Nat), Lists(a, Bumping(T, kids, i - 1))
    PROVE  Lists(IF Goes(T, kids[i]) >= 2 THEN Append(a, kids[i]) ELSE a, Bumping(T, kids, i))
<1>1. i \in 1 .. i /\ (\A j \in 1 .. i : j \in 1 .. i - 1 \/ j = i) /\ (\A j \in 1 .. i - 1 : j \in 1 .. i)
  OBVIOUS
<1>2. CASE Goes(T, kids[i]) >= 2
  <2>1. Bumping(T, kids, i) = Bumping(T, kids, i - 1) \cup {kids[i]}
    BY <1>1, <1>2 DEF Bumping
  <2>2. \A x \in Bumping(T, kids, i - 1) : x < kids[i]
    BY DEF Bumping
  <2>3. kids[i] \in Nat
    BY <1>1
  <2>4. <<kids[i]>> \in Seq(Nat) /\ Lists(<<kids[i]>>, {kids[i]})
    BY <2>3, OneListed, Zenon
  <2>5. Lists(a \o <<kids[i]>>, Bumping(T, kids, i - 1) \cup {kids[i]})
    BY <2>2, <2>4, ListsJoin, Zenon
  <2>6. Append(a, kids[i]) = a \o <<kids[i]>>
    BY <2>3, AppendIsConcat, Zenon
  <2> QED
    BY <1>2, <2>1, <2>5, <2>6
<1>3. CASE ~(Goes(T, kids[i]) >= 2)
  <2>1. Bumping(T, kids, i) = Bumping(T, kids, i - 1)
    BY <1>1, <1>3 DEF Bumping
  <2> QED
    BY <1>3, <2>1
<1> QED
  BY <1>2, <1>3

(* Its conditions and its sites.                                           *)
LEMMA SummedMore ==
    ASSUME NEW T, IsTree(T), NEW m \in Measures, NEW w \in Walkers, NEW v,
           NEW P \in SUBSET (1 .. Len(T)), NEW Q \in SUBSET (1 .. Len(T)),
           NEW C \in SUBSET (1 .. Len(T)), NEW E \in SUBSET (1 .. Len(T)),
           \A p \in P, q \in Q : p < q, \A p \in C, q \in E : p < q,
           Summed(T, m, P, C), Scored(T, Walker, w, E),
           Lists(w.stubs, StubsOf(T, Q)), Lists(w.panics, PanicsOf(T, Q)),
           v.ops = Larger(m.ops, w.ops), v.worst = (IF w.ops > m.ops THEN w.worst ELSE m.worst),
           v.stubs = m.stubs \o w.stubs, v.panics = m.panics \o w.panics
    PROVE  Summed(T, v, P \cup Q, C \cup E)
<1>1. /\ m.ops \in Nat /\ m.worst \in Nat /\ m.stubs \in Seq(Nat) /\ m.panics \in Seq(Nat)
      /\ w.ops \in Nat /\ w.worst \in Nat /\ w.stubs \in Seq(Nat) /\ w.panics \in Seq(Nat)
  BY WalkersType DEF Measures
<1>2. Scored(T, Walker, m, C) /\ Lists(m.stubs, StubsOf(T, P)) /\ Lists(m.panics, PanicsOf(T, P))
  BY DEF Summed
<1>3. Lists(v.stubs, StubsOf(T, P \cup Q)) /\ Lists(v.panics, PanicsOf(T, P \cup Q))
  <2>1. StubsOf(T, P \cup Q) = StubsOf(T, P) \cup StubsOf(T, Q)
        /\ PanicsOf(T, P \cup Q) = PanicsOf(T, P) \cup PanicsOf(T, Q)
    BY DEF StubsOf, PanicsOf
  <2>2. (\A p \in StubsOf(T, P), q \in StubsOf(T, Q) : p < q)
        /\ (\A p \in PanicsOf(T, P), q \in PanicsOf(T, Q) : p < q)
    BY DEF StubsOf, PanicsOf
  <2>3. Lists(m.stubs \o w.stubs, StubsOf(T, P) \cup StubsOf(T, Q))
    BY <1>1, <1>2, <2>2, ListsJoin, Zenon
  <2>4. Lists(m.panics \o w.panics, PanicsOf(T, P) \cup PanicsOf(T, Q))
    BY <1>1, <1>2, <2>2, ListsJoin, Zenon
  <2> QED
    BY <2>1, <2>3, <2>4, Zenon
<1>4. \A c \in E : Operators(T, c) \in Nat
  BY OperatorsType
<1>5. Scored(T, m, v, E)
  <2>1. (\A c \in E : Operators(T, c) <= w.ops) /\ 0 <= w.ops
        /\ \/ w.ops = 0
           \/ /\ w.worst \in E /\ Operators(T, w.worst) = w.ops
              /\ \A c \in E : c < w.worst => Operators(T, c) < w.ops
    BY WalkerTells DEF Scored
  <2>2. m.ops <= v.ops /\ w.ops <= v.ops /\ v.ops \in Nat
    BY <1>1 DEF Larger
  <2>3. \A c \in E : Operators(T, c) <= v.ops
    BY <1>1, <1>4, <2>1, <2>2
  <2>4. CASE w.ops > m.ops
    <3>1. v.ops = w.ops /\ v.worst = w.worst /\ m.ops < v.ops /\ w.ops # 0
      BY <1>1, <2>4 DEF Larger
    <3> QED
      BY <2>1, <2>2, <2>3, <3>1 DEF Scored
  <2>5. CASE ~(w.ops > m.ops)
    <3>1. v.ops = m.ops /\ v.worst = m.worst
      BY <1>1, <2>5 DEF Larger
    <3> QED
      BY <2>2, <2>3, <3>1 DEF Scored
  <2> QED
    BY <2>4, <2>5
<1>6. Scored(T, Walker, v, C \cup E)
  <2> DEFINE u == [Walker EXCEPT !.ops = m.ops, !.worst = m.worst]
             x == [Walker EXCEPT !.ops = v.ops, !.worst = v.worst]
  <2>1. v.ops \in Nat /\ v.worst \in Nat
    BY <1>1 DEF Larger
  <2>2. u \in Walkers /\ u.ops = m.ops /\ u.worst = m.worst
    BY <1>1, WalkerTells, Zenon DEF Walkers
  <2>3. x \in Walkers /\ x.ops = v.ops /\ x.worst = v.worst
    BY <2>1, WalkerTells, Zenon DEF Walkers
  <2> HIDE DEF u, x
  <2>4. Scored(T, Walker, u, C)
    BY <1>2, <2>2, Zenon DEF Scored
  <2>5. Scored(T, u, x, E)
    BY <1>5, <2>2, <2>3 DEF Scored
  <2>6. Scored(T, Walker, x, C \cup E)
    BY <2>2, <2>3, <2>4, <2>5, WalkerTells, ScoredJoin
  <2> QED
    BY <2>3, <2>6 DEF Scored
<1> QED
  BY <1>3, <1>6 DEF Summed

EndOf(T, b, i) == IF i = 0 THEN b ELSE T[T[b].kids[i]].last

(* The statements of a body fill it, one after the other.                  *)
LEMMA EndsTell ==
    ASSUME NEW T, IsTree(T), NEW b \in 1 .. Len(T), NEW i \in 1 .. Len(T[b].kids),
           Forest(T, b + 1, EndOf(T, b, i - 1)), b <= EndOf(T, b, i - 1)
    PROVE  LET s == T[b].kids[i]
           IN /\ EndOf(T, b, i - 1) \in Nat /\ EndOf(T, b, i) \in Nat /\ EndOf(T, b, i) <= Len(T)
              /\ EndOf(T, b, i - 1) <= Len(T) /\ EndOf(T, b, i - 1) < s
              /\ s \in 1 .. Len(T) /\ s <= T[s].last /\ T[s].last = EndOf(T, b, i)
              /\ b <= EndOf(T, b, i) /\ Forest(T, b + 1, EndOf(T, b, i))
              /\ Own(T, b + 1, EndOf(T, b, i)) = Own(T, b + 1, EndOf(T, b, i - 1)) \cup Own(T, s, T[s].last)
<1> DEFINE s == T[b].kids[i]
           d == EndOf(T, b, i - 1)
           e == EndOf(T, b, i)
           L == Len(T[b].kids)
<1>1. /\ b \in Nat /\ T[b].last \in Nat /\ T[b].last <= Len(T) /\ b <= T[b].last /\ Len(T) \in Nat /\ L \in Nat
      /\ \A j \in 1 .. L :
           /\ T[b].kids[j] \in 1 .. Len(T)
           /\ T[T[b].kids[j]].last \in Nat /\ T[b].kids[j] <= T[T[b].kids[j]].last
           /\ T[T[b].kids[j]].last <= T[b].last
           /\ T[b].kids[j] = IF j = 1 THEN b + 1 ELSE T[T[b].kids[j - 1]].last + 1
  <2>1. /\ b \in Nat /\ T[b].last \in Nat /\ T[b].last <= Len(T) /\ b <= T[b].last /\ Len(T) \in Nat /\ L \in Nat
    BY KidsTell
  <2>2. \A j \in 1 .. L :
          /\ T[b].kids[j] \in 1 .. Len(T)
          /\ T[T[b].kids[j]].last \in Nat /\ T[b].kids[j] <= T[T[b].kids[j]].last
          /\ T[T[b].kids[j]].last <= T[b].last
    BY KidsTell
  <2>3. \A j \in 1 .. L : T[b].kids[j] = IF j = 1 THEN b + 1 ELSE T[T[b].kids[j - 1]].last + 1
    <3>1. SUFFICES ASSUME NEW j \in 1 .. L
                   PROVE  T[b].kids[j] = IF j = 1 THEN b + 1 ELSE T[T[b].kids[j - 1]].last + 1
      OBVIOUS
    <3>2. (j = 1 => T[b].kids[j] = b + 1) /\ (j # 1 => T[b].kids[j] = T[T[b].kids[j - 1]].last + 1)
      BY KidTells, Zenon
    <3> QED
      BY <3>2
  <2> QED
    BY <2>1, <2>2, <2>3, Zenon
<1>2. i \in Nat /\ i # 0 /\ (i # 1 => i - 1 \in 1 .. L /\ i - 1 # 0)
  BY <1>1
<1>3. e = T[s].last
  BY <1>2 DEF EndOf
<1>4. /\ s = d + 1 /\ d \in Nat /\ d <= Len(T)
  <2>1. CASE i = 1
    <3>1. d = b
      BY <2>1 DEF EndOf
    <3>2. s = b + 1
      BY <1>1, <2>1
    <3> HIDE DEF s, d
    <3> QED
      BY <1>1, <3>1, <3>2
  <2>2. CASE i # 1
    <3>1. d = T[T[b].kids[i - 1]].last
      BY <1>2, <2>2 DEF EndOf
    <3>2. s = d + 1
      BY <1>1, <2>2, <3>1
    <3>3. d \in Nat /\ d <= T[b].last
      BY <1>1, <1>2, <2>2, <3>1, Zenon
    <3> HIDE DEF s, d
    <3> QED
      BY <1>1, <3>2, <3>3
  <2> QED
    BY <2>1, <2>2
<1>5. s \in 1 .. Len(T) /\ s <= T[s].last /\ T[s].last \in Nat /\ T[s].last <= T[b].last
  BY <1>1, Zenon
<1>6. Forest(T, b + 1, d) /\ b <= d
  OBVIOUS
<1> HIDE DEF s, d, e
<1>7. Forest(T, s, e)
  BY <1>3, <1>5, TreeTells
<1>8. e \in Nat /\ e <= Len(T) /\ d < s /\ d < e /\ b <= e /\ b + 1 <= d + 1 /\ b + 1 \in Nat
  BY <1>1, <1>3, <1>4, <1>5, <1>6
<1>9. Forest(T, b + 1, e)
  <2>1. ASSUME NEW q \in b + 1 .. e
        PROVE  T[q].last \in q .. e /\ \A r \in q .. T[q].last : T[r].last \in r .. T[q].last
    <3>1. q \in b + 1 .. d \/ q \in s .. e
      BY <1>1, <1>4, <1>8
    <3>2. CASE q \in b + 1 .. d
      <4>1. T[q].last \in q .. d /\ \A r \in q .. T[q].last : T[r].last \in r .. T[q].last
        BY <1>6, <3>2 DEF Forest
      <4> QED
        BY <1>1, <1>4, <1>8, <4>1
    <3>3. CASE q \in s .. e
      BY <1>7, <3>3 DEF Forest
    <3> QED
      BY <3>1, <3>2, <3>3
  <2> QED
    BY <1>8, <2>1, Zenon DEF Forest
<1>10. Own(T, b + 1, e) = Own(T, b + 1, d) \cup Own(T, s, e)
  <2> DEFINE a == b + 1
  <2>1. a \in Nat /\ a <= d + 1 /\ d <= e
    BY <1>4, <1>8
  <2>2. Forest(T, a, d)
    BY <1>6
  <2> HIDE DEF a
  <2>3. Own(T, a, e) = Own(T, a, d) \cup Own(T, d + 1, e)
    BY <1>4, <1>8, <2>1, <2>2, ShownSplit DEF Own
  <2> QED
    BY <1>4, <2>3 DEF a
<1> QED
  BY <1>3, <1>4, <1>5, <1>8, <1>9, <1>10 DEF s, d, e

(* What compute has after each statement of a body.                        *)
Gathered(T, b, i, m) ==
    LET kids == T[b].kids IN
    /\ m \in Measures /\ b <= EndOf(T, b, i) /\ Forest(T, b + 1, EndOf(T, b, i))
    /\ Deepest(T, kids, i, m) /\ Lists(m.bumps, Bumping(T, kids, i))
    /\ Summed(T, m, Own(T, b + 1, EndOf(T, b, i)), Judged(T, b + 1, EndOf(T, b, i)))

LEMMA ToldFirst ==
    ASSUME NEW T, IsTree(T), NEW b \in 1 .. Len(T)
    PROVE  Gathered(T, b, 0, Unmeasured)
<1>1. b \in Nat /\ EndOf(T, b, 0) = b /\ b <= b /\ b + 1 .. b = {}
  BY TreeTells DEF EndOf
<1>2. /\ Unmeasured \in Measures /\ Unmeasured.nesting = 0 /\ Unmeasured.nest = <<>> /\ Unmeasured.bumps = <<>>
      /\ Unmeasured.ops = 0 /\ Unmeasured.worst = None /\ Unmeasured.stubs = <<>> /\ Unmeasured.panics = <<>>
  BY NothingListed DEF Unmeasured, Measures, None
<1>3. Own(T, b + 1, b) = {} /\ Judged(T, b + 1, b) = {}
  BY <1>1 DEF Own, Shown, Judged
<1>4. Forest(T, b + 1, b)
  BY <1>1 DEF Forest
<1>5. Deepest(T, T[b].kids, 0, Unmeasured)
  <2>1. \A j \in 1 .. 0 : FALSE
    OBVIOUS
  <2> QED
    BY <1>2, <2>1 DEF Deepest
<1>6. Bumping(T, T[b].kids, 0) = {}
  <2>1. \A j \in 1 .. 0 : FALSE
    OBVIOUS
  <2> QED
    BY <2>1 DEF Bumping
<1>7. Summed(T, Unmeasured, {}, {})
  <2>1. StubsOf(T, {}) = {} /\ PanicsOf(T, {}) = {}
    BY DEF StubsOf, PanicsOf
  <2>2. Scored(T, Walker, Unmeasured, {})
    BY <1>2, WalkerTells DEF Scored
  <2> QED
    BY <1>2, <2>1, <2>2, NothingListed, Zenon DEF Summed
<1> QED
  BY <1>1, <1>2, <1>3, <1>4, <1>5, <1>6, <1>7, NothingListed, Zenon DEF Gathered

LEMMA ToldNext ==
    ASSUME NEW T, IsTree(T), NEW b \in 1 .. Len(T), T[b].kind = "block", NEW i \in 1 .. Len(T[b].kids),
           NEW m, Gathered(T, b, i - 1, m)
    PROVE  LET s == T[b].kids[i] IN Gathered(T, b, i, Add(m, Enter(T, Walk(T), Walker, s), s))
<1> DEFINE kids == T[b].kids
           s == kids[i]
           w == Enter(T, Walk(T), Walker, s)
           v == Add(m, w, s)
           P == Own(T, b + 1, EndOf(T, b, i - 1))
           C == Judged(T, b + 1, EndOf(T, b, i - 1))
           Q == Own(T, s, T[s].last)
           E == Judged(T, s, T[s].last)
           d == EndOf(T, b, i - 1)
           e == EndOf(T, b, i)
<1>1. /\ m \in Measures /\ b <= d /\ Forest(T, b + 1, d) /\ Deepest(T, kids, i - 1, m)
      /\ Lists(m.bumps, Bumping(T, kids, i - 1)) /\ Summed(T, m, P, C)
  BY DEF Gathered
<1>2. /\ d \in Nat /\ e \in Nat /\ e <= Len(T) /\ d <= Len(T) /\ d < s
      /\ s \in 1 .. Len(T) /\ s <= T[s].last /\ T[s].last = e
      /\ b <= e /\ Forest(T, b + 1, e) /\ Own(T, b + 1, e) = P \cup Q
  BY <1>1, EndsTell
<1>3. /\ w \in Walkers /\ w.deepest = Goes(T, s) /\ Goes(T, s) \in Nat /\ Scored(T, Walker, w, E)
      /\ Lists(w.stubs, StubsOf(T, Q)) /\ Lists(w.panics, PanicsOf(T, Q))
  BY StatementWalked
<1>4. Judged(T, b + 1, e) = C \cup E
  BY <1>2, Zenon DEF Judged
<1>5. /\ \A j \in 1 .. i : kids[j] \in Nat /\ Goes(T, kids[j]) \in Nat
      /\ \A j \in 1 .. i - 1 : kids[j] < s
      /\ i \in Nat /\ i > 0 /\ b \in Nat /\ Len(T) \in Nat /\ s \in Nat
  <2>1. Len(kids) \in Nat /\ b \in Nat /\ Len(T) \in Nat
    BY KidsTell
  <2>2. /\ i \in Nat /\ i > 0 /\ (\A j \in 1 .. i : j \in 1 .. Len(kids))
        /\ (\A j \in 1 .. i - 1 : j \in 1 .. Len(kids) /\ j < i)
    BY <2>1
  <2>3. \A j \in 1 .. Len(kids) : kids[j] \in Nat /\ kids[j] <= T[kids[j]].last /\ T[kids[j]].last \in Nat
    BY KidsTell
  <2>4. \A j \in 1 .. Len(kids) : Goes(T, kids[j]) \in Nat
    BY StatementWalked
  <2>5. \A j \in 1 .. i - 1 : kids[j] < s
    <3>1. SUFFICES ASSUME NEW j \in 1 .. i - 1 PROVE kids[j] < s
      OBVIOUS
    <3>2. j \in 1 .. Len(kids) /\ j < i
      BY <2>2
    <3>3. T[kids[j]].last < s
      BY <3>2, KidsInOrder
    <3>4. kids[j] \in Nat /\ kids[j] <= T[kids[j]].last /\ T[kids[j]].last \in Nat /\ s \in Nat
      BY <2>3, <3>2
    <3> HIDE DEF kids, s
    <3> QED
      BY <3>3, <3>4
  <2> QED
    BY <2>1, <2>2, <2>3, <2>4, <2>5
<1>6. /\ P \in SUBSET (1 .. Len(T)) /\ C \in SUBSET (1 .. Len(T))
      /\ (\A p \in P : p \in Nat /\ p <= d) /\ (\A p \in C : p \in Nat /\ p <= d)
  <2> DEFINE a == b + 1
  <2>1. a \in Nat /\ 1 <= a
    BY <1>5
  <2> HIDE DEF a, d
  <2>2. /\ Own(T, a, d) \in SUBSET (1 .. Len(T)) /\ Judged(T, a, d) \in SUBSET (1 .. Len(T))
        /\ (\A p \in Own(T, a, d) : p \in Nat /\ p <= d)
        /\ (\A p \in Judged(T, a, d) : p \in Nat /\ p <= d)
    BY <1>2, <2>1, OwnType, Zenon
  <2> QED
    BY <2>2 DEF a, d
<1>7. /\ Q \in SUBSET (1 .. Len(T)) /\ E \in SUBSET (1 .. Len(T))
      /\ (\A p \in Q : p \in Nat /\ s <= p) /\ (\A p \in E : p \in Nat /\ s <= p)
  <2> DEFINE f == T[s].last
  <2>1. f \in Nat /\ f <= Len(T) /\ 1 <= s
    <3> HIDE DEF s
    <3> QED
      BY <1>2, <1>5
  <2> HIDE DEF s, f
  <2>2. /\ Own(T, s, f) \in SUBSET (1 .. Len(T)) /\ Judged(T, s, f) \in SUBSET (1 .. Len(T))
        /\ (\A p \in Own(T, s, f) : p \in Nat /\ s <= p) /\ (\A p \in Judged(T, s, f) : p \in Nat /\ s <= p)
    BY <1>5, <2>1, OwnType
  <2> QED
    BY <2>2 DEF f
<1> HIDE DEF kids, w, v, P, C, Q, E, d, e
<1>8. (\A p \in P, q \in Q : p < q) /\ (\A p \in C, q \in E : p < q)
  <2> HIDE DEF s
  <2> QED
    BY <1>2, <1>5, <1>6, <1>7
<1>9. /\ v \in Measures /\ v.nesting = Larger(m.nesting, Goes(T, s))
      /\ v.nest = (IF Goes(T, s) > m.nesting THEN <<s>> ELSE m.nest)
      /\ v.bumps = (IF Goes(T, s) >= 2 THEN Append(m.bumps, s) ELSE m.bumps)
      /\ v.ops = Larger(m.ops, w.ops) /\ v.worst = (IF w.ops > m.ops THEN w.worst ELSE m.worst)
      /\ v.stubs = m.stubs \o w.stubs /\ v.panics = m.panics \o w.panics
      /\ m.nesting \in Nat /\ m.bumps \in Seq(Nat)
  <2> DEFINE g == Goes(T, s)
  <2>1. m \in Measures /\ w \in Walkers /\ s \in Nat /\ w.deepest = g /\ g \in Nat
    BY <1>1, <1>3, <1>5
  <2> HIDE DEF s, g
  <2>2. /\ v \in Measures /\ v.nesting = Larger(m.nesting, g)
        /\ v.nest = (IF g > m.nesting THEN <<s>> ELSE m.nest)
        /\ v.bumps = (IF g >= 2 THEN Append(m.bumps, s) ELSE m.bumps)
        /\ v.ops = Larger(m.ops, w.ops) /\ v.worst = (IF w.ops > m.ops THEN w.worst ELSE m.worst)
        /\ v.stubs = m.stubs \o w.stubs /\ v.panics = m.panics \o w.panics
    <3>1. /\ v \in Measures /\ v.nesting = Larger(m.nesting, w.deepest)
          /\ v.nest = (IF w.deepest > m.nesting THEN <<s>> ELSE m.nest)
          /\ v.bumps = (IF w.deepest >= 2 THEN Append(m.bumps, s) ELSE m.bumps)
          /\ v.ops = Larger(m.ops, w.ops) /\ v.worst = (IF w.ops > m.ops THEN w.worst ELSE m.worst)
          /\ v.stubs = m.stubs \o w.stubs /\ v.panics = m.panics \o w.panics
      <4>1. v \in Measures
        <5>1. m \in Measures /\ w \in Walkers /\ s \in Nat /\ w.deepest \in Nat
          BY <2>1
        <5> QED
          BY <5>1, MeasuresType, Zenon DEF v
      <4>2. /\ v.nesting = Larger(m.nesting, w.deepest)
            /\ v.nest = (IF w.deepest > m.nesting THEN <<s>> ELSE m.nest)
            /\ v.bumps = (IF w.deepest >= 2 THEN Append(m.bumps, s) ELSE m.bumps)
            /\ v.ops = Larger(m.ops, w.ops) /\ v.worst = (IF w.ops > m.ops THEN w.worst ELSE m.worst)
            /\ v.stubs = m.stubs \o w.stubs /\ v.panics = m.panics \o w.panics
        BY Zenon DEF v, Add
      <4> QED
        BY <4>1, <4>2
    <3> QED
      BY <2>1, <3>1, Zenon
  <2>3. m.nesting \in Nat /\ m.bumps \in Seq(Nat)
    BY <2>1, MeasuresType, Zenon
  <2> QED
    BY <2>2, <2>3 DEF g
<1>10. Deepest(T, kids, i, v)
  BY <1>1, <1>5, <1>9, DeepestMore, Zenon
<1>11. Lists(v.bumps, Bumping(T, kids, i))
  BY <1>1, <1>5, <1>9, BumpsMore, Zenon
<1>12. Summed(T, v, P \cup Q, C \cup E)
  BY <1>1, <1>3, <1>6, <1>7, <1>8, <1>9, SummedMore, Zenon
<1>13. Gathered(T, b, i, v)
  BY <1>2, <1>4, <1>9, <1>10, <1>11, <1>12, Zenon DEF Gathered, kids, e
<1> QED
  BY <1>13 DEF v, w, kids

(* signals::compute, over the whole body.                                  *)
LEMMA SignalsTold ==
    ASSUME NEW T, IsTree(T), NEW b \in 1 .. Len(T), T[b].kind = "block"
    PROVE  Gathered(T, b, Len(T[b].kids), Signals(T, b))
<1> DEFINE kids == T[b].kids
           upto == Upto(T, kids)
           G == {i \in Nat : i <= Len(kids) => Gathered(T, b, i, upto[i])}
<1>1. Len(kids) \in Nat
  BY KidsTell
<1>2. /\ Signals(T, b) = upto[Len(kids)] /\ upto[0] = Unmeasured
      /\ \A i \in 1 .. Len(kids) : upto[i] = Add(upto[i - 1], Enter(T, Walk(T), Walker, kids[i]), kids[i])
  BY <1>1, UptoIsUpto
<1> HIDE DEF upto
<1>3. 0 \in G
  BY <1>2, ToldFirst
<1>4. ASSUME NEW i \in Nat, i \in G
      PROVE  i + 1 \in G
  <2>1. SUFFICES ASSUME i + 1 <= Len(kids) PROVE Gathered(T, b, i + 1, upto[i + 1])
    OBVIOUS
  <2> DEFINE n == i + 1
  <2>2. n \in 1 .. Len(kids) /\ n - 1 = i /\ i <= Len(kids)
    BY <1>1, <2>1
  <2>3. Gathered(T, b, n - 1, upto[n - 1])
    BY <1>4, <2>2
  <2> HIDE DEF n
  <2>4. Gathered(T, b, n, upto[n])
    BY <1>2, <2>2, <2>3, ToldNext
  <2> QED
    BY <2>4 DEF n
<1> HIDE DEF G
<1>5. Len(kids) \in G
  BY <1>1, <1>3, <1>4, FromZero, Zenon
<1> QED
  BY <1>1, <1>2, <1>5 DEF G

(* What of a function's body its signals are about.                        *)
LEMMA WholeBody ==
    ASSUME NEW T, IsTree(T), NEW f \in 1 .. Len(T), T[f].kind \in Callables, HasBody(T, f)
    PROVE  LET b == Body(T, f)
               own == Own(T, b + 1, EndOf(T, b, Len(T[b].kids)))
           IN /\ b \in 1 .. Len(T) /\ T[b].kind = "block"
              /\ Scope(T, b, Items) = {b} \cup own
              /\ Conditions(T) \cap Scope(T, b, Items) = Judged(T, b + 1, EndOf(T, b, Len(T[b].kids)))
              /\ ~Stubs(T[b]) /\ ~Panics(T[b])
<1> DEFINE b == Body(T, f)
           n == Len(T[f].kids)
           e == EndOf(T, b, Len(T[b].kids))
<1>1. n \in 1 .. n /\ b = T[f].kids[n]
  <2>1. n \in Nat /\ T[f].kids # <<>> /\ (n = 0 <=> T[f].kids = <<>>)
    BY KidsTell DEF HasBody
  <2>2. n # 0
    BY <2>1
  <2>3. Last(T[f].kids) = T[f].kids[n]
    BY DEF Last
  <2> HIDE DEF n
  <2> QED
    BY <2>1, <2>2, <2>3 DEF Body
<1>2. b \in 1 .. Len(T)
  BY <1>1, KidsTell
<1>3. b \notin Conditions(T)
  <2>1. ~IsCondition(T[f], n)
    BY DEF IsCondition, Callables
  <2> QED
    BY <1>1, <2>1, KidsPart
<1>4. T[b].kind = "block"
  BY DEF HasBody
<1> HIDE DEF b
<1>5. e = T[b].last
  <2> DEFINE m == Len(T[b].kids)
  <2>1. /\ m \in Nat /\ (m = 0 => T[b].last = b)
        /\ \A i \in 1 .. m : i = m => T[T[b].kids[i]].last = T[b].last
    <3>1. m \in Nat
      BY <1>2, KidsTell
    <3>2. m = 0 => T[b].last = b
      BY <1>2, KidsTell
    <3>3. \A i \in 1 .. m : i = m => T[T[b].kids[i]].last = T[b].last
      BY <1>2, KidTells, Zenon
    <3> QED
      BY <3>1, <3>2, <3>3
  <2> HIDE DEF m
  <2>2. CASE m = 0
    BY <2>1, <2>2 DEF EndOf, m
  <2>3. CASE m # 0
    <3>1. m \in 1 .. m
      BY <2>1, <2>3
    <3> QED
      BY <2>1, <2>3, <3>1 DEF EndOf, m
  <2> QED
    BY <2>2, <2>3
<1> HIDE DEF e
<1>6. T[b].kind \notin Items
  BY <1>4 DEF Items
<1>7. Scope(T, b, Items) = Own(T, b, e)
  <2>1. b \in DOMAIN T
    BY <1>2, TreeTells
  <2> QED
    BY <1>5, <2>1, ScopeIsShown DEF Own
<1>8. Own(T, b, e) = {b} \cup Own(T, b + 1, e)
  BY <1>2, <1>5, <1>6, OwnStep, Zenon
<1>9. Conditions(T) \cap Own(T, b, e) = Judged(T, b + 1, e)
  BY <1>3, <1>8 DEF Judged
<1>10. ~Stubs(T[b]) /\ ~Panics(T[b])
  BY <1>4 DEF Stubs, Panics, Unwraps
<1> QED
  BY <1>2, <1>4, <1>7, <1>8, <1>9, <1>10 DEF b, e

NestsTo(T, stmts, m) ==
    LET reach == [i \in DOMAIN stmts |->
                    Max({0} \cup {Depth(T, Bodies(T), stmts[i], p) : p \in Scope(T, stmts[i], Items)})]
        deepest == Max({0} \cup ToSet(reach))
        first == {i \in DOMAIN stmts : reach[i] = deepest /\ \A j \in 1 .. i - 1 : reach[j] < deepest}
    IN /\ m.nesting = deepest
       /\ Lists(m.bumps, {stmts[i] : i \in {j \in DOMAIN stmts : reach[j] >= 2}})
       /\ Lists(m.nest, IF deepest = 0 THEN {} ELSE {stmts[i] : i \in first})

LEMMA NestingTold ==
    ASSUME NEW T, NEW stmts, NEW m, DOMAIN stmts = 1 .. Len(stmts), Len(stmts) \in Nat,
           \A i \in 1 .. Len(stmts) : stmts[i] \in Nat /\ Goes(T, stmts[i]) \in Nat,
           Deepest(T, stmts, Len(stmts), m), m.nesting \in Nat, Lists(m.bumps, Bumping(T, stmts, Len(stmts)))
    PROVE  NestsTo(T, stmts, m)
<1> DEFINE L == Len(stmts)
           reach == [i \in DOMAIN stmts |->
                       Max({0} \cup {Depth(T, Bodies(T), stmts[i], p) : p \in Scope(T, stmts[i], Items)})]
           deepest == Max({0} \cup ToSet(reach))
           first == {i \in DOMAIN stmts : reach[i] = deepest /\ \A j \in 1 .. i - 1 : reach[j] < deepest}
           d == m.nesting
<1>1. L \in Nat /\ DOMAIN stmts = 1 .. L /\ DOMAIN reach = 1 .. L
  OBVIOUS
<1>2. \A i \in 1 .. L : reach[i] = Goes(T, stmts[i])
  BY <1>1 DEF Goes
<1> HIDE DEF reach, deepest
<1>3. \A i \in 1 .. L : reach[i] \in Nat
  BY <1>2
<1>4. \A i \in 1 .. L : reach[i] <= d
  BY <1>2 DEF Deepest
<1>5. \/ d = 0 /\ m.nest = <<>>
      \/ d > 0 /\ \E j \in 1 .. L : /\ reach[j] = d /\ m.nest = <<stmts[j]>>
                                    /\ \A l \in 1 .. j - 1 : reach[l] < d
  <2>1. ASSUME NEW j \in 1 .. L, \A l \in 1 .. j - 1 : Goes(T, stmts[l]) < d
        PROVE  \A l \in 1 .. j - 1 : reach[l] < d
    <3>1. \A l \in 1 .. j - 1 : l \in 1 .. L
      BY <1>1
    <3> QED
      BY <1>2, <2>1, <3>1
  <2>2. \/ d = 0 /\ m.nest = <<>>
        \/ d > 0 /\ \E j \in 1 .. L : /\ Goes(T, stmts[j]) = d /\ m.nest = <<stmts[j]>>
                                      /\ \A l \in 1 .. j - 1 : Goes(T, stmts[l]) < d
    BY DEF Deepest
  <2> QED
    BY <1>2, <2>1, <2>2, Zenon
<1> HIDE DEF d
<1>6. d \in Nat
  BY DEF d
<1>7. deepest = d
  <2> DEFINE S == {0} \cup ToSet(reach)
  <2>1. ToSet(reach) = {reach[i] : i \in 1 .. L}
    BY <1>1 DEF ToSet
  <2>2. S \in SUBSET Int /\ \A x \in S : x <= d
    BY <1>3, <1>4, <1>6, <2>1
  <2>3. d \in S
    BY <1>5, <2>1
  <2> HIDE DEF S
  <2>4. Max(S) = d
    BY <2>2, <2>3, MaxIs
  <2> QED
    BY <2>4 DEF deepest, S
<1>8. Lists(m.bumps, {stmts[i] : i \in {j \in DOMAIN stmts : reach[j] >= 2}})
  <2>1. {stmts[i] : i \in {j \in DOMAIN stmts : reach[j] >= 2}} = Bumping(T, stmts, L)
    BY <1>1, <1>2, Zenon DEF Bumping
  <2> QED
    BY <2>1, Zenon
<1>9. Lists(m.nest, IF d = 0 THEN {} ELSE {stmts[i] : i \in first})
  <2>1. CASE d = 0
    BY <1>5, <2>1, NothingListed
  <2>2. CASE d > 0
    <3>1. PICK j \in 1 .. L : /\ reach[j] = d /\ m.nest = <<stmts[j]>>
                              /\ \A l \in 1 .. j - 1 : reach[l] < d
      BY <1>5, <2>2
    <3>2. j \in first
      BY <1>1, <1>7, <3>1
    <3>3. ASSUME NEW i \in first PROVE i = j
      <4>1. i \in 1 .. L /\ reach[i] = d /\ \A l \in 1 .. i - 1 : reach[l] < d
        BY <1>1, <1>7
      <4>2. ~(i < j)
        <5>1. i < j => i \in 1 .. j - 1
          BY <1>1, <4>1
        <5> QED
          BY <1>6, <3>1, <4>1, <5>1
      <4>3. ~(j < i)
        <5>1. j < i => j \in 1 .. i - 1
          BY <1>1, <4>1
        <5> QED
          BY <1>6, <3>1, <4>1, <5>1
      <4> QED
        BY <1>1, <4>1, <4>2, <4>3
    <3> HIDE DEF first
    <3>4. {stmts[i] : i \in first} = {stmts[j]}
      BY <3>2, <3>3
    <3>5. Lists(<<stmts[j]>>, {stmts[j]})
      BY OneListed
    <3>6. d # 0
      BY <2>2
    <3> QED
      BY <3>1, <3>4, <3>5, <3>6, Zenon
  <2> QED
    BY <1>5, <2>1, <2>2
<1>10. m.nesting = deepest
  BY <1>7 DEF d
<1> QED
  BY <1>7, <1>8, <1>9, <1>10 DEF NestsTo, deepest, reach

WorstFirst(T, m, C) ==
    LET most == Max({0} \cup {Operators(T, c) : c \in C})
        worst == {c \in C : Operators(T, c) = most /\ \A d \in C : Operators(T, d) = most => c <= d}
    IN m.ops = most /\ {m.worst} = IF most = 0 THEN {None} ELSE worst

LEMMA WorstTold ==
    ASSUME NEW T, IsTree(T), NEW C \in SUBSET (1 .. Len(T)), NEW m, m.ops \in Nat, Scored(T, Walker, m, C)
    PROVE  WorstFirst(T, m, C)
<1> DEFINE most == Max({0} \cup {Operators(T, c) : c \in C})
           worst == {c \in C : Operators(T, c) = most /\ \A d \in C : Operators(T, d) = most => c <= d}
           n == m.ops
           g(c) == Operators(T, c)
<1>1. \A c \in C : g(c) \in Nat /\ c \in Nat
  <2>1. \A c \in C : c \in 1 .. Len(T)
    OBVIOUS
  <2>2. \A c \in C : c \in Nat
    BY <2>1, TreeTells
  <2> QED
    BY <2>1, <2>2, OperatorsType
<1>2. /\ \A c \in C : g(c) <= n
      /\ \/ n = 0 /\ m.worst = None
         \/ 0 < n /\ m.worst \in C /\ g(m.worst) = n /\ \A c \in C : c < m.worst => g(c) < n
  BY WalkerTells DEF Scored
<1>3. n \in Nat
  OBVIOUS
<1> HIDE DEF g, n
<1>4. most = n
  <2> DEFINE S == {0} \cup {g(c) : c \in C}
  <2>1. S \in SUBSET Int /\ n \in S /\ \A x \in S : x <= n
    <3>1. \A x \in S : x = 0 \/ \E c \in C : x = g(c)
      OBVIOUS
    <3>2. \A x \in S : x \in Int /\ x <= n
      BY <1>1, <1>2, <1>3, <3>1
    <3>3. n \in S
      BY <1>2, Zenon
    <3> QED
      BY <3>2, <3>3, Zenon
  <2> HIDE DEF S
  <2>2. Max(S) = n
    BY <2>1, MaxIs
  <2> QED
    BY <2>2 DEF S, g
<1>5. worst = {c \in C : g(c) = n /\ \A d \in C : g(d) = n => c <= d}
  BY <1>4, Zenon DEF g
<1> HIDE DEF most, worst
<1>6. (n = 0 => {m.worst} = {None}) /\ (n # 0 => {m.worst} = worst)
  <2>1. n = 0 => {m.worst} = {None}
    BY <1>2
  <2>2. ASSUME n # 0 PROVE {m.worst} = worst
    <3> DEFINE w == m.worst
    <3>1. w \in C /\ g(w) = n /\ \A c \in C : c < w => g(c) < n
      BY <1>2, <2>2
    <3> HIDE DEF w
    <3>2. \A d \in C : g(d) = n => w <= d
      BY <1>1, <1>3, <3>1
    <3>3. \A c \in worst : c = w
      <4>1. SUFFICES ASSUME NEW c \in worst PROVE c = w
        OBVIOUS
      <4>2. c \in C /\ w <= c /\ c <= w
        BY <1>5, <3>1, <3>2
      <4> QED
        BY <1>1, <3>1, <4>2
    <3>4. w \in worst
      BY <1>5, <3>1, <3>2
    <3>5. {w} = worst
      BY <3>3, <3>4
    <3> QED
      BY <3>5 DEF w
  <2> QED
    BY <2>1, <2>2
<1> QED
  BY <1>4, <1>6, Zenon DEF WorstFirst, most, worst, n

(* The signals of one function are all its own.                            *)
LEMMA SignalsTell ==
    ASSUME NEW T, IsTree(T), NEW f \in 1 .. Len(T), T[f].kind \in Callables, HasBody(T, f)
    PROVE  LET b == Body(T, f)
               signals == Signals(T, b)
               scope == Scope(T, b, Items)
           IN /\ NestsTo(T, T[b].kids, signals)
              /\ WorstFirst(T, signals, Conditions(T) \cap scope)
              /\ Lists(signals.stubs, {p \in scope : Stubs(T[p])})
              /\ Lists(signals.panics, {p \in scope : Panics(T[p])})
<1> DEFINE b == Body(T, f)
           m == Signals(T, b)
           stmts == T[b].kids
           scope == Scope(T, b, Items)
           own == Own(T, b + 1, EndOf(T, b, Len(stmts)))
           C == Conditions(T) \cap scope
<1>1. /\ b \in 1 .. Len(T) /\ T[b].kind = "block" /\ scope = {b} \cup own
      /\ C = Judged(T, b + 1, EndOf(T, b, Len(stmts))) /\ ~Stubs(T[b]) /\ ~Panics(T[b])
  BY WholeBody
<1> HIDE DEF b
<1>2. Gathered(T, b, Len(stmts), m)
  BY <1>1, SignalsTold
<1> HIDE DEF m, own
<1>3. m \in Measures /\ Deepest(T, stmts, Len(stmts), m) /\ Lists(m.bumps, Bumping(T, stmts, Len(stmts)))
      /\ Summed(T, m, own, C)
  BY <1>1, <1>2, Zenon DEF Gathered, own
<1>4. m.nesting \in Nat /\ m.ops \in Nat
  BY <1>3 DEF Measures
<1>5. DOMAIN stmts = 1 .. Len(stmts) /\ Len(stmts) \in Nat
  BY <1>1, KidsTell
<1>6. \A i \in 1 .. Len(stmts) : stmts[i] \in Nat /\ Goes(T, stmts[i]) \in Nat
  BY <1>1, KidsTell, StatementWalked
<1>7. C \in SUBSET (1 .. Len(T))
  <2>1. DOMAIN T = 1 .. Len(T) /\ Len(T) \in Nat /\ T[b].last \in b .. Len(T)
    BY <1>1, TreeTells, Zenon
  <2>2. b .. T[b].last \subseteq 1 .. Len(T)
    BY <1>1, <2>1
  <2> QED
    BY <2>2 DEF Scope
<1>8. /\ {p \in scope : Stubs(T[p])} = StubsOf(T, own) /\ {p \in scope : Panics(T[p])} = PanicsOf(T, own)
  BY <1>1 DEF StubsOf, PanicsOf
<1>9. Lists(m.stubs, StubsOf(T, own)) /\ Lists(m.panics, PanicsOf(T, own)) /\ Scored(T, Walker, m, C)
  BY <1>3 DEF Summed
<1> HIDE DEF C, stmts, scope
<1>10. NestsTo(T, stmts, m)
  BY <1>3, <1>4, <1>5, <1>6, NestingTold, Zenon
<1>11. WorstFirst(T, m, C)
  BY <1>4, <1>7, <1>9, WorstTold
<1>12. Lists(m.stubs, {p \in scope : Stubs(T[p])}) /\ Lists(m.panics, {p \in scope : Panics(T[p])})
  BY <1>8, <1>9, Zenon
<1> QED
  BY <1>10, <1>11, <1>12 DEF b, m, stmts, scope, C

(* Over one walk of each statement of a function, its nesting, its bumps,  *)
(* its worst condition and its sites are those of its own code, for every  *)
(* tree, however bodies, conditions, closures and items nest in it.        *)
THEOREM SignalsAlwaysExact == Spec => []SignalsExact
<1>1. IInv => SignalsExact
  <2>1. ASSUME IInv, NEW e \in Measured
        PROVE  LET T == Tree(e)
                   f == e.at
               IN /\ IsTree(T) /\ f \in 1 .. Len(T) /\ T[f].kind \in Callables /\ HasBody(T, f)
                  /\ BodyOf(e) = Body(T, f) /\ e.signals = Signals(T, Body(T, f))
    <3>1. IsInput(input) /\ e \in Entries(input)
      BY <2>1, MeasuredAre
    <3> DEFINE T == Tree(e)
    <3>2. /\ IsTree(T) /\ e.at \in DOMAIN T /\ T[e.at].kind \in Callables /\ HasBody(T, e.at)
          /\ e.signals = Signals(T, BodyOf(e))
      BY <3>1, EntriesAre
    <3>3. BodyOf(e) = Body(T, e.at)
      BY DEF BodyOf
    <3> HIDE DEF T
    <3>4. DOMAIN T = 1 .. Len(T)
      BY <3>2, TreeTells
    <3> QED
      BY <3>2, <3>3, <3>4 DEF T
  <2>2. IInv => NestingIsDepth
    <3>1. IInv => \A e \in Measured : NestsTo(Tree(e), Tree(e)[BodyOf(e)].kids, e.signals)
      BY <2>1, SignalsTell, Zenon
    <3> QED
      BY <3>1, Zenon DEF NestingIsDepth, NestsTo
  <2>3. IInv => WorstConditionFirst
    <3>1. IInv => \A e \in Measured :
                    WorstFirst(Tree(e), e.signals, Conditions(Tree(e)) \cap Scope(Tree(e), BodyOf(e), Items))
      BY <2>1, SignalsTell, Zenon
    <3> QED
      BY <3>1, Zenon DEF WorstConditionFirst, WorstFirst
  <2>4. IInv => SitesOnce
    <3> SUFFICES ASSUME IInv, NEW e \in Measured
                 PROVE  LET T == Tree(e)
                            scope == Scope(T, BodyOf(e), Items)
                        IN /\ Lists(e.signals.stubs, {p \in scope : Stubs(T[p])})
                           /\ Lists(e.signals.panics, {p \in scope : Panics(T[p])})
      BY Zenon DEF SitesOnce
    <3> QED
      BY <2>1, SignalsTell, Zenon
  <2> QED
    BY <2>2, <2>3, <2>4 DEF SignalsExact
<1> QED
  BY <1>1, Invariance, PTL

=============================================================================
