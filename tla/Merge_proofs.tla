---------------------------- MODULE Merge_proofs ----------------------------
(***************************************************************************)
(* Proofs about Merge: a look-up never has a choice, the diagnostics say   *)
(* which spellings and which files have no counterpart, and the rows tell  *)
(* what the report says of their functions' lines.                         *)
(***************************************************************************)
EXTENDS Merge, FiniteSetTheorems, SequenceTheorems, WellFoundedInduction,
        TLAPS

-----------------------------------------------------------------------------
(* Numbers and sums *)

(* What holds of 0 and of the next number holds of every number: sets of   *)
(* naturals stand in for the induction rule's predicate.                   *)
LEMMA FromZero ==
    ASSUME NEW G, 0 \in G, \A n \in Nat : n \in G => n + 1 \in G
    PROVE  Nat \subseteq G
<1> DEFINE Less == OpToRel(<, Nat)
           Bad == Nat \ G
<1>1. IsWellFoundedOn(Less, Nat)
  BY NatLessThanWellFounded
<1>2. \A x, y \in Nat : x < y => <<x, y>> \in Less
  BY DEF OpToRel
<1> HIDE DEF Less
<1>3. SUFFICES ASSUME Bad # {}
               PROVE  FALSE
  OBVIOUS
<1>4. PICK u \in Bad : \A v \in Bad : <<v, u>> \notin Less
  <2>1. Bad \subseteq Nat
    OBVIOUS
  <2>2. QED
    BY <1>1, <1>3, <2>1, WFMin
<1>5. u \in Nat /\ u # 0
  OBVIOUS
<1>6. u - 1 \in Nat /\ u - 1 < u /\ (u - 1) + 1 = u
  BY <1>5
<1>7. u - 1 \in G
  BY <1>2, <1>4, <1>5, <1>6
<1>8. QED
  BY <1>4, <1>6, <1>7

-----------------------------------------------------------------------------
(* Sums over finite sets *)

(* The running totals of the subsets of a set, as the fold adds them up.   *)
Chosen(s) == CHOOSE x \in s : TRUE
Step(f, g, s) == IF s = {} THEN 0 ELSE f[Chosen(s)] + g[s \ {Chosen(s)}]
IsTally(g, f, S) == g = [s \in SUBSET S |-> Step(f, g, s)]

(* The element the fold takes first is one of the set.                     *)
LEMMA ChosenIn == \A s : s # {} => Chosen(s) \in s
BY DEF Chosen

(* The sum over a set is what its running totals end with ...              *)
LEMMA SumIsTally ==
    ASSUME NEW f, NEW S, \E g : IsTally(g, f, S)
    PROVE  \E g : IsTally(g, f, S) /\ SumFunctionOnSet(f, S) = g[S]
<1> DEFINE g == CHOOSE g : IsTally(g, f, S)
<1>1. IsTally(g, f, S)
  OBVIOUS
<1>2. SumFunctionOnSet(f, S) = g[S]
  BY DEF SumFunctionOnSet, FoldFunctionOnSet, MapThenFoldSet, IsTally, Step, Chosen
<1>3. QED
  BY <1>1, <1>2

(* ... which there are for any finite set ...                              *)
LEMMA TallyExists ==
    ASSUME NEW f, NEW S, IsFiniteSet(S)
    PROVE  \E g : IsTally(g, f, S)
<1> DEFINE Upto(g, n) == \A s \in SUBSET S : Cardinality(s) <= n => g[s] = Step(f, g, s)
           G == {n \in Nat : \E g : Upto(g, n)}
<1>1. \A s \in SUBSET S : IsFiniteSet(s) /\ Cardinality(s) \in Nat
  BY FS_Subset, FS_CardinalityType
<1>2. 0 \in G
  <2> DEFINE z == [s \in SUBSET S |-> 0]
  <2>1. \A s \in SUBSET S : Cardinality(s) <= 0 => s = {}
    BY <1>1, FS_EmptySet
  <2>2. Upto(z, 0)
    BY <2>1 DEF Step
  <2>3. QED
    BY <2>2
<1>3. ASSUME NEW n \in Nat, n \in G
      PROVE  n + 1 \in G
  <2>1. PICK g : Upto(g, n)
    BY <1>3
  <2> DEFINE h == [s \in SUBSET S |-> Step(f, g, s)]
  <2>2. \A s \in SUBSET S : Cardinality(s) <= n => h[s] = g[s]
    BY <2>1
  <2>3. ASSUME NEW s \in SUBSET S, Cardinality(s) <= n + 1
        PROVE  h[s] = Step(f, h, s)
    <3>1. CASE s = {}
      BY <3>1 DEF Step
    <3>2. CASE s # {}
      <4>1. Chosen(s) \in s
        BY <3>2, ChosenIn
      <4>2. Cardinality(s \ {Chosen(s)}) = Cardinality(s) - 1
        BY <1>1, <4>1, FS_RemoveElement
      <4>3. Cardinality(s \ {Chosen(s)}) <= n /\ s \ {Chosen(s)} \in SUBSET S
        BY <1>1, <2>3, <4>2
      <4>4. h[s \ {Chosen(s)}] = g[s \ {Chosen(s)}]
        BY <2>2, <4>3
      <4>5. h[s] = Step(f, g, s)
        OBVIOUS
      <4> HIDE DEF h
      <4>6. QED
        BY <3>2, <4>4, <4>5 DEF Step
    <3>3. QED
      BY <3>1, <3>2
  <2>4. Upto(h, n + 1)
    BY <2>3
  <2>5. \E k : Upto(k, n + 1)
    <3> HIDE DEF Upto, h
    <3>1. QED
      BY <2>4
  <2>6. QED
    BY <2>5
<1>4. Cardinality(S) \in G
  <2> HIDE DEF G
  <2>1. Nat \subseteq G
    BY <1>2, <1>3, FromZero
  <2>2. QED
    BY <1>1, <2>1
<1>5. PICK g : Upto(g, Cardinality(S))
  BY <1>4
<1>6. \A s \in SUBSET S : g[s] = Step(f, g, s)
  BY <1>5, FS_Subset
<1> DEFINE h == [s \in SUBSET S |-> g[s]]
<1>7. \A s \in SUBSET S : Step(f, h, s) = Step(f, g, s)
  BY ChosenIn DEF Step
<1>8. IsTally(h, f, S)
  <2>1. h = [s \in SUBSET S |-> Step(f, h, s)]
    BY <1>6, <1>7
  <2>2. QED
    BY <2>1 DEF IsTally
<1>9. QED
  BY <1>8

(* ... and which are the same wherever what they add up is.                *)
LEMMA TallyAgrees ==
    ASSUME NEW f, NEW S, NEW g, IsTally(g, f, S),
           NEW e, NEW T, NEW h, IsTally(h, e, T),
           NEW U, IsFiniteSet(U), U \subseteq S, U \subseteq T,
           \A x \in U : f[x] = e[x]
    PROVE  g[U] = h[U]
<1> DEFINE G == {n \in Nat : \A s \in SUBSET U : Cardinality(s) <= n => g[s] = h[s]}
<1>1. \A s \in SUBSET U : IsFiniteSet(s) /\ Cardinality(s) \in Nat
  BY FS_Subset, FS_CardinalityType
<1>2. \A s \in SUBSET U : g[s] = Step(f, g, s) /\ h[s] = Step(e, h, s)
  BY DEF IsTally
<1>3. 0 \in G
  <2>1. \A s \in SUBSET U : Cardinality(s) <= 0 => s = {}
    BY <1>1, FS_EmptySet
  <2>2. QED
    BY <1>2, <2>1 DEF Step
<1>4. ASSUME NEW n \in Nat, n \in G
      PROVE  n + 1 \in G
  <2>1. ASSUME NEW s \in SUBSET U, Cardinality(s) <= n + 1
        PROVE  g[s] = h[s]
    <3>1. CASE s = {}
      BY <1>2, <3>1 DEF Step
    <3>2. CASE s # {}
      <4>1. Chosen(s) \in s
        BY <3>2, ChosenIn
      <4>2. Cardinality(s \ {Chosen(s)}) = Cardinality(s) - 1
        BY <1>1, <4>1, FS_RemoveElement
      <4>3. Cardinality(s \ {Chosen(s)}) <= n /\ s \ {Chosen(s)} \in SUBSET U
        BY <1>1, <2>1, <4>2
      <4>4. g[s \ {Chosen(s)}] = h[s \ {Chosen(s)}]
        BY <1>4, <4>3
      <4>5. f[Chosen(s)] = e[Chosen(s)]
        BY <4>1
      <4>6. QED
        BY <1>2, <3>2, <4>4, <4>5 DEF Step
    <3>3. QED
      BY <3>1, <3>2
  <2>2. QED
    BY <2>1
<1>5. Cardinality(U) \in G
  <2> HIDE DEF G
  <2>1. Nat \subseteq G
    BY <1>3, <1>4, FromZero
  <2>2. QED
    BY <1>1, <2>1
<1>6. QED
  BY <1>1, <1>5

(* A sum is about what is summed up. *)
LEMMA SumAgrees ==
    ASSUME NEW f, NEW g, NEW S, IsFiniteSet(S), \A x \in S : f[x] = g[x]
    PROVE  SumFunctionOnSet(f, S) = SumFunctionOnSet(g, S)
<1>1. PICK t : IsTally(t, f, S) /\ SumFunctionOnSet(f, S) = t[S]
  BY TallyExists, SumIsTally
<1>2. PICK u : IsTally(u, g, S) /\ SumFunctionOnSet(g, S) = u[S]
  BY TallyExists, SumIsTally
<1>3. t[S] = u[S]
  BY <1>1, <1>2, TallyAgrees
<1>4. QED
  BY <1>1, <1>2, <1>3

(* A sum is that of the rest and the element taken first.                  *)
LEMMA SumStep ==
    ASSUME NEW f, NEW S, IsFiniteSet(S)
    PROVE  SumFunctionOnSet(f, S) =
             IF S = {} THEN 0 ELSE f[Chosen(S)] + SumFunctionOnSet(f, S \ {Chosen(S)})
<1> DEFINE T == S \ {Chosen(S)}
<1>1. PICK t : IsTally(t, f, S) /\ SumFunctionOnSet(f, S) = t[S]
  BY TallyExists, SumIsTally
<1>2. t[S] = Step(f, t, S)
  BY <1>1 DEF IsTally
<1>3. IsFiniteSet(T) /\ T \subseteq S
  BY FS_RemoveElement
<1>4. PICK u : IsTally(u, f, T) /\ SumFunctionOnSet(f, T) = u[T]
  <2> HIDE DEF T
  <2>1. QED
    BY <1>3, TallyExists, SumIsTally
<1>5. t[T] = u[T]
  <2> HIDE DEF T
  <2>1. QED
    BY <1>1, <1>3, <1>4, TallyAgrees
<1>6. QED
  BY <1>1, <1>2, <1>4, <1>5 DEF Step

(* Every element may be the one added last. *)
LEMMA SumOfNumbers ==
    ASSUME NEW f, NEW S, IsFiniteSet(S), \A x \in S : f[x] \in Nat
    PROVE  /\ SumFunctionOnSet(f, S) \in Nat
           /\ \A x \in S : SumFunctionOnSet(f, S) = f[x] + SumFunctionOnSet(f, S \ {x})
<1> DEFINE Sum(s) == SumFunctionOnSet(f, s)
           Fine(s) == Sum(s) \in Nat /\ \A x \in s : Sum(s) = f[x] + Sum(s \ {x})
           G == {n \in Nat : \A s \in SUBSET S : Cardinality(s) <= n => Fine(s)}
<1>1. \A s \in SUBSET S : IsFiniteSet(s) /\ Cardinality(s) \in Nat
  BY FS_Subset, FS_CardinalityType
<1>2. \A s \in SUBSET S :
        Sum(s) = IF s = {} THEN 0 ELSE f[Chosen(s)] + Sum(s \ {Chosen(s)})
  BY <1>1, SumStep
<1> HIDE DEF Sum
<1>3. 0 \in G
  <2>1. \A s \in SUBSET S : Cardinality(s) <= 0 => s = {}
    BY <1>1, FS_EmptySet
  <2>2. \A s \in SUBSET S : s = {} => Sum(s) = 0
    BY <1>2
  <2>3. QED
    BY <2>1, <2>2
<1>4. ASSUME NEW n \in Nat, n \in G
      PROVE  n + 1 \in G
  <2>1. ASSUME NEW s \in SUBSET S, Cardinality(s) <= n + 1, s # {}
        PROVE  Fine(s)
    <3> DEFINE c == Chosen(s)
    <3>1. c \in s
      BY <2>1, ChosenIn
    <3> HIDE DEF c
    <3>2. Sum(s) = f[c] + Sum(s \ {c})
      BY <1>2, <3>1 DEF c
    <3>3. \A x \in s : s \ {x} \in SUBSET S /\ Cardinality(s \ {x}) <= n
      <4>1. TAKE x \in s
      <4>2. Cardinality(s \ {x}) = Cardinality(s) - 1
        BY <1>1, <2>1, FS_RemoveElement
      <4>3. Cardinality(s \ {x}) <= n
        BY <1>1, <2>1, <4>2
      <4>4. QED
        BY <4>3
    <3>4. \A x \in s : Fine(s \ {x})
      BY <1>4, <3>3
    <3>5. Sum(s) \in Nat
      BY <3>1, <3>2, <3>4
    <3>6. ASSUME NEW x \in s, x # c
          PROVE  Sum(s) = f[x] + Sum(s \ {x})
      <4> DEFINE t == (s \ {c}) \ {x}
      <4>1. t = (s \ {x}) \ {c} /\ x \in s \ {c} /\ c \in s \ {x}
        BY <3>1, <3>6
      <4>2. Sum(s \ {c}) = f[x] + Sum(t)
        BY <3>1, <3>4, <4>1
      <4>3. Sum(s \ {x}) = f[c] + Sum(t)
        BY <3>4, <4>1
      <4>4. Sum(t) \in Nat
        <5>1. t \in SUBSET S /\ Cardinality(t) = Cardinality(s \ {c}) - 1
          BY <1>1, <3>1, <3>3, <4>1, FS_RemoveElement
        <5>2. Cardinality(t) <= n
          BY <1>1, <3>1, <3>3, <5>1
        <5>3. QED
          BY <1>4, <5>1, <5>2
      <4>5. f[c] \in Nat /\ f[x] \in Nat
        BY <3>1
      <4> HIDE DEF t
      <4>6. QED
        BY <3>2, <4>2, <4>3, <4>4, <4>5
    <3>7. QED
      BY <3>2, <3>5, <3>6
  <2>2. Fine({})
    <3>1. Sum({}) = 0
      BY <1>2
    <3>2. QED
      BY <3>1
  <2>3. QED
    BY <2>1, <2>2
<1>5. Cardinality(S) \in G
  <2> HIDE DEF G
  <2>1. Nat \subseteq G
    BY <1>3, <1>4, FromZero
  <2>2. QED
    BY <1>1, <2>1
<1>6. QED
  BY <1>1, <1>5 DEF Sum

(* The sum of a function of nothing ...                                    *)
LEMMA SumOfNothing ==
    ASSUME NEW f, DOMAIN f = {}
    PROVE  SumFunction(f) = 0
BY SumStep, FS_EmptySet DEF SumFunction

(* ... and of one element more, which adds what it has.                    *)
LEMMA SumGrows ==
    ASSUME NEW f, NEW g, NEW S, NEW x, IsFiniteSet(S), x \notin S,
           DOMAIN f = S, DOMAIN g = S \cup {x}, \A y \in S : f[y] = g[y] /\ f[y] \in Nat,
           g[x] \in Nat
    PROVE  /\ SumFunction(g) = SumFunction(f) + g[x]
           /\ SumFunction(f) \in Nat
<1>1. IsFiniteSet(S \cup {x}) /\ (S \cup {x}) \ {x} = S
  BY FS_AddElement
<1>2. SumFunctionOnSet(g, S \cup {x}) = g[x] + SumFunctionOnSet(g, (S \cup {x}) \ {x})
  <2>1. \A y \in S \cup {x} : g[y] \in Nat
    OBVIOUS
  <2>2. x \in S \cup {x}
    OBVIOUS
  <2> DEFINE T == S \cup {x}
  <2>3. IsFiniteSet(T) /\ (\A y \in T : g[y] \in Nat) /\ x \in T
    BY <1>1, <2>1
  <2> HIDE DEF T
  <2>4. SumFunctionOnSet(g, T) = g[x] + SumFunctionOnSet(g, T \ {x})
    BY <2>3, SumOfNumbers
  <2>5. QED
    BY <2>4 DEF T
<1>3. SumFunctionOnSet(f, S) = SumFunctionOnSet(g, S)
  BY SumAgrees
<1>4. SumFunctionOnSet(f, S) \in Nat
  BY SumOfNumbers
<1>5. QED
  BY <1>1, <1>2, <1>3, <1>4 DEF SumFunction

(* A number is what a quotient and a remainder make of it.                 *)
LEMMA Division ==
    ASSUME NEW a \in Int, NEW w \in Int, w > 0
    PROVE  \E q \in Int, r \in 0 .. w - 1 : a = w * q + r /\ r = a % w
<1>1. a % w \in 0 .. w - 1
  OBVIOUS
<1>2. a \div w \in Int
  OBVIOUS
<1>3. a = w * (a \div w) + (a % w)
  OBVIOUS
<1>4. QED
  BY <1>1, <1>2, <1>3

(* The remainder is the only one that is smaller than the divisor.         *)
LEMMA Remainder ==
    ASSUME NEW q \in Int, NEW w \in Nat \ {0}, NEW r \in 0 .. w - 1
    PROVE  (w * q + r) % w = r
<1>1. PICK x \in Int : x = w * q + r
  <2>1. w * q \in Int
    OBVIOUS
  <2>2. QED
    BY <2>1
<1> w \in Int /\ w > 0
  OBVIOUS
<1>2. PICK p \in Int, z \in 0 .. w - 1 : x = w * p + z /\ z = x % w
  BY Division, Zenon
<1>3. w * q + r = w * p + z
  BY <1>1, <1>2
<1>4. CASE q = p
  <2>1. r = z
    BY <1>3, <1>4
  <2>2. QED
    BY <1>1, <1>2, <2>1
<1>5. ASSUME NEW e \in Int, NEW f \in Int, e < f
      PROVE  w * e + w <= w * f
  <2>1. w * e + w = w * (e + 1)
    OBVIOUS
  <2>2. QED
    BY <1>5, <2>1
<1>6. w * q \in Int /\ w * p \in Int
  OBVIOUS
<1>7. CASE q < p
  <2>1. w * q + w <= w * p
    BY <1>5, <1>7
  <2>2. QED
    BY <1>3, <1>6, <2>1
<1>8. CASE p < q
  <2>1. w * p + w <= w * q
    BY <1>5, <1>8
  <2>2. QED
    BY <1>3, <1>6, <2>1
<1>9. QED
  BY <1>4, <1>7, <1>8

(* A sum that wraps at every step wraps to what it would at its end.       *)
LEMMA RemainderOfSum ==
    ASSUME NEW a \in Nat, NEW c \in Nat, NEW w \in Nat \ {0}
    PROVE  ((a % w) + c) % w = (a + c) % w
<1> w \in Int /\ w > 0 /\ a \in Int
  OBVIOUS
<1>1. PICK q \in Int, m \in 0 .. w - 1 : a = w * q + m /\ m = a % w
  BY Division
<1>2. PICK p \in Int, r \in 0 .. w - 1 : m + c = w * p + r /\ r = (m + c) % w
  <2>1. m + c \in Int
    OBVIOUS
  <2>2. QED
    BY <2>1, Division, Zenon
<1>3. a + c = w * (q + p) + r
  <2>1. w * (q + p) = w * q + w * p /\ w * q \in Int /\ w * p \in Int
    OBVIOUS
  <2>2. \A x \in Int, y \in Int : a = x + m /\ m + c = y + r => a + c = x + y + r
    OBVIOUS
  <2>3. QED
    BY <1>1, <1>2, <2>1, <2>2
<1>4. (a + c) % w = r
  <2>1. PICK x \in Int : x = q + p
    OBVIOUS
  <2>2. a + c = w * x + r
    BY <1>3, <2>1
  <2>3. QED
    BY <2>2, Remainder
<1>5. QED
  BY <1>1, <1>2, <1>4

-----------------------------------------------------------------------------
(* Paths *)

(* A needle is a path.                                                     *)
LEMMA NeedleType ==
    ASSUME NEW s \in Spellings
    PROVE  Normalized(s) \in Seq(Names)
<1> s \in Seq(Names) BY PathsAssumption
<1> QED BY HeadTailProperties DEF Normalized

(* So all needles are.                                                     *)
LEMMA NeedlesType == Needles \subseteq Seq(Names)
BY NeedleType DEF Needles

(* Two tails of one path that are as long as each other are one.           *)
LEMMA OneOfALength ==
    ASSUME NEW p, NEW m \in Seq(Names), NEW n \in Seq(Names), Len(m) = Len(n),
           HasSuffix(p, m), HasSuffix(p, n)
    PROVE  m = n
<1>1. \A k \in 1 .. Len(m) : m[k] = n[k]  BY DEF HasSuffix
<1> QED BY <1>1, SeqEqual

(* No look-up has a choice: two needles that end one path and are longest  *)
(* among those that do are the same needle.                                *)
LEMMA ChoiceIsUnique ==
    ASSUME NEW f, NEW m \in Longest(f), NEW n \in Longest(f)
    PROVE  m = n
<1>1. m \in Tails(f) /\ n \in Tails(f) /\ Len(m) <= Len(n) /\ Len(n) <= Len(m)
  BY DEF Longest
<1>2. m \in Seq(Names) /\ n \in Seq(Names) /\ HasSuffix(f, m) /\ HasSuffix(f, n)
  BY <1>1, NeedlesType DEF Tails
<1>3. Len(m) = Len(n)  BY <1>1, <1>2, LenProperties
<1> QED BY <1>2, <1>3, OneOfALength

-----------------------------------------------------------------------------
(* Types *)

(* What a run is given, by its parts.                                      *)
LEMMA InputTypes ==
    ASSUME input \in Inputs
    PROVE  /\ Len(Report) \in Nat /\ DOMAIN Report = 1 .. Len(Report)
           /\ Len(input.functions) \in Nat
           /\ DOMAIN input.functions = 1 .. Len(input.functions)
           /\ \A i \in DOMAIN input.functions : input.functions[i].file \in Files
           /\ \A i \in DOMAIN Report :
                /\ Report[i].kind = "SF" => Report[i].path \in Spellings
                /\ Report[i].kind = "DA" => Report[i].line \in Lines /\ Report[i].count \in 0 .. MaxHits
<1>1. input.report \in Seq(Records) /\ input.functions \in Seq(FunctionsOf)
  BY InputsAssumption
<1>2. \A i \in DOMAIN Report : Report[i] \in Records
  BY <1>1, ElementOfSeq, LenProperties DEF Report
<1>3. \A i \in DOMAIN input.functions : input.functions[i] \in FunctionsOf
  BY <1>1, ElementOfSeq, LenProperties
<1>4. \A x \in Records : /\ x.kind = "SF" => x.path \in Spellings
                         /\ x.kind = "DA" => x.line \in Lines /\ x.count \in 0 .. MaxHits
  BY DEF Records
<1>5. \A x \in FunctionsOf : x.file \in Files
  BY DEF FunctionsOf
<1> QED
  BY <1>1, <1>2, <1>3, <1>4, <1>5, LenProperties DEF Report

(* A sum that wraps fits.                                                  *)
LEMMA WrapInRange ==
    ASSUME NEW m \in 0 .. MaxHits, NEW n \in 0 .. MaxHits
    PROVE  Wrapping(m, n) \in 0 .. MaxHits
<1> MaxHits \in Nat BY NumbersAssumption
<1> DEFINE w == MaxHits + 1
           t == m + n
<1>1. w \in Nat \ {0} /\ t \in Nat
  OBVIOUS
<1>2. t % w \in 0 .. w - 1
  <2> HIDE DEF w, t
  <2> QED BY <1>1
<1> QED BY <1>2 DEF Wrapping

(* An entry that takes in a spelling remains one.                          *)
LEMMA InsertType ==
    ASSUME NEW entry \in Entry, NEW s \in Spellings, counted \in [Spellings -> LineData]
    PROVE  InsertOrMerge(entry, s) \in Entry
<1>1. counted[s] \in LineData /\ entry.lines \in LineData
  BY DEF Entry
<1>2. \A l \in Lines : /\ counted[s][l] \in 0 .. MaxHits \cup {NoData}
                       /\ entry.lines[l] \in 0 .. MaxHits \cup {NoData}
  BY <1>1 DEF LineData
<1>3. \A m, n \in 0 .. MaxHits : Saturating(m, n) \in 0 .. MaxHits
  BY NumbersAssumption DEF Saturating
<1>4. MergeFrom(entry.lines, counted[s]) \in LineData
  BY <1>2, <1>3 DEF MergeFrom, LineData
<1> QED
  BY <1>4 DEF InsertOrMerge, Entry

(* TypeOK is inductive.                                                    *)
LEMMA InitType == Init => TypeOK
<1> SUFFICES ASSUME Init PROVE TypeOK OBVIOUS
<1>1. NoLines \in LineData BY DEF NoLines, LineData
<1>2. Vacant \in Entry BY <1>1 DEF Vacant, Entry
<1> QED BY <1>1, <1>2 DEF Init, TypeOK

(* Every step keeps the types.                                            *)
LEMMA NextType == TypeOK /\ [Next]_vars => TypeOK'
<1> SUFFICES ASSUME TypeOK, [Next]_vars PROVE TypeOK' OBVIOUS
<1> USE DEF TypeOK
<1>0. input \in Inputs OBVIOUS
<1>1. CASE SourceFile
  <2>1. Record.path \in Spellings
    BY <1>0, <1>1, InputTypes DEF SourceFile, NextIs, Record, Report
  <2> QED BY <1>1, <2>1 DEF SourceFile, index, merged
<1>2. CASE CountLine
  <2> DEFINE l == Record.line
             n == counted[current][l]
  <2>1. l \in Lines /\ Record.count \in 0 .. MaxHits
    BY <1>0, <1>2, InputTypes DEF CountLine, NextIs, Record, Report
  <2>2. counted' \in [Spellings -> LineData]
    <3>1. CASE current = NoFile  BY <1>2, <3>1 DEF CountLine
    <3>2. CASE current # NoFile
      <4>1. current \in Spellings /\ counted[current] \in LineData  BY <3>2
      <4>2. n \in 0 .. MaxHits \cup {NoData}  BY <4>1, <2>1 DEF LineData
      <4> DEFINE a == IF n = NoData THEN Record.count ELSE Wrapping(n, Record.count)
      <4>3. a \in 0 .. MaxHits
        BY <4>2, <2>1, WrapInRange
      <4>4. counted' = [counted EXCEPT ![current][l] = a]
        BY <1>2, <3>2 DEF CountLine
      <4> HIDE DEF a, l, n
      <4>5. [counted[current] EXCEPT ![l] = a] \in LineData
        BY <4>1, <4>3, <2>1 DEF LineData
      <4> QED BY <4>1, <4>4, <4>5
    <3> QED BY <3>1, <3>2
  <2> QED BY <1>2, <2>2 DEF CountLine, index, merged
<1>3. CASE EndOfRecord  BY <1>3 DEF EndOfRecord, index, merged
<1>4. CASE OtherRecord  BY <1>4 DEF OtherRecord, parser, index, merged
<1>5. CASE BadRecord  BY <1>5 DEF BadRecord, parser, index, merged
<1>6. CASE EndOfReport  BY <1>6 DEF EndOfReport, parser, index, merged
<1>7. ASSUME NEW s \in Spellings, IndexAbsolute(s) PROVE TypeOK'
  <2>1. Canonical[s] \in RealPaths  BY <1>7 DEF IndexAbsolute, FastPath, RealPaths
  <2>2. InsertOrMerge(by_absolute[Canonical[s]], s) \in Entry  BY <2>1, InsertType
  <2> QED BY <1>7, <2>1, <2>2 DEF IndexAbsolute, parser, merged
<1>8. ASSUME NEW s \in Spellings, IndexTail(s) PROVE TypeOK'
  <2>1. Normalized(s) \in Needles  BY <1>8 DEF IndexTail, Needles
  <2>2. InsertOrMerge(by_relative[Normalized(s)], s) \in Entry  BY <2>1, InsertType
  <2> QED BY <1>8, <2>1, <2>2 DEF IndexTail, parser, merged
<1>9. ASSUME NEW s \in Spellings, IndexNothing(s) PROVE TypeOK'
  BY <1>9 DEF IndexNothing, parser, index, merged
<1>10. CASE EndIndex  BY <1>10 DEF EndIndex, parser, index, merged
<1>11. CASE Found
  <2>1. input.functions[pos].file \in Files
    BY <1>0, <1>11, InputTypes DEF Found
  <2> DEFINE f == input.functions[pos].file
  <2>2. \A hit \in Hits(f) : hit.spellings \subseteq Spellings
    <3>1. \A hit \in Hits(f) : hit \in Entry
      BY DEF Hits, Direct, Longest, Tails
    <3> QED BY <3>1 DEF Entry
  <2> QED BY <1>11, <2>1, <2>2 DEF Found, Consumed, parser, index
<1>12. CASE NotFound
  <2>1. input.functions[pos].file \in Files
    BY <1>0, <1>12, InputTypes DEF NotFound
  <2> QED BY <1>12, <2>1 DEF NotFound, parser, index
<1>13. CASE Finish  BY <1>13 DEF Finish, parser, index
<1>14. CASE UNCHANGED vars  BY <1>14 DEF vars
<1> QED
  BY <1>1, <1>2, <1>3, <1>4, <1>5, <1>6, <1>7, <1>8, <1>9, <1>10, <1>11, <1>12,
     <1>13, <1>14 DEF Next, Parse, Index

-----------------------------------------------------------------------------
(* What was declared. *)

(* No record is read at first.                                             *)
LEMMA InitParsed == Init => ParsedSoFar
<1> SUFFICES ASSUME Init PROVE ParsedSoFar OBVIOUS
<1>1. input \in Inputs BY DEF Init
<1>2. Read = {}  BY <1>1, InputTypes DEF Init, Read
<1> QED BY <1>2 DEF Init, ParsedSoFar

(* A record that is no SF is read, and nothing more is declared. *)
LEMMA PassedOver ==
    ASSUME TypeOK, ParsedSoFar, NextIs({"DA", "end", "other"}),
           pos' = pos + 1, UNCHANGED <<input, pc, declared>>
    PROVE  ParsedSoFar'
<1>1. Read' = Read \cup {pos} /\ pos \in DOMAIN Report
  BY InputTypes DEF Read, TypeOK, NextIs, Report
<1>2. Report[pos].kind # "SF" /\ Report' = Report
  BY DEF NextIs, Record, Report
<1> QED BY <1>1, <1>2 DEF ParsedSoFar

(* What is declared is what the records read declare.                      *)
LEMMA NextParsed == TypeOK /\ ParsedSoFar /\ [Next]_vars => ParsedSoFar'
<1> SUFFICES ASSUME TypeOK, ParsedSoFar, [Next]_vars PROVE ParsedSoFar' OBVIOUS
<1>0. input \in Inputs BY DEF TypeOK
<1>1. CASE SourceFile
  <2>1. Read' = Read \cup {pos} /\ pos \in DOMAIN Report
    BY <1>0, <1>1, InputTypes DEF SourceFile, Read, TypeOK, NextIs, Report
  <2>2. Report[pos].kind = "SF" /\ Report' = Report /\ declared' = declared \cup {Report[pos].path}
    BY <1>1 DEF SourceFile, NextIs, Record, Report
  <2> QED BY <2>1, <2>2 DEF ParsedSoFar
<1>2. CASE CountLine
  <2>1. NextIs({"DA", "end", "other"})  BY <1>2 DEF CountLine, NextIs
  <2> QED BY <1>2, <2>1, PassedOver DEF CountLine
<1>3. CASE EndOfRecord
  <2>1. NextIs({"DA", "end", "other"})  BY <1>3 DEF EndOfRecord, NextIs
  <2> QED BY <1>3, <2>1, PassedOver DEF EndOfRecord
<1>4. CASE OtherRecord
  <2>1. NextIs({"DA", "end", "other"})  BY <1>4 DEF OtherRecord, NextIs
  <2> QED BY <1>4, <2>1, PassedOver DEF OtherRecord, parser
<1>5. CASE BadRecord
  <2>1. Read' = Read  BY <1>5 DEF BadRecord, NextIs, Read, Report
  <2> QED BY <1>5, <2>1 DEF BadRecord, ParsedSoFar, Report, parser
<1>6. CASE EndOfReport
  <2>1. Read' = Read
    BY <1>0, <1>6, InputTypes DEF EndOfReport, Read, Report, TypeOK
  <2> QED BY <1>6, <2>1 DEF EndOfReport, ParsedSoFar, Report, parser
<1>7. ASSUME UNCHANGED <<input, declared>>, pc \in {"indexing", "merging"},
             pc' \in {"indexing", "merging", "done"}
      PROVE  ParsedSoFar'
  <2>1. Read' = Read  BY <1>7 DEF Read, Report
  <2> QED BY <1>7, <2>1 DEF ParsedSoFar, Report
<1>8. CASE Index
  BY <1>7, <1>8 DEF Index, IndexAbsolute, IndexTail, IndexNothing, EndIndex, parser
<1>9. CASE Found \/ NotFound \/ Finish
  BY <1>7, <1>9 DEF Found, NotFound, Finish, parser
<1>10. CASE UNCHANGED vars
  BY <1>10 DEF vars, ParsedSoFar, Read, Report
<1> QED
  BY <1>1, <1>2, <1>3, <1>4, <1>5, <1>6, <1>8, <1>9, <1>10 DEF Next, Parse

-----------------------------------------------------------------------------
(* What the index holds. *)

(* Nothing is indexed at first.                                            *)
LEMMA InitIndex == Init => IndexHolds
BY DEF Init, IndexHolds, Indexed, Vacant

(* Nothing is indexed, or nothing more than before. *)
LEMMA IndexKept ==
    ASSUME IndexHolds, UNCHANGED index, Indexed' = Indexed,
           pc' \in {"merging", "done"} => todo' = {}
    PROVE  IndexHolds'
BY DEF IndexHolds, index

(* A spelling goes to the entry of its key, whenever its turn comes.       *)
LEMMA NextIndex == TypeOK /\ IndexHolds /\ [Next]_vars => IndexHolds'
<1> SUFFICES ASSUME TypeOK, IndexHolds, [Next]_vars PROVE IndexHolds' OBVIOUS
<1>1. CASE Parse
  <2>1. UNCHANGED index /\ Indexed' = Indexed
    BY <1>1 DEF Parse, SourceFile, CountLine, EndOfRecord, OtherRecord, BadRecord,
                EndOfReport, NextIs, Indexed, index, parser
  <2>2. pc' \notin {"merging", "done"}
    BY <1>1 DEF Parse, SourceFile, CountLine, EndOfRecord, OtherRecord, BadRecord,
                EndOfReport, NextIs, parser
  <2> QED BY <2>1, <2>2, IndexKept
<1>2. ASSUME NEW s \in Spellings, IndexAbsolute(s) PROVE IndexHolds'
  <2>1. Canonical[s] \in RealPaths  BY <1>2 DEF IndexAbsolute, FastPath, RealPaths
  <2>2. Indexed' = Indexed \cup {s}
    BY <1>2 DEF IndexAbsolute, Indexed, TypeOK, parser
  <2>3. \A p \in RealPaths :
          by_absolute'[p].spellings =
            IF p = Canonical[s] THEN by_absolute[p].spellings \cup {s} ELSE by_absolute[p].spellings
    BY <1>2, <2>1 DEF IndexAbsolute, InsertOrMerge, TypeOK
  <2>4. Named(s) /\ UNCHANGED <<by_relative, pc>> /\ pc = "indexing"
    BY <1>2 DEF IndexAbsolute, FastPath, Named
  <2>5. ASSUME NEW p \in RealPaths
        PROVE  by_absolute'[p].spellings = {t \in Indexed' : Named(t) /\ Canonical[t] = p}
    BY <2>2, <2>3, <2>4 DEF IndexHolds
  <2>6. ASSUME NEW n \in Needles
        PROVE  by_relative'[n].spellings = {t \in Indexed' : ~Named(t) /\ Normalized(t) = n}
    BY <2>2, <2>4 DEF IndexHolds
  <2> QED BY <2>4, <2>5, <2>6 DEF IndexHolds
<1>3. ASSUME NEW s \in Spellings, IndexTail(s) PROVE IndexHolds'
  <2>1. Normalized(s) \in Needles  BY <1>3 DEF IndexTail, Needles
  <2>2. Indexed' = Indexed \cup {s}
    BY <1>3 DEF IndexTail, Indexed, TypeOK, parser
  <2>3. \A n \in Needles :
          by_relative'[n].spellings =
            IF n = Normalized(s) THEN by_relative[n].spellings \cup {s} ELSE by_relative[n].spellings
    BY <1>3, <2>1 DEF IndexTail, InsertOrMerge, TypeOK
  <2>4. ~Named(s) /\ UNCHANGED <<by_absolute, pc>> /\ pc = "indexing"
    BY <1>3 DEF IndexTail, FastPath, Named
  <2>5. ASSUME NEW p \in RealPaths
        PROVE  by_absolute'[p].spellings = {t \in Indexed' : Named(t) /\ Canonical[t] = p}
    BY <2>2, <2>4 DEF IndexHolds
  <2>6. ASSUME NEW n \in Needles
        PROVE  by_relative'[n].spellings = {t \in Indexed' : ~Named(t) /\ Normalized(t) = n}
    BY <2>2, <2>3, <2>4 DEF IndexHolds
  <2> QED BY <2>4, <2>5, <2>6 DEF IndexHolds
<1>4. ASSUME NEW s \in Spellings, IndexNothing(s) PROVE IndexHolds'
  <2>1. Indexed' = Indexed \cup {s}
    BY <1>4 DEF IndexNothing, Indexed, TypeOK, parser
  <2>2. ~Named(s) /\ Normalized(s) \notin Needles /\ UNCHANGED <<index, pc>> /\ pc = "indexing"
    BY <1>4 DEF IndexNothing, Needles, FastPath, Named
  <2> QED BY <2>1, <2>2 DEF IndexHolds, index
<1>5. CASE EndIndex \/ Found \/ NotFound \/ Finish
  <2>1. UNCHANGED index /\ Indexed' = Indexed
    BY <1>5 DEF EndIndex, Found, NotFound, Finish, Indexed, index, parser
  <2>2. todo' = {}
    BY <1>5 DEF EndIndex, Found, NotFound, Finish, IndexHolds
  <2> QED BY <2>1, <2>2, IndexKept
<1>6. CASE UNCHANGED vars
  BY <1>6 DEF vars, IndexHolds, Indexed
<1> QED
  BY <1>1, <1>2, <1>3, <1>4, <1>5, <1>6 DEF Next, Index

-----------------------------------------------------------------------------
(* What a look-up finds. *)

(* A bounded set of numbers has a greatest: what stands in for induction. *)
LEMMA GreatestNumber ==
    ASSUME NEW T \in SUBSET Nat, T # {}, NEW n \in Nat, \A k \in T : k <= n
    PROVE  \E m \in T : \A k \in T : k <= m
<1> DEFINE Less == OpToRel(<, Nat)
           Bounds == {u \in Nat : \A k \in T : k <= u}
<1>1. IsWellFoundedOn(Less, Nat)
  BY NatLessThanWellFounded
<1>2. \A x, y \in Nat : x < y => <<x, y>> \in Less
  BY DEF OpToRel
<1> HIDE DEF Less
<1>3. PICK u \in Bounds : \A v \in Bounds : <<v, u>> \notin Less
  <2>1. Bounds \subseteq Nat /\ n \in Bounds
    OBVIOUS
  <2>2. QED
    BY <1>1, <2>1, WFMin
<1>4. \A k \in T : k \in Nat /\ k <= u
  BY <1>3
<1>5. ASSUME u \notin T
      PROVE  FALSE
  <2>1. \A k \in T : k < u
    BY <1>3, <1>4, <1>5
  <2>2. u \in Nat /\ u - 1 \in Nat /\ u - 1 < u
    <3>1. PICK k \in T : TRUE
      OBVIOUS
    <3>2. u \in Nat /\ k \in Nat /\ k < u
      BY <1>3, <1>4, <2>1
    <3>3. QED
      BY <3>2
  <2>3. u - 1 \in Bounds
    BY <1>4, <2>1, <2>2
  <2>4. QED
    BY <1>2, <1>3, <2>2, <2>3
<1>6. QED
  BY <1>4, <1>5

(* Where a tail matches, one is longest.                                   *)
LEMMA LongestExists ==
    ASSUME NEW f \in Files, Tails(f) # {}
    PROVE  Longest(f) # {}
<1> DEFINE L == {Len(n) : n \in Tails(f)}
<1>1. Tails(f) \subseteq Seq(Names)  BY NeedlesType DEF Tails
<1>2. L \in SUBSET Nat /\ L # {}
  <2>1. \A n \in Tails(f) : Len(n) \in Nat  BY <1>1, LenProperties
  <2> QED BY <2>1
<1>3. Len(f) \in Nat  BY PathsAssumption, LenProperties
<1>4. \A k \in L : k <= Len(f)  BY DEF Tails, HasSuffix
<1>5. PICK k \in L : \A j \in L : j <= k
  <2> HIDE DEF L
  <2> QED BY <1>2, <1>3, <1>4, GreatestNumber
<1>6. PICK n \in Tails(f) : Len(n) = k  BY <1>5
<1> QED BY <1>5, <1>6 DEF Longest

(* A look-up finds everything indexed.                                     *)
LEMMA AllIndexed ==
    ASSUME ParsedSoFar, IndexHolds, pc \in {"merging", "done"}
    PROVE  declared = Declared /\ Indexed = Declared
<1>1. declared = Declared  BY DEF ParsedSoFar, Declared, Read
<1>2. Indexed = declared  BY DEF IndexHolds, Indexed
<1> QED BY <1>1, <1>2

(* The absolute index holds the spellings of the very file ...             *)
LEMMA DirectIsAliases ==
    ASSUME TypeOK, ParsedSoFar, IndexHolds, pc \in {"merging", "done"}, NEW f \in Files
    PROVE  /\ Direct(f) <=> Aliases(f) # {}
           /\ Direct(f) => by_absolute[Canonical[f]].spellings = Aliases(f)
<1>1. \A s \in Declared : s \in Spellings  BY AllIndexed DEF TypeOK
<1>2. \A s \in Aliases(f) : Canonical[f] \in RealPaths
  BY <1>1 DEF Aliases, Named, RealPaths
<1>3. Canonical[f] \in RealPaths => by_absolute[Canonical[f]].spellings = Aliases(f)
  BY AllIndexed DEF IndexHolds, Aliases
<1> QED BY <1>2, <1>3 DEF Direct

(* ... the relative one those that end its path ...                        *)
LEMMA TailsAreEndings ==
    ASSUME TypeOK, ParsedSoFar, IndexHolds, pc \in {"merging", "done"}, NEW f \in Files
    PROVE  /\ Tails(f) = {Normalized(s) : s \in Endings(f)}
           /\ \A n \in Tails(f) :
                by_relative[n].spellings = {s \in Endings(f) : Normalized(s) = n}
<1>1. Declared \subseteq Spellings  BY AllIndexed DEF TypeOK
<1>2. \A n \in Needles : n # <<>> /\ by_relative[n].spellings =
                              {s \in Declared : ~Named(s) /\ Normalized(s) = n}
  BY AllIndexed DEF IndexHolds, Needles
<1>3. \A n \in Tails(f) : by_relative[n].spellings = {s \in Endings(f) : Normalized(s) = n}
  BY <1>2 DEF Tails, Endings
<1>4. ASSUME NEW s \in Endings(f) PROVE Normalized(s) \in Tails(f)
  <2>1. Normalized(s) \in Needles  BY <1>1 DEF Endings, Needles
  <2>2. s \in by_relative[Normalized(s)].spellings  BY <1>2, <2>1 DEF Endings
  <2> QED BY <2>1, <2>2 DEF Tails, Endings
<1>5. ASSUME NEW n \in Tails(f) PROVE \E s \in Endings(f) : Normalized(s) = n
  BY <1>3 DEF Tails
<1> QED BY <1>3, <1>4, <1>5

(* ... so that a look-up finds the spellings that speak for the file.      *)
LEMMA LookUpIsSpeaking ==
    ASSUME TypeOK, ParsedSoFar, IndexHolds, pc \in {"merging", "done"}, NEW f \in Files
    PROVE  /\ Hits(f) = {} <=> Speaking(f) = {}
           /\ \A hit \in Hits(f) : hit.spellings = Speaking(f)
<1>1. CASE Direct(f)
  BY <1>1, DirectIsAliases DEF Hits, Speaking
<1>2. CASE ~Direct(f)
  <2>1. Aliases(f) = {}  BY <1>2, DirectIsAliases
  <2>2. Hits(f) = {by_relative[n] : n \in Longest(f)}  BY <1>2 DEF Hits
  <2>3. ASSUME NEW n \in Longest(f) PROVE by_relative[n].spellings = Speaking(f)
    <3>1. n \in Tails(f)  BY <2>3 DEF Longest
    <3>2. ASSUME NEW s \in Endings(f), Normalized(s) = n PROVE s \in Speaking(f)
      BY <2>1, <2>3, <3>2, TailsAreEndings DEF Speaking, Longest
    <3>3. ASSUME NEW s \in Speaking(f) PROVE s \in Endings(f) /\ Normalized(s) = n
      <4>1. s \in Endings(f) /\ \A t \in Endings(f) : Len(Normalized(t)) <= Len(Normalized(s))
        BY <2>1 DEF Speaking
      <4>2. Normalized(s) \in Longest(f)
        BY <4>1, TailsAreEndings DEF Longest
      <4>3. Normalized(s) = n
        BY <2>3, <4>2, ChoiceIsUnique
      <4> QED BY <4>1, <4>3
    <3>4. by_relative[n].spellings = {s \in Endings(f) : Normalized(s) = n}
      BY <3>1, TailsAreEndings
    <3> QED BY <3>2, <3>3, <3>4
  <2>4. Longest(f) = {} => Speaking(f) = {}
    <3>1. Longest(f) = {} => Tails(f) = {}  BY LongestExists
    <3>2. Tails(f) = {} => Endings(f) = {}  BY TailsAreEndings
    <3> QED BY <2>1, <3>1, <3>2 DEF Speaking
  <2>5. ASSUME NEW n \in Longest(f) PROVE Speaking(f) # {}
    <3>1. n \in Tails(f)  BY DEF Longest
    <3> QED BY <2>3, <3>1 DEF Tails
  <2> QED BY <2>2, <2>3, <2>4, <2>5
<1> QED BY <1>1, <1>2

-----------------------------------------------------------------------------
(* What merge has gathered. *)

(* No file is looked up at first.                                          *)
LEMMA InitMerged == Init => MergedSoFar
BY DEF Init, MergedSoFar, LookedUp

(* What speaks for a file depends on the report only. *)
LEMMA SpeakingKept ==
    ASSUME input' = input
    PROVE  \A f : Speaking(f)' = Speaking(f)
BY DEF Speaking, Aliases, Endings, Declared, Report

(* A step of merge that looks one file up. *)
LEMMA OneMore ==
    ASSUME TypeOK, pc = "merging", pos <= Len(input.functions), UNCHANGED <<input, pc>>,
           pos' = pos + 1
    PROVE  /\ LookedUp' = LookedUp \cup {input.functions[pos].file}
           /\ input.functions[pos].file \in Files
<1>1. input \in Inputs BY DEF TypeOK
<1>2. {j \in DOMAIN input.functions : j < pos'} = {j \in DOMAIN input.functions : j < pos} \cup {pos}
      /\ pos \in DOMAIN input.functions
  BY <1>1, InputTypes DEF TypeOK
<1> QED BY <1>1, <1>2, InputTypes DEF LookedUp

(* Each look-up adds to the three sets what it found.                      *)
LEMMA NextMerged ==
    TypeOK /\ ParsedSoFar /\ IndexHolds /\ MergedSoFar /\ [Next]_vars => MergedSoFar'
<1> SUFFICES ASSUME TypeOK, ParsedSoFar, IndexHolds, MergedSoFar, [Next]_vars PROVE MergedSoFar'
  OBVIOUS
<1>0. input \in Inputs BY DEF TypeOK
<1>1. CASE Parse \/ \E s \in Spellings : IndexAbsolute(s) \/ IndexTail(s) \/ IndexNothing(s)
  <2>1. /\ UNCHANGED merged /\ LookedUp = {} /\ LookedUp' = {}
        /\ pc' # "done"
    BY <1>1 DEF Parse, SourceFile, CountLine, EndOfRecord, OtherRecord, BadRecord, EndOfReport,
                NextIs, IndexAbsolute, IndexTail, IndexNothing, LookedUp, merged
  <2>2. seen = {} /\ mapped = {} /\ used = {}
    BY <2>1 DEF MergedSoFar
  <2>3. seen' = {} /\ mapped' = {} /\ used' = {}
    BY <2>1, <2>2 DEF merged
  <2>4. pc' = "indexing" => pos' = 1
    BY <1>1 DEF MergedSoFar, Parse, SourceFile, CountLine, EndOfRecord, OtherRecord, BadRecord,
                EndOfReport, NextIs, IndexAbsolute, IndexTail, IndexNothing
  <2> QED BY <2>1, <2>3, <2>4 DEF MergedSoFar
<1>2. CASE EndIndex
  <2>1. LookedUp = {} /\ pc' = "merging" /\ pos' = 1 /\ UNCHANGED <<input, merged, declared>>
    BY <1>2 DEF EndIndex, LookedUp, parser, MergedSoFar
  <2>2. LookedUp' = {}  BY <1>0, <2>1, InputTypes DEF LookedUp
  <2> QED BY <2>1, <2>2 DEF MergedSoFar, merged
<1>3. CASE Found
  <2> DEFINE f == input.functions[pos].file
  <2>1. pc = "merging" /\ LookedUp' = LookedUp \cup {f} /\ f \in Files
    BY <1>3, OneMore DEF Found
  <2>2. PICK hit \in Hits(f) : /\ mapped' = mapped \cup {f} /\ seen' = seen \cup {f}
                              /\ used' = used \cup hit.spellings
    BY <1>3 DEF Found, Consumed
  <2>3. hit.spellings = Speaking(f) /\ Speaking(f) # {}
    BY <2>1, <2>2, LookUpIsSpeaking
  <2>4. declared # {}
    BY <2>1, <2>3, AllIndexed DEF Speaking, Aliases, Endings
  <2>5. UNCHANGED <<input, pc, declared>>  BY <1>3 DEF Found, parser
  <2> HIDE DEF f
  <2>6. /\ seen' = LookedUp' /\ mapped' = {g \in LookedUp' : Speaking(g) # {}}
        /\ used' = UNION {Speaking(g) : g \in LookedUp'}
    BY <2>1, <2>2, <2>3, <2>4 DEF MergedSoFar
  <2> QED BY <2>1, <2>4, <2>5, <2>6, SpeakingKept DEF MergedSoFar
<1>4. CASE NotFound
  <2> DEFINE f == input.functions[pos].file
  <2>1. pc = "merging" /\ LookedUp' = LookedUp \cup {f} /\ f \in Files
    BY <1>4, OneMore DEF NotFound
  <2>2. Speaking(f) = {}
    BY <1>4, <2>1, LookUpIsSpeaking DEF NotFound
  <2>3. /\ UNCHANGED <<input, pc, declared, mapped, used>>
        /\ seen' = IF declared = {} THEN seen ELSE seen \cup {f}
    BY <1>4 DEF NotFound, parser
  <2> HIDE DEF f
  <2>4. /\ seen' = (IF declared = {} THEN {} ELSE LookedUp')
        /\ mapped' = {g \in LookedUp' : Speaking(g) # {}}
        /\ used' = UNION {Speaking(g) : g \in LookedUp'}
    BY <2>1, <2>2, <2>3 DEF MergedSoFar
  <2> QED BY <2>1, <2>3, <2>4, SpeakingKept DEF MergedSoFar
<1>5. CASE Finish
  <2>1. /\ UNCHANGED <<input, pos, declared, seen, mapped, used>> /\ LookedUp' = LookedUp
        /\ pos > Len(input.functions) /\ pc' = "done"
    BY <1>5 DEF Finish, parser, LookedUp
  <2>2. result'.diagnostics =
          IF declared = {} THEN Unknown
          ELSE [analyzed |-> Cardinality(seen), lcov |-> Cardinality(declared),
                matched |-> Cardinality(mapped),
                source_only |-> seen \ mapped, lcov_only |-> declared \ used]
    BY <1>5 DEF Finish
  <2> QED BY <2>1, <2>2, SpeakingKept DEF MergedSoFar
<1>6. CASE UNCHANGED vars
  <2>1. LookedUp' = LookedUp  BY <1>6 DEF vars, LookedUp
  <2> QED BY <1>6, <2>1, SpeakingKept DEF vars, MergedSoFar
<1> QED
  BY <1>1, <1>2, <1>3, <1>4, <1>5, <1>6 DEF Next, Index

-----------------------------------------------------------------------------
(* The index holds what was declared, and merge what the index gave it,    *)
(* in every reachable state.                                               *)
THEOREM Invariance == Spec => []IInv
<1>1. Init => IInv
  BY InitType, InitParsed, InitIndex, InitMerged DEF IInv
<1>2. IInv /\ [Next]_vars => IInv'
  BY NextType, NextParsed, NextIndex, NextMerged DEF IInv
<1> QED BY <1>1, <1>2, PTL DEF Spec

(* A look-up never has a choice between two needles, so what it returns    *)
(* does not depend on the order of the hash map.                           *)
THEOREM LongestIsUnique == Spec => []NoChoice
<1>1. NoChoice
  <2>1. SUFFICES ASSUME NEW f \in Files, NEW m \in Longest(f), NEW n \in Longest(f) PROVE m = n
    BY DEF NoChoice
  <2> QED BY ChoiceIsUnique
<1> QED BY <1>1, PTL

(* The diagnostics name the spellings that speak for no analysed file and  *)
(* the files nothing speaks for, and count what is left as matched.        *)
THEOREM DiagnosticsExact == Spec => []StraysComplete
<1>1. IInv => StraysComplete
  <2> SUFFICES ASSUME IInv, pc = "done" PROVE StraysComplete!2
    BY DEF StraysComplete
  <2> DEFINE d == result.diagnostics
  <2>1. TypeOK /\ ParsedSoFar /\ IndexHolds /\ MergedSoFar /\ input \in Inputs
    BY DEF IInv, TypeOK
  <2>2. declared = Declared  BY <2>1, AllIndexed
  <2>3. LookedUp = Analysed
    <3>1. pos > Len(input.functions) /\ pos \in Nat
      BY <2>1 DEF MergedSoFar, TypeOK
    <3>2. {j \in DOMAIN input.functions : j < pos} = DOMAIN input.functions
      BY <2>1, <3>1, InputTypes
    <3> QED BY <3>2 DEF LookedUp, Analysed
  <2>4. CASE Declared = {}
    BY <2>1, <2>2, <2>4 DEF MergedSoFar
  <2>5. CASE Declared # {}
    <3>1. /\ seen = Analysed /\ mapped = {f \in Analysed : Speaking(f) # {}}
          /\ used = UNION {Speaking(f) : f \in Analysed}
      BY <2>1, <2>2, <2>3, <2>5 DEF MergedSoFar
    <3>2. d = [analyzed |-> Cardinality(seen), lcov |-> Cardinality(declared),
               matched |-> Cardinality(mapped),
               source_only |-> seen \ mapped, lcov_only |-> declared \ used]
      BY <2>1, <2>2, <2>5 DEF MergedSoFar
    <3>3. d.lcov_only = {s \in Declared : \A f \in Analysed : s \notin Speaking(f)}
      BY <2>2, <3>1, <3>2
    <3>4. d.source_only = {f \in Analysed : Speaking(f) = {}}
      BY <3>1, <3>2
    <3>5. d.analyzed = d.matched + Cardinality(d.source_only)
      <4>1. IsFiniteSet(seen) /\ mapped \subseteq seen
        BY <2>1, <3>1, FS_Subset, PathsAssumption DEF TypeOK
      <4>2. Cardinality(seen \ mapped) = Cardinality(seen) - Cardinality(mapped)
        <5>1. seen \cap mapped = mapped  BY <4>1
        <5> QED BY <4>1, <5>1, FS_Difference
      <4>3. Cardinality(seen) \in Nat /\ Cardinality(mapped) \in Nat
        BY <4>1, FS_Subset, FS_CardinalityType
      <4> HIDE DEF d
      <4> QED BY <3>2, <4>2, <4>3
    <3>6. d.analyzed = Cardinality(Analysed) /\ d.lcov = Cardinality(Declared)
      BY <2>2, <3>1, <3>2
    <3>7. Warning(d) = "silent" <=>
            /\ \A f \in Analysed : Speaking(f) # {}
            /\ \A s \in Declared : \E f \in Analysed : s \in Speaking(f)
      <4>1. Warning(d) = "silent" <=> d.source_only = {} /\ d.lcov_only = {}
        BY DEF Warning
      <4> HIDE DEF d
      <4> QED BY <3>3, <3>4, <4>1
    <3>8. Warning(d) = "no overlap" <=> \A f \in Analysed : Speaking(f) = {}
      <4>1. d.matched = 0 <=> mapped = {}
        <5>1. IsFiniteSet(mapped)
          BY <2>1, <3>1, FS_Subset, PathsAssumption DEF TypeOK
        <5> QED BY <3>2, <5>1, FS_EmptySet
      <4>2. mapped = {} <=> \A f \in Analysed : Speaking(f) = {}  BY <3>1
      <4>3. mapped = {} => d.source_only # {} \/ d.lcov_only # {}
        BY <2>5, <3>1, <3>3, <3>4
      <4> HIDE DEF d
      <4> QED BY <4>1, <4>2, <4>3 DEF Warning
    <3> QED BY <2>5, <3>3, <3>4, <3>5, <3>6, <3>7, <3>8
  <2> QED BY <2>4, <2>5
<1> QED BY <1>1, Invariance, PTL

-----------------------------------------------------------------------------
(* What the records read add up to. *)

DataRecords == {i \in DOMAIN Report : Report[i].kind = "DA"}

(* What is counted under a spelling is DA records, finitely many.          *)
LEMMA CountsAreData ==
    ASSUME input \in Inputs
    PROVE  /\ \A s, l : Counts(s, l) \subseteq DataRecords
           /\ IsFiniteSet(DataRecords)
           /\ \A i \in DataRecords : Report[i].count \in 0 .. MaxHits
<1>1. DOMAIN Report = 1 .. Len(Report) /\ Len(Report) \in Nat
  BY InputTypes
<1>2. IsFiniteSet(DOMAIN Report) /\ DataRecords \in SUBSET DOMAIN Report
  BY <1>1, FS_Interval DEF DataRecords
<1>3. IsFiniteSet(DataRecords)
  BY <1>2, FS_Subset
<1>4. \A s, l : Counts(s, l) \subseteq DataRecords
  BY DEF Counts, DataRecords
<1>5. \A i \in DataRecords : Report[i].count \in 0 .. MaxHits
  BY InputTypes DEF DataRecords
<1>6. QED
  BY <1>3, <1>4, <1>5

(* One record more is added as the parser adds it. *)
LEMMA SumOverMore ==
    ASSUME input \in Inputs, NEW I \in SUBSET DataRecords
    PROVE  /\ SumOver(I) \in 0 .. MaxHits
           /\ \A i \in DataRecords \ I :
                /\ SumOver(I \cup {i}) = Wrapping(SumOver(I), Report[i].count)
                /\ I = {} => SumOver(I \cup {i}) = Report[i].count
<1> DEFINE w == MaxHits + 1
           f == [i \in I |-> Report[i].count]
<1>1. MaxHits \in Nat /\ w \in Nat \ {0} /\ w \in Int /\ w > 0
  BY NumbersAssumption
<1>2. IsFiniteSet(I) /\ \A i \in DataRecords : Report[i].count \in Nat
  BY CountsAreData, FS_Subset, <1>1
<1>3. SumFunction(f) \in Nat
  BY <1>2, SumOfNumbers DEF SumFunction
<1>4. \A a \in Nat : a % w \in 0 .. w - 1
  <2> HIDE DEF w
  <2>1. QED
    BY <1>1
<1>5. SumOver(I) \in 0 .. MaxHits
  BY <1>1, <1>3, <1>4 DEF SumOver
<1>6. ASSUME NEW i \in DataRecords \ I
      PROVE  /\ SumOver(I \cup {i}) = Wrapping(SumOver(I), Report[i].count)
             /\ I = {} => SumOver(I \cup {i}) = Report[i].count
  <2> DEFINE g == [k \in I \cup {i} |-> Report[k].count]
             c == Report[i].count
  <2>1. SumFunction(g) = SumFunction(f) + c
    <3>1. /\ DOMAIN f = I /\ DOMAIN g = I \cup {i} /\ i \notin I
          /\ \A k \in I : f[k] = g[k] /\ f[k] \in Nat
          /\ g[i] = c /\ g[i] \in Nat
      BY <1>2
    <3> HIDE DEF f, g
    <3>2. QED
      BY <1>2, <3>1, SumGrows
  <2>2. c \in Nat /\ c \in 0 .. MaxHits
    BY <1>2, CountsAreData
  <2>3. SumOver(I \cup {i}) = (SumFunction(f) + c) % w
    BY <2>1 DEF SumOver
  <2>4. SumOver(I) = SumFunction(f) % w
    BY DEF SumOver
  <2> HIDE DEF f, g, c, w
  <2>5. SumOver(I \cup {i}) = (SumOver(I) + c) % w
    BY <1>1, <1>3, <2>2, <2>3, <2>4, RemainderOfSum
  <2>6. ASSUME I = {}
        PROVE  SumOver(I \cup {i}) = c
    <3>1. SumFunction(f) = 0
      BY <2>6, SumOfNothing DEF f
    <3>2. (w * 0 + c) % w = c
      <4>1. c \in 0 .. w - 1
        BY <1>1, <2>2 DEF w
      <4>2. QED
        BY <1>1, <4>1, Remainder
    <3>3. w * 0 + c = 0 + c
      BY <1>1, <2>2
    <3>4. QED
      BY <2>3, <3>1, <3>2, <3>3
  <2>7. QED
    BY <2>5, <2>6 DEF Wrapping, c, w
<1>7. QED
  BY <1>5, <1>6

(* What the report says stays. *)
LEMMA ReportKept ==
    ASSUME input' = input
    PROVE  /\ Report' = Report
           /\ \A i : SectionOf(i)' = SectionOf(i)
           /\ \A s, l : Counts(s, l)' = Counts(s, l)
           /\ \A I : SumOver(I)' = SumOver(I)
           /\ \A S, l : HitsUnder(S, l)' = HitsUnder(S, l)
<1>1. Report' = Report
  BY DEF Report
<1>2. \A i : SectionOf(i)' = SectionOf(i)
  BY <1>1 DEF SectionOf
<1>3. \A s, l : Counts(s, l)' = Counts(s, l)
  BY <1>1, <1>2 DEF Counts
<1>4. \A I : SumOver(I)' = SumOver(I)
  BY <1>1 DEF SumOver
<1>5. \A S, l : HitsUnder(S, l)' = HitsUnder(S, l)
  BY <1>3, <1>4 DEF HitsUnder
<1>6. QED
  BY <1>1, <1>2, <1>3, <1>4, <1>5

(* The section that is open after one more record. *)
LEMMA SectionStep ==
    ASSUME input \in Inputs, NEW i \in DOMAIN Report
    PROVE  /\ Report[i].kind = "SF" => SectionOf(i + 1) = {i}
           /\ Report[i].kind = "end" => SectionOf(i + 1) = {}
           /\ Report[i].kind \notin {"SF", "end"} => SectionOf(i + 1) = SectionOf(i)
<1>1. i \in Nat /\ i >= 1 /\ (i + 1) - 1 = i
  BY InputTypes
<1>2. \A j : j \in 1 .. i <=> j \in 1 .. i - 1 \/ j = i
  BY <1>1
<1>3. \A j \in 1 .. i - 1 : \A k : k \in j + 1 .. i <=> k \in j + 1 .. i - 1 \/ k = i
  BY <1>1
<1>4. \A k : k \notin i + 1 .. i
  BY <1>1
<1>5. \A j : j \in SectionOf(i + 1) <=>
        \/ j = i /\ Report[i].kind = "SF"
        \/ j \in SectionOf(i) /\ Report[i].kind \notin {"SF", "end"}
  <2>1. TAKE j
  <2>2. SectionOf(i + 1) = {m \in 1 .. i : /\ Report[m].kind = "SF"
                              /\ \A k \in m + 1 .. i : Report[k].kind \notin {"SF", "end"}}
    BY <1>1 DEF SectionOf
  <2>3. CASE j = i
    <3>1. j \notin SectionOf(i)
      BY <1>1, <2>3 DEF SectionOf
    <3>2. QED
      BY <1>2, <1>4, <2>2, <2>3, <3>1
  <2>4. CASE j # i
    BY <1>2, <1>3, <2>2, <2>4 DEF SectionOf
  <2>5. QED
    BY <2>3, <2>4
<1>6. QED
  BY <1>5

(* The records counted so far, and the two parts of LinesRead.             *)
SoFar(s, l) == Counts(s, l) \cap Read
CurrentHolds ==
    pc = "parsing" => /\ \A j \in SectionOf(pos) : current = Report[j].path
                      /\ SectionOf(pos) = {} => current = NoFile
CountedHolds ==
    \A s \in Spellings, l \in Lines :
        counted[s][l] = IF SoFar(s, l) = {} THEN NoData ELSE SumOver(SoFar(s, l))

(* LinesRead, as two parts.                                                *)
LEMMA LinesReadIs == LinesRead <=> CurrentHolds /\ CountedHolds
BY DEF LinesRead, CurrentHolds, CountedHolds, SoFar

(* No line has counts at first.                                            *)
LEMMA InitLines == Init => LinesRead
<1> SUFFICES ASSUME Init
             PROVE  LinesRead
  OBVIOUS
<1>1. input \in Inputs /\ pos = 1 /\ pc = "parsing" /\ current = NoFile
      /\ counted = [s \in Spellings |-> NoLines]
  BY DEF Init
<1>2. Read = {}
  BY <1>1, InputTypes DEF Read
<1>3. SectionOf(pos) = {}
  BY <1>1 DEF SectionOf
<1>4. CurrentHolds
  BY <1>1, <1>3 DEF CurrentHolds
<1>5. CountedHolds
  BY <1>1, <1>2 DEF CountedHolds, SoFar, NoLines
<1>6. QED
  BY <1>4, <1>5, LinesReadIs

(* A step of the parser but the last reads one record. *)
LEMMA OneRecord ==
    ASSUME TypeOK, NEW kinds, NextIs(kinds), UNCHANGED <<input, pc>>, pos' = pos + 1
    PROVE  /\ input \in Inputs /\ pos \in DOMAIN Report /\ Report[pos].kind \in kinds
           /\ pc' = "parsing" /\ pos \notin Read /\ Read' = Read \cup {pos}
           /\ \A s, l : SoFar(s, l)' = IF pos \in Counts(s, l) THEN SoFar(s, l) \cup {pos}
                                       ELSE SoFar(s, l)
<1>1. /\ input \in Inputs /\ pc = "parsing" /\ pos \in Nat \ {0}
      /\ pos <= Len(Report) /\ Report[pos].kind \in kinds
  BY DEF TypeOK, NextIs, Report, Record
<1>2. DOMAIN Report = 1 .. Len(Report) /\ Len(Report) \in Nat
  BY <1>1, InputTypes
<1>3. pos \in DOMAIN Report
  BY <1>1, <1>2
<1>4. Report' = Report /\ \A s, l : Counts(s, l)' = Counts(s, l)
  BY ReportKept
<1>5. \A i \in DOMAIN Report : i < pos + 1 <=> i < pos \/ i = pos
  BY <1>1, <1>2
<1>6. Read = {i \in DOMAIN Report : i < pos} /\ Read' = {i \in DOMAIN Report : i < pos + 1}
  BY <1>1, <1>4 DEF Read
<1>7. pos \notin Read /\ Read' = Read \cup {pos}
  BY <1>1, <1>3, <1>5, <1>6
<1>8. \A s, l : SoFar(s, l)' = Counts(s, l) \cap Read'
  BY <1>4 DEF SoFar
<1>9. QED
  BY <1>1, <1>3, <1>7, <1>8 DEF SoFar

(* A record that is not counted. *)
LEMMA NotCounted ==
    ASSUME TypeOK, CountedHolds, NextIs({"SF", "end", "other"}),
           UNCHANGED <<input, pc, counted>>, pos' = pos + 1
    PROVE  CountedHolds'
<1>1. \A s, l : pos \notin Counts(s, l)
  BY OneRecord DEF Counts
<1>2. \A s, l : SoFar(s, l)' = SoFar(s, l)
  BY <1>1, OneRecord
<1>3. \A I : SumOver(I)' = SumOver(I)
  BY ReportKept
<1>4. QED
  BY <1>2, <1>3 DEF CountedHolds

(* A count is added under the spelling of the open section. *)
LEMMA CountKeepsLines ==
    ASSUME TypeOK, CurrentHolds, CountedHolds, CountLine
    PROVE  CountedHolds'
<1>1. /\ NextIs({"DA"}) /\ UNCHANGED <<input, pc, current>> /\ pos' = pos + 1 /\ pc = "parsing"
      /\ Record = Report[pos]
  BY DEF CountLine, NextIs, Record, Report
<1>2. /\ input \in Inputs /\ pos \in DOMAIN Report /\ Report[pos].kind = "DA"
      /\ \A s, l : SoFar(s, l)' = IF pos \in Counts(s, l) THEN SoFar(s, l) \cup {pos}
                                       ELSE SoFar(s, l)
      /\ pos \notin Read
  BY <1>1, OneRecord
<1>3. \A I : SumOver(I)' = SumOver(I)
  BY <1>1, ReportKept
<1> DEFINE m == Report[pos].line
           c == Report[pos].count
<1>4. m \in Lines /\ c \in 0 .. MaxHits
  BY <1>2, InputTypes
<1>5. \A s, l : pos \in Counts(s, l) <=> l = m /\ \E j \in SectionOf(pos) : Report[j].path = s
  BY <1>2 DEF Counts
<1>6. CASE current = NoFile
  <2>1. counted' = counted
    BY <1>6 DEF CountLine
  <2>2. \A j \in SectionOf(pos) : FALSE
    <3>1. ASSUME NEW j \in SectionOf(pos)
          PROVE  FALSE
      <4>1. j \in DOMAIN Report /\ Report[j].kind = "SF"
        BY <1>2, InputTypes DEF SectionOf
      <4>2. Report[j].path \in Spellings /\ Report[j].path = NoFile
        BY <1>1, <1>2, <1>6, <4>1, InputTypes DEF CurrentHolds
      <4>3. QED
        BY <4>2, PathsAssumption
    <3>2. QED
      BY <3>1
  <2>3. \A s, l : SoFar(s, l)' = SoFar(s, l)
    BY <1>2, <1>5, <2>2
  <2>4. QED
    BY <1>3, <2>1, <2>3 DEF CountedHolds
<1>7. CASE current # NoFile
  <2>1. current \in Spellings /\ counted \in [Spellings -> LineData]
    BY <1>7 DEF TypeOK
  <2>2. \A s, l : pos \in Counts(s, l) <=> l = m /\ s = current
    BY <1>1, <1>5, <1>7 DEF CurrentHolds
  <2> DEFINE n == counted[current][m]
             new == IF n = NoData THEN c ELSE Wrapping(n, c)
  <2>3. counted' = [counted EXCEPT ![current][m] = new]
    BY <1>1, <1>7 DEF CountLine
  <2>4. \A s \in Spellings, l \in Lines :
          counted'[s][l] = IF s = current /\ l = m THEN new ELSE counted[s][l]
    <3> HIDE DEF new, m
    <3>1. \A s \in Spellings : counted[s] \in [Lines -> 0 .. MaxHits \cup {NoData}]
      BY <2>1 DEF LineData
    <3>2. QED
      BY <1>4, <2>1, <2>3, <3>1
  <2>5. new = SumOver(SoFar(current, m) \cup {pos})
    <3>1. n = IF SoFar(current, m) = {} THEN NoData ELSE SumOver(SoFar(current, m))
      BY <1>4, <2>1 DEF CountedHolds
    <3>2. /\ SoFar(current, m) \in SUBSET DataRecords
          /\ pos \in DataRecords \ SoFar(current, m)
      BY <1>2, CountsAreData DEF SoFar, DataRecords
    <3>3. /\ SumOver(SoFar(current, m)) \in 0 .. MaxHits
          /\ SumOver(SoFar(current, m) \cup {pos}) = Wrapping(SumOver(SoFar(current, m)), c)
          /\ SoFar(current, m) = {} => SumOver(SoFar(current, m) \cup {pos}) = c
      BY <1>2, <3>2, SumOverMore
    <3>4. SumOver(SoFar(current, m)) # NoData
      BY <3>3, NumbersAssumption
    <3> HIDE DEF c, m
    <3>5. QED
      BY <3>1, <3>3, <3>4
  <2> HIDE DEF new, m, c, n
  <2>6. ASSUME NEW s \in Spellings, NEW l \in Lines
        PROVE  counted'[s][l] = IF SoFar(s, l)' = {} THEN NoData ELSE SumOver(SoFar(s, l)')
    <3>1. CASE s = current /\ l = m
      <4>1. SoFar(s, l)' = SoFar(current, m) \cup {pos}
        BY <1>2, <2>2, <3>1
      <4>2. QED
        BY <1>3, <2>4, <2>5, <3>1, <4>1
    <3>2. CASE ~(s = current /\ l = m)
      <4>1. SoFar(s, l)' = SoFar(s, l)
        BY <1>2, <2>2, <3>2
      <4>2. counted[s][l] = IF SoFar(s, l) = {} THEN NoData ELSE SumOver(SoFar(s, l))
        BY DEF CountedHolds
      <4>3. QED
        BY <1>3, <2>4, <3>2, <4>1, <4>2
    <3>3. QED
      BY <3>1, <3>2
  <2>7. QED
    BY <1>3, <2>6 DEF CountedHolds
<1>8. QED
  BY <1>6, <1>7

(* The counts follow the records, step by step.                            *)
LEMMA NextLines == ASSUME TypeOK, LinesRead, [Next]_vars PROVE LinesRead'
<1>0. input \in Inputs /\ CurrentHolds /\ CountedHolds
  BY LinesReadIs DEF TypeOK
<1>1. CASE SourceFile
  <2>1. /\ NextIs({"SF"}) /\ NextIs({"SF", "end", "other"}) /\ pos' = pos + 1
        /\ UNCHANGED <<input, pc, counted>> /\ current' = Report[pos].path
    BY <1>1 DEF SourceFile, NextIs, Record, Report
  <2>2. SectionOf(pos + 1) = {pos}
    BY <1>0, <2>1, OneRecord, SectionStep
  <2>3. CurrentHolds'
    BY <2>1, <2>2, ReportKept DEF CurrentHolds
  <2>4. QED
    BY <1>0, <2>1, <2>3, NotCounted, LinesReadIs DEF LinesRead, CurrentHolds, CountedHolds, SoFar
<1>2. CASE CountLine
  <2>1. /\ NextIs({"DA"}) /\ pos' = pos + 1 /\ UNCHANGED <<input, pc, current>>
    BY <1>2 DEF CountLine
  <2>2. SectionOf(pos + 1) = SectionOf(pos) /\ pc = "parsing"
    BY <1>0, <2>1, OneRecord, SectionStep
  <2>3. CurrentHolds'
    BY <1>0, <2>1, <2>2, ReportKept DEF CurrentHolds
  <2>4. CountedHolds'
    BY <1>0, <1>2, CountKeepsLines
  <2>5. QED
    BY <2>3, <2>4 DEF LinesRead, CurrentHolds, CountedHolds, SoFar
<1>3. CASE EndOfRecord
  <2>1. /\ NextIs({"end"}) /\ NextIs({"SF", "end", "other"}) /\ pos' = pos + 1
        /\ UNCHANGED <<input, pc, counted>> /\ current' = NoFile
    BY <1>3 DEF EndOfRecord, NextIs
  <2>2. SectionOf(pos + 1) = {}
    BY <1>0, <2>1, OneRecord, SectionStep
  <2>3. CurrentHolds'
    BY <2>1, <2>2, ReportKept DEF CurrentHolds
  <2>4. CountedHolds'
    BY <1>0, <2>1, NotCounted
  <2>5. QED
    BY <2>3, <2>4 DEF LinesRead, CurrentHolds, CountedHolds, SoFar
<1>4. CASE OtherRecord
  <2>1. /\ NextIs({"other"}) /\ NextIs({"SF", "end", "other"}) /\ pos' = pos + 1
        /\ UNCHANGED <<input, pc, counted, current>>
    BY <1>4 DEF OtherRecord, NextIs, parser
  <2>2. SectionOf(pos + 1) = SectionOf(pos) /\ pc = "parsing"
    BY <1>0, <2>1, OneRecord, SectionStep
  <2>3. CurrentHolds'
    BY <1>0, <2>1, <2>2, ReportKept DEF CurrentHolds
  <2>4. CountedHolds'
    BY <1>0, <2>1, NotCounted
  <2>5. QED
    BY <2>3, <2>4 DEF LinesRead, CurrentHolds, CountedHolds, SoFar
<1>5. ASSUME UNCHANGED <<input, counted>>, Read' = Read, pc' # "parsing"
      PROVE  LinesRead'
  <2>1. \A s, l : SoFar(s, l)' = SoFar(s, l)
    BY <1>5, ReportKept DEF SoFar
  <2>2. CountedHolds'
    BY <1>0, <1>5, <2>1, ReportKept DEF CountedHolds
  <2>3. QED
    BY <1>5, <2>2 DEF LinesRead, CountedHolds, SoFar
<1>6. CASE BadRecord
  <2>1. Read' = Read /\ pc' # "parsing" /\ UNCHANGED <<input, counted>>
    BY <1>6 DEF BadRecord, NextIs, Read, Report, parser
  <2>2. QED
    BY <1>5, <2>1
<1>7. CASE EndOfReport
  <2>1. Read' = Read /\ pc' # "parsing" /\ UNCHANGED <<input, counted>>
    BY <1>0, <1>7, InputTypes DEF EndOfReport, Read, Report, TypeOK, parser
  <2>2. QED
    BY <1>5, <2>1
<1>8. ASSUME UNCHANGED <<input, counted>>, pc \in {"indexing", "merging"},
             pc' \in {"indexing", "merging", "done"}
      PROVE  LinesRead'
  <2>1. Read' = Read
    BY <1>8 DEF Read, Report
  <2>2. QED
    BY <1>5, <1>8, <2>1
<1>9. CASE Index
  BY <1>8, <1>9 DEF Index, IndexAbsolute, IndexTail, IndexNothing, EndIndex, parser
<1>10. CASE Found \/ NotFound \/ Finish
  BY <1>8, <1>10 DEF Found, NotFound, Finish, parser
<1>11. CASE UNCHANGED vars
  BY <1>11 DEF vars, LinesRead, Read, Report, SectionOf, Counts, SumOver
<1>12. QED
  BY <1>1, <1>2, <1>3, <1>4, <1>6, <1>7, <1>9, <1>10, <1>11 DEF Next, Parse

-----------------------------------------------------------------------------
(* What the index adds up to. *)

(* A line has counts under the spellings declared only, which are finitely *)
(* many.                                                                   *)
Counting(S, l) == {s \in S : Counts(s, l) # {}}

(* Finitely many spellings count a line.                                   *)
LEMMA CountingIsFinite ==
    ASSUME input \in Inputs, NEW S, NEW l
    PROVE  IsFiniteSet(Counting(S, l))
<1> DEFINE D == {i \in DOMAIN Report : Report[i].kind = "SF"}
           f == [i \in D |-> Report[i].path]
<1>1. DOMAIN Report = 1 .. Len(Report) /\ Len(Report) \in Nat
  BY InputTypes
<1>2. IsFiniteSet(D)
  <2>1. IsFiniteSet(DOMAIN Report) /\ D \in SUBSET DOMAIN Report
    BY <1>1, FS_Interval
  <2>2. QED
    BY <2>1, FS_Subset
<1>3. f \in Surjection(D, Declared)
  BY DEF Surjection, Declared
<1>4. IsFiniteSet(Declared)
  BY <1>2, <1>3, FS_Surjection
<1>5. ASSUME NEW s \in Counting(S, l)
      PROVE  s \in Declared
  <2>1. PICK i \in DOMAIN Report : \E j \in SectionOf(i) : Report[j].path = s
    BY DEF Counting, Counts
  <2>2. PICK j \in SectionOf(i) : Report[j].path = s
    BY <2>1
  <2>3. j \in DOMAIN Report /\ Report[j].kind = "SF"
    BY <1>1 DEF SectionOf
  <2>4. QED
    BY <2>2, <2>3 DEF Declared
<1>6. Counting(S, l) \in SUBSET Declared
  BY <1>5
<1>7. QED
  BY <1>4, <1>6, FS_Subset

(* Capping before an addition that caps changes nothing.                   *)
LEMMA CapAddsUp ==
    ASSUME NEW a \in Nat, NEW c \in 0 .. MaxHits
    PROVE  Saturating(IF a > MaxHits THEN MaxHits ELSE a, c) =
             IF a + c > MaxHits THEN MaxHits ELSE a + c
BY NumbersAssumption DEF Saturating

(* One spelling more is added as the index adds it. *)
LEMMA HitsUnderMore ==
    ASSUME input \in Inputs, NEW S, NEW s, s \notin S, NEW l
    PROVE  /\ HitsUnder(S, l) \in 0 .. MaxHits \cup {NoData}
           /\ HitsUnder(S \cup {s}, l) =
                IF Counts(s, l) = {} THEN HitsUnder(S, l)
                ELSE IF HitsUnder(S, l) = NoData THEN SumOver(Counts(s, l))
                ELSE Saturating(HitsUnder(S, l), SumOver(Counts(s, l)))
<1> DEFINE T == Counting(S, l)
           f == [t \in T |-> SumOver(Counts(t, l))]
           all == SumFunction(f)
           c == SumOver(Counts(s, l))
<1>1. \A t : SumOver(Counts(t, l)) \in 0 .. MaxHits
  <2>1. TAKE t
  <2>2. Counts(t, l) \in SUBSET DataRecords
    BY CountsAreData
  <2>3. QED
    BY <2>2, SumOverMore
<1>2. MaxHits \in Nat /\ NoData \notin Nat
  BY NumbersAssumption
<1>3. IsFiniteSet(T) /\ s \notin T
  BY CountingIsFinite DEF Counting
<1>4. all \in Nat
  <2>1. \A t \in T : f[t] \in Nat
    BY <1>1, <1>2
  <2>2. DOMAIN f = T
    OBVIOUS
  <2> HIDE DEF f, T
  <2>3. QED
    BY <1>3, <2>1, <2>2, SumOfNumbers DEF SumFunction
<1>5. HitsUnder(S, l) = IF T = {} THEN NoData ELSE IF all > MaxHits THEN MaxHits ELSE all
  BY DEF HitsUnder, Counting
<1>6. c \in 0 .. MaxHits /\ c \in Nat
  BY <1>1, <1>2
<1>7. CASE Counts(s, l) = {}
  <2>1. Counting(S \cup {s}, l) = T
    BY <1>7 DEF Counting
  <2>2. HitsUnder(S \cup {s}, l) = HitsUnder(S, l)
    BY <2>1 DEF HitsUnder, Counting
  <2> HIDE DEF T, all
  <2>3. QED
    BY <1>2, <1>4, <1>5, <1>7, <2>2
<1>8. CASE Counts(s, l) # {}
  <2> DEFINE g == [t \in T \cup {s} |-> SumOver(Counts(t, l))]
  <2>1. Counting(S \cup {s}, l) = T \cup {s}
    BY <1>8 DEF Counting
  <2>2. SumFunction(g) = all + c
    <3>1. /\ DOMAIN f = T /\ DOMAIN g = T \cup {s}
          /\ \A t \in T : f[t] = g[t] /\ f[t] \in Nat
          /\ g[s] = c /\ g[s] \in Nat
      BY <1>1, <1>2, <1>6
    <3> HIDE DEF f, g, T
    <3>2. QED
      BY <1>3, <3>1, SumGrows
  <2>3. HitsUnder(S \cup {s}, l) = IF all + c > MaxHits THEN MaxHits ELSE all + c
    <3>1. HitsUnder(S \cup {s}, l) =
            IF T \cup {s} = {} THEN NoData
            ELSE IF SumFunction(g) > MaxHits THEN MaxHits ELSE SumFunction(g)
      BY <2>1 DEF HitsUnder, Counting
    <3> HIDE DEF g, all, T
    <3>2. QED
      BY <2>2, <3>1
  <2>4. T = {} => all = 0
    BY SumOfNothing
  <2> HIDE DEF T, all, c
  <2>5. CASE T = {}
    <3>1. HitsUnder(S, l) = NoData /\ all = 0
      BY <1>5, <2>4, <2>5
    <3>2. HitsUnder(S \cup {s}, l) = c
      BY <1>2, <1>6, <2>3, <3>1
    <3>3. QED
      BY <1>8, <3>1, <3>2 DEF c
  <2>6. CASE T # {}
    <3>1. HitsUnder(S, l) = IF all > MaxHits THEN MaxHits ELSE all
      BY <1>5, <2>6
    <3>2. HitsUnder(S, l) \in 0 .. MaxHits
      BY <1>2, <1>4, <3>1
    <3>3. Saturating(HitsUnder(S, l), c) = IF all + c > MaxHits THEN MaxHits ELSE all + c
      BY <1>4, <1>6, <3>1, CapAddsUp
    <3>4. HitsUnder(S, l) # NoData
      BY <1>2, <3>2
    <3>5. QED
      BY <1>8, <2>3, <3>2, <3>3, <3>4 DEF c
  <2>7. QED
    BY <2>5, <2>6
<1>9. QED
  BY <1>7, <1>8

(* Under no spelling there is no data.                                     *)
LEMMA HitsUnderNothing == \A l : HitsUnder({}, l) = NoData
BY DEF HitsUnder

(* insert_or_merge adds a spelling's lines to those of the others.         *)
LEMMA InsertAddsUp ==
    ASSUME TypeOK, LinesRead, pc = "indexing", NEW entry \in Entry, NEW s \in Spellings,
           s \notin entry.spellings, NEW l \in Lines,
           entry.lines[l] = HitsUnder(entry.spellings, l)
    PROVE  InsertOrMerge(entry, s).lines[l] = HitsUnder(InsertOrMerge(entry, s).spellings, l)
<1>1. input \in Inputs /\ counted[s] \in LineData
  BY DEF TypeOK
<1>2. Read = DOMAIN Report
  BY DEF Read
<1>3. Counts(s, l) \cap Read = Counts(s, l)
  BY <1>2 DEF Counts
<1>4. counted[s][l] = IF Counts(s, l) = {} THEN NoData ELSE SumOver(Counts(s, l))
  BY <1>3 DEF LinesRead
<1>5. SumOver(Counts(s, l)) # NoData
  <2>1. Counts(s, l) \in SUBSET DataRecords
    BY <1>1, CountsAreData
  <2>2. SumOver(Counts(s, l)) \in 0 .. MaxHits
    BY <1>1, <2>1, SumOverMore
  <2>3. QED
    BY <2>2, NumbersAssumption
<1> DEFINE S == entry.spellings
<1>6. HitsUnder(S \cup {s}, l) =
        IF Counts(s, l) = {} THEN HitsUnder(S, l)
        ELSE IF HitsUnder(S, l) = NoData THEN SumOver(Counts(s, l))
        ELSE Saturating(HitsUnder(S, l), SumOver(Counts(s, l)))
  BY <1>1, HitsUnderMore
<1>7. MergeFrom(entry.lines, counted[s])[l] =
        IF counted[s][l] = NoData THEN entry.lines[l]
        ELSE IF entry.lines[l] = NoData THEN counted[s][l]
        ELSE Saturating(entry.lines[l], counted[s][l])
  BY DEF MergeFrom
<1>8. /\ InsertOrMerge(entry, s).lines = MergeFrom(entry.lines, counted[s])
      /\ InsertOrMerge(entry, s).spellings = S \cup {s}
  BY DEF InsertOrMerge
<1>9. QED
  BY <1>4, <1>5, <1>6, <1>7, <1>8

(* The entries have no lines at first.                                     *)
LEMMA InitIndexed == Init => LinesIndexed
<1>1. Vacant.spellings = {} /\ \A l \in Lines : Vacant.lines[l] = NoData
  BY DEF Vacant, NoLines
<1>2. QED
  BY <1>1, HitsUnderNothing DEF Init, LinesIndexed

(* An entry has what its spellings add up to, after every step.            *)
LEMMA NextIndexed ==
    ASSUME TypeOK, IndexHolds, LinesRead, LinesIndexed, [Next]_vars
    PROVE  LinesIndexed'
<1>0. input' = input => \A S, l : HitsUnder(S, l)' = HitsUnder(S, l)
  BY ReportKept
<1>1. ASSUME UNCHANGED <<input, index>>
      PROVE  LinesIndexed'
  BY <1>0, <1>1 DEF LinesIndexed, index
<1>2. ASSUME NEW s \in Spellings, IndexAbsolute(s)
      PROVE  LinesIndexed'
  <2>1. /\ Canonical[s] \in RealPaths /\ UNCHANGED <<input, by_relative>> /\ pc = "indexing"
        /\ by_absolute' = [by_absolute EXCEPT ![Canonical[s]] = InsertOrMerge(@, s)]
        /\ by_absolute \in [RealPaths -> Entry]
    BY <1>2 DEF IndexAbsolute, FastPath, RealPaths, TypeOK
  <2>2. s \notin by_absolute[Canonical[s]].spellings
    BY <1>2, <2>1 DEF IndexAbsolute, IndexHolds, Indexed
  <2>3. ASSUME NEW p \in RealPaths, NEW l \in Lines
        PROVE  by_absolute'[p].lines[l] = HitsUnder(by_absolute'[p].spellings, l)
    <3>1. by_absolute[p].lines[l] = HitsUnder(by_absolute[p].spellings, l)
      BY DEF LinesIndexed
    <3>2. CASE p = Canonical[s]
      <4>1. by_absolute'[p] = InsertOrMerge(by_absolute[p], s)
        BY <2>1, <3>2
      <4>2. by_absolute[p] \in Entry /\ s \notin by_absolute[p].spellings
        BY <2>1, <2>2, <3>2
      <4>3. QED
        BY <2>1, <3>1, <4>1, <4>2, InsertAddsUp
    <3>3. CASE p # Canonical[s]
      BY <2>1, <3>1, <3>3
    <3>4. QED
      BY <3>2, <3>3
  <2>4. QED
    BY <1>0, <2>1, <2>3 DEF LinesIndexed
<1>3. ASSUME NEW s \in Spellings, IndexTail(s)
      PROVE  LinesIndexed'
  <2>1. /\ Normalized(s) \in Needles /\ UNCHANGED <<input, by_absolute>> /\ pc = "indexing"
        /\ by_relative' = [by_relative EXCEPT ![Normalized(s)] = InsertOrMerge(@, s)]
        /\ by_relative \in [Needles -> Entry]
    BY <1>3 DEF IndexTail, Needles, TypeOK
  <2>2. s \notin by_relative[Normalized(s)].spellings
    BY <1>3, <2>1 DEF IndexTail, IndexHolds, Indexed
  <2>3. ASSUME NEW n \in Needles, NEW l \in Lines
        PROVE  by_relative'[n].lines[l] = HitsUnder(by_relative'[n].spellings, l)
    <3>1. by_relative[n].lines[l] = HitsUnder(by_relative[n].spellings, l)
      BY DEF LinesIndexed
    <3>2. CASE n = Normalized(s)
      <4>1. by_relative'[n] = InsertOrMerge(by_relative[n], s)
        BY <2>1, <3>2
      <4>2. by_relative[n] \in Entry /\ s \notin by_relative[n].spellings
        BY <2>1, <2>2, <3>2
      <4>3. QED
        BY <2>1, <3>1, <4>1, <4>2, InsertAddsUp
    <3>3. CASE n # Normalized(s)
      BY <2>1, <3>1, <3>3
    <3>4. QED
      BY <3>2, <3>3
  <2>4. QED
    BY <1>0, <2>1, <2>3 DEF LinesIndexed
<1>4. CASE Parse
  <2>1. UNCHANGED <<input, index>>
    BY <1>4 DEF Parse, SourceFile, CountLine, EndOfRecord, OtherRecord, BadRecord, EndOfReport
  <2>2. QED
    BY <1>1, <2>1
<1>5. ASSUME NEW s \in Spellings, IndexNothing(s)
      PROVE  LinesIndexed'
  BY <1>1, <1>5 DEF IndexNothing
<1>6. CASE EndIndex \/ Found \/ NotFound \/ Finish
  BY <1>1, <1>6 DEF EndIndex, Found, NotFound, Finish
<1>7. CASE UNCHANGED vars
  BY <1>1, <1>7 DEF vars, index
<1>8. QED
  BY <1>2, <1>3, <1>4, <1>5, <1>6, <1>7 DEF Next, Index

-----------------------------------------------------------------------------
(* What the rows are read off. *)

(* What a row has to tell stays. *)
LEMMA TellsKept ==
    ASSUME input' = input
    PROVE  \A r, g : Tells(r, g)' <=> Tells(r, g)
<1>1. \A f : Speaking(f)' = Speaking(f)
  BY SpeakingKept
<1>2. \A S, l : HitsUnder(S, l)' = HitsUnder(S, l)
  BY ReportKept
<1>3. \A f, l : HitsOf(f, l)' = HitsOf(f, l)
  BY <1>1, <1>2 DEF HitsOf
<1>4. \A f : LinesOf(f)' = LinesOf(f)
  BY <1>3 DEF LinesOf
<1>5. QED
  BY <1>1, <1>4 DEF Tells

(* What a look-up finds has the lines of what speaks for the file. *)
LEMMA HitHasTheLines ==
    ASSUME TypeOK, ParsedSoFar, IndexHolds, LinesIndexed, pc = "merging",
           NEW f \in Files, NEW hit \in Hits(f)
    PROVE  hit.lines = LinesOf(f) /\ Speaking(f) # {}
<1>1. hit.spellings = Speaking(f) /\ Speaking(f) # {}
  BY LookUpIsSpeaking
<1>2. /\ by_absolute \in [RealPaths -> Entry] /\ by_relative \in [Needles -> Entry]
      /\ Direct(f) => Canonical[f] \in RealPaths
      /\ Longest(f) \subseteq Needles
  BY DEF TypeOK, Direct, Longest, Tails
<1>3. hit \in Entry /\ \A l \in Lines : hit.lines[l] = HitsUnder(hit.spellings, l)
  <2>1. CASE Direct(f)
    BY <1>2, <2>1 DEF Hits, LinesIndexed
  <2>2. CASE ~Direct(f)
    BY <1>2, <2>2 DEF Hits, LinesIndexed
  <2>3. QED
    BY <2>1, <2>2
<1>4. hit.lines \in [Lines -> 0 .. MaxHits \cup {NoData}]
  BY <1>3 DEF Entry, LineData
<1>5. \A l \in Lines : hit.lines[l] = HitsOf(f, l)
  BY <1>1, <1>3 DEF HitsOf
<1>6. hit.lines = [l \in Lines |-> HitsOf(f, l)]
  <2> DEFINE h == hit.lines
  <2>1. h \in [Lines -> 0 .. MaxHits \cup {NoData}] /\ \A l \in Lines : h[l] = HitsOf(f, l)
    BY <1>4, <1>5
  <2> HIDE DEF h
  <2>2. h = [l \in Lines |-> h[l]]
    BY <2>1
  <2>3. h = [l \in Lines |-> HitsOf(f, l)]
    BY <2>1, <2>2
  <2>4. QED
    BY <2>3 DEF h
<1>7. QED
  BY <1>1, <1>6 DEF LinesOf

(* A step of merge passes one function.                                    *)
LEMMA OnePassed ==
    ASSUME TypeOK, pc = "merging", pos <= Len(input.functions), UNCHANGED <<input, pc>>,
           pos' = pos + 1
    PROVE  /\ input \in Inputs /\ pos \in DOMAIN input.functions
           /\ input.functions[pos].file \in Files
           /\ Passed' = Passed \cup {pos}
<1>1. /\ input \in Inputs /\ pos \in Nat \ {0}
  BY DEF TypeOK
<1>2. /\ DOMAIN input.functions = 1 .. Len(input.functions) /\ Len(input.functions) \in Nat
      /\ \A i \in DOMAIN input.functions : input.functions[i].file \in Files
  BY <1>1, InputTypes
<1>3. pos \in DOMAIN input.functions
  BY <1>1, <1>2
<1>4. \A i \in DOMAIN input.functions : i < pos + 1 <=> i < pos \/ i = pos
  BY <1>1, <1>2
<1>5. /\ Passed = {i \in DOMAIN input.functions : i < pos}
      /\ Passed' = {i \in DOMAIN input.functions : i < pos + 1}
  BY DEF Passed
<1>6. QED
  BY <1>1, <1>2, <1>3, <1>4, <1>5

(* One row is appended ... *)
LEMMA OneRow ==
    ASSUME TypeOK, RowsRead, pc = "merging", pos <= Len(input.functions),
           UNCHANGED <<input, pc>>, pos' = pos + 1,
           NEW r, rows' = Append(rows, r), Tells(r, input.functions[pos])
    PROVE  RowsRead'
<1> DEFINE S == ToSet(rows)
<1>1. /\ pos \in DOMAIN input.functions /\ Passed' = Passed \cup {pos}
  BY OnePassed
<1>2. \A q, g : Tells(q, g)' <=> Tells(q, g)
  BY TellsKept
<1>3. rows \in Seq(S)
  BY DEF RowsRead
<1> HIDE DEF S
<1>4. rows \in Seq(S \cup {r})
  BY <1>3
<1>5. /\ rows' \in Seq(S \cup {r}) /\ Len(rows') = Len(rows) + 1 /\ Len(rows) \in Nat
      /\ \A k \in 1 .. Len(rows) : rows'[k] = rows[k]
      /\ rows'[Len(rows) + 1] = r
  BY <1>4, AppendProperties, LenProperties
<1>6. DOMAIN rows = 1 .. Len(rows) /\ DOMAIN rows' = 1 .. Len(rows) + 1
  BY <1>3, <1>5, LenProperties
<1>7. rows' \in Seq(ToSet(rows)')
  <2>1. \A k \in 1 .. Len(rows') : rows'[k] \in ToSet(rows)'
    BY <1>5, <1>6 DEF ToSet
  <2>2. QED
    BY <1>5, <2>1, ElementOfSeq, LenProperties
<1>8. \A k \in DOMAIN rows' : \E i \in Passed' : Tells(rows'[k], input.functions[i])
  <2>1. SUFFICES ASSUME NEW k \in DOMAIN rows'
                 PROVE  \E i \in Passed' : Tells(rows'[k], input.functions[i])
    OBVIOUS
  <2>2. CASE k = Len(rows) + 1
    BY <1>1, <1>5, <2>2
  <2>3. CASE k # Len(rows) + 1
    <3>1. k \in DOMAIN rows /\ rows'[k] = rows[k]
      BY <1>5, <1>6, <2>3
    <3>2. \E i \in Passed : Tells(rows[k], input.functions[i])
      BY <3>1 DEF RowsRead
    <3>3. QED
      BY <1>1, <3>1, <3>2
  <2>4. QED
    BY <2>2, <2>3
<1>9. ASSUME NEW i \in Passed'
      PROVE  \/ input.policy = "skip" /\ Speaking(input.functions[i].file) = {}
             \/ \E k \in DOMAIN rows' : rows'[k].function = input.functions[i]
  <2>1. CASE i = pos
    <3>1. Len(rows) + 1 \in DOMAIN rows' /\ r.function = input.functions[pos]
      BY <1>5, <1>6 DEF Tells
    <3>2. QED
      BY <1>5, <2>1, <3>1
  <2>2. CASE i # pos
    <3>1. \/ input.policy = "skip" /\ Speaking(input.functions[i].file) = {}
          \/ \E k \in DOMAIN rows : rows[k].function = input.functions[i]
      BY <1>1, <2>2 DEF RowsRead
    <3>2. \A k \in DOMAIN rows : k \in DOMAIN rows' /\ rows'[k] = rows[k]
      BY <1>5, <1>6
    <3>3. QED
      BY <3>1, <3>2
  <2>3. QED
    BY <2>1, <2>2
<1>10. QED
  BY <1>2, <1>7, <1>8, <1>9, SpeakingKept DEF RowsRead

(* ... or none, for a function that is skipped. *)
LEMMA NoRow ==
    ASSUME TypeOK, RowsRead, pc = "merging", pos <= Len(input.functions),
           UNCHANGED <<input, pc, rows>>, pos' = pos + 1,
           input.policy = "skip", Speaking(input.functions[pos].file) = {}
    PROVE  RowsRead'
<1>1. Passed' = Passed \cup {pos}
  BY OnePassed
<1>2. /\ \A q, g : Tells(q, g)' <=> Tells(q, g)
      /\ \A f : Speaking(f)' = Speaking(f)
  BY TellsKept, SpeakingKept
<1>3. ToSet(rows)' = ToSet(rows)
  BY DEF ToSet
<1>4. QED
  BY <1>1, <1>2, <1>3 DEF RowsRead

(* There are no rows at first.                                             *)
LEMMA InitRows == Init => RowsRead
BY DEF Init, RowsRead, Passed, ToSet

(* The rows follow the functions, step by step.                            *)
LEMMA NextRows ==
    ASSUME TypeOK, ParsedSoFar, IndexHolds, MergedSoFar, LinesIndexed, RowsRead, [Next]_vars
    PROVE  RowsRead'
<1>0. input \in Inputs
  BY DEF TypeOK
<1>1. ASSUME UNCHANGED <<input, rows>>, Passed' = Passed, pc' # "done"
      PROVE  RowsRead'
  <2>1. /\ \A q, g : Tells(q, g)' <=> Tells(q, g)
        /\ \A f : Speaking(f)' = Speaking(f)
    BY <1>1, TellsKept, SpeakingKept
  <2>2. ToSet(rows)' = ToSet(rows)
    BY <1>1 DEF ToSet
  <2>3. QED
    BY <1>1, <2>1, <2>2 DEF RowsRead
<1>2. CASE Parse \/ \E s \in Spellings : IndexAbsolute(s) \/ IndexTail(s) \/ IndexNothing(s)
  <2>1. UNCHANGED <<input, rows>> /\ Passed = {} /\ Passed' = {} /\ pc' # "done"
    BY <1>2 DEF Parse, SourceFile, CountLine, EndOfRecord, OtherRecord, BadRecord, EndOfReport,
                NextIs, IndexAbsolute, IndexTail, IndexNothing, Passed, merged
  <2>2. QED
    BY <1>1, <2>1
<1>3. CASE EndIndex
  <2>1. UNCHANGED <<input, rows>> /\ Passed = {} /\ pc' = "merging" /\ pos' = 1
    BY <1>3 DEF EndIndex, Passed, merged, MergedSoFar
  <2>2. Passed' = {}
    BY <1>0, <2>1, InputTypes DEF Passed
  <2>3. QED
    BY <1>1, <2>1, <2>2
<1>4. CASE Found
  <2> DEFINE g == input.functions[pos]
  <2>1. /\ pc = "merging" /\ pos <= Len(input.functions) /\ UNCHANGED <<input, pc>>
        /\ pos' = pos + 1 /\ \E hit \in Hits(g.file) : rows' = Append(rows, Scored(g, hit))
    BY <1>4 DEF Found
  <2>2. PICK hit \in Hits(g.file) : rows' = Append(rows, Scored(g, hit))
    BY <2>1
  <2>3. g.file \in Files
    BY <2>1, OnePassed
  <2>4. hit.lines = LinesOf(g.file) /\ Speaking(g.file) # {}
    BY <2>1, <2>3, HitHasTheLines
  <2>5. Tells(Scored(g, hit), g)
    BY <2>4 DEF Tells, Scored
  <2>6. QED
    BY <2>1, <2>2, <2>5, OneRow
<1>5. CASE NotFound
  <2> DEFINE g == input.functions[pos]
  <2>1. /\ pc = "merging" /\ pos <= Len(input.functions) /\ UNCHANGED <<input, pc>>
        /\ pos' = pos + 1 /\ Hits(g.file) = {} /\ rows' = rows \o Unmapped(g)
    BY <1>5 DEF NotFound
  <2>2. g.file \in Files
    BY <2>1, OnePassed
  <2>3. Speaking(g.file) = {}
    BY <2>1, <2>2, LookUpIsSpeaking
  <2>4. rows \in Seq(ToSet(rows))
    BY DEF RowsRead
  <2>5. CASE input.policy = "skip"
    <3>1. Unmapped(g) = <<>>
      BY <2>5 DEF Unmapped
    <3>2. rows' = rows
      BY <2>1, <2>4, <3>1
    <3>3. QED
      BY <2>1, <2>3, <2>5, <3>2, NoRow
  <2>6. CASE input.policy # "skip"
    <3>1. PICK r : /\ Unmapped(g) = <<r>>
                   /\ r.function = g /\ r.coverage = Unknown /\ r.uncovered = <<>>
                   /\ r.scored \in {<<0, 1>>, <<1, 1>>}
      <4>1. input.policy \in {"pessimistic", "optimistic"}
        BY <1>0, <2>6, InputsAssumption DEF Policies
      <4>2. QED
        BY <4>1 DEF Unmapped
    <3>2. rows' = Append(rows, r)
      <4> DEFINE S == ToSet(rows) \cup {r}
      <4>1. rows \in Seq(S) /\ <<r>> \in Seq(S)
        <5>1. ToSet(rows) \subseteq S /\ r \in S
          OBVIOUS
        <5> HIDE DEF S
        <5>2. QED
          BY <2>4, <5>1
      <4>2. rows \o <<r>> = Append(rows, r)
        <5> HIDE DEF S
        <5>1. QED
          BY <4>1, AppendIsConcat
      <4>3. QED
        BY <2>1, <3>1, <4>2
    <3>3. Tells(r, g)
      BY <2>3, <2>6, <3>1 DEF Tells
    <3>4. QED
      BY <2>1, <3>2, <3>3, OneRow
  <2>7. QED
    BY <2>5, <2>6
<1>6. CASE Finish
  <2>1. /\ UNCHANGED <<input, rows, pos>> /\ pc = "merging" /\ pc' = "done"
        /\ pos > Len(input.functions) /\ result'.entries = Ranked
    BY <1>6 DEF Finish
  <2>2. Passed = DOMAIN input.functions /\ Passed' = DOMAIN input.functions
    <3>1. \A i \in DOMAIN input.functions : i < pos
      BY <1>0, <2>1, InputTypes DEF TypeOK
    <3>2. QED
      BY <2>1, <3>1 DEF Passed
  <2>3. Ranked' = Ranked
    BY <2>1 DEF Ranked, Above
  <2>4. /\ \A q, g : Tells(q, g)' <=> Tells(q, g)
        /\ \A f : Speaking(f)' = Speaking(f)
    BY <2>1, TellsKept, SpeakingKept
  <2>5. ToSet(rows)' = ToSet(rows)
    BY <2>1 DEF ToSet
  <2>6. QED
    BY <2>1, <2>2, <2>3, <2>4, <2>5 DEF RowsRead
<1>7. CASE UNCHANGED vars
  <2>1. UNCHANGED <<input, pc, pos, rows, result>>
    BY <1>7 DEF vars
  <2>2. Passed' = Passed /\ Ranked' = Ranked
    BY <2>1 DEF Passed, Ranked, Above
  <2>3. /\ \A q, g : Tells(q, g)' <=> Tells(q, g)
        /\ \A f : Speaking(f)' = Speaking(f)
    BY <2>1, TellsKept, SpeakingKept
  <2>4. ToSet(rows)' = ToSet(rows)
    BY <2>1 DEF ToSet
  <2>5. QED
    BY <2>1, <2>2, <2>3, <2>4 DEF RowsRead
<1>8. QED
  BY <1>2, <1>3, <1>4, <1>5, <1>6, <1>7 DEF Next, Index

-----------------------------------------------------------------------------
(* The order of the rows. *)

(* Fractions are compared by their cross products.                         *)
LEMMA ProductGrows ==
    ASSUME NEW a \in Int, NEW b \in Int, NEW n \in Nat \ {0}
    PROVE  /\ a <= b => n * a <= n * b
           /\ a < b => n * a < n * b
<1>1. n * b = n * a + n * (b - a)
  OBVIOUS
<1>2. b - a >= 0 => n * (b - a) >= 0
  OBVIOUS
<1>3. b - a > 0 => n * (b - a) > 0
  OBVIOUS
<1>4. n * a \in Int /\ n * (b - a) \in Int
  OBVIOUS
<1>5. QED
  BY <1>1, <1>2, <1>3, <1>4

(* The order of fractions is transitive.                                   *)
LEMMA FractionsOrder ==
    ASSUME NEW x \in Int, NEW y \in Int, NEW z \in Int,
           NEW p \in Nat \ {0}, NEW q \in Nat \ {0}, NEW r \in Nat \ {0},
           x * q >= y * p, y * r >= z * q
    PROVE  /\ x * r >= z * p
           /\ x * q > y * p \/ y * r > z * q => x * r > z * p
<1> DEFINE a == x * q
           b == y * p
           c == y * r
           d == z * q
           e == x * r
           f == z * p
<1>1. a \in Int /\ b \in Int /\ c \in Int /\ d \in Int /\ e \in Int /\ f \in Int
  OBVIOUS
<1>2. r * a = q * e /\ r * b = p * c /\ p * d = q * f
  OBVIOUS
<1> HIDE DEF a, b, c, d, e, f
<1>3. a >= b /\ c >= d
  BY DEF a, b, c, d
<1>4. r * b <= r * a /\ p * d <= p * c
  BY <1>1, <1>3, ProductGrows
<1>5. (b < a => r * b < r * a) /\ (d < c => p * d < p * c)
  BY <1>1, ProductGrows
<1>6. (e < f => q * e < q * f) /\ (e <= f => q * e <= q * f)
  BY <1>1, ProductGrows
<1> DEFINE A == r * a
           B == r * b
           C == p * c
           D == p * d
           E == q * e
           F == q * f
<1>7. A \in Int /\ B \in Int /\ C \in Int /\ D \in Int /\ E \in Int /\ F \in Int
  BY <1>1
<1>8. A = E /\ B = C /\ D = F
  BY <1>2
<1>9. /\ B <= A /\ D <= C /\ (b < a => B < A) /\ (d < c => D < C)
      /\ (e < f => E < F) /\ (e <= f => E <= F)
  BY <1>4, <1>5, <1>6
<1> HIDE DEF A, B, C, D, E, F
<1>10. ~(e < f) /\ (b < a \/ d < c => ~(e <= f))
  BY <1>7, <1>8, <1>9
<1>11. e >= f /\ (a > b \/ c > d => e > f)
  BY <1>1, <1>10
<1>12. QED
  BY <1>11 DEF a, b, c, d, e, f

(* The numbers of a row.                                                   *)
Proportion(c) == c = <<c[1], c[2]>> /\ c[1] \in Nat /\ c[2] \in Nat \ {0} /\ c[1] <= c[2]

(* A span has finitely many lines.                                         *)
LEMMA SpanIsFinite ==
    ASSUME NEW lines, NEW first \in Nat, NEW last \in Nat
    PROVE  IsFiniteSet(Instrumented(lines, first, last))
<1>1. IsFiniteSet(first .. last)
  BY FS_Interval
<1>2. Instrumented(lines, first, last) \in SUBSET (first .. last)
  <2>1. \A l \in Lines : first <= l /\ l <= last => l \in first .. last
    BY NumbersAssumption
  <2>2. QED
    BY <2>1 DEF Instrumented
<1>3. QED
  BY <1>1, <1>2, FS_Subset

(* A coverage is at most 1, and 1 where no line was missed.                *)
LEMMA CoverageIsProportion ==
    ASSUME NEW lines, NEW first \in Nat, NEW last \in Nat
    PROVE  /\ Proportion(CoverageInSpan(lines, first, last))
           /\ LET c == CoverageInSpan(lines, first, last)
                  all == Instrumented(lines, first, last)
              IN c[1] = c[2] <=> \A l \in all : lines[l] > 0
<1> DEFINE all == Instrumented(lines, first, last)
           hit == {l \in all : lines[l] > 0}
           c == CoverageInSpan(lines, first, last)
<1>1. IsFiniteSet(all)
  BY SpanIsFinite
<1>2. IsFiniteSet(hit) /\ Cardinality(hit) <= Cardinality(all) /\ hit \subseteq all
      /\ (Cardinality(all) = Cardinality(hit) => hit = all)
  <2>1. hit \in SUBSET all
    OBVIOUS
  <2> HIDE DEF hit, all
  <2>2. QED
    BY <1>1, <2>1, FS_Subset
<1>3. Cardinality(hit) \in Nat /\ Cardinality(all) \in Nat
      /\ (Cardinality(all) = 0 <=> all = {})
  <2> HIDE DEF hit, all
  <2>1. QED
    BY <1>1, <1>2, FS_CardinalityType, FS_EmptySet
<1>4. c = IF all = {} THEN <<1, 1>> ELSE <<Cardinality(hit), Cardinality(all)>>
  BY DEF CoverageInSpan
<1>5. hit = all <=> \A l \in all : lines[l] > 0
  OBVIOUS
<1>6. all = {} => \A l \in all : lines[l] > 0
  OBVIOUS
<1> HIDE DEF hit, all, c
<1>7. Proportion(c)
  BY <1>2, <1>3, <1>4 DEF Proportion
<1>8. c[1] = c[2] <=> \A l \in all : lines[l] > 0
  BY <1>2, <1>3, <1>4, <1>5, <1>6
<1>9. QED
  BY <1>7, <1>8 DEF all, c

(* The functions of a run, by their parts.                                 *)
LEMMA FunctionsAreFunctions ==
    ASSUME input \in Inputs, NEW i \in DOMAIN input.functions
    PROVE  /\ input.functions[i] \in FunctionsOf
           /\ input.functions[i].file \in Files
           /\ input.functions[i].first \in Lines /\ input.functions[i].first \in Nat
           /\ input.functions[i].last \in Lines /\ input.functions[i].last \in Nat
           /\ input.functions[i].first <= input.functions[i].last
           /\ input.functions[i].cyclomatic \in Nat
<1>1. input.functions \in Seq(FunctionsOf)
  BY InputsAssumption
<1>2. input.functions[i] \in FunctionsOf
  BY <1>1, ElementOfSeq, LenProperties
<1>3. QED
  BY <1>2, NumbersAssumption DEF FunctionsOf

Worth(i) == Crap(rows[i].function.cyclomatic, rows[i].scored)
Unit(i) == Cube(rows[i].scored[2])

(* A cube is a number, of which only that of 0 is 0.                       *)
LEMMA CubeGrows ==
    ASSUME NEW n \in Nat
    PROVE  Cube(n) \in Nat /\ (n # 0 => Cube(n) # 0)
<1>1. n * n \in Nat /\ (n # 0 => n * n # 0)
  OBVIOUS
<1>2. \A m \in Nat : m * n \in Nat /\ (m # 0 /\ n # 0 => m * n # 0)
  OBVIOUS
<1>3. QED
  BY <1>1, <1>2 DEF Cube

(* The score of a row is a fraction.                                       *)
LEMMA RowNumbers ==
    ASSUME TypeOK, RowsRead, NEW k \in DOMAIN rows
    PROVE  Worth(k) \in Nat /\ Unit(k) \in Nat \ {0}
<1>1. PICK i \in DOMAIN input.functions : Tells(rows[k], input.functions[i])
  <2>1. Passed \subseteq DOMAIN input.functions
    BY DEF Passed
  <2>2. QED
    BY <2>1 DEF RowsRead
<1> DEFINE g == input.functions[i]
           s == rows[k].scored
<1>2. /\ g.cyclomatic \in Nat /\ g.first \in Nat /\ g.last \in Nat /\ rows[k].function = g
  BY <1>1, FunctionsAreFunctions DEF TypeOK, Tells
<1>3. Proportion(s)
  <2>1. Proportion(<<0, 1>>) /\ Proportion(<<1, 1>>)
    BY DEF Proportion
  <2>2. Proportion(CoverageInSpan(LinesOf(g.file), g.first, g.last))
    BY <1>2, CoverageIsProportion
  <2>3. s \in {<<0, 1>>, <<1, 1>>} \/ s = CoverageInSpan(LinesOf(g.file), g.first, g.last)
    BY <1>1 DEF Tells
  <2>4. QED
    BY <2>1, <2>2, <2>3
<1> HIDE DEF s, g
<1>4. s[1] \in Nat /\ s[2] \in Nat \ {0} /\ s[2] - s[1] \in Nat
  BY <1>3 DEF Proportion
<1>5. Cube(s[2] - s[1]) \in Nat /\ Cube(s[2]) \in Nat \ {0}
  BY <1>4, CubeGrows
<1>6. \A c \in Nat, x \in Nat, y \in Nat : c * c * x + c * y \in Nat
  OBVIOUS
<1>7. Crap(g.cyclomatic, s) \in Nat
  BY <1>2, <1>5, <1>6 DEF Crap
<1>8. QED
  BY <1>2, <1>5, <1>7 DEF Worth, Unit, s

(* Above is a strict order of all the rows, so that the sort loses none.   *)
LEMMA AboveIsOrder ==
    ASSUME TypeOK, RowsRead, NEW i \in DOMAIN rows, NEW j \in DOMAIN rows, NEW k \in DOMAIN rows
    PROVE  /\ ~Above(i, i)
           /\ i # j => Above(i, j) \/ Above(j, i)
           /\ Above(i, j) /\ Above(j, k) => Above(i, k)
<1> DEFINE x == Worth(i)
           y == Worth(j)
           z == Worth(k)
           p == Unit(i)
           q == Unit(j)
           r == Unit(k)
<1>1. /\ x \in Nat /\ y \in Nat /\ z \in Nat
      /\ p \in Nat \ {0} /\ q \in Nat \ {0} /\ r \in Nat \ {0}
  BY RowNumbers
<1>2. i \in Nat /\ j \in Nat /\ k \in Nat
  <2>1. rows \in Seq(ToSet(rows))
    BY DEF RowsRead
  <2>2. DOMAIN rows = 1 .. Len(rows) /\ Len(rows) \in Nat
    BY <2>1, LenProperties
  <2>3. QED
    BY <2>2
<1>3. /\ Above(i, i) <=> x * p > x * p \/ (x * p = x * p /\ i < i)
      /\ Above(i, j) <=> x * q > y * p \/ (x * q = y * p /\ i < j)
      /\ Above(j, i) <=> y * p > x * q \/ (y * p = x * q /\ j < i)
      /\ Above(j, k) <=> y * r > z * q \/ (y * r = z * q /\ j < k)
      /\ Above(i, k) <=> x * r > z * p \/ (x * r = z * p /\ i < k)
  BY DEF Above, Worth, Unit
<1> HIDE DEF x, y, z, p, q, r
<1>4. /\ x * p \in Nat /\ x * q \in Nat /\ y * p \in Nat /\ y * r \in Nat /\ z * q \in Nat
      /\ x * r \in Nat /\ z * p \in Nat
  BY <1>1
<1>5. x * q >= y * p /\ y * r >= z * q =>
        x * r >= z * p /\ (x * q > y * p \/ y * r > z * q => x * r > z * p)
  BY <1>1, FractionsOrder
<1> DEFINE XP == x * p
           XQ == x * q
           YP == y * p
           YR == y * r
           ZQ == z * q
           XR == x * r
           ZP == z * p
<1>6. /\ XP \in Nat /\ XQ \in Nat /\ YP \in Nat /\ YR \in Nat /\ ZQ \in Nat
      /\ XR \in Nat /\ ZP \in Nat
      /\ XQ >= YP /\ YR >= ZQ => XR >= ZP /\ (XQ > YP \/ YR > ZQ => XR > ZP)
  BY <1>4, <1>5
<1>7. /\ Above(i, i) <=> XP > XP \/ (XP = XP /\ i < i)
      /\ Above(i, j) <=> XQ > YP \/ (XQ = YP /\ i < j)
      /\ Above(j, i) <=> YP > XQ \/ (YP = XQ /\ j < i)
      /\ Above(j, k) <=> YR > ZQ \/ (YR = ZQ /\ j < k)
      /\ Above(i, k) <=> XR > ZP \/ (XR = ZP /\ i < k)
  BY <1>3
<1> HIDE DEF XP, XQ, YP, YR, ZQ, XR, ZP
<1>8. ~Above(i, i)
  BY <1>2, <1>6, <1>7
<1>9. i # j => Above(i, j) \/ Above(j, i)
  BY <1>2, <1>6, <1>7
<1>10. Above(i, j) /\ Above(j, k) => Above(i, k)
  BY <1>2, <1>6, <1>7
<1>11. QED
  BY <1>8, <1>9, <1>10

Higher(i) == {j \in DOMAIN rows : Above(j, i)}

(* A row that is above another has fewer rows above it.                    *)
LEMMA RanksDiffer ==
    ASSUME TypeOK, RowsRead, NEW i \in DOMAIN rows, NEW j \in DOMAIN rows, Above(i, j)
    PROVE  Cardinality(Higher(i)) < Cardinality(Higher(j))
<1>1. \A k \in DOMAIN rows : Above(k, i) => Above(k, j)
  BY AboveIsOrder
<1>2. i \in Higher(j) /\ i \notin Higher(i) /\ Higher(i) \subseteq Higher(j)
  BY <1>1, AboveIsOrder DEF Higher
<1>3. IsFiniteSet(Higher(j))
  <2>1. rows \in Seq(ToSet(rows))
    BY DEF RowsRead
  <2>2. DOMAIN rows = 1 .. Len(rows) /\ Len(rows) \in Nat
    BY <2>1, LenProperties
  <2>3. IsFiniteSet(DOMAIN rows) /\ Higher(j) \in SUBSET DOMAIN rows
    BY <2>2, FS_Interval DEF Higher
  <2>4. QED
    BY <2>3, FS_Subset
<1>4. /\ IsFiniteSet(Higher(i)) /\ Cardinality(Higher(i)) <= Cardinality(Higher(j))
      /\ Cardinality(Higher(j)) = Cardinality(Higher(i)) => Higher(i) = Higher(j)
  BY <1>2, <1>3, FS_Subset
<1>5. Cardinality(Higher(i)) \in Nat /\ Cardinality(Higher(j)) \in Nat
  BY <1>3, <1>4, FS_CardinalityType
<1>6. Cardinality(Higher(i)) # Cardinality(Higher(j))
  BY <1>2, <1>4
<1>7. QED
  BY <1>4, <1>5, <1>6

(* So each place is some row's, and each row has a place.                  *)
LEMMA RankedIsTheRows ==
    ASSUME TypeOK, RowsRead
    PROVE  {Ranked[k] : k \in DOMAIN Ranked} = {rows[i] : i \in DOMAIN rows}
<1> DEFINE n == Len(rows)
           f == [i \in 1 .. n |-> Cardinality(Higher(i)) + 1]
           At(k) == CHOOSE i \in DOMAIN rows : Cardinality(Higher(i)) = k - 1
<1>1. n \in Nat /\ DOMAIN rows = 1 .. n
  <2>1. rows \in Seq(ToSet(rows))
    BY DEF RowsRead
  <2>2. QED
    BY <2>1, LenProperties
<1> HIDE DEF n
<1>2. IsFiniteSet(1 .. n) /\ Cardinality(1 .. n) = n
  <2>1. 1 \in Int /\ n \in Int /\ (1 > n => n = 0) /\ n - 1 + 1 = n
    BY <1>1
  <2>2. QED
    BY <2>1, FS_Interval
<1>3. ASSUME NEW i \in 1 .. n
      PROVE  Cardinality(Higher(i)) \in Nat /\ Cardinality(Higher(i)) + 1 \in 1 .. n
  <2>1. Higher(i) \in SUBSET ((1 .. n) \ {i})
    BY <1>1, AboveIsOrder DEF Higher
  <2>2. IsFiniteSet((1 .. n) \ {i}) /\ Cardinality((1 .. n) \ {i}) = n - 1
    BY <1>2, FS_RemoveElement
  <2>3. IsFiniteSet(Higher(i)) /\ Cardinality(Higher(i)) <= n - 1
    BY <2>1, <2>2, FS_Subset
  <2>4. Cardinality(Higher(i)) \in Nat
    BY <2>3, FS_CardinalityType
  <2>5. QED
    BY <1>1, <2>3, <2>4
<1>4. ASSUME NEW i \in 1 .. n, NEW j \in 1 .. n, Cardinality(Higher(i)) = Cardinality(Higher(j))
      PROVE  i = j
  <2>1. SUFFICES ASSUME i # j
                 PROVE  FALSE
    OBVIOUS
  <2>2. Above(i, j) \/ Above(j, i)
    BY <1>1, <2>1, AboveIsOrder
  <2>3. \/ Cardinality(Higher(i)) < Cardinality(Higher(j))
        \/ Cardinality(Higher(j)) < Cardinality(Higher(i))
    BY <1>1, <2>2, RanksDiffer
  <2>4. QED
    BY <1>3, <1>4, <2>3
<1>5. f \in Surjection(1 .. n, 1 .. n)
  <2>1. f \in [1 .. n -> 1 .. n]
    BY <1>3
  <2>2. \A i, j \in 1 .. n : f[i] = f[j] => i = j
    <3>1. SUFFICES ASSUME NEW i \in 1 .. n, NEW j \in 1 .. n, f[i] = f[j]
                   PROVE  i = j
      OBVIOUS
    <3>2. Cardinality(Higher(i)) + 1 = Cardinality(Higher(j)) + 1
      BY <3>1
    <3>3. Cardinality(Higher(i)) = Cardinality(Higher(j))
      BY <1>3, <3>2
    <3>4. QED
      BY <1>4, <3>3
  <2>3. f \in Injection(1 .. n, 1 .. n)
    BY <2>1, <2>2 DEF Injection, IsInjective
  <2>4. QED
    BY <1>2, <2>3, FS_Injection
<1>6. ASSUME NEW k \in 1 .. n
      PROVE  At(k) \in 1 .. n /\ Cardinality(Higher(At(k))) = k - 1
  <2>1. PICK i \in 1 .. n : f[i] = k
    BY <1>5 DEF Surjection
  <2>2. Cardinality(Higher(i)) = k - 1
    BY <1>3, <2>1
  <2>3. QED
    BY <1>1, <2>2
<1>7. Ranked = [k \in 1 .. n |-> rows[At(k)]]
  BY <1>1 DEF Ranked, Higher
<1> HIDE DEF At, f
<1>8. \A k \in 1 .. n : Ranked[k] \in {rows[i] : i \in DOMAIN rows}
  BY <1>1, <1>6, <1>7
<1>9. ASSUME NEW i \in 1 .. n
      PROVE  \E k \in 1 .. n : Ranked[k] = rows[i]
  <2>1. PICK k \in 1 .. n : k = Cardinality(Higher(i)) + 1
    BY <1>3
  <2>2. Cardinality(Higher(At(k))) = Cardinality(Higher(i))
    BY <1>3, <1>6, <2>1
  <2>3. At(k) = i
    BY <1>4, <1>6, <2>2
  <2>4. QED
    BY <1>7, <2>3
<1>10. DOMAIN Ranked = 1 .. n
  BY <1>7
<1>11. QED
  BY <1>1, <1>8, <1>9, <1>10

-----------------------------------------------------------------------------
(* Ranges *)

Ranges == [start : Nat, end : Nat]

(* What the comment on uncovered_ranges_in_span promises, of a span whose  *)
(* lines were hit or not.                                                  *)
Within(l, x) == x.start <= l /\ l <= x.end
Tiled(r, hit, unhit) ==
    /\ \A k \in 1 .. Len(r) : r[k].start \in unhit /\ r[k].end \in unhit
    /\ \A l \in hit : \A k \in 1 .. Len(r) : ~Within(l, r[k])
    /\ \A l \in unhit : \E k \in 1 .. Len(r) : Within(l, r[k])
    /\ \A k \in 1 .. Len(r) - 1 : \E l \in hit : r[k].end < l /\ l < r[k + 1].start

(* A sequence of ranges with one more.                                     *)
LEMMA Appended ==
    ASSUME NEW c \in Seq(Ranges), NEW x \in Ranges
    PROVE  /\ Append(c, x) \in Seq(Ranges) /\ Len(c) \in Nat
           /\ Len(Append(c, x)) = Len(c) + 1
           /\ \A k \in 1 .. Len(c) : Append(c, x)[k] = c[k] /\ c[k] \in Ranges
           /\ Append(c, x)[Len(c) + 1] = x
           /\ c \o <<x>> = Append(c, x)
<1>1. /\ Append(c, x) \in Seq(Ranges) /\ Len(Append(c, x)) = Len(c) + 1
      /\ \A k \in 1 .. Len(c) : Append(c, x)[k] = c[k]
      /\ Append(c, x)[Len(c) + 1] = x
  BY AppendProperties
<1>2. Len(c) \in Nat /\ \A k \in 1 .. Len(c) : c[k] \in Ranges
  BY LenProperties, ElementOfSeq
<1>3. c \o <<x>> = Append(c, x)
  BY AppendIsConcat
<1>4. QED
  BY <1>1, <1>2, <1>3

(* The runs closed and the one in progress, before a line.                 *)
InOrder(c, o, hit, unhit) ==
    /\ c \in Seq(Ranges)
    /\ \/ /\ o = <<>> /\ Tiled(c, hit, unhit)
          /\ c # <<>> => \E l \in hit : c[Len(c)].end < l
       \/ \E x \in Ranges : /\ o = <<x>> /\ Tiled(Append(c, x), hit, unhit)
                            /\ x.start <= x.end /\ \A l \in hit : l < x.start

(* The runs closed and the one in progress are the ranges so far. *)
LEMMA Together ==
    ASSUME NEW c, NEW o, NEW hit, NEW unhit, InOrder(c, o, hit, unhit)
    PROVE  \E t \in Seq(Ranges) : c \o o = t /\ Tiled(t, hit, unhit)
<1>1. CASE o = <<>> /\ Tiled(c, hit, unhit)
  <2>1. c \in Seq(Ranges)
    BY DEF InOrder
  <2>2. c \o o = c
    BY <1>1, <2>1, ConcatEmptySeq
  <2>3. QED
    BY <1>1, <2>1, <2>2
<1>2. CASE \E x \in Ranges : o = <<x>> /\ Tiled(Append(c, x), hit, unhit)
  BY <1>2, Appended DEF InOrder
<1>3. QED
  BY <1>1, <1>2 DEF InOrder

(* A hit line closes the run in progress. *)
LEMMA HitCloses ==
    ASSUME NEW c, NEW o, NEW hit, NEW unhit, InOrder(c, o, hit, unhit),
           NEW l \in Nat, \A m \in hit \cup unhit : m \in Nat /\ m < l
    PROVE  InOrder(c \o o, <<>>, hit \cup {l}, unhit)
<1>1. PICK t \in Seq(Ranges) : c \o o = t /\ Tiled(t, hit, unhit)
  BY Together
<1>2. Len(t) \in Nat /\ \A k \in 1 .. Len(t) : t[k] \in Ranges
  BY LenProperties, ElementOfSeq
<1>3. \A k \in 1 .. Len(t) : t[k].end < l
  BY <1>1 DEF Tiled
<1>4. \A k \in 1 .. Len(t) : ~Within(l, t[k])
  <2>1. \A k \in 1 .. Len(t) : t[k].end \in Nat /\ t[k].end < l
    BY <1>2, <1>3 DEF Ranges
  <2>2. QED
    BY <2>1 DEF Within
<1>5. Tiled(t, hit \cup {l}, unhit)
  <2>1. \A m \in hit \cup {l} : \A k \in 1 .. Len(t) : ~Within(m, t[k])
    BY <1>1, <1>4 DEF Tiled
  <2>2. \A k \in 1 .. Len(t) - 1 : \E m \in hit \cup {l} : t[k].end < m /\ m < t[k + 1].start
    BY <1>1 DEF Tiled
  <2>3. QED
    BY <1>1, <2>1, <2>2 DEF Tiled
<1>6. t # <<>> => \E m \in hit \cup {l} : t[Len(t)].end < m
  <2>1. t # <<>> => Len(t) \in 1 .. Len(t)
    BY <1>2, EmptySeq
  <2>2. QED
    BY <1>3, <2>1
<1>7. QED
  BY <1>1, <1>5, <1>6 DEF InOrder

(* A line not hit begins a run ... *)
LEMMA UnhitBegins ==
    ASSUME NEW c, NEW hit, NEW unhit, InOrder(c, <<>>, hit, unhit),
           NEW l \in Nat, \A m \in hit \cup unhit : m \in Nat /\ m < l,
           NEW x \in Ranges, x.start = l, x.end = l
    PROVE  InOrder(c, <<x>>, hit, unhit \cup {l})
<1>1. /\ c \in Seq(Ranges) /\ Tiled(c, hit, unhit)
      /\ c # <<>> => \E m \in hit : c[Len(c)].end < m
  <2>1. \A y : <<>> # <<y>>
    OBVIOUS
  <2>2. QED
    BY <2>1 DEF InOrder
<1> DEFINE t == Append(c, x)
           n == Len(c)
<1>2. /\ t \in Seq(Ranges) /\ n \in Nat /\ Len(t) = n + 1 /\ t[n + 1] = x
      /\ \A k \in 1 .. n : t[k] = c[k]
  BY <1>1, Appended
<1>3. \A k \in 1 .. n + 1 : k = n + 1 \/ k \in 1 .. n
  BY <1>2
<1>4. n + 1 \in 1 .. n + 1 /\ \A k \in 1 .. n : k \in 1 .. n + 1
  BY <1>2
<1> HIDE DEF t
<1>5. \A k \in 1 .. n + 1 : t[k].start \in unhit \cup {l} /\ t[k].end \in unhit \cup {l}
  BY <1>1, <1>2, <1>3 DEF Tiled
<1>6. \A m \in hit : \A k \in 1 .. n + 1 : ~Within(m, t[k])
  <2>1. \A m \in hit : ~Within(m, x)
    BY DEF Within
  <2>2. QED
    BY <1>1, <1>2, <1>3, <2>1 DEF Tiled
<1>7. \A m \in unhit \cup {l} : \E k \in 1 .. n + 1 : Within(m, t[k])
  <2>1. Within(l, x)
    BY DEF Within
  <2>2. \A m \in unhit : \E k \in 1 .. n : Within(m, t[k])
    BY <1>1, <1>2 DEF Tiled
  <2>3. QED
    BY <1>2, <1>4, <2>1, <2>2
<1>8. \A k \in 1 .. n : \E m \in hit : t[k].end < m /\ m < t[k + 1].start
  <2>1. SUFFICES ASSUME NEW k \in 1 .. n
                 PROVE  \E m \in hit : t[k].end < m /\ m < t[k + 1].start
    OBVIOUS
  <2>2. CASE k = n
    <3>1. c # <<>>
      BY <1>2, <2>2, EmptySeq
    <3>2. PICK m \in hit : c[n].end < m
      BY <1>1, <3>1
    <3>3. m < x.start
      OBVIOUS
    <3>4. QED
      BY <1>2, <2>2, <3>2, <3>3
  <2>3. CASE k # n
    <3>1. k \in 1 .. n - 1 /\ k + 1 \in 1 .. n
      BY <1>2, <2>3
    <3>2. PICK m \in hit : c[k].end < m /\ m < c[k + 1].start
      BY <1>1, <3>1 DEF Tiled
    <3>3. QED
      BY <1>2, <3>1, <3>2
  <2>4. QED
    BY <2>2, <2>3
<1>9. Tiled(t, hit, unhit \cup {l})
  <2>1. Len(t) = n + 1 /\ Len(t) - 1 = n
    BY <1>2
  <2>2. QED
    BY <1>5, <1>6, <1>7, <1>8, <2>1 DEF Tiled
<1>10. QED
  <2>1. x.start <= x.end /\ \A m \in hit : m < x.start
    OBVIOUS
  <2>2. Tiled(Append(c, x), hit, unhit \cup {l})
    BY <1>9 DEF t
  <2>3. QED
    BY <1>1, <2>1, <2>2 DEF InOrder

(* ... or makes the one in progress longer. *)
LEMMA UnhitExtends ==
    ASSUME NEW c, NEW y, NEW hit, NEW unhit, InOrder(c, <<y>>, hit, unhit),
           NEW l \in Nat, \A m \in hit \cup unhit : m \in Nat /\ m < l,
           NEW x \in Ranges, x.start = y.start, x.end = l
    PROVE  InOrder(c, <<x>>, hit, unhit \cup {l})
<1>1. /\ c \in Seq(Ranges) /\ y \in Ranges /\ Tiled(Append(c, y), hit, unhit)
      /\ y.start <= y.end /\ \A m \in hit : m < y.start
  <2>1. \A z : <<>> # <<y>> /\ (<<z>> = <<y>> => z = y)
    OBVIOUS
  <2>2. QED
    BY <2>1 DEF InOrder
<1> DEFINE s == Append(c, y)
           t == Append(c, x)
           n == Len(c)
<1>2. /\ n \in Nat /\ Len(t) = n + 1 /\ t[n + 1] = x /\ Len(s) = n + 1 /\ s[n + 1] = y
      /\ \A k \in 1 .. n : t[k] = c[k] /\ s[k] = c[k]
  BY <1>1, Appended
<1>3. \A k \in 1 .. n + 1 : k = n + 1 \/ k \in 1 .. n
  BY <1>2
<1>4. n + 1 \in 1 .. n + 1 /\ \A k \in 1 .. n : k \in 1 .. n + 1
  BY <1>2
<1>5. Tiled(s, hit, unhit) /\ Len(s) - 1 = n
  BY <1>1, <1>2
<1> HIDE DEF t, s, n
<1>6. y.start \in unhit /\ y.end \in unhit /\ y.start \in Nat /\ y.end \in Nat /\ y.end < l
  <2>1. y.start \in unhit /\ y.end \in unhit
    BY <1>2, <1>4, <1>5 DEF Tiled
  <2>2. QED
    BY <2>1
<1>7. \A k \in 1 .. n + 1 : t[k].start \in unhit \cup {l} /\ t[k].end \in unhit \cup {l}
  <2>1. \A k \in 1 .. n : t[k].start \in unhit /\ t[k].end \in unhit
    BY <1>2, <1>4, <1>5 DEF Tiled
  <2>2. QED
    BY <1>2, <1>3, <1>6, <2>1
<1>8. \A m \in hit : \A k \in 1 .. n + 1 : ~Within(m, t[k])
  <2>1. \A m \in hit : ~Within(m, x)
    BY <1>1, <1>6 DEF Within
  <2>2. \A m \in hit : \A k \in 1 .. n : ~Within(m, t[k])
    BY <1>2, <1>4, <1>5 DEF Tiled
  <2>3. QED
    BY <1>2, <1>3, <2>1, <2>2
<1>9. \A m \in unhit \cup {l} : \E k \in 1 .. n + 1 : Within(m, t[k])
  <2>1. Within(l, x)
    BY <1>6 DEF Within
  <2>2. \A m \in unhit : Within(m, y) => Within(m, x)
    BY <1>6 DEF Within
  <2>3. \A m \in unhit : \E k \in 1 .. n + 1 : Within(m, s[k])
    BY <1>2, <1>5 DEF Tiled
  <2>4. QED
    BY <1>2, <1>3, <1>4, <2>1, <2>2, <2>3
<1>10. \A k \in 1 .. n : \E m \in hit : t[k].end < m /\ m < t[k + 1].start
  <2>1. SUFFICES ASSUME NEW k \in 1 .. n
                 PROVE  \E m \in hit : t[k].end < m /\ m < t[k + 1].start
    OBVIOUS
  <2>2. PICK m \in hit : s[k].end < m /\ m < s[k + 1].start
    BY <1>5 DEF Tiled
  <2>3. t[k] = s[k] /\ t[k + 1].start = s[k + 1].start
    <3>1. k + 1 = n + 1 \/ k + 1 \in 1 .. n
      BY <1>2
    <3>2. QED
      BY <1>2, <3>1
  <2>4. QED
    BY <2>2, <2>3
<1>11. Tiled(t, hit, unhit \cup {l})
  <2>1. Len(t) = n + 1 /\ Len(t) - 1 = n
    BY <1>2
  <2>2. QED
    BY <1>7, <1>8, <1>9, <1>10, <2>1 DEF Tiled
<1>12. QED
  <2>1. x.start <= x.end /\ \A m \in hit : m < x.start
    BY <1>1, <1>6
  <2>2. Tiled(Append(c, x), hit, unhit \cup {l})
    BY <1>11 DEF t
  <2>3. QED
    BY <1>1, <2>1, <2>2 DEF InOrder

(* The lines of a span so far that were hit, and those that were not.      *)
HitTo(lines, first, l) ==
    {m \in Lines : first <= m /\ m <= l /\ lines[m] # NoData /\ lines[m] # 0}
UnhitTo(lines, first, l) == {m \in Lines : first <= m /\ m <= l /\ lines[m] = 0}

(* UncoveredRanges, line by line. *)
RunsThen(lines, first, before, l) ==
    IF l < first THEN [closed |-> <<>>, open |-> <<>>]
    ELSE IF l \in Lines /\ lines[l] # NoData THEN ExtendRun(lines, before, l)
    ELSE before
IsRuns(r, lines, first, last) ==
    r = [l \in first - 1 .. last |-> RunsThen(lines, first, r[l - 1], l)]

(* The recursion of UncoveredRanges is a function of the lines ...         *)
LEMMA RangesAreRuns ==
    ASSUME NEW lines, NEW first, NEW last, \E r : IsRuns(r, lines, first, last)
    PROVE  \E r : /\ IsRuns(r, lines, first, last)
                  /\ UncoveredRanges(lines, first, last) = r[last].closed \o r[last].open
<1> DEFINE r == CHOOSE r : IsRuns(r, lines, first, last)
<1>1. IsRuns(r, lines, first, last)
  OBVIOUS
<1>2. UncoveredRanges(lines, first, last) = r[last].closed \o r[last].open
  BY DEF UncoveredRanges, IsRuns, RunsThen
<1>3. QED
  BY <1>1, <1>2

(* ... which there is for any span.                                        *)
LEMMA RunsExist ==
    ASSUME NEW lines, NEW first \in Nat, NEW last \in Nat, first <= last
    PROVE  \E r : IsRuns(r, lines, first, last)
<1> DEFINE D == first - 1 .. last
           Upto(r, n) == \A l \in D : l <= first - 1 + n => r[l] = RunsThen(lines, first, r[l - 1], l)
           G == {n \in Nat : \E r : Upto(r, n)}
<1>1. \A b, l : l \in D /\ l < first => RunsThen(lines, first, b, l) = [closed |-> <<>>, open |-> <<>>]
  BY DEF RunsThen
<1>2. 0 \in G
  <2> DEFINE z == [l \in D |-> [closed |-> <<>>, open |-> <<>>]]
  <2>1. \A l \in D : l <= first - 1 + 0 => l < first
    OBVIOUS
  <2>2. Upto(z, 0)
    BY <1>1, <2>1
  <2> HIDE DEF Upto, z
  <2>3. QED
    BY <2>2
<1>3. ASSUME NEW n \in Nat, n \in G
      PROVE  n + 1 \in G
  <2>1. PICK r : Upto(r, n)
    BY <1>3
  <2> DEFINE h == [l \in D |-> RunsThen(lines, first, r[l - 1], l)]
  <2>2. \A l \in D : l <= first - 1 + n => h[l] = r[l]
    BY <2>1
  <2>3. \A l \in D : h[l] = RunsThen(lines, first, r[l - 1], l)
    OBVIOUS
  <2>4. \A l \in D : ~(l < first) /\ l <= first - 1 + (n + 1) => l - 1 \in D /\ l - 1 <= first - 1 + n
    OBVIOUS
  <2> HIDE DEF h, D
  <2>5. ASSUME NEW l \in D, l <= first - 1 + (n + 1)
        PROVE  h[l] = RunsThen(lines, first, h[l - 1], l)
    <3>1. CASE l < first
      BY <1>1, <2>3, <3>1
    <3>2. CASE ~(l < first)
      <4>1. h[l - 1] = r[l - 1]
        BY <2>2, <2>4, <2>5, <3>2
      <4>2. QED
        BY <2>3, <4>1
    <3>3. QED
      BY <3>1, <3>2
  <2>6. Upto(h, n + 1)
    BY <2>5
  <2> HIDE DEF Upto
  <2>7. QED
    BY <2>6
<1>4. last - first + 1 \in G
  <2> HIDE DEF G
  <2>1. Nat \subseteq G
    BY <1>2, <1>3, FromZero
  <2>2. last - first + 1 \in Nat
    OBVIOUS
  <2>3. QED
    BY <2>1, <2>2
<1>5. PICK r : Upto(r, last - first + 1)
  BY <1>4
<1>6. \A l \in D : l <= first - 1 + (last - first + 1)
  OBVIOUS
<1> DEFINE h == [l \in D |-> r[l]]
<1>7. \A l \in D : r[l] = RunsThen(lines, first, r[l - 1], l)
  BY <1>5, <1>6
<1>8. \A l \in D : RunsThen(lines, first, h[l - 1], l) = RunsThen(lines, first, r[l - 1], l)
  <2>1. \A l \in D : ~(l < first) => l - 1 \in D
    OBVIOUS
  <2>2. \A l \in D : ~(l < first) => h[l - 1] = r[l - 1]
    BY <2>1
  <2> HIDE DEF h, D
  <2>3. QED
    BY <1>1, <2>2
<1>9. h = [l \in D |-> RunsThen(lines, first, h[l - 1], l)]
  BY <1>7, <1>8
<1>10. QED
  BY <1>9 DEF IsRuns

(* One line more. *)
LEMMA OneLine ==
    ASSUME NumbersAssumption, NEW lines \in LineData, NEW first \in Nat, NEW l \in Nat, first <= l,
           NEW c, NEW o, InOrder(c, o, HitTo(lines, first, l - 1), UnhitTo(lines, first, l - 1))
    PROVE  \E d, p : /\ RunsThen(lines, first, [closed |-> c, open |-> o], l)
                          = [closed |-> d, open |-> p]
                     /\ InOrder(d, p, HitTo(lines, first, l), UnhitTo(lines, first, l))
<1> DEFINE hit == HitTo(lines, first, l - 1)
           unhit == UnhitTo(lines, first, l - 1)
           before == [closed |-> c, open |-> o]
<1>1. /\ Lines \subseteq Nat /\ NoData \notin Nat
      /\ \A m \in Nat : m <= l <=> m <= l - 1 \/ m = l
  BY DEF NumbersAssumption
<1>2. \A m \in hit \cup unhit : m \in Nat /\ m < l
  BY <1>1 DEF HitTo, UnhitTo
<1>3. ~(l < first) /\ (0 = NoData => FALSE)
  BY <1>1
<1>4. CASE ~(l \in Lines /\ lines[l] # NoData)
  <2>1. RunsThen(lines, first, before, l) = before
    BY <1>3, <1>4 DEF RunsThen
  <2>2. HitTo(lines, first, l) = hit
    BY <1>1, <1>4 DEF HitTo
  <2>3. UnhitTo(lines, first, l) = unhit
    BY <1>1, <1>3, <1>4 DEF UnhitTo
  <2>4. QED
    BY <2>1, <2>2, <2>3
<1>5. CASE l \in Lines /\ lines[l] # NoData /\ lines[l] # 0
  <2>1. RunsThen(lines, first, before, l) = [closed |-> c \o o, open |-> <<>>]
    BY <1>3, <1>5 DEF RunsThen, ExtendRun
  <2>2. HitTo(lines, first, l) = hit \cup {l}
    BY <1>1, <1>5 DEF HitTo
  <2>3. UnhitTo(lines, first, l) = unhit
    BY <1>1, <1>5 DEF UnhitTo
  <2> HIDE DEF hit, unhit
  <2>4. InOrder(c \o o, <<>>, hit \cup {l}, unhit)
    BY <1>2, HitCloses DEF hit, unhit
  <2>5. QED
    BY <2>1, <2>2, <2>3, <2>4
<1>6. CASE l \in Lines /\ lines[l] = 0
  <2>1. RunsThen(lines, first, before, l)
          = [closed |-> c,
             open |-> <<[start |-> IF o = <<>> THEN l ELSE o[1].start, end |-> l]>>]
    BY <1>3, <1>6 DEF RunsThen, ExtendRun
  <2>2. HitTo(lines, first, l) = hit
    BY <1>1, <1>6 DEF HitTo
  <2>3. UnhitTo(lines, first, l) = unhit \cup {l}
    BY <1>1, <1>6 DEF UnhitTo
  <2> DEFINE x == [start |-> IF o = <<>> THEN l ELSE o[1].start, end |-> l]
  <2>4. InOrder(c, o, hit, unhit)
    OBVIOUS
  <2> HIDE DEF hit, unhit
  <2>5. InOrder(c, <<x>>, hit, unhit \cup {l})
    <3>1. CASE o = <<>>
      <4>1. x = [start |-> l, end |-> l]
        BY <3>1
      <4>2. x \in Ranges /\ x.start = l /\ x.end = l
        BY <4>1 DEF Ranges
      <4> HIDE DEF x
      <4>3. InOrder(c, <<>>, hit, unhit)
        BY <2>4, <3>1
      <4>4. QED
        BY <1>2, <4>2, <4>3, UnhitBegins
    <3>2. CASE \E y \in Ranges : o = <<y>>
      <4>1. PICK y \in Ranges : o = <<y>>
        BY <3>2
      <4>2. <<y>> # <<>> /\ <<y>>[1] = y
        OBVIOUS
      <4>3. x = [start |-> y.start, end |-> l]
        BY <4>1, <4>2
      <4>4. x \in Ranges /\ x.start = y.start /\ x.end = l
        BY <4>3 DEF Ranges
      <4> HIDE DEF x
      <4>5. InOrder(c, <<y>>, hit, unhit)
        BY <2>4, <4>1
      <4>6. QED
        BY <1>2, <4>4, <4>5, UnhitExtends
    <3>3. QED
      BY <2>4, <3>1, <3>2 DEF InOrder
  <2> HIDE DEF x
  <2>6. RunsThen(lines, first, before, l) = [closed |-> c, open |-> <<x>>]
    BY <2>1 DEF x
  <2>7. QED
    BY <2>2, <2>3, <2>5, <2>6
<1>7. QED
  BY <1>4, <1>5, <1>6

(* The runs are in order at every line of the span.                        *)
LEMMA RunsInOrder ==
    ASSUME NumbersAssumption, NEW lines \in LineData, NEW first \in Nat, NEW last \in Nat,
           first <= last, NEW r, IsRuns(r, lines, first, last)
    PROVE  \E c, o : /\ r[last] = [closed |-> c, open |-> o]
                     /\ InOrder(c, o, HitTo(lines, first, last), UnhitTo(lines, first, last))
<1> DEFINE Good(l) == \E c, o : /\ r[l] = [closed |-> c, open |-> o]
                                /\ InOrder(c, o, HitTo(lines, first, l), UnhitTo(lines, first, l))
           G == {n \in Nat : first - 1 + n <= last => Good(first - 1 + n)}
<1>1. \A l \in first - 1 .. last : r[l] = RunsThen(lines, first, r[l - 1], l)
  BY DEF IsRuns
<1>2. 0 \in G
  <2>1. /\ first - 1 \in first - 1 .. last /\ first - 1 < first /\ first - 1 + 0 = first - 1
        /\ \A m \in Nat : ~(first <= m /\ m <= first - 1)
    <3>1. first - 1 \in first - 1 .. last /\ first - 1 < first
      OBVIOUS
    <3>2. first - 1 + 0 = first - 1
      OBVIOUS
    <3>3. \A m \in Nat : ~(first <= m /\ m <= first - 1)
      OBVIOUS
    <3>4. QED
      BY <3>1, <3>2, <3>3
  <2>2. r[first - 1] = [closed |-> <<>>, open |-> <<>>]
    BY <1>1, <2>1 DEF RunsThen
  <2>3. HitTo(lines, first, first - 1) = {} /\ UnhitTo(lines, first, first - 1) = {}
    BY <2>1 DEF HitTo, UnhitTo, NumbersAssumption
  <2>4. InOrder(<<>>, <<>>, {}, {})
    <3>1. /\ <<>> \in Seq(Ranges) /\ Len(<<>>) = 0
          /\ \A k \in 1 .. 0 : FALSE
          /\ \A k \in 1 .. 0 - 1 : FALSE
      BY EmptySeq
    <3>2. Tiled(<<>>, {}, {})
      BY <3>1 DEF Tiled
    <3>3. QED
      BY <3>1, <3>2 DEF InOrder
  <2>5. Good(first - 1)
    BY <2>2, <2>3, <2>4
  <2> HIDE DEF Good
  <2>6. QED
    BY <2>1, <2>5
<1>3. ASSUME NEW n \in Nat, n \in G
      PROVE  n + 1 \in G
  <2> HIDE DEF Good
  <2>1. SUFFICES ASSUME first - 1 + (n + 1) <= last
                 PROVE  Good(first - 1 + (n + 1))
    OBVIOUS
  <2> DEFINE l == first - 1 + (n + 1)
  <2>2. /\ l \in Nat /\ first <= l /\ l \in first - 1 .. last
        /\ l - 1 = first - 1 + n /\ first - 1 + n <= last
    BY <2>1
  <2>3. Good(l - 1)
    BY <1>3, <2>2
  <2> HIDE DEF l
  <2>4. PICK c, o : /\ r[l - 1] = [closed |-> c, open |-> o]
                    /\ InOrder(c, o, HitTo(lines, first, l - 1), UnhitTo(lines, first, l - 1))
    BY <2>3 DEF Good
  <2>5. r[l] = RunsThen(lines, first, [closed |-> c, open |-> o], l)
    BY <1>1, <2>2, <2>4
  <2>6. Good(l)
    BY <2>2, <2>4, <2>5, OneLine DEF Good
  <2>7. QED
    BY <2>6 DEF l
<1>4. last - first + 1 \in Nat /\ first - 1 + (last - first + 1) = last
  OBVIOUS
<1>5. last - first + 1 \in G
  <2> HIDE DEF G
  <2>1. Nat \subseteq G
    BY <1>2, <1>3, FromZero
  <2>2. QED
    BY <1>4, <2>1
<1> HIDE DEF Good
<1>6. Good(last)
  BY <1>4, <1>5
<1>7. QED
  BY <1>6 DEF Good

(* What the ranges of a span are. *)
LEMMA RangesTile ==
    ASSUME NumbersAssumption, NEW lines \in LineData, NEW first \in Nat, NEW last \in Nat, first <= last
    PROVE  LET t == UncoveredRanges(lines, first, last) IN
           /\ t \in Seq(Ranges)
           /\ Tiled(t, HitTo(lines, first, last), UnhitTo(lines, first, last))
           /\ t = <<>> <=> UnhitTo(lines, first, last) = {}
<1> DEFINE hit == HitTo(lines, first, last)
           unhit == UnhitTo(lines, first, last)
<1>1. PICK r : /\ IsRuns(r, lines, first, last)
               /\ UncoveredRanges(lines, first, last) = r[last].closed \o r[last].open
  BY RunsExist, RangesAreRuns
<1>2. PICK c, o : r[last] = [closed |-> c, open |-> o] /\ InOrder(c, o, hit, unhit)
  BY <1>1, RunsInOrder
<1>3. UncoveredRanges(lines, first, last) = c \o o
  BY <1>1, <1>2
<1> HIDE DEF hit, unhit
<1>4. PICK t \in Seq(Ranges) : c \o o = t /\ Tiled(t, hit, unhit)
  BY <1>2, Together
<1>5. t = <<>> => unhit = {}
  <2>1. \A k \in 1 .. Len(<<>>) : FALSE
    OBVIOUS
  <2>2. QED
    BY <1>4, <2>1 DEF Tiled
<1>6. t # <<>> => unhit # {}
  <2>1. t # <<>> => 1 \in 1 .. Len(t)
    BY LenProperties, EmptySeq
  <2>2. QED
    BY <1>4, <2>1 DEF Tiled
<1>7. QED
  BY <1>3, <1>4, <1>5, <1>6 DEF hit, unhit

-----------------------------------------------------------------------------
(* What the rows tell. *)

(* What a file's lines add up to is line data.                             *)
LEMMA LinesOfType ==
    ASSUME input \in Inputs, NEW f
    PROVE  LinesOf(f) \in LineData
<1>1. NoFile \notin Speaking(f)
  <2>1. Declared \subseteq Spellings
    BY InputTypes DEF Declared
  <2>2. Speaking(f) \subseteq Declared
    BY DEF Speaking, Aliases, Endings
  <2>3. QED
    BY <2>1, <2>2, PathsAssumption
<1>2. \A l : HitsOf(f, l) \in 0 .. MaxHits \cup {NoData}
  BY <1>1, HitsUnderMore DEF HitsOf
<1>3. QED
  BY <1>2 DEF LinesOf, LineData

(* The lines of a function that were hit, and those that were not, are     *)
(* what its row was read off.                                              *)
LEMMA SpansAgree ==
    ASSUME input \in Inputs, NEW g
    PROVE  LET lines == LinesOf(g.file) IN
           /\ HitIn(g) = HitTo(lines, g.first, g.last)
           /\ UnhitIn(g) = UnhitTo(lines, g.first, g.last)
           /\ Instrumented(lines, g.first, g.last) = HitIn(g) \cup UnhitIn(g)
           /\ HitIn(g) = {l \in Instrumented(lines, g.first, g.last) : lines[l] > 0}
           /\ UnhitIn(g) = {l \in Instrumented(lines, g.first, g.last) : ~(lines[l] > 0)}
<1> DEFINE lines == LinesOf(g.file)
<1>1. \A l \in Lines : lines[l] = HitsOf(g.file, l) /\ lines[l] \in 0 .. MaxHits \cup {NoData}
  BY LinesOfType DEF LinesOf, LineData
<1> HIDE DEF lines
<1>2. NoData # 0 /\ MaxHits \in Nat
  BY NumbersAssumption
<1>3. \A n \in 0 .. MaxHits : n > 0 <=> n # 0
  BY <1>2
<1>4. \A l \in Lines :
        LET n == HitsOf(g.file, l) IN
        /\ n # NoData /\ n > 0 <=> lines[l] # NoData /\ lines[l] # 0
        /\ n = 0 <=> lines[l] # NoData /\ ~(lines[l] > 0)
        /\ n = 0 <=> lines[l] = 0
        /\ n # NoData /\ n > 0 <=> lines[l] # NoData /\ lines[l] > 0
  BY <1>1, <1>2, <1>3
<1>5. HitIn(g) = HitTo(lines, g.first, g.last)
  BY <1>4 DEF HitIn, Span, HitTo
<1>6. UnhitIn(g) = UnhitTo(lines, g.first, g.last)
  BY <1>4 DEF UnhitIn, Span, UnhitTo
<1>7. /\ HitIn(g) = {l \in Instrumented(lines, g.first, g.last) : lines[l] > 0}
      /\ UnhitIn(g) = {l \in Instrumented(lines, g.first, g.last) : ~(lines[l] > 0)}
  BY <1>4 DEF HitIn, UnhitIn, Span, Instrumented
<1>8. QED
  BY <1>5, <1>6, <1>7 DEF lines

(* A row of a function that something speaks for. *)
LEMMA RowTells ==
    ASSUME input \in Inputs, NEW i \in DOMAIN input.functions,
           NEW e, Tells(e, input.functions[i]), Speaking(input.functions[i].file) # {}
    PROVE  LET g == input.functions[i]
               r == e.uncovered
               all == HitIn(g) \cup UnhitIn(g)
           IN /\ e.coverage # Unknown
              /\ e.coverage = IF all = {} THEN <<1, 1>>
                              ELSE <<Cardinality(HitIn(g)), Cardinality(all)>>
              /\ r \in Seq(Ranges)
              /\ Tiled(r, HitIn(g), UnhitIn(g))
              /\ r = <<>> <=> e.coverage[1] = e.coverage[2]
<1> DEFINE g == input.functions[i]
           r == e.uncovered
           lines == LinesOf(g.file)
           all == Instrumented(lines, g.first, g.last)
<1>1. /\ e.coverage = CoverageInSpan(lines, g.first, g.last)
      /\ r = UncoveredRanges(lines, g.first, g.last)
  BY DEF Tells
<1>2. g.first \in Nat /\ g.last \in Nat /\ g.first <= g.last
  BY FunctionsAreFunctions
<1>3. /\ HitIn(g) = HitTo(lines, g.first, g.last)
      /\ UnhitIn(g) = UnhitTo(lines, g.first, g.last)
      /\ all = HitIn(g) \cup UnhitIn(g)
      /\ HitIn(g) = {l \in all : lines[l] > 0}
      /\ UnhitIn(g) = {l \in all : ~(lines[l] > 0)}
  BY SpansAgree
<1>4. lines \in LineData
  BY LinesOfType
<1> HIDE DEF g, lines, r
<1>5. e.coverage = IF all = {} THEN <<1, 1>>
                   ELSE <<Cardinality({l \in all : lines[l] > 0}), Cardinality(all)>>
  BY <1>1 DEF CoverageInSpan
<1>6. Proportion(e.coverage) /\ (e.coverage[1] = e.coverage[2] <=> \A l \in all : lines[l] > 0)
  <2> DEFINE c == CoverageInSpan(lines, g.first, g.last)
  <2>1. Proportion(c) /\ (c[1] = c[2] <=> \A l \in all : lines[l] > 0)
    BY <1>2, CoverageIsProportion
  <2> HIDE DEF c
  <2>2. QED
    BY <1>1, <2>1 DEF c
<1>7. e.coverage # Unknown
  <2>1. e.coverage \in Nat \X Nat
    BY <1>6 DEF Proportion
  <2>2. QED
    BY <2>1, NumbersAssumption
<1>8. r \in Seq(Ranges) /\ Tiled(r, HitIn(g), UnhitIn(g)) /\ (r = <<>> <=> UnhitIn(g) = {})
  BY <1>1, <1>2, <1>3, <1>4, NumbersAssumption, RangesTile
<1>9. UnhitIn(g) = {} <=> \A l \in all : lines[l] > 0
  BY <1>3
<1>10. e.coverage = IF HitIn(g) \cup UnhitIn(g) = {} THEN <<1, 1>>
                    ELSE <<Cardinality(HitIn(g)), Cardinality(HitIn(g) \cup UnhitIn(g))>>
  BY <1>3, <1>5
<1>11. QED
  BY <1>6, <1>7, <1>8, <1>9, <1>10 DEF g, r

(* What was hit and not is tiled by the ranges, as RangesExact puts it.    *)
LEMMA TiledIsExact ==
    ASSUME NEW r \in Seq(Ranges), NEW hit, NEW unhit, Tiled(r, hit, unhit)
    PROVE  /\ \A k \in DOMAIN r : {r[k].start, r[k].end} \subseteq unhit
           /\ \A l \in hit : \A k \in DOMAIN r : ~(r[k].start <= l /\ l <= r[k].end)
           /\ \A l \in unhit : \E k \in DOMAIN r : r[k].start <= l /\ l <= r[k].end
           /\ \A k \in 1 .. Len(r) - 1 : \E l \in hit : r[k].end < l /\ l < r[k + 1].start
<1>1. DOMAIN r = 1 .. Len(r)
  BY LenProperties
<1>2. \A k \in DOMAIN r : {r[k].start, r[k].end} \subseteq unhit
  BY <1>1 DEF Tiled
<1>3. QED
  BY <1>1, <1>2, Zenon DEF Tiled, Within

(* The entries are the rows, and tell of every function.                   *)
LEMMA TellingRows ==
    ASSUME TypeOK, RowsRead, pc = "done"
    PROVE  /\ \A e \in Entries : \E i \in DOMAIN input.functions : Tells(e, input.functions[i])
           /\ \A i \in DOMAIN input.functions :
                \/ input.policy = "skip" /\ Speaking(input.functions[i].file) = {}
                \/ \E e \in Entries : e.function = input.functions[i]
<1>1. Entries = {rows[k] : k \in DOMAIN rows}
  BY RankedIsTheRows DEF RowsRead, Entries
<1>2. Passed = DOMAIN input.functions
  BY DEF RowsRead
<1>3. QED
  BY <1>1, <1>2 DEF RowsRead

(* EntriesInv and IInv hold together. *)
LEMMA EntriesInvariance == Spec => [](IInv /\ EntriesInv)
<1>1. Init => EntriesInv
  BY InitLines, InitIndexed, InitRows DEF EntriesInv
<1>2. IInv /\ EntriesInv /\ [Next]_vars => EntriesInv'
  BY NextLines, NextIndexed, NextRows DEF IInv, EntriesInv
<1>3. QED
  BY <1>1, <1>2, Invariance, PTL DEF Spec

(* "Identical inputs must produce identical scores": for any report, any   *)
(* functions and any order the index is walked in, a function's coverage   *)
(* is what the report says of its lines under every spelling that speaks   *)
(* for its file, and its ranges are the maximal runs of lines not hit      *)
(* (parse_lcov, PathIndex, merge, uncovered_ranges_in_span).               *)
THEOREM EntriesExact == Spec => []EntriesTell
<1>1. IInv /\ EntriesInv => EntriesTell
  <2>1. SUFFICES ASSUME IInv, EntriesInv, pc = "done"
                 PROVE  EntriesTell
    BY DEF EntriesTell, CoverageIsTheReports, RangesExact
  <2>2. TypeOK /\ RowsRead /\ input \in Inputs
    <3>1. TypeOK /\ RowsRead
      BY <2>1 DEF IInv, EntriesInv
    <3>2. QED
      BY <3>1 DEF TypeOK
  <2>3. \A e \in Entries : \E i \in DOMAIN input.functions : Tells(e, input.functions[i])
    BY <2>1, <2>2, TellingRows
  <2>4. CoverageIsTheReports
    <3>1. SUFFICES ASSUME NEW i \in DOMAIN input.functions
                   PROVE  LET g == input.functions[i]
                              own == {e \in Entries : e.function = g}
                              all == HitIn(g) \cup UnhitIn(g)
                          IN IF Speaking(g.file) = {}
                               THEN IF input.policy = "skip" THEN own = {}
                                    ELSE own # {} /\ \A e \in own : e.coverage = Unknown
                               ELSE own # {} /\ \A e \in own :
                                      e.coverage = IF all = {} THEN <<1, 1>>
                                                   ELSE <<Cardinality(HitIn(g)), Cardinality(all)>>
      BY DEF CoverageIsTheReports
    <3> DEFINE g == input.functions[i]
               own == {e \in Entries : e.function = g}
               all == HitIn(g) \cup UnhitIn(g)
    <3>2. \A e \in own : Tells(e, g)
      BY <2>3 DEF Tells
    <3>3. (input.policy = "skip" /\ Speaking(g.file) = {}) \/ own # {}
      BY <2>1, <2>2, TellingRows
    <3> HIDE DEF own
    <3>4. CASE Speaking(g.file) = {}
      BY <3>2, <3>3, <3>4 DEF Tells, own
    <3>5. CASE Speaking(g.file) # {}
      <4>1. \A e \in own : e.coverage = IF all = {} THEN <<1, 1>>
                                        ELSE <<Cardinality(HitIn(g)), Cardinality(all)>>
        BY <2>2, <3>2, <3>5, RowTells
      <4>2. QED
        BY <3>3, <3>5, <4>1 DEF own
    <3>6. QED
      BY <3>4, <3>5
  <2>5. RangesExact
    <3>1. SUFFICES ASSUME NEW e \in Entries
                   PROVE  LET g == e.function
                              r == e.uncovered
                              inside(l, k) == r[k].start <= l /\ l <= r[k].end
                          IN IF e.coverage = Unknown THEN r = <<>>
                             ELSE /\ \A k \in DOMAIN r : {r[k].start, r[k].end} \subseteq UnhitIn(g)
                                  /\ \A l \in HitIn(g) : \A k \in DOMAIN r : ~inside(l, k)
                                  /\ \A l \in UnhitIn(g) : \E k \in DOMAIN r : inside(l, k)
                                  /\ \A k \in 1 .. Len(r) - 1 :
                                       \E l \in HitIn(g) : r[k].end < l /\ l < r[k + 1].start
                                  /\ r = <<>> <=> e.coverage[1] = e.coverage[2]
      BY DEF RangesExact
    <3>2. PICK i \in DOMAIN input.functions : Tells(e, input.functions[i])
      BY <2>3
    <3>3. e.function = input.functions[i]
      BY <3>2 DEF Tells
    <3>4. CASE Speaking(input.functions[i].file) = {}
      BY <3>2, <3>4 DEF Tells
    <3>5. CASE Speaking(input.functions[i].file) # {}
      <4>1. /\ e.coverage # Unknown /\ e.uncovered \in Seq(Ranges)
            /\ Tiled(e.uncovered, HitIn(e.function), UnhitIn(e.function))
            /\ e.uncovered = <<>> <=> e.coverage[1] = e.coverage[2]
        BY <2>2, <3>2, <3>3, <3>5, RowTells
      <4>2. QED
        BY <4>1, TiledIsExact
    <3>6. QED
      BY <3>4, <3>5
  <2>6. QED
    BY <2>4, <2>5 DEF EntriesTell
<1>2. QED
  BY <1>1, EntriesInvariance, PTL
=============================================================================
