---------------------------- MODULE Delta_proofs ----------------------------
(***************************************************************************)
(* Proofs about Delta: for all inputs, whatever the files, names and lines *)
(* and in every order of the names, the three passes pair no baseline      *)
(* function twice, lose none, leave no lone pair behind, pass over no      *)
(* closer candidate, and take none for another under another root.         *)
(***************************************************************************)
EXTENDS Delta, FiniteSetTheorems, SequenceTheorems, TLAPS

-----------------------------------------------------------------------------
(* Where the pieces of an input live. *)
LEMMA Shapes ==
    ASSUME TypeOK
    PROVE  /\ current \in Seq(Entry) /\ baseline \in Seq(Entry)
           /\ \A i \in DOMAIN current : i \in Nat \ {0} /\ current[i] \in Entry
           /\ \A b \in DOMAIN baseline : b \in Nat \ {0} /\ baseline[b] \in Entry
           /\ \A i \in DOMAIN current : CurrentKey(i) \in Files \X Names \X Lines
           /\ \A b \in DOMAIN baseline : BaselineKey(b) \in Files \X Names \X Lines
           /\ \A i \in DOMAIN current, b \in DOMAIN baseline :
                CurrentKey(i) = BaselineKey(b) => current[i].function = baseline[b].function
           /\ \A b, c \in DOMAIN baseline :
                BaselineKey(b) = BaselineKey(c) => baseline[b].function = baseline[c].function
<1>1. current \in Seq(Entry) /\ baseline \in Seq(Entry)
  BY InputsAssumption DEF TypeOK, input
<1>2. /\ \A i \in DOMAIN current : i \in Nat \ {0} /\ current[i] \in Entry
      /\ \A b \in DOMAIN baseline : b \in Nat \ {0} /\ baseline[b] \in Entry
  BY <1>1
<1>3. QED
  BY <1>1, <1>2 DEF Entry, CurrentKey, BaselineKey, Key

LEMMA FileLength == \A f \in Files : Len(f) \in Nat
<1>1. SUFFICES ASSUME NEW f \in Files PROVE Len(f) \in Nat
  OBVIOUS
<1>2. f \in Seq(Components(f))
  BY InputsAssumption
<1> QED
  BY <1>2

(* The length of a common tail is a number, and the same from both sides. *)
LEMMA SuffixLength ==
    ASSUME NEW x, NEW y, Len(x) \in Nat, Len(y) \in Nat
    PROVE  Suffix(x, y) \in Nat /\ Suffix(x, y) = Suffix(y, x)
<1> DEFINE common == {n \in 1 .. Len(x) : n <= Len(y) /\ SameTail(x, y, n)}
<1>1. IsFiniteSet(common)
  <2>1. IsFiniteSet(1 .. Len(x))
    BY FS_Interval
  <2>2. QED
    BY <2>1, FS_Subset
<1>2. common = {n \in 1 .. Len(y) : n <= Len(x) /\ SameTail(y, x, n)}
  BY DEF SameTail
<1>3. QED
  BY <1>1, <1>2, FS_CardinalityType DEF Suffix

LEMMA Tails ==
    ASSUME TypeOK
    PROVE  \A i \in DOMAIN current, b \in DOMAIN baseline :
             LET x == current[i].file
                 y == baseline[b].file
             IN Suffix(x, y) \in Nat /\ Suffix(x, y) = Suffix(y, x)
<1> SUFFICES ASSUME NEW i \in DOMAIN current, NEW b \in DOMAIN baseline
             PROVE  LET x == current[i].file
                        y == baseline[b].file
                    IN Suffix(x, y) \in Nat /\ Suffix(x, y) = Suffix(y, x)
  OBVIOUS
<1>1. current[i] \in Entry /\ baseline[b] \in Entry
  BY Shapes
<1>2. Len(current[i].file) \in Nat /\ Len(baseline[b].file) \in Nat
  BY <1>1, FileLength DEF Entry
<1>3. QED
  BY <1>2, SuffixLength

(* Mutual choice is one to one. *)
LEMMA MutualIsOneToOne ==
    ASSUME TypeOK, NEW n,
           NEW i \in Fresh(n), NEW j \in Fresh(n), NEW b \in Loose(n), NEW c \in Loose(n),
           Mutual(n, i, b), Mutual(n, j, c)
    PROVE  (i = j) <=> (b = c)
<1>1. /\ Fresh(n) \subseteq DOMAIN current /\ Loose(n) \subseteq DOMAIN baseline
  BY DEF TypeOK, Fresh, Loose
<1>2. \A k \in Fresh(n), d \in Loose(n) :
        /\ Suffix(current[k].file, baseline[d].file) \in Nat
        /\ Suffix(baseline[d].file, current[k].file) \in Nat
  BY <1>1, Tails
<1>3. ASSUME i = j PROVE b = c
  BY <1>2, <1>3 DEF Mutual, Best
<1>4. ASSUME b = c PROVE i = j
  BY <1>2, <1>4 DEF Mutual, Best
<1>5. QED
  BY <1>3, <1>4

-----------------------------------------------------------------------------
(* What one name's turn does in either pass: some of its fresh entries get *)
(* distinct loose partners of the same name, and these are marked.         *)
Gained(i) == paired'[i] # paired[i]
PairsUp(n) ==
    /\ n \in todo /\ todo' = todo \ {n}
    /\ pc \in {"suffix", "name"} /\ pc' = pc
    /\ paired' \in [DOMAIN current -> {0} \cup DOMAIN baseline]
    /\ \A i \in DOMAIN current : Gained(i) => i \in Fresh(n) /\ paired'[i] \in Loose(n)
    /\ \A i, j \in DOMAIN current :
         Gained(i) /\ Gained(j) /\ paired'[i] = paired'[j] => i = j
    /\ matched' = matched \cup
         {BaselineKey(paired'[i]) : i \in {j \in DOMAIN current : Gained(j)}}
    /\ UNCHANGED <<current, baseline, fresh, loose, removed>>

LEMMA SuffixNamePairsUp ==
    ASSUME IInv, NEW n, SuffixName(n)
    PROVE  PairsUp(n)
<1>0. TypeOK /\ Snapshot
  BY DEF IInv
<1>1. /\ Fresh(n) \subseteq DOMAIN current /\ Loose(n) \subseteq DOMAIN baseline
      /\ \A b \in DOMAIN baseline : b # 0
  BY <1>0, Shapes DEF TypeOK, Fresh, Loose
<1>2. \A i \in Fresh(n) : paired[i] = 0
  BY <1>0 DEF SuffixName, Snapshot, New
<1>3. \A i \in DOMAIN current :
        paired'[i] = IF i \in Fresh(n) /\ \E b \in Loose(n) : Mutual(n, i, b)
                       THEN CHOOSE b \in Loose(n) : Mutual(n, i, b) ELSE paired[i]
  BY DEF SuffixName
<1>4. \A i \in DOMAIN current : Gained(i) <=> i \in Fresh(n) /\ \E b \in Loose(n) : Mutual(n, i, b)
  BY <1>1, <1>2, <1>3 DEF Gained
<1>5. \A i \in DOMAIN current : Gained(i) =>
        i \in Fresh(n) /\ paired'[i] \in Loose(n) /\ Mutual(n, i, paired'[i])
  BY <1>3, <1>4
<1>6. \A i, j \in DOMAIN current : Gained(i) /\ Gained(j) /\ paired'[i] = paired'[j] => i = j
  BY <1>0, <1>5, MutualIsOneToOne
<1>7. {b \in Loose(n) : \E i \in Fresh(n) : Mutual(n, i, b)}
        = {paired'[i] : i \in {j \in DOMAIN current : Gained(j)}}
  <2>1. ASSUME NEW b \in Loose(n), NEW i \in Fresh(n), Mutual(n, i, b)
        PROVE  Gained(i) /\ paired'[i] = b
    <3>1. Gained(i)
      BY <1>1, <1>4, <2>1
    <3>2. QED
      BY <3>1, <2>1, <1>0, <1>1, <1>5, MutualIsOneToOne
  <2>2. QED
    BY <2>1, <1>1, <1>5
<1>8. matched' = matched \cup {BaselineKey(paired'[i]) : i \in {j \in DOMAIN current : Gained(j)}}
  <2> DEFINE partners == {b \in Loose(n) : \E i \in Fresh(n) : Mutual(n, i, b)}
             gainers == {j \in DOMAIN current : Gained(j)}
  <2>1. matched' = matched \cup {BaselineKey(b) : b \in partners}
    BY DEF SuffixName
  <2>2. partners = {paired'[i] : i \in gainers}
    BY <1>7
  <2>3. {BaselineKey(b) : b \in partners} = {BaselineKey(paired'[i]) : i \in gainers}
    <3> HIDE DEF partners, gainers
    <3>1. QED
      BY <2>2
  <2>4. QED
    BY <2>1, <2>3
<1>9. paired' \in [DOMAIN current -> {0} \cup DOMAIN baseline]
  <2>1. \A i \in DOMAIN current : paired'[i] \in {0} \cup DOMAIN baseline
    BY <1>0, <1>1, <1>5 DEF Gained, TypeOK
  <2>2. QED
    BY <2>1 DEF SuffixName
<1>10. QED
  BY <1>5, <1>6, <1>8, <1>9 DEF SuffixName, PairsUp, input

LEMMA NameOnlyPairsUp ==
    ASSUME IInv, NEW n, NameOnly(n)
    PROVE  PairsUp(n)
<1>0. TypeOK /\ Snapshot
  BY DEF IInv
<1>1. /\ Fresh(n) \subseteq DOMAIN current /\ Loose(n) \subseteq DOMAIN baseline
      /\ \A b \in DOMAIN baseline : b # 0
  BY <1>0, Shapes DEF TypeOK, Fresh, Loose
<1>2. \A i \in Fresh(n) : paired[i] = 0
  BY <1>0 DEF NameOnly, Snapshot, New
<1>3. CASE UNCHANGED <<paired, moved, matched>>
  BY <1>0, <1>3 DEF NameOnly, PairsUp, Gained, input, TypeOK
<1>4. ASSUME NEW i \in Fresh(n), NEW b \in Loose(n),
             paired' = [paired EXCEPT ![i] = b], matched' = matched \cup {BaselineKey(b)}
      PROVE  PairsUp(n)
  <2>1. \A j \in DOMAIN current : paired'[j] = IF j = i THEN b ELSE paired[j]
    BY <1>0, <1>4 DEF TypeOK
  <2>2. \A j \in DOMAIN current : Gained(j) <=> j = i
    BY <2>1, <1>1, <1>2 DEF Gained
  <2>3. {BaselineKey(paired'[j]) : j \in {k \in DOMAIN current : Gained(k)}} = {BaselineKey(b)}
    BY <2>1, <2>2, <1>1
  <2>4. paired' \in [DOMAIN current -> {0} \cup DOMAIN baseline]
    BY <1>0, <1>1, <1>4 DEF TypeOK
  <2>5. QED
    BY <1>1, <1>4, <2>1, <2>2, <2>3, <2>4 DEF NameOnly, PairsUp, input
<1>5. QED
  BY <1>3, <1>4 DEF NameOnly

(* What a turn leaves as it was. *)
LEMMA TurnShrinks ==
    ASSUME IInv, NEW n, PairsUp(n)
    PROVE  /\ New(paired)' \subseteq New(paired) /\ Unmatched(matched)' \subseteq Unmatched(matched)
           /\ \A i \in DOMAIN current : Gained(i) =>
                /\ paired[i] = 0 /\ paired'[i] # 0
                /\ current[i].function = n /\ baseline[paired'[i]].function = n
                /\ paired'[i] \in Unmatched(matched)
           /\ \A i \in New(paired) : current[i].function # n => i \in New(paired)'
           /\ \A b \in Unmatched(matched) : baseline[b].function # n => b \in Unmatched(matched)'
<1>1. TypeOK /\ Snapshot
  BY DEF IInv
<1>2. \A b \in DOMAIN baseline : b # 0
  BY <1>1, Shapes
<1>3. \A i \in DOMAIN current : Gained(i) =>
        /\ paired[i] = 0 /\ paired'[i] # 0
        /\ current[i].function = n /\ baseline[paired'[i]].function = n
        /\ paired'[i] \in Unmatched(matched)
  BY <1>1, <1>2 DEF PairsUp, Snapshot, Fresh, Loose, New, Unmatched
<1>4. New(paired)' \subseteq New(paired)
  BY <1>3 DEF New, Gained, PairsUp
<1>5. Unmatched(matched)' \subseteq Unmatched(matched)
  BY DEF Unmatched, PairsUp, BaselineKey
<1>6. \A i \in New(paired) : current[i].function # n => i \in New(paired)'
  BY <1>3 DEF New, Gained, PairsUp
<1>7. \A b \in Unmatched(matched) : baseline[b].function # n => b \in Unmatched(matched)'
  <2>1. SUFFICES ASSUME NEW b \in DOMAIN baseline, BaselineKey(b) \notin matched,
                        baseline[b].function # n, BaselineKey(b) \in matched'
                 PROVE  FALSE
    BY DEF Unmatched, PairsUp, BaselineKey
  <2>2. PICK i \in DOMAIN current : Gained(i) /\ BaselineKey(b) = BaselineKey(paired'[i])
    BY <2>1 DEF PairsUp
  <2>3. paired'[i] \in DOMAIN baseline
    BY <1>3, <2>2 DEF Unmatched
  <2>4. QED
    BY <1>1, <1>3, <2>1, <2>2, <2>3, Shapes
<1>8. QED
  BY <1>3, <1>4, <1>5, <1>6, <1>7

LEMMA TurnKeepsPairs ==
    ASSUME IInv, NEW n, PairsUp(n), moved' \subseteq DOMAIN current
    PROVE  TypeOK' /\ Untouched' /\ OneName' /\ Partnered' /\ Snapshot' /\ Over' /\ NoneTwice'
<1>1. TypeOK /\ OneName /\ Partnered /\ Snapshot /\ NoneTwice
  BY DEF IInv
<1> USE TurnShrinks
<1>2. \A i \in DOMAIN current : paired'[i] # 0 => BaselineKey(paired'[i]) \in matched'
  BY <1>1 DEF PairsUp, TypeOK, Gained
<1>3. matched' \subseteq Files \X Names \X Lines
  <2>1. \A i \in DOMAIN current : Gained(i) => BaselineKey(paired'[i]) \in Files \X Names \X Lines
    BY <1>1, Shapes DEF Unmatched
  <2>2. QED
    BY <1>1, <2>1 DEF PairsUp, TypeOK
<1>4. TypeOK'
  BY <1>1, <1>2, <1>3 DEF TypeOK, PairsUp, input, BaselineKey
<1>5. Untouched' /\ Over'
  BY DEF Untouched, Over, PairsUp
<1>6. OneName'
  BY <1>1 DEF OneName, PairsUp, Gained
<1>7. Partnered'
  <2>1. SUFFICES ASSUME NEW k \in matched'
                 PROVE  \E i \in DOMAIN current : paired'[i] # 0 /\ BaselineKey(paired'[i]) = k
    BY DEF Partnered, PairsUp, BaselineKey
  <2>2. CASE k \in matched
    <3>1. PICK i \in DOMAIN current : paired[i] # 0 /\ BaselineKey(paired[i]) = k
      BY <1>1, <2>2 DEF Partnered
    <3>2. paired'[i] = paired[i]
      BY <3>1 DEF Gained
    <3>3. QED
      BY <3>1, <3>2
  <2>3. CASE k \notin matched
    BY <2>3 DEF PairsUp
  <2>4. QED
    BY <2>2, <2>3
<1>8. Snapshot'
  <2>1. New(paired)' \subseteq fresh' /\ Unmatched(matched)' \subseteq loose'
    BY <1>1 DEF Snapshot, PairsUp
  <2>2. ASSUME NEW m \in todo'
        PROVE  Fresh(m)' \subseteq New(paired)' /\ Loose(m)' \subseteq Unmatched(matched)'
    <3>1. m \in todo /\ m # n
      BY DEF PairsUp
    <3>2. Fresh(m)' = Fresh(m) /\ Loose(m)' = Loose(m)
      BY DEF PairsUp, Fresh, Loose
    <3>3. Fresh(m) \subseteq New(paired) /\ Loose(m) \subseteq Unmatched(matched)
      BY <1>1, <3>1 DEF PairsUp, Snapshot
    <3>4. QED
      BY <3>1, <3>2, <3>3 DEF Fresh, Loose
  <2>3. QED
    BY <2>1, <2>2 DEF Snapshot
<1>9. NoneTwice'
  <2>1. SUFFICES ASSUME DistinctCurrent, NEW i \in DOMAIN current, NEW j \in DOMAIN current,
                        paired'[i] = paired'[j], paired'[i] # 0
                 PROVE  i = j
    BY DEF NoneTwice, PairsUp, DistinctCurrent, CurrentKey
  <2>2. CASE Gained(i) /\ Gained(j)
    BY <2>1, <2>2 DEF PairsUp
  <2>3. CASE ~Gained(i) /\ ~Gained(j)
    BY <1>1, <2>1, <2>3 DEF NoneTwice, Gained
  <2>4. ASSUME NEW k \in DOMAIN current, NEW l \in DOMAIN current,
               paired'[k] = paired'[l], Gained(k), ~Gained(l)
        PROVE  FALSE
    <3>1. paired[l] # 0 /\ paired[l] \in Unmatched(matched)
      BY <2>4 DEF Gained
    <3>2. QED
      BY <1>1, <3>1 DEF TypeOK, Unmatched
  <2>5. QED
    BY <2>1, <2>2, <2>3, <2>4
<1>10. QED
  BY <1>4, <1>5, <1>6, <1>7, <1>8, <1>9

LEMMA TurnSettles ==
    ASSUME IInv, NEW n, PairsUp(n), pc = "name" => ~Alone(n)'
    PROVE  Settled'
<1>1. SUFFICES ASSUME pc = "name", NEW m \in Names \ todo', m # n, Alone(m)'
               PROVE  FALSE
  BY DEF Settled, PairsUp
<1>2. m \in Names \ todo
  BY <1>1 DEF PairsUp
<1>3. /\ {j \in New(paired)' : current[j].function = m} = {j \in New(paired) : current[j].function = m}
      /\ {c \in Unmatched(matched)' : baseline[c].function = m}
           = {c \in Unmatched(matched) : baseline[c].function = m}
  BY <1>1, TurnShrinks
<1>4. Alone(m)
  <2>0. UNCHANGED <<current, baseline>>
    BY DEF PairsUp
  <2>1. PICK i \in New(paired)', b \in Unmatched(matched)' :
               /\ {j \in New(paired)' : current[j].function = m} = {i}
               /\ {c \in Unmatched(matched)' : baseline[c].function = m} = {b}
    BY <1>1, <2>0 DEF Alone
  <2>2. i \in New(paired) /\ b \in Unmatched(matched)
    BY TurnShrinks
  <2>3. QED
    BY <1>3, <2>1, <2>2 DEF Alone
<1>5. QED
  BY <1>1, <1>2, <1>4 DEF IInv, Settled

LEMMA TurnKeepsClosest ==
    ASSUME IInv, NEW n, PairsUp(n), moved \subseteq moved',
           \A i \in DOMAIN current : Gained(i) => i \in moved' \/ Mutual(n, i, paired'[i])
    PROVE  Closest'
<1>1. TypeOK /\ Snapshot /\ Closest
  BY DEF IInv
<1>2. UNCHANGED <<current, baseline>>
  BY DEF PairsUp
<1> DEFINE Near(i, b) ==
             /\ Suffix(current[i].file, baseline[b].file) > 0
             /\ \A c \in Unmatched(matched)' : baseline[c].function = current[i].function =>
                  Suffix(current[i].file, baseline[c].file) < Suffix(current[i].file, baseline[b].file)
             /\ \A j \in New(paired)' : current[j].function = current[i].function =>
                  Suffix(baseline[b].file, current[j].file) < Suffix(current[i].file, baseline[b].file)
<1>3. ASSUME NEW i \in DOMAIN current, paired'[i] # 0, i \notin moved', Exact(i) = {}
      PROVE  Near(i, paired'[i])
  <2>1. CASE ~Gained(i)
    <3>1. paired[i] = paired'[i] /\ i \notin moved
      BY <1>3, <2>1 DEF Gained
    <3>2. QED
      BY <1>1, <1>3, <3>1, TurnShrinks DEF Closest
  <2>2. ASSUME Gained(i)
        PROVE  Near(i, paired'[i])
    <3> DEFINE b == paired'[i]
    <3>1. Mutual(n, i, b) /\ b \in DOMAIN baseline /\ BaselineKey(b) \in matched'
      BY <1>3, <2>2, TurnShrinks DEF PairsUp, Unmatched
    <3>2. /\ \A c \in Unmatched(matched)' : baseline[c].function = n => c \in Loose(n) \ {b}
          /\ \A j \in New(paired)' : current[j].function = n => j \in Fresh(n) \ {i}
      BY <1>1, <1>3, <3>1, TurnShrinks DEF PairsUp, Snapshot, Unmatched, New, Fresh, Loose, BaselineKey
    <3>3. current[i].function = n /\ b \in Loose(n) /\ i \in Fresh(n)
      BY <2>2, TurnShrinks DEF PairsUp
    <3>4. Suffix(current[i].file, baseline[b].file) = Suffix(baseline[b].file, current[i].file)
      BY <1>1, <3>1, Tails
    <3> HIDE DEF b
    <3>5. /\ Suffix(current[i].file, baseline[b].file) > 0
          /\ \A c \in Loose(n) \ {b} :
               Suffix(current[i].file, baseline[c].file) < Suffix(current[i].file, baseline[b].file)
          /\ \A j \in Fresh(n) \ {i} :
               Suffix(baseline[b].file, current[j].file) < Suffix(baseline[b].file, current[i].file)
      BY <3>1, <3>3 DEF Mutual, Best
    <3>6. Near(i, b)
      BY <3>2, <3>3, <3>4, <3>5
    <3>7. QED
      BY <3>6 DEF b
  <2>3. QED
    BY <2>1, <2>2
<1>4. \A i \in DOMAIN current : Exact(i)' = Exact(i)
  BY <1>2 DEF Exact, BaselineKey, CurrentKey
<1>5. QED
  BY <1>2, <1>3, <1>4 DEF Closest

LEMMA TurnKeepsExcused ==
    ASSUME IInv, NEW n, PairsUp(n),
           pc = "suffix" => \A i \in Fresh(n), b \in Loose(n) : Mutual(n, i, b) => Gained(i)
    PROVE  Excused'
<1>1. TypeOK /\ Snapshot /\ Excused
  BY DEF IInv
<1>2. UNCHANGED <<current, baseline, pc>>
  BY DEF PairsUp
<1>3. SUFFICES ASSUME NEW i \in New(paired)', NEW b \in Unmatched(matched)',
                      baseline[b].function = current[i].function,
                      Suffix(current[i].file, baseline[b].file) > 0,
                      pc = "suffix" => current[i].function \notin todo'
               PROVE  Rival(i, b)
  BY <1>2 DEF Excused, Rival
<1>4. i \in New(paired) /\ b \in Unmatched(matched)
  BY TurnShrinks
<1>5. CASE pc = "suffix" => current[i].function \notin todo
  BY <1>1, <1>3, <1>4, <1>5 DEF Excused, PairsUp
<1>6. CASE pc = "suffix" /\ current[i].function = n
  <2>1. /\ i \in Fresh(n) /\ b \in Loose(n)
        /\ Fresh(n) \subseteq DOMAIN current /\ Loose(n) \subseteq DOMAIN baseline
    BY <1>1, <1>3, <1>4, <1>6 DEF Snapshot, Fresh, Loose, TypeOK
  <2>2. ~Mutual(n, i, b)
    BY <1>3, <1>6, <2>1, TurnShrinks DEF New
  <2>3. \A j \in DOMAIN current, c \in DOMAIN baseline :
          /\ Suffix(current[j].file, baseline[c].file) \in Nat
          /\ Suffix(current[j].file, baseline[c].file) = Suffix(baseline[c].file, current[j].file)
    BY <1>1, Tails
  <2>4. \/ \E c \in Loose(n) \ {b} :
             ~(Suffix(current[i].file, baseline[c].file) < Suffix(current[i].file, baseline[b].file))
        \/ \E j \in Fresh(n) \ {i} :
             ~(Suffix(baseline[b].file, current[j].file) < Suffix(baseline[b].file, current[i].file))
    BY <1>3, <2>1, <2>2, <2>3 DEF Mutual, Best
  <2>5. CASE \E c \in Loose(n) \ {b} :
             ~(Suffix(current[i].file, baseline[c].file) < Suffix(current[i].file, baseline[b].file))
    BY <1>6, <2>1, <2>3, <2>5 DEF Rival, Loose
  <2>6. CASE \E j \in Fresh(n) \ {i} :
             ~(Suffix(baseline[b].file, current[j].file) < Suffix(baseline[b].file, current[i].file))
    BY <1>6, <2>1, <2>3, <2>6 DEF Rival, Fresh
  <2>7. QED
    BY <2>4, <2>5, <2>6
<1>7. QED
  BY <1>3, <1>5, <1>6 DEF PairsUp

-----------------------------------------------------------------------------
LEMMA InitHolds == Init => IInv
<1> SUFFICES ASSUME Init PROVE IInv
  OBVIOUS
<1>1. PICK r \in Inputs : current = r[1] /\ baseline = r[2]
  BY DEF Init
<1>2. input \in Inputs
  BY <1>1, InputsAssumption DEF input
<1>3. TypeOK
  BY <1>2 DEF Init, TypeOK
<1>4. Untouched /\ OneName /\ Partnered /\ Snapshot /\ Settled /\ Over
  BY DEF Init, Untouched, OneName, Partnered, Snapshot, Settled, Over
<1>5. NoneTwice /\ Closest /\ Excused
  BY DEF Init, NoneTwice, Closest, Excused
<1>6. QED
  BY <1>3, <1>4, <1>5 DEF IInv

(* The exact pass. *)
LEMMA PassOneKeeps ==
    ASSUME IInv, PassOne
    PROVE  IInv'
<1>1. TypeOK /\ Untouched
  BY DEF IInv
<1>2. UNCHANGED <<current, baseline, moved, removed>> /\ pc' = "suffix" /\ pc = "exact"
  BY DEF PassOne, Begin, input
<1>3. \A b \in DOMAIN baseline : b # 0
  BY <1>1, Shapes
<1>4. \A i \in DOMAIN current :
        paired'[i] = IF \E b \in DOMAIN baseline : Hit(i, b)
                       THEN CHOOSE b \in DOMAIN baseline : Hit(i, b) ELSE 0
  BY DEF PassOne
<1>5. \A i \in DOMAIN current :
        /\ paired'[i] \in {0} \cup DOMAIN baseline
        /\ paired'[i] # 0 <=> \E b \in DOMAIN baseline : Hit(i, b)
        /\ paired'[i] # 0 => /\ paired'[i] \in Exact(i)
                            /\ BaselineKey(paired'[i]) = CurrentKey(i)
  BY <1>3, <1>4 DEF Hit, Exact
<1>6. matched' = {CurrentKey(i) : i \in {j \in DOMAIN current : paired'[j] # 0}}
  <2>1. {j \in DOMAIN current : paired'[j] # 0}
          = {j \in DOMAIN current : \E b \in DOMAIN baseline : Hit(j, b)}
    BY <1>5
  <2>2. QED
    BY <2>1 DEF PassOne
<1>7. matched' \subseteq Files \X Names \X Lines
  BY <1>1, <1>6, Shapes
<1>8. todo' \subseteq Names
  <2>1. \A i \in DOMAIN current : current[i].function \in Names
    BY <1>1, Shapes DEF Entry
  <2>2. QED
    BY <2>1 DEF PassOne, Begin, New
<1>9. TypeOK'
  <2>1. paired' \in [DOMAIN current -> {0} \cup DOMAIN baseline]
    BY <1>5 DEF PassOne
  <2>2. fresh' \subseteq DOMAIN current /\ loose' \subseteq DOMAIN baseline
    BY DEF PassOne, Begin, New, Unmatched
  <2>3. \A i \in DOMAIN current : paired'[i] # 0 => BaselineKey(paired'[i]) \in matched'
    BY <1>5, <1>6
  <2>4. QED
    BY <1>1, <1>2, <1>7, <1>8, <2>1, <2>2, <2>3 DEF TypeOK, input, BaselineKey
<1>10. Untouched' /\ Settled' /\ Over'
  BY <1>2 DEF Untouched, Settled, Over
<1>11. OneName'
  BY <1>1, <1>2, <1>5, Shapes DEF OneName
<1>12. Partnered'
  BY <1>2, <1>5, <1>6 DEF Partnered, BaselineKey
<1>13. Snapshot'
  BY <1>2 DEF Snapshot, PassOne, Begin, New, Unmatched, Fresh, Loose, BaselineKey
<1>14. NoneTwice'
  <2>1. SUFFICES ASSUME DistinctCurrent, NEW i \in DOMAIN current, NEW j \in DOMAIN current,
                        paired'[i] = paired'[j], paired'[i] # 0
                 PROVE  i = j
    BY <1>2 DEF NoneTwice, DistinctCurrent, CurrentKey
  <2>2. CurrentKey(i) = CurrentKey(j)
    BY <1>5, <2>1
  <2>3. QED
    BY <2>1, <2>2 DEF DistinctCurrent
<1>15. Closest'
  <2>1. \A i \in DOMAIN current : paired'[i] # 0 => Exact(i)' # {}
    BY <1>2, <1>5 DEF Exact, BaselineKey, CurrentKey
  <2>2. QED
    BY <1>2, <2>1 DEF Closest
<1>16. Excused'
  BY <1>2 DEF Excused, PassOne, Begin, New
<1>17. QED
  BY <1>9, <1>10, <1>11, <1>12, <1>13, <1>14, <1>15, <1>16 DEF IInv

(* One name of the suffix pass. *)
LEMMA SuffixNameKeeps ==
    ASSUME IInv, NEW n, SuffixName(n)
    PROVE  IInv'
<1>1. PairsUp(n) /\ pc = "suffix" /\ moved' = moved
  BY SuffixNamePairsUp DEF SuffixName
<1>2. TypeOK
  BY DEF IInv
<1>3. \A i \in DOMAIN current :
        paired'[i] = IF i \in Fresh(n) /\ \E b \in Loose(n) : Mutual(n, i, b)
                       THEN CHOOSE b \in Loose(n) : Mutual(n, i, b) ELSE paired[i]
  BY DEF SuffixName
<1>4. \A i \in DOMAIN current : Gained(i) => Mutual(n, i, paired'[i])
  BY <1>3 DEF Gained
<1>5. \A i \in Fresh(n), b \in Loose(n) : Mutual(n, i, b) => Gained(i)
  <2>1. \A i \in Fresh(n) : i \in DOMAIN current /\ paired[i] = 0
    BY <1>1, <1>2 DEF IInv, Snapshot, PairsUp, New
  <2>2. \A b \in Loose(n) : b # 0
    BY <1>2, Shapes DEF Loose, TypeOK
  <2>3. QED
    BY <1>3, <2>1, <2>2 DEF Gained
<1>6. TypeOK' /\ Untouched' /\ OneName' /\ Partnered' /\ Snapshot' /\ Over' /\ NoneTwice'
  BY <1>1, <1>2, TurnKeepsPairs DEF TypeOK
<1>7. Settled'
  BY <1>1, TurnSettles
<1>8. Closest'
  BY <1>1, <1>4, TurnKeepsClosest
<1>9. Excused'
  BY <1>1, <1>5, TurnKeepsExcused
<1>10. QED
  BY <1>6, <1>7, <1>8, <1>9 DEF IInv

(* The suffix pass is over. *)
LEMMA EndSuffixKeeps ==
    ASSUME IInv, EndSuffix
    PROVE  IInv'
<1>1. TypeOK /\ OneName /\ Partnered /\ NoneTwice /\ Closest /\ Excused
  BY DEF IInv
<1>2. /\ UNCHANGED <<current, baseline, paired, moved, matched, removed>>
      /\ pc = "suffix" /\ todo = {} /\ pc' = "name"
      /\ fresh' = New(paired) /\ loose' = Unmatched(matched)
      /\ todo' = {current[i].function : i \in New(paired)}
  BY DEF EndSuffix, Begin, input
<1>3. /\ New(paired)' = New(paired) /\ Unmatched(matched)' = Unmatched(matched)
      /\ New(paired) \subseteq DOMAIN current /\ Unmatched(matched) \subseteq DOMAIN baseline
  BY <1>2 DEF New, Unmatched, BaselineKey
<1>4. TypeOK'
  <2>1. \A i \in DOMAIN current : current[i].function \in Names
    BY <1>1, Shapes DEF Entry
  <2>2. todo' \subseteq Names
    BY <1>2, <1>3, <2>1
  <2>3. QED
    BY <1>1, <1>2, <1>3, <2>2 DEF TypeOK, input, BaselineKey
<1>5. Untouched' /\ OneName' /\ Partnered' /\ Over' /\ NoneTwice'
  BY <1>1, <1>2 DEF Untouched, OneName, Partnered, Over, NoneTwice, DistinctCurrent, BaselineKey, CurrentKey
<1>6. Snapshot'
  BY <1>2, <1>3 DEF Snapshot, Fresh, Loose
<1>7. Settled'
  <2>1. \A n : Alone(n)' => n \in todo'
    BY <1>2, <1>3 DEF Alone
  <2>2. QED
    BY <2>1 DEF Settled
<1>8. Closest'
  BY <1>1, <1>2, <1>3 DEF Closest, Exact, BaselineKey, CurrentKey
<1>9. Excused'
  BY <1>1, <1>2, <1>3 DEF Excused, Rival
<1>10. QED
  BY <1>4, <1>5, <1>6, <1>7, <1>8, <1>9 DEF IInv

(* One name of the name-only pass. *)
LEMMA NameOnlyKeeps ==
    ASSUME IInv, NEW n, NameOnly(n)
    PROVE  IInv'
<1>1. PairsUp(n) /\ pc = "name"
  BY NameOnlyPairsUp DEF NameOnly
<1>2. TypeOK /\ Snapshot
  BY DEF IInv
<1>3. /\ New(paired) \subseteq fresh /\ Unmatched(matched) \subseteq loose
      /\ Fresh(n) \subseteq New(paired) /\ Loose(n) \subseteq Unmatched(matched)
  BY <1>1, <1>2 DEF Snapshot, PairsUp
<1>4. moved \subseteq moved' /\ moved' \subseteq DOMAIN current
  BY <1>2 DEF NameOnly, TypeOK, Fresh
<1>5. \A i \in DOMAIN current : Gained(i) => i \in moved'
  BY <1>2 DEF NameOnly, Gained, TypeOK
<1>6. ~Alone(n)'
  <2>1. SUFFICES ASSUME NEW i \in New(paired)', NEW b \in Unmatched(matched)',
                        {j \in New(paired)' : current[j].function = n} = {i},
                        {c \in Unmatched(matched)' : baseline[c].function = n} = {b}
                 PROVE  FALSE
    BY <1>1 DEF Alone, PairsUp
  <2>2. i \in Fresh(n) /\ b \in Loose(n)
    BY <1>1, <1>3, <2>1, TurnShrinks DEF Fresh, Loose
  <2>3. ASSUME NEW k \in Fresh(n), NEW d \in Loose(n), Fresh(n) = {k},
               paired' = [paired EXCEPT ![k] = d]
        PROVE  FALSE
    <3>1. i = k /\ i \in DOMAIN current /\ d # 0
      BY <1>2, <2>2, <2>3, Shapes DEF TypeOK, Fresh, Loose
    <3>2. paired'[i] = d
      BY <1>2, <2>3, <3>1 DEF TypeOK
    <3>3. QED
      BY <2>1, <3>1, <3>2 DEF New
  <2>4. CASE /\ ~\E k \in Fresh(n), d \in Loose(n) : Fresh(n) = {k} /\ Loose(n) = {d}
             /\ UNCHANGED <<paired, moved, matched>>
    <3>1. New(paired)' = New(paired) /\ Unmatched(matched)' = Unmatched(matched)
      BY <1>1, <2>4 DEF New, Unmatched, PairsUp, BaselineKey
    <3>2. /\ Fresh(n) = {j \in New(paired)' : current[j].function = n}
          /\ Loose(n) = {c \in Unmatched(matched)' : baseline[c].function = n}
      BY <1>3, <3>1 DEF Fresh, Loose
    <3>3. QED
      BY <2>1, <2>2, <2>4, <3>2
  <2>5. QED
    BY <2>3, <2>4 DEF NameOnly
<1>7. TypeOK' /\ Untouched' /\ OneName' /\ Partnered' /\ Snapshot' /\ Over' /\ NoneTwice'
  BY <1>1, <1>4, TurnKeepsPairs
<1>8. Settled'
  BY <1>1, <1>6, TurnSettles
<1>9. Closest'
  BY <1>1, <1>4, <1>5, TurnKeepsClosest
<1>10. Excused'
  BY <1>1, TurnKeepsExcused
<1>11. QED
  BY <1>7, <1>8, <1>9, <1>10 DEF IInv

(* What is left over is reported. *)
LEMMA CollectKeeps ==
    ASSUME IInv, Collect
    PROVE  IInv'
<1>1. /\ UNCHANGED <<current, baseline, todo, fresh, loose, paired, moved, matched>>
      /\ pc = "name" /\ todo = {} /\ pc' = "done" /\ removed' = Unmatched(matched)
  BY DEF Collect, input
<1>2. TypeOK'
  BY <1>1 DEF IInv, TypeOK, input, Unmatched, BaselineKey
<1>3. New(paired)' = New(paired) /\ Unmatched(matched)' = Unmatched(matched)
  BY <1>1 DEF New, Unmatched, BaselineKey
<1>4. Untouched' /\ OneName' /\ Partnered' /\ Snapshot' /\ Over' /\ NoneTwice'
  BY <1>1, <1>3 DEF IInv, Untouched, OneName, Partnered, Snapshot, Over, NoneTwice,
                  DistinctCurrent, BaselineKey, CurrentKey
<1>5. Settled'
  BY <1>1, <1>3 DEF IInv, Settled, Alone
<1>6. Closest' /\ Excused'
  BY <1>1, <1>3 DEF IInv, Closest, Excused, Rival, Exact, BaselineKey, CurrentKey
<1>7. QED
  BY <1>2, <1>4, <1>5, <1>6 DEF IInv

-----------------------------------------------------------------------------
(* The strengthened invariant holds throughout: TypeOK with the snapshots  *)
(* each pass works from and what the names it is through with look like.   *)
THEOREM Invariance == Spec => []IInv
<1>1. Init => IInv
  BY InitHolds
<1>2. IInv /\ [Next]_vars => IInv'
  <2> SUFFICES ASSUME IInv, [Next]_vars PROVE IInv'
    OBVIOUS
  <2>1. CASE PassOne
    BY <2>1, PassOneKeeps
  <2>2. CASE EndSuffix
    BY <2>2, EndSuffixKeeps
  <2>3. CASE Collect
    BY <2>3, CollectKeeps
  <2>4. ASSUME NEW n \in Names, SuffixName(n) PROVE IInv'
    BY <2>4, SuffixNameKeeps
  <2>5. ASSUME NEW n \in Names, NameOnly(n) PROVE IInv'
    BY <2>5, NameOnlyKeeps
  <2>6. CASE UNCHANGED vars
    <3>1. TypeOK' /\ Untouched' /\ OneName' /\ Partnered' /\ Snapshot' /\ Over'
      BY <2>6 DEF vars, IInv, TypeOK, Untouched, OneName, Partnered, Snapshot, Over, input,
                  New, Unmatched, Fresh, Loose, BaselineKey
    <3>2. Settled' /\ NoneTwice' /\ Closest' /\ Excused'
      BY <2>6 DEF vars, IInv, Settled, Alone, NoneTwice, DistinctCurrent, Closest, Excused,
                  Rival, Exact, New, Unmatched, BaselineKey, CurrentKey
    <3>3. QED
      BY <3>1, <3>2 DEF IInv
  <2>7. QED
    BY <2>1, <2>2, <2>3, <2>4, <2>5, <2>6 DEF Next
<1>3. QED
  BY <1>1, <1>2, PTL DEF Spec

(* Every variable always holds a value of its kind. *)
THEOREM TypeCorrect == Spec => []TypeOK
<1>1. IInv => TypeOK
  BY DEF IInv
<1>2. QED
  BY <1>1, Invariance, PTL

(* pass_suffix_match's claim, of all three passes: no baseline function is *)
(* compared with two of the current run.                                   *)
THEOREM NoneIsPairedTwice == Spec => []NoneTwice
<1>1. IInv => NoneTwice
  BY DEF IInv
<1>2. QED
  BY <1>1, Invariance, PTL

(* No baseline function is lost and none is both removed and compared. *)
THEOREM AllAccountedFor == Spec => []Conserved
<1>1. IInv => Conserved
  <2> SUFFICES ASSUME IInv, pc = "done", DistinctBaseline
               PROVE  removed = DOMAIN baseline \ {paired[i] : i \in DOMAIN current}
    BY DEF Conserved
  <2>1. TypeOK /\ Partnered /\ removed = Unmatched(matched)
    BY DEF IInv, Over
  <2>2. ASSUME NEW b \in DOMAIN baseline
        PROVE  BaselineKey(b) \in matched <=> \E i \in DOMAIN current : paired[i] = b
    <3>1. b # 0
      BY <2>1, Shapes
    <3>2. ASSUME BaselineKey(b) \in matched
          PROVE  \E i \in DOMAIN current : paired[i] = b
      <4>1. PICK i \in DOMAIN current : paired[i] # 0 /\ BaselineKey(paired[i]) = BaselineKey(b)
        BY <2>1, <3>2 DEF Partnered
      <4>2. paired[i] \in DOMAIN baseline
        BY <2>1, <4>1 DEF TypeOK
      <4>3. QED
        BY <4>1, <4>2 DEF DistinctBaseline
    <3>3. QED
      BY <2>1, <3>1, <3>2 DEF TypeOK
  <2>3. QED
    BY <2>1, <2>2 DEF Unmatched
<1>2. QED
  BY <1>1, Invariance, PTL

(* A report never leaves exactly one New and one removed function of a     *)
(* name: those two are paired.                                             *)
THEOREM LonePairsArePaired == Spec => []NoLonePair
<1>1. IInv => NoLonePair
  BY DEF IInv, NoLonePair, Settled, Over, Alone
<1>2. QED
  BY <1>1, Invariance, PTL

(* No pairing across files passes over a closer candidate left alone. *)
THEOREM PairsAreNearest == Spec => []Nearest
<1>1. IInv => Nearest
  BY DEF IInv, Nearest, Closest, Over
<1>2. QED
  BY <1>1, Invariance, PTL

(* Only a rival keeps two functions of one name and file name apart. *)
THEOREM NoneIsMissed == Spec => []Unmissed
<1>1. IInv => Unmissed
  <2> SUFFICES ASSUME IInv, pc = "done" PROVE Unmissed
    BY DEF Unmissed
  <2>1. Excused /\ removed = Unmatched(matched)
    BY DEF IInv, Over
  <2>2. QED
    BY <2>1 DEF Excused, Unmissed
<1>2. QED
  BY <1>1, Invariance, PTL

-----------------------------------------------------------------------------
(* A tree under another root *)

(* A path shares so many components at its end with another, or more. *)
LEMMA SharesAtLeast ==
    ASSUME NEW x, NEW y, Len(x) \in Nat, Len(y) \in Nat, NEW k \in Nat \ {0}
    PROVE  k <= Suffix(x, y) <=> k <= Len(x) /\ k <= Len(y) /\ SameTail(x, y, k)
<1> DEFINE common == {n \in 1 .. Len(x) : n <= Len(y) /\ SameTail(x, y, n)}
<1>1. IsFiniteSet(1 .. Len(x)) /\ common \in SUBSET (1 .. Len(x))
  BY FS_Interval
<1>2. IsFiniteSet(common) /\ Cardinality(common) \in Nat /\ Cardinality(common) = Suffix(x, y)
  <2>1. Cardinality(common) = Suffix(x, y)
    BY DEF Suffix
  <2> HIDE DEF common
  <2>2. QED
    BY <1>1, <2>1, FS_Subset, FS_CardinalityType
<1>3. ASSUME k <= Len(x), k <= Len(y), SameTail(x, y, k)
      PROVE  k <= Cardinality(common)
  <2>1. 1 .. k \in SUBSET common
    BY <1>3 DEF SameTail
  <2>2. IsFiniteSet(1 .. k) /\ Cardinality(1 .. k) = k
    <3>1. 1 \in Int /\ k \in Int
      OBVIOUS
    <3>2. IsFiniteSet(1 .. k) /\ Cardinality(1 .. k) = IF 1 > k THEN 0 ELSE k - 1 + 1
      BY <3>1, FS_Interval
    <3>3. QED
      BY <3>2
  <2> HIDE DEF common
  <2>3. QED
    BY <1>2, <2>1, <2>2, FS_Subset
<1>4. ASSUME ~(k <= Len(x) /\ k <= Len(y) /\ SameTail(x, y, k))
      PROVE  ~(k <= Cardinality(common))
  <2>1. common \in SUBSET (1 .. k - 1)
    <3>1. SUFFICES ASSUME NEW n \in common, ~(n <= k - 1)
                   PROVE  FALSE
      OBVIOUS
    <3>2. n \in Nat /\ k <= n /\ n <= Len(x) /\ n <= Len(y) /\ SameTail(x, y, n)
      BY <3>1
    <3>3. SameTail(x, y, k)
      BY <3>2 DEF SameTail
    <3>4. QED
      BY <1>4, <3>2, <3>3
  <2>2. IsFiniteSet(1 .. k - 1) /\ Cardinality(1 .. k - 1) = k - 1
    <3>1. 1 \in Int /\ k - 1 \in Int /\ (1 > k - 1 => k - 1 = 0) /\ k - 1 - 1 + 1 = k - 1
      OBVIOUS
    <3>2. QED
      BY <3>1, FS_Interval
  <2> HIDE DEF common
  <2>3. Cardinality(common) <= k - 1
    BY <2>1, <2>2, FS_Subset
  <2>4. QED
    BY <1>2, <2>3
<1>5. QED
  BY <1>2, <1>3, <1>4

(* Paths under roots of their own, whose components are not the other's    *)
(* below its root, share no more than they have below the roots.           *)
LEMMA RootsApart ==
    ASSUME NEW x, NEW y, NEW n \in Nat, NEW m \in Nat, Len(x) \in Nat, Len(y) \in Nat,
           n < Len(x), m < Len(y),
           \A p \in 1 .. n, q \in m + 1 .. Len(y) : x[p] # y[q],
           \A p \in 1 .. m, q \in n + 1 .. Len(x) : y[p] # x[q],
           NEW k \in Nat, k <= Len(x), k <= Len(y), SameTail(x, y, k)
    PROVE  /\ k > Len(x) - n => Len(y) - m <= Len(x) - n
           /\ k >= Len(x) - n => Len(y) - m >= Len(x) - n
<1>1. ASSUME k > Len(x) - n, Len(y) - m > Len(x) - n
      PROVE  FALSE
  <2> DEFINE l == Len(x) - n
  <2>1. l \in 0 .. k - 1 /\ Len(x) - l = n /\ n \in 1 .. n
    BY <1>1
  <2>2. x[n] = y[Len(y) - l]
    BY <2>1 DEF SameTail
  <2>3. Len(y) - l \in m + 1 .. Len(y)
    BY <1>1
  <2>4. QED
    BY <2>1, <2>2, <2>3
<1>2. ASSUME k >= Len(x) - n, Len(y) - m < Len(x) - n
      PROVE  FALSE
  <2> DEFINE l == Len(y) - m
  <2>1. l \in 0 .. k - 1 /\ Len(y) - l = m /\ m \in 1 .. m
    BY <1>2
  <2>2. x[Len(x) - l] = y[m]
    BY <2>1 DEF SameTail
  <2>3. Len(x) - l \in n + 1 .. Len(x)
    BY <1>2
  <2>4. QED
    BY <2>1, <2>2, <2>3
<1>3. QED
  BY <1>1, <1>2

(* A path's root and what is below it. *)
LEMMA Parts ==
    ASSUME NEW S, NEW x \in Seq(S), NEW n \in Nat, n < Len(x)
    PROVE  /\ Root(x, n) \in Seq(S) /\ Len(Root(x, n)) = n
           /\ \A k \in 1 .. n : Root(x, n)[k] = x[k]
           /\ Below(x, n) \in Seq(S) /\ Len(Below(x, n)) = Len(x) - n
           /\ \A k \in 1 .. Len(x) - n : Below(x, n)[k] = x[n + k]
<1>1. /\ 1 \in Int /\ n \in Int /\ n + 1 \in Int /\ Len(x) \in Int
      /\ \A k \in 1 .. n : x[k] \in S
      /\ \A k \in n + 1 .. Len(x) : x[k] \in S
  OBVIOUS
<1>2. /\ SubSeq(x, 1, n) \in Seq(S)
      /\ Len(SubSeq(x, 1, n)) = IF 1 <= n THEN n - 1 + 1 ELSE 0
      /\ \A k \in 1 .. n - 1 + 1 : SubSeq(x, 1, n)[k] = x[1 + k - 1]
  BY <1>1, SubSeqProperties
<1>3. /\ SubSeq(x, n + 1, Len(x)) \in Seq(S)
      /\ Len(SubSeq(x, n + 1, Len(x))) = IF n + 1 <= Len(x) THEN Len(x) - (n + 1) + 1 ELSE 0
      /\ \A k \in 1 .. Len(x) - (n + 1) + 1 : SubSeq(x, n + 1, Len(x))[k] = x[n + 1 + k - 1]
  BY <1>1, SubSeqProperties
<1>4. /\ \A k \in 1 .. n : k \in 1 .. n - 1 + 1 /\ 1 + k - 1 = k
      /\ \A k \in 1 .. Len(x) - n : k \in 1 .. Len(x) - (n + 1) + 1 /\ n + 1 + k - 1 = n + k
  OBVIOUS
<1>5. QED
  BY <1>2, <1>3, <1>4 DEF Root, Below

(* Relocated, component by component: x is y below their roots, u and v    *)
(* are another such pair, and no root has a component of x below its root. *)
Laid(n, m, x, y, u, v) ==
    /\ Len(x) \in Nat /\ Len(y) \in Nat /\ n < Len(x) /\ m < Len(y)
    /\ Len(y) - m = Len(x) - n
    /\ \A k \in 1 .. Len(x) - n : y[m + k] = x[n + k]
    /\ \A k \in 1 .. n : x[k] = u[k]
    /\ \A k \in 1 .. m : y[k] = v[k]
    /\ \A p \in 1 .. n, q \in n + 1 .. Len(u) : x[p] # u[q]
    /\ \A p \in 1 .. m, q \in n + 1 .. Len(u) : y[p] # u[q]

LEMMA Layout ==
    ASSUME TypeOK, NEW n \in Nat, NEW m \in Nat, Relocated(n, m),
           NEW i \in DOMAIN current, NEW j \in DOMAIN current
    PROVE  /\ i \in DOMAIN baseline
           /\ baseline[i].function = current[i].function
           /\ baseline[i].line = current[i].line
           /\ Laid(n, m, current[i].file, baseline[i].file, current[j].file, baseline[j].file)
<1> DEFINE x == current[i].file
           y == baseline[i].file
           u == current[j].file
           v == baseline[j].file
           S == Components(x) \cup Components(y) \cup Components(u) \cup Components(v)
<1>1. /\ DOMAIN current = DOMAIN baseline
      /\ current[i] \in Entry /\ baseline[i] \in Entry /\ current[j] \in Entry /\ baseline[j] \in Entry
  BY Shapes DEF Relocated
<1>2. x \in Seq(S) /\ y \in Seq(S) /\ u \in Seq(S) /\ v \in Seq(S)
  <2>1. /\ x \in Seq(Components(x)) /\ y \in Seq(Components(y))
        /\ u \in Seq(Components(u)) /\ v \in Seq(Components(v))
    BY <1>1, InputsAssumption DEF Entry
  <2>2. ASSUME NEW f, NEW C, C \subseteq S, f \in Seq(C)
        PROVE  f \in Seq(S)
    <3> HIDE DEF S
    <3>1. QED
      BY <2>2
  <2>3. QED
    BY <2>1, <2>2
<1>3. /\ Len(x) > n /\ Root(x, n) = Root(u, n) /\ Len(u) > n
      /\ Len(y) > m /\ Root(y, m) = Root(v, m) /\ Len(v) > m
      /\ baseline[i] = [current[i] EXCEPT !.file = Root(y, m) \o Below(x, n)]
      /\ Components(Root(x, n) \o Root(y, m)) \cap Components(Below(u, n)) = {}
  BY DEF Relocated
<1>4. /\ y = Root(y, m) \o Below(x, n)
      /\ baseline[i].function = current[i].function /\ baseline[i].line = current[i].line
  BY <1>1, <1>3 DEF Entry
<1> HIDE DEF x, y, u, v, S
<1>5. Len(x) \in Nat /\ Len(y) \in Nat /\ Len(u) \in Nat /\ Len(v) \in Nat
  BY <1>2
<1>6. /\ Root(x, n) \in Seq(S) /\ Len(Root(x, n)) = n
      /\ \A k \in 1 .. n : Root(x, n)[k] = x[k]
      /\ Below(x, n) \in Seq(S) /\ Len(Below(x, n)) = Len(x) - n
      /\ \A k \in 1 .. Len(x) - n : Below(x, n)[k] = x[n + k]
  <2>1. x \in Seq(S) /\ n < Len(x)
    BY <1>2, <1>3, <1>5
  <2>2. QED
    BY <2>1, Parts
<1>7. /\ \A k \in 1 .. n : Root(u, n)[k] = u[k]
      /\ Below(u, n) \in Seq(S) /\ Len(Below(u, n)) = Len(u) - n
      /\ \A k \in 1 .. Len(u) - n : Below(u, n)[k] = u[n + k]
  <2>1. u \in Seq(S) /\ n < Len(u)
    BY <1>2, <1>3, <1>5
  <2>2. QED
    BY <2>1, Parts
<1>8. /\ Root(y, m) \in Seq(S) /\ Len(Root(y, m)) = m
      /\ \A k \in 1 .. m : Root(y, m)[k] = y[k]
  <2>1. y \in Seq(S) /\ m < Len(y)
    BY <1>2, <1>3, <1>5
  <2>2. QED
    BY <2>1, Parts
<1>9. \A k \in 1 .. m : Root(v, m)[k] = v[k]
  <2>1. v \in Seq(S) /\ m < Len(v)
    BY <1>2, <1>3, <1>5
  <2>2. QED
    BY <2>1, Parts
<1>10. Len(y) = m + (Len(x) - n) /\ \A k \in 1 .. Len(x) - n : y[m + k] = Below(x, n)[k]
  <2>1. /\ Len(Root(y, m) \o Below(x, n)) = Len(Root(y, m)) + Len(Below(x, n))
        /\ \A k \in 1 .. Len(Root(y, m)) + Len(Below(x, n)) :
             (Root(y, m) \o Below(x, n))[k] =
               IF k <= Len(Root(y, m)) THEN Root(y, m)[k] ELSE Below(x, n)[k - Len(Root(y, m))]
    BY <1>6, <1>8, ConcatProperties
  <2>2. \A k \in 1 .. Len(x) - n : m + k \in 1 .. m + (Len(x) - n) /\ ~(m + k <= m) /\ m + k - m = k
    BY <1>5
  <2>3. /\ Len(y) = m + (Len(x) - n)
        /\ \A k \in 1 .. m + (Len(x) - n) :
             y[k] = IF k <= m THEN Root(y, m)[k] ELSE Below(x, n)[k - m]
    <3>1. Len(Root(y, m)) = m /\ Len(Below(x, n)) = Len(x) - n
      BY <1>6, <1>8
    <3>2. QED
      BY <2>1, <3>1, <1>4
  <2>4. QED
    BY <2>2, <2>3
<1>11. (\A k \in 1 .. n : x[k] = u[k]) /\ (\A k \in 1 .. m : y[k] = v[k])
  <2>1. Root(x, n) = Root(u, n) /\ Root(y, m) = Root(v, m)
    BY <1>3
  <2>2. \A k \in 1 .. n : x[k] = u[k]
    <3>1. TAKE k \in 1 .. n
    <3>2. Root(x, n)[k] = x[k] /\ Root(u, n)[k] = u[k]
      BY <1>6, <1>7
    <3>3. QED
      BY <2>1, <3>2
  <2>3. \A k \in 1 .. m : y[k] = v[k]
    <3>1. TAKE k \in 1 .. m
    <3>2. Root(y, m)[k] = y[k] /\ Root(v, m)[k] = v[k]
      BY <1>8, <1>9
    <3>3. QED
      BY <2>1, <3>2
  <2>4. QED
    BY <2>2, <2>3
<1>12. \A q \in n + 1 .. Len(u) : u[q] \in Components(Below(u, n))
  <2>1. SUFFICES ASSUME NEW q \in n + 1 .. Len(u)
                 PROVE  u[q] \in Components(Below(u, n))
    OBVIOUS
  <2>2. q - n \in 1 .. Len(u) - n /\ n + (q - n) = q
    BY <1>5
  <2>3. Below(u, n)[q - n] = u[q] /\ q - n \in DOMAIN Below(u, n)
    BY <1>7, <2>2
  <2>4. QED
    BY <2>3 DEF Components
<1>13. /\ \A p \in 1 .. n : x[p] \in Components(Root(x, n) \o Root(y, m))
       /\ \A p \in 1 .. m : y[p] \in Components(Root(x, n) \o Root(y, m))
  <2> DEFINE roots == Root(x, n) \o Root(y, m)
  <2>1. /\ roots \in Seq(S) /\ Len(roots) = n + m
        /\ \A k \in 1 .. n + m :
             roots[k] = IF k <= n THEN Root(x, n)[k] ELSE Root(y, m)[k - n]
    <3>1. /\ roots \in Seq(S) /\ Len(roots) = Len(Root(x, n)) + Len(Root(y, m))
          /\ \A k \in 1 .. Len(Root(x, n)) + Len(Root(y, m)) :
               roots[k] = IF k <= Len(Root(x, n)) THEN Root(x, n)[k]
                                                  ELSE Root(y, m)[k - Len(Root(x, n))]
      BY <1>6, <1>8, ConcatProperties
    <3>2. QED
      BY <3>1, <1>6, <1>8
  <2> HIDE DEF roots
  <2>2. /\ \A p \in 1 .. n : p \in DOMAIN roots /\ roots[p] = x[p]
        /\ \A p \in 1 .. m : n + p \in DOMAIN roots /\ roots[n + p] = y[p]
    <3>1. DOMAIN roots = 1 .. n + m
      BY <2>1
    <3>2. ASSUME NEW p \in 1 .. n PROVE p \in DOMAIN roots /\ roots[p] = x[p]
      BY <2>1, <3>1, <1>6
    <3>3. ASSUME NEW p \in 1 .. m PROVE n + p \in DOMAIN roots /\ roots[n + p] = y[p]
      <4>1. n + p \in 1 .. n + m /\ ~(n + p <= n) /\ n + p - n = p
        OBVIOUS
      <4>2. QED
        BY <2>1, <3>1, <4>1, <1>8
    <3>4. QED
      BY <3>2, <3>3
  <2>3. QED
    BY <2>2 DEF Components, roots
<1>14. /\ \A p \in 1 .. n, q \in n + 1 .. Len(u) : x[p] # u[q]
       /\ \A p \in 1 .. m, q \in n + 1 .. Len(u) : y[p] # u[q]
  BY <1>3, <1>12, <1>13
<1>15. Len(y) - m = Len(x) - n /\ \A k \in 1 .. Len(x) - n : y[m + k] = x[n + k]
  BY <1>5, <1>6, <1>10
<1>16. Laid(n, m, x, y, u, v)
  BY <1>3, <1>5, <1>11, <1>14, <1>15 DEF Laid
<1>17. QED
  BY <1>1, <1>4, <1>16 DEF x, y, u, v

(* Under a root remap no function has another's key in the baseline. *)
LEMMA ExactIsSelf ==
    ASSUME TypeOK, NEW n \in Nat, NEW m \in Nat, Relocated(n, m),
           NEW i \in DOMAIN current, NEW b \in DOMAIN baseline, BaselineKey(b) = CurrentKey(i)
    PROVE  b = i
<1> DEFINE x == current[i].file
           y == baseline[i].file
           u == current[b].file
           v == baseline[b].file
<1>1. /\ b \in DOMAIN current /\ i \in DOMAIN baseline
      /\ baseline[i] \in Entry /\ baseline[b] \in Entry
  BY Shapes DEF Relocated
<1>2. /\ x = v /\ baseline[i].function = baseline[b].function /\ baseline[i].line = baseline[b].line
  BY Layout, <1>1 DEF BaselineKey, CurrentKey, Key
<1>3. Laid(n, m, x, y, u, v)
  BY Layout, <1>1
<1>4. Laid(n, m, u, v, x, y)
  BY Layout, <1>1
<1>5. y \in Seq(Components(y)) /\ v \in Seq(Components(v))
  BY <1>1, InputsAssumption DEF Entry
<1> HIDE DEF x, y, u, v
<1>6. CASE n < m
  <2>1. n + 1 \in 1 .. m /\ n + 1 \in n + 1 .. Len(x)
    BY <1>3, <1>6 DEF Laid
  <2>2. v[n + 1] # x[n + 1]
    BY <1>4, <2>1 DEF Laid
  <2>3. QED
    BY <1>2, <2>2
<1>7. CASE m < n
  <2>1. m + 1 \in 1 .. n /\ n + 1 \in n + 1 .. Len(u) /\ 1 \in 1 .. Len(u) - n
    BY <1>4, <1>7 DEF Laid
  <2>2. x[m + 1] # u[n + 1] /\ v[m + 1] = u[n + 1]
    BY <1>3, <1>4, <2>1 DEF Laid
  <2>3. QED
    BY <1>2, <2>2
<1>8. CASE n = m
  <2>1. Len(y) = Len(v)
    BY <1>2, <1>3, <1>4, <1>8 DEF Laid
  <2>2. ASSUME NEW k \in 1 .. Len(y) PROVE y[k] = v[k]
    <3>1. CASE k <= m
      BY <1>3, <3>1 DEF Laid
    <3>2. CASE k > m
      <4>1. k - m \in 1 .. Len(x) - n /\ m + (k - m) = k /\ n + (k - m) = k
        BY <1>3, <1>8, <3>2 DEF Laid
      <4>2. QED
        BY <1>2, <1>3, <4>1 DEF Laid
    <3>3. QED
      BY <1>3, <3>1, <3>2 DEF Laid
  <2>3. y = v
    BY <1>5, <2>1, <2>2
  <2>4. baseline[i] = baseline[b]
    BY <1>1, <1>2, <2>3 DEF Entry, y, v
  <2>5. QED
    BY <1>1, <2>4 DEF Relocated
<1>9. QED
  BY <1>6, <1>7, <1>8

(* Nor is another function's file mutually closest, its own at hand. *)
LEMMA OwnMate ==
    ASSUME TypeOK, NEW n \in Nat, NEW m \in Nat, Relocated(n, m), NEW name,
           fresh \subseteq loose, NEW i \in Fresh(name), NEW b \in Loose(name), Mutual(name, i, b)
    PROVE  b = i
<1> DEFINE x == current[i].file
           y == baseline[i].file
           u == current[b].file
           v == baseline[b].file
           own == Len(x) - n
           far == Suffix(x, v)
<1>1. /\ i \in DOMAIN current /\ i \in DOMAIN baseline
      /\ b \in DOMAIN current /\ b \in DOMAIN baseline
      /\ baseline[i] \in Entry /\ baseline[b] \in Entry
  BY Shapes DEF TypeOK, Fresh, Loose, Relocated
<1>2. i \in Loose(name)
  <2>1. baseline[i].function = current[i].function
    BY Layout, <1>1
  <2>2. QED
    BY <1>1, <2>1 DEF Fresh, Loose
<1>3. SUFFICES ASSUME Suffix(x, y) < far
               PROVE  FALSE
  BY <1>2 DEF Mutual, Best
<1>4. Laid(n, m, x, y, u, v)
  BY Layout, <1>1
<1>5. Laid(n, m, u, v, x, y)
  BY Layout, <1>1
<1>6. y \in Seq(Components(y)) /\ v \in Seq(Components(v))
  BY <1>1, InputsAssumption DEF Entry
<1>7. Suffix(x, y) \in Nat /\ far \in Nat
  BY <1>1, Tails
<1> HIDE DEF x, y, u, v, own, far
<1>lens. /\ Len(x) \in Nat /\ Len(y) \in Nat /\ n < Len(x) /\ m < Len(y) /\ Len(y) - m = Len(x) - n
         /\ Len(u) \in Nat /\ Len(v) \in Nat /\ n < Len(u) /\ m < Len(v) /\ Len(v) - m = Len(u) - n
  BY <1>4, <1>5 DEF Laid
<1>8. own \in Nat \ {0} /\ own <= Len(x) /\ own <= Len(y) /\ SameTail(x, y, own)
  <2>1. own \in Nat \ {0} /\ own <= Len(x) /\ own <= Len(y)
    BY <1>4 DEF own, Laid
  <2>2. ASSUME NEW k \in 0 .. own - 1 PROVE x[Len(x) - k] = y[Len(y) - k]
    <3>1. own - k \in 1 .. Len(x) - n /\ m + (own - k) = Len(y) - k /\ n + (own - k) = Len(x) - k
      BY <1>4 DEF own, Laid
    <3>2. QED
      BY <1>4, <3>1 DEF Laid
  <2>3. QED
    BY <2>1, <2>2 DEF SameTail
<1>9. own <= Suffix(x, y)
  BY <1>4, <1>8, SharesAtLeast DEF Laid
<1>10. far > own /\ far \in Nat \ {0}
  BY <1>3, <1>7, <1>8, <1>9
<1>11. far <= Len(x) /\ far <= Len(v) /\ SameTail(x, v, far)
  <2>1. far <= Suffix(x, v)
    BY <1>7 DEF far
  <2>2. QED
    BY <1>4, <1>5, <1>10, <2>1, SharesAtLeast DEF Laid
<1>12. \A p \in 1 .. n, q \in m + 1 .. Len(v) : x[p] # v[q]
  <2>1. SUFFICES ASSUME NEW p \in 1 .. n, NEW q \in m + 1 .. Len(v)
                 PROVE  x[p] # v[q]
    OBVIOUS
  <2>2. /\ q - m \in 1 .. Len(u) - n /\ m + (q - m) = q /\ n + (q - m) \in n + 1 .. Len(u)
    BY <1>lens
  <2>3. v[q] = u[n + (q - m)] /\ x[p] # u[n + (q - m)]
    BY <1>4, <1>5, <2>2 DEF Laid
  <2>4. QED
    BY <2>3
<1>13. Len(v) - m = own
  <2>1. /\ far > Len(x) - n => Len(v) - m <= Len(x) - n
        /\ far >= Len(x) - n => Len(v) - m >= Len(x) - n
    BY <1>4, <1>5, <1>10, <1>11, <1>12, RootsApart DEF Laid
  <2>2. QED
    BY <1>lens, <1>10, <2>1 DEF own
<1>14. y = v
  <2>1. Len(y) = Len(v)
    BY <1>4, <1>5, <1>13 DEF own, Laid
  <2>2. ASSUME NEW k \in 1 .. Len(y) PROVE y[k] = v[k]
    <3>1. CASE k <= m
      BY <1>4, <3>1 DEF Laid
    <3>2. CASE k > m
      <4>1. /\ k - m \in 1 .. Len(x) - n /\ m + (k - m) = k
            /\ Len(v) - k \in 0 .. far - 1 /\ Len(v) - (Len(v) - k) = k
            /\ Len(x) - (Len(v) - k) = n + (k - m)
        <5>1. Len(v) - m = Len(x) - n /\ Len(y) = Len(v) /\ far > Len(x) - n
          BY <1>10, <1>13, <2>1 DEF own
        <5>2. QED
          BY <5>1, <1>lens, <1>10, <3>2
      <4>2. y[k] = x[n + (k - m)]
        BY <1>4, <4>1 DEF Laid
      <4>3. x[n + (k - m)] = v[k]
        BY <1>11, <4>1 DEF SameTail
      <4>4. QED
        BY <4>2, <4>3
    <3>3. QED
      BY <1>4, <3>1, <3>2 DEF Laid
  <2>3. QED
    BY <1>6, <2>1, <2>2
<1>15. QED
  BY <1>3, <1>7, <1>14 DEF far

(* No step pairs a function with another's entry, and each pass finds each *)
(* unpaired function's own entry among the unmatched when it begins.       *)
LEMMA OwnPartnersKept ==
    ASSUME IInv, IInv', OwnPartners, [Next]_vars, NEW n \in Nat, NEW m \in Nat, Relocated(n, m)
    PROVE  OwnPartners'
<1>0. TypeOK /\ Partnered /\ DOMAIN current = DOMAIN baseline
  BY DEF IInv, Relocated
<1>own. \A i \in DOMAIN current : baseline[i].function = current[i].function
  BY <1>0, Layout
<1>1. CASE PassOne
  <2>0. UNCHANGED <<current, baseline>>
    BY <1>1 DEF PassOne, input
  <2>1. \A i \in DOMAIN current :
          /\ paired'[i] = IF \E b \in DOMAIN baseline : Hit(i, b)
                            THEN CHOOSE b \in DOMAIN baseline : Hit(i, b) ELSE 0
          /\ \A b \in DOMAIN baseline : Hit(i, b) => b = i
    BY <1>0, <1>1, ExactIsSelf DEF PassOne, Hit, Exact
  <2>2. \A i \in DOMAIN current : paired'[i] \in {0, i}
    BY <2>1
  <2>3. fresh' \subseteq loose'
    <3>1. SUFFICES ASSUME NEW i \in DOMAIN current, paired'[i] = 0, BaselineKey(i) \in matched'
                   PROVE  FALSE
      BY <1>0, <1>1, <2>0 DEF PassOne, Begin, New, Unmatched
    <3>2. PICK j \in DOMAIN current : BaselineKey(i) = CurrentKey(j)
                                      /\ \E b \in DOMAIN baseline : Hit(j, b)
      BY <1>1, <3>1 DEF PassOne
    <3>3. i = j
      BY <1>0, <3>2, ExactIsSelf
    <3>4. paired'[i] # 0
      BY <1>0, <2>1, <3>2, <3>3, Shapes
    <3>5. QED
      BY <3>1, <3>4
  <2>4. QED
    BY <2>0, <2>2, <2>3 DEF OwnPartners
<1>2. CASE EndSuffix
  <2>1. UNCHANGED <<current, baseline, paired>>
    BY <1>2 DEF EndSuffix, input
  <2>2. fresh' \subseteq loose'
    <3>1. SUFFICES ASSUME NEW i \in DOMAIN current, paired[i] = 0, BaselineKey(i) \in matched
                   PROVE  FALSE
      BY <1>0, <1>2 DEF EndSuffix, Begin, New, Unmatched
    <3>2. PICK j \in DOMAIN current : paired[j] # 0 /\ BaselineKey(paired[j]) = BaselineKey(i)
      BY <1>0, <3>1 DEF Partnered
    <3>3. paired[j] = j /\ baseline[i] \in Entry /\ baseline[j] \in Entry
      BY <1>0, <3>2, Shapes DEF OwnPartners
    <3>4. baseline[i] = baseline[j]
      BY <3>2, <3>3 DEF BaselineKey, Key, Entry
    <3>5. i = j
      BY <3>4 DEF Relocated
    <3>6. QED
      BY <3>1, <3>2, <3>5
  <2>3. QED
    BY <2>1, <2>2 DEF OwnPartners
<1>3. CASE Collect
  BY <1>3 DEF Collect, OwnPartners, input
<1>4. ASSUME NEW name \in Names, SuffixName(name)
      PROVE  OwnPartners'
  <2>1. UNCHANGED <<current, baseline, pc, fresh, loose>> /\ fresh \subseteq loose
    BY <1>4 DEF SuffixName, input, OwnPartners
  <2>2. \A i \in DOMAIN current :
          paired'[i] = IF i \in Fresh(name) /\ \E b \in Loose(name) : Mutual(name, i, b)
                         THEN CHOOSE b \in Loose(name) : Mutual(name, i, b) ELSE paired[i]
    BY <1>4 DEF SuffixName
  <2>3. \A i \in Fresh(name), b \in Loose(name) : Mutual(name, i, b) => b = i
    BY <1>0, <2>1, OwnMate
  <2>4. \A i \in DOMAIN current : paired'[i] \in {0, i}
    BY <2>2, <2>3 DEF OwnPartners
  <2>5. QED
    BY <2>1, <2>4 DEF OwnPartners
<1>5. ASSUME NEW name \in Names, NameOnly(name)
      PROVE  OwnPartners'
  <2>1. UNCHANGED <<current, baseline, pc, fresh, loose>> /\ fresh \subseteq loose
    BY <1>5 DEF NameOnly, input, OwnPartners
  <2>2. CASE UNCHANGED paired
    BY <2>1, <2>2 DEF OwnPartners
  <2>3. ASSUME NEW i \in Fresh(name), NEW b \in Loose(name), Loose(name) = {b},
               paired' = [paired EXCEPT ![i] = b]
        PROVE  OwnPartners'
    <3>1. i \in Loose(name)
      BY <1>0, <1>own, <2>1 DEF TypeOK, Fresh, Loose
    <3>2. paired' = [paired EXCEPT ![i] = i]
      BY <2>3, <3>1
    <3>3. \A j \in DOMAIN current : paired'[j] \in {0, j}
      BY <1>0, <3>2 DEF TypeOK, OwnPartners
    <3>4. QED
      BY <2>1, <3>3 DEF OwnPartners
  <2>4. QED
    BY <1>5, <2>2, <2>3 DEF NameOnly
<1>6. CASE UNCHANGED vars
  BY <1>6 DEF vars, OwnPartners
<1>7. QED
  BY <1>1, <1>2, <1>3, <1>4, <1>5, <1>6 DEF Next

(* Spec 21, for every tree and every two roots, of any depth, foreign to   *)
(* what is below them: a remap leaves each function with its own past or   *)
(* none, in whatever order the names are looked at.                        *)
THEOREM OwnPastOnly == Spec => [](\A n, m \in Nat : Relocated(n, m) => OwnPartners)
<1> DEFINE Harmless == \A n, m \in Nat : Relocated(n, m) => OwnPartners
<1>1. Init => Harmless
  <2>1. Init => OwnPartners
    BY DEF Init, OwnPartners
  <2>2. QED
    BY <2>1
<1>2. IInv /\ IInv' /\ Harmless /\ [Next]_vars => Harmless'
  <2> SUFFICES ASSUME IInv, IInv', Harmless, [Next]_vars,
                      NEW n \in Nat, NEW m \in Nat, Relocated(n, m)'
               PROVE  OwnPartners'
    OBVIOUS
  <2>1. UNCHANGED <<current, baseline>>
    BY DEF Next, vars, input, PassOne, EndSuffix, Collect, SuffixName, NameOnly
  <2>2. Relocated(n, m)
    BY <2>1 DEF Relocated
  <2>3. QED
    BY <2>2, OwnPartnersKept
<1>3. Spec => []Harmless
  <2> HIDE DEF Harmless
  <2>1. QED
    BY <1>1, <1>2, Invariance, PTL DEF Spec
<1>4. QED
  BY <1>3

(* The same of the roots the runs use: one or two components deep. *)
THEOREM RemapIsHarmless == Spec => []RemapKeepsIdentity
<1> DEFINE Harmless == \A n, m \in Nat : Relocated(n, m) => OwnPartners
<1>1. Spec => []Harmless
  BY OwnPastOnly
<1>2. Harmless => RemapKeepsIdentity
  <2>1. 1 .. 2 \subseteq Nat
    OBVIOUS
  <2>2. QED
    BY <2>1 DEF RemapKeepsIdentity, OwnPartners
<1> HIDE DEF Harmless
<1>3. QED
  BY <1>1, <1>2, PTL
=============================================================================
