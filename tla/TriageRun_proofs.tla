-------------------------- MODULE TriageRun_proofs --------------------------
(***************************************************************************)
(* Proofs about TriageRun, for any number of runs, groups, texts, threads  *)
(* and attempts, whatever the configurations and however often the source  *)
(* is edited and the runs are interrupted.                                 *)
(***************************************************************************)
EXTENDS TriageRun, FiniteSetTheorems, FunctionTheorems, TLAPS

-----------------------------------------------------------------------------
(* The place of a group among some of the groups is a position. *)
LEMMA RankIsAPosition ==
    ASSUME NEW A \in SUBSET Groups, NEW g \in A
    PROVE  Cardinality({h \in A : h <= g}) \in Positions
<1> DEFINE upto == {h \in A : h <= g}
<1>1. g \in Nat /\ IsFiniteSet(Groups)
  BY OptionsAssumption
<1>2. upto \subseteq Groups /\ g \in upto
  <2>1. g <= g
    BY <1>1
  <2>2. QED
    BY <2>1
<1> HIDE DEF upto
<1>3. /\ IsFiniteSet(upto) /\ Cardinality(upto) \in Nat /\ Cardinality(Groups) \in Nat
      /\ Cardinality(upto) <= Cardinality(Groups)
  BY <1>1, <1>2, FS_Subset, FS_CardinalityType
<1>4. Cardinality(upto) # 0
  BY <1>2, <1>3, FS_EmptySet
<1>5. QED
  BY <1>3, <1>4 DEF Positions, upto

(* The places of the asked groups. *)
LEMMA Places ==
    ASSUME TypeOK, NEW r \in Runs
    PROVE  /\ IsFiniteSet(opt[r].asked) /\ Given(r) \subseteq Positions
           /\ IsFiniteSet(Given(r))
           /\ \A g \in opt[r].asked : Place(r, g) \in Positions
<1>1. opt[r].asked \subseteq Groups
  BY DEF TypeOK, Option
<1>2. /\ IsFiniteSet(opt[r].asked) /\ Cardinality(opt[r].asked) \in Nat
      /\ IsFiniteSet(Groups) /\ Cardinality(Groups) \in Nat
      /\ Cardinality(opt[r].asked) <= Cardinality(Groups)
  <2>1. IsFiniteSet(Groups)
    BY OptionsAssumption
  <2>2. IsFiniteSet(opt[r].asked) /\ Cardinality(opt[r].asked) <= Cardinality(Groups)
    BY <1>1, <2>1, FS_Subset
  <2>3. QED
    BY <2>1, <2>2, FS_CardinalityType
<1>3. Given(r) \subseteq Positions
  BY <1>2 DEF Given, Positions
<1>4. IsFiniteSet(Given(r))
  BY <1>2, FS_Interval DEF Given
<1>5. \A g \in opt[r].asked : Place(r, g) \in Positions
  BY <1>1, RankIsAPosition DEF Place
<1>6. QED
  BY <1>2, <1>3, <1>4, <1>5

(* In the next state, too. *)
LEMMA PlacesNext ==
    ASSUME TypeOK', NEW r \in Runs
    PROVE  Given(r)' \subseteq Positions
<1>1. opt'[r].asked \subseteq Groups
  BY DEF TypeOK, Option
<1>2. IsFiniteSet(Groups)
  BY OptionsAssumption
<1>3. Cardinality(opt'[r].asked) \in Nat /\ Cardinality(opt'[r].asked) <= Cardinality(Groups)
  BY <1>1, <1>2, FS_Subset, FS_CardinalityType
<1>4. Cardinality(Groups) \in Nat
  BY <1>2, FS_CardinalityType
<1>5. QED
  BY <1>3, <1>4 DEF Given, Positions

(* The losses only grow, and only a lost verdict leaves the cache. *)
LEMMA LossesKeep ==
    ASSUME TypeOK, SlotsSound, FreshVerdictsKept, OneWarning,
           lost' \in [Texts -> Nat],
           \A u \in Texts : lost'[u] >= lost[u] /\ (lost'[u] = 0 => cache'[u] = cache[u]),
           UNCHANGED <<opt, slot, warnings>>
    PROVE  FreshVerdictsKept' /\ OneWarning'
<1>1. FreshVerdictsKept'
  <2>1. SUFFICES ASSUME NEW q \in Runs, opt[q].caching, NEW m \in Given(q),
                        slot[q][m].stage = "answered", lost'[slot[q][m].src] = 0
                 PROVE  cache'[slot[q][m].src] # None
    BY DEF FreshVerdictsKept, At, Given
  <2>2. m \in Positions
    BY Places
  <2>3. slot[q][m].src \in Texts
    BY <2>1, <2>2 DEF SlotsSound, Sound
  <2>4. lost[slot[q][m].src] = 0
    BY <2>1, <2>3 DEF TypeOK
  <2>5. QED
    BY <2>1, <2>3, <2>4 DEF FreshVerdictsKept, At
<1>2. OneWarning'
  BY DEF OneWarning, TypeOK
<1>3. QED
  BY <1>1, <1>2

(* A step that gives one pair of a running run another value. *)
SlotStep(r, n, v) ==
    /\ r \in Runs /\ n \in Positions /\ pc[r] \in {"looking", "asking"}
    /\ v \in Slot /\ Sound(v) /\ v.stage # "answered"
    /\ slot' = [slot EXCEPT ![r] = [slot[r] EXCEPT ![n] = v]]
    /\ paid' \in [Texts -> Nat]
    /\ lost' \in [Texts -> Nat] /\ \A u \in Texts : lost'[u] >= lost[u]
    /\ UNCHANGED <<text, edits, cache, pc, opt, warnings, report, skipped, starts>>

(* A step that loses nothing. *)
LEMMA LossesStay ==
    ASSUME TypeOK, UNCHANGED lost
    PROVE  lost' \in [Texts -> Nat] /\ \A u \in Texts : lost'[u] >= lost[u]
BY DEF TypeOK

LEMMA SlotStepKeeps ==
    ASSUME IInv, NEW r, NEW n, NEW v, SlotStep(r, n, v)
    PROVE  IInv'
<1>1. TypeOK /\ SlotsSound /\ CacheJudgesItsKey /\ OwnVerdict /\ FreshVerdictsKept /\ OneWarning
  BY DEF IInv
<1>2. \A q \in Runs, m \in Positions :
        slot'[q][m] = IF q = r /\ m = n THEN v ELSE slot[q][m]
  BY <1>1 DEF SlotStep, TypeOK
<1>3. slot' \in [Runs -> [Positions -> Slot]]
  BY <1>1 DEF SlotStep, TypeOK
<1>4. TypeOK'
  BY <1>1, <1>3 DEF SlotStep, TypeOK
<1>5. SlotsSound'
  BY <1>1, <1>2 DEF SlotStep, SlotsSound
<1>6. CacheJudgesItsKey' /\ OneWarning'
  <2>1. \A u \in Texts : lost[u] > 0 => lost'[u] > 0
    BY <1>1 DEF SlotStep, TypeOK
  <2>2. QED
    BY <1>1, <2>1 DEF SlotStep, CacheJudgesItsKey, OneWarning
<1>7. OwnVerdict'
  <2>1. \A q \in Runs : pc'[q] = "done" => q # r
    BY DEF SlotStep
  <2>2. \A q \in Runs : q # r => slot'[q] = slot[q]
    BY <1>1 DEF SlotStep, TypeOK
  <2>3. \A q \in Runs : \A g : Place(q, g)' = Place(q, g)
    BY DEF SlotStep, Place
  <2>4. QED
    BY <1>1, <2>1, <2>2, <2>3 DEF SlotStep, OwnVerdict
<1>8. FreshVerdictsKept'
  <2>1. SUFFICES ASSUME NEW q \in Runs, opt[q].caching, NEW m \in Given(q),
                        slot'[q][m].stage = "answered", lost'[slot'[q][m].src] = 0
                 PROVE  cache[slot'[q][m].src] # None
    BY DEF SlotStep, FreshVerdictsKept, At, Given
  <2>2. m \in Positions
    BY <1>1, Places
  <2>3. slot'[q][m] = slot[q][m]
    BY <1>2, <2>1, <2>2 DEF SlotStep
  <2>4. slot[q][m].src \in Texts
    BY <1>1, <2>1, <2>2, <2>3 DEF SlotsSound, Sound
  <2>5. lost[slot[q][m].src] = 0
    BY <1>1, <2>1, <2>3, <2>4 DEF SlotStep, TypeOK
  <2>6. QED
    BY <1>1, <2>1, <2>3, <2>5 DEF FreshVerdictsKept, At
<1>9. QED
  BY <1>4, <1>5, <1>6, <1>7, <1>8 DEF IInv

(* The six steps of that kind. *)
LEMMA ReadBackKeeps ==
    ASSUME IInv, NEW r \in Runs, NEW g \in opt[r].asked, ReadBack(r, g)
    PROVE  IInv'
<1> DEFINE n == Place(r, g)
           v == [slot[r][n] EXCEPT !.stage = IF text[g] = NoText THEN "failed" ELSE "read",
                                   !.src = text[g]]
<1>1. TypeOK /\ SlotsSound /\ n \in Positions /\ g \in Groups
  BY Places DEF IInv, TypeOK, Option
<1>2. slot[r][n] \in Slot /\ Sound(slot[r][n]) /\ slot[r][n].stage = "queued"
  BY <1>1 DEF TypeOK, SlotsSound, ReadBack
<1>3. text[g] \in Texts \cup {NoText}
  BY <1>1 DEF TypeOK
<1>4. slot' = [slot EXCEPT ![r] = [slot[r] EXCEPT ![n] = v]]
  BY <1>1 DEF ReadBack, TypeOK
<1>5. v \in Slot /\ v.stage \in {"failed", "read"}
  BY <1>2, <1>3 DEF Slot, Stages
<1>6. slot[r][n].verdict = None
  BY <1>2 DEF Sound
<1>7. Sound(v)
  BY <1>2, <1>3, <1>5, <1>6 DEF Sound, Slot
<1>8. SlotStep(r, n, v)
  BY <1>1, <1>4, <1>5, <1>7, LossesStay DEF SlotStep, ReadBack, TypeOK, env, shown, ledger
<1>9. QED
  BY <1>8, SlotStepKeeps

LEMMA LookUpKeeps ==
    ASSUME IInv, NEW r \in Runs, NEW n \in Given(r), LookUp(r, n)
    PROVE  IInv'
<1>1. TypeOK /\ SlotsSound /\ CacheJudgesItsKey /\ n \in Positions
  BY Places DEF IInv
<1>2. slot[r][n] \in Slot /\ Sound(slot[r][n]) /\ slot[r][n].stage = "read"
  BY <1>1 DEF TypeOK, SlotsSound, LookUp
<1>3. slot[r][n].src \in Texts /\ cache[slot[r][n].src] \in {slot[r][n].src, None}
  BY <1>1, <1>2 DEF Sound, CacheJudgesItsKey
<1>4. PICK u \in {slot[r][n].src, None} :
        /\ slot' = [slot EXCEPT ![r][n].stage = "looked", ![r][n].verdict = u]
        /\ lost' = [lost EXCEPT ![slot[r][n].src] =
                      IF opt[r].caching /\ u # cache[slot[r][n].src] THEN @ + 1 ELSE @]
  BY <1>3 DEF LookUp
<1> DEFINE v == [slot[r][n] EXCEPT !.stage = "looked", !.verdict = u]
<1>5. slot' = [slot EXCEPT ![r] = [slot[r] EXCEPT ![n] = v]]
  BY <1>1, <1>4 DEF TypeOK
<1>6. v \in Slot /\ v.stage = "looked"
  BY <1>2, <1>3 DEF Slot, Stages, Verdict
<1>7. Sound(v)
  BY <1>2, <1>3, <1>6 DEF Sound, Slot
<1>8. lost' \in [Texts -> Nat] /\ \A t \in Texts : lost'[t] >= lost[t]
  <2>1. lost \in [Texts -> Nat]
    BY <1>1 DEF TypeOK
  <2>2. QED
    BY <1>3, <1>4, <2>1
<1>9. SlotStep(r, n, v)
  BY <1>1, <1>5, <1>6, <1>7, <1>8 DEF SlotStep, LookUp, TypeOK, env, shown
<1>10. QED
  BY <1>9, SlotStepKeeps

LEMMA SendKeeps ==
    ASSUME IInv, NEW r \in Runs, NEW n \in Given(r), Send(r, n)
    PROVE  IInv'
<1>1. TypeOK /\ SlotsSound /\ n \in Positions
  BY Places DEF IInv
<1>2. slot[r][n] \in Slot /\ Sound(slot[r][n]) /\ slot[r][n].stage \in {"planned", "waiting"}
  BY <1>1 DEF TypeOK, SlotsSound, Send
<1>3. slot[r][n].tries < Attempts /\ slot[r][n].tries \in 0 .. Attempts /\ Attempts \in Nat \ {0}
  BY <1>2, NumbersAssumption DEF Sound, Slot
<1>4. PICK stage \in {"sending", "failed"}, tries \in 0 .. Attempts :
        slot' = [slot EXCEPT ![r][n] = [slot[r][n] EXCEPT !.stage = stage, !.tries = tries]]
  <2>1. CASE opt[r].key
    <3>1. slot[r][n].tries + 1 \in 0 .. Attempts
      BY <1>3
    <3>2. slot' = [slot EXCEPT ![r][n] =
                     [slot[r][n] EXCEPT !.stage = "sending", !.tries = slot[r][n].tries + 1]]
      BY <1>1, <1>2, <2>1 DEF Send, TypeOK, Slot
    <3>3. QED
      BY <3>1, <3>2
  <2>2. CASE ~opt[r].key
    <3>1. [slot[r][n] EXCEPT !.stage = "failed"]
            = [slot[r][n] EXCEPT !.stage = "failed", !.tries = slot[r][n].tries]
      BY <1>2 DEF Slot
    <3>2. slot' = [slot EXCEPT ![r][n] = [slot[r][n] EXCEPT !.stage = "failed"]]
      BY <1>1, <2>2 DEF Send, TypeOK
    <3>3. QED
      BY <1>3, <3>1, <3>2
  <2>3. QED
    BY <2>1, <2>2
<1> DEFINE v == [slot[r][n] EXCEPT !.stage = stage, !.tries = tries]
<1>5. slot' = [slot EXCEPT ![r] = [slot[r] EXCEPT ![n] = v]]
  BY <1>1, <1>4 DEF TypeOK
<1>6. v \in Slot /\ v.stage \in {"sending", "failed"}
  BY <1>2 DEF Slot, Stages
<1>7. Sound(v)
  BY <1>2, <1>6 DEF Sound, Slot
<1>8. SlotStep(r, n, v)
  BY <1>1, <1>5, <1>6, <1>7 DEF SlotStep, Send, TypeOK, env, shown, ledger
<1>9. QED
  BY <1>8, SlotStepKeeps

LEMMA AnswerKeeps ==
    ASSUME IInv, NEW r \in Runs, NEW n \in Given(r), Answer(r, n)
    PROVE  IInv'
<1> DEFINE v == [slot[r][n] EXCEPT !.stage = "arrived", !.verdict = slot[r][n].src]
<1>1. TypeOK /\ SlotsSound /\ n \in Positions
  BY Places DEF IInv
<1>2. slot[r][n] \in Slot /\ Sound(slot[r][n]) /\ slot[r][n].stage = "sending"
  BY <1>1 DEF TypeOK, SlotsSound, Answer
<1>3. slot[r][n].src \in Texts
  BY <1>2 DEF Sound
<1>4. slot' = [slot EXCEPT ![r] = [slot[r] EXCEPT ![n] = v]]
  BY <1>1 DEF TypeOK, Answer, Judged
<1>5. v \in Slot /\ v.stage = "arrived"
  BY <1>2, <1>3 DEF Slot, Stages, Verdict
<1>6. Sound(v)
  BY <1>2, <1>3, <1>5 DEF Sound, Slot
<1>7. paid' \in [Texts -> Nat]
  BY <1>1, <1>3 DEF TypeOK, Answer
<1>8. SlotStep(r, n, v)
  BY <1>1, <1>4, <1>5, <1>6, <1>7, LossesStay DEF SlotStep, Answer, env, shown
<1>9. QED
  BY <1>8, SlotStepKeeps

LEMMA FailureKeeps ==
    ASSUME IInv, NEW r \in Runs, NEW n \in Given(r), Refuse(r, n) \/ Fail(r, n)
    PROVE  IInv'
<1>1. TypeOK /\ SlotsSound /\ n \in Positions
  BY Places DEF IInv
<1>2. slot[r][n] \in Slot /\ Sound(slot[r][n]) /\ slot[r][n].stage = "sending"
  BY <1>1 DEF TypeOK, SlotsSound, Refuse, Fail
<1>3. slot[r][n].tries \in 0 .. Attempts /\ Attempts \in Nat \ {0}
  BY <1>2, NumbersAssumption DEF Slot
<1>4. PICK stage \in {"failed", "waiting"} :
        /\ slot' = [slot EXCEPT ![r][n].stage = stage]
        /\ stage = "waiting" => slot[r][n].tries < Attempts
  BY <1>3 DEF Refuse, Fail, GivesUp
<1> DEFINE v == [slot[r][n] EXCEPT !.stage = stage]
<1>5. slot' = [slot EXCEPT ![r] = [slot[r] EXCEPT ![n] = v]]
  BY <1>1, <1>4 DEF TypeOK
<1>6. v \in Slot /\ v.stage = stage
  BY <1>2, <1>4 DEF Slot, Stages
<1>7. Sound(v)
  BY <1>2, <1>4, <1>6 DEF Sound, Slot
<1>8. SlotStep(r, n, v)
  BY <1>1, <1>4, <1>5, <1>6, <1>7 DEF SlotStep, Refuse, Fail, TypeOK, env, shown, ledger
<1>9. QED
  BY <1>8, SlotStepKeeps

(* A verdict that arrived is stored, or lost. *)
LEMMA RememberKeeps ==
    ASSUME IInv, NEW r \in Runs, NEW n \in Given(r), Remember(r, n)
    PROVE  IInv'
<1> DEFINE t == slot[r][n].src
           v == [slot[r][n] EXCEPT !.stage = "answered"]
<1>1. /\ TypeOK /\ SlotsSound /\ CacheJudgesItsKey /\ OwnVerdict /\ FreshVerdictsKept
      /\ OneWarning /\ n \in Positions
  BY Places DEF IInv
<1>2. slot[r][n] \in Slot /\ Sound(slot[r][n]) /\ slot[r][n].stage = "arrived"
  BY <1>1 DEF TypeOK, SlotsSound, Remember
<1>3. t \in Texts /\ slot[r][n].verdict = t /\ t # None
  BY <1>2, DistinctAssumption DEF Sound
<1>4. slot' = [slot EXCEPT ![r] = [slot[r] EXCEPT ![n] = v]]
  BY <1>1 DEF TypeOK, Remember
<1>5. v \in Slot /\ Sound(v) /\ v.stage = "answered" /\ v.src = t
  BY <1>2, <1>3 DEF Slot, Stages, Sound
<1>6. UNCHANGED <<text, edits, pc, opt, report, skipped, starts, paid>>
  BY DEF Remember, env
<1>7. \/ /\ opt[r].caching /\ cache' = [cache EXCEPT ![t] = t]
         /\ UNCHANGED <<warnings, lost>>
      \/ /\ warnings' = [warnings EXCEPT ![r] = IF @ = 0 THEN 1 ELSE @]
         /\ lost' = [lost EXCEPT ![t] = @ + 1] /\ UNCHANGED cache
      \/ ~opt[r].caching /\ UNCHANGED <<cache, warnings, lost>>
  BY <1>3 DEF Remember
<1> HIDE DEF t, v
<1>8. \A q \in Runs, m \in Positions :
        slot'[q][m] = IF q = r /\ m = n THEN v ELSE slot[q][m]
  BY <1>1, <1>4 DEF TypeOK
<1>9. lost' \in [Texts -> Nat] /\ \A u \in Texts : lost'[u] >= lost[u]
  <2>1. lost' = lost \/ lost' = [lost EXCEPT ![t] = @ + 1]
    BY <1>7
  <2>2. lost \in [Texts -> Nat]
    BY <1>1 DEF TypeOK
  <2>3. QED
    BY <1>3, <2>1, <2>2
<1>10. TypeOK'
  <2>1. slot' \in [Runs -> [Positions -> Slot]]
    BY <1>1, <1>4, <1>5 DEF TypeOK
  <2>2. cache' \in [Texts -> Verdict]
    <3>1. cache' = cache \/ cache' = [cache EXCEPT ![t] = t]
      BY <1>7
    <3>2. cache \in [Texts -> Verdict] /\ t \in Verdict
      BY <1>1, <1>3 DEF TypeOK, Verdict
    <3>3. QED
      BY <3>1, <3>2
  <2>3. warnings' \in [Runs -> Nat]
    <3>1. warnings' = warnings \/ warnings' = [warnings EXCEPT ![r] = IF @ = 0 THEN 1 ELSE @]
      BY <1>7
    <3>2. warnings \in [Runs -> Nat]
      BY <1>1 DEF TypeOK
    <3>3. QED
      BY <3>1, <3>2
  <2>4. QED
    BY <1>1, <1>6, <1>9, <2>1, <2>2, <2>3 DEF TypeOK
<1>11. SlotsSound'
  BY <1>1, <1>5, <1>8 DEF SlotsSound
<1>12. CacheJudgesItsKey'
  BY <1>1, <1>3, <1>7 DEF CacheJudgesItsKey, TypeOK
<1>13. OwnVerdict'
  <2>1. pc[r] # "done"
    BY DEF Remember
  <2>2. \A q \in Runs : q # r => slot'[q] = slot[q]
    BY <1>1, <1>4 DEF TypeOK
  <2>3. \A q \in Runs : \A g : Place(q, g)' = Place(q, g)
    BY <1>6 DEF Place
  <2>4. QED
    BY <1>1, <1>6, <2>1, <2>2, <2>3 DEF OwnVerdict
<1>14. FreshVerdictsKept'
  <2>1. SUFFICES ASSUME NEW q \in Runs, opt[q].caching, NEW m \in Given(q),
                        slot'[q][m].stage = "answered", lost'[slot'[q][m].src] = 0
                 PROVE  cache'[slot'[q][m].src] # None
    BY <1>6 DEF FreshVerdictsKept, At, Given
  <2>2. m \in Positions
    BY <1>1, Places
  <2>3. CASE q = r /\ m = n
    <3>1. slot'[q][m].src = t
      BY <1>5, <1>8, <2>2, <2>3
    <3>2. lost'[t] = 0
      BY <2>1, <3>1
    <3>3. cache' = [cache EXCEPT ![t] = t]
      BY <1>1, <1>3, <1>7, <2>1, <2>3, <3>2 DEF TypeOK
    <3>4. QED
      BY <1>1, <1>3, <3>1, <3>3 DEF TypeOK
  <2>4. CASE ~(q = r /\ m = n)
    <3>1. slot'[q][m] = slot[q][m]
      BY <1>8, <2>2, <2>4
    <3>2. slot[q][m] \in Slot /\ Sound(slot[q][m]) /\ slot[q][m].stage = "answered"
      BY <1>1, <2>1, <2>2, <3>1 DEF TypeOK, SlotsSound
    <3>3. slot[q][m].src \in Texts
      BY <3>2 DEF Sound
    <3>4. lost[slot[q][m].src] = 0
      BY <1>1, <1>9, <2>1, <3>1, <3>3 DEF TypeOK
    <3>5. cache[slot[q][m].src] # None
      BY <1>1, <2>1, <3>2, <3>4 DEF FreshVerdictsKept, At
    <3>6. QED
      BY <1>1, <1>3, <1>7, <3>1, <3>3, <3>5 DEF TypeOK
  <2>5. QED
    BY <2>3, <2>4
<1>15. OneWarning'
  <2>1. CASE UNCHANGED warnings
    BY <1>1, <1>9, <2>1 DEF OneWarning, TypeOK
  <2>2. CASE /\ warnings' = [warnings EXCEPT ![r] = IF @ = 0 THEN 1 ELSE @]
             /\ lost' = [lost EXCEPT ![t] = @ + 1]
    <3>1. lost'[t] > 0
      BY <1>1, <1>3, <2>2 DEF TypeOK
    <3>2. \A q \in Runs : warnings'[q] <= 1
      BY <1>1, <2>2 DEF OneWarning, TypeOK
    <3>3. QED
      BY <1>3, <3>1, <3>2 DEF OneWarning
  <2>3. QED
    BY <1>7, <2>1, <2>2
<1>16. QED
  BY <1>10, <1>11, <1>12, <1>13, <1>14, <1>15 DEF IInv

(* Only pairs that were looked up are planned. *)
LEMMA PlanKeeps ==
    ASSUME IInv, NEW r \in Runs, Plan(r)
    PROVE  IInv'
<1> DEFINE v(m) == [slot[r][m] EXCEPT !.stage = "planned"]
           w(m) == IF m \in Ask(r) THEN v(m) ELSE slot[r][m]
<1>1. /\ TypeOK /\ SlotsSound /\ CacheJudgesItsKey /\ OwnVerdict /\ FreshVerdictsKept
      /\ OneWarning
  BY DEF IInv
<1>2. Given(r) \subseteq Positions /\ IsFiniteSet(Given(r))
  BY <1>1, Places
<1>3. \A m \in Ask(r) : m \in Positions /\ slot[r][m].stage = "looked"
  BY <1>2 DEF Plan, Ask, Misses, At
<1>4. \A m \in Ask(r) : v(m) \in Slot /\ Sound(v(m)) /\ v(m).stage = "planned"
  <2>1. SUFFICES ASSUME NEW m \in Ask(r)
                 PROVE  v(m) \in Slot /\ Sound(v(m)) /\ v(m).stage = "planned"
    OBVIOUS
  <2>2. slot[r][m] \in Slot /\ Sound(slot[r][m]) /\ slot[r][m].stage = "looked"
    BY <1>1, <1>3 DEF TypeOK, SlotsSound
  <2>3. v(m) \in Slot /\ v(m).stage = "planned"
    BY <2>2 DEF Slot, Stages
  <2>4. QED
    BY <2>2, <2>3 DEF Sound, Slot
<1>5. slot' = [slot EXCEPT ![r] = [m \in Positions |-> w(m)]]
  BY <1>1 DEF Plan, TypeOK
<1>6. /\ pc' = [pc EXCEPT ![r] = "asking"] /\ pc[r] = "looking"
      /\ skipped' = [skipped EXCEPT ![r] = Cardinality(Misses(r) \ Ask(r))]
      /\ UNCHANGED <<text, edits, cache, opt, warnings, report, starts, paid, lost>>
  BY DEF Plan, env, ledger
<1>7. \A m \in Positions : w(m) \in Slot /\ Sound(w(m))
  BY <1>1, <1>4 DEF TypeOK, SlotsSound
<1>8. \A m \in Positions : w(m).stage = "answered" => w(m) = slot[r][m]
  BY <1>4
<1> HIDE DEF w
<1>9. \A q \in Runs, m \in Positions :
        slot'[q][m] = IF q = r THEN w(m) ELSE slot[q][m]
  BY <1>1, <1>5 DEF TypeOK
<1>10. TypeOK'
  <2>1. slot' \in [Runs -> [Positions -> Slot]]
    BY <1>1, <1>5, <1>7 DEF TypeOK
  <2>2. Cardinality(Misses(r) \ Ask(r)) \in Nat
    <3>1. Misses(r) \ Ask(r) \subseteq Given(r)
      BY DEF Misses
    <3>2. QED
      BY <1>2, <3>1, FS_Subset, FS_CardinalityType
  <2>3. QED
    BY <1>1, <1>6, <2>1, <2>2 DEF TypeOK
<1>11. SlotsSound'
  BY <1>1, <1>7, <1>9 DEF SlotsSound
<1>12. CacheJudgesItsKey' /\ OneWarning'
  BY <1>1, <1>6 DEF CacheJudgesItsKey, OneWarning
<1>13. OwnVerdict'
  <2>1. \A q \in Runs : pc'[q] = "done" => q # r /\ pc[q] = "done"
    BY <1>1, <1>6 DEF TypeOK
  <2>2. \A q \in Runs : q # r => slot'[q] = slot[q]
    BY <1>1, <1>5 DEF TypeOK
  <2>3. \A q \in Runs : \A g : Place(q, g)' = Place(q, g)
    BY <1>6 DEF Place
  <2>4. QED
    BY <1>1, <1>6, <2>1, <2>2, <2>3 DEF OwnVerdict
<1>14. FreshVerdictsKept'
  <2>1. SUFFICES ASSUME NEW q \in Runs, opt[q].caching, NEW m \in Given(q),
                        slot'[q][m].stage = "answered", lost[slot'[q][m].src] = 0
                 PROVE  cache[slot'[q][m].src] # None
    BY <1>6 DEF FreshVerdictsKept, At, Given
  <2>2. m \in Positions
    BY <1>1, Places
  <2>3. slot'[q][m] = slot[q][m]
    BY <1>8, <1>9, <2>1, <2>2
  <2>4. QED
    BY <1>1, <2>1, <2>3 DEF FreshVerdictsKept, At
<1>15. QED
  BY <1>10, <1>11, <1>12, <1>13, <1>14 DEF IInv

(* The report shows each group the verdict of its own pair. *)
LEMMA SucceedKeeps ==
    ASSUME IInv, NEW r \in Runs, Succeed(r)
    PROVE  IInv'
<1>1. /\ TypeOK /\ SlotsSound /\ CacheJudgesItsKey /\ OwnVerdict /\ FreshVerdictsKept
      /\ OneWarning
  BY DEF IInv
<1>2. /\ pc' = [pc EXCEPT ![r] = "done"]
      /\ report' = [report EXCEPT ![r] = Spread(r)]
      /\ UNCHANGED <<text, edits, cache, opt, slot, warnings, skipped, starts, paid, lost>>
  BY DEF Succeed, env, ledger
<1>3. \A g \in opt[r].asked : /\ slot[r][Place(r, g)].verdict \in Verdict
                              /\ slot[r][Place(r, g)].verdict \in {None, slot[r][Place(r, g)].src}
  <2>1. SUFFICES ASSUME NEW g \in opt[r].asked
                 PROVE  /\ slot[r][Place(r, g)].verdict \in Verdict
                        /\ slot[r][Place(r, g)].verdict \in {None, slot[r][Place(r, g)].src}
    OBVIOUS
  <2>2. Place(r, g) \in Positions
    BY <1>1, Places
  <2>3. slot[r][Place(r, g)] \in Slot /\ Sound(slot[r][Place(r, g)])
    BY <1>1, <2>2 DEF TypeOK, SlotsSound
  <2>4. QED
    BY <2>3 DEF Slot, Sound
<1>4. Spread(r) \in [Groups -> Verdict]
  BY <1>3 DEF Spread, Verdict
<1>5. TypeOK'
  BY <1>1, <1>2, <1>4 DEF TypeOK
<1>6. SlotsSound' /\ CacheJudgesItsKey' /\ OneWarning'
  BY <1>1, <1>2 DEF SlotsSound, CacheJudgesItsKey, OneWarning
<1>7. FreshVerdictsKept'
  BY <1>1, <1>2 DEF FreshVerdictsKept, At, Given
<1>8. OwnVerdict'
  <2>1. \A q \in Runs : \A g : Place(q, g)' = Place(q, g)
    BY <1>2 DEF Place
  <2>2. \A q \in Runs : q # r => pc'[q] = pc[q] /\ report'[q] = report[q]
    BY <1>1, <1>2 DEF TypeOK
  <2>3. report'[r] = Spread(r)
    BY <1>1, <1>2 DEF TypeOK
  <2>4. \A g \in Groups \ opt[r].asked : report'[r][g] = None
    BY <2>3 DEF Spread
  <2>5. \A g \in opt[r].asked : report'[r][g] \in {None, slot[r][Place(r, g)].src}
    <3>1. \A g \in opt[r].asked : g \in Groups
      BY <1>1 DEF TypeOK, Option
    <3>2. QED
      BY <1>3, <2>3, <3>1 DEF Spread
  <2>6. QED
    BY <1>1, <1>2, <2>1, <2>2, <2>4, <2>5 DEF OwnVerdict
<1>9. QED
  BY <1>5, <1>6, <1>7, <1>8 DEF IInv

LEMMA GiveUpKeeps ==
    ASSUME IInv, NEW r \in Runs, GiveUp(r)
    PROVE  IInv'
<1>1. /\ TypeOK /\ SlotsSound /\ CacheJudgesItsKey /\ OwnVerdict /\ FreshVerdictsKept
      /\ OneWarning
  BY DEF IInv
<1>2. /\ pc' = [pc EXCEPT ![r] = "done"]
      /\ report' = [report EXCEPT ![r] = Untriaged]
      /\ skipped' = [skipped EXCEPT ![r] = 0]
      /\ UNCHANGED <<text, edits, cache, opt, slot, warnings, starts, paid, lost>>
  BY DEF GiveUp, env, ledger
<1>3. TypeOK'
  BY <1>1, <1>2 DEF TypeOK
<1>4. SlotsSound' /\ CacheJudgesItsKey' /\ OneWarning'
  BY <1>1, <1>2 DEF SlotsSound, CacheJudgesItsKey, OneWarning
<1>5. FreshVerdictsKept'
  BY <1>1, <1>2 DEF FreshVerdictsKept, At, Given
<1>6. OwnVerdict'
  <2>1. \A q \in Runs : \A g : Place(q, g)' = Place(q, g)
    BY <1>2 DEF Place
  <2>2. \A q \in Runs : q # r => pc'[q] = pc[q] /\ report'[q] = report[q]
    BY <1>1, <1>2 DEF TypeOK
  <2>3. report'[r] = Untriaged
    BY <1>1, <1>2 DEF TypeOK
  <2>4. QED
    BY <1>1, <1>2, <2>1, <2>2, <2>3 DEF OwnVerdict
<1>7. QED
  BY <1>3, <1>4, <1>5, <1>6 DEF IInv

(* A run starts with nothing read, asked or shown. *)
LEMMA BeginKeeps ==
    ASSUME IInv, NEW r \in Runs, Begin(r)
    PROVE  IInv'
<1>1. /\ TypeOK /\ SlotsSound /\ CacheJudgesItsKey /\ OwnVerdict /\ FreshVerdictsKept
      /\ OneWarning
  BY DEF IInv
<1>2. PICK o \in Options :
        /\ opt' = [opt EXCEPT ![r] = o]
        /\ pc' = [pc EXCEPT ![r] = IF o.asked # {} /\ o.threads THEN "looking" ELSE "done"]
        /\ report' = [report EXCEPT ![r] =
                        IF o.asked = {} THEN [g \in Groups |-> None] ELSE Untriaged]
  BY DEF Begin
<1>3. /\ starts < MaxStarts /\ starts' = starts + 1
      /\ slot' = [slot EXCEPT ![r] = [n \in Positions |-> EmptySlot]]
      /\ warnings' = [warnings EXCEPT ![r] = 0]
      /\ skipped' = [skipped EXCEPT ![r] = 0]
      /\ UNCHANGED <<text, edits, cache, paid, lost>>
  BY DEF Begin, env, ledger
<1>4. o \in Option
  BY OptionsAssumption
<1>5. EmptySlot \in Slot /\ Sound(EmptySlot) /\ EmptySlot.stage = "queued"
  BY NumbersAssumption DEF EmptySlot, Slot, Stages, Verdict, Sound
<1>6. \A q \in Runs : /\ opt'[q] = IF q = r THEN o ELSE opt[q]
                      /\ slot'[q] = IF q = r THEN [n \in Positions |-> EmptySlot] ELSE slot[q]
                      /\ warnings'[q] = IF q = r THEN 0 ELSE warnings[q]
                      /\ q # r => pc'[q] = pc[q] /\ report'[q] = report[q]
  BY <1>1, <1>2, <1>3 DEF TypeOK
<1>7. TypeOK'
  <2>1. opt' \in [Runs -> Option]
    BY <1>1, <1>2, <1>4 DEF TypeOK
  <2>2. pc' \in [Runs -> {"idle", "looking", "asking", "done"}]
    BY <1>1, <1>2 DEF TypeOK
  <2>3. report' \in [Runs -> [Groups -> Verdict] \cup {Untriaged}]
    BY <1>1, <1>2 DEF TypeOK, Verdict
  <2>4. slot' \in [Runs -> [Positions -> Slot]]
    BY <1>1, <1>3, <1>5 DEF TypeOK
  <2>5. starts' \in 0 .. MaxStarts
    BY <1>1, <1>3, NumbersAssumption DEF TypeOK
  <2>6. warnings' \in [Runs -> Nat] /\ skipped' \in [Runs -> Nat]
    BY <1>1, <1>3 DEF TypeOK
  <2>7. QED
    BY <1>1, <1>3, <2>1, <2>2, <2>3, <2>4, <2>5, <2>6 DEF TypeOK
<1>8. SlotsSound'
  BY <1>1, <1>5, <1>6 DEF SlotsSound
<1>9. CacheJudgesItsKey' /\ OneWarning'
  BY <1>1, <1>3, <1>6 DEF CacheJudgesItsKey, OneWarning
<1>10. FreshVerdictsKept'
  <2>1. SUFFICES ASSUME NEW q \in Runs, opt'[q].caching, NEW m \in Given(q)',
                        slot'[q][m].stage = "answered", lost[slot'[q][m].src] = 0
                 PROVE  cache[slot'[q][m].src] # None
    BY <1>3 DEF FreshVerdictsKept, At
  <2>2. m \in Positions
    BY <1>7, PlacesNext
  <2>3. q # r
    BY <1>5, <1>6, <2>1, <2>2
  <2>4. opt'[q] = opt[q] /\ slot'[q] = slot[q]
    BY <1>6, <2>3
  <2>5. QED
    BY <1>1, <2>1, <2>4 DEF FreshVerdictsKept, At, Given
<1>11. OwnVerdict'
  <2>1. \A q \in Runs : \A g : q # r => Place(q, g)' = Place(q, g)
    BY <1>6 DEF Place
  <2>2. CASE o.asked = {}
    <3>1. report'[r] = [g \in Groups |-> None] /\ opt'[r].asked = {}
      BY <1>1, <1>2, <1>6, <2>2 DEF TypeOK
    <3>2. QED
      BY <1>1, <1>6, <2>1, <3>1 DEF OwnVerdict
  <2>3. CASE o.asked # {}
    <3>1. report'[r] = Untriaged
      BY <1>1, <1>2, <2>3 DEF TypeOK
    <3>2. QED
      BY <1>1, <1>6, <2>1, <3>1 DEF OwnVerdict
  <2>4. QED
    BY <2>2, <2>3
<1>12. QED
  BY <1>7, <1>8, <1>9, <1>10, <1>11 DEF IInv

(* What was received and not stored is lost; the losses only grow. *)
LEMMA InterruptKeeps ==
    ASSUME IInv, NEW r \in Runs, Interrupt(r)
    PROVE  IInv'
<1> DEFINE gone(t) == {n \in At(r, {"arrived"}) : opt[r].caching /\ slot[r][n].src = t}
<1>1. /\ TypeOK /\ SlotsSound /\ CacheJudgesItsKey /\ OwnVerdict /\ FreshVerdictsKept
      /\ OneWarning
  BY DEF IInv
<1>2. /\ pc' = [pc EXCEPT ![r] = "idle"]
      /\ lost' = [t \in Texts |-> lost[t] + Cardinality(gone(t))]
      /\ UNCHANGED <<text, edits, cache, opt, slot, warnings, report, skipped, starts, paid>>
  BY DEF Interrupt, env, shown
<1>3. \A t \in Texts : Cardinality(gone(t)) \in Nat
  <2>1. SUFFICES ASSUME NEW t \in Texts PROVE Cardinality(gone(t)) \in Nat
    OBVIOUS
  <2>2. gone(t) \subseteq Given(r) /\ IsFiniteSet(Given(r))
    BY <1>1, Places DEF At
  <2>3. QED
    BY <2>2, FS_Subset, FS_CardinalityType
<1> HIDE DEF gone
<1>4. lost' \in [Texts -> Nat] /\ \A t \in Texts : lost'[t] >= lost[t]
  BY <1>1, <1>2, <1>3 DEF TypeOK
<1>5. TypeOK'
  BY <1>1, <1>2, <1>4 DEF TypeOK
<1>6. SlotsSound' /\ CacheJudgesItsKey'
  BY <1>1, <1>2 DEF SlotsSound, CacheJudgesItsKey
<1>7. FreshVerdictsKept' /\ OneWarning'
  BY <1>1, <1>2, <1>4, LossesKeep
<1>8. OwnVerdict'
  <2>1. \A q \in Runs : \A g : Place(q, g)' = Place(q, g)
    BY <1>2 DEF Place
  <2>2. \A q \in Runs : pc'[q] = "done" => pc[q] = "done"
    BY <1>1, <1>2 DEF TypeOK
  <2>3. QED
    BY <1>1, <1>2, <2>1, <2>2 DEF OwnVerdict
<1>9. QED
  BY <1>5, <1>6, <1>7, <1>8 DEF IInv

LEMMA EditKeeps ==
    ASSUME IInv, NEW g \in Groups, Edit(g)
    PROVE  IInv'
<1>1. /\ TypeOK /\ SlotsSound /\ CacheJudgesItsKey /\ OwnVerdict /\ FreshVerdictsKept
      /\ OneWarning
  BY DEF IInv
<1>2. UNCHANGED <<cache, pc, opt, slot, warnings, report, skipped, starts, paid, lost>>
  BY DEF Edit, shown, ledger
<1>3. TypeOK'
  BY <1>1, <1>2, NumbersAssumption DEF TypeOK, Edit
<1>4. SlotsSound' /\ CacheJudgesItsKey' /\ OneWarning'
  BY <1>1, <1>2 DEF SlotsSound, CacheJudgesItsKey, OneWarning
<1>5. FreshVerdictsKept'
  BY <1>1, <1>2 DEF FreshVerdictsKept, At, Given
<1>6. OwnVerdict'
  BY <1>1, <1>2 DEF OwnVerdict, Place
<1>7. QED
  BY <1>3, <1>4, <1>5, <1>6 DEF IInv

LEMMA CleanKeeps ==
    ASSUME IInv, NEW t \in Texts, Clean(t)
    PROVE  IInv'
<1>1. /\ TypeOK /\ SlotsSound /\ CacheJudgesItsKey /\ OwnVerdict /\ FreshVerdictsKept
      /\ OneWarning
  BY DEF IInv
<1>2. /\ cache' = [cache EXCEPT ![t] = None] /\ lost' = [lost EXCEPT ![t] = @ + 1]
      /\ UNCHANGED <<text, edits, pc, opt, slot, warnings, report, skipped, starts, paid>>
  BY DEF Clean, env, shown
<1>3. /\ lost' \in [Texts -> Nat] /\ lost'[t] > 0
      /\ \A u \in Texts : lost'[u] >= lost[u] /\ (u # t => cache'[u] = cache[u])
  BY <1>1, <1>2 DEF TypeOK
<1>4. TypeOK'
  BY <1>1, <1>2, <1>3 DEF TypeOK, Verdict
<1>5. SlotsSound' /\ CacheJudgesItsKey'
  BY <1>1, <1>2 DEF SlotsSound, CacheJudgesItsKey, TypeOK
<1>6. FreshVerdictsKept' /\ OneWarning'
  BY <1>1, <1>2, <1>3, LossesKeep
<1>7. OwnVerdict'
  BY <1>1, <1>2 DEF OwnVerdict, Place
<1>8. QED
  BY <1>4, <1>5, <1>6, <1>7 DEF IInv

-----------------------------------------------------------------------------
LEMMA InitIInv == Init => IInv
<1>1. SUFFICES ASSUME Init PROVE IInv
  OBVIOUS
<1>2. EmptySlot \in Slot /\ Sound(EmptySlot) /\ EmptySlot.stage = "queued"
  BY NumbersAssumption DEF EmptySlot, Slot, Stages, Verdict, Sound
<1>3. TypeOK
  BY <1>1, <1>2, OptionsAssumption, NumbersAssumption DEF Init, TypeOK, Option, Verdict
<1>4. SlotsSound /\ CacheJudgesItsKey /\ OwnVerdict /\ OneWarning
  BY <1>1, <1>2 DEF Init, SlotsSound, CacheJudgesItsKey, OwnVerdict, OneWarning
<1>5. FreshVerdictsKept
  BY <1>1 DEF Init, FreshVerdictsKept
<1>6. QED
  BY <1>3, <1>4, <1>5 DEF IInv

LEMMA StepKeeps ==
    ASSUME IInv, NEW r \in Runs, Step(r)
    PROVE  IInv'
<1>1. CASE Plan(r)
  BY <1>1, PlanKeeps
<1>2. CASE Succeed(r)
  BY <1>2, SucceedKeeps
<1>3. CASE GiveUp(r)
  BY <1>3, GiveUpKeeps
<1>4. CASE \E g \in opt[r].asked : ReadBack(r, g)
  BY <1>4, ReadBackKeeps
<1>5. ASSUME NEW n \in Given(r), LookUp(r, n) PROVE IInv'
  BY <1>5, LookUpKeeps
<1>6. ASSUME NEW n \in Given(r), Send(r, n) PROVE IInv'
  BY <1>6, SendKeeps
<1>7. ASSUME NEW n \in Given(r), Answer(r, n) PROVE IInv'
  BY <1>7, AnswerKeeps
<1>8. ASSUME NEW n \in Given(r), Refuse(r, n) \/ Fail(r, n) PROVE IInv'
  BY <1>8, FailureKeeps
<1>9. ASSUME NEW n \in Given(r), Remember(r, n) PROVE IInv'
  BY <1>9, RememberKeeps
<1>10. QED
  BY <1>1, <1>2, <1>3, <1>4, <1>5, <1>6, <1>7, <1>8, <1>9 DEF Step

LEMMA NextKeeps == IInv /\ [Next]_vars => IInv'
<1>1. SUFFICES ASSUME IInv, [Next]_vars PROVE IInv'
  OBVIOUS
<1>2. ASSUME NEW r \in Runs, Begin(r) PROVE IInv'
  BY <1>1, <1>2, BeginKeeps
<1>3. ASSUME NEW r \in Runs, Interrupt(r) PROVE IInv'
  BY <1>1, <1>3, InterruptKeeps
<1>4. ASSUME NEW r \in Runs, Step(r) PROVE IInv'
  BY <1>1, <1>4, StepKeeps
<1>5. ASSUME NEW g \in Groups, Edit(g) PROVE IInv'
  BY <1>1, <1>5, EditKeeps
<1>6. ASSUME NEW t \in Texts, Clean(t) PROVE IInv'
  BY <1>1, <1>6, CleanKeeps
<1>7. CASE UNCHANGED vars
  <2>1. TypeOK /\ SlotsSound /\ CacheJudgesItsKey /\ OwnVerdict /\ FreshVerdictsKept /\ OneWarning
    BY <1>1 DEF IInv
  <2>2. TypeOK'
    BY <1>7, <2>1 DEF vars, TypeOK
  <2>3. SlotsSound' /\ CacheJudgesItsKey' /\ OneWarning'
    BY <1>7, <2>1 DEF vars, SlotsSound, CacheJudgesItsKey, OneWarning
  <2>4. FreshVerdictsKept'
    BY <1>7, <2>1 DEF vars, FreshVerdictsKept, At, Given
  <2>5. OwnVerdict'
    BY <1>7, <2>1 DEF vars, OwnVerdict, Place
  <2>6. QED
    BY <2>2, <2>3, <2>4, <2>5 DEF IInv
<1>8. QED
  BY <1>1, <1>2, <1>3, <1>4, <1>5, <1>6, <1>7 DEF Next

-----------------------------------------------------------------------------
(* The inductive invariant holds in every reachable state.                 *)
THEOREM Invariance == Spec => []IInv
<1> QED
  BY InitIInv, NextKeeps, PTL DEF Spec

(* Every state is well typed; in particular no pair is ever tried more     *)
(* often than the settings allow.                                          *)
THEOREM TypeCorrect == Spec => []TypeOK
<1>1. IInv => TypeOK
  BY DEF IInv
<1> QED
  BY <1>1, Invariance, PTL

(* Runs that share the cache, over source that is edited under them, never *)
(* store a verdict under the key of a text it was not given on.            *)
THEOREM CacheIsSound == Spec => []CacheJudgesItsKey
<1>1. IInv => CacheJudgesItsKey
  BY DEF IInv
<1> QED
  BY <1>1, Invariance, PTL

(* A verdict is shown beside the group whose pair it was given on.         *)
THEOREM VerdictsAreTheirOwn == Spec => []OwnVerdict
<1>1. IInv => OwnVerdict
  BY DEF IInv
<1> QED
  BY <1>1, Invariance, PTL

(* What was paid for is in the cache unless the cache lost it, in a run    *)
(* that fails or is interrupted too.                                       *)
THEOREM FreshVerdictsAreKept == Spec => []FreshVerdictsKept
<1>1. IInv => FreshVerdictsKept
  BY DEF IInv
<1> QED
  BY <1>1, Invariance, PTL

(* A run warns once about its cache, whatever its threads do.              *)
THEOREM WarnsOnce == Spec => []OneWarning
<1>1. IInv => OneWarning
  BY DEF IInv
<1> QED
  BY <1>1, Invariance, PTL

-----------------------------------------------------------------------------
(* The plan *)

(* Of two members of a finite set the greater has more below it. *)
LEMMA RankGrows ==
    ASSUME NEW S \in SUBSET Nat, IsFiniteSet(S), NEW m \in S, NEW n \in S, m < n
    PROVE  /\ Cardinality({k \in S : k < m}) < Cardinality({k \in S : k < n})
           /\ Cardinality({k \in S : k <= m}) < Cardinality({k \in S : k <= n})
<1> DEFINE B(x) == {k \in S : k < x}
           U(x) == {k \in S : k <= x}
<1>1. \A x : /\ IsFiniteSet(B(x)) /\ Cardinality(B(x)) \in Nat
             /\ IsFiniteSet(U(x)) /\ Cardinality(U(x)) \in Nat
  <2>1. \A x : B(x) \in SUBSET S /\ U(x) \in SUBSET S
    OBVIOUS
  <2> HIDE DEF B, U
  <2>2. QED
    BY <2>1, FS_Subset, FS_CardinalityType
<1>2. /\ B(m) \in SUBSET B(n) /\ m \in B(n) /\ m \notin B(m)
      /\ U(m) \in SUBSET U(n) /\ n \in U(n) /\ n \notin U(m)
  <2>1. m \in Nat /\ n \in Nat /\ m < n
    OBVIOUS
  <2>2. \A k \in S : (k < m => k < n) /\ (k <= m => k <= n)
    BY <2>1
  <2>3. B(m) \in SUBSET B(n) /\ U(m) \in SUBSET U(n)
    BY <2>2
  <2>4. m \in B(n) /\ m \notin B(m) /\ n \in U(n) /\ n \notin U(m)
    BY <2>1
  <2>5. QED
    BY <2>3, <2>4
<1> HIDE DEF B, U
<1>3. Cardinality(B(m)) < Cardinality(B(n))
  <2>1. /\ Cardinality(B(m)) <= Cardinality(B(n))
        /\ Cardinality(B(n)) = Cardinality(B(m)) => B(n) = B(m)
    BY <1>1, <1>2, FS_Subset
  <2>2. QED
    BY <1>1, <1>2, <2>1
<1>4. Cardinality(U(m)) < Cardinality(U(n))
  <2>1. /\ Cardinality(U(m)) <= Cardinality(U(n))
        /\ Cardinality(U(n)) = Cardinality(U(m)) => U(n) = U(m)
    BY <1>1, <1>2, FS_Subset
  <2>2. QED
    BY <1>1, <1>2, <2>1
<1>5. QED
  BY <1>3, <1>4 DEF B, U

(* The asked groups and their positions are one to one. *)
LEMMA PlacesApart ==
    ASSUME TypeOK, NEW r \in Runs
    PROVE  /\ \A g \in opt[r].asked : Place(r, g) \in Given(r)
           /\ \A n \in Given(r) : \E g \in opt[r].asked : Place(r, g) = n
           /\ \A g, h \in opt[r].asked : Place(r, g) = Place(r, h) => g = h
<1> DEFINE A == opt[r].asked
           place == [g \in A |-> Place(r, g)]
<1>1. A \in SUBSET Nat /\ IsFiniteSet(A) /\ Cardinality(A) \in Nat
  <2>1. A \subseteq Groups
    BY DEF TypeOK, Option
  <2>2. QED
    BY <2>1, Places, FS_CardinalityType, OptionsAssumption
<1>2. \A g \in A : Place(r, g) \in Given(r)
  <2>1. SUFFICES ASSUME NEW g \in A
                 PROVE  Place(r, g) \in Given(r)
    OBVIOUS
  <2> DEFINE U == {h \in A : h <= g}
  <2>2. U \in SUBSET A /\ g \in U
    BY <1>1
  <2> HIDE DEF U
  <2>3. IsFiniteSet(U) /\ Cardinality(U) \in Nat /\ Cardinality(U) <= Cardinality(A)
    BY <1>1, <2>2, FS_Subset, FS_CardinalityType
  <2>4. Cardinality(U) # 0
    BY <2>2, <2>3, FS_EmptySet
  <2>5. Place(r, g) = Cardinality(U)
    BY DEF Place, U
  <2>6. QED
    BY <1>1, <2>3, <2>4, <2>5 DEF Given
<1>3. \A g, h \in A : Place(r, g) = Place(r, h) => g = h
  <2>1. SUFFICES ASSUME NEW g \in A, NEW h \in A, g < h
                 PROVE  Place(r, g) # Place(r, h)
    BY <1>1
  <2>2. Place(r, g) < Place(r, h)
    BY <1>1, <2>1, RankGrows DEF Place
  <2>3. Place(r, g) \in Nat /\ Place(r, h) \in Nat
    BY <1>2 DEF Given
  <2>4. QED
    BY <2>2, <2>3
<1>4. place \in Injection(A, Given(r))
  BY <1>2, <1>3 DEF Injection, IsInjective
<1>5. IsFiniteSet(Given(r)) /\ Cardinality(Given(r)) = Cardinality(A)
  BY <1>1, FS_Interval DEF Given
<1> HIDE DEF place
<1>6. place \in Surjection(A, Given(r))
  BY <1>1, <1>4, <1>5, FS_Injection
<1>7. \A n \in Given(r) : \E g \in A : place[g] = n
  BY <1>6 DEF Surjection
<1>8. QED
  BY <1>2, <1>3, <1>7 DEF place

(* budget::plan: as many as the budget has, and none after one passed over. *)
LEMMA PlanIsAfforded ==
    ASSUME TypeOK, NEW r \in Runs
    PROVE  /\ opt[r].budget # NoLimit => Cardinality(Ask(r)) <= opt[r].budget
           /\ \A m \in Misses(r) \ Ask(r), n \in Ask(r) : n < m
<1> DEFINE M == Misses(r)
           rank(n) == Cardinality({m \in M : m < n})
<1>1. M \in SUBSET Nat /\ IsFiniteSet(M) /\ Ask(r) \subseteq M
  <2>1. M \subseteq Given(r) /\ Given(r) \subseteq Nat
    BY DEF Misses, Given
  <2>2. QED
    BY <2>1, Places, FS_Subset DEF Ask
<1>2. opt[r].budget \in Nat \cup {NoLimit}
  BY DEF TypeOK, Option
<1>3. \A n : rank(n) \in Nat
  <2> DEFINE B(n) == {m \in M : m < n}
  <2>1. \A n : B(n) \in SUBSET M
    OBVIOUS
  <2> HIDE DEF B, M
  <2>2. \A n : Cardinality(B(n)) \in Nat
    BY <1>1, <2>1, FS_Subset, FS_CardinalityType
  <2>3. QED
    BY <2>2 DEF B
<1>4. \A m, n \in M : m < n => rank(m) < rank(n)
  <2> HIDE DEF M
  <2>1. QED
    BY <1>1, RankGrows
<1>5. Ask(r) = {n \in M : opt[r].budget = NoLimit \/ rank(n) < opt[r].budget}
  BY DEF Ask
<1> HIDE DEF M, rank
<1>6. ASSUME opt[r].budget # NoLimit
      PROVE  Cardinality(Ask(r)) <= opt[r].budget
  <2> DEFINE b == opt[r].budget
             f == [n \in Ask(r) |-> rank(n)]
  <2>1. b \in Nat
    BY <1>2, <1>6
  <2> HIDE DEF b
  <2>2. \A n \in Ask(r) : n \in Nat /\ rank(n) \in 0 .. b - 1
    <3>1. SUFFICES ASSUME NEW n \in Ask(r)
                   PROVE  n \in Nat /\ rank(n) \in 0 .. b - 1
      OBVIOUS
    <3>2. n \in M /\ n \in Nat
      BY <1>1
    <3>3. rank(n) < b
      BY <1>5, <1>6, <3>1 DEF b
    <3>4. QED
      BY <1>3, <2>1, <3>2, <3>3
  <2>3. \A m, n \in Ask(r) : f[m] = f[n] => m = n
    <3>1. \A m, n \in Ask(r) : m < n => rank(m) < rank(n)
      BY <1>1, <1>4
    <3>2. QED
      BY <1>3, <2>2, <3>1
  <2>4. f \in Injection(Ask(r), 0 .. b - 1)
    BY <2>2, <2>3 DEF Injection, IsInjective
  <2>5. IsFiniteSet(0 .. b - 1) /\ Cardinality(0 .. b - 1) = b
    BY <2>1, FS_Interval
  <2> HIDE DEF f
  <2>6. Cardinality(Ask(r)) <= Cardinality(0 .. b - 1)
    BY <2>4, <2>5, FS_Injection
  <2>7. QED
    BY <2>5, <2>6 DEF b
<1>7. ASSUME NEW m \in M \ Ask(r), NEW n \in Ask(r)
      PROVE  n < m
  <2>1. opt[r].budget \in Nat /\ ~(rank(m) < opt[r].budget) /\ rank(n) < opt[r].budget
    BY <1>2, <1>5
  <2>2. m \in M /\ n \in M /\ m \in Nat /\ n \in Nat /\ m # n
    BY <1>1
  <2>3. rank(m) \in Nat /\ rank(n) \in Nat
    BY <1>3
  <2>4. ~(m < n)
    BY <1>4, <2>1, <2>2, <2>3
  <2>5. QED
    BY <2>2, <2>4
<1>8. QED
  BY <1>6, <1>7 DEF M

(* What the plan and the end of one run promise. *)
PlanKept(r) ==
    /\ \A n \in Positions : Beyond(slot[r][n]) => opt[r].budget # 0
    /\ pc[r] \in {"looking", "asking"} => opt[r].threads
    /\ pc[r] = "asking" =>
         /\ skipped[r] = Cardinality(Unasked(r))
         /\ opt[r].budget # NoLimit =>
              Cardinality(Given(r) \ At(r, {"looked"})) <= opt[r].budget
         /\ \A m \in Unasked(r), n \in Given(r) \ At(r, {"looked"}) : n < m
    /\ pc[r] = "done" =>
         IF report[r] = Untriaged
           THEN IF opt[r].threads
                  THEN \E n \in At(r, {"failed"}) :
                          slot[r][n].src = NoText \/ opt[r].budget # 0
                  ELSE opt[r].asked # {} /\ At(r, {"queued"}) = Given(r)
           ELSE /\ At(r, {"failed"}) = {}
                /\ skipped[r] =
                     Cardinality({g \in opt[r].asked : report[r][g] = None})

LEMMA RunByRun == /\ PlanInv <=> \A r \in Runs : PlanKept(r)
                  /\ PlanInv' <=> \A r \in Runs : PlanKept(r)'
BY DEF PlanInv, Planned, AllOrNothing, PlanKept

(* It concerns that run only. *)
LEMMA Untouched ==
    ASSUME NEW q, PlanKept(q), opt'[q] = opt[q], slot'[q] = slot[q], pc'[q] = pc[q],
           report'[q] = report[q], skipped'[q] = skipped[q]
    PROVE  PlanKept(q)'
<1>1. /\ Given(q)' = Given(q) /\ At(q, {"looked"})' = At(q, {"looked"})
      /\ At(q, {"failed"})' = At(q, {"failed"}) /\ At(q, {"queued"})' = At(q, {"queued"})
      /\ Unasked(q)' = Unasked(q)
  BY DEF Given, At, Unasked
<1>2. QED
  BY <1>1 DEF PlanKept

(* A pair is looked up, or goes on after the plan asked about it. *)
LEMMA OnePairKeepsPlan ==
    ASSUME TypeOK, PlanInv, NEW r \in Runs, NEW n \in Given(r), NEW v,
           slot' = [slot EXCEPT ![r] = [slot[r] EXCEPT ![n] = v]],
           \/ pc[r] = "looking" /\ ~Beyond(v)
           \/ /\ pc[r] = "asking" /\ v.stage # "looked"
              /\ slot[r][n].stage \in {"planned", "sending", "waiting", "arrived"},
           UNCHANGED <<pc, opt, report, skipped>>
    PROVE  PlanInv'
<1>1. n \in Positions /\ Given(r) \subseteq Positions /\ slot \in [Runs -> [Positions -> Slot]]
  BY Places DEF TypeOK
<1>2. \A q \in Runs, m \in Positions :
        slot'[q][m] = IF q = r /\ m = n THEN v ELSE slot[q][m]
  BY <1>1
<1>3. ASSUME NEW q \in Runs, q # r
      PROVE  PlanKept(q)'
  <2>1. slot'[q] = slot[q]
    BY <1>1, <1>3
  <2>2. PlanKept(q)
    BY RunByRun
  <2>3. QED
    BY <2>1, <2>2, Untouched
<1>4. PlanKept(r)'
  <2>1. PlanKept(r) /\ Given(r)' = Given(r)
    BY RunByRun DEF Given
  <2>2. \A m \in Positions : Beyond(slot'[r][m]) => opt[r].budget # 0
    <3>1. SUFFICES ASSUME NEW m \in Positions, Beyond(slot'[r][m])
                   PROVE  opt[r].budget # 0
      OBVIOUS
    <3>2. CASE m # n
      BY <1>2, <2>1, <3>1, <3>2 DEF PlanKept
    <3>3. CASE m = n
      <4>1. pc[r] = "asking" /\ slot[r][n].stage \in {"planned", "sending", "waiting", "arrived"}
        BY <1>2, <3>1, <3>3
      <4>2. Beyond(slot[r][n])
        BY <4>1 DEF Beyond, InFlight
      <4>3. QED
        BY <1>1, <2>1, <4>2 DEF PlanKept
    <3>4. QED
      BY <3>2, <3>3
  <2>3. CASE pc[r] = "looking"
    BY <2>1, <2>2, <2>3 DEF PlanKept
  <2>4. CASE pc[r] = "asking"
    <3>1. slot[r][n].stage # "looked" /\ slot'[r][n].stage # "looked"
      BY <1>1, <1>2, <2>4
    <3>2. \A m \in Given(r) : m # n => slot'[r][m] = slot[r][m]
      BY <1>1, <1>2
    <3>3. At(r, {"looked"})' = At(r, {"looked"})
      BY <2>1, <3>1, <3>2 DEF At
    <3>4. \A m \in At(r, {"looked"}) : slot'[r][m] = slot[r][m]
      BY <3>1, <3>2 DEF At
    <3>5. Unasked(r)' = Unasked(r)
      BY <3>3, <3>4 DEF Unasked
    <3>6. QED
      BY <2>1, <2>2, <2>4, <3>3, <3>5 DEF PlanKept
  <2>5. QED
    BY <2>3, <2>4
<1>5. QED
  BY <1>3, <1>4, RunByRun

(* A step of one run that leaves the others alone. *)
LEMMA OneRunKeepsPlan ==
    ASSUME PlanInv, NEW r \in Runs, PlanKept(r)',
           \A q \in Runs \ {r} :
             /\ opt'[q] = opt[q] /\ slot'[q] = slot[q] /\ pc'[q] = pc[q]
             /\ report'[q] = report[q] /\ skipped'[q] = skipped[q]
    PROVE  PlanInv'
<1>1. ASSUME NEW q \in Runs \ {r}
      PROVE  PlanKept(q)'
  <2>1. PlanKept(q)
    BY RunByRun
  <2>2. QED
    BY <2>1, Untouched
<1>2. QED
  BY <1>1, RunByRun

(* Each step of a run keeps the plan. *)
LEMMA LookingKeepsPlan ==
    ASSUME IInv, PlanInv, NEW r \in Runs,
           \/ \E g \in opt[r].asked : ReadBack(r, g)
           \/ \E n \in Given(r) : LookUp(r, n)
    PROVE  PlanInv'
<1>1. TypeOK /\ SlotsSound
  BY DEF IInv
<1>2. ASSUME NEW g \in opt[r].asked, ReadBack(r, g)
      PROVE  PlanInv'
  <2> DEFINE n == Place(r, g)
             v == [slot[r][n] EXCEPT !.stage = IF text[g] = NoText THEN "failed" ELSE "read",
                                     !.src = text[g]]
  <2>1. n \in Given(r) /\ n \in Positions
    BY <1>1, Places, PlacesApart
  <2>2. slot' = [slot EXCEPT ![r] = [slot[r] EXCEPT ![n] = v]]
    BY <1>1, <1>2, <2>1 DEF ReadBack, TypeOK
  <2>3. slot[r][n] \in Slot
    BY <1>1, <2>1 DEF TypeOK
  <2>4. ~Beyond(v)
    BY <2>3 DEF Beyond, InFlight, Slot
  <2>5. pc[r] = "looking" /\ UNCHANGED <<pc, opt, report, skipped>>
    BY <1>2 DEF ReadBack, shown
  <2> HIDE DEF n, v
  <2>6. QED
    BY <1>1, <2>1, <2>2, <2>4, <2>5, OnePairKeepsPlan
<1>3. ASSUME NEW n \in Given(r), LookUp(r, n)
      PROVE  PlanInv'
  <2>1. PICK u : slot' = [slot EXCEPT ![r][n].stage = "looked", ![r][n].verdict = u]
    BY <1>3 DEF LookUp
  <2> DEFINE v == [slot[r][n] EXCEPT !.stage = "looked", !.verdict = u]
  <2>2. n \in Positions /\ slot[r][n] \in Slot
    BY <1>1, Places DEF TypeOK
  <2>3. slot' = [slot EXCEPT ![r] = [slot[r] EXCEPT ![n] = v]]
    BY <1>1, <2>1, <2>2 DEF TypeOK
  <2>4. ~Beyond(v)
    BY <2>2 DEF Beyond, InFlight, Slot
  <2>5. pc[r] = "looking" /\ UNCHANGED <<pc, opt, report, skipped>>
    BY <1>3 DEF LookUp, shown
  <2> HIDE DEF v
  <2>6. QED
    BY <1>1, <2>3, <2>4, <2>5, OnePairKeepsPlan
<1>4. QED
  BY <1>2, <1>3

LEMMA AskingKeepsPlan ==
    ASSUME IInv, PlanInv, NEW r \in Runs, NEW n \in Given(r),
           \/ Send(r, n) \/ Answer(r, n) \/ Refuse(r, n) \/ Fail(r, n) \/ Remember(r, n)
    PROVE  PlanInv'
<1>1. TypeOK /\ n \in Positions /\ slot[r][n] \in Slot
  BY Places DEF IInv, TypeOK
<1>2. /\ pc[r] = "asking" /\ UNCHANGED <<pc, opt, report, skipped>>
      /\ slot[r][n].stage \in {"planned", "sending", "waiting", "arrived"}
  BY DEF Send, Answer, Refuse, Fail, Remember, shown
<1>3. PICK v : slot' = [slot EXCEPT ![r] = [slot[r] EXCEPT ![n] = v]] /\ v.stage # "looked"
  <2> DEFINE s == slot[r][n]
             new(v) == slot' = [slot EXCEPT ![r] = [slot[r] EXCEPT ![n] = v]]
             staged(x) == [s EXCEPT !.stage = x]
  <2>1. \A x \in {"sending", "failed", "arrived", "waiting", "answered"} :
          staged(x).stage # "looked"
    BY <1>1 DEF Slot
  <2>2. ASSUME Send(r, n), opt[r].key
        PROVE  new([s EXCEPT !.stage = "sending", !.tries = @ + 1])
    BY <1>1, <2>2 DEF Send, TypeOK
  <2>3. ASSUME Send(r, n), ~opt[r].key
        PROVE  new(staged("failed"))
    BY <1>1, <2>3 DEF Send, TypeOK
  <2>4. ASSUME Answer(r, n)
        PROVE  new([s EXCEPT !.stage = "arrived", !.verdict = s.src])
    BY <1>1, <2>4 DEF Answer, Judged, TypeOK
  <2>5. ASSUME Refuse(r, n)
        PROVE  new(staged("failed"))
    BY <1>1, <2>5 DEF Refuse, TypeOK
  <2>6. ASSUME Fail(r, n)
        PROVE  new(staged("failed")) \/ new(staged("waiting"))
    BY <1>1, <2>6 DEF Fail, TypeOK
  <2>7. ASSUME Remember(r, n)
        PROVE  new(staged("answered"))
    BY <1>1, <2>7 DEF Remember, TypeOK
  <2>8. /\ [s EXCEPT !.stage = "sending", !.tries = @ + 1].stage # "looked"
        /\ [s EXCEPT !.stage = "arrived", !.verdict = s.src].stage # "looked"
    BY <1>1 DEF Slot
  <2>9. \E v : new(v) /\ v.stage # "looked"
    <3> HIDE DEF new, s, staged
    <3>1. QED
      BY <2>1, <2>2, <2>3, <2>4, <2>5, <2>6, <2>7, <2>8
  <2>10. QED
    BY <2>9
<1>4. QED
  BY <1>1, <1>2, <1>3, OnePairKeepsPlan

(* The plan itself: what it asks about is affordable, and comes first. *)
LEMMA PlanMakesPlan ==
    ASSUME IInv, PlanInv, NEW r \in Runs, Plan(r)
    PROVE  PlanInv'
<1> DEFINE w(m) == IF m \in Ask(r) THEN [slot[r][m] EXCEPT !.stage = "planned"] ELSE slot[r][m]
<1>1. TypeOK /\ Given(r) \subseteq Positions /\ IsFiniteSet(Given(r))
  BY Places DEF IInv
<1>2. /\ pc[r] = "looking" /\ \A m \in Given(r) : slot[r][m].stage = "looked"
      /\ pc' = [pc EXCEPT ![r] = "asking"]
      /\ skipped' = [skipped EXCEPT ![r] = Cardinality(Misses(r) \ Ask(r))]
      /\ UNCHANGED <<opt, report>>
  BY DEF Plan, At
<1>3. slot' = [slot EXCEPT ![r] = [m \in Positions |-> w(m)]]
  BY <1>1 DEF Plan, TypeOK
<1>4. /\ \A m \in Positions : slot'[r][m] = w(m)
      /\ pc'[r] = "asking" /\ skipped'[r] = Cardinality(Misses(r) \ Ask(r))
  BY <1>1, <1>2, <1>3 DEF TypeOK
<1>5. Ask(r) \subseteq Misses(r) /\ Misses(r) \subseteq Given(r)
  BY DEF Ask, Misses
<1>6. /\ \A m \in Ask(r) : slot'[r][m].stage = "planned"
      /\ \A m \in Positions \ Ask(r) : slot'[r][m] = slot[r][m]
  <2>1. SUFFICES ASSUME NEW m \in Ask(r)
                 PROVE  slot'[r][m].stage = "planned"
    BY <1>4
  <2>2. m \in Positions /\ slot[r][m] \in Slot
    BY <1>1, <1>5 DEF TypeOK
  <2>3. QED
    BY <1>4, <2>2 DEF Slot
<1> HIDE DEF w
<1>7. Given(r)' = Given(r) /\ At(r, {"looked"})' = Given(r) \ Ask(r)
  BY <1>1, <1>2, <1>6 DEF Given, At
<1>8. Given(r) \ (Given(r) \ Ask(r)) = Ask(r) /\ Unasked(r)' = Misses(r) \ Ask(r)
  BY <1>1, <1>5, <1>6, <1>7 DEF Unasked, Misses
<1>9. Ask(r) # {} => opt[r].budget # 0
  <2>1. SUFFICES ASSUME Ask(r) # {}, opt[r].budget = 0
                 PROVE  FALSE
    OBVIOUS
  <2>2. IsFiniteSet(Ask(r)) /\ Cardinality(Ask(r)) \in Nat
    BY <1>1, <1>5, FS_Subset, FS_CardinalityType
  <2>3. Cardinality(Ask(r)) # 0
    BY <2>1, <2>2, FS_EmptySet
  <2>4. Cardinality(Ask(r)) <= 0
    BY <1>1, <2>1, PlanIsAfforded, DistinctAssumption
  <2>5. QED
    BY <2>2, <2>3, <2>4
<1>10. PlanKept(r)'
  <2>1. PlanKept(r)
    BY RunByRun
  <2>2. \A m \in Positions : Beyond(slot'[r][m]) => opt[r].budget # 0
    BY <1>6, <1>9, <2>1 DEF PlanKept
  <2>3. skipped'[r] = Cardinality(Unasked(r)')
    BY <1>4, <1>8
  <2>4. opt[r].budget # NoLimit => Cardinality(Given(r)' \ At(r, {"looked"})') <= opt[r].budget
    BY <1>1, <1>7, <1>8, PlanIsAfforded
  <2>5. \A m \in Unasked(r)', n \in Given(r)' \ At(r, {"looked"})' : n < m
    BY <1>1, <1>7, <1>8, PlanIsAfforded
  <2>6. opt'[r].threads
    BY <1>2, <2>1 DEF PlanKept
  <2>7. QED
    BY <1>2, <1>4, <2>2, <2>3, <2>4, <2>5, <2>6 DEF PlanKept
<1>11. QED
  BY <1>1, <1>2, <1>3, <1>10, OneRunKeepsPlan DEF TypeOK

(* Every pair was answered, by the API or by the cache, or passed over. *)
LEMMA SucceedKeepsPlan ==
    ASSUME IInv, PlanInv, NEW r \in Runs, Succeed(r)
    PROVE  PlanInv'
<1> DEFINE shows == {g \in opt[r].asked : Spread(r)[g] = None}
           place == [g \in shows |-> Place(r, g)]
<1>1. TypeOK /\ SlotsSound /\ Given(r) \subseteq Positions
  BY Places DEF IInv
<1>2. /\ pc[r] = "asking" /\ \A n \in Given(r) : slot[r][n].stage \in {"looked", "answered"}
      /\ pc' = [pc EXCEPT ![r] = "done"] /\ report' = [report EXCEPT ![r] = Spread(r)]
      /\ UNCHANGED <<opt, slot, skipped>>
  BY DEF Succeed, At
<1>3. report'[r] = Spread(r) /\ pc'[r] = "done" /\ PlanKept(r)
  BY <1>1, <1>2, RunByRun DEF TypeOK
<1>4. Unasked(r) = {n \in Given(r) : slot[r][n].verdict = None}
  <2>1. ASSUME NEW n \in Given(r), slot[r][n].verdict = None
        PROVE  slot[r][n].stage = "looked"
    <3>1. n \in Positions /\ Sound(slot[r][n])
      BY <1>1 DEF SlotsSound
    <3>2. slot[r][n].stage # "answered"
      BY <2>1, <3>1, DistinctAssumption DEF Sound
    <3>3. QED
      BY <1>2, <3>2
  <2>2. QED
    BY <2>1 DEF Unasked, At
<1>5. \A g \in opt[r].asked : g \in Groups /\ Spread(r)[g] = slot[r][Place(r, g)].verdict
  BY <1>1 DEF TypeOK, Option, Spread
<1>6. shows = {g \in opt[r].asked : Place(r, g) \in Unasked(r)}
  BY <1>1, <1>4, <1>5, PlacesApart
<1> HIDE DEF shows
<1>7. place \in Bijection(shows, Unasked(r))
  <2>1. \A g \in shows : Place(r, g) \in Unasked(r)
    BY <1>6
  <2>2. \A n \in Unasked(r) : \E g \in shows : Place(r, g) = n
    BY <1>1, <1>4, <1>6, PlacesApart
  <2>3. \A g, h \in shows : Place(r, g) = Place(r, h) => g = h
    BY <1>1, <1>6, PlacesApart
  <2>4. place \in Injection(shows, Unasked(r))
    BY <2>1, <2>3 DEF Injection, IsInjective
  <2>5. place \in Surjection(shows, Unasked(r))
    BY <2>1, <2>2 DEF Surjection
  <2>6. QED
    BY <2>4, <2>5 DEF Bijection
<1>8. Cardinality(Unasked(r)) = Cardinality(shows)
  <2>1. shows \subseteq opt[r].asked
    BY <1>6
  <2>2. IsFiniteSet(shows)
    BY <1>1, <2>1, Places, FS_Subset
  <2>3. ExistsBijection(shows, Unasked(r))
    BY <1>7, Fun_ExistsBij
  <2>4. QED
    BY <2>2, <2>3, FS_Bijection
<1>9. Spread(r) # Untriaged
  <2>1. \A g \in opt[r].asked : slot[r][Place(r, g)].verdict \in Texts \cup {None}
    BY <1>1, Places DEF TypeOK, Slot, Verdict
  <2>2. Spread(r) \in [Groups -> Texts \cup {None}]
    BY <2>1 DEF Spread
  <2>3. QED
    BY <2>2, DistinctAssumption
<1>10. PlanKept(r)'
  <2>1. At(r, {"failed"})' = {}
    BY <1>2 DEF At, Given
  <2>2. skipped'[r] = Cardinality({g \in opt'[r].asked : report'[r][g] = None})
    BY <1>2, <1>3, <1>8 DEF PlanKept, shows
  <2>3. QED
    BY <1>2, <1>3, <1>9, <2>1, <2>2 DEF PlanKept
<1>11. QED
  BY <1>1, <1>2, <1>10, OneRunKeepsPlan DEF TypeOK

(* Only a pair that could not be read, or that was asked about, fails, and *)
(* only in a run that has its threads.                                     *)
LEMMA GiveUpKeepsPlan ==
    ASSUME IInv, PlanInv, NEW r \in Runs, GiveUp(r)
    PROVE  PlanInv'
<1>1. TypeOK /\ Given(r) \subseteq Positions
  BY Places DEF IInv
<1>2. /\ pc' = [pc EXCEPT ![r] = "done"] /\ report' = [report EXCEPT ![r] = Untriaged]
      /\ skipped' = [skipped EXCEPT ![r] = 0] /\ UNCHANGED <<opt, slot>>
  BY DEF GiveUp
<1>3. report'[r] = Untriaged /\ pc'[r] = "done" /\ PlanKept(r)
  BY <1>1, <1>2, RunByRun DEF TypeOK
<1>4. PICK n \in Given(r) : slot[r][n].stage = "failed"
  BY DEF GiveUp, At
<1>5. opt[r].threads /\ (slot[r][n].src = NoText \/ opt[r].budget # 0)
  BY <1>1, <1>3, <1>4 DEF PlanKept, Beyond, GiveUp
<1>6. PlanKept(r)'
  <2>1. n \in At(r, {"failed"})'
    BY <1>2, <1>4 DEF At, Given
  <2>2. QED
    BY <1>2, <1>3, <1>5, <2>1 DEF PlanKept
<1>7. QED
  BY <1>1, <1>2, <1>6, OneRunKeepsPlan DEF TypeOK

LEMMA BeginKeepsPlan ==
    ASSUME IInv, PlanInv, NEW r \in Runs, Begin(r)
    PROVE  PlanInv'
<1>1. TypeOK /\ Given(r)' \subseteq Positions
  <2>1. TypeOK'
    BY BeginKeeps DEF IInv
  <2>2. QED
    BY <2>1, PlacesNext DEF IInv
<1>2. PICK o \in Options :
        /\ opt' = [opt EXCEPT ![r] = o]
        /\ pc' = [pc EXCEPT ![r] = IF o.asked # {} /\ o.threads THEN "looking" ELSE "done"]
        /\ report' = [report EXCEPT ![r] =
                        IF o.asked = {} THEN [g \in Groups |-> None] ELSE Untriaged]
  BY DEF Begin
<1>3. /\ slot' = [slot EXCEPT ![r] = [n \in Positions |-> EmptySlot]]
      /\ skipped' = [skipped EXCEPT ![r] = 0]
  BY DEF Begin
<1>4. /\ opt'[r] = o /\ skipped'[r] = 0 /\ slot'[r] = [n \in Positions |-> EmptySlot]
      /\ pc'[r] = IF o.asked # {} /\ o.threads THEN "looking" ELSE "done"
      /\ report'[r] = IF o.asked = {} THEN [g \in Groups |-> None] ELSE Untriaged
  BY <1>1, <1>2, <1>3 DEF TypeOK
<1>5. \A n \in Positions : ~Beyond(slot'[r][n])
  BY <1>4 DEF Beyond, InFlight, EmptySlot
<1>6. PlanKept(r)'
  <2>1. CASE o.asked = {}
    <3>1. report'[r] # Untriaged
      BY <1>4, <2>1, DistinctAssumption
    <3>2. Given(r)' = {}
      BY <1>4, <2>1, FS_EmptySet DEF Given
    <3>3. At(r, {"failed"})' = {}
      BY <3>2 DEF At
    <3>4. {g \in opt'[r].asked : report'[r][g] = None} = {}
      BY <1>4, <2>1
    <3>5. QED
      BY <1>4, <1>5, <2>1, <3>1, <3>3, <3>4, FS_EmptySet DEF PlanKept
  <2>2. CASE o.asked # {} /\ o.threads
    BY <1>4, <1>5, <2>2 DEF PlanKept
  <2>3. CASE o.asked # {} /\ ~o.threads
    <3>1. At(r, {"queued"})' = Given(r)'
      BY <1>1, <1>4 DEF At, EmptySlot
    <3>2. pc'[r] = "done" /\ report'[r] = Untriaged
      BY <1>4, <2>3
    <3>3. QED
      BY <1>4, <1>5, <2>3, <3>1, <3>2 DEF PlanKept
  <2>4. QED
    BY <2>1, <2>2, <2>3
<1>7. QED
  BY <1>1, <1>2, <1>3, <1>6, OneRunKeepsPlan DEF TypeOK

LEMMA WorldKeepsPlan ==
    ASSUME IInv, PlanInv,
           \/ \E r \in Runs : Interrupt(r)
           \/ \E g \in Groups : Edit(g)
           \/ \E t \in Texts : Clean(t)
           \/ UNCHANGED vars
    PROVE  PlanInv'
<1>1. TypeOK
  BY DEF IInv
<1>2. ASSUME NEW r \in Runs, Interrupt(r)
      PROVE  PlanInv'
  <2>1. pc' = [pc EXCEPT ![r] = "idle"] /\ UNCHANGED <<opt, slot, report, skipped>>
    BY <1>2 DEF Interrupt, shown
  <2>2. PlanKept(r) /\ pc'[r] = "idle"
    BY <1>1, <2>1, RunByRun DEF TypeOK
  <2>3. PlanKept(r)'
    BY <2>1, <2>2 DEF PlanKept
  <2>4. QED
    BY <1>1, <2>1, <2>3, OneRunKeepsPlan DEF TypeOK
<1>3. ASSUME UNCHANGED <<pc, opt, slot, report, skipped>>
      PROVE  PlanInv'
  <2>1. ASSUME NEW q \in Runs
        PROVE  PlanKept(q)'
    <3>1. PlanKept(q)
      BY RunByRun
    <3>2. QED
      BY <1>3, <3>1, Untouched
  <2>2. QED
    BY <2>1, RunByRun
<1>4. QED
  BY <1>2, <1>3 DEF Edit, Clean, vars, shown

LEMMA PlanInvariance == Spec => []PlanInv
<1>1. Init => PlanInv
  BY DEF Init, PlanInv, Planned, AllOrNothing, Beyond, InFlight, EmptySlot
<1>2. IInv /\ PlanInv /\ [Next]_vars => PlanInv'
  <2>1. SUFFICES ASSUME IInv, PlanInv, [Next]_vars PROVE PlanInv'
    OBVIOUS
  <2>2. ASSUME NEW r \in Runs, Begin(r) PROVE PlanInv'
    BY <2>1, <2>2, BeginKeepsPlan
  <2>3. ASSUME NEW r \in Runs, Step(r) PROVE PlanInv'
    BY <2>1, <2>3, PlanMakesPlan, SucceedKeepsPlan, GiveUpKeepsPlan, LookingKeepsPlan,
       AskingKeepsPlan DEF Step
  <2>4. QED
    BY <2>1, <2>2, <2>3, WorldKeepsPlan DEF Next
<1>3. QED
  BY <1>1, <1>2, Invariance, PTL DEF Spec

(* A run whose triage failed shows no verdict at all; what makes it fail   *)
(* is a pair that could not be read or was asked about, or, before it has  *)
(* read any, that it gets no threads.  One that succeeded leaves without a *)
(* verdict exactly the groups it says the budget skipped.                  *)
THEOREM FailureIsAllOrNothing == Spec => []AllOrNothing
<1>1. PlanInv => AllOrNothing
  BY DEF PlanInv
<1> QED
  BY <1>1, PlanInvariance, PTL

(* Whatever its threads do, a run asks about no more pairs than its budget *)
(* has, tries none more often than the settings allow, and asks about no   *)
(* pair after one it passed over.                                          *)
THEOREM BudgetIsKept == Spec => []WithinBudget
<1>1. IInv /\ PlanInv => WithinBudget
  <2>1. SUFFICES ASSUME IInv, PlanInv, NEW r \in Runs, pc[r] = "asking"
                 PROVE  /\ opt[r].budget # NoLimit =>
                             Cardinality({n \in Given(r) : slot[r][n].tries > 0}) <= opt[r].budget
                        /\ \A n \in Given(r) : slot[r][n].tries <= Attempts
                        /\ \A m \in At(r, {"looked"}), n \in At(r, Stages \ {"looked"}) :
                             slot[r][m].verdict = None => n < m
    BY DEF WithinBudget
  <2> DEFINE tried == {n \in Given(r) : slot[r][n].tries > 0}
             asked == Given(r) \ At(r, {"looked"})
  <2>2. TypeOK /\ SlotsSound /\ PlanKept(r) /\ Given(r) \subseteq Positions /\ IsFiniteSet(Given(r))
    BY <2>1, Places, RunByRun DEF IInv
  <2>3. \A n \in Given(r) : slot[r][n] \in Slot /\ Sound(slot[r][n])
    BY <2>2 DEF TypeOK, SlotsSound
  <2>4. tried \subseteq asked
    BY <2>3 DEF Sound, At
  <2>5. IsFiniteSet(asked)
    BY <2>2, FS_Subset
  <2> HIDE DEF tried, asked
  <2>6. /\ IsFiniteSet(tried) /\ Cardinality(tried) <= Cardinality(asked)
        /\ Cardinality(tried) \in Nat /\ Cardinality(asked) \in Nat
    BY <2>4, <2>5, FS_Subset, FS_CardinalityType
  <2>7. ASSUME opt[r].budget # NoLimit
        PROVE  Cardinality(tried) <= opt[r].budget
    <3>1. Cardinality(asked) <= opt[r].budget
      BY <2>1, <2>2, <2>7 DEF PlanKept, asked
    <3>2. opt[r].budget \in Nat
      BY <2>2, <2>7 DEF TypeOK, Option
    <3>3. QED
      BY <2>6, <3>1, <3>2
  <2>8. \A n \in Given(r) : slot[r][n].tries <= Attempts
    <3>1. \A n \in Given(r) : slot[r][n].tries \in 0 .. Attempts
      BY <2>3 DEF Slot
    <3>2. QED
      BY <3>1, NumbersAssumption
  <2>9. \A m \in At(r, {"looked"}), n \in At(r, Stages \ {"looked"}) :
          slot[r][m].verdict = None => n < m
    BY <2>1, <2>2 DEF PlanKept, Unasked, At
  <2>10. QED
    BY <2>7, <2>8, <2>9 DEF tried
<1> QED
  BY <1>1, Invariance, PlanInvariance, PTL

-----------------------------------------------------------------------------
(* What is paid for *)

(* The ledger of one text, and what run r has to do with it. *)
OwedFor(t) == /\ paid[t] <= lost[t] + 1
              /\ cache[t] = None /\ ~InHand(t) => paid[t] <= lost[t]
              /\ Wanted(t) => paid[t] <= lost[t]
Hands(s) == s.stage = "arrived"
Wants(s) == \/ s.stage = "looked" /\ s.verdict = None
            \/ s.stage \in {"planned", "sending", "waiting"}

(* A step leaves a text paid for at most as often as its verdict was lost, *)
(* leaves its ledger alone, or brings the one verdict of it that is not    *)
(* lost.                                                                   *)
Balanced(t) ==
    \/ paid'[t] <= lost'[t]
    \/ /\ paid'[t] = paid[t] /\ lost'[t] = lost[t] /\ (Wanted(t)' => Wanted(t))
       /\ \/ cache'[t] # None
          \/ cache'[t] = cache[t] /\ (InHand(t) => InHand(t)')
    \/ paid'[t] <= lost'[t] + 1 /\ InHand(t)' /\ ~Wanted(t)'

LEMMA BalanceKeepsOwed ==
    ASSUME TypeOK, TypeOK', Owed, \A t \in Texts : Balanced(t)
    PROVE  Owed'
<1>1. ASSUME NEW t \in Texts
      PROVE  OwedFor(t)'
  <2>1. OwedFor(t) /\ paid[t] \in Nat /\ lost[t] \in Nat /\ paid'[t] \in Nat /\ lost'[t] \in Nat
    BY DEF Owed, OwedFor, TypeOK
  <2>2. Balanced(t)
    OBVIOUS
  <2>3. CASE paid'[t] <= lost'[t]
    BY <2>1, <2>3 DEF OwedFor
  <2>4. CASE /\ paid'[t] = paid[t] /\ lost'[t] = lost[t] /\ (Wanted(t)' => Wanted(t))
             /\ \/ cache'[t] # None
                \/ cache'[t] = cache[t] /\ (InHand(t) => InHand(t)')
    BY <2>1, <2>4 DEF OwedFor
  <2>5. CASE paid'[t] <= lost'[t] + 1 /\ InHand(t)' /\ ~Wanted(t)'
    BY <2>1, <2>5 DEF OwedFor
  <2>6. QED
    BY <2>2, <2>3, <2>4, <2>5 DEF Balanced
<1>2. QED
  BY <1>1 DEF Owed, OwedFor

(* Of the only run, text by text. *)
LEMMA OneRunHands ==
    ASSUME OneRun, NEW r \in Runs, NEW t
    PROVE  /\ InHand(t) <=> Live(r) /\ \E n \in Given(r) :
                              Hands(slot[r][n]) /\ slot[r][n].src = t
           /\ Wanted(t) <=> Live(r) /\ \E n \in Given(r) :
                              Wants(slot[r][n]) /\ slot[r][n].src = t
           /\ InHand(t)' <=> Live(r)' /\ \E n \in Given(r)' :
                              Hands(slot'[r][n]) /\ slot'[r][n].src = t
           /\ Wanted(t)' <=> Live(r)' /\ \E n \in Given(r)' :
                              Wants(slot'[r][n]) /\ slot'[r][n].src = t
<1>1. \A q \in Runs : q = r
  BY DEF OneRun
<1>2. /\ InHand(t) <=> Live(r) /\ \E n \in Given(r) : Hands(slot[r][n]) /\ slot[r][n].src = t
      /\ InHand(t)' <=> Live(r)' /\ \E n \in Given(r)' : Hands(slot'[r][n]) /\ slot'[r][n].src = t
  BY <1>1 DEF InHand, At, Hands
<1>3. /\ Wanted(t) <=> Live(r) /\ \E n \in Given(r) : Wants(slot[r][n]) /\ slot[r][n].src = t
      /\ Wanted(t)' <=> Live(r)' /\ \E n \in Given(r)' : Wants(slot'[r][n]) /\ slot'[r][n].src = t
  BY <1>1 DEF Wanted, Unasked, At, Wants
<1>4. QED
  BY <1>2, <1>3

(* No two pairs of a run read as the same text. *)
LEMMA TextsApart ==
    ASSUME OwnTexts, TypeOK, AsRead, NEW r \in Runs, NEW m \in Given(r), NEW n \in Given(r),
           slot[r][m].src = slot[r][n].src, slot[r][n].src \in Texts
    PROVE  m = n
<1>1. PICK g \in opt[r].asked : Place(r, g) = m
  BY PlacesApart
<1>2. PICK h \in opt[r].asked : Place(r, h) = n
  BY PlacesApart
<1>3. text[g] = slot[r][n].src /\ text[h] = slot[r][n].src /\ text[g] # NoText
  BY <1>1, <1>2, DistinctAssumption DEF AsRead
<1>4. g \in Groups /\ h \in Groups /\ text \in FirstTexts
  BY DEF TypeOK, Option, AsRead
<1>5. g = h
  BY <1>3, <1>4 DEF OwnTexts
<1>6. QED
  BY <1>1, <1>2, <1>5

(* Only a look-up gives a pair another text. *)
LEMMA SourcesStay ==
    ASSUME TypeOK, AsRead, UNCHANGED <<text, opt>>,
           \A q \in Runs, m \in Positions : slot'[q][m].src = slot[q][m].src
    PROVE  AsRead'
<1>1. \A q \in Runs : \A g : Place(q, g)' = Place(q, g)
  BY DEF Place
<1>2. \A q \in Runs : \A g \in opt[q].asked : Place(q, g) \in Positions
  BY Places
<1>3. QED
  BY <1>1, <1>2 DEF AsRead

(* A step of the only run with one of its pairs. *)
LEMMA OnePairLedger ==
    ASSUME OneRun, OwnTexts, TypeOK, AsRead, NEW r \in Runs, NEW n \in Given(r), NEW v,
           slot[r][n].src \in Texts, v.src = slot[r][n].src,
           slot' = [slot EXCEPT ![r] = [slot[r] EXCEPT ![n] = v]],
           UNCHANGED <<text, pc, opt>>
    PROVE  /\ AsRead'
           /\ \A t : t # v.src => (InHand(t)' <=> InHand(t)) /\ (Wanted(t)' <=> Wanted(t))
           /\ InHand(v.src) <=> Live(r) /\ Hands(slot[r][n])
           /\ Wanted(v.src) <=> Live(r) /\ Wants(slot[r][n])
           /\ InHand(v.src)' <=> Live(r) /\ Hands(v)
           /\ Wanted(v.src)' <=> Live(r) /\ Wants(v)
<1> DEFINE x == v.src
<1>1. /\ n \in Positions /\ Given(r) \subseteq Positions
      /\ slot \in [Runs -> [Positions -> Slot]]
  BY Places DEF TypeOK
<1>2. \A q \in Runs, m \in Positions :
        slot'[q][m] = IF q = r /\ m = n THEN v ELSE slot[q][m]
  BY <1>1
<1>3. Given(r)' = Given(r) /\ (Live(r)' <=> Live(r))
  BY DEF Given, Live
<1>4. AsRead'
  <2>1. \A q \in Runs, m \in Positions : slot'[q][m].src = slot[q][m].src
    BY <1>2
  <2>2. QED
    BY <2>1, SourcesStay
<1>5. \A m \in Given(r) : slot[r][m].src = x => m = n
  BY TextsApart
<1>6. \A m \in Given(r) : m # n => slot'[r][m] = slot[r][m]
  BY <1>1, <1>2
<1>7. slot'[r][n] = v
  BY <1>1, <1>2
<1> HIDE DEF x
<1>8. ASSUME NEW t, t # x
      PROVE  (InHand(t)' <=> InHand(t)) /\ (Wanted(t)' <=> Wanted(t))
  <2>1. \A m \in Given(r) : /\ slot'[r][m].src = t <=> slot[r][m].src = t
                            /\ slot[r][m].src = t => slot'[r][m] = slot[r][m]
    BY <1>6, <1>7, <1>8 DEF x
  <2>2. QED
    BY <1>3, <2>1, OneRunHands
<1>9. \A m \in Given(r) : slot'[r][m].src = x <=> m = n
  BY <1>5, <1>6, <1>7 DEF x
<1>10. \A m \in Given(r) : slot[r][m].src = x <=> m = n
  BY <1>5 DEF x
<1>11. /\ InHand(x) <=> Live(r) /\ Hands(slot[r][n])
       /\ Wanted(x) <=> Live(r) /\ Wants(slot[r][n])
  BY <1>10, OneRunHands
<1>12. /\ InHand(x)' <=> Live(r) /\ Hands(v)
       /\ Wanted(x)' <=> Live(r) /\ Wants(v)
  <2>1. /\ InHand(x)' <=> Live(r) /\ Hands(slot'[r][n])
        /\ Wanted(x)' <=> Live(r) /\ Wants(slot'[r][n])
    BY <1>3, <1>9, OneRunHands
  <2>2. QED
    BY <1>7, <2>1
<1>13. QED
  BY <1>4, <1>8, <1>11, <1>12 DEF x

(* The steps of the only run, over source nobody edited. *)
LEMMA ReadBackKeepsLedger ==
    ASSUME OneRun, OwnTexts, IInv, IInv', AsRead, Owed, NEW r \in Runs,
           NEW g \in opt[r].asked, ReadBack(r, g)
    PROVE  AsRead' /\ Owed'
<1> DEFINE n == Place(r, g)
           v == [slot[r][n] EXCEPT !.stage = IF text[g] = NoText THEN "failed" ELSE "read",
                                   !.src = text[g]]
<1>1. TypeOK /\ TypeOK' /\ n \in Given(r) /\ n \in Positions
  BY Places, PlacesApart DEF IInv
<1>2. /\ slot' = [slot EXCEPT ![r] = [slot[r] EXCEPT ![n] = v]]
      /\ slot[r][n].stage = "queued"
      /\ UNCHANGED <<text, cache, pc, opt, paid, lost>>
  <2>1. slot \in [Runs -> [Positions -> Slot]] /\ n \in Positions
    BY <1>1 DEF TypeOK
  <2>2. slot' = [slot EXCEPT ![r] = [slot[r] EXCEPT ![n] = v]]
    BY <2>1 DEF ReadBack
  <2>3. slot[r][n].stage = "queued" /\ UNCHANGED <<text, cache, pc, opt, paid, lost>>
    BY DEF ReadBack, env, ledger
  <2>4. QED
    BY <2>2, <2>3
<1>3. v.src = text[g] /\ v.stage \in {"failed", "read"}
  BY <1>1 DEF TypeOK, Slot
<1> HIDE DEF n, v
<1>4. \A q \in Runs, m \in Positions :
        slot'[q][m] = IF q = r /\ m = n THEN v ELSE slot[q][m]
  BY <1>1, <1>2 DEF TypeOK
<1>5. AsRead'
  <2>1. SUFFICES ASSUME NEW q \in Runs, NEW h \in opt[q].asked
                 PROVE  slot'[q][Place(q, h)].src \in {NoText, text[h]}
    BY <1>2 DEF AsRead, Place
  <2>2. Place(q, h) \in Positions
    BY <1>1, Places
  <2>3. CASE q = r /\ Place(q, h) = n
    <3>1. h = g
      BY <1>1, <2>3, PlacesApart DEF n
    <3>2. QED
      BY <1>1, <1>3, <1>4, <2>3, <3>1
  <2>4. CASE ~(q = r /\ Place(q, h) = n)
    BY <1>4, <2>2, <2>4 DEF AsRead
  <2>5. QED
    BY <2>3, <2>4
<1>6. ASSUME NEW t \in Texts
      PROVE  Balanced(t)
  <2>1. Given(r)' = Given(r) /\ (Live(r)' <=> Live(r)) /\ Given(r) \subseteq Positions
    BY <1>1, <1>2, Places DEF Given, Live
  <2>2. \A m \in Given(r) : /\ Hands(slot'[r][m]) <=> Hands(slot[r][m])
                            /\ Wants(slot'[r][m]) <=> Wants(slot[r][m])
                            /\ Hands(slot[r][m]) \/ Wants(slot[r][m]) => slot'[r][m] = slot[r][m]
    BY <1>2, <1>3, <1>4, <2>1 DEF Hands, Wants
  <2>3. (InHand(t)' <=> InHand(t)) /\ (Wanted(t)' <=> Wanted(t))
    BY <2>1, <2>2, OneRunHands
  <2>4. QED
    BY <1>2, <2>3 DEF Balanced
<1>7. QED
  BY <1>1, <1>5, <1>6, BalanceKeepsOwed

(* A pair the cache does not answer is wanted: either nobody paid for it   *)
(* that the cache did not lose, or its verdict is there and was not read.  *)
LEMMA LookUpKeepsLedger ==
    ASSUME OneRun, OwnTexts, IInv, IInv', AsRead, Owed, NEW r \in Runs,
           NEW n \in Given(r), LookUp(r, n)
    PROVE  AsRead' /\ Owed'
<1>1. TypeOK /\ TypeOK' /\ n \in Positions /\ Sound(slot[r][n]) /\ slot[r][n] \in Slot
  BY Places DEF IInv, SlotsSound, TypeOK
<1>2. slot[r][n].src \in Texts /\ slot[r][n].stage = "read" /\ pc[r] = "looking"
  BY <1>1 DEF Sound, LookUp
<1>3. PICK t \in Texts : t = slot[r][n].src
  BY <1>2
<1>4. PICK u : /\ u = cache[t] \/ u = None
               /\ slot' = [slot EXCEPT ![r][n].stage = "looked", ![r][n].verdict = u]
               /\ lost' = [lost EXCEPT ![t] =
                             IF opt[r].caching /\ u # cache[t] THEN @ + 1 ELSE @]
               /\ ~opt[r].caching => u = None
  BY <1>3 DEF LookUp
<1>5. UNCHANGED <<text, cache, pc, opt, paid>>
  BY DEF LookUp, env
<1>6. PICK v : v = [slot[r][n] EXCEPT !.stage = "looked", !.verdict = u]
  OBVIOUS
<1>7. v.src = t /\ v.stage = "looked" /\ v.verdict = u
  BY <1>1, <1>3, <1>6 DEF Slot
<1>8. slot' = [slot EXCEPT ![r] = [slot[r] EXCEPT ![n] = v]]
  BY <1>1, <1>4, <1>6 DEF TypeOK
<1>9. /\ AsRead'
      /\ \A w : w # t => (InHand(w)' <=> InHand(w)) /\ (Wanted(w)' <=> Wanted(w))
      /\ InHand(t) <=> Live(r) /\ Hands(slot[r][n])
      /\ Wanted(t) <=> Live(r) /\ Wants(slot[r][n])
      /\ InHand(t)' <=> Live(r) /\ Hands(v)
      /\ Wanted(t)' <=> Live(r) /\ Wants(v)
  <2>1. v.src = slot[r][n].src /\ slot[r][n].src \in Texts
    BY <1>3, <1>7
  <2>2. /\ AsRead'
        /\ \A w : w # v.src => (InHand(w)' <=> InHand(w)) /\ (Wanted(w)' <=> Wanted(w))
        /\ InHand(v.src) <=> Live(r) /\ Hands(slot[r][n])
        /\ Wanted(v.src) <=> Live(r) /\ Wants(slot[r][n])
        /\ InHand(v.src)' <=> Live(r) /\ Hands(v)
        /\ Wanted(v.src)' <=> Live(r) /\ Wants(v)
    BY <1>1, <1>5, <1>8, <2>1, OnePairLedger
  <2>3. QED
    BY <1>7, <2>2
<1>10. ~InHand(t) /\ ~InHand(t)' /\ (Wanted(t)' => opt[r].caching /\ u = None)
  BY <1>2, <1>7, <1>9 DEF Hands, Wants, Live
<1>11. paid[t] \in Nat /\ lost[t] \in Nat /\ lost' = [lost EXCEPT ![t] = lost'[t]]
       /\ lost'[t] = IF opt[r].caching /\ u # cache[t] THEN lost[t] + 1 ELSE lost[t]
  BY <1>1, <1>4 DEF TypeOK
<1>12. Balanced(t)
  <2>1. OwedFor(t)
    BY DEF Owed, OwedFor
  <2>2. CASE opt[r].caching /\ u # cache[t]
    <3>1. paid'[t] <= lost'[t]
      BY <1>5, <1>11, <2>1, <2>2 DEF OwedFor
    <3>2. QED
      BY <3>1 DEF Balanced
  <2>3. CASE opt[r].caching /\ u = cache[t] /\ u = None
    <3>1. paid'[t] <= lost'[t]
      BY <1>5, <1>10, <1>11, <2>1, <2>3 DEF OwedFor
    <3>2. QED
      BY <3>1 DEF Balanced
  <2>4. CASE ~Wanted(t)' /\ lost'[t] = lost[t]
    BY <1>5, <1>10, <2>4 DEF Balanced
  <2>5. QED
    BY <1>10, <1>11, <2>2, <2>3, <2>4
<1>13. \A w \in Texts \ {t} : Balanced(w)
  <2>1. \A w \in Texts \ {t} : lost'[w] = lost[w]
    BY <1>1, <1>4 DEF TypeOK
  <2>2. QED
    BY <1>5, <1>9, <2>1 DEF Balanced
<1>14. QED
  BY <1>1, <1>9, <1>12, <1>13, BalanceKeepsOwed

(* Only what is wanted is sent, and it is wanted until it is answered. *)
LEMMA SendKeepsLedger ==
    ASSUME OneRun, OwnTexts, IInv, IInv', AsRead, Owed, NEW r \in Runs,
           NEW n \in Given(r), Send(r, n) \/ Refuse(r, n) \/ Fail(r, n)
    PROVE  AsRead' /\ Owed'
<1>1. TypeOK /\ TypeOK' /\ n \in Positions /\ Sound(slot[r][n]) /\ slot[r][n] \in Slot
  BY Places DEF IInv, SlotsSound, TypeOK
<1>2. slot[r][n].src \in Texts /\ slot[r][n].stage \in {"planned", "sending", "waiting"}
  BY <1>1 DEF Sound, Send, Refuse, Fail
<1>3. UNCHANGED <<text, cache, pc, opt, paid, lost>>
  BY DEF Send, Refuse, Fail, env, ledger
<1>4. PICK v : /\ slot' = [slot EXCEPT ![r] = [slot[r] EXCEPT ![n] = v]]
               /\ v.stage \in {"sending", "waiting", "failed"} /\ v.src = slot[r][n].src
  <2> DEFINE s == slot[r][n]
             new(v) == slot' = [slot EXCEPT ![r] = [slot[r] EXCEPT ![n] = v]]
             staged(x) == [s EXCEPT !.stage = x]
             sent == [s EXCEPT !.stage = "sending", !.tries = s.tries + 1]
  <2>1. /\ \A x \in {"sending", "failed", "waiting"} : staged(x).stage = x /\ staged(x).src = s.src
        /\ sent.stage = "sending" /\ sent.src = s.src
    BY <1>1 DEF Slot
  <2>2. ASSUME Send(r, n), opt[r].key
        PROVE  new(sent)
    <3>1. slot \in [Runs -> [Positions -> Slot]]
      BY <1>1 DEF TypeOK
    <3>2. slot' = [slot EXCEPT ![r][n].stage = "sending", ![r][n].tries = @ + 1]
      BY <2>2 DEF Send
    <3>3. QED
      BY <1>1, <3>1, <3>2
  <2>3. ASSUME Send(r, n), ~opt[r].key
        PROVE  new(staged("failed"))
    BY <1>1, <2>3 DEF Send, TypeOK
  <2>4. ASSUME Refuse(r, n)
        PROVE  new(staged("failed"))
    BY <1>1, <2>4 DEF Refuse, TypeOK
  <2>5. ASSUME Fail(r, n)
        PROVE  new(staged("failed")) \/ new(staged("waiting"))
    BY <1>1, <2>5 DEF Fail, TypeOK
  <2>6. \E v : new(v) /\ v.stage \in {"sending", "waiting", "failed"} /\ v.src = s.src
    <3> HIDE DEF new, s, staged, sent
    <3>1. QED
      BY <2>1, <2>2, <2>3, <2>4, <2>5
  <2>7. QED
    BY <2>6
<1>5. /\ AsRead'
      /\ \A w : w # v.src => (InHand(w)' <=> InHand(w)) /\ (Wanted(w)' <=> Wanted(w))
      /\ InHand(v.src) <=> Live(r) /\ Hands(slot[r][n])
      /\ Wanted(v.src) <=> Live(r) /\ Wants(slot[r][n])
      /\ InHand(v.src)' <=> Live(r) /\ Hands(v)
      /\ Wanted(v.src)' <=> Live(r) /\ Wants(v)
  BY <1>1, <1>2, <1>3, <1>4, OnePairLedger
<1>6. \A w : (InHand(w) => InHand(w)') /\ (Wanted(w)' => Wanted(w))
  BY <1>2, <1>4, <1>5 DEF Hands, Wants
<1>7. \A w \in Texts : Balanced(w)
  BY <1>3, <1>6 DEF Balanced
<1>8. QED
  BY <1>1, <1>5, <1>7, BalanceKeepsOwed

(* An answer is paid for, and was wanted. *)
LEMMA AnswerKeepsLedger ==
    ASSUME OneRun, OwnTexts, IInv, IInv', AsRead, Owed, NEW r \in Runs,
           NEW n \in Given(r), Answer(r, n)
    PROVE  AsRead' /\ Owed'
<1>1. TypeOK /\ TypeOK' /\ n \in Positions /\ Sound(slot[r][n]) /\ slot[r][n] \in Slot
  BY Places DEF IInv, SlotsSound, TypeOK
<1>2. slot[r][n].src \in Texts /\ slot[r][n].stage = "sending" /\ pc[r] = "asking"
  BY <1>1 DEF Sound, Answer
<1>3. PICK v : v = [slot[r][n] EXCEPT !.stage = "arrived", !.verdict = slot[r][n].src]
  OBVIOUS
<1>4. v.src = slot[r][n].src /\ v.stage = "arrived" /\ v.src \in Texts
  BY <1>1, <1>2, <1>3 DEF Slot
<1>5. /\ slot' = [slot EXCEPT ![r] = [slot[r] EXCEPT ![n] = v]]
      /\ paid' = [paid EXCEPT ![v.src] = IF opt[r].caching THEN @ + 1 ELSE @]
      /\ UNCHANGED <<text, cache, pc, opt, lost>>
  <2>1. slot' = [slot EXCEPT ![r] = [slot[r] EXCEPT ![n] = v]]
    BY <1>1, <1>3 DEF Answer, Judged, TypeOK
  <2>2. /\ paid' = [paid EXCEPT ![v.src] = IF opt[r].caching THEN @ + 1 ELSE @]
        /\ UNCHANGED <<text, cache, pc, opt, lost>>
    BY <1>4 DEF Answer, env
  <2>3. QED
    BY <2>1, <2>2
<1>6. /\ AsRead'
      /\ \A w : w # v.src => (InHand(w)' <=> InHand(w)) /\ (Wanted(w)' <=> Wanted(w))
      /\ InHand(v.src) <=> Live(r) /\ Hands(slot[r][n])
      /\ Wanted(v.src) <=> Live(r) /\ Wants(slot[r][n])
      /\ InHand(v.src)' <=> Live(r) /\ Hands(v)
      /\ Wanted(v.src)' <=> Live(r) /\ Wants(v)
  BY <1>1, <1>2, <1>4, <1>5, OnePairLedger
<1>7. /\ Wanted(v.src) <=> opt[r].caching
      /\ ~InHand(v.src) /\ (InHand(v.src)' <=> opt[r].caching) /\ ~Wanted(v.src)'
  BY <1>2, <1>4, <1>6 DEF Hands, Wants, Live, TypeOK
<1>8. Balanced(v.src)
  <2>1. OwedFor(v.src) /\ paid[v.src] \in Nat /\ lost[v.src] \in Nat
    BY <1>1, <1>4 DEF Owed, OwedFor, TypeOK
  <2>2. CASE opt[r].caching
    <3>1. paid'[v.src] = paid[v.src] + 1 /\ lost'[v.src] = lost[v.src]
      BY <1>1, <1>4, <1>5, <2>2 DEF TypeOK
    <3>2. paid'[v.src] <= lost'[v.src] + 1
      BY <1>7, <2>1, <2>2, <3>1 DEF OwedFor
    <3>3. QED
      BY <1>7, <2>2, <3>2 DEF Balanced
  <2>3. CASE ~opt[r].caching
    BY <1>1, <1>4, <1>5, <1>7, <2>3 DEF Balanced, TypeOK
  <2>4. QED
    BY <2>2, <2>3
<1>9. \A w \in Texts \ {v.src} : Balanced(w)
  <2>1. \A w \in Texts \ {v.src} : paid'[w] = paid[w]
    BY <1>1, <1>5 DEF TypeOK
  <2>2. QED
    BY <1>5, <1>6, <2>1 DEF Balanced
<1>10. QED
  BY <1>1, <1>6, <1>8, <1>9, BalanceKeepsOwed

(* A verdict in hand goes to the cache, or is lost. *)
LEMMA RememberKeepsLedger ==
    ASSUME OneRun, OwnTexts, IInv, IInv', AsRead, Owed, NEW r \in Runs,
           NEW n \in Given(r), Remember(r, n)
    PROVE  AsRead' /\ Owed'
<1>1. TypeOK /\ TypeOK' /\ n \in Positions /\ Sound(slot[r][n]) /\ slot[r][n] \in Slot
  BY Places DEF IInv, SlotsSound, TypeOK
<1>2. /\ slot[r][n].src \in Texts /\ slot[r][n].stage = "arrived"
      /\ slot[r][n].verdict = slot[r][n].src
  BY <1>1 DEF Sound, Remember
<1>3. PICK v : v = [slot[r][n] EXCEPT !.stage = "answered"]
  OBVIOUS
<1>4. v.src = slot[r][n].src /\ v.stage = "answered" /\ v.src \in Texts
  BY <1>1, <1>2, <1>3 DEF Slot
<1>5. slot' = [slot EXCEPT ![r] = [slot[r] EXCEPT ![n] = v]]
  <2>1. slot \in [Runs -> [Positions -> Slot]]
    BY <1>1 DEF TypeOK
  <2>2. QED
    BY <1>1, <1>3, <2>1 DEF Remember
<1>6. /\ UNCHANGED <<text, pc, opt, paid>>
      /\ \/ cache' = [cache EXCEPT ![v.src] = v.src] /\ UNCHANGED lost
         \/ lost' = [lost EXCEPT ![v.src] = @ + 1] /\ UNCHANGED cache
         \/ ~opt[r].caching /\ UNCHANGED <<cache, lost>>
  BY <1>2, <1>4 DEF Remember, env
<1>7. /\ AsRead'
      /\ \A w : w # v.src => (InHand(w)' <=> InHand(w)) /\ (Wanted(w)' <=> Wanted(w))
      /\ InHand(v.src) <=> Live(r) /\ Hands(slot[r][n])
      /\ Wanted(v.src) <=> Live(r) /\ Wants(slot[r][n])
      /\ InHand(v.src)' <=> Live(r) /\ Hands(v)
      /\ Wanted(v.src)' <=> Live(r) /\ Wants(v)
  BY <1>1, <1>2, <1>4, <1>5, <1>6, OnePairLedger
<1>8. ~Wanted(v.src)' /\ (InHand(v.src) => opt[r].caching)
  BY <1>4, <1>7 DEF Wants, Live
<1>9. Balanced(v.src)
  <2>1. OwedFor(v.src) /\ paid[v.src] \in Nat /\ lost[v.src] \in Nat
    BY <1>1, <1>4 DEF Owed, OwedFor, TypeOK
  <2>2. CASE cache' = [cache EXCEPT ![v.src] = v.src] /\ UNCHANGED lost
    <3>1. cache'[v.src] # None
      BY <1>1, <1>4, <2>2, DistinctAssumption DEF TypeOK
    <3>2. paid'[v.src] = paid[v.src] /\ lost'[v.src] = lost[v.src]
      BY <1>6, <2>2
    <3>3. QED
      BY <1>8, <3>1, <3>2 DEF Balanced
  <2>3. CASE lost' = [lost EXCEPT ![v.src] = @ + 1]
    <3>1. lost'[v.src] = lost[v.src] + 1
      BY <1>1, <1>4, <2>3 DEF TypeOK
    <3>2. paid'[v.src] <= lost'[v.src]
      BY <1>6, <2>1, <3>1 DEF OwedFor
    <3>3. QED
      BY <3>2 DEF Balanced
  <2>4. CASE ~opt[r].caching /\ UNCHANGED <<cache, lost>>
    BY <1>6, <1>8, <2>4 DEF Balanced
  <2>5. QED
    BY <1>6, <2>2, <2>3, <2>4
<1>10. \A w \in Texts \ {v.src} : Balanced(w)
  <2>1. \A w \in Texts \ {v.src} : lost'[w] = lost[w] /\ cache'[w] = cache[w]
    BY <1>1, <1>6 DEF TypeOK
  <2>2. QED
    BY <1>6, <1>7, <2>1 DEF Balanced
<1>11. QED
  BY <1>1, <1>7, <1>9, <1>10, BalanceKeepsOwed

(* The plan asks for nothing that was not wanted. *)
LEMMA PlanKeepsLedger ==
    ASSUME OneRun, OwnTexts, IInv, IInv', AsRead, Owed, NEW r \in Runs, Plan(r)
    PROVE  AsRead' /\ Owed'
<1> DEFINE w(m) == IF m \in Ask(r) THEN [slot[r][m] EXCEPT !.stage = "planned"] ELSE slot[r][m]
<1>1. TypeOK /\ TypeOK' /\ Given(r) \subseteq Positions
  BY Places DEF IInv
<1>2. slot \in [Runs -> [Positions -> Slot]]
  BY <1>1 DEF TypeOK
<1>3. slot' = [slot EXCEPT ![r] = [m \in Positions |-> w(m)]]
  BY <1>2 DEF Plan
<1>4. /\ pc[r] = "looking" /\ \A m \in Given(r) : slot[r][m].stage = "looked"
      /\ pc' = [pc EXCEPT ![r] = "asking"]
      /\ UNCHANGED <<text, cache, opt, paid, lost>>
  BY DEF Plan, At, env, ledger
<1>5. \A m \in Positions : w(m).src = slot[r][m].src
  BY <1>2 DEF Slot
<1>6. \A m \in Ask(r) : m \in Given(r) /\ slot[r][m].verdict = None
  BY DEF Ask, Misses
<1>7. \A m \in Given(r) : Wants(w(m)) => Wants(slot[r][m])
  BY <1>4, <1>6 DEF Wants
<1> HIDE DEF w
<1>8. \A q \in Runs, m \in Positions :
        slot'[q][m] = IF q = r THEN w(m) ELSE slot[q][m]
  BY <1>2, <1>3
<1>9. AsRead'
  BY <1>1, <1>4, <1>5, <1>8, SourcesStay
<1>10. Given(r)' = Given(r) /\ (Live(r)' <=> Live(r))
  BY <1>1, <1>4 DEF Given, Live, TypeOK
<1>11. ASSUME NEW t \in Texts
       PROVE  Balanced(t)
  <2>1. ~InHand(t)
    BY <1>4, OneRunHands DEF Hands
  <2>2. Wanted(t)' => Wanted(t)
    BY <1>1, <1>5, <1>7, <1>8, <1>10, OneRunHands
  <2>3. QED
    BY <1>4, <2>1, <2>2 DEF Balanced
<1>12. QED
  BY <1>1, <1>9, <1>11, BalanceKeepsOwed

(* A run that ends, or begins, has nothing in hand and wants nothing; one  *)
(* that is interrupted loses what it had in hand.                          *)
LEMMA EndKeepsLedger ==
    ASSUME OneRun, OwnTexts, IInv, IInv', AsRead, Owed, NEW r \in Runs,
           Succeed(r) \/ GiveUp(r)
    PROVE  AsRead' /\ Owed'
<1>1. TypeOK /\ TypeOK'
  BY DEF IInv
<1>2. pc' = [pc EXCEPT ![r] = "done"] /\ UNCHANGED <<text, cache, opt, slot, paid, lost>>
  BY DEF Succeed, GiveUp, env, ledger
<1>3. \A n \in Given(r) : slot[r][n].stage # "arrived"
  BY DEF Succeed, GiveUp, At, InFlight
<1>4. AsRead'
  BY <1>1, <1>2, SourcesStay
<1>5. ~Live(r)'
  BY <1>1, <1>2 DEF Live, TypeOK
<1>6. \A t \in Texts : ~InHand(t) /\ ~Wanted(t)'
  BY <1>3, <1>5, OneRunHands DEF Hands
<1>7. \A t \in Texts : Balanced(t)
  BY <1>2, <1>6 DEF Balanced
<1>8. QED
  BY <1>1, <1>4, <1>7, BalanceKeepsOwed

LEMMA BeginKeepsLedger ==
    ASSUME OneRun, OwnTexts, IInv, IInv', AsRead, Owed, NEW r \in Runs, Begin(r)
    PROVE  AsRead' /\ Owed'
<1>1. TypeOK /\ TypeOK'
  BY DEF IInv
<1>2. /\ pc[r] \in {"idle", "done"} /\ UNCHANGED <<text, cache, paid, lost>>
      /\ slot' = [slot EXCEPT ![r] = [n \in Positions |-> EmptySlot]]
  BY DEF Begin, env, ledger
<1>3. \A n \in Positions : slot'[r][n] = EmptySlot
  BY <1>1, <1>2 DEF TypeOK
<1>4. AsRead'
  <2>1. SUFFICES ASSUME NEW q \in Runs, NEW g \in opt'[q].asked
                 PROVE  slot'[q][Place(q, g)'].src = NoText
    BY <1>2 DEF AsRead
  <2>2. q = r
    BY DEF OneRun
  <2>3. opt'[q].asked \in SUBSET Groups
    BY <1>1 DEF TypeOK, Option
  <2>4. Place(q, g)' \in Positions
    BY <2>1, <2>3, RankIsAPosition DEF Place
  <2>5. QED
    BY <1>3, <2>2, <2>4 DEF EmptySlot
<1>5. Given(r)' \subseteq Positions
  BY <1>1, PlacesNext
<1>6. ~Live(r)
  BY <1>2 DEF Live
<1>7. \A t \in Texts : ~InHand(t) /\ ~Wanted(t)'
  BY <1>3, <1>5, <1>6, OneRunHands DEF Wants, EmptySlot
<1>8. \A t \in Texts : Balanced(t)
  BY <1>2, <1>7 DEF Balanced
<1>9. QED
  BY <1>1, <1>4, <1>8, BalanceKeepsOwed

LEMMA InterruptKeepsLedger ==
    ASSUME OneRun, OwnTexts, IInv, IInv', AsRead, Owed, NEW r \in Runs, Interrupt(r)
    PROVE  AsRead' /\ Owed'
<1> DEFINE gone(t) == {n \in At(r, {"arrived"}) : opt[r].caching /\ slot[r][n].src = t}
<1>1. TypeOK /\ TypeOK'
  BY DEF IInv
<1>2. /\ pc' = [pc EXCEPT ![r] = "idle"]
      /\ lost' = [t \in Texts |-> lost[t] + Cardinality(gone(t))]
      /\ UNCHANGED <<text, cache, opt, slot, paid>>
  BY DEF Interrupt, env
<1>3. AsRead'
  BY <1>1, <1>2, SourcesStay
<1>4. ~Live(r)'
  BY <1>1, <1>2 DEF Live, TypeOK
<1>5. ASSUME NEW t \in Texts
      PROVE  Balanced(t)
  <2>1. IsFiniteSet(gone(t)) /\ Cardinality(gone(t)) \in Nat
    <3>1. gone(t) \subseteq Given(r) /\ IsFiniteSet(Given(r))
      BY <1>1, Places DEF At
    <3>2. QED
      BY <3>1, FS_Subset, FS_CardinalityType
  <2>2. InHand(t) => gone(t) # {}
    <3>1. InHand(t) => \E n \in gone(t) : TRUE
      BY OneRunHands DEF Live, Hands, At
    <3>2. QED
      BY <3>1
  <2> HIDE DEF gone
  <2>3. ~Wanted(t)' /\ lost'[t] = lost[t] + Cardinality(gone(t))
    BY <1>2, <1>4, OneRunHands
  <2>4. OwedFor(t) /\ paid[t] \in Nat /\ lost[t] \in Nat
    BY <1>1 DEF Owed, OwedFor, TypeOK
  <2>5. CASE gone(t) = {}
    <3>1. Cardinality(gone(t)) = 0 /\ ~InHand(t)
      BY <2>1, <2>2, <2>5, FS_EmptySet
    <3>2. lost'[t] = lost[t]
      BY <2>3, <2>4, <3>1
    <3>3. QED
      BY <1>2, <2>3, <3>1, <3>2 DEF Balanced
  <2>6. CASE gone(t) # {}
    <3>1. Cardinality(gone(t)) # 0
      BY <2>1, <2>6, FS_EmptySet
    <3>2. paid'[t] <= lost'[t]
      BY <1>2, <2>1, <2>3, <2>4, <3>1 DEF OwedFor
    <3>3. QED
      BY <3>2 DEF Balanced
  <2>7. QED
    BY <2>5, <2>6
<1>6. QED
  BY <1>1, <1>3, <1>5, BalanceKeepsOwed

LEMMA CleanKeepsLedger ==
    ASSUME OneRun, IInv, IInv', AsRead, Owed, NEW u \in Texts, Clean(u)
    PROVE  AsRead' /\ Owed'
<1>1. TypeOK /\ TypeOK'
  BY DEF IInv
<1>2. /\ cache' = [cache EXCEPT ![u] = None] /\ lost' = [lost EXCEPT ![u] = @ + 1]
      /\ UNCHANGED <<text, pc, opt, slot, paid>>
  BY DEF Clean, env
<1>3. AsRead'
  BY <1>1, <1>2, SourcesStay
<1>4. ASSUME NEW t \in Texts
      PROVE  Balanced(t)
  <2>1. OwedFor(t) /\ paid[t] \in Nat /\ lost[t] \in Nat
    BY <1>1 DEF Owed, OwedFor, TypeOK
  <2>2. CASE t = u
    <3>1. lost'[t] = lost[t] + 1
      BY <1>1, <1>2, <2>2 DEF TypeOK
    <3>2. paid'[t] <= lost'[t]
      BY <1>2, <2>1, <3>1 DEF OwedFor
    <3>3. QED
      BY <3>2 DEF Balanced
  <2>3. CASE t # u
    <3>1. lost'[t] = lost[t] /\ cache'[t] = cache[t]
      BY <1>1, <1>2, <2>3 DEF TypeOK
    <3>2. (InHand(t)' <=> InHand(t)) /\ (Wanted(t)' <=> Wanted(t))
      BY <1>2 DEF InHand, Wanted, Live, At, Unasked, Given
    <3>3. QED
      BY <1>2, <3>1, <3>2 DEF Balanced
  <2>4. QED
    BY <2>2, <2>3
<1>5. QED
  BY <1>1, <1>3, <1>4, BalanceKeepsOwed

LEMMA LedgerStep ==
    ASSUME OneRun, OwnTexts, IInv, IInv', Ledger, [Next]_vars
    PROVE  Ledger'
<1>1. SUFFICES ASSUME edits' = 0 PROVE AsRead' /\ Owed'
  BY DEF Ledger
<1>2. edits \in Nat /\ \A g \in Groups : ~Edit(g)
  <2>1. edits \in Nat
    BY NumbersAssumption DEF IInv, TypeOK
  <2>2. QED
    BY <1>1, <2>1 DEF Edit
<1>3. AsRead /\ Owed
  <2>1. ASSUME NEW r \in Runs, Step(r)
        PROVE  edits' = edits
    BY <2>1 DEF Step, Plan, Succeed, GiveUp, ReadBack, LookUp, Send, Answer, Refuse, Fail,
       Remember, env
  <2>2. edits' = edits
    BY <1>2, <2>1 DEF Next, Begin, Interrupt, Clean, env, vars
  <2>3. QED
    BY <1>1, <2>2 DEF Ledger
<1>4. ASSUME NEW r \in Runs, Begin(r) PROVE AsRead' /\ Owed'
  BY <1>3, <1>4, BeginKeepsLedger
<1>5. ASSUME NEW r \in Runs, Interrupt(r) PROVE AsRead' /\ Owed'
  BY <1>3, <1>5, InterruptKeepsLedger
<1>6. ASSUME NEW r \in Runs, Step(r) PROVE AsRead' /\ Owed'
  <2>1. CASE Plan(r)
    BY <1>3, <2>1, PlanKeepsLedger
  <2>2. CASE Succeed(r) \/ GiveUp(r)
    BY <1>3, <2>2, EndKeepsLedger
  <2>3. ASSUME NEW g \in opt[r].asked, ReadBack(r, g) PROVE AsRead' /\ Owed'
    BY <1>3, <2>3, ReadBackKeepsLedger
  <2>4. ASSUME NEW n \in Given(r), LookUp(r, n) PROVE AsRead' /\ Owed'
    BY <1>3, <2>4, LookUpKeepsLedger
  <2>5. ASSUME NEW n \in Given(r), Send(r, n) \/ Refuse(r, n) \/ Fail(r, n)
        PROVE  AsRead' /\ Owed'
    BY <1>3, <2>5, SendKeepsLedger
  <2>6. ASSUME NEW n \in Given(r), Answer(r, n) PROVE AsRead' /\ Owed'
    BY <1>3, <2>6, AnswerKeepsLedger
  <2>7. ASSUME NEW n \in Given(r), Remember(r, n) PROVE AsRead' /\ Owed'
    BY <1>3, <2>7, RememberKeepsLedger
  <2>8. QED
    BY <1>6, <2>1, <2>2, <2>3, <2>4, <2>5, <2>6, <2>7 DEF Step
<1>7. ASSUME NEW t \in Texts, Clean(t) PROVE AsRead' /\ Owed'
  BY <1>3, <1>7, CleanKeepsLedger
<1>8. CASE UNCHANGED vars
  BY <1>3, <1>8 DEF vars, AsRead, Owed, InHand, Wanted, Live, At, Unasked, Given, Place
<1>9. QED
  BY <1>2, <1>4, <1>5, <1>6, <1>7, <1>8 DEF Next

(* A run that failed or was interrupted and is started again pays only for *)
(* what was not answered, however often it is started and whatever the     *)
(* cache loses: of one run at a time, over distinct texts nobody edits, no *)
(* text is judged more than once beyond the verdicts of it that were lost. *)
THEOREM PaysOnce ==
    ASSUME OneRun, OwnTexts
    PROVE  Spec => []PaidOnce
<1>1. Init => Ledger
  <2>1. SUFFICES ASSUME Init PROVE AsRead /\ Owed
    BY DEF Ledger
  <2>2. AsRead
    BY <2>1 DEF Init, AsRead
  <2>3. Owed
    BY <2>1 DEF Init, Owed, Wanted, Live
  <2>4. QED
    BY <2>2, <2>3
<1>2. IInv /\ IInv' /\ Ledger /\ [Next]_vars => Ledger'
  BY LedgerStep
<1>3. Ledger /\ IInv => PaidOnce
  <2>1. SUFFICES ASSUME Ledger, IInv, edits = 0, NEW t \in Texts
                 PROVE  paid[t] <= 1 + lost[t]
    BY DEF PaidOnce
  <2>2. paid[t] <= lost[t] + 1 /\ lost[t] \in Nat
    BY <2>1 DEF Ledger, Owed, IInv, TypeOK
  <2>3. QED
    BY <2>2
<1> QED
  BY <1>1, <1>2, <1>3, Invariance, PTL DEF Spec
=============================================================================
