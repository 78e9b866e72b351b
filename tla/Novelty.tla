------------------------------ MODULE Novelty -------------------------------
(***************************************************************************)
(* src/duplicates/novelty.rs `compare': which duplicate groups a change    *)
(* made.  A function's identity is its file and name; what is found on one *)
(* side only is paired by path suffix, in rounds, and then by a name left  *)
(* once on each side; and the groups are compared by the identities they   *)
(* hold.  Only the new and the grown groups are shown, and triaged.        *)
(***************************************************************************)
EXTENDS Paths

CONSTANTS Files,    \* paths, as sequences of components
          Names,    \* function names
          Lines,    \* the lines functions start at
          Inputs    \* the comparisons: <<current groups, recorded groups>>

(* extract.rs Location; a group is the set of its members, of which a      *)
(* group of this run has two at least (Groups).                            *)
Function == [file : Files, name : Names, line : Lines]
Identity == Files \X Names

ASSUME InputsAssumption ==
    /\ Inputs \subseteq Seq(SUBSET Function) \X Seq(SUBSET Function)
    /\ \A r \in Inputs : \A g \in DOMAIN r[1] : Cardinality(r[1][g]) >= 2
    /\ IsFiniteSet(Function)
    /\ \A f \in Files : f \in Seq(Components(f))

VARIABLES current,   \* the groups of this run
          baseline,  \* the groups of the recorded one
          arrived,   \* the current identities still to be paired
          gone,      \* the baseline identities still to be paired
          turns,     \* the rounds left under each name
          claims,    \* the pairs made, as <<current, baseline>> identities
          pc,        \* "pairing" or "done"
          novelty,   \* what each current group is
          resolved   \* the recorded groups that are no more

input == <<current, baseline>>
vars == <<current, baseline, arrived, gone, turns, claims, pc, novelty, resolved>>

-----------------------------------------------------------------------------
Id(l) == <<l.file, l.name>>
Ids(S) == {Id(l) : l \in S}
Named(S, n) == {i \in S : i[2] = n}

(* A baseline group of fewer than two members has no pair. *)
Recorded == {g \in DOMAIN baseline : Cardinality(baseline[g]) >= 2}
Before == UNION {baseline[g] : g \in Recorded}
Now == UNION {current[g] : g \in DOMAIN current}

(* Slips: one round, as in the delta; and one too few.                     *)
Turns_Once(a, b) == IF a = 0 \/ b = 0 THEN 0 ELSE 1
Turns_TooFew(a, b) == IF a = 0 \/ b = 0 THEN 0 ELSE IF a < b THEN a - 1 ELSE b - 1

(* pair_by_suffix: how many rounds there are, for so many on each side. *)
Turns(a, b) == IF a < b THEN a ELSE b

(* Under one name, c's best is b and b's best is c. *)
Mutual(n, c, b) ==
    /\ Best([d \in Named(gone, n) |-> Suffix(c[1], d[1])], Named(gone, n), b)
    /\ Best([d \in Named(arrived, n) |-> Suffix(b[1], d[1])], Named(arrived, n), c)

Init ==
    /\ \E r \in Inputs : current = r[1] /\ baseline = r[2]
    /\ arrived = Ids(Now) \ Ids(Before)
    /\ gone = Ids(Before) \ Ids(Now)
    /\ turns = [n \in Names |-> Turns(Cardinality(Named(arrived, n)),
                                      Cardinality(Named(gone, n)))]
    /\ claims = {} /\ pc = "pairing" /\ novelty = <<>> /\ resolved = 0

(* One round of pair_by_suffix under one name: all that are each other's   *)
(* unique best are paired and stop competing; a round that pairs nothing   *)
(* is the last.                                                            *)
Round(n) ==
    LET found == {p \in Named(arrived, n) \X Named(gone, n) : Mutual(n, p[1], p[2])}
    IN
    /\ pc = "pairing" /\ turns[n] > 0
    /\ turns' = [turns EXCEPT ![n] = IF found = {} THEN 0 ELSE @ - 1]
    /\ claims' = claims \cup found
    /\ arrived' = arrived \ {p[1] : p \in found}
    /\ gone' = gone \ {p[2] : p \in found}
    /\ UNCHANGED <<input, pc, novelty, resolved>>

-----------------------------------------------------------------------------
(* current_id: a current function's identity after the suffix pass. *)
CurrentId(l) ==
    IF \E p \in claims : p[1] = Id(l)
      THEN (CHOOSE p \in claims : p[1] = Id(l))[2] ELSE Id(l)

(* Functions whose identity is on one side only by now: the recorded side, *)
StraysBefore == {l \in Before : Id(l) \notin {CurrentId(m) : m \in Now}}

(* ... and on the current side. *)
StraysNow == {l \in Now : CurrentId(l) \notin Ids(Before)}

(* unique_names and moves: a name found once on each side. *)
Only(S, l) == l \in S /\ \A m \in S : m.name = l.name => m = l
Moved(b, l) == Only(StraysBefore, b) /\ Only(StraysNow, l) /\ b.name = l.name

(* The identity a current function is compared under. *)
Same(l) ==
    IF \E b \in Before : Moved(b, l)
      THEN Id(CHOOSE b \in Before : Moved(b, l)) ELSE CurrentId(l)

(* How often an identity occurs among a group's members. *)
TimesNow(g, i) == Cardinality({l \in current[g] : Same(l) = i})
TimesThen(b, i) == Cardinality({l \in baseline[b] : Id(l) = i})

(* A slip: namesakes in one file are not counted. *)
Together_Uncounted(g, b) == Cardinality({l \in current[g] : Same(l) \in Ids(baseline[b])})

(* together_in: per identity, the fewer of the two counts. *)
Together(g, b) ==
    Cardinality({p \in Ids(baseline[b]) \X (1 .. Cardinality(baseline[b])) :
                    p[2] <= TimesNow(g, p[1]) /\ p[2] <= TimesThen(b, p[1])})

(* novelty: judged by the recorded group that held the most members. *)
Held(g) ==
    LET held == {Together(g, b) : b \in Recorded} \cup {0}
    IN CHOOSE m \in held : \A k \in held : k <= m

Status(g) ==
    IF Held(g) < 2 THEN "new"
    ELSE IF Held(g) = Cardinality(current[g]) THEN "unchanged" ELSE "grown"

(* pairs: the identities of every two members, equal ones included.        *)
PairsNow(g) == {{Same(p[1]), Same(p[2])} :
                  p \in {q \in current[g] \X current[g] : q[1] # q[2]}}
PairsThen(b) == {{Id(p[1]), Id(p[2])} :
                  p \in {q \in baseline[b] \X baseline[b] : q[1] # q[2]}}

(* None of its pairs are together in a current group. *)
Resolved ==
    {b \in Recorded : \A p \in PairsThen(b) :
        p \notin UNION {PairsNow(g) : g \in DOMAIN current}}

(* The rest of compare, once every name is through. *)
Judge ==
    /\ pc = "pairing" /\ \A n \in Names : turns[n] = 0
    /\ pc' = "done"
    /\ novelty' = [g \in DOMAIN current |-> [status |-> Status(g), from |-> Held(g)]]
    /\ resolved' = Cardinality(Resolved)
    /\ UNCHANGED <<input, arrived, gone, turns, claims>>

Next == (\E n \in Names : Round(n)) \/ Judge

Spec == Init /\ [][Next]_vars

-----------------------------------------------------------------------------
(* Every variable holds a value of its kind. *)
TypeOK ==
    /\ current \in Seq(SUBSET Function) /\ baseline \in Seq(SUBSET Function)
    /\ \A g \in DOMAIN current : Cardinality(current[g]) >= 2
    /\ arrived \subseteq Identity /\ gone \subseteq Identity
    /\ turns \in [Names -> Nat]
    /\ claims \subseteq Identity \X Identity
    /\ pc \in {"pairing", "done"}

(* "No baseline identity is claimed twice", by a suffix, by a move or by   *)
(* being there already: two functions of different identity are never      *)
(* taken for one, which would hide a copy behind the function it copies.   *)
OneEach ==
    /\ \A p, q \in claims : p[2] = q[2] => p = q
    /\ pc = "done" => \A l, m \in Now : Same(l) = Same(m) => Id(l) = Id(m)

(* The bound on the rounds is never what ends them: of those left over no  *)
(* two of one name are each other's unique best.                           *)
NoBestLeft ==
    pc = "done" =>
        \A c \in arrived, b \in gone :
            c[2] = b[2] /\ Suffix(c[1], b[1]) > 0 =>
                \/ \E d \in gone \ {b} : d[2] = c[2] /\ Suffix(c[1], d[1]) >= Suffix(c[1], b[1])
                \/ \E d \in arrived \ {c} : d[2] = c[2] /\ Suffix(d[1], b[1]) >= Suffix(c[1], b[1])

(* Two countings agree, by members and by pairs: a recorded group is       *)
(* resolved just when no current group holds two of its members, so no     *)
(* report calls a group old and the one it comes from resolved.            *)
ResolvedMeansGone ==
    pc = "done" =>
        resolved = Cardinality({b \in Recorded : \A g \in DOMAIN current : Together(g, b) < 2})

(* The record is of the same groups under another root. *)
Put(root, n, G) == {[l EXCEPT !.file = root \o Below(l.file, n)] : l \in G}
Rerooted(n, root) ==
    /\ DOMAIN current = DOMAIN baseline
    /\ \A l, m \in Now : Len(l.file) > n /\ Root(l.file, n) = Root(m.file, n)
    /\ \A g \in DOMAIN current : baseline[g] = Put(root, n, current[g])

(* ... and neither root has a component that occurs below it. *)
Fresh(n, root) ==
    \A l, m \in Now :
        (Components(root) \cup Components(Root(l.file, n))) \cap Components(Below(m.file, n)) = {}

RootsOf(S) == {Root(p[1].file, p[2]) : p \in {q \in S \X (0 .. 2) : q[2] < Len(q[1].file)}}
NothingNew == resolved = 0 /\ \A g \in DOMAIN current : novelty[g].status = "unchanged"

(* Spec 42: groups compared with themselves under another root are         *)
(* unchanged, however their files' paths end in one another.               *)
RemapKeepsGroups ==
    pc = "done" /\ (\E n \in 0 .. 2, root \in RootsOf(Before) : Rerooted(n, root) /\ Fresh(n, root))
        => NothingNew

(* The inductive invariant: what was paired is left by neither side, is    *)
(* of one name, and is found on one side only; a name that is not through  *)
(* has rounds enough left.                                                 *)
OneName == \A p \in claims : p[1][2] = p[2][2]
OneSided ==
    /\ arrived \cup {p[1] : p \in claims} = Ids(Now) \ Ids(Before)
    /\ gone \cup {p[2] : p \in claims} = Ids(Before) \ Ids(Now)
Left == \A p \in claims : p[1] \notin arrived /\ p[2] \notin gone
OneToOne == \A p, q \in claims : p[1] = q[1] <=> p[2] = q[2]
Enough ==
    \A n \in Names :
        \/ turns[n] >= Turns(Cardinality(Named(arrived, n)), Cardinality(Named(gone, n)))
        \/ /\ turns[n] = 0
           /\ \A c \in Named(arrived, n), b \in Named(gone, n) : ~Mutual(n, c, b)

Judged ==
    pc = "done" =>
        /\ \A n \in Names : turns[n] = 0
        /\ novelty = [g \in DOMAIN current |-> [status |-> Status(g), from |-> Held(g)]]
        /\ resolved = Cardinality(Resolved)

IInv == TypeOK /\ OneName /\ OneSided /\ Left /\ OneToOne /\ Enough /\ Judged
=============================================================================
