------------------------------- MODULE Delta --------------------------------
(***************************************************************************)
(* src/delta.rs `compute_delta': every function of the current run is      *)
(* paired with at most one function of the baseline, in three passes (the  *)
(* exact key, the longest common path suffix, the name alone), and what    *)
(* the baseline has left over is reported removed.  The regression gate    *)
(* compares the scores of exactly these pairs.                             *)
(*                                                                         *)
(* A file is the sequence of its path's components.  The second and third  *)
(* passes walk a HashMap of names, in an order nobody fixes, and consult   *)
(* what was unpaired when they began.                                      *)
(***************************************************************************)
EXTENDS Paths

CONSTANTS Files,    \* paths, as sequences of components
          Names,    \* function names
          Lines,    \* the lines functions start at
          Inputs    \* the runs compared: pairs <<current, baseline>>

(* One function of a run; its score plays no part in the pairing. *)
Entry == [file : Files, function : Names, line : Lines]

ASSUME InputsAssumption ==
    /\ Inputs \subseteq Seq(Entry) \X Seq(Entry)
    /\ \A f \in Files : f \in Seq(Components(f))

VARIABLES current,   \* the functions of this run
          baseline,  \* those of the recorded one
          pc,        \* the pass: "exact", "suffix", "name", then "done"
          todo,      \* the names this pass has still to look at
          fresh,     \* what was New when this pass began
          loose,     \* what was unmatched in the baseline when it began
          paired,    \* the baseline entry of each current one, 0 if New
          moved,     \* the current entries with a previous_file
          matched,   \* the baseline keys that found a partner
          removed    \* the baseline entries reported removed

input == <<current, baseline>>
vars == <<current, baseline, pc, todo, fresh, loose, paired, moved, matched, removed>>

(* A slip: the file is left out of the key. *)
Key_NoFile(e) == <<e.function, e.line>>

(* EntryKey. *)
Key(e) == <<e.file, e.function, e.line>>

CurrentKey(i) == Key(current[i])
BaselineKey(b) == Key(baseline[b])

-----------------------------------------------------------------------------
Fresh(n) == {i \in fresh : current[i].function = n}
Loose(n) == {b \in loose : baseline[b].function = n}

(* Among the unpaired of one name, i's best is b and b's best is i. *)
Mutual(n, i, b) ==
    /\ Best([c \in Loose(n) |-> Suffix(current[i].file, baseline[c].file)], Loose(n), b)
    /\ Best([j \in Fresh(n) |-> Suffix(baseline[b].file, current[j].file)], Fresh(n), i)

(* What is New and what is unmatched now, to begin a pass with. *)
New(p) == {i \in DOMAIN current : p[i] = 0}
Unmatched(m) == {b \in DOMAIN baseline : BaselineKey(b) \notin m}
Begin(pass, p, m) ==
    /\ pc' = pass
    /\ fresh' = New(p) /\ loose' = Unmatched(m)
    /\ todo' = {current[i].function : i \in New(p)}

-----------------------------------------------------------------------------
Init ==
    /\ \E r \in Inputs : current = r[1] /\ baseline = r[2]
    /\ pc = "exact" /\ todo = {} /\ fresh = {} /\ loose = {}
    /\ paired = [i \in DOMAIN current |-> 0]
    /\ moved = {} /\ matched = {} /\ removed = {}

(* pass_one_exact: the same file, name and line.  A later baseline entry   *)
(* under the same key hides an earlier one.                                *)
Exact(i) == {b \in DOMAIN baseline : BaselineKey(b) = CurrentKey(i)}
Hit(i, b) == b \in Exact(i) /\ \A c \in Exact(i) : c <= b

PassOne ==
    /\ pc = "exact"
    /\ paired' = [i \in DOMAIN current |->
                    IF \E b \in DOMAIN baseline : Hit(i, b)
                      THEN CHOOSE b \in DOMAIN baseline : Hit(i, b) ELSE 0]
    /\ matched' = {CurrentKey(i) : i \in {j \in DOMAIN current :
                                            \E b \in DOMAIN baseline : Hit(j, b)}}
    /\ Begin("suffix", paired', matched')
    /\ UNCHANGED <<input, moved, removed>>

(* pass_suffix_match, one name: each entry is paired with the one it is    *)
(* mutually closest to.                                                    *)
SuffixName(n) ==
    /\ pc = "suffix" /\ n \in todo
    /\ todo' = todo \ {n}
    /\ paired' = [i \in DOMAIN current |->
                    IF i \in Fresh(n) /\ \E b \in Loose(n) : Mutual(n, i, b)
                      THEN CHOOSE b \in Loose(n) : Mutual(n, i, b) ELSE paired[i]]
    /\ matched' = matched \cup
         {BaselineKey(b) : b \in {c \in Loose(n) : \E i \in Fresh(n) : Mutual(n, i, c)}}
    /\ UNCHANGED <<input, pc, fresh, loose, moved, removed>>

(* A slip: what was New and unmatched at first is gone through again. *)
EndSuffix_Stale ==
    /\ pc = "suffix" /\ todo = {}
    /\ pc' = "name" /\ todo' = {current[i].function : i \in fresh}
    /\ UNCHANGED <<input, fresh, loose, paired, moved, matched, removed>>

(* Every name was looked at: the third pass begins. *)
EndSuffix ==
    /\ pc = "suffix" /\ todo = {}
    /\ Begin("name", paired, matched)
    /\ UNCHANGED <<input, paired, moved, matched, removed>>

(* pass_two_name_fallback, one name: one new entry and one left over.  *)
NameOnly(n) ==
    /\ pc = "name" /\ n \in todo
    /\ todo' = todo \ {n}
    /\ \/ \E i \in Fresh(n), b \in Loose(n) :
            /\ Fresh(n) = {i} /\ Loose(n) = {b}
            /\ paired' = [paired EXCEPT ![i] = b]
            /\ moved' = moved \cup {i}
            /\ matched' = matched \cup {BaselineKey(b)}
       \/ /\ ~\E i \in Fresh(n), b \in Loose(n) : Fresh(n) = {i} /\ Loose(n) = {b}
          /\ UNCHANGED <<paired, moved, matched>>
    /\ UNCHANGED <<input, pc, fresh, loose, removed>>

(* collect_removed. *)
Collect ==
    /\ pc = "name" /\ todo = {}
    /\ pc' = "done"
    /\ removed' = Unmatched(matched)
    /\ UNCHANGED <<input, todo, fresh, loose, paired, moved, matched>>

Next == \/ PassOne \/ EndSuffix \/ Collect
        \/ \E n \in Names : SuffixName(n) \/ NameOnly(n)

Spec == Init /\ [][Next]_vars

-----------------------------------------------------------------------------
(* Every variable holds a value of its kind, and a key is matched whenever *)
(* one of its entries has a partner.                                       *)
TypeOK ==
    /\ input \in Inputs
    /\ pc \in {"exact", "suffix", "name", "done"}
    /\ todo \subseteq Names
    /\ fresh \subseteq DOMAIN current /\ loose \subseteq DOMAIN baseline
    /\ paired \in [DOMAIN current -> {0} \cup DOMAIN baseline]
    /\ moved \subseteq DOMAIN current /\ removed \subseteq DOMAIN baseline
    /\ matched \subseteq Files \X Names \X Lines
    /\ \A i \in DOMAIN current : paired[i] # 0 => BaselineKey(paired[i]) \in matched

(* No two entries of a run have the same key. *)
DistinctCurrent == \A i, j \in DOMAIN current : CurrentKey(i) = CurrentKey(j) => i = j
DistinctBaseline == \A b, c \in DOMAIN baseline : BaselineKey(b) = BaselineKey(c) => b = c

(* pass_suffix_match: no baseline entry is assigned twice, whatever the    *)
(* passes and the order of the names, so no score is compared twice.       *)
NoneTwice ==
    DistinctCurrent =>
        \A i, j \in DOMAIN current : paired[i] = paired[j] /\ paired[i] # 0 => i = j

(* Every baseline function is accounted for: it is reported removed or is  *)
(* the partner of a current one, and never both.                           *)
Conserved ==
    pc = "done" /\ DistinctBaseline =>
        removed = DOMAIN baseline \ {paired[i] : i \in DOMAIN current}

(* No report says New of one function and removed of another when these    *)
(* are the only two of their name left: that is a move.                    *)
NoLonePair ==
    pc = "done" =>
        ~\E n \in Names : \E i \in New(paired), b \in removed :
            /\ {j \in New(paired) : current[j].function = n} = {i}
            /\ {c \in removed : baseline[c].function = n} = {b}

(* A pairing across files never passes over a closer candidate that ends   *)
(* up alone: every function reported New or removed under that name shares *)
(* a shorter tail with the other half of the pair.                         *)
Nearest ==
    pc = "done" =>
        \A i \in DOMAIN current :
            paired[i] # 0 /\ i \notin moved /\ Exact(i) = {} =>
                LET b == paired[i]
                    tail == Suffix(current[i].file, baseline[b].file)
                IN /\ tail > 0
                   /\ \A c \in removed : baseline[c].function = current[i].function =>
                        Suffix(current[i].file, baseline[c].file) < tail
                   /\ \A j \in New(paired) : current[j].function = current[i].function =>
                        Suffix(baseline[b].file, current[j].file) < tail

(* b and i have a rival: another of their name, at least as close. *)
Rival(i, b) ==
    LET tail == Suffix(current[i].file, baseline[b].file) IN
    \/ \E c \in DOMAIN baseline \ {b} :
         /\ baseline[c].function = current[i].function
         /\ Suffix(current[i].file, baseline[c].file) >= tail
    \/ \E j \in DOMAIN current \ {i} :
         /\ current[j].function = current[i].function
         /\ Suffix(baseline[b].file, current[j].file) >= tail

(* Ambiguity is the only excuse: a function reported New and one reported  *)
(* removed under one name and file name have a rival at least as close.    *)
Unmissed ==
    pc = "done" =>
        \A i \in New(paired), b \in removed :
            /\ baseline[b].function = current[i].function
            /\ Suffix(current[i].file, baseline[b].file) > 0
            => Rival(i, b)

(* The inductive invariant: nothing is paired before the first pass; a     *)
(* pair is of one name and every matched key has its partner; what is      *)
(* unpaired now was unpaired when the pass began, and conversely under a   *)
(* name the pass has not reached; and the names it is through with are     *)
(* settled.                                                                *)
Untouched == pc = "exact" => paired = [i \in DOMAIN current |-> 0] /\ matched = {}
OneName == \A i \in DOMAIN current :
    paired[i] # 0 => baseline[paired[i]].function = current[i].function
Partnered == \A k \in matched : \E i \in DOMAIN current :
    paired[i] # 0 /\ BaselineKey(paired[i]) = k
Snapshot ==
    pc \in {"suffix", "name"} =>
        /\ New(paired) \subseteq fresh /\ Unmatched(matched) \subseteq loose
        /\ \A n \in todo : Fresh(n) \subseteq New(paired) /\ Loose(n) \subseteq Unmatched(matched)
Alone(n) == \E i \in New(paired), b \in Unmatched(matched) :
    /\ {j \in New(paired) : current[j].function = n} = {i}
    /\ {c \in Unmatched(matched) : baseline[c].function = n} = {b}
Settled == pc \in {"name", "done"} => \A n \in Names \ todo : ~Alone(n)
Over == pc = "done" => todo = {} /\ removed = Unmatched(matched)
Closest ==
    \A i \in DOMAIN current :
        paired[i] # 0 /\ i \notin moved /\ Exact(i) = {} =>
            LET b == paired[i]
                tail == Suffix(current[i].file, baseline[b].file)
            IN /\ tail > 0
               /\ \A c \in Unmatched(matched) : baseline[c].function = current[i].function =>
                    Suffix(current[i].file, baseline[c].file) < tail
               /\ \A j \in New(paired) : current[j].function = current[i].function =>
                    Suffix(baseline[b].file, current[j].file) < tail

Excused ==
    pc # "exact" =>
        \A i \in New(paired), b \in Unmatched(matched) :
            /\ baseline[b].function = current[i].function
            /\ Suffix(current[i].file, baseline[b].file) > 0
            /\ pc = "suffix" => current[i].function \notin todo
            => Rival(i, b)

IInv == /\ TypeOK /\ Untouched /\ OneName /\ Partnered /\ Snapshot
        /\ Settled /\ Over /\ NoneTwice /\ Closest /\ Excused

(* The baseline is this tree, function by function and each listed once,   *)
(* under another root, whose components appear nowhere below it.           *)
Relocated(n, m) ==
    /\ DOMAIN current = DOMAIN baseline
    /\ \A i, j \in DOMAIN current :
         LET mine == current[i].file
             theirs == baseline[i].file
         IN /\ i # j => baseline[i] # baseline[j]
            /\ Len(mine) > n /\ Root(mine, n) = Root(current[j].file, n)
            /\ Len(theirs) > m /\ Root(theirs, m) = Root(baseline[j].file, m)
            /\ baseline[i] = [current[i] EXCEPT !.file = Root(theirs, m) \o Below(mine, n)]
            /\ Components(Root(mine, n) \o Root(theirs, m))
                 \cap Components(Below(current[j].file, n)) = {}

(* Each function's partner is itself or none, and one that has none yet    *)
(* finds itself among the unmatched.                                       *)
OwnPartners ==
    /\ \A i \in DOMAIN current : paired[i] \in {0, i}
    /\ pc \in {"suffix", "name"} => fresh \subseteq loose

(* Spec 21: under a root remap no function is ever compared with another   *)
(* one, which would swallow its regression: its partner is itself, or it   *)
(* has none.                                                               *)
RemapKeepsIdentity ==
    (\E n, m \in 1 .. 2 : Relocated(n, m)) =>
        \A i \in DOMAIN current : paired[i] \in {0, i}
=============================================================================
