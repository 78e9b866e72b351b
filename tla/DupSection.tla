----------------------------- MODULE DupSection -----------------------------
(***************************************************************************)
(* The duplicate section of a report (src/report/duplicates.rs,            *)
(* `render_duplicates' of src/report.rs, the groups of src/report/json.rs  *)
(* and `duplicate_section' of src/main.rs): which groups are put to        *)
(* triage, where its answers end up, and what each format says of groups   *)
(* and verdicts.  Groups has the grouping, Novelty the statuses and        *)
(* TriageRun the asking.                                                   *)
(*                                                                         *)
(* `d' is what one run found: `groups' in report order, each with its      *)
(* members, its status against the baseline's record, how many members it  *)
(* grew from and what triage would say of it (None beyond the budget); and *)
(* the pairs the groups were made of.                                      *)
(***************************************************************************)
EXTENDS Orders, SequencesExt

CONSTANTS None,
          Named,      \* NAMED: the members a larger group's row names
          MaxRows     \* MAX_ROWS_PER_SECTION of the PR comment

(* What there may be to say of duplicates. *)
IsResult(d) ==
    /\ d.floor \in Nat
    /\ d.groups \in Seq(ToSet(d.groups))
    /\ \A g \in ToSet(d.groups) :
         /\ g.members \in Seq(ToSet(g.members))
         /\ g.says # None => DOMAIN g.says = {"level", "confidence"} /\ g.says.confidence \in Nat

-----------------------------------------------------------------------------
(* duplicate_section: detection and triage.                                *)

(* duplicate_pairs: not asked for, or by a format that has no place for    *)
(* duplicates.                                                             *)
Found(d, format) == d.enabled /\ format \in {"human", "json", "markdown", "pr-comment"}

(* Comparison::reported: the groups that are new or have grown. *)
ReportedGroups(d) == Ranked({k \in DOMAIN d.groups : d.groups[k].status # "unchanged"}, <)

(* asked: every group, or those of a delta run that will be reported. *)
Asked(d) == IF d.recorded THEN ReportedGroups(d) ELSE [k \in DOMAIN d.groups |-> k]

(* Verdict::assessment: below the floor only the confidence is kept. *)
Assessment(v, floor) == IF v.confidence >= floor THEN v ELSE [v EXCEPT !.level = None]

(* triage_assessments and assessments: one answer per question, None       *)
(* beyond the budget, all or nothing.                                      *)
Answers(d) ==
    [k \in DOMAIN Asked(d) |->
       LET says == d.groups[Asked(d)[k]].says
       IN IF says = None THEN None ELSE Assessment(says, d.floor)]
Untriaged(d) ==
    IF d.triage # "answers" THEN 0 ELSE Cardinality({k \in DOMAIN Asked(d) : Answers(d)[k] = None})

(* A slip: the answers are taken for those of the first groups. *)
Spread_InOrder(d) ==
    [n \in DOMAIN d.groups |-> IF n \in DOMAIN Answers(d) THEN Answers(d)[n] ELSE None]

(* spread: each answer back at the index of its group. *)
Spread(d) ==
    [n \in DOMAIN d.groups |->
       IF \E k \in DOMAIN Asked(d) : Asked(d)[k] = n
       THEN Answers(d)[CHOOSE k \in DOMAIN Asked(d) : Asked(d)[k] = n] ELSE None]

Triage(d) == IF d.triage = "answers" THEN Spread(d) ELSE None

-----------------------------------------------------------------------------
(* What is written: a heading's count, the rows, how many more there are,  *)
(* the counts of the summary line, and the lines that close the section.   *)
Row(n, named, more, from, verdict) ==
    [group |-> n, named |-> named, more |-> more, from |-> from, verdict |-> verdict]
Silence == [says |-> "nothing", of |-> 0, rows |-> <<>>, more |-> 0, header |-> "none",
            summary |-> None, unchanged |-> 0, resolved |-> 0, untriaged |-> 0, budget |-> None,
            by |-> FALSE, pairs |-> <<>>]

Size(d, n) == Len(d.groups[n].members)
(* group_cell: a pair's two names, or the first few and a count. *)
Names(d, n) ==
    IF Size(d, n) = 2 \/ Size(d, n) <= Named THEN Size(d, n) ELSE Named

VerdictOn(d, n) == IF Triage(d) = None THEN None ELSE Triage(d)[n]

(* write_group: every member, whatever the group's size. *)
HumanRow(d, n) == Row(n, Size(d, n), 0, 0, VerdictOn(d, n))

(* render_human_section and render_grouped: every group, and of how many   *)
(* new ones the budget left some.                                          *)
Human(d) ==
    LET among == IF d.recorded THEN Len(ReportedGroups(d)) ELSE Len(d.groups)
    IN IF d.groups = <<>> THEN [Silence EXCEPT !.says = "none found"]
       ELSE [Silence EXCEPT !.says = "groups", !.of = Len(d.groups),
               !.rows = [n \in DOMAIN d.groups |-> HumanRow(d, n)],
               !.untriaged = Min({Untriaged(d), among}),
               !.budget = IF d.recorded THEN among ELSE None]

(* level: what a verdict counts under, None where it is not sure enough. *)
Level(v) == v.level

(* summary_line: how many verdicts there are at each level. *)
SummaryLine(verdicts) ==
    LET told == Where(verdicts, LAMBDA v : v # None) IN
    [level \in {Level(told[k]) : k \in DOMAIN told} |->
       Cardinality({k \in DOMAIN told : Level(told[k]) = level})]

(* header: `Pair' while every row shown is one. *)
Header(d, shown) == IF \A k \in DOMAIN shown : Size(d, shown[k]) = 2 THEN "pair" ELSE "functions"

(* kept_triage: each group kept, with its own verdict. *)
Verdicts(d, kept) ==
    [k \in DOMAIN kept |-> VerdictOn(d, kept[k])]

(* write_table_body: the summary counts every verdict, shown or not. *)
Told(verdicts, shown) == SummaryLine(verdicts)

(* write_capped, with_a_verdict and write_rows, over the groups kept:      *)
(* without a verdict among them no summary, no cells and no provider.      *)
Table(d, kept, cap) ==
    LET verdicts == Verdicts(d, kept)
        triaged == \E k \in DOMAIN kept : verdicts[k] # None
        shown == IF cap = None \/ cap > Len(kept) THEN kept ELSE SubSeq(kept, 1, cap)
        from(n) == IF d.recorded THEN d.groups[n].from ELSE 0
    IN [Silence EXCEPT !.says = "table", !.of = Len(kept), !.header = Header(d, shown),
          !.rows = [k \in DOMAIN shown |->
                      Row(kept[k], Names(d, kept[k]), Size(d, kept[k]) - Names(d, kept[k]),
                          from(kept[k]), verdicts[k])],
          !.more = Len(kept) - Len(shown),
          !.summary = IF triaged THEN Told(verdicts, shown) ELSE None, !.by = triaged]

(* render_table and render_new_table: against a record the new and grown   *)
(* groups, with counts of the unchanged and the resolved.                  *)
Markdown(d, cap) ==
    LET kept == Asked(d)
        table == [Table(d, kept, cap) EXCEPT !.untriaged = Min({Untriaged(d), Len(kept)})]
    IN IF ~d.recorded
       THEN IF d.groups = <<>> THEN [Silence EXCEPT !.says = "none found"] ELSE table
       ELSE [(IF kept = <<>> THEN [Silence EXCEPT !.says = "none new"] ELSE table)
             EXCEPT !.unchanged = Len(d.groups) - Len(kept), !.resolved = d.resolved]

(* nothing_new: a comment with nothing to say about duplicates says        *)
(* nothing.                                                                *)
NothingNew(d) ==
    IF d.recorded THEN d.resolved = 0 /\ ReportedGroups(d) = <<>> ELSE d.groups = <<>>

(* pair_groups and pair_triage: a pair has the verdict of the group that   *)
(* holds both its functions, none does when one is in no group.            *)
Holding(d, pair) ==
    {n \in DOMAIN d.groups : pair \subseteq ToSet(d.groups[n].members) /\ Cardinality(pair) = 2}
PairVerdict(d, pair) ==
    IF Triage(d) = None \/ \E p \in d.pairs : Holding(d, p) = {} THEN None
    ELSE Triage(d)[Max(Holding(d, pair))]

(* DuplicateGroupJson and DeltaGroupJson::of: every member, and against a  *)
(* record what the group grew from.                                        *)
JsonRow(d, n) ==
    Row(n, Size(d, n), 0, IF d.recorded THEN d.groups[n].from ELSE 0, VerdictOn(d, n))

(* DuplicateJson: the pairs, each with its verdict. *)
JsonPairs(d) == [p \in d.pairs |-> PairVerdict(d, p)]

(* wire, wire_groups and wire_delta_groups, inside the JSON envelope. *)
Json(d) ==
    [Silence EXCEPT !.says = "data", !.of = Len(d.groups),
       !.rows = [n \in DOMAIN d.groups |-> JsonRow(d, n)],
       !.untriaged = Untriaged(d), !.pairs = JsonPairs(d)]

(* render_duplicates and write_duplicate_section. *)
Section(d, format) ==
    IF ~Found(d, format) THEN Silence
    ELSE CASE format = "human" -> Human(d)
           [] format = "json" -> Json(d)
           [] format = "markdown" -> Markdown(d, None)
           [] format = "pr-comment" -> IF NothingNew(d) THEN Silence ELSE Markdown(d, MaxRows)

-----------------------------------------------------------------------------
(* A row, and a pair, shows a verdict if that was given on its own group,  *)
(* certain only from the floor up, and says what its own group grew from;  *)
(* a new group of a triaged section without one is counted as untriaged.   *)
VerdictsOwn(d, s) ==
    LET own(n, v) == v # None =>
          /\ v.confidence = d.groups[n].says.confidence
          /\ v.level = IF v.confidence < d.floor THEN None ELSE d.groups[n].says.level
    IN /\ \A k \in DOMAIN s.rows : LET r == s.rows[k] IN
            /\ own(r.group, r.verdict)
            /\ r.from > 0 => r.from = d.groups[r.group].from
       /\ s.pairs # <<>> => \A p \in DOMAIN s.pairs : s.pairs[p] # None =>
            \E n \in DOMAIN d.groups : p \subseteq ToSet(d.groups[n].members) /\ own(n, s.pairs[p])

(* The section's numbers add up: the rows and those left out to the        *)
(* heading, with the unchanged ones to the groups found, the verdicts of   *)
(* the summary line and the untriaged to the heading too; and a section    *)
(* that is silent leaves out no new group and no resolved one.             *)
CountsAddUp(d, s) ==
    LET unasked == Len(d.groups) - Len(Asked(d))
        told == IF s.summary = None THEN 0
                ELSE SumFunction(s.summary)
    IN /\ s.says = "nothing" /\ d.enabled => NothingNew(d)
       /\ s.says \in {"none found", "none new"} => Asked(d) = <<>>
       /\ s.says \in {"groups", "table", "data"} =>
            /\ Len(s.rows) + s.more = s.of
            /\ \A k \in DOMAIN s.rows :
                 s.rows[k].named + s.rows[k].more = Len(d.groups[s.rows[k].group].members)
       /\ s.says = "table" =>
            /\ s.of + s.unchanged = Len(d.groups) /\ s.unchanged = unasked
            /\ s.summary # None => told + s.untriaged = s.of
       /\ s.says \in {"groups", "data"} /\ (\E k \in DOMAIN s.rows : s.rows[k].verdict # None) =>
            Cardinality({k \in DOMAIN s.rows : s.rows[k].verdict # None}) + s.untriaged + unasked = s.of
=============================================================================
