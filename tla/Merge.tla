------------------------------- MODULE Merge --------------------------------
(***************************************************************************)
(* How the functions of a run get their coverage: src/coverage.rs          *)
(* (parse_lcov, merge_from, the two readings of a span) and src/merge.rs   *)
(* (PathIndex and merge), with the score of src/score.rs.                  *)
(*                                                                         *)
(* A path is the sequence of its components as Rust's `components' gives   *)
(* them, which is also what two PathBufs are compared by: an absolute path *)
(* begins with "/", and only a leading "." is one.  Parsing the report is  *)
(* a step per record, indexing it a step per spelling in any order (it     *)
(* goes through a HashMap), merging a step per function.                   *)
(***************************************************************************)
EXTENDS Integers, Sequences, FiniteSets, SequencesExt

CONSTANTS Names,       \* the components of paths
          Spellings,   \* the paths SF records may declare
          Files,       \* the paths of analysed files
          Canonical,   \* what canonicalize gives for each of these
          NoFile,      \* ... where there is no such file
          Lines,       \* line numbers
          NoData,      \* a line without a DA record
          MaxHits,     \* u64::MAX
          Unknown,     \* the coverage of a file the report does not mention
          Inputs       \* the reports, functions and policies of the runs

Records == [kind : {"SF"}, path : Spellings]
           \cup [kind : {"DA"}, line : Lines, count : 0 .. MaxHits]
           \cup [kind : {"end", "other", "bad"}]
FunctionsOf == {f \in [file : Files, first : Lines, last : Lines, cyclomatic : Nat] :
                  f.first <= f.last}
Policies == {"pessimistic", "optimistic", "skip"}

ASSUME PathsAssumption ==
    /\ Spellings \subseteq Seq(Names) /\ Files \subseteq Seq(Names) /\ IsFiniteSet(Files)
    /\ \A p \in Spellings \cup Files : \A k \in 2 .. Len(p) : p[k] \notin {"/", "."}
    /\ Canonical \in [Spellings \cup Files -> Seq(Names) \cup {NoFile}]
    /\ NoFile \notin Seq(Names)
ASSUME NumbersAssumption ==
    /\ Lines \subseteq Nat /\ MaxHits \in Nat /\ NoData \notin Nat
    /\ Unknown \notin Nat \X Nat
ASSUME InputsAssumption ==
    \A i \in Inputs : /\ i.report \in Seq(Records)
                      /\ i.functions \in Seq(FunctionsOf)
                      /\ i.policy \in Policies

VARIABLES input,        \* the report, the analysed functions and the policy
          pc,           \* "parsing", "indexing", "merging", "done", "failed"
          pos,          \* the record or the function next in line
          current,      \* the section a DA record belongs to, or NoFile
          declared,     \* the spellings the report has declared
          counted,      \* the hits recorded under each
          todo,         \* the spellings not indexed yet
          by_absolute,  \* the index's entry of each real path
          by_relative,  \* ... and of each tail
          rows,         \* the entries, in the order of the functions
          mapped,       \* the files some look-up found coverage for
          seen,         \* the files looked up
          used,         \* the spellings behind what was found
          result        \* what merge returns

vars == <<input, pc, pos, current, declared, counted, todo, by_absolute,
          by_relative, rows, mapped, seen, used, result>>
parser == <<current, declared, counted>>
index == <<by_absolute, by_relative>>
merged == <<rows, mapped, seen, used, result>>

-----------------------------------------------------------------------------
(* Paths *)

Absolute(p) == p # <<>> /\ Head(p) = "/"

(* fast_path_key: an absolute path of a file there is; a relative one is   *)
(* never looked for on disk.                                               *)
FastPath(s) == Absolute(s) /\ Canonical[s] # NoFile

(* normalized: without the leading "." of `./src/lib.rs'. *)
Normalized(p) == IF p # <<>> /\ Head(p) = "." THEN Tail(p) ELSE p

(* path_has_suffix *)
HasSuffix(path, needle) ==
    /\ Len(needle) <= Len(path)
    /\ \A k \in 1 .. Len(needle) : path[Len(path) - Len(needle) + k] = needle[k]

RealPaths == {Canonical[s] : s \in Spellings} \ {NoFile}
Needles == {Normalized(s) : s \in Spellings} \ {<<>>}

-----------------------------------------------------------------------------
(* Line data: the hits of each line, NoData where none are recorded.       *)

NoLines == [l \in Lines |-> NoData]
LineData == [Lines -> 0 .. MaxHits \cup {NoData}]
Vacant == [spellings |-> {}, lines |-> NoLines]

(* The addition of the parser, on u64 in a release build, and that of      *)
(* merge_from.                                                             *)
Wrapping(m, n) == (m + n) % (MaxHits + 1)
Saturating(m, n) == IF m + n > MaxHits THEN MaxHits ELSE m + n

(* FileCoverage::merge_from *)
MergeFrom(mine, other) ==
    [l \in Lines |-> IF other[l] = NoData THEN mine[l]
                     ELSE IF mine[l] = NoData THEN other[l]
                     ELSE Saturating(mine[l], other[l])]

(* A slip: the spelling indexed last takes the entry. *)
InsertOrMerge_LastWins(entry, s) ==
    [spellings |-> entry.spellings \cup {s}, lines |-> counted[s]]

(* insert_or_merge: of one spelling, or added to those there.              *)
InsertOrMerge(entry, s) ==
    [spellings |-> entry.spellings \cup {s}, lines |-> MergeFrom(entry.lines, counted[s])]

Instrumented(lines, first, last) == {l \in Lines : first <= l /\ l <= last /\ lines[l] # NoData}

(* coverage_in_span: the share of instrumented lines that were hit, all of *)
(* it where there are none.                                                *)
CoverageInSpan(lines, first, last) ==
    LET all == Instrumented(lines, first, last) IN
    IF all = {} THEN <<1, 1>>
                ELSE <<Cardinality({l \in all : lines[l] > 0}), Cardinality(all)>>

(* One line of uncovered_ranges_in_span: a line not hit starts or extends  *)
(* the run in progress, a hit one ends it.                                 *)
ExtendRun(lines, runs, l) ==
    IF lines[l] = 0
      THEN [runs EXCEPT !.open = <<[start |-> IF @ = <<>> THEN l ELSE @[1].start, end |-> l]>>]
      ELSE [closed |-> runs.closed \o runs.open, open |-> <<>>]

UncoveredRanges(lines, first, last) ==
    LET runs[l \in first - 1 .. last] ==
          IF l < first THEN [closed |-> <<>>, open |-> <<>>]
          ELSE IF l \in Lines /\ lines[l] # NoData THEN ExtendRun(lines, runs[l - 1], l)
          ELSE runs[l - 1]
    IN runs[last].closed \o runs[last].open

(* crap(cyclomatic, coverage), times the cube of the coverage's second     *)
(* number: c^2 (1 - cov)^3 + c.                                            *)
Cube(n) == n * n * n
Crap(c, cov) == c * c * Cube(cov[2] - cov[1]) + c * Cube(cov[2])

-----------------------------------------------------------------------------
Init ==
    /\ input \in Inputs
    /\ pc = "parsing" /\ pos = 1
    /\ current = NoFile /\ declared = {}
    /\ counted = [s \in Spellings |-> NoLines]
    /\ todo = {}
    /\ by_absolute = [p \in RealPaths |-> Vacant]
    /\ by_relative = [n \in Needles |-> Vacant]
    /\ rows = <<>> /\ mapped = {} /\ seen = {} /\ used = {}
    /\ result = Unknown

-----------------------------------------------------------------------------
(* parse_lcov *)

Record == input.report[pos]
NextIs(kinds) == pc = "parsing" /\ pos <= Len(input.report) /\ Record.kind \in kinds

SourceFile ==
    /\ NextIs({"SF"})
    /\ current' = Record.path
    /\ declared' = declared \cup {Record.path}
    /\ pos' = pos + 1
    /\ UNCHANGED <<input, pc, counted, todo, index, merged>>

(* The hits of a line given twice are added; a DA record outside a section *)
(* says nothing.                                                           *)
CountLine ==
    /\ NextIs({"DA"})
    /\ LET l == Record.line
           add(n) == IF n = NoData THEN Record.count ELSE Wrapping(n, Record.count)
       IN counted' = IF current = NoFile THEN counted
                     ELSE [counted EXCEPT ![current][l] = add(@)]
    /\ pos' = pos + 1
    /\ UNCHANGED <<input, pc, current, declared, todo, index, merged>>

EndOfRecord ==
    /\ NextIs({"end"})
    /\ current' = NoFile
    /\ pos' = pos + 1
    /\ UNCHANGED <<input, pc, declared, counted, todo, index, merged>>

(* Records of other kinds, the lcov crate knows or not, are passed over. *)
OtherRecord ==
    /\ NextIs({"other"})
    /\ pos' = pos + 1
    /\ UNCHANGED <<input, pc, parser, todo, index, merged>>

(* One that cannot be read fails the run. *)
BadRecord ==
    /\ NextIs({"bad"})
    /\ pc' = "failed"
    /\ UNCHANGED <<input, pos, parser, todo, index, merged>>

EndOfReport ==
    /\ pc = "parsing" /\ pos > Len(input.report)
    /\ pc' = "indexing" /\ pos' = 1 /\ todo' = declared
    /\ UNCHANGED <<input, parser, index, merged>>

-----------------------------------------------------------------------------
(* PathIndex::build *)

IndexAbsolute(s) ==
    /\ pc = "indexing" /\ s \in todo /\ FastPath(s)
    /\ by_absolute' = [by_absolute EXCEPT ![Canonical[s]] = InsertOrMerge(@, s)]
    /\ todo' = todo \ {s}
    /\ UNCHANGED <<input, pc, pos, parser, by_relative, merged>>

IndexTail(s) ==
    /\ pc = "indexing" /\ s \in todo /\ ~FastPath(s) /\ Normalized(s) # <<>>
    /\ by_relative' = [by_relative EXCEPT ![Normalized(s)] = InsertOrMerge(@, s)]
    /\ todo' = todo \ {s}
    /\ UNCHANGED <<input, pc, pos, parser, by_absolute, merged>>

(* A spelling without a component is kept out: it would match every file. *)
IndexNothing(s) ==
    /\ pc = "indexing" /\ s \in todo /\ ~FastPath(s) /\ Normalized(s) = <<>>
    /\ todo' = todo \ {s}
    /\ UNCHANGED <<input, pc, pos, parser, index, merged>>

EndIndex ==
    /\ pc = "indexing" /\ todo = {}
    /\ pc' = "merging"
    /\ UNCHANGED <<input, pos, parser, todo, index, merged>>

-----------------------------------------------------------------------------
(* PathIndex::lookup *)

Direct(f) == Canonical[f] \in RealPaths /\ by_absolute[Canonical[f]].spellings # {}
Tails(f) == {n \in Needles : by_relative[n].spellings # {} /\ HasSuffix(f, n)}
Longest(f) == {n \in Tails(f) : \A m \in Tails(f) : Len(m) <= Len(n)}

(* What a look-up may return: of several longest tails, max_by_key gives   *)
(* the one the vector happens to have last.                                *)
Hits(f) == IF Direct(f) THEN {by_absolute[Canonical[f]]}
                        ELSE {by_relative[n] : n \in Longest(f)}

(* merge, one function. *)
Scored(f, hit) ==
    [function |-> f,
     coverage |-> CoverageInSpan(hit.lines, f.first, f.last),
     uncovered |-> UncoveredRanges(hit.lines, f.first, f.last),
     scored |-> CoverageInSpan(hit.lines, f.first, f.last)]

(* MissingCoveragePolicy: scored as if nothing or everything were covered, *)
(* or left out.                                                            *)
Unmapped(f) ==
    LET as(cov) == [function |-> f, coverage |-> Unknown,
                    uncovered |-> <<>>, scored |-> cov]
    IN CASE input.policy = "pessimistic" -> <<as(<<0, 1>>)>>
         [] input.policy = "optimistic" -> <<as(<<1, 1>>)>>
         [] input.policy = "skip" -> <<>>

(* A slip: only one of the spellings behind an entry counts as used. *)
Consumed_One(hit) == {CHOOSE s \in hit.spellings : TRUE}

(* The spellings a look-up consumes. *)
Consumed(hit) == hit.spellings

Found ==
    /\ pc = "merging" /\ pos <= Len(input.functions)
    /\ LET f == input.functions[pos] IN
         \E hit \in Hits(f.file) :
           /\ rows' = Append(rows, Scored(f, hit))
           /\ mapped' = mapped \cup {f.file}
           /\ seen' = seen \cup {f.file}
           /\ used' = used \cup Consumed(hit)
    /\ pos' = pos + 1
    /\ UNCHANGED <<input, pc, parser, todo, index, result>>

(* The file counts as analysed even where its functions are left out; but  *)
(* without a report there is nothing to diagnose.                          *)
NotFound ==
    /\ pc = "merging" /\ pos <= Len(input.functions)
    /\ LET f == input.functions[pos] IN
         /\ Hits(f.file) = {}
         /\ rows' = rows \o Unmapped(f)
         /\ seen' = IF declared = {} THEN seen ELSE seen \cup {f.file}
    /\ pos' = pos + 1
    /\ UNCHANGED <<input, pc, parser, todo, index, mapped, used, result>>

(* The rows by descending score, equal ones in the order they came. *)
Above(i, j) ==
    LET x == Crap(rows[i].function.cyclomatic, rows[i].scored) * Cube(rows[j].scored[2])
        y == Crap(rows[j].function.cyclomatic, rows[j].scored) * Cube(rows[i].scored[2])
    IN x > y \/ (x = y /\ i < j)
Ranked == [k \in DOMAIN rows |->
              rows[CHOOSE i \in DOMAIN rows :
                     Cardinality({j \in DOMAIN rows : Above(j, i)}) = k - 1]]

Finish ==
    /\ pc = "merging" /\ pos > Len(input.functions)
    /\ result' = [entries |-> Ranked,
                  diagnostics |->
                    IF declared = {} THEN Unknown
                    ELSE [analyzed |-> Cardinality(seen), lcov |-> Cardinality(declared),
                          matched |-> Cardinality(mapped),
                          source_only |-> seen \ mapped, lcov_only |-> declared \ used]]
    /\ pc' = "done"
    /\ UNCHANGED <<input, pos, parser, todo, index, rows, mapped, seen, used>>

Parse == SourceFile \/ CountLine \/ EndOfRecord \/ OtherRecord \/ BadRecord \/ EndOfReport
Index == (\E s \in Spellings : IndexAbsolute(s) \/ IndexTail(s) \/ IndexNothing(s)) \/ EndIndex
Next == Parse \/ Index \/ Found \/ NotFound \/ Finish

Spec == Init /\ [][Next]_vars

-----------------------------------------------------------------------------
Entry == [spellings : SUBSET Spellings, lines : LineData]

TypeOK ==
    /\ input \in Inputs
    /\ pc \in {"parsing", "indexing", "merging", "done", "failed"}
    /\ pos \in Nat \ {0}
    /\ current \in Spellings \cup {NoFile}
    /\ declared \subseteq Spellings /\ todo \subseteq declared
    /\ counted \in [Spellings -> LineData]
    /\ by_absolute \in [RealPaths -> Entry]
    /\ by_relative \in [Needles -> Entry]
    /\ mapped \subseteq Files /\ seen \subseteq Files /\ used \subseteq Spellings

-----------------------------------------------------------------------------
(* What the report says, read from the records alone. *)

Report == input.report
SectionOf(i) == {j \in 1 .. i - 1 : /\ Report[j].kind = "SF"
                                    /\ \A k \in j + 1 .. i - 1 : Report[k].kind \notin {"SF", "end"}}
Declared == {Report[i].path : i \in {j \in DOMAIN Report : Report[j].kind = "SF"}}
Counts(s, l) == {i \in DOMAIN Report : /\ Report[i].kind = "DA" /\ Report[i].line = l
                                       /\ \E j \in SectionOf(i) : Report[j].path = s}

(* The spellings that speak for a file: those of the very file if there    *)
(* are any, or those of the longest tail of its path.  A relative spelling *)
(* is a tail, wherever the program runs.                                   *)
Named(s) == Absolute(s) /\ Canonical[s] # NoFile
Aliases(f) == {s \in Declared : Named(s) /\ Canonical[s] = Canonical[f]}
Endings(f) == {s \in Declared : ~Named(s) /\ Normalized(s) # <<>> /\ HasSuffix(f, Normalized(s))}
Speaking(f) ==
    IF Aliases(f) # {} THEN Aliases(f)
    ELSE {s \in Endings(f) : \A t \in Endings(f) : Len(Normalized(t)) <= Len(Normalized(s))}

(* The hits of a line of a file: u64 sums within a spelling, which wrap,   *)
(* and the sum over the spellings, which does not.                         *)
SumOver(I) == SumFunction([i \in I |-> Report[i].count]) % (MaxHits + 1)
HitsUnder(S, l) ==
    LET T == {s \in S : Counts(s, l) # {}}
        all == SumFunction([s \in T |-> SumOver(Counts(s, l))])
    IN IF T = {} THEN NoData ELSE IF all > MaxHits THEN MaxHits ELSE all
HitsOf(f, l) == HitsUnder(Speaking(f), l)

Span(g) == {l \in Lines : g.first <= l /\ l <= g.last}
HitIn(g) == {l \in Span(g) : HitsOf(g.file, l) # NoData /\ HitsOf(g.file, l) > 0}
UnhitIn(g) == {l \in Span(g) : HitsOf(g.file, l) = 0}

Entries == {result.entries[i] : i \in DOMAIN result.entries}
Analysed == {input.functions[i].file : i \in DOMAIN input.functions}

(* "Identical inputs must produce identical scores": whatever order the    *)
(* hash map is walked in, a function's coverage is what the report says of *)
(* its lines under every spelling that speaks for its file, and it has a   *)
(* row unless nothing does and the policy is to skip it.                   *)
CoverageIsTheReports ==
    pc = "done" =>
        \A i \in DOMAIN input.functions :
            LET g == input.functions[i]
                own == {e \in Entries : e.function = g}
                all == HitIn(g) \cup UnhitIn(g)
            IN IF Speaking(g.file) = {}
                 THEN IF input.policy = "skip" THEN own = {}
                      ELSE own # {} /\ \A e \in own : e.coverage = Unknown
                 ELSE own # {} /\ \A e \in own :
                        e.coverage = IF all = {} THEN <<1, 1>>
                                     ELSE <<Cardinality(HitIn(g)), Cardinality(all)>>

(* A row's ranges are "maximal runs of uncovered instrumented lines": each *)
(* begins and ends with a line that was not hit, holds none that was, no   *)
(* two could be one, and every line not hit is in one of them.  So they    *)
(* are empty just where the coverage is full or unknown.                   *)
RangesExact ==
    pc = "done" =>
        \A e \in Entries :
            LET g == e.function
                r == e.uncovered
                inside(l, k) == r[k].start <= l /\ l <= r[k].end
            IN IF e.coverage = Unknown THEN r = <<>>
               ELSE /\ \A k \in DOMAIN r : {r[k].start, r[k].end} \subseteq UnhitIn(g)
                    /\ \A l \in HitIn(g) : \A k \in DOMAIN r : ~inside(l, k)
                    /\ \A l \in UnhitIn(g) : \E k \in DOMAIN r : inside(l, k)
                    /\ \A k \in 1 .. Len(r) - 1 :
                         \E l \in HitIn(g) : r[k].end < l /\ l < r[k + 1].start
                    /\ r = <<>> <=> e.coverage[1] = e.coverage[2]

(* The rows tell what the report says: coverage and ranges agree with it,  *)
(* and so with each other (merge, uncovered_ranges_in).                    *)
EntriesTell == CoverageIsTheReports /\ RangesExact

(* warn_scope_mismatch, by the first line that scope_warning_lead picks,   *)
(* of the diagnostics there are: silent when the two scopes are the same.  *)
Warning(d) ==
    IF d.source_only = {} /\ d.lcov_only = {} THEN "silent"
    ELSE IF d.matched = 0 THEN "no overlap"
    ELSE IF 2 * d.matched < d.analyzed THEN "little overlap" ELSE "mismatch"

(* The diagnostics are about the report and the files, not about how they  *)
(* were indexed: a spelling is a stray just when it speaks for no analysed *)
(* file ("an alias of a matched file" is none), a file just when nothing   *)
(* speaks for it, its functions skipped or not, and the counts add up.  So *)
(* the warning is silent just when both sides are accounted for, and says  *)
(* that nothing overlaps just when no spelling speaks for any file.        *)
StraysComplete ==
    pc = "done" =>
        LET d == result.diagnostics IN
        IF Declared = {} THEN d = Unknown
        ELSE /\ d.lcov_only = {s \in Declared : \A f \in Analysed : s \notin Speaking(f)}
             /\ d.source_only = {f \in Analysed : Speaking(f) = {}}
             /\ d.analyzed = d.matched + Cardinality(d.source_only)
             /\ d.analyzed = Cardinality(Analysed) /\ d.lcov = Cardinality(Declared)
             /\ Warning(d) = "silent" <=>
                  /\ \A f \in Analysed : Speaking(f) # {}
                  /\ \A s \in Declared : \E f \in Analysed : s \in Speaking(f)
             /\ Warning(d) = "no overlap" <=> \A f \in Analysed : Speaking(f) = {}

(* "That maximum is unique by construction": no look-up has a choice.      *)
NoChoice == \A f \in Files : \A m, n \in Longest(f) : m = n

-----------------------------------------------------------------------------
(* What makes StraysComplete inductive.  The spellings declared are those  *)
(* of the records read ...                                                 *)
Read == IF pc \in {"parsing", "failed"} THEN {i \in DOMAIN Report : i < pos} ELSE DOMAIN Report
ParsedSoFar == declared = {Report[i].path : i \in {j \in Read : Report[j].kind = "SF"}}

(* ... an entry of the index is fed by the spellings indexed so far that   *)
(* share its key, whichever order they came in ...                         *)
Indexed == IF pc \in {"parsing", "failed"} THEN {} ELSE declared \ todo
IndexHolds ==
    /\ \A p \in RealPaths :
         by_absolute[p].spellings = {s \in Indexed : Named(s) /\ Canonical[s] = p}
    /\ \A n \in Needles :
         by_relative[n].spellings = {s \in Indexed : ~Named(s) /\ Normalized(s) = n}
    /\ pc \in {"merging", "done"} => todo = {}

(* ... and the three sets merge keeps are about the files looked up.       *)
LookedUp ==
    IF pc \in {"merging", "done"}
      THEN {input.functions[i].file : i \in {j \in DOMAIN input.functions : j < pos}} ELSE {}
MergedSoFar ==
    /\ pc = "indexing" => pos = 1
    /\ seen = IF declared = {} THEN {} ELSE LookedUp
    /\ mapped = {f \in LookedUp : Speaking(f) # {}}
    /\ used = UNION {Speaking(f) : f \in LookedUp}
    /\ pc = "done" =>
         /\ pos > Len(input.functions)
         /\ result.diagnostics =
              IF declared = {} THEN Unknown
              ELSE [analyzed |-> Cardinality(seen), lcov |-> Cardinality(declared),
                    matched |-> Cardinality(mapped),
                    source_only |-> seen \ mapped, lcov_only |-> declared \ used]

IInv == TypeOK /\ ParsedSoFar /\ IndexHolds /\ MergedSoFar

(* What makes EntriesTell inductive.  Under each spelling a line has what  *)
(* the records read so far add up to ...                                   *)
LinesRead ==
    /\ pc = "parsing" => /\ \A j \in SectionOf(pos) : current = Report[j].path
                         /\ SectionOf(pos) = {} => current = NoFile
    /\ \A s \in Spellings, l \in Lines :
         LET I == Counts(s, l) \cap Read
         IN counted[s][l] = IF I = {} THEN NoData ELSE SumOver(I)

(* ... in an entry of the index what the spellings it was fed by add up to *)
(* by the report, in whatever order they came ...                          *)
LinesIndexed ==
    /\ \A p \in RealPaths, l \in Lines :
         by_absolute[p].lines[l] = HitsUnder(by_absolute[p].spellings, l)
    /\ \A n \in Needles, l \in Lines :
         by_relative[n].lines[l] = HitsUnder(by_relative[n].spellings, l)

(* ... and the rows are about the functions looked up, in their order, and *)
(* read off the lines of what speaks for their files.                      *)
LinesOf(f) == [l \in Lines |-> HitsOf(f, l)]
Tells(r, g) ==
    /\ r.function = g
    /\ IF Speaking(g.file) = {}
         THEN /\ input.policy # "skip"
              /\ r.coverage = Unknown /\ r.uncovered = <<>>
              /\ r.scored \in {<<0, 1>>, <<1, 1>>}
         ELSE /\ r.coverage = CoverageInSpan(LinesOf(g.file), g.first, g.last)
              /\ r.uncovered = UncoveredRanges(LinesOf(g.file), g.first, g.last)
              /\ r.scored = r.coverage
Passed == IF pc \in {"merging", "done"} THEN {i \in DOMAIN input.functions : i < pos} ELSE {}
RowsRead ==
    /\ rows \in Seq(ToSet(rows))
    /\ \A k \in DOMAIN rows : \E i \in Passed : Tells(rows[k], input.functions[i])
    /\ \A i \in Passed :
         \/ input.policy = "skip" /\ Speaking(input.functions[i].file) = {}
         \/ \E k \in DOMAIN rows : rows[k].function = input.functions[i]
    /\ pc = "done" => Passed = DOMAIN input.functions /\ result.entries = Ranked

EntriesInv == LinesRead /\ LinesIndexed /\ RowsRead
=============================================================================
