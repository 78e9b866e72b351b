------------------------------- MODULE Report -------------------------------
(***************************************************************************)
(* src/main.rs `do_render' and src/report/*: what one run writes of the    *)
(* functions it measured.  With a baseline every function gets a status    *)
(* and its reasons, the whole comparison is counted, the rows are narrowed *)
(* to the slice, and one of seven formats says how things stand, in        *)
(* sections that may be capped.  DupSection has what follows the table,    *)
(* Layout the widths of the human tables.                                  *)
(*                                                                         *)
(* A function's `key' is its place in (file, function, line) order, which  *)
(* is also the order of the analysis; Delta has the pairing with `old'.    *)
(***************************************************************************)
EXTENDS Paths, Layout, Orders, SequencesExt

CONSTANTS Inputs,        \* families of what is reported and how: [q, now, gone, dups]
          SignalOrder,   \* Signal::ALL
          Counts,        \* the signals that count sites
          HotSpots,      \* HOT_SPOTS of the human table
          MaxRows,       \* MAX_ROWS_PER_SECTION of the PR comment
          Named          \* NAMED of a duplicate group's row

(* FormatArg and SortOrder. *)
Formats == {"human", "json", "github", "markdown", "pr-comment", "sarif", "shields"}
Sorts == {"crap", "file"}

ASSUME CapsAssumption == HotSpots \in Nat /\ MaxRows \in Nat \ {0} /\ Named \in Nat
ASSUME SignalsAssumption == SignalOrder \in Seq(STRING \ {"crap"})
ASSUME NoneAssumption == None \notin Nat

D == INSTANCE DupSection

(* Paths: only the first component may be the root.  A directory is named  *)
(* from the root, and no file is the directory the run is in or about.     *)
IsPath(x) == x \in Seq(STRING) /\ x # <<>> /\ \A k \in DOMAIN x : x[k] = "/" => k = 1
IsDirectory(x) == IsPath(x) /\ x[1] = "/"
IsFile(x, s) == IsPath(x) /\ x # s.cwd /\ x # s.workspace

(* What there is to report.  Two functions are two places in the order,    *)
(* and so are two of those that are gone.                                  *)
IsInput(i) ==
    /\ i.q.format \in Formats /\ i.q.sort \in Sorts
    /\ i.q.threshold \in Nat /\ i.q.epsilon \in Nat
    /\ i.q.min \in Nat \cup {None} /\ i.q.top \in Nat \cup {None}
    /\ IsFiniteSet(i.now) /\ \A f \in i.now : f.key \in Nat /\ f.crap \in Nat
    /\ \A f \in i.now : f.old # None => f.old.crap \in Nat
    /\ \A f, g \in i.now : f.key = g.key => f = g
    /\ i.gone \in Seq(ToSet(i.gone)) /\ \A k \in DOMAIN i.gone : i.gone[k].key \in Nat /\ i.gone[k].crap \in Nat
    /\ \A j, k \in DOMAIN i.gone : i.gone[j].key = i.gone[k].key => j = k
    /\ IsDirectory(i.q.cwd) /\ (i.q.workspace # None => IsDirectory(i.q.workspace))
    /\ \A f \in i.now : IsFile(f.file, i.q) /\ (f.previous # None => IsFile(f.previous, i.q))
    /\ \A k \in DOMAIN i.gone : IsFile(i.gone[k].file, i.q)
    /\ \A f \in i.now : IsText(f.text)
    /\ i.q.width \in Nat \cup {None} /\ i.q.delta \in Nat /\ i.q.hints \in BOOLEAN
    /\ D!IsResult(i.dups)

ASSUME InputsAssumption == \A n \in DOMAIN Inputs : \A i \in Inputs[n] : IsInput(i)

VARIABLES in,        \* the settings, the functions and the duplicates
          pc,        \* "compare", "narrow", "write", "append", "done", "failed"
          rows,      \* the rows, in order
          removed,   \* the baseline's functions that are gone, in order
          counts,    \* DeltaReport::counts, of the whole comparison
          gates,     \* gating_signal_count, of the whole comparison
          tripped,   \* has_regression
          page,      \* what render, render_delta or the summary wrote
          section    \* what render_duplicates wrote

vars == <<in, pc, rows, removed, counts, gates, tripped, page, section>>

(* RenderOptions, and what of the settings decides rows, gate and format. *)
q == in.q

-----------------------------------------------------------------------------
(* Rows, their statuses and their reasons (src/delta.rs).                  *)
Higher(a, b) == a.crap > b.crap \/ (a.crap = b.crap /\ a.key < b.key)
Earlier(a, b) == a.key < b.key
Ordered(fs) == IF q.sort = "file" THEN Ranked(fs, Earlier) ELSE Ranked(fs, Higher)
First(s, n) == SubSeq(s, 1, IF n = None \/ n > Len(s) THEN Len(s) ELSE n)
Crappy(f) == f.crap > q.threshold

(* slice_of and shown_rows: the scores from `min' up, the `top' highest. *)
Sliced == q.min # None \/ q.top # None
High == Ranked({f \in in.now : q.min = None \/ f.crap >= q.min}, Higher)
Shown == ToSet(First(High, q.top))

(* classify_score, and apply_move_pairing for a function that moved. *)
Status(f) ==
    IF f.old = None THEN "new"
    ELSE IF f.crap - f.old.crap > q.epsilon THEN "regressed"
    ELSE IF f.old.crap - f.crap > q.epsilon THEN "improved"
    ELSE IF f.previous # None THEN "moved" ELSE "unchanged"

(* reasons_for: a signal is measured against the partner's record, or for  *)
(* a new function its sites against zero and its shape against a limit.    *)
BaselineHasSignals ==
    \/ \E f \in in.now : f.old # None /\ f.old.signals # None
    \/ \E g \in ToSet(in.gone) : g.signals # None
Found(f, s) ==
    IF f.old # None THEN f.old.signals # None /\ f.signals[s] > f.old.signals[s]
    ELSE IF s \in Counts THEN f.signals[s] > 0
    ELSE q.limits[s] # None /\ f.signals[s] > q.limits[s]
Gating(f, s) == s \in q.gate \/ (f.old = None /\ s \notin Counts)
Reason(about, gating) == [about |-> about, gating |-> gating]
Reasons(f) ==
    IF f.signals = None THEN <<>>
    ELSE (IF Status(f) = "regressed" THEN <<Reason("crap", TRUE)>> ELSE <<>>)
         \o LET found == Where(SignalOrder, LAMBDA s : BaselineHasSignals /\ Found(f, s))
            IN [k \in DOMAIN found |-> Reason(found[k], Gating(f, found[k]))]

(* DeltaEntry; without a baseline a row is just its function. *)
Entry(f) == [of |-> f, status |-> IF q.baseline THEN Status(f) ELSE "none",
             reasons |-> IF q.baseline THEN Reasons(f) ELSE <<>>]
Entries(fs) == [k \in 1 .. Len(fs) |-> Entry(fs[k])]

(* DeltaReport::counts. *)
Statuses == {"regressed", "improved", "new", "moved", "unchanged"}
Tally(es, gone) ==
    [s \in Statuses \cup {"removed"} |->
       IF s = "removed" THEN Len(gone) ELSE Cardinality({k \in DOMAIN es : es[k].status = s})]
Empty(c) == \A s \in DOMAIN c : c[s] = 0

(* Where the reasons are: in which row, and where among its own. *)
ReasonPlaces(es) == UNION {{<<k, j>> : j \in DOMAIN es[k].reasons} : k \in DOMAIN es}
ReasonAt(es, p) == es[p[1]].reasons[p[2]]
GatesAsSignal(reason) == reason.gating /\ reason.about # "crap"

(* gating_signal_count, of the rows there are. *)
GatingSignals(es) == Cardinality({p \in ReasonPlaces(es) : GatesAsSignal(ReasonAt(es, p))})

(* reasons::rows: every reason with its row, the gating ones first. *)
ReasonRows(es) ==
    LET gating(p) == ReasonAt(es, p).gating
        sooner(p, r) == p[1] < r[1] \/ (p[1] = r[1] /\ p[2] < r[2])
        above(p, r) == IF gating(p) THEN ~gating(r) \/ sooner(p, r) ELSE ~gating(r) /\ sooner(p, r)
        order == Ranked(ReasonPlaces(es), above)
    IN [k \in DOMAIN order |-> [of |-> es[order[k][1]].of, reason |-> ReasonAt(es, order[k])]]

-----------------------------------------------------------------------------
(* What is written: a verdict, sections of rows with how many more there   *)
(* are, a rollup per crate, and how the rows' files are spelled.           *)
Blank == [rows |-> <<>>, more |-> 0]
All(s) == [rows |-> s, more |-> 0]
Capped(s) == [rows |-> First(s, MaxRows), more |-> Less(Len(s), MaxRows)]
Says(kind, n) == [kind |-> kind, n |-> n]
Names == {"table", "improved", "moved", "hot", "removed", "reasons"}
Page(says, sections) ==
    [says |-> says, sections |-> [n \in Names |-> IF n \in DOMAIN sections THEN sections[n] ELSE Blank]]
Nothing == Page(Says("empty", 0), <<>>)

(* write_human and write_markdown: the reasons are never cut. *)
ReasonSection(es) == All(ReasonRows(es))

CrappyCount(s) == Cardinality({k \in DOMAIN s : Crappy(s[k].of)})
With(s, status) == Where(s, LAMBDA e : e.status = status)

(* crate_rollups: of each crate, how many functions and how many crappy. *)
Crates(s) == {e.of.crate : e \in ToSet(s)} \ {None}
Rollups(s) ==
    [c \in Crates(s) |-> LET its == Where(s, LAMBDA e : e.of.crate = c)
                         IN [total |-> Len(its), crappy |-> CrappyCount(its)]]

(* cap_rows: what is pinned, and the highest of the rest; in input order.  *)
CapRows(s, pinned) ==
    LET others == ToSet(s) \ pinned
        best == ToSet(First(Ranked(others, LAMBDA a, b : Higher(a.of, b.of)), HotSpots))
        kept == Where(s, LAMBDA e : e \in pinned \cup best)
    IN [rows |-> kept, more |-> Len(s) - Len(kept)]

(* The orders of the PR comment, equal ones as they were: the highest      *)
(* scores, and the biggest movers.  What is sorted by is given per place.  *)
Descending(s, by) ==
    LET above(i, j) == by[i] > by[j] \/ (by[i] = by[j] /\ i < j)
        order == Ranked(DOMAIN s, above)
    IN [k \in DOMAIN s |-> s[order[k]]]
ByCrap(s) == Descending(s, [k \in DOMAIN s |-> s[k].of.crap])
ByChange(s) ==
    Descending(s, [k \in DOMAIN s |-> LET f == s[k].of IN
                                      Larger(Less(f.crap, f.old.crap), Less(f.old.crap, f.crap))])

-----------------------------------------------------------------------------
(* render: what each format writes of a run without a baseline.            *)
AboveThreshold(s) == ByCrap(Where(s, LAMBDA e : Crappy(e.of)))
Verdict(s) == IF CrappyCount(s) = 0 THEN Says("clean", 0) ELSE Says("crappy", CrappyCount(s))

Human(s) ==
    IF s = <<>> THEN Nothing
    ELSE Page(Verdict(s), [table |-> CapRows(s, {e \in ToSet(s) : Sliced \/ Crappy(e.of)})])

Json(s, gone) == Page(Says("data", Len(s)), [table |-> All(s), removed |-> All(gone)])

Markdown(s) == IF s = <<>> THEN Nothing ELSE Page(Verdict(s), [table |-> All(s)])

PrComment(s) == IF s = <<>> THEN Nothing ELSE Page(Verdict(s), [table |-> Capped(AboveThreshold(s))])

GitHub(s) == Page(Says("annotations", 0), [table |-> All(Where(s, LAMBDA e : ~(e.of.crap <= q.threshold)))])

Sarif(s) == Page(Says("results", 0), [table |-> All(Where(s, LAMBDA e : Crappy(e.of)))])

(* A slip: a function at the threshold is counted too. *)
Shields_AtThreshold(s) ==
    Page(Says("badge", Len(Where(s, LAMBDA e : e.of.crap >= q.threshold))), <<>>)

Shields(s) == Page(Says("badge", CrappyCount(s)), <<>>)

(* render_summary: its first row is called the worst. *)
Summary(s) ==
    IF CrappyCount(s) = 0 THEN Page(Says("clean", 0), <<>>)
    ELSE Page(Says("crappy", CrappyCount(s)), [table |-> [rows |-> First(s, 1), more |-> Len(s) - 1]])

-----------------------------------------------------------------------------
(* render_delta: what each format writes of a comparison.                  *)
Visible(s) == Where(s, LAMBDA e : q.all \/ e.status # "unchanged")
Quiet(s) == Visible(s) = <<>> /\ removed = <<>>

(* A slip: a regression below the threshold may be capped. *)
DeltaHuman_ThresholdOnly(s) ==
    Page(IF Quiet(s) THEN Says("quiet", 0) ELSE Says("counts", 0),
         [table |-> CapRows(Visible(s), {e \in ToSet(s) : q.all \/ Sliced \/ Crappy(e.of)}),
          removed |-> All(removed), reasons |-> ReasonSection(s)])

DeltaHuman(s) ==
    Page(IF Quiet(s) THEN Says("quiet", 0) ELSE Says("counts", 0),
         [table |-> CapRows(Visible(s), {e \in ToSet(s) :
                              q.all \/ Sliced \/ e.status = "regressed" \/ Crappy(e.of)}),
          removed |-> All(removed), reasons |-> ReasonSection(s)])

(* The headline: regressed scores first, then gated signals of the rows.   *)
Headline(s) ==
    IF counts["regressed"] > 0 THEN Says("regressed", counts["regressed"])
    ELSE IF GatingSignals(s) > 0 THEN Says("signals", GatingSignals(s))
    ELSE Says("ok", 0)

DeltaMarkdown(s) ==
    Page(Headline(s), [table |-> All(Visible(s)), removed |-> All(removed),
                       reasons |-> ReasonSection(s)])

(* DeltaBuckets: the rows by status, each in the order of its section. *)
Buckets(s) ==
    [primary  |-> ByChange(With(s, "regressed")) \o ByCrap(With(s, "new")),
     improved |-> ByChange(With(s, "improved")),
     moved    |-> ByCrap(With(s, "moved")),
     hot      |-> ByCrap(Where(With(s, "unchanged"), LAMBDA e : Crappy(e.of))),
     removed  |-> Descending(removed, [k \in DOMAIN removed |-> removed[k].crap])]

(* The primary table and the folded sections under it, each capped; the    *)
(* reasons are folded but never cut.                                       *)
CommentSections(s) ==
    LET its == Buckets(s) IN
    [table |-> Capped(its.primary), improved |-> Capped(its.improved), moved |-> Capped(its.moved),
     hot |-> Capped(its.hot), removed |-> Capped(its.removed), reasons |-> ReasonSection(s)]
DeltaPrComment(s) == Page(Headline(s), CommentSections(s))

DeltaGitHub(s) ==
    Page(Says("annotations", 0),
         [table |-> All(Where(s, LAMBDA e : \/ e.status = "regressed"
                                            \/ e.status = "new" /\ Crappy(e.of))),
          reasons |-> All(Where(ReasonRows(s), LAMBDA r : GatesAsSignal(r.reason)))])

(* render_delta_summary_lines. *)
DeltaSummary == Page(Says(IF gates > 0 THEN "signals" ELSE "counts", gates), <<>>)

(* effective_summary: --summary leaves the formats for machines alone. *)
Summarised == q.summary /\ q.format \notin {"json", "github"}

Absolute(format, s) ==
    CASE format = "human" -> Human(s)
      [] format = "json" -> Json(s, <<>>)
      [] format = "github" -> GitHub(s)
      [] format = "markdown" -> Markdown(s)
      [] format = "pr-comment" -> PrComment(s)
      [] format = "sarif" -> Sarif(s)
      [] format = "shields" -> Shields(s)
Compared(format, s) ==
    IF format \in {"human", "markdown", "pr-comment"} /\ Empty(counts) THEN Nothing
    ELSE CASE format = "human" -> DeltaHuman(s)
           [] format = "json" -> Json(s, removed)
           [] format = "github" -> DeltaGitHub(s)
           [] format = "markdown" -> DeltaMarkdown(s)
           [] format = "pr-comment" -> DeltaPrComment(s)
           [] format = "shields" -> Shields(s)

-----------------------------------------------------------------------------
(* How the files are spelled (types.rs, pr_comment.rs, links.rs).          *)
Starts(file, dir) == Len(dir) <= Len(file) /\ Root(file, Len(dir)) = dir
Under(file, dir) == IF Starts(file, dir) THEN Below(file, Len(dir)) ELSE file

(* workspace_relative: in workspace mode below the workspace root. *)
Written(file) == IF q.workspace = None THEN file ELSE Under(file, q.workspace)

(* A slip: whole files are compared, not their directories. *)
CommonPrefix_Files(files) ==
    LET most == Max({n \in 0 .. Len(files[1]) :
                       \A k \in DOMAIN files : Starts(files[k], Root(files[1], n))})
    IN IF Len(files) < 2 THEN <<>> ELSE Root(files[1], most)

(* longest_common_path_prefix: of the directories of two files or more. *)
CommonPrefix(files) ==
    LET dir(f) == Root(f, Len(f) - 1)
        most == Max({n \in 0 .. Len(files[1]) - 1 :
                       \A k \in DOMAIN files : Starts(dir(files[k]), Root(files[1], n))})
    IN IF Len(files) < 2 THEN <<>> ELSE Root(files[1], most)

(* compute_render_prefix: without one, the working directory if they are   *)
(* all below it.                                                           *)
RenderPrefix(files) ==
    IF CommonPrefix(files) # <<>> THEN CommonPrefix(files)
    ELSE IF files # <<>> /\ \A k \in DOMAIN files : Starts(files[k], q.cwd) THEN q.cwd ELSE <<>>

(* DeltaBuckets::common_prefix: of every row there is, where it was before *)
(* included, and of what is gone; without a baseline of the crappy rows.   *)
Files(s) ==
    LET moved == Where(s, LAMBDA e : e.status \notin {"none", "new"} /\ e.of.previous # None) IN
    [k \in DOMAIN s |-> Written(s[k].of.file)] \o [k \in DOMAIN moved |-> Written(moved[k].of.previous)]
CommentFiles(s) ==
    IF ~q.baseline THEN Files(AboveThreshold(s))
    ELSE Files(Where(s, LAMBDA e : e.status # "unchanged" \/ Crappy(e.of)))
         \o [k \in DOMAIN removed |-> Written(removed[k].file)]

(* strip_prefix of the comment's locations. *)
Place(file) == Under(file, RenderPrefix(CommentFiles(rows)))

Absolutely(file) == file # <<>> /\ file[1] = "/"

(* linkify and link_path: a written file, put back below the workspace,    *)
(* is linked if it is below the working directory.                         *)
Joined(file) == IF Absolutely(file) \/ q.workspace = None THEN file ELSE q.workspace \o file
Link(file) ==
    IF ~Absolutely(Joined(file)) THEN Joined(file)
    ELSE IF Starts(Joined(file), q.cwd) THEN Below(Joined(file), Len(q.cwd)) ELSE None

-----------------------------------------------------------------------------
(* The steps of a run, from do_render.                                     *)
Init ==
    /\ \E n \in DOMAIN Inputs : in \in Inputs[n]
    /\ pc = "compare" /\ rows = <<>> /\ removed = <<>>
    /\ counts = Tally(<<>>, <<>>) /\ gates = 0 /\ tripped = FALSE
    /\ page = None /\ section = None

(* compute_delta, attach_reasons, and the counts and the gate, which are   *)
(* taken of the whole comparison.                                          *)
Compare ==
    /\ pc = "compare"
    /\ rows' = Entries(Ranked(in.now, Higher))
    /\ removed' = IF q.baseline THEN in.gone ELSE <<>>
    /\ counts' = Tally(rows', removed')
    /\ gates' = GatingSignals(rows')
    /\ tripped' = (counts'["regressed"] + gates' > 0)
    /\ pc' = "narrow"
    /\ UNCHANGED <<in, page, section>>

(* DeltaReport::sort: what is gone has an order of its own under `file',   *)
(* and stays as the baseline had it under `crap'.                          *)
Sorted(gone) == IF q.sort = "file" THEN Ranked(ToSet(gone), Earlier) ELSE gone

(* A slip: the counts are taken of the rows shown. *)
Narrow_Recounted ==
    /\ pc = "narrow"
    /\ rows' = Entries(Ordered(Shown))
    /\ removed' = Sorted(removed)
    /\ counts' = Tally(rows', removed')
    /\ pc' = "write"
    /\ UNCHANGED <<in, gates, tripped, page, section>>

(* restrict_to and sort: the rows of the slice, in the order asked for;    *)
(* what is gone stays.                                                     *)
Narrow ==
    /\ pc = "narrow"
    /\ rows' = Entries(Ordered(Shown))
    /\ removed' = Sorted(removed)
    /\ pc' = "write"
    /\ UNCHANGED <<in, counts, gates, tripped, page, section>>

(* render, render_delta or a summary.  SARIF has no comparison.            *)
Rendered ==
    IF Summarised THEN (IF q.baseline THEN DeltaSummary ELSE Summary(rows))
    ELSE IF q.baseline THEN Compared(q.format, rows) ELSE Absolute(q.format, rows)
Write ==
    /\ pc = "write"
    /\ ~(q.baseline /\ ~Summarised /\ q.format = "sarif")
    /\ page' = Rendered
    /\ pc' = "append"
    /\ UNCHANGED <<in, rows, removed, counts, gates, tripped, section>>
Bail ==
    /\ pc = "write" /\ q.baseline /\ ~Summarised /\ q.format = "sarif"
    /\ pc' = "failed"
    /\ UNCHANGED <<in, rows, removed, counts, gates, tripped, page, section>>

(* render_duplicates, after whichever was written. *)
Duplicates ==
    /\ pc = "append"
    /\ section' = D!Section(in.dups, q.format)
    /\ pc' = "done"
    /\ UNCHANGED <<in, rows, removed, counts, gates, tripped, page>>

Next == Compare \/ Narrow \/ Write \/ Bail \/ Duplicates
Spec == Init /\ [][Next]_vars

-----------------------------------------------------------------------------
(* Sections of a written comparison: what they show, and what is left out  *)
(* of each.                                                                *)
Lists == <<"table", "improved", "moved", "hot">>
Told(p) == UNION {ToSet(p.sections[Lists[k]].rows) : k \in DOMAIN Lists}
OfLists(Value(_)) == Value(Lists[1]) + Value(Lists[2]) + Value(Lists[3]) + Value(Lists[4])
InTables == q.baseline /\ ~Summarised /\ q.format \in {"human", "markdown", "pr-comment"}
Owed == {e \in ToSet(rows) : \/ e.status # "unchanged"
                             \/ IF q.format = "pr-comment" THEN Crappy(e.of) ELSE q.all}

(* Each row a reader is owed is in one section or in the count of what one *)
(* leaves out; a capped section hides no row that changed or scores more   *)
(* than one it shows of the same status; the human table hides nothing     *)
(* regressed or above the threshold; and what is gone is all told, however *)
(* the run was sliced.                                                     *)
Change(e) == Larger(Less(e.of.crap, e.of.old.crap), Less(e.of.old.crap, e.of.crap))
Outranks(a, b) ==
    IF q.format = "pr-comment" /\ a.status \in {"regressed", "improved"} THEN Change(a) > Change(b)
    ELSE a.of.crap > b.of.crap
Kept(e) == q.format = "human" /\ (Sliced \/ q.all \/ e.status = "regressed" \/ Crappy(e.of))
TellsAll(p) ==
    /\ Told(p) \subseteq Owed
    /\ OfLists(LAMBDA n : Len(p.sections[n].rows)) = Cardinality(Told(p))
    /\ OfLists(LAMBDA n : p.sections[n].more) = Cardinality(Owed \ Told(p))
    /\ \A h \in Owed \ Told(p) :
         /\ ~Kept(h)
         /\ \A x \in Told(p) : x.status = h.status /\ Outranks(h, x) => Kept(x)
    /\ Len(p.sections["removed"].rows) + p.sections["removed"].more = Len(in.gone)
AllTold == pc = "append" /\ InTables /\ page.says.kind # "empty" => TellsAll(page)

(* The page of a run that is to fail says so and no other does: in its     *)
(* headline, its counts and reasons, its annotations or its summary.  A    *)
(* page of tables or annotations that was sliced may leave reasons out.    *)
Alarm(p) ==
    IF Summarised THEN p.says.kind = "signals" \/ counts["regressed"] > 0
    ELSE CASE q.format \in {"markdown", "pr-comment"} -> p.says.kind \in {"regressed", "signals"}
           [] q.format = "human" ->
                \/ p.says.kind = "counts" /\ counts["regressed"] > 0
                \/ \E r \in ToSet(p.sections["reasons"].rows) : r.reason.gating
           [] q.format = "github" ->
                \/ \E e \in ToSet(p.sections["table"].rows) : e.status = "regressed"
                \/ p.sections["reasons"].rows # <<>>
TellsGate(p) ==
    q.baseline /\ (Summarised \/ q.format \notin {"json", "shields"}) =>
        /\ tripped /\ (Summarised \/ ~Sliced) => Alarm(p)
        /\ ~tripped => ~Alarm(p)
GateIsTold == pc = "append" => TellsGate(page)

(* Every format has the same functions above the threshold: results,       *)
(* annotations, the rows and the rest of the comment, the rows the human   *)
(* table never hides, and the counts of headline, badge and crates.        *)
FormatsAgree ==
    pc = "write" /\ ~q.baseline /\ rows # <<>> =>
        LET crappy == ToSet(Sarif(rows).sections["table"].rows)
            comment == PrComment(rows).sections["table"]
            crated == Rollups(rows)
        IN /\ ToSet(GitHub(rows).sections["table"].rows) = crappy
           /\ crappy \subseteq ToSet(Human(rows).sections["table"].rows)
           /\ ToSet(comment.rows) \subseteq crappy
           /\ Len(comment.rows) + comment.more = Cardinality(crappy)
           /\ Shields(rows).says.n = Cardinality(crappy)
           /\ Markdown(rows).says.n = Cardinality(crappy)
           /\ SumFunction([c \in DOMAIN crated |-> crated[c].crappy])
                = Cardinality({e \in crappy : e.of.crate # None})

(* The human table of a terminal is no wider than it whenever its columns  *)
(* can be cut so far, and is left alone when it fits as it is.             *)
TableFits ==
    pc = "append" /\ q.format = "human" /\ ~Summarised =>
        FitsIfItCan({e.of.text : e \in ToSet(page.sections["table"].rows)}, q.hints, q.width,
                    IF q.baseline THEN q.delta ELSE None)

(* The locations of a comment name different files differently, each down  *)
(* to the file's own name; and a link is the way from the working          *)
(* directory to the very file that was measured.                           *)
PlacesTell ==
    pc = "append" /\ q.format = "pr-comment" =>
        LET files == ToSet(CommentFiles(rows)) IN
        /\ \A x, y \in files : Place(x) = Place(y) => x = y
        /\ \A x \in files : Place(x) # <<>> /\ Place(x)[Len(Place(x))] = x[Len(x)]
        /\ \A e \in ToSet(rows) :
             LET link == Link(Written(e.of.file))
             IN Absolutely(e.of.file) /\ link # None => q.cwd \o link = e.of.file

(* VerdictsOwn and CountsAddUp of the section as written: each verdict is  *)
(* beside the group it was given on, and no group, verdict or question     *)
(* left open is lost between the heading, the rows and the closing lines.  *)
VerdictsInPlace ==
    pc = "done" =>
        /\ D!VerdictsOwn(in.dups, section)
        /\ D!Found(in.dups, q.format) => D!CountsAddUp(in.dups, section)

-----------------------------------------------------------------------------
(* What those rest on.  The counts and the gate are of every function, the *)
(* rows are the slice's entries, each once, and all that is gone stays.    *)
SignalGates(e) == \E j \in DOMAIN e.reasons : GatesAsSignal(e.reasons[j])
Once(s) == \A i, j \in 1 .. Len(s) : s[i] = s[j] => i = j
Stages == {"compare", "narrow", "write", "append", "done", "failed"}
CountsHold ==
    pc # "compare" =>
        /\ DOMAIN counts = Statuses \cup {"removed"}
        /\ \A s \in Statuses :
             counts[s] \in Nat /\ (counts[s] > 0 <=> \E f \in in.now : Entry(f).status = s)
        /\ gates \in Nat /\ (gates > 0 <=> \E f \in in.now : SignalGates(Entry(f)))
        /\ tripped = (counts["regressed"] + gates > 0)
RowsHold ==
    pc \in {"write", "append"} =>
        /\ rows \in Seq({Entry(f) : f \in in.now}) /\ Once(rows)
        /\ ToSet(rows) = {Entry(f) : f \in Shown}
RemovedHolds ==
    pc # "compare" =>
        /\ pc = "narrow" => removed = IF q.baseline THEN in.gone ELSE <<>>
        /\ removed \in Seq(ToSet(in.gone))
        /\ q.baseline => Len(removed) = Len(in.gone)
IInv == IsInput(in) /\ pc \in Stages /\ CountsHold /\ RowsHold /\ RemovedHolds
=============================================================================
