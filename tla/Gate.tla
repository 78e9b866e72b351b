-------------------------------- MODULE Gate --------------------------------
(***************************************************************************)
(* src/main.rs `run': one invocation after the other over a workspace that *)
(* is edited between them, from the settings to the exit code.  A run      *)
(* walks the selected packages or one path, filters and slices its rows,   *)
(* loads what an earlier run recorded and filters that to the same scope,  *)
(* opens its output, compares, writes and only then decides the gate.      *)
(*                                                                         *)
(* Every run starts in the workspace root.  A glob d/** is the directory   *)
(* d; a function is known by its file and name (Delta has the lines).      *)
(***************************************************************************)
EXTENDS Paths

CONSTANTS Workspace,   \* the workspace root, as the components of its path
          Dirs,        \* the directories of its members
          Places,      \* where there may be a function: its file and name
          Signals,     \* the structural signals
          Counts,      \* those that count sites (Signal::is_count)
          Measures,    \* what may be measured of a function
          FirstTrees,  \* what the sources may hold at first
          Slots,       \* the files reports are written to
          Given,       \* what those may hold at first
          Requests,    \* the settings a run may have, flags and config merged
          Absent,      \* a function that is not there
          None,        \* an option that is not given
          NoFile,      \* a report that is not there
          Cut,         \* one that is not whole
          MaxRuns,     \* bound on the runs
          MaxEdits     \* bound on the edits

(* A row of a report, CrapEntry. *)
Row == [file : Seq(STRING), function : STRING, crap : Nat, signals : [Signals -> Nat] \cup {None}]

ASSUME PlacesAssumption ==
    /\ Workspace \in Seq(STRING) /\ Dirs \subseteq Seq(STRING)
    /\ \A d \in Dirs \cup {Workspace} : d # <<>> /\ d[1] = "/"
    /\ IsFiniteSet(Places)
    /\ \A p \in Places :
        /\ p.file \in Seq(STRING) /\ p.function \in STRING
        /\ \A k \in DOMAIN p.file : p.file[k] = "/" <=> k = 1
    /\ FirstTrees \subseteq [Places -> Measures \cup {Absent}]
    /\ \A r \in Given : r \in {NoFile, Cut} \/ r.rows \subseteq Row
ASSUME MeasuresAssumption ==
    /\ Counts \subseteq Signals
    /\ \A m \in Measures : m.crap \in Nat /\ m.signals \in [Signals -> Nat]
(* A path that does not exist, as the empty one, is refused; selected      *)
(* packages leave `--path' unread.                                         *)
ASSUME RequestsAssumption ==
    \A r \in Requests :
        /\ r.path \in {None} \cup (Seq(STRING) \ {<<>>})
        /\ r.packages # {} => r.path = None
        /\ r.exclude \cup r.defaults \cup r.allowed \subseteq Seq(STRING)
        /\ r.format \in STRING
        /\ r.epsilon \in Int /\ r.threshold \in Nat /\ r.min \in Nat /\ r.top \in Nat
        /\ r.gate \subseteq Signals /\ r.limits \in [Signals -> Nat \cup {None}]
        /\ r.baseline \in Slots \cup {None} /\ r.output \in Slots \cup {None}
ASSUME DistinctAssumption ==
    /\ Absent \notin Measures /\ NoFile # Cut
    /\ {NoFile, Cut} \cap [format : STRING, rows : SUBSET Row] = {}
    /\ None \notin Requests /\ None \notin Slots /\ None \notin Nat /\ None \notin Seq(STRING)
ASSUME BoundsAssumption == MaxRuns \in Nat /\ MaxEdits \in Nat

VARIABLES tree,      \* what each place of the sources holds
          reports,   \* the report in each slot
          pc,        \* "idle", then the next thing the run does, then "done"
          q,         \* its settings
          rows,      \* the functions it analysed, `entries'
          shown,     \* those `min' and `top' select
          recorded,  \* the baseline as loaded, its paths resolved
          old,       \* the baseline as compared
          verdict,   \* what do_render returned
          code,      \* the exit code, None if the run was killed
          runs, edits

found == <<rows, shown, recorded, old, verdict>>
vars == <<tree, reports, pc, q, found, code, runs, edits>>

Stages == <<"analyze", "baseline", "output", "render", "flush", "gate">>

-----------------------------------------------------------------------------
(* Paths and globs.  A relative path is taken against the workspace root.  *)
Starts(file, dir) == Len(dir) <= Len(file) /\ Root(file, Len(dir)) = dir
Absolute(file) ==
    IF file # <<>> /\ file[1] = "/" THEN file
    ELSE Workspace \o (IF file # <<>> /\ file[1] = "." THEN Tail(file) ELSE file)

InWorkspace == q.path = None
Roots == IF ~InWorkspace THEN {q.path}
         ELSE IF q.packages = {} THEN Dirs ELSE q.packages

(* nested_member_excludes: the other members' roots below this one. *)
Nested(root) ==
    {Below(d, Len(root)) : d \in {e \in Dirs : InWorkspace /\ e # root /\ Starts(e, root)}}

(* ScanRoot: what matches below the root only. *)
MemberOnly(root) == q.defaults \cup Nested(root)

(* ExcludeMatcher::check, by the matcher of a root: the user's globs match *)
(* below the base and below the workspace root, the others only below the  *)
(* base.                                                                   *)
Excluded(root, base, file) ==
    \/ /\ Starts(file, base)
       /\ \E g \in q.exclude \cup MemberOnly(root) : Starts(Below(file, Len(base)), g)
    \/ /\ InWorkspace /\ Starts(file, Workspace)
       /\ \E g \in q.exclude : Starts(Below(file, Len(Workspace)), g)

(* apply_filters: a name, or a path glob that matches some tail. *)
Allowed(e) ==
    \/ e.function \in q.names
    \/ \E g \in q.allowed : \E k \in 0 .. Len(e.file) - 1 : Starts(Below(e.file, k), g)

(* The walk of a root finds a file, and how it spells it. *)
Spelled(root, file) == root \o Below(file, Len(Absolute(root)))
Reaches(root, file) ==
    Starts(file, Absolute(root)) /\ ~Excluded(root, root, Spelled(root, file))

(* assign_crate_names: the deepest analysed member above the file. *)
Crate(file) ==
    CHOOSE d \in Roots : Starts(file, d) /\ \A e \in Roots : Starts(file, e) => Len(e) <= Len(d)

(* keep_signals. *)
Kept(signals) == IF q.signals THEN signals ELSE None

-----------------------------------------------------------------------------
(* The scope of the baseline.                                              *)

(* A slip: the shallowest root decides. *)
Filtered_Shallow(file) ==
    \E d \in Roots : /\ Starts(file, d) /\ Excluded(d, d, file)
                     /\ \A e \in Roots : Starts(file, e) => Len(d) <= Len(e)

(* BaselineFilter::is_excluded: the deepest analysed root above the file   *)
(* decides; under none, the shortest root's globs match the whole path.    *)
Filtered(file) ==
    LET above == {d \in Roots : Starts(file, d)} IN
    \/ \E d \in above : /\ \A e \in above : Len(e) <= Len(d)
                        /\ Excluded(d, d, file)
    \/ above = {} /\ \E d \in Roots : /\ \A e \in Roots : Len(d) <= Len(e)
                                      /\ Excluded(d, <<>>, file)

(* MemberScope::is_out_of_scope: the deepest member above the file owns    *)
(* it; under none, those whose place in the workspace occurs in the path   *)
(* at the greatest length, and one of them selected is enough.             *)
Place(dir) == IF Starts(dir, Workspace) THEN Below(dir, Len(Workspace)) ELSE <<>>
Occurs(dir, file) ==
    Place(dir) # <<>> /\ \E k \in 0 .. Len(file) : Starts(Below(file, k), Place(dir))
Owners(file) ==
    LET above == {d \in Dirs : Starts(file, d)}
        across == {d \in Dirs : Occurs(d, file)}
    IN IF above # {} THEN {d \in above : \A e \in above : Len(e) <= Len(d)}
       ELSE {d \in across : \A e \in across : Len(Place(e)) <= Len(Place(d))}
OutOfScope(file) ==
    q.packages # {} /\ Owners(file) # {} /\ Owners(file) \cap q.packages = {}

-----------------------------------------------------------------------------
(* The comparison, Delta's three passes over functions without lines.      *)
Same(c, b) == c.file = b.file /\ c.function = b.function
Fresh == {c \in rows : \A b \in old : ~Same(c, b)}
Loose == {b \in old : \A c \in rows : ~Same(c, b)}
Namesakes(e, S) == {d \in S : d.function = e.function}
Close(c, b) ==
    /\ Best([d \in Loose |-> Suffix(c.file, d.file)], Namesakes(c, Loose), b)
    /\ Best([d \in Fresh |-> Suffix(b.file, d.file)], Namesakes(b, Fresh), c)
Alone(c, b) ==
    /\ Namesakes(c, {d \in Fresh : \A e \in Loose : ~Close(d, e)}) = {c}
    /\ Namesakes(c, {e \in Loose : \A d \in Fresh : ~Close(d, e)}) = {b}
Partner(c) ==
    {b \in old : \/ Same(c, b)
                 \/ c \in Fresh /\ b \in Loose /\ (Close(c, b) \/ Alone(c, b))}

(* DeltaStatus::Regressed. *)
Regressed(c) == \E b \in Partner(c) : c.crap > b.crap + q.epsilon

(* reasons_for, the gating ones about a signal: against the partner's      *)
(* signals, or for a new function against zero or a limit.                 *)
Rose(c, s) == s \in q.gate /\ \E b \in Partner(c) : b.signals # None /\ c.signals[s] > b.signals[s]
TooMuch(c, s) ==
    /\ Partner(c) = {}
    /\ IF s \in Counts THEN s \in q.gate /\ c.signals[s] > 0
       ELSE q.limits[s] # None /\ c.signals[s] > q.limits[s]
Reasons(c) ==
    {s \in Signals : /\ c.signals # None /\ \E b \in old : b.signals # None
                     /\ Rose(c, s) \/ TooMuch(c, s)}

-----------------------------------------------------------------------------
Nothing == rows' = {} /\ shown' = {} /\ recorded' = {} /\ old' = {} /\ verdict' = None

Init ==
    /\ tree \in FirstTrees /\ reports \in [Slots -> Given]
    /\ pc = "idle" /\ q = None /\ code = None /\ runs = 0 /\ edits = 0
    /\ rows = {} /\ shown = {} /\ recorded = {} /\ old = {} /\ verdict = None

Begin(r) ==
    /\ pc \in {"idle", "done"} /\ runs < MaxRuns
    /\ pc' = "analyze" /\ q' = r /\ runs' = runs + 1 /\ code' = None
    /\ Nothing
    /\ UNCHANGED <<tree, reports, edits>>

(* validate_args and validate_merged_values; the config may ask for the    *)
(* gate without a baseline.                                                *)
Valid == (q.failRegression = "flag" => q.baseline # None) /\ q.epsilon >= 0

(* slice_of: the scores from `min' up, and the `top' highest of them. *)
Slice(all, some) ==
    LET high == {r \in all : r.crap >= q.min} IN
    /\ some \subseteq high
    /\ Cardinality(some) = IF Cardinality(high) < q.top THEN Cardinality(high) ELSE q.top
    /\ \A r \in some, s \in high \ some : r.crap >= s.crap

(* select_members: a package that is not there ends the run. *)
Selectable == q.packages \subseteq Dirs

(* analyze_sources: every function of the files the walks reach; then      *)
(* apply_filters and the slice.                                            *)
Everything ==
    UNION {{[file |-> Spelled(d, p.file), function |-> p.function,
             crap |-> tree[p].crap, signals |-> Kept(tree[p].signals)] :
               p \in {x \in Places : tree[x] # Absent /\ Reaches(d, x.file)}} : d \in Roots}

Analyse ==
    /\ pc = "analyze" /\ Valid /\ Selectable
    /\ rows' = {r \in Everything : ~Allowed(r)}
    /\ \E some \in SUBSET rows' : Slice(rows', some) /\ shown' = some
    /\ pc' = "baseline"
    /\ UNCHANGED <<tree, reports, q, recorded, old, verdict, code, runs, edits>>

(* load_filtered_baseline: only whole JSON is read.  In workspace mode the *)
(* relative paths are resolved.                                            *)
Resolved(b) == [b EXCEPT !.file = IF InWorkspace THEN Absolute(@) ELSE @,
                         !.signals = Kept(@)]
(* BaselineFilter::retain: what the current run would produce. *)
Keeps(b) == ~Filtered(b.file) /\ ~Allowed(b)
(* filter_duplicate_record: what the duplicate scan would see; it reads no *)
(* `--allow'.                                                              *)
RetainMembers(group) == {m \in group : ~Filtered(m.file) /\ ~OutOfScope(m.file)}

Load ==
    /\ pc = "baseline"
    /\ q.baseline # None =>
         reports[q.baseline] \notin {NoFile, Cut} /\ reports[q.baseline].format = "json"
    /\ recorded' = IF q.baseline = None THEN {}
                   ELSE {Resolved(b) : b \in reports[q.baseline].rows}
    /\ old' = {b \in recorded' : Keeps(b) /\ ~OutOfScope(b.file)}
    /\ pc' = "output"
    /\ UNCHANGED <<tree, reports, q, rows, shown, verdict, code, runs, edits>>

(* prepare_output: the file is truncated. *)
Create ==
    /\ pc = "output"
    /\ reports' = [s \in Slots |-> IF s = q.output THEN Cut ELSE reports[s]]
    /\ pc' = "render"
    /\ UNCHANGED <<tree, q, found, code, runs, edits>>

(* A slip: the rows are narrowed to the slice before they are counted. *)
Render_Narrowed ==
    /\ pc = "render" /\ ~(q.format = "sarif" /\ q.baseline # None)
    /\ verdict' = [crappy |-> \E r \in shown : r.crap > q.threshold,
                   regressed |-> \E c \in shown : Regressed(c) \/ Reasons(c) # {}]
    /\ pc' = "flush"
    /\ UNCHANGED <<tree, reports, q, rows, shown, recorded, old, code, runs, edits>>

(* do_render: the whole comparison is counted, the shown rows are judged.  *)
(* SARIF has no form for a comparison.                                     *)
Render ==
    /\ pc = "render" /\ ~(q.format = "sarif" /\ q.baseline # None)
    /\ verdict' = [crappy |-> \E r \in shown : r.crap > q.threshold,
                   regressed |-> \E c \in rows : Regressed(c) \/ Reasons(c) # {}]
    /\ pc' = "flush"
    /\ UNCHANGED <<tree, reports, q, rows, shown, recorded, old, code, runs, edits>>

(* The report as written: in workspace mode below its root (below_root). *)
Written(r) ==
    [r EXCEPT !.file = IF InWorkspace /\ Starts(@, Workspace) THEN Below(@, Len(Workspace)) ELSE @]
Report == [format |-> q.format, rows |-> {Written(r) : r \in shown}]
Complete == [s \in Slots |-> IF s = q.output THEN Report ELSE reports[s]]

(* A slip: a flush that fails goes unnoticed. *)
Flush_Unchecked ==
    /\ pc = "flush"
    /\ reports' \in {Complete, reports}
    /\ pc' = "gate"
    /\ UNCHANGED <<tree, q, found, code, runs, edits>>

Flush ==
    /\ pc = "flush"
    /\ reports' = Complete
    /\ pc' = "gate"
    /\ UNCHANGED <<tree, q, found, code, runs, edits>>

Tripped == \/ q.failAbove /\ verdict.crappy
           \/ q.failRegression # "off" /\ verdict.regressed

Decide ==
    /\ pc = "gate"
    /\ code' = IF Tripped THEN 1 ELSE 0
    /\ pc' = "done"
    /\ UNCHANGED <<tree, reports, q, found, runs, edits>>

(* A step fails, which is exit code 2, or the run is killed.  Dropping the *)
(* writer tries to flush what a failing flush left.                        *)
Stop ==
    /\ pc \in {Stages[k] : k \in DOMAIN Stages}
    /\ code' \in IF pc = "gate" THEN {None} ELSE {2, None}
    /\ reports' \in IF pc = "flush" THEN {reports, Complete} ELSE {reports}
    /\ pc' = "done"
    /\ UNCHANGED <<tree, q, found, runs, edits>>

(* Someone edits the sources between two runs; a run reads them once. *)
Edit(p) ==
    /\ pc \in {"idle", "done"} /\ edits < MaxEdits
    /\ \E m \in Measures \cup {Absent} : m # tree[p] /\ tree' = [tree EXCEPT ![p] = m]
    /\ edits' = edits + 1 /\ pc' = "idle" /\ q' = None /\ code' = None
    /\ Nothing
    /\ UNCHANGED <<reports, runs>>

Next == \/ \E r \in Requests : Begin(r)
        \/ Analyse \/ Load \/ Create \/ Render \/ Flush \/ Decide \/ Stop
        \/ \E p \in Places : Edit(p)

Spec == Init /\ [][Next]_vars

-----------------------------------------------------------------------------
(* BaselineFilter and MemberScope undo exactly what the walk would: of the *)
(* recorded functions in a member's directory, or below the path analysed, *)
(* those are compared that this run finds if they are still there, and a   *)
(* recorded group keeps those the duplicate scan reads.  With one more,    *)
(* `removed' names functions nobody looked for; with one fewer, a          *)
(* regression passes as a new function, a group as a new one.  And a row   *)
(* is counted for the crate whose walk found it.                           *)
Covered(b) == IF InWorkspace THEN \E d \in Dirs : Starts(b.file, d) ELSE Starts(b.file, q.path)
Read(b) == \E d \in Roots : Reaches(d, Absolute(b.file))
ScopesAgree ==
    /\ \A b \in recorded : Covered(b) =>
          /\ b \in old <=> Read(b) /\ ~Allowed(b)
          /\ b \in RetainMembers(recorded) <=> Read(b)
    /\ pc # "idle" /\ InWorkspace => \A r \in rows : Reaches(Crate(r.file), r.file)

(* The regression gate: with exit code 0, no function found, shown or not, *)
(* has a record under its own file and name with a score more than epsilon *)
(* lower, or with less of a gated signal.                                  *)
PassIsNoRegression ==
    pc = "done" /\ code = 0 /\ q.failRegression # "off" =>
        \A c \in rows, b \in recorded :
            Same(c, b) =>
                /\ c.crap <= b.crap + q.epsilon
                /\ c.signals # None /\ b.signals # None =>
                     \A s \in q.gate : c.signals[s] <= b.signals[s]

(* The exit codes of spec 23: 0 and 1 mean that the report is whole, and   *)
(* that what it holds is what was judged.                                  *)
VerdictMatchesReport ==
    pc = "done" /\ code \in {0, 1} /\ q.output # None =>
        LET report == reports[q.output]
            crappy == \E r \in report.rows : r.crap > q.threshold
        IN /\ report \notin {NoFile, Cut} /\ report.format = q.format
           /\ Cardinality(report.rows) = Cardinality(shown)
           /\ q.failAbove /\ crappy => code = 1
           /\ code = 1 => \/ q.failAbove /\ crappy
                          \/ q.failRegression # "off" /\ q.baseline # None

(* specs/43-structural-signals.md:282, `A new function with a stub trips   *)
(* the gate': against a baseline recorded with signals, exit code 0 means  *)
(* that no function whose name it lacks has gated sites of its own.        *)
(* Refuted: see the README.                                                *)
NewStubsGate ==
    /\ pc = "done" /\ code = 0 /\ q.failRegression # "off"
    /\ \E b \in recorded : b.signals # None
    => \A c \in rows :
         Namesakes(c, recorded) = {} /\ c.signals # None =>
             \A s \in Counts \cap q.gate : c.signals[s] = 0

-----------------------------------------------------------------------------
(* What the properties above rest on, state by state.                      *)

(* What each variable holds, at every stage. *)
TypeOK ==
    /\ tree \in [Places -> Measures \cup {Absent}]
    /\ DOMAIN reports = Slots
    /\ \A s \in Slots : reports[s] \in {NoFile, Cut} \/ reports[s].rows \subseteq Row
    /\ pc \in {"idle", "done"} \cup {Stages[k] : k \in DOMAIN Stages}
    /\ pc # "idle" => q \in Requests
    /\ code \in {None, 0, 1, 2}
    /\ rows \subseteq Row /\ shown \subseteq rows /\ IsFiniteSet(rows)
    /\ recorded \subseteq Row /\ old \subseteq recorded

(* A function is listed where a walk of this run's roots found it, spelled *)
(* as the walk spells it: `/' is the first component or none.              *)
Found ==
    /\ pc \notin {"idle", "analyze", "done"} \/ rows \cup recorded # {} =>
          pc # "idle" /\ Selectable
    /\ \A c \in rows :
        /\ ~Allowed(c)
        /\ \E d \in Roots : Starts(c.file, d) /\ Reaches(d, Absolute(c.file))
        /\ InWorkspace => \A k \in DOMAIN c.file : c.file[k] = "/" <=> k = 1

(* The baseline compared is the recorded one without what is out of scope. *)
Scoped ==
    /\ old = {b \in recorded : Keeps(b) /\ ~OutOfScope(b.file)}
    /\ \A b \in recorded : /\ q.baseline # None
                           /\ InWorkspace => Absolute(b.file) = b.file

(* From the rendering on, the verdict and the report are those of the run. *)
Ended == pc = "done" /\ code \in {0, 1}
Judgement == [crappy |-> \E r \in shown : r.crap > q.threshold,
              regressed |-> \E c \in rows : Regressed(c) \/ Reasons(c) # {}]
Counted == pc \in {"flush", "gate"} \/ Ended => verdict = Judgement
Concluded ==
    /\ (pc = "gate" \/ Ended) /\ q.output # None => reports[q.output] = Report
    /\ Ended => code = IF Tripped THEN 1 ELSE 0

IInv == TypeOK /\ Found /\ Scoped /\ Counted /\ Concluded
=============================================================================
