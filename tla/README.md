# cargo-crap, in TLA+

cargo-crap ranks the functions of a Rust tree by CRAP score (cyclomatic
complexity against test coverage), compares a run with a recorded one, finds
structural duplicates and may have them judged by a model behind an HTTP API.
This directory holds TLA+ modules of the parts of it that are hard to test,
the TLC instances that check them, and proofs that TLAPS checks.

## 1. Inventory

### The parts and what they keep

| Part | Source | State | Operations | What makes it correct |
|---|---|---|---|---|
| Cache file mechanics | `cache/file.rs` | `NEXT_TEMP`, files | `write_atomic`, `read_retrying` | a reader sees one whole content; temporary names never collide; a failed write leaves nothing |
| Duplicate groups | `duplicates/group.rs` | clusters during a pass | `group_pairs`, `pair_groups` | clusters are cliques and a partition; every pair is in exactly one group |
| Triage run | `duplicates/triage/` | verdict cache on disk, requests under way, `warned` | `run`: look up, plan, ask with retries, remember | verdicts reach their own group; failure is all or nothing; nothing is paid for twice; the budget holds; it ends |
| Delta | `delta.rs` | pairing, matched keys | three passes, removed rows, counts, gate | no function compared twice or with the wrong one; everything accounted for |
| Merge | `merge.rs` | path index | `PathIndex::build`, `lookup`, `merge` | longest suffix wins whatever the map's order; strays complete |
| Complexity cache | `cache/complexity.rs` | one file of records | `load`, `lookup`, `save_keeping` | a hit is for these bytes, executable and weight; a save evicts what it walked only |
| Complexity analysis | `complexity.rs` | a visitor's scope | walk, count, exclude | a branch counts for the function it is in; both passes leave out the same test code |
| Signals | `signals.rs` | a walker's depth, worst condition, sites | `compute`, settings, gates | depth, condition and sites are the function's own; a reason for each worsening, none without |
| Coverage | `coverage.rs` | per-line hits | `coverage_in_span`, `uncovered_ranges_in_span`, `merge_from` | ranges are exactly the uncovered lines |
| Duplicate detection | `duplicates/{scan,extract,normalize,fingerprint,compare}.rs` | – | shapes, fingerprints, Jaccard, sort | what differs in names and values only scores 1.0, nothing else does; each pair once, in one order |
| Duplicate novelty | `duplicates/novelty.rs` | – | `compare` | new, grown and resolved groups; identities claimed once |
| Configuration | `config.rs`, `main.rs` to `resolve_settings` | settings | find, merge, validate | no value enters by one way that is refused by another; warnings are about the right glob |
| Target directory | `cache/target.rs` | – | walk up, or ask cargo | every mode finds the same caches, but for `build.target-dir` |
| Triage exchange | `duplicates/triage/{client,request,verdict,cache,provider/*}.rs` | stored verdicts | ask, retry, decode, check, store, read back | a verdict means what was answered, comes back as it was stored, for the very question asked; requests are repeated only when that can help |
| Pipeline | `main.rs` | output file | scan, filter, slice, compare, render, flush, gate | both sides of a comparison cover the same functions; exit-code contract; the gate sees the whole comparison |
| Reports | `report*` | – | seven formats, caps, sections, tables, links, duplicates, verdicts | each row told or counted; formats agree; the gate is told; a verdict stands by its own group |
| GitHub Action | `scripts/action/` | a recorded baseline | install, score, hand over | – |

### How they interact

`main.rs` calls the parts in a fixed order: analysis (through the complexity
cache), coverage, merge, filters, baseline, duplicates, triage, render, gate.
Concurrency is in three places: rayon's pool over the files, triage's own pool
of eight threads over the requests, and several cargo-crap processes sharing
one `target/` directory. They meet only in cache files, always written by
`write_atomic` and read by `read_retrying`; so those two functions carry the
concurrency of the whole program, and the other models may take a cache entry
as a register. Triage is given the representatives of the groups `group.rs`
built, and its verdicts are put back beside them by index. The delta's pairing
decides which scores are compared, and with that the exit code. The two passes
over the sources, for complexity and for duplicates, parse every file for
themselves and meet only in what a report calls a function. What is written as
JSON is the next run's baseline, and what is cached the next run's input: the
program talks to its own earlier builds.

### What is hard

* **Concurrent writers, crashes, reused pids** over one file (`cache/file.rs`).
* **Answers in any order, retries, partial failure, restart** in triage, with
  the source being edited under it.
* **Order-sensitive loops**: clusters that grow while they are compared;
  matching passes over hash maps that consult snapshots; ties.
* **Decisions made twice**: what a walk leaves out and what the filters of a
  recorded baseline leave out; whose a nested member's file is, at the walk, at
  the save and at the comparison; what is judged and what is shown.
* **Walks that carry state** through a syntax tree (a depth, the impl block's
  type, an accumulator) and must hand it back where they found it.
* **One fact told seven ways**: each format slices, caps and counts by itself,
  and triage's answers are for a subset of what each shows.
* **Boundaries**: budget and attempts, equal suffixes, a key that is needed
  only sometimes; numbers a hair out of range; widths that just fit.

`PROJECT.json` lists each hazard at its line with the properties aimed at it.

## 2. Modules

| Module | Models | Instance | Proofs |
|---|---|---|---|
| `AtomicRegister` | what `cache/file.rs` promises: a register with denied reads | – | – |
| `AtomicFile` | `write_atomic`, `read_retrying`, the file system, processes | `MCAtomicFile` | `Cache_proofs` |
| `Groups` | `group_pairs`, `pair_groups` | `MCGroups` | `Duplicates_proofs` |
| `TriageRun` | `triage::run`, `Client::evaluate`, `budget::plan`, the verdict cache, `asked`/`spread` | `MCTriageRun` | `TriageRun_proofs` |
| `Delta` | `compute_delta` | `MCDelta` | `Delta_proofs` |
| `ComplexityCache` | `cache/complexity.rs`, `analyze_tree_cached`, `analyze_workspace_members`, `analyze_path` | `MCComplexityCache` | `Cache_proofs` |
| `Paths` | `merge.rs` `common_suffix_len`, `unique_best_by_suffix`; used by `Delta`, `Novelty` and `Gate` | – | – |
| `Novelty` | `duplicates/novelty.rs` | `MCNovelty` | `Duplicates_proofs` |
| `Merge` | `coverage.rs`, `PathIndex` and `merge` of `merge.rs`, `crap` | `MCMerge` | `Merge_proofs` |
| `Gate` | `main.rs` `run`, `BaselineFilter`, `MemberScope`, `ExcludeMatcher`, the slice, what of the comparison the gate reads | `MCGate` | `Gate_proofs` |
| `Orders` | `sort_by` and `filter`, as reports use them: a set in an order, some of a sequence | with `Report` | `Report_proofs` |
| `Layout` | `report/layout.rs`, the widths and cuts of the human tables | with `Report` | `Report_proofs` |
| `DupSection` | `report/duplicates.rs`, `duplicate_section`, the duplicates of `report.rs` and `report/json.rs` | with `Report` | `Report_proofs` |
| `Report` | `do_render`, the statuses of `delta.rs` and every format of `report/` | `MCReport` | `Report_proofs` |
| `Source` | the syntax tree, as `syn` hands it over | with `Syntax` | `Syntax_proofs` |
| `Measure` | the visitors of `complexity.rs` and `signals.rs` | with `Syntax` | `Syntax_proofs` |
| `Shapes` | `duplicates/{normalize,fingerprint,extract,compare}.rs` | with `Syntax` | `Syntax_proofs` |
| `Syntax` | both passes over the files of a run | `MCSyntax` | `Syntax_proofs` |
| `Settings` | `parse_and_validate`, `resolve_settings`, `config.rs`, `cache/target.rs`, the settings of signals and triage | with `Exchange` | `Cache_proofs` |
| `Wire` | `triage/{request,verdict,cache}.rs`, `provider/` | with `Exchange` | `Cache_proofs` |
| `Exchange` | runs of one project, from `Settings` through `triage/client.rs` and `Wire` to the verdict shown | `MCExchange` | `Cache_proofs` |

Operators whose name ends in `_Something` (`Best_TieKept`, `Condition_ScoredOnly`) are
slips: a definition of the model as a plausible bug would have it. Each stands
before the definition it varies and is used by no specification; `PROJECT.json`
says which property each one breaks.

### AtomicFile

A file system is a directory (names to inodes) and the inodes' contents, so
that a reader that opened the file keeps the inode whatever is renamed over
the name. `fs::write` is two steps, `Create` (open, truncating a leftover) and
`Fill`; `fs::rename` is `BeginRename` (from which on Windows denies an open)
and `Rename` (one directory update). `FailWrite` is an error of any of the
three calls and `Cleanup` the ignored `remove_file`. A process starts with a
pid no running process has, possibly that of a dead one, and with `next`
(`NEXT_TEMP`) at 0; `Crash` takes its threads with it and leaves its files. A
reader is `read_retrying` around a whole-file read: `Open`, `Deny` (the last of
`ReadAttempts` denials is the result), `Retry` and `Finish`.

What is left out: `create_dir_all` (a failure there is a call that did
nothing), and errors of a read other than a missing file and denied access,
which return at once as the missing file does. Durability across a power
failure is not promised by the code (it never syncs) and not modelled.

### Groups

One state per turn of the loop in `clusters`: `Take(p)` takes the strongest
pair left and merges or not; `Collect` is the rest of `group_pairs`. Functions
are numbers in location order, scores are numbers; `Before` is
`strongest_first`. `Distinct` is `strongest_distinct_pairs`. A group is the
record the code returns, without its place in the list, which only the report
depends on.

### TriageRun

A *text* stands for the two bodies of a group's representative as read back:
with provider, model and question set fixed it is the cache key, and the
verdict given on it is named by it. `Begin` configures a run (any of
`Options`) and builds its pool, which the system may refuse (`threads`):
`TriageError::Threads` ends the run there, its groups untriaged, whatever
it was asked. `ReadBack` and `LookUp` are the halves of `look_up`, so that an
edit or another run's write may come between; a stored verdict that cannot be
read is asked for again; `Plan` is `budget::plan`;
`Send`, `Answer`, `Refuse`, `Fail` are `ask` and `Client::evaluate` under a
pool of `Threads`; `Remember` is the cache write, apart from the answer, so
that a run may die between the two; `Succeed` spreads the verdicts and
`GiveUp` is the error path through `triage_assessments`. `Interrupt`, `Edit`
and `Clean` are the world. The cache is a register per text, which is what
`AtomicFile` is proved to be; that a read may be denied for good is the empty
look-up under `CacheFails`.

Back-off times, the classes of a reply and the bytes on the wire are
`Exchange`'s; messages are left out, as is the possibility that two texts have
one 64-bit key.

### Delta

A file is the sequence of its path's components, an entry is a file, a name
and a line. `PassOne`, `SuffixName(n)`, `EndSuffix`, `NameOnly(n)` and
`Collect` are the three passes, one step per name, in any order, as the loops
go through hash maps. `fresh` and `loose` are the snapshots the passes build
their maps from. `Best` is `unique_best_by_suffix`: exactly one candidate with
the longest common tail, and that tail not empty. Scores take no part in the
pairing and are left out.

### ComplexityCache

Runs share one cache file, `disk`: a header (build and `?` weight) and an entry
per file. `StartRun` is a process, running the build installed at that moment,
with its request: the member roots it will walk, the discovered members it
will not, the weight, whether the cache is on (`--path` is one root and no
other member). `OpenCache` is `Session::open`; it comes later than `StartRun`, since
`cargo metadata` runs in between. `List` is the walk of one root, `ReadSource` and
`Analyse` the two halves of `analyze_file_cached` for one file, in any order
(rayon) and with anything in between. `Save` is `save_keeping` and `FinishRun` a
save that failed, or none. `Edit`, `Rebuild`, `Lose` and `Die` are the world.

What `analyze_source` finds is named by what it may depend on, the build, the
weight and the content, so that a wrong hit shows. Whose a file is gets
decided twice in the code: `Walk` is `nested_member_excludes`, `Evicted` is
`evicted`. `Owner`, used in properties only, is what the comments mean by it.
The file is replaced and read whole, as a register, which is what `AtomicFile`
is proved to be; a read that is denied for good is `OpenCache` with no entries.
`.gitignore` and user globs only make a walk smaller and are left out.

`ByName` says what `Executable::current` describes if the executable was
replaced since the process started: nothing, since a deleted file has no
canonical path and the cache is then off (`FALSE`, Linux), or the new file
(`TRUE`, systems that name the path).

### Novelty

Groups are sequences of sets of functions, on both sides; an identity is a file
and a name, so that namesakes in one file have one. `Init` is `suffix_pairs` up
to its loop, `Round(n)` one round of `pair_by_suffix` under the name n (the
names are independent and the map's order is not theirs), `Judge` the rest of
`compare`: `Same` is the identity a current function is compared under after
suffixes and moves, `Together` the members a recorded group held, `Resolved`
the recorded groups without a surviving pair. `turns` is the `for` loop's
bound, a variable since `NoBestLeft` asks whether it is ever felt. A
function's last line takes no part and is left out.

### Merge

A path is the sequence of its components, which is what two `PathBuf`s are
compared by. The records of the report are read one by one (`SourceFile` to
`EndOfReport`), then the spellings are put into the index in any order, as the
`HashMap` has them (`IndexAbsolute`, `IndexTail`, `IndexNothing`), then each
function is looked up (`Found`, `NotFound`) and `Finish` ranks the rows and
takes the complements that are the diagnostics. An entry of the index that is
vacant is one no spelling feeds. Where several needles are longest a look-up
may return any; `NoChoice` says there are not. `Canonical` is the file system:
what `canonicalize` gives for each path, seen from where the program runs.
Without `--lcov` the report is the empty one. Additions of hits wrap in the
parser, as a release build's do, and saturate in `merge_from`. Coverage is a
fraction and the score is compared exactly; a debug build's panic, the cap of
ten on the examples of a stray set, and `sort_entries` are left out.

`EntriesTell` (which is `CoverageIsTheReports` and `RangesExact`) and
`StraysComplete` compare the result with what the records say, read without the
index (`Speaking`, `HitsOf`). `Warning` is the lead `warn_scope_mismatch` picks
from the diagnostics; `StraysComplete` has it say nothing just when every file
and spelling found the other.

### Gate

Whole invocations, one after the other, over a workspace that someone edits
between them. `Begin` takes the settings after the flags and the configuration
are merged; `Analyse` is the walks, `apply_filters` and the slice, `Load` is
`load_filtered_baseline`, `Create` is `prepare_output`, `Render` and `Flush`
the writing, `Decide` the exit code. `Stop` is any `?` on the way (exit code 2)
or a kill. `rows` are `entries`, `shown` is `sliced_rows`; `recorded` is the
baseline as loaded and `old` what the filters leave of it.

What a run reports in JSON is what a later one may compare with, so a baseline
recorded under other globs, another scope, a slice, without signals, or cut
short is a history of this model and not an input to it. What is compared when
is decided several times over: by the walk of a root (`Reaches`, with the
nested members left out), by `Filtered` (`BaselineFilter`), by `OutOfScope`
(`MemberScope`) and by the pairing.

A glob `d/**` is the directory `d`, and the globs of `allow` are such
directories at any depth; a file's functions have different names and no lines
(`Delta` has the lines and namesakes); runs start in the workspace root, and
`.` is the one relative path. `RetainMembers` is what the filters leave of a
recorded duplicate group; what is done with it is `Novelty`'s. Coverage is
taken as given, and so is the score of a function (`Merge` computes it).
Triage and the summary are left out: they take no part in the exit code but for
an error, which is `Stop`.

### Report, DupSection, Layout

One `do_render`: `Compare` gives every function its status and reasons and the
gate its verdict, `Narrow` restricts the rows to the slice and sorts them,
`Write` is one format's writer, `Duplicates` the section after it, and `Bail` the
refusal of a comparison as SARIF. What is written
is a page: a headline with its number, and under each section's name the rows
it shows and how many more it says there are. The writers are the operators
named for them (`Human`, `Markdown`, `PrComment`, `GitHub`, `Sarif`, `Json`,
`Shields`, the delta ones, `Summary`); each picks, caps and counts its rows as
the code does, and `FormatsAgree` asks all of them about the same rows.

`DupSection` follows a verdict from the groups put to triage (`Asked`), through
the answers (`Answers`, all or none, with `None` beyond the budget) and back
(`Spread`) into each format's rows, counts and closing lines. The statuses are
given; `Novelty` computes them.

`Layout` is arithmetic on widths: a text is its width, a location its width and
those of its tails. `Fit` is the loop that hands out cuts to the three columns.
A file directly in `/` makes a location's floor wider than the location itself
(§5); `FitsIfItCan` says so in its second half. Wording, colour, Markdown escaping and the rounding
of shown numbers are left out.

### Syntax, Source, Measure, Shapes

A file is the sequence of its nodes in source order, a node before what is in
it; a node has a kind, a label that matters (an operator, the kind of a
literal), a name or value that does not, the numbers of its children and of the
last node inside it. `IsTree` is what syn's types say of such a sequence. A
visitor goes along it: `Taken` is one that stops at some kinds (`CcCounter`,
`BoolOps` and the duplicate pass's `Collector`), and a visitor with state is a
function from a node and the end of its row to what the visitor makes of its
state there. `Walk` with `Into`, `OutOf`, `Condition`, `Score` and `Site` is the
`Walker`, and `Visit` with `VisitOwned` and `Push` the `FunctionVisitor` with the
impl type it carries and puts back.

`Shapes` is `norm_*`: what is transparent, what is a leaf, which label is kept,
and what is not read at all (`Unread`: the base of a struct, the length in an
array's type). Since every rule keeps the order of the parts, `NormNode` is one
rule for each of these and one for the rest. A normalised tree is written as its
nodes in order, each with how many are under it, so that a subtree is a stretch
of it and a fingerprint set is the set of those stretches. `Jaccard`,
`FindPairs` and `SortPairs` (stable: of two equal pairs the one found first)
follow the code. `Syntax` runs both passes over the files of a walk in any order
the file system gives.

The properties know nothing of visitors: they speak of nodes and what is around
them (`Scope` is what is in a function and in no closure or item of it) and
define depth, conditions, sites and outlines from those.

A line number is the number of a node, so two functions that share name and line
are not among the inputs, and the line count of a function is left out. Two
subtrees never have one 64-bit hash. A `?` weighs `TryWeight` halves. Patterns
hold no code (a macro in one is left out), and macros, the limits of a range,
items in bodies and constructs the normaliser does not know are leaves, as they
are in the code.

### Settings, Wire, Exchange

`Settings` goes from flags, file and environment to what a run does, in the
code's order: `ParseArgs` (`validate_args`), `LoadConfig` (the nearest file up from the
working directory), `ResolveProvider`, `ValidateValues`, `ResolveSignals`, each a `Check`,
and `Settle`; a refusal anywhere is exit code 2 (`"failed"`). A knob is given by a
flag, by the file, by both or neither; `Merged` is which one holds. `Excludes`
keeps the globs with the place the command line's begin at, `TargetBelow` and
`WorkspaceRoot` are `cache/target.rs` over a chain of directories with and without
manifests. Cargo's answer is an input, external: `metadata` and `root` are the
`target_directory` and `workspace_root` it would report to a run started there, from
the variables, `.cargo/config.toml` (`buildDir`) and the workspace, in cargo's order
(`CargoTarget`), and nothing where cargo would fail, as over an empty variable or a
manifest that does not parse. `CachesMeet` compares a run by `--path` with that:
they agree wherever the run starts, unless `build.target-dir` alone moves cargo's
directory, which a run by `--path` is documented not to read (section 5); it then
has one directory all the same, `target/` at the workspace's root.

`Wire` is one question, there and back, for both APIs: `TypeSafeQuestions`,
`OpenAiQuestions` and the decoders; `Within` is the check of a number against its
range with its tolerance; `CacheKey` and `Entry` are what is stored under what.
`Exchange` runs it: `LookUp`, `Plan`, `Hear` (one reply: an answer, worth
another try after `RetryDelay`, or final), `Receive`; `Spoil` damages an
entry and `Again` starts the next run, in a world where anything may be
different. `Answered` is the API, external: what it sends for what it means.

Numbers are scaled, settings in hundredths and answers in tenths, with a hair
beside each bound; a text is its bytes and a file its lines. A file that does
not parse, has an unknown key or a value of another type is `Bad`, and so is an
entry. Packages are members below the workspace root; symbolic links and `..`
are left out, as is a pool of threads that cannot be built, which is
`TriageRun`'s. The build has the `triage` feature. Endpoint URLs, socket timeouts
and the wording of errors are left out.

## 3. Runs

| Run | Question | Bounds |
|---|---|---|
| `AtomicFile` | two threads of one process and one of another, crashes, pids reused: do names collide, is the file one register, what is left behind? | 2 pids, 2 numbers, 1 content, 3 inodes, 2 tries |
| `Groups` | every set of detected pairs, and records of any kind (repeats, swapped sides, self-pairs, weak pairs) | 5 functions and 2 scores (59,049 inputs); 3 functions, 3 scores, 3 records |
| `TriageRun` | failing, interrupted and restarted runs under every configuration: whose verdict is it, what is paid for again, does each end? | 3 groups with different texts, 2 starts, 1 edit, 2 attempts, 2 threads or none, every budget, with and without key, cache and baseline; a cache whose reads and writes may fail |
| `DeltaPairs` | every comparison, and one tree under two roots | up to 3 functions a side, 12 files, 2 lines or 2 names, repeated keys |
| `NoveltyGroups` | who is taken for whom, what is new, grown or resolved, and is one tree under two roots unchanged? | one or two groups a side of 2 to 4 functions, 13 files, 2 names, namesakes |
| `Merge` | whose hits does a function get, which lines is it told of, what is a stray? | 8 spellings (aliases, a container's, a link's, tails of tails, one without a component), 4 files; three sections, any 4 records, any pattern of 5 lines; 3 policies |
| `ComplexityCache` | two overlapping runs: who analyses a file, what does a save drop, is an entry ever wrong, is the cache ever visible? | a member inside a member, a file in each, a content that parses and one that does not; 2 weights, 2 starts each, 1 edit, 2 builds |
| `Gate` | do both sides of a comparison cover the same functions, does exit code 0 mean no regression, is the report what was judged? | members `/w`, `/w/a`, `/w/a/n`; 5 places, 4 measures, 3 first trees; 17 settings; one report slot, at first empty or with a report of another checkout; 3 runs, 1 edit |
| `GateNewStubs` | does a new function's stub trip the gate? (violated) | as above; one recording, one package compared; 2 runs, 1 edit |
| `Report` | is every row told or counted, the gate told, do the formats agree, do tables fit, do places tell files apart, is each verdict by its group? | 3 functions in 9 states, 4 in 5 without a baseline, 7 formats, 3 slices; 19 widths; caps of 1; up to 3 groups |
| `Syntax` | are complexity, depth, conditions and sites a function's own, do the passes agree, what scores 1.0, which pairs are reported? | every construct in every other two deep, some three; every place an item can be declared in, two deep; some eighty one-step edits of a function and its types |
| `Exchange` | does a value slip past its check, do modes share caches, which globs are warned of, does a verdict survive wire, cache and damage, when is a request repeated? | every knob on both sides at its bounds; 2 working directories in 4 layouts, with `build.target-dir` and without; 9 replies, 3 attempts; answers at and a hair past each bound; 2 runs |

Why these suffice to meet the interesting cases: a collision of temporary
names takes two writers; a stale reader takes two inodes beside theirs. A merge
that is refused through a third function takes three functions, two big
clusters meeting takes five. Two threads with three pairs leave one pair
waiting when another fails. A tie takes two candidates, and a tie that one
pass resolves for the next takes three, as does a second round. A wrong entry takes one run to write
it, one to read it, and a change of content, weight or build between the two
or between a read and its record; an entry evicted wrongly takes a member
inside a walked one, and a tie of depths three members. A
comparison that covers too much or too little takes a member inside a member,
a glob that matches below one root and not below another, and two runs that
differ in scope; three runs let one overwrite the record the next compares
with. A sum that
saturates and one that wraps take two sections and three. `MaxTemp`, `MaxStarts`,
`MaxEdits`, `MaxBuilds` and `MaxRuns` bound counters that grow for ever in the code; each
is in a guard.

`CHECK_DEADLOCK FALSE` stands where the modelled function returns, or where
the runs and edits are used up. `AtomicFile` checks for deadlock: a writer
whose rename finds nothing under its temporary name would be one.

`AtomicFile` uses symmetry over pids, inodes and threads of one process; its
properties are invariants and a refinement without fairness. The runs that
check liveness use none.

A cap of one row is a cap; a status needs two rows before one can hide the
other; a verdict misplaced takes a group left out before one asked about. A
visitor's state is lost between a construct and what it holds, and seen in what
follows: hence a second statement after each body, and a function after each
block. A key that runs together takes two texts that join to the same bytes.

`TriageRun` has one run at a time, started again after failing or being
killed. That two runs at once share a cache is covered by its theorems, which
are for any set of runs. The inductive invariants (`IInv`) and the properties
that only the theorems state (`PairsOnce`, `GroupsHold`, `NoneTwice`, `Nearest`,
`OneEach`, `OwnersOnly`, `CacheJudgesItsKey`, `FreshVerdictsKept`,
`UniqueTemp`, `NoChoice`) are proved for every instance, these ones
included.

### Fairness

`TriageRun` assumes
weak fairness of a run's steps: `timeout_global` ends every request, every
back-off is finite (`MAX_RETRY_AFTER`), and rayon keeps its threads busy.
`Interrupt` is not fair; nobody is obliged to start a run. The other
modules state no liveness and assume no fairness; that a read ends is in
`AtomicFile`'s invariant, where a read under way has a try left (`Progress`).

## 4. What is proved

TLAPS proves, for every value of the constants that satisfies the named
assumptions:

* **AtomicFile** (`HomeAssumption`, `DistinctAssumption`, `BoundAssumption`):
  `TypeOK`, `UniqueTemp`, `WholeFiles`, and that the specification implements
  `AtomicRegister`. The invariant `IInv` adds what `UniqueTemp` and
  `WholeFiles` rest on: a running write's name carries its own process's pid
  and a number already handed out (`OwnNames`); no inode has two names
  (`OneLink`); no reader holds an inode that still has a temporary name
  (`HiddenTemp`); and a write finds under its name what it put there
  (`Progress`). Uniqueness alone is not inductive, since a new name is only
  fresh because the numbers of this pid are all below `next`. `NoLeftovers` needs
  none of these: a temporary name appears, and goes, with the write that is
  under way; only a crash or a removal that fails (`tidy`) parts the two.
* **Groups** (`NumbersAssumption`, `PairSetsAssumption`): `Partition`,
  `Cliques`, `NoMissedMerge`, `PairsOnce`, `NoPairLost`, `GroupsHold`. The invariant adds `Settled`: a pair
  passed over stays apart for a reason that growth cannot undo, because
  `AllPaired` of larger clusters is a stronger demand. With the loop over,
  every two clusters that could be merged have a pair between them that was
  taken, which contradicts it. That a strongest pair exists to be kept or to
  represent a group is `GreatestNumber`: scores are at most 100, and a bounded
  set of numbers has a greatest one because `<` on the naturals is well-founded,
  which needs no induction. (`Merge`, `ComplexityCache` and `Gate` use the same
  lemma for a longest path and a deepest root.)
* **TriageRun** (`OptionsAssumption`, `NumbersAssumption`,
  `DistinctAssumption`): `TypeOK`, `CacheJudgesItsKey`, `OwnVerdict`,
  `FreshVerdictsKept`, `OneWarning`, through `Sound`, which says of one pair
  what its stage implies about its text, verdict and tries. Every step of a
  running run that changes one pair goes through the lemma `SlotStepKeeps`.
  `AllOrNothing` and `WithinBudget` are for any number of runs sharing a cache.
  They rest on `Planned`: what `Plan` chose is as many pairs as the budget
  affords, all before those it left, so `skipped` counts what was left to the
  end, and a run looks and asks only with its threads. `PaidOnce` is proved of one run at a time (`OneRun`, which two runs break:
  each may ask before either has stored) over snippets that differ
  (`OwnTexts`, as the pairs of one run are distinct): its `Ledger` balances for
  each text what was paid against what the cache has, the run holds, and was
  lost on the way.
* **Delta** (`InputsAssumption`): `TypeOK`, `NoneTwice`, `Conserved`,
  `NoLonePair`, `Nearest`, `Unmissed`. The invariant adds that what is unpaired
  now was unpaired in the snapshot of the pass, and conversely under the names
  the pass has not reached (`Snapshot`); that names a pass is through with are
  settled; and that a pairing by suffix stays closest as others leave.
  `OwnPastOnly` says of a tree moved to another root that no function gets
  another's past, for roots of any depth, and `RemapKeepsIdentity` is its
  instance. Its own past shares with a function the whole path below the root;
  another's that shared as much would be the same file, or take a component of
  one root from below the other (`RootsApart`), which `Relocated` rules out.
* **Novelty** (`InputsAssumption`): `OneEach`, `NoBestLeft`,
  `ResolvedMeansGone`. The invariant says that what is paired has left both
  sides and is one to one (`Left`, `OneToOne`), that the pairs and what is left
  make up the identities found on one side only (`OneSided`), and that a name
  has as many rounds as its smaller side has functions, or no mutual best
  (`Enough`): each round that pairs anything takes one from each side at least.
  `HeldTogether` is the agreement of the two countings, namesakes included.
  `RemapKeepsGroups` needs to know which pairing results when the tree has
  moved: `Tracked` says that each claim is an identity's own copy and that what is
  left of the old side is the copy of what is left of the new. Of what is left
  the longest path and its copy would be mutually best, so nothing is
  (`NoneLeft`), and a group is then counted as held whole (`HeldWhole`). It uses
  that a current group has two members at least, which `Groups` guarantees.
* **Merge** (`PathsAssumption`, `NumbersAssumption`, `InputsAssumption`):
  `NoChoice`, `StraysComplete`, `EntriesTell`. The invariant says which spellings feed each
  entry of the index, whatever order they came in (`IndexHolds`), and that the
  sets `merge` keeps are about the files looked up (`MergedSoFar`). Between the
  two is `LookUpIsSpeaking`: the spellings behind a hit are those that speak
  for the file. That the longest needle is one is `OneOfALength`.
  `EntriesTell` needs `EntriesInv` as well: a line has under a spelling what the
  records read so far add up to (`LinesRead`), in an entry what its spellings do
  (`LinesIndexed`), and a row is read off the lines of what speaks for its file
  (`RowsRead`). Sums that wrap at each record, and that are capped at each
  spelling, are those sums wrapped or capped once (`RemainderOfSum`,
  `CapAddsUp`), so neither order shows. The sort loses no row since scores, as
  fractions with the index to break ties, are a strict order (`AboveIsOrder`):
  no two rows have as many above them, and there are as many places as rows
  (`RankedIsTheRows`). The ranges are followed along the lines of the span: those
  closed and the one in progress tile what was missed so far (`InOrder`). A
  fold over a finite set and a recursive function are equations here: that
  something satisfies them (`TallyExists`, `RunsExist`), and what then holds at
  each number, is shown by `FromZero`, where a set of naturals stands in for the
  predicate of an induction. The proof uses that a function's last line is not
  before its first, without which `uncovered_ranges_in_span` would panic, and
  that `Unknown` is no fraction.
* **ComplexityCache** (`RequestsAssumption`, `FilesAssumption`,
  `TreesAssumption`, `NothingsAssumption`, `LimitsAssumption`): `OwnersOnly`
  and `SavesItsShare` without more, and `AnalysisInv`, `CacheIsSound` and `AsUncached`
  under `~ByName`. The invariant adds that what a run holds was computed as it
  would itself (`HoldsItsOwn`), that no file under a root still to be walked
  was met (`Ahead`), and that a run has to do with its members' files only
  (`Mine`). `SavesItsShare` rests on `EvictsTheOwned`: the walk's rule and the
  save's rule agree on whose a file is, for any set of directories.
* **Gate** (`PlacesAssumption`, `MeasuresAssumption`, `RequestsAssumption`,
  `DistinctAssumption`): `TypeOK`, `ScopesAgree`, `PassIsNoRegression`,
  `VerdictMatchesReport`. The invariant says what each stage hands to the next:
  a row is of a place a walk of this run reaches (`Found`), the baseline
  compared is the recorded one without what is out of scope (`Scoped`), the
  verdict is the judgement of rows, selection and baseline (`Counted`), the exit
  code follows from it and the report in the output's slot is this run's
  (`Concluded`). `ScopesAgree` rests on `RecordedScope`: that a recorded file
  passes the filter exactly if a walk would reach it, by case of how the run was
  scoped (`NestedLeftOut`, `MembersScope`, `PathScope`), for any set of
  directories nested in any way. For `PassIsNoRegression` a function that grew
  is, by the same lemma, both walked and compared (`FoundIsCompared`), with its
  own record, since that is of the same file and name. For
  `VerdictMatchesReport` it takes that no two rows shown are written alike
  (`WrittenApart`), or a set of them would lose one.

* **Settings, Wire, Exchange** (`NumbersAssumption`, `NoneAssumption`,
  `InputsAssumption`, `AttemptsAssumption`, `PairAssumption`, `NothingAssumption`,
  `GarbageAssumption`): `NoSmuggling`, `WarnedExactly`, `TriesJustified`,
  `CacheAnswersAsAsked`, `SaidAsMeant`, for any families of inputs, any replies,
  meanings and texts, and any number of runs and attempts. The assumptions say
  what clap and the TOML reader let through (`IsInput`, `Readable`), that `None`,
  `NaN` and `Bad` are none of the values they stand beside, and that damage is
  seen: an entry that no run has written is no verdict, since one that looks like
  a verdict would be taken for one. The invariant (`ExchangeInv`) says of each
  stage what it has checked (`Checked`) and that a run was refused for nothing
  else; that the settings are of this input (`Resolved`); that what was heard was
  waited after (`Waited`); of which meaning the body is (`Understood`); and that
  each key holds a verdict given on what it is the key of, or damage (`Kept`).
  `Kept` alone is inductive only because keys do not run together:
  `KeyIsOwn` takes a key apart field by field, each telling by its length where
  it ends, down to a namespace that one provider has and the other has not.
  For `SaidAsMeant`, `JudgedAs` goes through every fault: an answer there once is
  read, of one there twice TypeSafe reads the last and OpenAI none (`Reading`),
  and a level sent by a number of its own comes back as the level meant, though
  noise moved it (`DecodedAs`). `NoSmuggling` is by `MovedIsSame`, one value's
  move from the flag to the file: the file a run finds is the same one
  (`NearestIsOne`), what is refused is refused, and what is settled is the same.

* **Report, Orders, DupSection, Layout** (`CapsAssumption`, `SignalsAssumption`, `NoneAssumption`,
  `InputsAssumption`): `GateIsTold`, `FormatsAgree`, `AllTold`, `VerdictsInPlace`,
  `PlacesTell`, `TableFits`, for any functions, signals, caps, thresholds, orders and slices, any
  groups, verdicts, pairs, budgets and records, and any files, working directory and
  workspace, and any widths of texts and terminals. The assumptions say that two
  functions are two places in the order (`merge` gives one row a function) and so
  are two that are gone, that no signal is called `crap`, and that scores are
  naturals: the code's are finite floats, which the properties only compare,
  subtract and count. The invariant says what a writer is given: the counts and
  the gate are of every function (`CountsHold`), the rows are the slice's, each
  once (`RowsHold`), and what is gone is all there, in some order
  (`RemovedHolds`). That counts and rows disagree under a slice is the
  point: `RowsAndCounts` says in which direction, which is all `GateIsTold` needs.
  The rest is about sorting, picking and cutting: a sorted set is the set
  (`ListedInOrder`: no two members have as many before them, and there are as
  many places as members), what is cut comes after what is left (`FirstAreBefore`,
  `CappedTells`), and labelled things, counted label by label, are all of
  them (`LabelsAddUp`, for the rollups per crate). For `AllTold` each section is a
  `Shelf`, which shows some rows of a part and counts the others, and is `Fair` to
  them; four shelves of four parts tell the whole (`ShelvesTell`). For
  `VerdictsInPlace`, `SpreadTells` has each answer back at the group it was asked
  about, since no group is asked about twice (`AskedTells`); so verdicts and
  untriaged together are the questions, counted by question or by group
  (`AnswersCount`), and the summary line's levels, by `LabelsAddUp` again, are the
  verdicts (`SummaryAddsUp`). Of the duplicates it takes that a confidence is a
  number and that groups and their members come in sequences (`IsResult`); which
  groups there are, and what triage says of them, is left open. For `PlacesTell`,
  the prefix cut off a comment's locations is a directory that every file starts
  with and none is, whichever of the three it is (`RenderPrefixTells`), and cutting
  off such a one is undone by putting it back (`StrippedApart`); a path made
  relative to the workspace is not from the root, so it is put back below the
  workspace, and a link is what is left of the file below the working directory
  (`WrittenTells`, `LinkTells`). Of paths it takes what `std::path` says, that the
  root is a first component only, that the two directories are absolute, as
  `current_dir` and cargo give them, and that no file is one of them (`IsFile`). For
  `TableFits`, a column cut to a budget keeps to it from its floor up
  (`FunctionsTell`, `UncoveredTells`, `LocationsTell`; the floor of Location is what
  is left when every path is cut as far as it can be, `LocationTells`). So
  each column that gives way takes no more than it was granted and leaves
  the next at least its floor (`FitTwoTells`, `FitTells`), and the narrowest step
  of `layout` is always there to fall back on (`LayoutTells`). Which
  form of a moved row's Location is drawn is a choice among plans that fit
  (`DrawnTells`). Of texts it takes that widths are naturals and that a tail is no
  wider than its path (`IsText`).

* **Source, Measure, Shapes, Syntax** (`InputsAssumption`,
  `TryWeightAssumption`): `PassesAgree`, `ComplexityIsOwn`, `SignalsExact`,
  `OneMeansSameOutline` and `PairsExact`, for any files with any trees in any order, any weight, minimum
  and threshold. The assumptions are that what parses is a tree, and that no two
  files of a walk have one name. A visitor is an equation here, as a recursive
  function of the model is: that something satisfies it (`TakesExist`, `NormsExist`,
  `VisitsExist`, `WalksExist`, `UptosExist`), and what then holds at each node, is shown from the last node
  of a row to its first, what a node needs being all after it (`FromTheTop`, a
  set of numbers in place of a predicate). `TakenLists` says that a visitor that
  stops at some nodes takes the sites that nothing it stopped at is around, each
  once and in order, which gives the complexity (`CountTells`) and what the
  duplicate pass collects (`CollectLists`). `VisitSees` says it of the visitor with
  an owner, and that the owner is put back. The invariant has what each pass has
  found in the files it has taken, file for file, and for comparing only what
  is large enough, in place order.
  For `SignalsExact`, a node has a level, the number of bodies around it in the
  whole file (`Level`; `Reach` adds the body a match without arms has). A child is
  one level below its parent if it is a body and on its level if not (`KidLevel`),
  and the depth of a node under a statement is the difference of two levels
  (`DepthIsLevel`). A walk is described by what it does to a walker (`Walked`): it
  puts the depth back, has been as deep as the deepest node it passed and no
  deeper, keeps the first of the conditions with the most operators, and adds the
  sites it passed in order. Walks of two rows make one (`WalkedJoin`), which holds
  for the operators only because a condition is scored before it is walked, so
  that conditions are met in source order. From there, one lemma for each kind of
  node (`IfWalked`, `ArmWalked`, `MatchWalked` and so on, together `NodeWalked`)
  gives the whole walk (`WalkWalks`), and the statements of a body are added up one
  by one (`ToldNext`, `SignalsTold`).
  For `OneMeansSameOutline`, normalising spells a row (`NormSpells`): the kept nodes
  in order, each with its kind and label and the number of kept nodes in it. The
  longest fingerprint is the whole shape, so equal sets are equal shapes
  (`PrintsTell`), and a score of one is equal sets (`OneMeansSamePrints`); and a
  row whose counts nest is known from which node is inside of which
  (`FactsTell`), so shapes are equal if outlines are and only then. For
  `PairsExact`, fractions are compared by products (`Shares`), the order sorted by
  is strict (`SoonerIsAnOrder`) and a finite set listed by a strict order has each
  element once (`ListedInOrder`).

Only model-checked: liveness (`RunsEnd`), which the prover does not do; and
`CachesMeet`, which is about what cargo says, an input here that no assumption
could state without restating `TargetBelow`. It says that the two ways of finding
the target directory agree, `build.target-dir` apart (section 5), of packages that
are members of the workspace above them.

## 5. Disagreements

The first is a run that must fail; the others were met while modelling and are
described only.

### A new stub that does not trip the gate

`GateNewStubs` refutes "a new function with a stub trips the gate"
(`specs/43-structural-signals.md:282-291`). `do_render` compares signals only if
some entry of the baseline has them, and asks the baseline that the filters and
the member scope have narrowed (`src/main.rs:1934`). Record a workspace with
signals, add a member with a function whose body is `todo!()`, and run
`-p <the member> --baseline --fail-regression`: nothing recorded is in scope,
the baseline counts as one without signals, and the exit code is 0. Without
`-p` it is 1.

### A record of the root package lost

The code contradicts "the root package never claims cross-root paths — when in
doubt, keep the entry [...] never hides a pairing" (`src/main.rs:738-741`).
Against a baseline from another checkout the directory of a member is looked
for anywhere in the path. With `src/a/lib.rs` in the root package beside a
member in `a/`, a run of the root package alone drops the record
`/o/src/a/lib.rs`: the function counts as new and may have become any worse.

### A slice that hides the alarm

The gate is counted before `--top` and `--min` narrow the rows
(`src/main.rs:1944`), but the headline of `markdown` and `pr-comment` counts reasons in
the rows left (`report/markdown.rs:131-143`, `report/pr_comment.rs:274-286`). With a
gated signal in a row that is not shown, the run exits 1 under the headline "No
CRAP regressions", where `specs/43-structural-signals.md:522-529` has the headline
name the signals. `GateIsTold` says what does hold: a page that was not
sliced, and every summary, tells the gate.

### The worst function of a summary

`write_summary` names `entries.first()` as the worst (`report/summary.rs:33-34`).
With `--sort file` that is the first by file, not by score.

### A cut that widens

`shorten_location` promises that a location with "no directory to drop, comes back
unchanged" (`src/report/types.rs:333-334`). `/build.rs:12` has none but the root,
and comes back as `…/build.rs:12`, one column wider. The floor `can_fit`
measures (`report/layout.rs`) counts that column, so a table whose widest location
is such a file, and whose names are no wider than their header, may lose its bar
on a terminal it fits exactly. The second half of
`FitsIfItCan` is about the other tables, whose Location has a floor no wider than
itself; the run has both kinds.

### An epsilon that is no number

`validate_merged_values` and `validate_args` refuse an epsilon with `< 0.0`, which
NaN is not. `epsilon = nan` in the file is accepted, no difference is ever greater
than it, and nothing regresses. NaN is among the values of the run `Exchange`:
`NoSmuggling` says that a flag and the file are treated alike, and so they are,
both accept it.

### Limits the documentation states or leaves open

`--fail-above` judges the rows `--min` and `--top` leave, as its documentation
says; `VerdictMatchesReport` says no more. A report recorded under `--top` or
`--min` holds the slice, and a later run of the same settings calls the rest
new: with signals on it has reasons for their stubs, although "a run compared
with itself has no reasons" (`specs/43-structural-signals.md:563`) if that is
read to cover such reports. `ScopesAgree` leaves aside records under no member's
directory, where only the windows decide. `PassIsNoRegression` is about a
function found under its own file and name; of the others only the pairing can
say who they were.

Runs of one project do not always share their caches. A run by `--path` does not
read `build.target-dir` of `.cargo/config.toml`, which `--workspace` and `-p` follow
through cargo: a "known limitation" (`specs/10-incremental-cache.md:110-112`,
`src/cache/target.rs:12-14`). The run `Exchange` has projects that set it, and
`CachesMeet` says where each mode then goes. Nor does `workspace_root` know a package
that a workspace leaves out (`workspace.exclude`) or one whose `package.workspace`
names another: it takes the nearest `[workspace]` above, as documented, where cargo
takes the package's own root. These are not among the inputs.

A remap of roots can be reported as a move. Record `/app/src/lib.rs:f` and
`/app/b/src/lib.rs:f`, check the tree out under `/home` and compare.
`b/src/lib.rs` pairs with itself by three components. `src/lib.rs` shares two
components with both recorded files; that is a tie, the suffix pass runs one
round only, and `f` of `src/lib.rs` goes on to the name-only pass, where it is
alone on each side: it is paired with itself as `Moved`, where
`specs/21-suffix-aware-baseline-matching.md:48` has a remap be no move. The
partner is the right one (`RemapKeepsIdentity`), so the gate is not affected.
(`novelty.rs` repeats its suffix rounds until one pairs nothing, and does not
have this case.)

### A limit of the cache's header

"A rebuilt binary never reads scores an older algorithm produced"
(`src/cache/complexity.rs:9`) rests on what `current_exe` names. Where it names
a path, a binary replaced between its start and `Session::open` (in workspace
mode `cargo metadata` runs in between) describes the new file and records what
the old algorithm finds. On Linux `/proc/self/exe` of a replaced file does not
canonicalise and the cache is off. The theorems assume that, as `~ByName`, and
so does the run; nothing is shown of the other systems.

### Coverage not found from inside a member

The code contradicts "we try progressively shorter suffixes against
canonical complexity paths" (`src/merge.rs:23`). Run the program in a member's
directory, with the default `--path .` or `--path src`, and a report relative to
the workspace. The walk gives `src/lib.rs`, the report says
`vendor/src/lib.rs`; the file's real path ends in that, but `lookup` compares
the path as walked, which is shorter than the needle. The file counts as
uncovered, and the diagnostics name it and the spelling as strays. Nor does a
needle that begins with `/` (an absolute spelling without a file, "coverage
produced in a container at a different root") or with `..` ever end the path of
an analysed file, unless that is spelled the same.

### A limit of comparing groups under another root

`RemapKeepsGroups` asks that neither root has a component that occurs below it.
The scenario "every path has another root prefix"
(`specs/42-suffix-aware-duplicate-delta.md:132-140`) does not. Record a group of
`lib.rs:fmt` and `src/lib.rs:fmt` from a checkout whose root ends in `src`, as
`home/src/lib.rs` and `home/src/src/lib.rs`: `lib.rs` shares one component with
both and `src/lib.rs` two with both, nothing pairs in any round, two functions of
a name are no move, and the group is "new" and the recorded one resolved. The
test of that name (`src/duplicates/novelty.rs:855`) tries one root.

## 6. Not modelled

The GitHub Action's shell scripts: steps around the program, run one after the
other on a machine of their own. Parsing Rust, TOML, JSON and LCOV, which
libraries do. Floating-point rounding (`score.rs`, `jaccard`), colour, the
progress spinner, wording and escaping. Three warnings about a baseline (recorded
under another `?` weight, without signals, without duplicates), each one
comparison of two values. Hash collisions, in fingerprints, cache keys and
content hashes. Hits of one line are added with `+=` (`coverage.rs:180`): `Merge`
wraps as a release build does, a debug build panics. PID namespaces: two
containers sharing a `target/` may run processes with one pid; the model's
processes are one kernel's.
