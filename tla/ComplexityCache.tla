--------------------------- MODULE ComplexityCache --------------------------
(***************************************************************************)
(* src/cache/complexity.rs and its use in src/complexity.rs and            *)
(* src/main.rs: runs that analyse the files of a tree and keep what they   *)
(* found in one file under the target directory, keyed by path, content,   *)
(* executable and `?' weight.  The cache file itself is written and read   *)
(* whole: it is the register of AtomicRegister.                            *)
(*                                                                         *)
(* A path is the sequence of its components below the workspace.  What     *)
(* analyse_source finds in a file is named by what it depends on: the      *)
(* algorithm (a build of the executable), the weight and the content.      *)
(***************************************************************************)
EXTENDS Integers, Sequences, FiniteSets

CONSTANTS Runs,        \* the runs that may be under way at once
          Files,       \* the Rust files of the tree
          Requests,    \* what a run may be asked for
          FileContents,  \* what a file may hold
          Broken,      \* a content that does not parse
          Absent,      \* "there is no such file"
          Unread,      \* "not read yet"
          Nil,         \* "no entry", "no header", "nothing found"
          FirstTrees,  \* the trees to begin with
          ByName,      \* current_exe names a path, not the running file
          MaxStarts,   \* how often one run may be started
          MaxEdits,    \* how often a file may change
          MaxBuilds    \* how often the executable may be built

VARIABLES source,     \* what each file holds
          exe,        \* the build that is installed
          disk,       \* the cache file: its header and its entries
          phase,      \* where each run is
          opt,        \* what it was asked for
          alg,        \* the build it executes
          header,     \* the header its cache is used under, Nil if it has none
          entries,    \* what its cache held when it was opened
          left,       \* the roots it has still to walk
          todo,       \* the files it found and has not analysed
          taken,      \* what it read of each file
          functions,  \* what it reports of each file
          records,    \* what it will store of each file
          starts,     \* how often each run was started
          edits       \* how often a file changed

outside == <<source, exe, edits>>
analysisVars == <<source, exe, disk, phase, opt, alg, header, entries, left, todo,
                  taken, functions, records, starts, edits>>

-----------------------------------------------------------------------------
(* A request: the roots to walk, the discovered members not selected, the  *)
(* weight, and whether the cache is on.                                    *)
Request == [roots : SUBSET Seq(STRING), kept : SUBSET Seq(STRING),
            weight : Nat, cached : BOOLEAN]

Builds == 1 .. MaxBuilds
Header == [exe : Builds, weight : Nat]
Found == [build : Builds, weight : Nat, content : FileContents]
FileEntry == [content : FileContents, functions : Found]

ASSUME RequestsAssumption == Requests \subseteq Request
ASSUME FilesAssumption == Files \subseteq Seq(STRING)
ASSUME TreesAssumption == FirstTrees \subseteq [Files -> FileContents \cup {Absent}]
ASSUME NothingsAssumption ==
    /\ Absent \notin FileContents /\ Unread \notin FileContents \cup {Absent}
    /\ Nil \notin Requests /\ Nil \notin FileEntry \cup Found \cup Header
ASSUME LimitsAssumption ==
    MaxStarts \in Nat /\ MaxEdits \in Nat /\ MaxBuilds \in Nat \ {0} /\ ByName \in BOOLEAN

(* analyze_source, which finds nothing in what does not parse. *)
Analysis(build, weight, content) ==
    IF content = Broken THEN Nil
    ELSE [build |-> build, weight |-> weight, content |-> content]

Empty == [f \in Files |-> Nil]
NoCache == [header |-> Nil, files |-> Empty]

(* Path::starts_with. *)
Above(d, f) == Len(d) <= Len(f) /\ \A i \in 1 .. Len(d) : d[i] = f[i]

(* rust_files_matching under a root, with nested_member_excludes: nothing  *)
(* below another discovered member's root is walked.                       *)
Walk(o, d) ==
    {f \in Files :
        /\ Above(d, f)
        /\ \A n \in o.roots \cup o.kept : n # d /\ Above(d, n) => ~Above(n, f)}

(* A slip: what is kept is forgotten. *)
Evicted_NothingKept(o, f) == \E w \in o.roots : Above(w, f)

(* evicted: the deepest root above a file decides; on a tie, the walked.   *)
Evicted(o, f) ==
    \E w \in o.roots :
        /\ Above(w, f)
        /\ \A k \in o.kept : Above(k, f) => Len(w) >= Len(k)

-----------------------------------------------------------------------------
AnalysisInit ==
    /\ source \in FirstTrees
    /\ exe = 1 /\ edits = 0
    /\ disk = NoCache
    /\ phase = [r \in Runs |-> "idle"]
    /\ opt = [r \in Runs |-> Nil]
    /\ alg = [r \in Runs |-> 1]
    /\ header = [r \in Runs |-> Nil]
    /\ entries = [r \in Runs |-> Empty]
    /\ left = [r \in Runs |-> {}]
    /\ todo = [r \in Runs |-> {}]
    /\ taken = [r \in Runs |-> [f \in Files |-> Unread]]
    /\ functions = [r \in Runs |-> Empty]
    /\ records = [r \in Runs |-> Empty]
    /\ starts = [r \in Runs |-> 0]

(* A process that does not exist holds nothing. *)
Cleared(r) ==
    /\ header' = [header EXCEPT ![r] = Nil]
    /\ entries' = [entries EXCEPT ![r] = Empty]
    /\ todo' = [todo EXCEPT ![r] = {}]
    /\ taken' = [taken EXCEPT ![r] = [f \in Files |-> Unread]]
    /\ functions' = [functions EXCEPT ![r] = Empty]
    /\ records' = [records EXCEPT ![r] = Empty]

(* The process starts: it is the build that is installed now. *)
StartRun(r) ==
    /\ phase[r] \in {"idle", "done"} /\ starts[r] < MaxStarts
    /\ starts' = [starts EXCEPT ![r] = @ + 1]
    /\ \E o \in Requests :
         /\ opt' = [opt EXCEPT ![r] = o]
         /\ left' = [left EXCEPT ![r] = o.roots]
    /\ alg' = [alg EXCEPT ![r] = exe]
    /\ phase' = [phase EXCEPT ![r] = "started"]
    /\ Cleared(r)
    /\ UNCHANGED <<disk, outside>>

(* Executable::current: a file that was replaced has no canonical path,    *)
(* unless the system names the path and finds the new file there.          *)
Identified(r) == ByName \/ exe = alg[r]

(* A slip: a cache written under another weight is used. *)
Matches_AnyWeight(h) == disk.header # Nil /\ disk.header.exe = h.exe

(* Raw::matches: written by this build, under this weight. *)
Matches(h) == disk.header = h

(* ComplexityCache::load: the entries, if they were written under this     *)
(* header.                                                                 *)
Load(h) == IF Matches(h) THEN disk.files ELSE Empty

(* Session::open, unless the cache is off or the executable is not found.  *)
(* A cache that cannot be read is an empty one.                            *)
OpenCache(r) ==
    LET h == [exe |-> exe, weight |-> opt[r].weight]
    IN
    /\ phase[r] = "started"
    /\ phase' = [phase EXCEPT ![r] = "walking"]
    /\ \/ /\ opt[r].cached /\ Identified(r)
          /\ header' = [header EXCEPT ![r] = h]
          /\ \E held \in {Load(h), Empty} : entries' = [entries EXCEPT ![r] = held]
       \/ /\ ~(opt[r].cached /\ Identified(r))
          /\ UNCHANGED <<header, entries>>
    /\ UNCHANGED <<disk, opt, alg, left, todo, taken, functions, records, starts, outside>>

(* analyze_root: the files below one more root are listed. *)
List(r, d) ==
    /\ phase[r] = "walking" /\ todo[r] = {} /\ d \in left[r]
    /\ left' = [left EXCEPT ![r] = @ \ {d}]
    /\ todo' = [todo EXCEPT ![r] = {f \in Walk(opt[r], d) : source[f] # Absent}]
    /\ UNCHANGED <<disk, phase, opt, alg, header, entries, taken, functions, records, starts, outside>>

(* analyze_file_cached reads a listed file, which may be gone by then. *)
ReadSource(r, f) ==
    /\ phase[r] = "walking" /\ f \in todo[r] /\ taken[r][f] = Unread
    /\ taken' = [taken EXCEPT ![r][f] = source[f]]
    /\ UNCHANGED <<disk, phase, opt, alg, header, entries, left, todo, functions, records, starts, outside>>

(* lookup: an entry hits if its content is what was read. *)
Hit(r, f) ==
    /\ header[r] # Nil /\ entries[r][f] # Nil
    /\ entries[r][f].content = taken[r][f]

(* FileRecord::new. *)
Record(r, f, found) == [content |-> taken[r][f], functions |-> found]

(* The rest of analyze_file_cached: a hit, or a parse of the bytes read; a *)
(* file that could not be read or parsed is neither reported nor stored.   *)
Analyse(r, f) ==
    LET parsed == Analysis(alg[r], opt[r].weight, taken[r][f])
    IN
    /\ phase[r] = "walking" /\ f \in todo[r] /\ taken[r][f] # Unread
    /\ todo' = [todo EXCEPT ![r] = @ \ {f}]
    /\ \/ /\ Hit(r, f)
          /\ functions' = [functions EXCEPT ![r][f] = entries[r][f].functions]
          /\ records' = [records EXCEPT ![r][f] = entries[r][f]]
       \/ /\ ~Hit(r, f) /\ taken[r][f] # Absent /\ parsed # Nil
          /\ functions' = [functions EXCEPT ![r][f] = parsed]
          /\ records' = IF header[r] = Nil THEN records
                        ELSE [records EXCEPT ![r][f] = Record(r, f, parsed)]
       \/ /\ ~Hit(r, f) /\ (taken[r][f] = Absent \/ parsed = Nil)
          /\ UNCHANGED <<functions, records>>
    /\ UNCHANGED <<disk, phase, opt, alg, header, entries, left, taken, starts, outside>>

Walked(r) == phase[r] = "walking" /\ left[r] = {} /\ todo[r] = {}

(* The entry a save carries over: as it was when the cache was opened. *)
CarriedOver(r, f) == IF Evicted(opt[r], f) THEN Nil ELSE entries[r][f]

(* Session::save_keeping: the records in place of what was walked, and     *)
(* what was loaded otherwise, over whatever the file holds by now.         *)
Save(r) ==
    /\ Walked(r) /\ header[r] # Nil
    /\ disk' = [header |-> header[r],
                files |-> [f \in Files |->
                             IF records[r][f] # Nil THEN records[r][f] ELSE CarriedOver(r, f)]]
    /\ phase' = [phase EXCEPT ![r] = "done"]
    /\ UNCHANGED <<opt, alg, header, entries, left, todo, taken, functions, records, starts, outside>>

(* A cache that cannot be written is skipped; without one there is nothing *)
(* to save.                                                                *)
FinishRun(r) ==
    /\ Walked(r)
    /\ phase' = [phase EXCEPT ![r] = "done"]
    /\ UNCHANGED <<disk, opt, alg, header, entries, left, todo, taken, functions, records, starts, outside>>

(* The process is interrupted. *)
Die(r) ==
    /\ phase[r] \in {"started", "walking"}
    /\ phase' = [phase EXCEPT ![r] = "idle"]
    /\ left' = [left EXCEPT ![r] = {}]
    /\ Cleared(r)
    /\ UNCHANGED <<disk, opt, alg, starts, outside>>

(* A file is written or removed. *)
Edit(f) ==
    /\ edits < MaxEdits
    /\ edits' = edits + 1
    /\ \E c \in (FileContents \cup {Absent}) \ {source[f]} : source' = [source EXCEPT ![f] = c]
    /\ UNCHANGED <<exe, disk, phase, opt, alg, header, entries, left, todo, taken, functions,
                   records, starts>>

(* The executable is replaced by a new build. *)
Rebuild ==
    /\ exe < MaxBuilds
    /\ exe' = exe + 1
    /\ UNCHANGED <<source, edits, disk, phase, opt, alg, header, entries, left, todo, taken, functions,
                   records, starts>>

(* `cargo clean', or bytes that are not a cache. *)
Lose ==
    /\ disk # NoCache
    /\ disk' = NoCache
    /\ UNCHANGED <<phase, opt, alg, header, entries, left, todo, taken, functions, records, starts, outside>>

Step(r) ==
    \/ StartRun(r) \/ OpenCache(r) \/ Save(r) \/ FinishRun(r) \/ Die(r)
    \/ \E d \in left[r] : List(r, d)
    \/ \E f \in todo[r] : ReadSource(r, f) \/ Analyse(r, f)

AnalysisNext ==
    \/ \E r \in Runs : Step(r)
    \/ \E f \in Files : Edit(f)
    \/ Rebuild \/ Lose

AnalysisSpec == AnalysisInit /\ [][AnalysisNext]_analysisVars

-----------------------------------------------------------------------------
AnalysisOK ==
    /\ source \in [Files -> FileContents \cup {Absent}]
    /\ exe \in Builds /\ edits \in 0 .. MaxEdits
    /\ disk \in [header : Header \cup {Nil}, files : [Files -> FileEntry \cup {Nil}]]
    /\ phase \in [Runs -> {"idle", "started", "walking", "done"}]
    /\ opt \in [Runs -> Requests \cup {Nil}]
    /\ left \in [Runs -> SUBSET Seq(STRING)]
    /\ \A r \in Runs : phase[r] # "idle" => opt[r] # Nil /\ left[r] \subseteq opt[r].roots
    /\ alg \in [Runs -> Builds]
    /\ header \in [Runs -> Header \cup {Nil}]
    /\ entries \in [Runs -> [Files -> FileEntry \cup {Nil}]]
    /\ todo \in [Runs -> SUBSET Files]
    /\ taken \in [Runs -> [Files -> FileContents \cup {Absent, Unread}]]
    /\ functions \in [Runs -> [Files -> Found \cup {Nil}]]
    /\ records \in [Runs -> [Files -> FileEntry \cup {Nil}]]
    /\ starts \in [Runs -> 0 .. MaxStarts]

(* What a run under a header finds in this content. *)
Holds(h, e) == h # Nil /\ e.functions = Analysis(h.exe, h.weight, e.content)

(* Nothing is stored that a run under the same header would not find for   *)
(* itself, whichever runs, under whichever builds and weights, wrote the   *)
(* file, and whatever was edited under them.                               *)
CacheIsSound == \A f \in Files : disk.files[f] # Nil => Holds(disk.header, disk.files[f])

(* "The functions and the warnings are the same as an uncached walk's":    *)
(* what a run reports of a file it has analysed is what its own algorithm, *)
(* under its own weight, finds in the bytes it read, and it reports no     *)
(* other.                                                                  *)
AsUncached ==
    \A r \in Runs, f \in Files :
        functions[r][f] =
            IF taken[r][f] \in FileContents /\ f \notin todo[r]
              THEN Analysis(alg[r], opt[r].weight, taken[r][f])
              ELSE Nil

(* What a run holds was computed as it would compute it. *)
HoldsItsOwn ==
    \A r \in Runs :
        /\ header[r] # Nil => header[r] = [exe |-> alg[r], weight |-> opt[r].weight]
        /\ \A f \in Files :
             /\ entries[r][f] # Nil => Holds(header[r], entries[r][f])
             /\ records[r][f] # Nil => Holds(header[r], records[r][f])

(* No file under a root still to be walked was met before. *)
Ahead ==
    \A r \in Runs : \A d \in left[r] : \A f \in Walk(opt[r], d) :
        taken[r][f] = Unread /\ f \notin todo[r]

(* The member that owns a file: the deepest of all those discovered. *)
Owner(o, f, d) ==
    /\ d \in o.roots \cup o.kept /\ Above(d, f)
    /\ \A n \in o.roots \cup o.kept : Above(n, f) => Len(n) <= Len(d)

(* One of the members a run walks owns it. *)
Owned(o, f) == \E d \in o.roots : Owner(o, f, d)

(* A run has nothing to do with other files. *)
Mine ==
    \A r \in Runs, f \in Files :
        f \in todo[r] \/ records[r][f] # Nil => Owned(opt[r], f)

AnalysisInv == AnalysisOK /\ CacheIsSound /\ AsUncached /\ HoldsItsOwn /\ Ahead /\ Mine

(* "Each file is analyzed once, by the member that owns it": a file that a *)
(* walk finds was not met before, and belongs to the root being walked; an *)
(* unselected member's files do not leak into its parent's walk.           *)
OwnersOnly ==
    [][\A r \in Runs : \A f \in todo'[r] \ todo[r] :
         /\ taken[r][f] = Unread
         /\ \E d \in left[r] \ left'[r] : Owner(opt[r], f, d)]_analysisVars

(* "Only what a run walked is evicted": a save has exactly what the run    *)
(* analysed of the files its members own, so that what was deleted drops   *)
(* out; and when nothing was saved since the run loaded the cache, every   *)
(* other entry stays as it was.                                            *)
SavesItsShare ==
    [][\A r \in Runs : Save(r) =>
         \A f \in Files :
            IF Owned(opt[r], f)
              THEN disk'.files[f] = records[r][f]
              ELSE disk = [header |-> header[r], files |-> entries[r]]
                     => disk'.files[f] = disk.files[f]]_analysisVars
=============================================================================
