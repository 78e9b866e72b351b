------------------------------ MODULE Settings ------------------------------
(***************************************************************************)
(* src/main.rs `parse_and_validate' and `resolve_settings', config.rs,     *)
(* `SignalSettings::resolve' and cache/target.rs: what a run is to do,     *)
(* settled from its command line, the nearest .cargo-crap.toml and the     *)
(* environment before it reads a source file.                              *)
(*                                                                         *)
(* A number with a fraction is in hundredths, NaN apart.  A path is the    *)
(* sequence of its components, an absolute one begins with "/", and "." is *)
(* the empty one.  A file that clap or the TOML reader takes no Config     *)
(* from (a syntax error, an unknown key, a value of another type) is Bad.  *)
(***************************************************************************)
EXTENDS Integers, FiniteSets, SequencesExt

CONSTANTS Families,    \* sets of inputs: the runs a project sees, by what varies
          None,        \* a value that is not given
          NaN,         \* the number that is none
          Bad,         \* a configuration that cannot be read
          MaxLimit,    \* u32::MAX
          MaxRuns      \* bound on the runs of one project

ASSUME NumbersAssumption == NaN \notin Int /\ MaxLimit \in Nat /\ MaxRuns \in Nat
ASSUME NoneAssumption == None \notin Int /\ None # NaN /\ None # Bad

VARIABLES family,  \* the inputs this project's runs are taken from
          input,   \* the run's command line, and the world it starts in
          stage,   \* what it does next, "failed" (exit code 2), or "settled" and on
          settled, \* its settings
          runs

-----------------------------------------------------------------------------
(* What may be set.  Every value may be configured, those of Flagged by a  *)
(* flag as well; and so the switches.                                      *)
Flagged == {"threshold", "min", "top", "missing", "sort", "epsilon", "jobs", "dup_threshold"}
Configured == Flagged \cup {"try_weight", "min_nodes", "provider", "model", "floor", "max_requests"}
SwitchFlags == {"fail_above", "fail_regression", "show_unchanged", "duplicates"}
Switches == SwitchFlags \cup {"uncovered_hints", "triage", "signals"}

(* Signal::ALL, in report order, and those with a limit. *)
AllSignals == <<"nesting", "lines", "bumps", "bool_ops", "stubs", "panics">>
Limited == {"nesting", "lines", "bumps", "bool_ops"}
DefaultGate == <<"nesting", "bumps", "bool_ops", "stubs">>

(* The APIs, what each calls its variables, and PROVIDERS, by their ids. *)
TypeSafe == [key |-> "TYPESAFE_API_KEY", model |-> <<74>>, namespace |-> None]
OpenAi == [key |-> "OPENAI_API_KEY", model |-> <<71>>, namespace |-> <<79>>]
Providers == [typesafe |-> TypeSafe, openai |-> OpenAi]

(* The values of a key that nobody sets, but for the model. *)
Default == [k \in Configured |->
              CASE k = "threshold" -> 3000 [] k = "epsilon" -> 1 [] k = "try_weight" -> 100
                [] k = "dup_threshold" -> 82 [] k = "min_nodes" -> 20 [] k = "floor" -> 50
                [] k = "missing" -> "pessimistic" [] k = "sort" -> "crap"
                [] k = "provider" -> "typesafe" [] OTHER -> None]

(* Config::default. *)
Blank == [value |-> [k \in Configured |-> None], on |-> [s \in Switches |-> None],
          cache |-> None, exclude |-> <<>>, defaults |-> None, allow |-> <<>>,
          gate |-> None, limits |-> [s \in Limited |-> None]]

(* Cli without arguments. *)
Bare == [value |-> [k \in Flagged |-> None], on |-> [s \in SwitchFlags |-> FALSE],
         path |-> <<>>, workspace |-> FALSE, packages |-> {}, baseline |-> FALSE,
         exclude |-> <<>>, noDefaults |-> FALSE, noCache |-> FALSE, allow |-> <<>>,
         repoUrl |-> None, commitRef |-> None]

(* Texts, byte by byte. *)
Texts == Seq(Int)

(* What clap makes of a command line, and the TOML reader of a file. *)
IsCli(c) ==
    /\ DOMAIN c = DOMAIN Bare /\ DOMAIN c.value = Flagged
    /\ c.exclude \in Seq(Range(c.exclude))
IsConfig(cfg) ==
    /\ DOMAIN cfg = DOMAIN Blank /\ DOMAIN cfg.value = Configured
    /\ cfg.exclude \in Seq(Range(cfg.exclude))
    /\ cfg.value["model"] \in Texts \cup {None}

(* A run's command line, and the world it starts in: where it runs, what   *)
(* is on the disk and in the environment, what cargo and the globs say,    *)
(* and the pair, the API and its questions (Exchange).  Of cargo, metadata *)
(* and root are the target_directory and workspace_root it would report,   *)
(* None if it fails; buildDir is what .cargo/config.toml sets              *)
(* build.target-dir to, which no step below reads.                         *)
IsInput(in) ==
    /\ IsCli(in.cmd)
    /\ DOMAIN in.world = {"cwd", "dirs", "files", "manifests", "metadata", "root", "buildDir",
                          "env", "hit", "lines", "spans", "version", "replies", "meanings"}
    /\ in.world.cwd \in Seq(STRING)
    /\ \A d \in DOMAIN in.world.files : in.world.files[d] = Bad \/ IsConfig(in.world.files[d])

(* Nor is a configuration with a value of the command line's in it Bad.    *)
Readable(in) ==
    \A d \in DOMAIN in.world.files, k \in Flagged :
        in.world.files[d] # Bad => [in.world.files[d] EXCEPT !.value[k] = in.cmd.value[k]] # Bad

ASSUME InputsAssumption == \A f \in DOMAIN Families : \A in \in Families[f] : IsInput(in) /\ Readable(in)

-----------------------------------------------------------------------------
(* Directories.                                                            *)
Joined(dir, path) == IF path # <<>> /\ path[1] = "/" THEN path ELSE dir \o path
Ancestors(dir) == {SubSeq(dir, 1, n) : n \in 1 .. Len(dir)}
Nearest(S, dir) ==
    LET above == S \cap Ancestors(dir) IN
    IF above = {} THEN None ELSE CHOOSE d \in above : \A e \in above : Len(e) <= Len(d)

(* config::find: from the working directory up, whatever --path says. *)
FoundIn(w) == Nearest(DOMAIN w.files, w.cwd)

(* config::load. *)
Config(w) == IF FoundIn(w) = None THEN Blank ELSE w.files[FoundIn(w)]

(* A variable of the environment; an empty one is as good as none. *)
Set(w, name) == IF w.env[name] = <<>> THEN None ELSE w.env[name]

(* A slip: the manifest next above. *)
WorkspaceRoot_Next(w, dir) == Nearest(DOMAIN w.manifests, dir)

(* target.rs workspace_root: a manifest that does not parse declares no    *)
(* workspace, and is a manifest.                                           *)
WorkspaceRoot(w, dir) ==
    LET declared == Nearest({d \in DOMAIN w.manifests : w.manifests[d] = "workspace"}, dir) IN
    IF declared # None THEN declared ELSE Nearest(DOMAIN w.manifests, dir)

(* target_dir, of a run that does not ask cargo. *)
TargetBelow(w, path) ==
    LET start == Joined(w.cwd, path)
        env == IF Set(w, "CARGO_TARGET_DIR") # None THEN Set(w, "CARGO_TARGET_DIR")
               ELSE Set(w, "CARGO_BUILD_TARGET_DIR")
        root == IF WorkspaceRoot(w, start) # None THEN WorkspaceRoot(w, start) ELSE FoundIn(w)
    IN IF env # None THEN Joined(w.cwd, env)
       ELSE IF root = None THEN None ELSE Append(root, "target")

-----------------------------------------------------------------------------
(* The flags and the file, brought together.                               *)
OneOf(first, second) == IF first # None THEN first ELSE second
Given(cmd, k) == IF k \in Flagged THEN cmd.value[k] ELSE None
Merged(cmd, cfg) ==
    [k \in Configured |->
       OneOf(Given(cmd, k),
             OneOf(cfg.value[k],
                   IF k = "model"
                     THEN Providers[OneOf(cfg.value["provider"], Default["provider"])].model
                     ELSE Default[k]))]

(* resolve_bool, and the switches without a flag. *)
On(cmd, cfg) == [s \in Switches |-> (s \in SwitchFlags /\ cmd.on[s]) \/ cfg.on[s] = TRUE]

(* DEFAULT_EXCLUDES. *)
BuiltIn == <<"tests", "benches", "examples">>

(* A slip: the globs are counted after the command line's have joined. *)
Excludes_CountedLate(cmd, cfg) ==
    [defaults |-> IF cmd.noDefaults THEN <<>> ELSE OneOf(cfg.defaults, BuiltIn),
     user |-> cfg.exclude \o cmd.exclude, cliStart |-> Len(cfg.exclude \o cmd.exclude)]

(* effective_excludes. *)
Excludes(cmd, cfg) ==
    [defaults |-> IF cmd.noDefaults THEN <<>> ELSE OneOf(cfg.defaults, BuiltIn),
     user |-> cfg.exclude \o cmd.exclude, cliStart |-> Len(cfg.exclude)]

(* unmatched_cli_excludes. *)
Unmatched(ex, matched) ==
    {ex.user[n] : n \in {m \in ex.cliStart + 1 .. Len(ex.user) : ~matched[m]}}

(* Signal::parse: - is as good as _. *)
Meant(name) == IF name = "bool-ops" THEN "bool_ops" ELSE name

(* The gate SignalSettings::resolve makes of the names: sorted, then       *)
(* without repeats.                                                        *)
Gated(cfg) ==
    IF cfg.gate = None THEN DefaultGate
    ELSE SelectSeq(AllSignals, LAMBDA s : \E n \in DOMAIN cfg.gate : Meant(cfg.gate[n]) = s)

(* resolve_source_links: both parts, or no links. *)
Links(cmd, w) ==
    LET hosted == IF w.env["GITHUB_SERVER_URL"] # None /\ w.env["GITHUB_REPOSITORY"] # None
                    THEN w.env["GITHUB_SERVER_URL"] \o w.env["GITHUB_REPOSITORY"] ELSE None
        url == OneOf(cmd.repoUrl, hosted)
        ref == OneOf(cmd.commitRef, w.env["GITHUB_SHA"])
    IN IF url # None /\ ref # None THEN <<url, ref>> ELSE None

-----------------------------------------------------------------------------
(* What is refused.                                                        *)
Under(v, bound) == v # NaN /\ v < bound
Between(v, low, high) == v # NaN /\ low <= v /\ v <= high

(* path_is_ignored. *)
PathIgnored(cmd) == cmd.workspace \/ cmd.packages # {}

(* clap's conflict, then validate_args. *)
ArgsHold(cmd, w) ==
    /\ cmd.workspace => cmd.packages = {}
    /\ PathIgnored(cmd) \/ Joined(w.cwd, cmd.path) \in w.dirs
    /\ cmd.on["fail_regression"] \/ cmd.on["show_unchanged"] => cmd.baseline
    /\ cmd.value["jobs"] # 0
    /\ cmd.value["epsilon"] # None => ~Under(cmd.value["epsilon"], 0)
    /\ cmd.value["dup_threshold"] # None => Between(cmd.value["dup_threshold"], 0, 100)

(* A slip: what validate_args has checked is not checked again. *)
ValuesHold_FlagsChecked(value) ==
    /\ Between(value["dup_threshold"], 0, 100)
    /\ Between(value["floor"], 0, 100)
    /\ Between(value["try_weight"], 0, 10000)

(* validate_merged_values, validate_triage_floor, validate_try_weight. *)
ValuesHold(value) ==
    /\ ~Under(value["epsilon"], 0)
    /\ value["jobs"] # 0
    /\ Between(value["dup_threshold"], 0, 100)
    /\ Between(value["floor"], 0, 100)
    /\ Between(value["try_weight"], 0, 10000)

(* What SignalSettings::resolve refuses. *)
SignalsHold(cfg) ==
    /\ cfg.gate # None => \A n \in DOMAIN cfg.gate : Contains(AllSignals, Meant(cfg.gate[n]))
    /\ \A s \in Limited : cfg.limits[s] # None => cfg.limits[s] \in 0 .. MaxLimit

(* resolve_triage_provider: an id that nobody configured is the default's. *)
ProviderHolds(cfg) == OneOf(cfg.value["provider"], Default["provider"]) \in DOMAIN Providers

(* LoadedArgs and Settings. *)
Settled(cmd, w) ==
    LET cfg == Config(w)
        ex == Excludes(cmd, cfg)
    IN [value |-> Merged(cmd, cfg), on |-> On(cmd, cfg), gate |-> Gated(cfg),
        limits |-> cfg.limits, excludes |-> ex, allow |-> cfg.allow \o cmd.allow,
        warned |-> Unmatched(ex, [n \in DOMAIN ex.user |-> ex.user[n] \in w.hit]),
        sliced |-> Merged(cmd, cfg)["min"] # None \/ Merged(cmd, cfg)["top"] # None,
        links |-> Links(cmd, w), cache |-> ~cmd.noCache /\ cfg.cache # FALSE,
        target |-> IF PathIgnored(cmd) THEN w.metadata ELSE TargetBelow(w, cmd.path)]

-----------------------------------------------------------------------------
cmd == input.cmd
world == input.world

Check(from, holds, to) ==
    /\ stage = from
    /\ stage' = IF holds THEN to ELSE "failed"
    /\ UNCHANGED <<family, input, settled, runs>>

(* parse_and_load_config, then parse_and_validate in its order. *)
ParseArgs == Check("args", ArgsHold(cmd, world), "config")
LoadConfig == Check("config", Config(world) # Bad, "provider")
ResolveProvider == Check("provider", ProviderHolds(Config(world)), "values")
ValidateValues == Check("values", ValuesHold(Merged(cmd, Config(world))), "signals")
ResolveSignals == Check("signals", SignalsHold(Config(world)), "resolve")

(* resolve_settings, and what else `run' settles before it looks for pairs. *)
Settle ==
    /\ stage = "resolve"
    /\ stage' = "settled" /\ settled' = Settled(cmd, world)
    /\ UNCHANGED <<family, input, runs>>

Begin == ParseArgs \/ LoadConfig \/ ResolveProvider \/ ValidateValues \/ ResolveSignals \/ Settle

-----------------------------------------------------------------------------
Started == stage = "failed" \/ settled # None

(* Whether a run gets past its settings. *)
Accepted(c, w) ==
    /\ ArgsHold(c, w) /\ Config(w) # Bad /\ ProviderHolds(Config(w))
    /\ ValuesHold(Merged(c, Config(w))) /\ SignalsHold(Config(w))

(* A flag's value, in the file instead. *)
Moved(k) ==
    [cmd |-> [cmd EXCEPT !.value[k] = None],
     world |-> [world EXCEPT !.files[FoundIn(world)].value[k] = cmd.value[k]]]

(* What has been checked by each stage has held, and a run is refused for  *)
(* nothing else.                                                           *)
Checked ==
    /\ stage \notin {"args", "failed"} => ArgsHold(cmd, world)
    /\ stage \notin {"args", "config", "failed"} => Config(world) # Bad
    /\ stage \notin {"args", "config", "provider", "failed"} => ProviderHolds(Config(world))
    /\ stage \notin {"args", "config", "provider", "values", "failed"} =>
         ValuesHold(Merged(cmd, Config(world)))
    /\ stage \notin {"args", "config", "provider", "values", "signals", "failed"} =>
         SignalsHold(Config(world))
    /\ stage = "failed" => ~Accepted(cmd, world)

(* The settings are those of the run's own input. *)
Resolved ==
    settled = IF stage \in {"args", "config", "provider", "values", "signals", "resolve", "failed"}
                THEN None ELSE Settled(cmd, world)

(* A value does the same, and is refused the same, as a flag and in the    *)
(* configuration file: the file smuggles in nothing its flag would reject, *)
(* and a flag is stronger than whatever the file says.  (main.rs           *)
(* validate_args, validate_merged_values, parse_and_validate)              *)
NoSmuggling ==
    Started /\ FoundIn(world) # None /\ Config(world) # Bad =>
        \A k \in {j \in Flagged : cmd.value[j] # None} :
            LET moved == Moved(k) IN
            /\ settled # None <=> Accepted(moved.cmd, moved.world)
            /\ settled # None => settled = Settled(moved.cmd, moved.world)

(* A run by --path, while build.target-dir alone moves cargo's directory.  *)
BuildDirUnread ==
    /\ ~PathIgnored(cmd) /\ world.buildDir # None
    /\ Set(world, "CARGO_TARGET_DIR") = None /\ Set(world, "CARGO_BUILD_TARGET_DIR") = None

(* Wherever a run starts and whichever member of a workspace it analyses,  *)
(* it keeps its caches where a run that asks cargo does, but for the       *)
(* documented limitation: without a variable that overrides it,            *)
(* build.target-dir of .cargo/config.toml is followed by --workspace and   *)
(* -p only, and a run by --path still has the one directory of its         *)
(* workspace, target/ at the root.  (cache/target.rs target_dir,           *)
(* workspace_root; specs/10-incremental-cache.md:110-112)                  *)
CachesMeet ==
    settled # None /\ world.metadata # None =>
        settled.target = IF BuildDirUnread THEN Append(world.root, "target")
                         ELSE world.metadata

(* Each glob of the command line that excluded nothing is warned of, and   *)
(* no other glob is: however many the file has before it, and whether it   *)
(* has the same one.  (main.rs effective_excludes, unmatched_cli_excludes) *)
WarnedExactly ==
    settled # None =>
        settled.warned = {cmd.exclude[n] : n \in DOMAIN cmd.exclude} \ world.hit
=============================================================================
