----------------------------- MODULE MCExchange -----------------------------
(***************************************************************************)
(* Instances of Settings and Exchange for TLC.  A family is what one       *)
(* project may see: a knob as a flag and in the file, globs in both        *)
(* places, a workspace run from different directories, a pair judged by    *)
(* one API or the other, over replies or over meanings.                    *)
(***************************************************************************)
EXTENDS Exchange

W == <<"/", "w">>
A == <<"/", "w", "a">>
Src == <<"/", "w", "a", "src">>
Out == <<"/", "o">>
Env == {"CARGO_TARGET_DIR", "CARGO_BUILD_TARGET_DIR", "TYPESAFE_API_KEY", "OPENAI_API_KEY",
        "GITHUB_SERVER_URL", "GITHUB_REPOSITORY", "GITHUB_SHA"}

Reply(status, whole, after) == [status |-> status, whole |-> whole, after |-> after]
Fine == Reply(200, TRUE, None)

(* A workspace with a member in it, run at its root, with the file in it. *)
Home == [cwd |-> W, dirs |-> {<<"/">>, W, A, Src, Out}, files |-> (W :> Blank),
         manifests |-> (W :> "workspace" @@ A :> "package"),
         metadata |-> Append(W, "target"), root |-> W, buildDir |-> None, env |-> [v \in Env |-> None], hit |-> {"hit"},
         lines |-> <<<<1>>, <<1, 2>>, <<2>>, <<1>>>>,
         spans |-> <<[from |-> 1, to |-> 2], [from |-> 3, to |-> 3]>>,
         version |-> 1, replies |-> {Fine}, meanings |-> {}]

In(c, cfg) == [cmd |-> c, world |-> [Home EXCEPT !.files[W] = cfg]]
Flag(k, v) == IF k \in Flagged THEN [Bare EXCEPT !.value[k] = v] ELSE Bare
File(k, v) == [Blank EXCEPT !.value[k] = v]

(* The values of a knob that tell. *)
Values(k) ==
    CASE k = "epsilon" -> {-1, 0, 2, NaN} [] k = "jobs" -> {0, 2} [] k \in {"min", "threshold"} -> {0, 500}
      [] k \in {"dup_threshold", "floor"} -> {-1, 0, 90, 100, 101, NaN}
      [] k = "try_weight" -> {-1, 50, 10000, 10001, NaN}
      [] k \in {"top", "max_requests", "min_nodes"} -> {0, 3}
      [] k = "missing" -> {"skip", "optimistic"} [] k = "sort" -> {"crap", "file"}
      [] k = "provider" -> {"typesafe", "openai", "acme"} [] OTHER -> {<<70>>}
Knobs == UNION {{In(Flag(k, v), File(k, u)) :
                   v \in Values(k) \cup {None}, u \in Values(k) \cup {None}} : k \in Configured}

Toggles ==
    {In([Bare EXCEPT !.on[s] = TRUE, !.baseline = b], cfg) :
       s \in SwitchFlags \ {"duplicates"}, b \in BOOLEAN,
       cfg \in {Blank, [Blank EXCEPT !.on["fail_regression"] = TRUE, !.cache = FALSE]}}
      \cup {In([Bare EXCEPT !.workspace = w, !.packages = p, !.path = <<"none">>], Blank) :
              w \in BOOLEAN, p \in {{}, {"a"}}}
      \cup {In(Bare, [Blank EXCEPT !.gate = g, !.limits["lines"] = n]) :
              g \in {None, <<>>, <<"stubs", "bool-ops", "bool_ops">>, <<"size">>},
              n \in {None, -1, 0, MaxLimit, MaxLimit + 1}}
      \cup {[cmd |-> Bare, world |-> [Home EXCEPT !.files[W] = Bad]]}
      \cup {[cmd |-> [Bare EXCEPT !.repoUrl = u, !.commitRef = r],
             world |-> [Home EXCEPT !.env["GITHUB_SHA"] = <<3>>, !.env["GITHUB_SERVER_URL"] = <<1>>,
                                    !.env["GITHUB_REPOSITORY"] = p]] :
              u \in {None, <<9>>}, r \in {None, <<8>>}, p \in {None, <<2>>}}

GlobLists == {<<>>, <<"hit">>, <<"miss">>, <<"miss", "hit", "miss">>}
Globs ==
    {In([Bare EXCEPT !.exclude = c, !.noDefaults = n],
        [Blank EXCEPT !.exclude = f, !.defaults = d]) :
       c \in GlobLists, f \in GlobLists, n \in BOOLEAN, d \in {None, <<"tests">>}}

(* A member of a workspace, or a package by itself; a manifest beside its  *)
(* sources may be broken.                                                  *)
Layouts == {W :> "workspace" @@ A :> "package" @@ <<"/">> :> "package",
            W :> "workspace" @@ A :> "package" @@ Src :> "broken",
            W :> "package" @@ A :> "package", A :> "package"}
CargoRoot(m) == IF W \in DOMAIN m /\ m[W] = "workspace" THEN W ELSE A

(* What cargo says of a run at d, in its order: the variables, of which it *)
(* takes no empty one, .cargo/config.toml, and the workspace.              *)
CargoTarget(d, m, t, b, o) ==
    CASE t = <<>> \/ (d \in DOMAIN m /\ m[d] = "broken") -> None
      [] t \notin {None, <<>>} -> Joined(d, t)
      [] t = None /\ b # None -> Joined(d, b)
      [] OTHER -> IF o # None THEN o ELSE Append(CargoRoot(m), "target")

AllPlaces ==
    {[cmd |-> c,
      world |-> [Home EXCEPT !.cwd = d, !.manifests = m, !.files = f, !.root = CargoRoot(m),
                             !.env["CARGO_TARGET_DIR"] = t, !.env["CARGO_BUILD_TARGET_DIR"] = b,
                             !.buildDir = o, !.metadata = CargoTarget(d, m, t, b, o)]] :
       c \in {[Bare EXCEPT !.path = p] : p \in {<<>>, A, Src}} \cup {[Bare EXCEPT !.workspace = TRUE]},
       d \in {A, Src}, m \in Layouts,
       f \in {<<>>, Src :> Blank @@ W :> Bad, A :> [Blank EXCEPT !.value["jobs"] = 0]},
       t \in {None, <<>>, <<"t">>, Out}, b \in {None, Out}, o \in {None, Append(W, "built")}}

(* A run that asks cargo goes no further when cargo fails. *)
Places == {in \in AllPlaces : PathIgnored(in.cmd) => in.world.metadata # None}

(* The triage of one pair. *)
Judging(p, m, w) ==
    [cmd |-> [Bare EXCEPT !.on["duplicates"] = TRUE],
     world |-> [w EXCEPT !.files[W] = [Blank EXCEPT !.on["triage"] = TRUE, !.value["provider"] = p,
                                                    !.value["model"] = m],
                         !.env["TYPESAFE_API_KEY"] = <<1>>, !.env["OPENAI_API_KEY"] = <<1>>]]

Meaning == [kind |-> "shared_shape_only", confidence |-> 5, level |-> "worthwhile", off |-> 0,
            first |-> 0, echoed |-> TRUE, divergence |-> 5, fault |-> None, at |-> "kind"]

(* Replies of every class, in any order. *)
Weather ==
    {Judging(p, None, [Home EXCEPT !.meanings = {Meaning},
        !.replies = {Fine, Reply(0, TRUE, None), Reply(200, FALSE, None), Reply(200, FALSE, 4),
                     Reply(401, FALSE, 4), Reply(429, TRUE, 4), Reply(429, TRUE, None),
                     Reply(529, FALSE, 60), Reply(400, TRUE, None)}]) : p \in {"typesafe", "openai"}}

(* Meanings of every kind, at every bound, with whatever may go wrong. *)
AnyMeaning ==
    {[Meaning EXCEPT !.kind = k, !.level = l, !.off = o, !.first = f, !.echoed = e] :
       k \in {"same_logic", "parameterisable"}, l \in Range(Labels), o \in {-4, -2, -1, 0, 1, 4},
       f \in {0, One}, e \in BOOLEAN}
      \cup {[Meaning EXCEPT !.confidence = c, !.divergence = d] :
              c \in {-2, -1, 0, 10, 11, 12}, d \in {-2, -1, 0, 10, 11, 12}}
      \cup {[Meaning EXCEPT !.fault = f, !.at = q] :
              f \in {"refused", "missing", "twice"}, q \in Questions}
      \cup {[Meaning EXCEPT !.fault = "unoffered"]}
Worded(p, floor) ==
    [Judging(p, None, [Home EXCEPT !.meanings = AnyMeaning]) EXCEPT !.world.files[W].value["floor"] = floor]
Words == {Worded("typesafe", None), Worded("openai", 100)}

(* The pair, as it is edited and asked about; texts that run together. *)
Keyed ==
    {Judging(p, m, [Home EXCEPT !.lines = l, !.version = v,
                                !.meanings = {Meaning, [Meaning EXCEPT !.kind = "same_logic"]}]) :
       p \in {"typesafe", "openai"}, m \in {None, <<>>, <<79>>}, v \in {1, 2},
       l \in {Home.lines, <<<<1>>, <<1>>, <<2, 2>>>>}}
      \cup {Judging("typesafe", None, [Home EXCEPT !.lines = <<<<1>>, <<2>>>>]),
            [Judging("openai", None, Home) EXCEPT !.world.env["OPENAI_API_KEY"] = <<>>],
            [Judging("openai", None, Home) EXCEPT !.world.files[W].value["max_requests"] = 0],
            [Judging("openai", None, Home) EXCEPT !.world.files[W].on["triage"] = FALSE]}

AllFamilies == <<Knobs, Toggles, Globs, Places, Weather, Words, Keyed>>
GarbageEntries ==
    {Bad, [kind |-> "same_logic", confidence |-> 11, worth_extracting |-> 0, divergence_risk |-> 0]}
=============================================================================
