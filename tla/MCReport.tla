------------------------------ MODULE MCReport ------------------------------
(***************************************************************************)
(* Small reports for TLC: three functions with every status and reason,    *)
(* texts of every width, files above and below the working directory, and  *)
(* groups of duplicates with and without verdicts.                         *)
(***************************************************************************)
EXTENDS Report

MCOrder == <<"stub", "nest">>
MCCounts == {"stub"}

Signals(stub, nest) == [s \in {"stub", "nest"} |-> IF s = "stub" THEN stub ELSE nest]
Text(function, location, cut, known, previous) ==
    [function |-> function, location |-> [whole |-> location, tails |-> cut, arrow |-> 0],
     crap |-> 6, cc |-> 2, known |-> known, uncovered |-> 14, previous |-> previous]
Plain == Text(8, 20, {8, 12}, TRUE, None)
Function(key, file, crap, old, previous, signals, crate, text) ==
    [key |-> key, file |-> file, crap |-> crap, old |-> old, previous |-> previous,
     signals |-> signals, crate |-> crate, text |-> text]
At(dirs) == <<"/", "w">> \o dirs
Old(crap, signals) == [crap |-> crap, signals |-> signals]

NoDups == [enabled |-> FALSE, recorded |-> FALSE, triage |-> "off", groups |-> <<>>,
           resolved |-> 0, floor |-> 2, pairs |-> {}]
Settings(format, baseline) ==
    [format |-> format, baseline |-> baseline, summary |-> FALSE, sort |-> "crap", min |-> None,
     top |-> None, threshold |-> 3, epsilon |-> 1, gate |-> {"stub"},
     limits |-> [stub |-> None, nest |-> 1], hints |-> FALSE, all |-> FALSE, width |-> None,
     delta |-> 5, workspace |-> None, cwd |-> At(<<>>)]
Case(s, now, gone, dups) == [q |-> s, now |-> now, gone |-> gone, dups |-> dups]

(* Comparisons: each of three functions absent or in one of these states.  *)
Compared_(key, v) ==
    LET file == At(<<"src", "a">>)
        f(crap, old, signals) == Function(key, file, crap, old, None, signals, None, Plain)
    IN CASE v = "new" -> f(4, None, Signals(0, 1))
         [] v = "stub" -> f(1, None, Signals(1, 0))
         [] v = "nested" -> f(1, None, Signals(0, 2))
         [] v = "worse" -> f(5, Old(3, Signals(0, 0)), Signals(0, 1))
         [] v = "low" -> f(2, Old(0, None), None)
         [] v = "better" -> f(1 + key, Old(3 + 2 * key, Signals(1, 0)), Signals(0, 0))
         [] v = "stubbed" -> f(3, Old(2, Signals(0, 0)), Signals(1, 0))
         [] v = "still" -> f(4 + key, Old(4 + key, Signals(0, 0)), Signals(0, 0))
         [] v = "moved" -> [f(4, Old(4, Signals(0, 0)), Signals(0, 0))
                            EXCEPT !.previous = At(<<"src", "b">>)]
Variants == <<"none", "new", "stub", "nested", "worse", "low", "better", "stubbed", "still", "moved">>
Rising == {v \in [1 .. 3 -> DOMAIN Variants] : v[1] <= v[2] /\ v[2] <= v[3]}
Gone == <<[key |-> 5, file |-> At(<<"src", "d">>), crap |-> 2, signals |-> None],
          [key |-> 4, file |-> At(<<"src", "c">>), crap |-> 1, signals |-> Signals(1, 0)]>>
Comparisons ==
    {Case([Settings(form[1], TRUE) EXCEPT !.summary = form[2], !.all = form[3], !.sort = slice[1],
             !.min = slice[2], !.top = slice[3]],
          {Compared_(k, Variants[v[k]]) : k \in {j \in 1 .. 3 : v[j] > 1}}, gone, NoDups) :
       form \in {<<"human", FALSE, FALSE>>, <<"human", TRUE, FALSE>>, <<"markdown", FALSE, TRUE>>,
                 <<"pr-comment", FALSE, FALSE>>, <<"github", FALSE, FALSE>>, <<"sarif", FALSE, FALSE>>,
                 <<"json", FALSE, FALSE>>, <<"shields", FALSE, FALSE>>},
       slice \in {<<"crap", None, None>>, <<"file", None, 1>>, <<"crap", 2, None>>},
       v \in Rising, gone \in {Gone, <<>>}}

(* Runs without a baseline: scores below, at and above the threshold.      *)
Absolutes ==
    {Case([Settings(form[1], FALSE) EXCEPT !.summary = form[2], !.sort = form[3], !.top = form[4]],
          {Function(k, At(<<"src", "a">>), v[k], None, None, None,
                    IF k = 3 THEN None ELSE IF k = 2 THEN "b" ELSE "a", Plain) :
             k \in {j \in 1 .. 4 : v[j] > 0}}, <<>>, NoDups) :
       form \in {<<"human", FALSE, "crap", None>>, <<"human", TRUE, "file", 2>>,
                 <<"markdown", FALSE, "file", None>>, <<"pr-comment", FALSE, "crap", 2>>,
                 <<"github", FALSE, "crap", None>>, <<"json", FALSE, "file", 1>>,
                 <<"sarif", FALSE, "crap", None>>, <<"shields", TRUE, "crap", None>>,
                 <<"shields", FALSE, "crap", None>>},
       v \in [1 .. 4 -> {0, 2, 3, 4, 5}]}

(* Texts: two functions, one of them moved or in the root, on terminals of *)
(* many widths.                                                            *)
Widths == {None, 20, 30, 40, 52, 59, 60, 66, 72, 79, 80, 84, 88, 92, 99, 100, 104, 110, 120}
Tables ==
    {Case([Settings("human", b) EXCEPT !.width = w, !.hints = h],
          {Function(1, At(<<"src", "a">>), 4, IF b THEN Old(4, None) ELSE None,
                    IF b THEN At(<<"src", "b">>) ELSE None, None, None,
                    Text(name, at[1], at[2], TRUE,
                         IF b THEN [whole |-> before, name |-> 4] ELSE None)),
           Function(2, At(<<"src", "a">>), 6, IF b THEN Old(1, None) ELSE None, None, None, None,
                    Text(at[3], 24, {6}, known, None))}, <<>>, NoDups) :
       b \in BOOLEAN, h \in BOOLEAN, w \in Widths, name \in {3, 26}, at \in {<<18, {9, 15}, 12>>, <<30, {9, 15}, 12>>, <<36, {36}, 8>>},
       before \in {6, 22}, known \in BOOLEAN}

(* Places: two crappy functions and one that is gone.                      *)
Files_ == {At(<<"src", "a">>), At(<<"src", "b">>), At(<<"m", "src", "a">>), At(<<"src", "m", "a">>),
           <<"/", "v", "a">>}
Places ==
    {Case([Settings("pr-comment", TRUE) EXCEPT !.workspace = ws, !.cwd = cwd],
          {Function(1, x, 4, None, None, None, None, Plain),
           Function(2, y, 5, Old(1, None), z, None, None, Plain)}, gone, NoDups) :
       ws \in {None, At(<<>>)}, cwd \in {At(<<>>), At(<<"src">>), <<"/">>, <<"/", "v">>},
       x \in Files_, y \in Files_, z \in Files_ \cup {None},
       gone \in {<<>>, <<[key |-> 5, file |-> At(<<"m", "b">>), crap |-> 2, signals |-> None]>>}}

(* Duplicates: up to three groups, two of them larger than their row.      *)
Members == <<<<1, 2, 3, 4>>, <<5, 6>>, <<2, 7, 8>>>>
Pairs(n) == {p \in SUBSET (1 .. 8) : Cardinality(p) = 2 /\ \E k \in 1 .. n : p \subseteq ToSet(Members[k])}
GroupOf(k, v) ==
    [members |-> Members[k], status |-> v[1],
     from |-> IF v[1] = "grown" THEN k + 1 ELSE 0,
     says |-> IF v[2] = 0 THEN None ELSE [confidence |-> v[2], level |-> k]]
Judged == {<<"new", 0>>, <<"new", 3>>, <<"grown", 2>>, <<"grown", 1>>, <<"unchanged", 3>>}
Sections ==
    {Case([Settings(form, baseline[1]) EXCEPT !.summary = (form = "human" /\ baseline[3] = 0)], {}, <<>>,
          [enabled |-> triage # "not asked", recorded |-> baseline[2], triage |-> triage, resolved |-> baseline[3],
           floor |-> 2, groups |-> [k \in DOMAIN g |-> GroupOf(k, g[k])],
           pairs |-> Pairs(Len(g)) \cup extra]) :
       form \in {"human", "json", "markdown", "pr-comment", "github"},
       baseline \in {<<TRUE, TRUE, 0>>, <<TRUE, TRUE, 1>>, <<TRUE, FALSE, 0>>, <<FALSE, FALSE, 0>>},
       triage \in {"not asked", "failed", "answers"},
       extra \in {{}, {{1}}},
       g \in UNION {[1 .. n -> Judged] : n \in 0 .. 3}}
MCInputs == <<Comparisons, Absolutes, Tables, Places, Sections>>
=============================================================================
