------------------------------- MODULE MCGate -------------------------------
(***************************************************************************)
(* An instance of Gate for TLC: a package at the workspace root, one       *)
(* inside it and one inside that, and a report recorded elsewhere.         *)
(***************************************************************************)
EXTENDS Gate

W == <<"/", "w">>
A == <<"/", "w", "a">>
N == <<"/", "w", "a", "n">>
Members == {W, A, N}

At(file, function) == [file |-> file, function |-> function]
AllPlaces == {At(W \o <<"src", "lib">>, "f"), At(A \o <<"src", "lib">>, "f"),
              At(N \o <<"src", "lib">>, "g"),
              At(W \o <<"src", "a", "lib">>, "f"), At(A \o <<"tests", "t">>, "f")}

Of(crap, stubs, nesting) ==
    [crap |-> crap, signals |-> [s \in Signals |-> IF s = "stubs" THEN stubs ELSE nesting]]
AllMeasures == {Of(1, 0, 1), Of(3, 0, 1), Of(1, 1, 1), Of(1, 0, 2)}
Trees == {[p \in AllPlaces |-> Of(1, 0, 1)],
          [p \in AllPlaces |-> IF p.function = "g" THEN Absent ELSE Of(1, 0, 1)],
          [p \in AllPlaces |-> IF p.file = A \o <<"src", "lib">> THEN Of(3, 0, 1) ELSE Of(1, 1, 1)]}

(* Recorded in another checkout. *)
Elsewhere == [format |-> "json",
              rows |-> {[file |-> <<"/", "o">> \o f, function |-> "f", crap |-> 1, signals |-> None] :
                          f \in {<<"src", "lib">>, <<"a", "src", "lib">>, <<"src", "a", "lib">>}}]
FirstReports == {NoFile, Elsewhere}

All == 9
Plain == [path |-> None, packages |-> {}, exclude |-> {}, defaults |-> {<<"tests">>},
          names |-> {}, allowed |-> {}, signals |-> TRUE, gate |-> {"stubs", "nesting"},
          limits |-> [s \in Signals |-> None], min |-> 0, top |-> All,
          format |-> "json", threshold |-> 2, epsilon |-> 1, failAbove |-> FALSE,
          failRegression |-> "off", baseline |-> None, output |-> "base"]
Gated == [Plain EXCEPT !.baseline = "base", !.failRegression = "flag", !.output = None]

Recording == {Plain, [Plain EXCEPT !.signals = FALSE, !.defaults = {}],
              [Plain EXCEPT !.path = <<".">>, !.exclude = {<<"a", "n">>}],
              [Plain EXCEPT !.packages = {A}, !.top = 1, !.failAbove = TRUE],
              [Plain EXCEPT !.format = "sarif"]}
Comparing ==
    {Gated, [Gated EXCEPT !.packages = {N}, !.output = "base"],
     [Gated EXCEPT !.packages = {W, A}, !.exclude = {<<"src">>}, !.failRegression = "config"],
     [Gated EXCEPT !.path = <<".">>, !.defaults = {<<"a", "tests">>}, !.top = 1],
     [Gated EXCEPT !.path = A, !.names = {"g"}],
     [Gated EXCEPT !.min = 2, !.failAbove = TRUE, !.output = "base", !.epsilon = 0,
                   !.allowed = {<<"tests">>}, !.defaults = {}],
     [Gated EXCEPT !.packages = {A}, !.exclude = {<<"a", "src">>}, !.defaults = {}],
     [Gated EXCEPT !.limits = [s \in Signals |-> 1], !.gate = {"stubs"}, !.exclude = {<<"n">>}],
     [Gated EXCEPT !.format = "sarif", !.output = "base"],
     [Gated EXCEPT !.baseline = None],
     [Gated EXCEPT !.epsilon = -1],
     [Gated EXCEPT !.packages = {<<"/", "w", "b">>}]}
AllRequests == Recording \cup Comparing

(* One recording, and one package compared with it. *)
OnePackage == {Plain} \cup {[Gated EXCEPT !.packages = {d}] : d \in Members}
=============================================================================
