------------------------------- MODULE MCDelta ------------------------------
(***************************************************************************)
(* Instances of Delta for TLC.  Entries are numbered in a fixed order, so  *)
(* that a set of them is one input.                                        *)
(***************************************************************************)
EXTENDS Delta, SequencesExt, FiniteSetsExt

(* Two crates with a file of the same name, one of them at the root. *)
Tree == {<<"src", "lib">>, <<"a", "src", "lib">>, <<"b", "src", "lib">>, <<"a", "src", "main">>}

Under(root, S) == {root \o f : f \in S}
Roots == {<<".">>, <<"home">>, <<"app">>}
AllFiles == UNION {Under(root, Tree) : root \in Roots}

Listed(S) == SetToSeq(S)
AtMost(S, n) == UNION {kSubset(k, S) : k \in 0 .. n}

At(files, names, lines) ==
    {[file |-> f, function |-> g, line |-> l] :
        f \in files, g \in names, l \in lines}

(* A run here against one recorded here or elsewhere: up to three          *)
(* functions each, of one name.                                            *)
Runs(root, S) == {Listed(T) : T \in AtMost(At(Under(root, S), {"f"}, Lines), 3)}
SingleName == Runs(<<".">>, Tree) \X (Runs(<<".">>, Tree) \cup Runs(<<"app">>, Tree))

(* As many of two names. *)
TwoNames ==
    LET runs == {Listed(T) : T \in AtMost(At(Under(<<".">>, Tree \ {<<"b", "src", "lib">>}), Names, {1}), 3)}
    IN runs \X runs

(* Lists in which a key may be repeated. *)
Repeats ==
    LET runs == BoundedSeq(At(Under(<<".">>, {<<"src", "lib">>, <<"a", "src", "lib">>}), {"f"}, {1, 2}), 2)
    IN runs \X runs

(* One tree, recorded under one root and compared under the other. *)
Remap(S) ==
    LET tree == Listed(S)
        put(root) == [i \in DOMAIN tree |-> [tree[i] EXCEPT !.file = root \o @]]
    IN <<put(<<"home">>), put(<<"app">>)>>
Remapped == {Remap(S) : S \in AtMost(At(Tree, Names, Lines), 3)}

AnyRuns == SingleName \cup TwoNames \cup Repeats \cup Remapped
=============================================================================
