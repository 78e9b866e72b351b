------------------------------ MODULE MCNovelty ------------------------------
(***************************************************************************)
(* Instances of Novelty for TLC.                                           *)
(***************************************************************************)
EXTENDS Novelty, FiniteSetsExt

At(files, names, lines) == [file : files, name : names, line : lines]

(* Files that end in one another, and one of another name. *)
Nested == {<<"lib">>, <<"src", "lib">>, <<"a", "src", "lib">>}
Tree == Nested \cup {<<"src", "main">>}

Under(root, S) == {root \o f : f \in S}
Roots == {<<>>, <<"home">>, <<"home", "src">>}
MCFiles == UNION {Under(root, Tree) : root \in Roots} \cup {<<"b", "lib">>}

Groups(S, sizes) == UNION {kSubset(k, S) : k \in sizes}

(* A group here, and one or two recorded here and elsewhere: functions of  *)
(* one name, some of them namesakes in one file, and one of another name.  *)
Here == At(Nested, {"f"}, {1}) \cup {[file |-> <<"lib">>, name |-> "f", line |-> 2],
                                     [file |-> <<"src", "main">>, name |-> "g", line |-> 1]}
There == {[l EXCEPT !.file = <<"home">> \o @] : l \in Here}
         \cup {[file |-> <<"b", "lib">>, name |-> "f", line |-> 1]}
PairsHere == kSubset(2, Here)
PairsThere == kSubset(2, There)
GroupsHere == Groups(Here, 2 .. 3)
GroupsEither == Groups(Here \cup There, 1 .. 3)
OneOf(S) == {<<g>> : g \in S}
OneGroup == OneOf(GroupsHere) \X OneOf(GroupsEither)
TwoRecorded == OneOf(GroupsHere) \X (PairsHere \X PairsThere)
TwoGroups == (PairsHere \X PairsHere) \X OneOf(kSubset(3, There) \cup PairsHere)

(* The same groups under another root. *)
Replaced(G, root) == {[l EXCEPT !.file = root \o @] : l \in G}
Remapped ==
    {<<G, [g \in DOMAIN G |-> Replaced(G[g], <<"home">>)]>> :
        G \in {<<g>> : g \in Groups(At(Tree, {"f"}, {1, 2}), 2 .. 4)}
              \cup {<<g, h>> : g, h \in Groups(At(Tree, Names, {1}), {2})}}

AnyComparison == OneGroup \cup TwoRecorded \cup TwoGroups \cup Remapped
=============================================================================
