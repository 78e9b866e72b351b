------------------------------- MODULE MCMerge ------------------------------
(***************************************************************************)
(* Instances of Merge for TLC: a workspace at /repo, a crate of it in      *)
(* vendor, a link to it, and a container that had it at /build.  The       *)
(* program runs in /repo/vendor.                                           *)
(***************************************************************************)
EXTENDS Merge

Lib == <<"/", "repo", "src", "lib">>
Vendored == <<"/", "repo", "vendor", "src", "lib">>
Linked == <<"/", "link", "src", "lib">>
Built == <<"/", "build", "src", "lib">>
Here == <<"src", "lib">>

AllNames == {"/", ".", "repo", "vendor", "link", "build", "src", "lib"}
AllSpellings == {Lib, Linked, Built, Here, <<".", "src", "lib">>,
                 <<"vendor", "src", "lib">>, <<"repo", "src", "lib">>, <<".">>}
AllFiles == {Lib, Vendored, Here, <<".", "src", "lib">>}

(* A relative spelling would be resolved here, as relative files are. *)
OnDisk ==
    [p \in AllSpellings \cup AllFiles |->
        CASE p \in {Lib, Linked} -> Lib
          [] p \in {Vendored, Here, <<".", "src", "lib">>} -> Vendored
          [] OTHER -> NoFile]

SF(s) == [kind |-> "SF", path |-> s]
DA(l, n) == [kind |-> "DA", line |-> l, count |-> n]
End == [kind |-> "end"]
Fn(f, a, b, c) == [file |-> f, first |-> a, last |-> b, cyclomatic |-> c]

RunsOn(reports, programs, policies) ==
    [report : reports, functions : programs, policy : policies]

(* Three sections of any spellings, whose counts overlap, two functions. *)
Sections ==
    {<<SF(s), DA(1, 1), DA(2, 0), End, SF(t), DA(1, 0), DA(2, MaxHits), End,
       SF(u), DA(1, MaxHits), End>> : s, t, u \in AllSpellings}
Pairs == {<<Fn(f, 1, 2, 2), Fn(g, 1, 1, 3)>> : f, g \in AllFiles}

(* Every order of records, repeated lines and unclosed sections included. *)
AnyRecords ==
    BoundedSeq({SF(Here), SF(Lib), DA(1, 0), DA(1, 1), DA(1, MaxHits), End,
                [kind |-> "other"], [kind |-> "bad"]}, 4)

(* Every pattern of lines. *)
Patterns ==
    {<<SF(Here)>> \o FlattenSeq([l \in 1 .. 5 |-> IF h[l] = NoData THEN <<>> ELSE <<DA(l, h[l])>>]) :
        h \in [1 .. 5 -> {NoData, 0, 1}]}

AnyRuns ==
    RunsOn(Sections, Pairs, {"pessimistic"})
    \cup RunsOn({<<SF(s), DA(1, 1), End>> : s \in AllSpellings}, Pairs, Policies)
    \cup RunsOn(AnyRecords, {<<Fn(Lib, 1, 2, 2)>>}, {"skip"})
    \cup RunsOn(Patterns, {<<Fn(Here, 1, 5, 1), Fn(Here, 2, 4, 2), Fn(Here, 3, 3, 2)>>}, {"optimistic"})
=============================================================================
