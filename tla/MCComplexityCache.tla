------------------------- MODULE MCComplexityCache --------------------------
(* Small instances of ComplexityCache.                                      *)
EXTENDS ComplexityCache

CONSTANTS c1, bad

(* Two members, one inside the other, and a file in each. *)
A == <<"a">>
AB == <<"a", "b">>
Members == {A, AB}
OneEach == {<<"a", "lib">>, <<"a", "b", "lib">>}

(* `-p' selections, each keeping what the other member recorded. *)
Selecting(members, weights) ==
    {[roots |-> {m}, kept |-> Members \ {m}, weight |-> w, cached |-> TRUE] :
        m \in members, w \in weights}

(* Runs under two weights. *)
TwoWeights == Selecting(Members, {1}) \cup Selecting({A}, {2})

FilledTree == {[f \in Files |-> c1]}
=============================================================================
