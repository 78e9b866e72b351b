------------------------------- MODULE Shapes -------------------------------
(***************************************************************************)
(* What the duplicate pass takes from one file and does with it:           *)
(* src/duplicates/normalize.rs, fingerprint.rs, extract.rs and compare.rs. *)
(* A normalised tree is the sequence of its nodes, a node before what is   *)
(* under it, each with how many nodes that is: a tree has one such         *)
(* spelling, and a subtree is a stretch of it.  A fingerprint is the       *)
(* subtree it is the hash of: that two do not collide in 64 bits is        *)
(* assumed.  A similarity is the pair of counts it is the quotient of.     *)
(***************************************************************************)
EXTENDS Source, Orders

(* norm_expr_transparent, and its kin among patterns and types: grouping   *)
(* is no structure.                                                        *)
Transparent == {"paren", "group", "patgroup", "tygroup"}

(* What the rules do not look at: the base of a struct, an array's length. *)
Unread == {"base", "length"}

(* norm_expr_atom, norm_stmt: an item is a leaf, whatever it declares. *)
LeafExprs == Items \cup {"lit", "path", "macro", "continue", "other"}

(* norm_pat_simple: a name, a path or a literal matches without parts. *)
LeafPats == {"patwild", "patrest", "patpath", "patlit", "patother"}

(* norm_type_named: function and trait types keep nothing. *)
LeafTypes == {"tyfn", "tyimpl", "tyobject", "tynever", "tyinfer", "tyother"}

Leaves == LeafExprs \cup LeafPats \cup LeafTypes

(* NodeKind: a bare block is its block, a tuple and a tuple struct are one *)
(* pattern, what the rules do not know is one kind.                        *)
Kind(t) ==
    CASE t.kind \in Items -> "item"
      [] t.kind = "exprblock" -> "block"
      [] t.kind = "patlit" -> "lit"
      [] t.kind = "patpath" -> "path"
      [] t.kind = "pattuplestruct" -> "pattuple"
      [] t.kind \in {"patother", "tyother"} -> "other"
      [] OTHER -> t.kind

LitKinds == {"int", "float", "str", "bytestr", "byte", "char", "bool"}

(* A slip: a literal is told from others by its value. *)
LitKind_Value(t) == t.name

LitKind(t) == IF t.label \in LitKinds THEN t.label ELSE "verbatim"

(* What tells two nodes of a kind apart: the operator, the mutability, the *)
(* kind of a literal.  A range keeps its ends and not its limits.          *)
Labelled == {"binary", "unary", "reference", "tyref", "typtr"}
Label(t) ==
    CASE t.kind \in {"lit", "patlit"} -> LitKind(t)
      [] t.kind \in Labelled -> t.label
      [] OTHER -> ""

Spelled(kind, label, parts) == <<[kind |-> kind, label |-> label, under |-> Len(parts)]>> \o parts

(* norm_expr, norm_pat, norm_type: the nodes from one to another, in their *)
(* order; names and values go.                                             *)
NormNode(T, norm, k) ==
    CASE T[k].kind \in Unread -> <<>>
      [] T[k].kind \in Transparent -> norm[k + 1][T[k].last]
      [] T[k].kind \in Leaves -> Spelled(Kind(T[k]), Label(T[k]), <<>>)
      [] OTHER -> Spelled(Kind(T[k]), Label(T[k]), norm[k + 1][T[k].last])
Norm(T) ==
    LET norm[k \in 1 .. Len(T) + 1] ==
          [to \in 0 .. Len(T) |->
             IF k > to THEN <<>> ELSE NormNode(T, norm, k) \o norm[T[k].last + 1][to]]
    IN norm

(* normalize: the receiver and the qualifiers, which a function's label    *)
(* holds, its typed parameters, its return type and its body.              *)
Normalize(T, f) == Spelled("function", T[f].label, Norm(T)[f + 1][T[f].last])

Fingerprints(shape) == {SubSeq(shape, i, i + shape[i].under) : i \in DOMAIN shape}

(* Collector: every function with a body, the nested ones too; test        *)
(* functions and modules are not entered.                                  *)
Record(file, T, f) ==
    LET shape == Normalize(T, f) IN
    [file |-> file, at |-> f, name |-> T[f].name, nodes |-> Len(shape), prints |-> Fingerprints(shape)]
Collect(T) ==
    Taken(T, That(T, IsTest), {k \in OfKind(T, Callables) : HasBody(T, k)}, 1, Len(T))

(* functions_in_source. *)
FunctionsIn(file, T) == LET out == Collect(T) IN [i \in DOMAIN out |-> Record(file, T, out[i])]

(* jaccard. *)
Jaccard(a, b) ==
    LET both == Cardinality(a.prints \cap b.prints)
        all == Cardinality(a.prints) + Cardinality(b.prints) - both
    IN IF all = 0 THEN [same |-> 1, of |-> 1] ELSE [same |-> both, of |-> all]
AtLeast(s, t) == s.same * t.of >= t.same * s.of
Over(s, t) == s.same * t.of > t.same * s.of

(* Location's order: the file, then the line. *)
Precedes(a, b) == a.file < b.file \/ (a.file = b.file /\ a.at < b.at)
Location(f) == [file |-> f.file, at |-> f.at]

(* ordered_pair: the earlier side first. *)
Pair(a, b) ==
    LET score == Jaccard(a, b) IN
    IF Precedes(b, a) THEN [first |-> Location(b), second |-> Location(a), score |-> score]
    ELSE [first |-> Location(a), second |-> Location(b), score |-> score]
PairAt(found, p) == Pair(found[p[1]], found[p[2]])

(* The places of every two, each two once. *)
Twos(found) == {p \in (1 .. Len(found)) \X (1 .. Len(found)) : p[1] < p[2]}

(* A slip: a pair at the threshold is left out. *)
FindPairs_Above(found, threshold) == {p \in Twos(found) : Over(PairAt(found, p).score, threshold)}

(* find_pairs. *)
FindPairs(found, threshold) == {p \in Twos(found) : AtLeast(PairAt(found, p).score, threshold)}

(* sort_pairs: the strongest first, then by where they are; among equals   *)
(* the one that was found first.                                           *)
StrongestFirst(a, b) ==
    \/ Over(a.score, b.score)
    \/ /\ ~Over(b.score, a.score)
       /\ \/ Precedes(a.first, b.first)
          \/ a.first = b.first /\ Precedes(a.second, b.second)
FoundFirst(p, q) == p[1] < q[1] \/ (p[1] = q[1] /\ p[2] < q[2])
SortPairs(found, places) ==
    LET before(p, q) == LET a == PairAt(found, p)
                            b == PairAt(found, q)
                        IN StrongestFirst(a, b) \/ (~StrongestFirst(b, a) /\ FoundFirst(p, q))
        order == Ranked(places, before)
    IN [n \in DOMAIN order |-> PairAt(found, order[n])]
=============================================================================
