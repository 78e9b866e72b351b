------------------------------- MODULE Source -------------------------------
(***************************************************************************)
(* The syntax tree of a Rust file as the syn crate hands it over: what     *)
(* src/complexity.rs, src/signals.rs and src/duplicates/ walk.  A file is  *)
(* the sequence of its nodes in source order, a node before what it        *)
(* encloses.  A node has a kind, a structural label (an operator, the kind *)
(* of a literal, the shape of a receiver), a name or value, whether it is  *)
(* marked as test code, the numbers of its children, and the number of the *)
(* last node inside it.  The children are a loop's pattern, its iterator   *)
(* and its body, an arm's pattern, its guard if it has one and its body, a *)
(* function's parameters and its body.  Numbers stand for line numbers.    *)
(***************************************************************************)
EXTENDS Integers, Sequences, FiniteSets, SequencesExt

Nodes == [kind : STRING, label : STRING, name : STRING, test : BOOLEAN,
          kids : Seq(Nat), last : Nat]

Items == {"fn", "impl", "trait", "mod", "const"}

(* The functions of all three forms: free, in an impl, and in a trait; a   *)
(* trait's required method has no body.                                    *)
Callables == {"fn", "method"}
Body(T, f) == Last(T[f].kids)
HasBody(T, f) == T[f].kids # <<>> /\ T[Body(T, f)].kind = "block"

(* #[test] on a function, #[cfg(test)] on a module. *)
IsTest(t) == t.test /\ t.kind \in Callables \cup {"mod"}

Connects(t) == t.kind = "binary" /\ t.label \in {"and", "or"}
Decides(t) == t.kind \in {"if", "for", "while", "loop", "arm"} \/ Connects(t)
Tries(t) == t.kind = "try"

(* A call that panics when there is no value, and the macros that mark     *)
(* work to be done or a panic.  The first child of a call is its receiver. *)
Unwraps(t) == t.kind = "call" /\ \/ t.name = "unwrap" /\ Len(t.kids) = 1
                                 \/ t.name = "expect" /\ Len(t.kids) = 2
Stubs(t) == t.kind = "macro" /\ t.name \in {"todo", "unimplemented", "dbg"}
Panics(t) == Unwraps(t) \/ (t.kind = "macro" /\ t.name = "panic")

That(T, Test(_)) == {k \in DOMAIN T : Test(T[k])}
OfKind(T, kinds) == {k \in DOMAIN T : T[k].kind \in kinds}
Above(T, k) == {q \in 1 .. k - 1 : k <= T[q].last}

(* A visitor over whole nodes from one number to another: it enters what   *)
(* is not of `stops`, and takes what it enters of `sites`.                 *)
Taken(T, stops, sites, from, to) ==
    LET take[n \in from .. to + 1] ==
          IF n > to THEN <<>>
          ELSE IF n \in stops THEN take[T[n].last + 1]
          ELSE (IF n \in sites THEN <<n>> ELSE <<>>) \o take[n + 1]
    IN take[from]

(* What binds: patterns and the types in them, where an array's length is  *)
(* a literal or a constant.  They hold no code.                            *)
Patterns ==
    {"patgroup", "patlit", "patpath", "pattuplestruct", "patident", "patwild", "patrest", "pattuple",
     "patstruct", "patslice", "patref", "pator", "pattype", "patother", "tygroup", "tyslice", "tyarray",
     "tytuple", "typath", "tyref", "typtr", "tyfn", "tyimpl", "tyobject", "tynever", "tyinfer", "tyother",
     "length", "lit", "path"}
Binders(t) ==
    CASE t.kind \in {"arm", "for", "local"} -> {1}
      [] t.kind = "closure" -> 1 .. Len(t.kids) - 1
      [] OTHER -> {}

(* How many children a node the walks take apart has. *)
Arity(t) ==
    CASE t.kind \in {"if", "arm"} -> 2 .. 3 [] t.kind = "for" -> {3} [] t.kind = "while" -> {2}
      [] t.kind \in {"loop", "async"} -> {1} [] t.kind = "local" -> 1 .. 3
      [] t.kind \in {"match", "closure"} -> Nat \ {0} [] OTHER -> Nat

(* What syn's types say of a tree: children follow one another and fill    *)
(* their parent, arms are a match's, methods an impl's or a trait's, and   *)
(* an item stands among items or statements.                               *)
Nests(T, k) ==
    LET t == T[k] IN
    /\ t.last \in k .. Len(T) /\ \A q \in k .. t.last : T[q].last <= t.last
    /\ (t.kids = <<>>) <=> (t.last = k)
    /\ \A i \in DOMAIN t.kids :
         /\ t.kids[i] \in k + 1 .. t.last
         /\ t.kids[i] = IF i = 1 THEN k + 1 ELSE T[t.kids[i - 1]].last + 1
         /\ i = Len(t.kids) => T[t.kids[i]].last = t.last
Shaped(T, k) ==
    LET t == T[k] IN
    /\ Len(t.kids) \in Arity(t)
    /\ \A i \in Binders(t) : \A q \in t.kids[i] .. T[t.kids[i]].last : T[q].kind \in Patterns
    /\ \A i \in DOMAIN t.kids :
         /\ (T[t.kids[i]].kind = "arm") <=> (t.kind = "match" /\ i > 1)
         /\ T[t.kids[i]].kind = "method" => t.kind \in {"impl", "trait"}
         /\ T[t.kids[i]].kind \in Items => t.kind \in {"file", "impl", "trait", "mod", "block", "exprblock"}
IsTree(T) ==
    /\ T \in Seq(Nodes) /\ T # <<>>
    /\ T[1].kind = "file" /\ T[1].last = Len(T)
    /\ \A k \in DOMAIN T : Nests(T, k) /\ Shaped(T, k)
=============================================================================
