------------------------------- MODULE Syntax -------------------------------
(***************************************************************************)
(* The two passes over the files of a run: the complexity pass of          *)
(* src/complexity.rs (analyze_tree_matching) and the duplicate pass of     *)
(* src/duplicates/scan.rs with duplicate_pairs of src/main.rs.  The files  *)
(* come in the order of the walk, which the file system decides.           *)
(***************************************************************************)
EXTENDS Measure, Shapes, FiniteSetsExt

CONSTANT Inputs     \* families of [files, minNodes, threshold] to run on

(* No two files of a walk have one name; what parses is a tree. *)
IsInput(in) ==
    /\ in.files \in Seq([name : Nat, tree : Seq(Nodes), parses : BOOLEAN])
    /\ in.minNodes \in Nat /\ in.threshold \in [same : Nat, of : Nat \ {0}]
    /\ \A i \in DOMAIN in.files :
         /\ in.files[i].parses => IsTree(in.files[i].tree)
         /\ \A j \in DOMAIN in.files : in.files[i].name = in.files[j].name => i = j
ASSUME InputsAssumption == \A n \in DOMAIN Inputs : \A in \in Inputs[n] : IsInput(in)
ASSUME TryWeightAssumption == TryWeight \in Nat

VARIABLES
    input,      \* the files, in walk order, and the settings of the run
    stage,      \* "complexity", "duplicates", "compare" or "done"
    next,       \* the file a pass takes next
    functions,  \* what the complexity pass found
    found,      \* what the duplicate pass found
    pairs       \* the pairs it reports

vars == <<input, stage, next, functions, found, pairs>>

Init ==
    /\ \E n \in DOMAIN Inputs : input \in Inputs[n]
    /\ stage = "complexity"
    /\ next = 1
    /\ functions = <<>>
    /\ found = <<>>
    /\ pairs = <<>>

(* One file of a pass: one that does not parse is warned about and left.   *)
(* The workers share a pass's files; its results are in walk order.        *)
Complexity ==
    /\ stage = "complexity" /\ next <= Len(input.files)
    /\ LET f == input.files[next] IN
       functions' = functions \o IF f.parses THEN AnalyzeSource(f.name, f.tree) ELSE <<>>
    /\ next' = next + 1
    /\ UNCHANGED <<input, stage, found, pairs>>

Scan ==
    /\ stage = "duplicates" /\ next <= Len(input.files)
    /\ LET f == input.files[next] IN
       found' = found \o IF f.parses THEN FunctionsIn(f.name, f.tree) ELSE <<>>
    /\ next' = next + 1
    /\ UNCHANGED <<input, stage, functions, pairs>>

(* The small functions leave, the others are put in location order, two at *)
(* one location as they were.                                              *)
Retained(fns) ==
    LET kept == {i \in DOMAIN fns : fns[i].nodes >= input.minNodes}
        before(i, j) == Precedes(fns[i], fns[j]) \/ (~Precedes(fns[j], fns[i]) /\ i < j)
        order == Ranked(kept, before)
    IN [n \in DOMAIN order |-> fns[order[n]]]

PassOver ==
    /\ next > Len(input.files)
    /\ \/ stage = "complexity" /\ stage' = "duplicates" /\ UNCHANGED found
       \/ stage = "duplicates" /\ stage' = "compare" /\ found' = Retained(found)
    /\ next' = 1
    /\ UNCHANGED <<input, functions, pairs>>

Compare ==
    /\ stage = "compare"
    /\ pairs' = SortPairs(found, FindPairs(found, input.threshold))
    /\ stage' = "done"
    /\ UNCHANGED <<input, next, functions, found>>

Next == Complexity \/ Scan \/ PassOver \/ Compare
Spec == Init /\ [][Next]_vars

-----------------------------------------------------------------------------
(* The properties look at the tree as a set of nodes, each with what it is *)
(* inside of; the walks never do.                                          *)

File(name) == CHOOSE f \in ToSet(input.files) : f.name = name
Tree(e) == File(e.file).tree
BodyOf(e) == Body(Tree(e), e.at)

(* What each pass leaves behind, looked at once: nothing changes it later. *)
Measured == IF stage = "duplicates" /\ next = 1 THEN ToSet(functions) ELSE {}
Scanned == IF stage = "compare" THEN ToSet(found) ELSE {}

(* The nodes of a subtree no node of these kinds is at or above. *)
Scope(T, b, stops) ==
    {p \in b .. T[b].last : \A q \in b .. p : T[q].kind \in stops => T[q].last < p}

(* A sequence of nodes lists a set of them, each once, in source order. *)
Lists(seq, S) ==
    ToSet(seq) = S /\ \A i, j \in DOMAIN seq : i < j => seq[i] < seq[j]

(* A function's complexity is one more than the decisions it makes itself: *)
(* those of closures and of functions declared inside it count for no one, *)
(* those of its async blocks, conditions and arms are its own, and each    *)
(* `?` counts its weight (count_cyclomatic).                               *)
ComplexityIsOwn ==
    \A e \in Measured :
      LET T == Tree(e)
          own == Scope(T, BodyOf(e), Items \cup {"closure"})
      IN e.cyclomatic = 2 + 2 * Cardinality({p \in own : Decides(T[p])})
                          + TryWeight * Cardinality({p \in own : Tries(T[p])})

(* The i-th child of t is a body, one level deeper than t; all the bodies  *)
(* of an else-if chain are on one level, and a match without arms has a    *)
(* body as one with arms has.                                              *)
IsBody(T, t, i) ==
    \/ t.kind \in {"for", "local"} /\ i = 3
    \/ t.kind \in {"while", "if"} /\ i = 2
    \/ t.kind \in {"loop", "closure", "async"} /\ i = Len(t.kids)
    \/ t.kind = "match" /\ i > 1
    \/ t.kind = "if" /\ i = 3 /\ T[t.kids[3]].kind # "if"
Bodies(T) ==
    UNION {{t.kids[i] : i \in {j \in DOMAIN t.kids : IsBody(T, t, j)}} : t \in ToSet(T)}
Depth(T, bodies, s, p) ==
    Cardinality({q \in s + 1 .. p : q \in bodies /\ p <= T[q].last})
      + IF T[p].kind = "match" /\ Len(T[p].kids) = 1 THEN 1 ELSE 0

(* The nesting of a function is the number of bodies around its deepest    *)
(* code, the bumps are the statements that go two deep, and the lines      *)
(* pointed at are those of the first statement that goes deepest           *)
(* (signals::compute).                                                     *)
NestingIsDepth ==
    \A e \in Measured :
      LET T == Tree(e)
          stmts == T[BodyOf(e)].kids
          bodies == Bodies(T)
          reach == [i \in DOMAIN stmts |->
                      Max({0} \cup {Depth(T, bodies, stmts[i], p) : p \in Scope(T, stmts[i], Items)})]
          deepest == Max({0} \cup ToSet(reach))
          first == {i \in DOMAIN stmts : reach[i] = deepest /\ \A j \in 1 .. i - 1 : reach[j] < deepest}
      IN /\ e.signals.nesting = deepest
         /\ Lists(e.signals.bumps, {stmts[i] : i \in {j \in DOMAIN stmts : reach[j] >= 2}})
         /\ Lists(e.signals.nest, IF deepest = 0 THEN {} ELSE {stmts[i] : i \in first})

(* The condition a function is judged and pointed at by has the most `&&`  *)
(* and `||` of its conditions, and is the first of those in the source:    *)
(* also where a condition holds a closure with conditions of its own       *)
(* (Walker::condition, BoolOps).                                           *)
IsCondition(t, i) ==
    \/ t.kind \in {"if", "while"} /\ i = 1
    \/ t.kind = "arm" /\ Len(t.kids) = 3 /\ i = 2
Conditions(T) ==
    UNION {{t.kids[i] : i \in {j \in DOMAIN t.kids : IsCondition(t, j)}} : t \in ToSet(T)}
Operators(T, c) ==
    Cardinality({q \in Scope(T, c, {"closure", "if", "match", "exprblock"}) : Connects(T[q])})
WorstConditionFirst ==
    \A e \in Measured :
      LET T == Tree(e)
          conditions == Conditions(T) \cap Scope(T, BodyOf(e), Items)
          most == Max({0} \cup {Operators(T, c) : c \in conditions})
          worst == {c \in conditions : Operators(T, c) = most
                                         /\ \A d \in conditions : Operators(T, d) = most => c <= d}
      IN e.signals.ops = most /\ {e.signals.worst} = IF most = 0 THEN {None} ELSE worst

(* Every stub and every panic site of a function counts for it once, in    *)
(* source order, those in closures, conditions and guards too; what nested *)
(* items hold counts for no one (Walker::visit_macro, visit_expr_method_   *)
(* call).                                                                  *)
SitesOnce ==
    \A e \in Measured :
      LET T == Tree(e)
          scope == Scope(T, BodyOf(e), Items)
      IN /\ Lists(e.signals.stubs, {p \in scope : Stubs(T[p])})
         /\ Lists(e.signals.panics, {p \in scope : Panics(T[p])})

(* One walk, one accumulator: a function's depth, its worst condition and  *)
(* its sites are all its own, however its bodies, conditions and closures  *)
(* are nested (signals::compute).                                          *)
SignalsExact == NestingIsDepth /\ WorstConditionFirst /\ SitesOnce

(* Both passes leave out the same test code.  The complexity pass measures *)
(* each other function that is not inside a function, under the name of    *)
(* the impl or trait it is directly in; the duplicate pass takes those and *)
(* the functions inside functions (FunctionVisitor, Collector).            *)
Code(T) ==
    {k \in DOMAIN T : /\ T[k].kind \in Callables /\ HasBody(T, k)
                      /\ \A q \in Above(T, k) \cup {k} : ~IsTest(T[q])}
Outer(T) == {k \in Code(T) : \A q \in Above(T, k) : T[q].kind \notin Callables}
FoundIn(fns, name, S) ==
    LET mine == {i \in DOMAIN fns : fns[i].file = name} IN
    {fns[i].at : i \in mine} = S /\ \A i, j \in mine : i < j => fns[i].at < fns[j].at
OwnedIn(fns, f) ==
    \A i \in DOMAIN fns : fns[i].file = f.name =>
      \/ f.tree[fns[i].at].kind # "method" /\ fns[i].owner = ""
      \/ \E q \in DOMAIN f.tree : fns[i].at \in ToSet(f.tree[q].kids) /\ fns[i].owner = f.tree[q].name
PassesAgree ==
    \A f \in ToSet(input.files) :
      /\ stage = "duplicates" /\ next = 1 =>
           FoundIn(functions, f.name, IF f.parses THEN Outer(f.tree) ELSE {}) /\ OwnedIn(functions, f)
      /\ stage = "duplicates" /\ next > Len(input.files) =>
           FoundIn(found, f.name, IF f.parses THEN Code(f.tree) ELSE {})

(* A function's outline: what stands where in it and inside of what,       *)
(* without names, values, grouping and what is inside what the tool takes  *)
(* for a leaf.                                                             *)
Groups == {"paren", "group", "patgroup", "tygroup"}
Opaque == Items \cup {"macro", "other", "patother", "tyother", "tyfn", "tyimpl", "tyobject", "tynever",
                      "tyinfer", "lit", "path", "continue", "patwild", "patrest", "patpath", "patlit"}
Alias(kind) ==
    CASE kind \in Items -> "item" [] kind = "exprblock" -> "block" [] kind = "patlit" -> "lit"
      [] kind = "patpath" -> "path" [] kind = "pattuplestruct" -> "pattuple"
      [] kind \in {"patother", "tyother"} -> "other" [] OTHER -> kind
Told(t) ==
    IF t.kind \in {"binary", "unary", "reference", "tyref", "typtr"} THEN t.label
    ELSE IF t.kind \notin {"lit", "patlit"} THEN ""
    ELSE IF t.label \in {"int", "float", "str", "bytestr", "byte", "char", "bool"} THEN t.label
    ELSE "verbatim"
Outline(T, f) ==
    LET inner == {p \in f + 1 .. T[f].last :
                    /\ T[p].kind \notin Groups \cup Unread
                    /\ \A q \in f + 1 .. p - 1 : T[q].kind \in Opaque \cup Unread => T[q].last < p}
        place(p) == Cardinality({q \in inner : q < p})
        around(p) == {place(q) : q \in inner \cap Above(T, p)}
    IN {<<T[f].label>>} \cup {<<place(p), Alias(T[p].kind), Told(T[p]), around(p)>> : p \in inner}

(* Two functions score 1.0 exactly when they differ only in names, literal *)
(* values, grouping and what the tool does not look into (a macro's input, *)
(* an item's, an array's length, the base of a struct): no renaming lowers *)
(* the score, and no other part can be reordered, repeated or dropped and  *)
(* keep it (normalize, fingerprints, jaccard).                             *)
OneMeansSameOutline ==
    \A a, b \in Scanned :
      LET score == Jaccard(a, b) IN
      score.same = score.of <=> Outline(Tree(a), a.at) = Outline(Tree(b), b.at)

(* Every two functions large enough and alike enough are one pair, the     *)
(* earlier first, the strongest pairs first: whatever order the walk gave  *)
(* the files in (find_pairs, sort_pairs, duplicate_pairs).                 *)
Likeness(a, b) == [same |-> Cardinality(a.prints \cap b.prints), of |-> Cardinality(a.prints \cup b.prints)]
PairsExact ==
    stage = "done" =>
      LET fns == ToSet(found)
          alike == {p \in fns \X fns : Precedes(p[1], p[2]) /\ AtLeast(Likeness(p[1], p[2]), input.threshold)}
      IN /\ \A f \in fns : f.nodes >= input.minNodes
         /\ Len(pairs) = Cardinality(alike)
         /\ ToSet(pairs) = {[first |-> Location(p[1]), second |-> Location(p[2]),
                             score |-> Likeness(p[1], p[2])] : p \in alike}
         /\ \A i, j \in DOMAIN pairs : i < j =>
              \/ Over(pairs[i].score, pairs[j].score)
              \/ /\ ~Over(pairs[j].score, pairs[i].score)
                 /\ \/ Precedes(pairs[i].first, pairs[j].first)
                    \/ pairs[i].first = pairs[j].first /\ Precedes(pairs[i].second, pairs[j].second)

=============================================================================
