------------------------------ MODULE Measure -------------------------------
(***************************************************************************)
(* What the complexity pass takes from one file: src/complexity.rs         *)
(* (FunctionVisitor, count_cyclomatic) and src/signals.rs (compute).  A    *)
(* visitor is a record that a walk threads through the tree: the walk at a *)
(* node, up to the end of a row of siblings, is a function from what the   *)
(* visitor is before to what it is after.  What a walk must restore it     *)
(* restores as the code does, around the walk below.  The line count of a  *)
(* function, which is arithmetic on two line numbers, is left out.         *)
(***************************************************************************)
EXTENDS Source

CONSTANT TryWeight  \* what a `?` adds to the complexity, in halves of a decision

None == 0           \* no node has this number

(* A slip: the counter walks into the items declared in a body. *)
Count_IntoItems(T, sites, b) == Len(Taken(T, OfKind(T, {"closure"}), sites, b, T[b].last))

(* CcCounter: closures and nested items are scopes of their own. *)
Count(T, sites, b) == Len(Taken(T, OfKind(T, Items \cup {"closure"}), sites, b, T[b].last))

(* count_cyclomatic, in halves. *)
Cyclomatic(T, b) == 2 * (1 + Count(T, That(T, Decides), b)) + TryWeight * Count(T, That(T, Tries), b)

(* BoolOps: a closure, a block or a nested conditional is its own logic. *)
BoolOps(T, c) ==
    Len(Taken(T, OfKind(T, {"closure", "if", "match", "exprblock"}), That(T, Connects), c, T[c].last))

Walkers == [depth : Int, deepest : Int, ops : Nat, worst : Nat, stubs : Seq(Nat), panics : Seq(Nat)]
Walker == [depth |-> 0, deepest |-> 0, ops |-> 0, worst |-> None, stubs |-> <<>>, panics |-> <<>>]

Larger(a, b) == IF a >= b THEN a ELSE b
Into(w) == [w EXCEPT !.depth = @ + 1, !.deepest = Larger(@, w.depth + 1)]
OutOf(w) == [w EXCEPT !.depth = @ - 1]

Score(T, w, c) ==
    LET n == BoolOps(T, c) IN
    IF n > w.ops THEN [w EXCEPT !.ops = n, !.worst = c] ELSE w

(* Walker: the depth of each body, each condition's operators, each site.  *)
Enter(T, walk, w, k) == walk[k][T[k].last][w]
Nested(T, walk, w, k) == OutOf(Enter(T, walk, Into(w), k))

(* A slip: a condition is scored and not walked. *)
Condition_ScoredOnly(T, walk, w, c) == Score(T, w, c)

Condition(T, walk, w, c) == Enter(T, walk, Score(T, w, c), c)

IfChain(T, walk, w, kids) ==
    LET taken == Nested(T, walk, Condition(T, walk, w, kids[1]), kids[2]) IN
    IF Len(kids) = 2 THEN taken
    ELSE IF T[kids[3]].kind = "if" THEN Enter(T, walk, taken, kids[3])
    ELSE Nested(T, walk, taken, kids[3])
WalkArm(T, walk, w, kids) ==
    IF Len(kids) = 3 THEN Enter(T, walk, Condition(T, walk, w, kids[2]), kids[3])
    ELSE Enter(T, walk, w, kids[2])
WalkMatch(T, walk, w, k) ==
    LET first == T[k].kids[1] IN
    OutOf(walk[T[first].last + 1][T[k].last][Into(Enter(T, walk, w, first))])
WalkLocal(T, walk, w, kids) ==
    LET init == IF Len(kids) = 1 THEN w ELSE Enter(T, walk, w, kids[2]) IN
    IF Len(kids) = 3 THEN Nested(T, walk, init, kids[3]) ELSE init
Site(T, w, k) ==
    IF Stubs(T[k]) THEN [w EXCEPT !.stubs = Append(@, k)]
    ELSE IF Panics(T[k]) THEN [w EXCEPT !.panics = Append(@, k)] ELSE w
Through(T, walk, w, k) ==
    LET kids == T[k].kids IN
    CASE T[k].kind \in Items -> w
      [] T[k].kind = "if" -> IfChain(T, walk, w, kids)
      [] T[k].kind = "match" -> WalkMatch(T, walk, w, k)
      [] T[k].kind = "arm" -> WalkArm(T, walk, w, kids)
      [] T[k].kind = "for" -> Nested(T, walk, Enter(T, walk, w, kids[2]), kids[3])
      [] T[k].kind = "while" -> Nested(T, walk, Condition(T, walk, w, kids[1]), kids[2])
      [] T[k].kind \in {"loop", "closure", "async"} -> Nested(T, walk, w, Last(kids))
      [] T[k].kind = "local" -> WalkLocal(T, walk, w, kids)
      [] OTHER -> walk[k + 1][T[k].last][Site(T, w, k)]
Walk(T) ==
    LET walk[k \in 1 .. Len(T) + 1] ==
          [to \in 0 .. Len(T) |-> [w \in Walkers |->
             IF k > to THEN w ELSE walk[T[k].last + 1][to][Through(T, walk, w, k)]]]
    IN walk

(* compute: one walk per statement of the body. *)
Unmeasured == [nesting |-> 0, nest |-> <<>>, bumps |-> <<>>, ops |-> 0, worst |-> None,
               stubs |-> <<>>, panics |-> <<>>]
Add(m, w, s) ==
    [nesting |-> Larger(m.nesting, w.deepest),
     nest |-> IF w.deepest > m.nesting THEN <<s>> ELSE m.nest,
     bumps |-> IF w.deepest >= 2 THEN Append(m.bumps, s) ELSE m.bumps,
     ops |-> Larger(m.ops, w.ops),
     worst |-> IF w.ops > m.ops THEN w.worst ELSE m.worst,
     stubs |-> m.stubs \o w.stubs,
     panics |-> m.panics \o w.panics]
Signals(T, b) ==
    LET kids == T[b].kids
        upto[i \in 0 .. Len(kids)] ==
          IF i = 0 THEN Unmeasured ELSE Add(upto[i - 1], Enter(T, Walk(T), Walker, kids[i]), kids[i])
    IN upto[Len(kids)]

(* FunctionVisitor: one entry per function outside test code, none below a *)
(* function.  `owner` is the impl_type field: taken over on the way into   *)
(* an impl or a trait and put back on the way out.                         *)
Push(T, f, owner) ==
    IF T[f].test \/ ~HasBody(T, f) THEN <<>>
    ELSE <<[at |-> f, owner |-> IF T[f].kind = "method" THEN owner ELSE ""]>>

(* A slip: the owner of an inner impl is left behind. *)
VisitOwned_LeftBehind(T, visit, k, owner) == visit[k + 1][T[k].last][T[k].name]

VisitOwned(T, visit, k, owner) == [visit[k + 1][T[k].last][T[k].name] EXCEPT !.owner = owner]

Owners(T) == {T[k].name : k \in DOMAIN T} \cup {""}
VisitNode(T, visit, k, owner) ==
    CASE T[k].kind \in Callables -> [out |-> Push(T, k, owner), owner |-> owner]
      [] T[k].kind \in {"impl", "trait"} -> VisitOwned(T, visit, k, owner)
      [] T[k].kind = "mod" /\ T[k].test -> [out |-> <<>>, owner |-> owner]
      [] OTHER -> visit[k + 1][T[k].last][owner]
Visit(T) ==
    LET visit[k \in 1 .. Len(T) + 1] ==
          [to \in 0 .. Len(T) |-> [owner \in Owners(T) |->
             IF k > to THEN [out |-> <<>>, owner |-> owner]
             ELSE LET here == VisitNode(T, visit, k, owner)
                      rest == visit[T[k].last + 1][to][here.owner]
                  IN [out |-> here.out \o rest.out, owner |-> rest.owner]]]
    IN visit

(* analyze_source. *)
Entry(file, T, f) ==
    [file |-> file, at |-> f.at, name |-> T[f.at].name, owner |-> f.owner,
     cyclomatic |-> Cyclomatic(T, Body(T, f.at)), signals |-> Signals(T, Body(T, f.at))]
AnalyzeSource(file, T) ==
    LET out == Visit(T)[1][Len(T)][""].out IN [i \in DOMAIN out |-> Entry(file, T, out[i])]
=============================================================================
