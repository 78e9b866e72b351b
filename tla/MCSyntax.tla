------------------------------ MODULE MCSyntax ------------------------------
(***************************************************************************)
(* Small sources for TLC: bodies in which every construct holds every      *)
(* other, files with every place a function can be declared in, and        *)
(* functions that differ in one respect.                                   *)
(***************************************************************************)
EXTENDS Syntax

(* A source is written as nested terms and laid out as its nodes.          *)
Term(kind, label, name, kids) ==
    [kind |-> kind, label |-> label, name |-> name, test |-> FALSE, kids |-> kids]
RECURSIVE Laid(_, _)
Laid(t, k) ==
    LET beside(row, kid) ==
          LET at == k + 1 + Len(row.nodes) IN
          [nodes |-> row.nodes \o Laid(kid, at), kids |-> Append(row.kids, at)]
        under == FoldLeft(beside, [nodes |-> <<>>, kids |-> <<>>], t.kids)
    IN <<[t EXCEPT !.kids = under.kids] @@ [last |-> k + Len(under.nodes)]>> \o under.nodes

Of(kind, kids) == Term(kind, "", "", kids)
X == Term("path", "", "x", <<>>)
Y == Term("path", "", "y", <<>>)
Lit(type, value) == Term("lit", type, value, <<>>)
Macro(name) == Term("macro", "", name, <<>>)
Call(name, kids) == Term("call", "", name, kids)
Op(op, a, b) == Term("binary", op, "", <<a, b>>)
And(a, b) == Op("and", a, b)
Block(stmts) == Of("block", stmts)
Semi(e) == Of("semi", <<e>>)
Val(e) == Of("value", <<e>>)
In_(e) == Block(<<Val(e)>>)
If(cond, then) == Of("if", <<cond, In_(then)>>)
Else(cond, then, else) == Of("if", <<cond, In_(then), else>>)
Wild == Of("patwild", <<>>)
Name(name) == Term("patident", "", name, <<>>)
Arm(e) == Of("arm", <<Wild, e>>)
Guarded(guard, e) == Of("arm", <<Wild, guard, e>>)
For(e, body) == Of("for", <<Wild, e, In_(body)>>)
Closure(e) == Of("closure", <<Wild, e>>)
Let(kids) == Of("local", <<Name("v")>> \o kids)
Braces(stmts) == Of("exprblock", stmts)
Fn(name, body) == Term("fn", "none", name, <<Block(body)>>)
Method(name, body) == Term("method", "ref", name, <<Block(body)>>)
Required(name) == Term("method", "ref", name, <<>>)
Impl(type, kids) == Term("impl", "", type, kids)
Trait(name, kids) == Term("trait", "", name, kids)
Mod(kids) == Of("mod", kids)
Const(e) == Of("const", <<e>>)
Test(item) == [item EXCEPT !.test = TRUE]
SourceFile(items) == Laid(Of("file", items), 1)

(* A run over files that all parse, or over some that do not. *)
Named(trees) == [i \in DOMAIN trees |-> [name |-> i, tree |-> SourceFile(trees[i]), parses |-> TRUE]]
Run(files, minNodes, threshold) ==
    [files |-> files, minNodes |-> minNodes, threshold |-> threshold]
Alike(same, of) == [same |-> same, of |-> of]

(* Bodies: a statement two or three constructs deep before another one.    *)
Flat == {X, Macro("todo"), Call("unwrap", <<X>>), And(X, X)}
Around(e) ==
    {Of("paren", <<e>>), And(e, X), Op("or", X, e), Op("add", e, X), Of("try", <<e>>),
     Call("f", <<X, e>>), Call("unwrap", <<e>>), Call("expect", <<e, X>>), Call("expect", <<X, X, e>>),
     If(e, X), If(X, e), Else(X, X, Braces(<<Val(e)>>)), Else(X, X, If(e, X)), Else(X, X, If(X, e)),
     Of("match", <<e, Arm(X), Arm(X)>>), Of("match", <<X, Guarded(e, X), Arm(X)>>),
     Of("match", <<X, Arm(X), Guarded(X, e)>>), Of("match", <<e>>), For(e, X), For(X, e),
     Of("while", <<e, In_(X)>>), Of("while", <<X, In_(e)>>), Of("loop", <<In_(e)>>),
     Closure(e), Of("async", <<In_(e)>>), Of("unsafe", <<In_(e)>>),
     Braces(<<Let(<<e>>), Let(<<>>)>>), Braces(<<Let(<<X, Braces(<<Val(e)>>)>>)>>),
     Braces(<<Fn("g", <<Val(e)>>)>>), Braces(<<Const(e)>>)}
Outside(e) ==
    {If(And(X, e), Macro("panic")), Of("match", <<X, Guarded(e, X), Arm(X)>>), Closure(e),
     Of("while", <<And(e, X), In_(X)>>), Braces(<<Fn("g", <<Val(e)>>)>>)}
Once == UNION {Around(e) : e \in Flat}
Twice == UNION {Around(e) : e \in UNION {Around(a) : a \in Flat \ {X, Macro("todo")}}}
Thrice == UNION {Outside(e) : e \in UNION {Around(a) : a \in Outside(And(X, Call("unwrap", <<X>>)))}}
Holds(stmts) == Run(Named(<< <<Fn("f", stmts)>> >>), 0, Alike(1, 1))
Second == If(And(X, X), Macro("todo"))
Bodied ==
    {Holds(<<Semi(e), Semi(Second)>>) : e \in Twice}
      \cup {Holds(<<Macro("dbg"), Semi(Second), Val(e)>>) : e \in Once \cup Thrice}

(* Places: what an item holds, and where it stands. *)
Plain(name) == Fn(name, <<Val(X)>>)
Helper(name) == Fn(name, <<Plain("inner"), Val(X)>>)
Declared ==
    {Plain("a"), Test(Plain("t")), Helper("h"), Test(Helper("th")),
     Impl("A", <<Method("m", <<Val(X)>>), Test(Method("t", <<Val(X)>>))>>),
     Trait("T", <<Required("r"), Method("d", <<Plain("inner"), Val(X)>>)>>),
     Fn("outer", <<Impl("B", <<Method("m", <<Val(X)>>)>>), Test(Mod(<<Plain("t")>>)), Val(X)>>)}
Holding(item) ==
    {item, Mod(<<item>>), Test(Mod(<<item>>)), Const(Braces(<<item, Val(X)>>)),
     Fn("o", <<item, Val(X)>>), Test(Fn("o", <<item, Val(X)>>)),
     Impl("C", <<Const(Braces(<<item, Val(X)>>)), Method("after", <<Val(X)>>)>>),
     Impl("", <<Method("m", <<item, Val(X)>>)>>),
     Trait("U", <<Const(Braces(<<item, Val(X)>>)), Method("after", <<Val(X)>>)>>)}
Held == UNION {Holding(i) : i \in UNION {Holding(j) : j \in Declared}}
Broken == [name |-> 1, tree |-> SourceFile(<<>>), parses |-> FALSE]
Places ==
    {Run(Named(<< <<i, Plain("last")>> >>), 0, Alike(1, 1)) : i \in Held}
      \cup {Run(<<Named(<< <<i>>, <<Plain("last"), i>> >>)[2], Broken>>, 0, Alike(1, 1)) : i \in Declared}

(* Pairs: one function and what an edit makes of it. *)
Edits ==
    {<<Val(X)>>, <<Val(Y)>>, <<Val(Of("paren", <<X>>))>>, <<Semi(X)>>, <<Semi(X), Val(X)>>,
     <<Val(Op("add", X, Y))>>, <<Val(Op("add", Y, Y))>>, <<Val(Op("sub", X, Y))>>,
     <<Val(Op("add", X, Of("paren", <<Op("add", X, X)>>)))>>,
     <<Val(Op("add", Of("group", <<Op("add", X, X)>>), Y))>>,
     <<Val(Lit("int", "1"))>>, <<Val(Lit("int", "2"))>>, <<Val(Lit("str", "s"))>>,
     <<Val(Op("add", X, Lit("int", "1")))>>, <<Val(Op("add", Lit("int", "3"), X))>>,
     <<Macro("todo")>>, <<Macro("panic")>>, <<Val(Macro("dbg"))>>, <<Plain("a"), Val(X)>>,
     <<Helper("b"), Val(Y)>>, <<Val(X), Plain("a")>>,
     <<Val(Term("range", "half-open", "", <<X>>))>>, <<Val(Term("range", "closed", "", <<Y>>))>>,
     <<Val(Term("range", "half-open", "", <<X, X>>))>>, <<Val(Of("other", <<X>>))>>,
     <<Val(Of("other", <<Op("add", X, X)>>))>>, <<Val(Braces(<<Val(X)>>))>>,
     <<Val(Of("async", <<In_(X)>>))>>, <<Val(Of("unsafe", <<In_(X)>>))>>,
     <<Val(Of("struct", <<X>>))>>, <<Val(Of("struct", <<X, Of("base", <<Op("add", X, X)>>)>>))>>,
     <<Val(If(X, X))>>, <<Val(Else(X, X, Braces(<<Val(X)>>)))>>, <<Val(Call("f", <<X>>))>>,
     <<Val(Call("g", <<Y>>))>>, <<Val(Call("f", <<X, X>>))>>,
     <<Semi(If(X, X)), Semi(If(X, X))>>, <<Semi(If(Y, X))>>}
I32 == Term("typath", "", "i32", <<>>)
Str == Term("typath", "", "String", <<>>)
Vec(type) == Term("typath", "", "Vec", <<type>>)
Ref(mutable, type) == Term("tyref", mutable, "", <<type>>)
Takes(pat, type) ==
    Term("fn", "none", "f", <<Of("param", <<pat, type>>), Of("returns", <<I32>>), In_(X)>>)
Array(length) == Of("pattype", <<Name("a"), Of("tyarray", <<I32, Of("length", <<length>>)>>)>>)
Binds(pat) == <<Of("local", <<pat, X>>)>>
Typed ==
    {Takes(Name("a"), I32), Takes(Name("b"), Str), Takes(Name("a"), Vec(I32)), Takes(Name("a"), Vec(Vec(Str))),
     Takes(Name("a"), Ref("mut", I32)), Takes(Name("a"), Ref("", I32)), Takes(Wild, Of("tygroup", <<I32>>)),
     Takes(Of("pattuple", <<Wild, Wild>>), Of("tytuple", <<I32, I32>>)),
     Takes(Of("pattuplestruct", <<Wild, Wild>>), Of("tytuple", <<I32, Str>>)),
     Takes(Wild, Term("tyfn", "", "", <<I32>>)), Takes(Wild, Term("tyfn", "", "", <<>>)),
     Takes(Of("pattype", <<Name("a"), I32>>), I32), Takes(Wild, Of("tyarray", <<I32, Of("length", <<X>>)>>))}
       \cup {Fn("p", Binds(pat)) :
              pat \in {Name("a"), Wild, Of("patgroup", <<Name("b")>>), Term("patlit", "int", "1", <<>>),
                      Term("patlit", "cstr", "s", <<>>), Array(X), Array(Lit("int", "4")),
                      Of("pator", <<Wild, Wild>>), Of("patother", <<Wild>>)}}
       \cup {Impl("A", <<Term("method", self, "m", <<In_(X)>>)>>) : self \in {"none", "value", "ref", "ref mut"}}
Pairs ==
    {Run(Named(<< <<Fn("f", a), Fn("g", b)>> >>), 0, Alike(1, 1)) : a, b \in Edits}
      \cup {Run(Named(<< <<Fn("f", a), Impl("A", <<Method("f", a)>>)>> >>), 0, Alike(1, 2)) : a \in Edits}
      \cup {Run(Named(<< <<a, b>> >>), 0, Alike(2, 3)) : a, b \in Typed}

(* Sweeps: three files in every order of a walk, at bounds on either side. *)
Sizes == <<Fn("f", <<Val(X)>>), Fn("g", <<Semi(X), Val(Op("add", X, X))>>), Fn("h", <<Val(If(X, X))>>)>>
Walks == {w \in [1 .. 3 -> 1 .. 3] : \A i, j \in 1 .. 3 : w[i] = w[j] => i = j}
Sweep(walk, trees, minNodes, threshold) ==
    Run([i \in 1 .. 3 |-> Named(trees)[walk[i]]], minNodes, threshold)
Sweeps ==
    {Sweep(w, << <<Sizes[a]>>, <<Sizes[b], Sizes[c]>>, <<Sizes[2], Test(Sizes[3])>> >>, n, t) :
       w \in Walks, a, b, c \in 1 .. 3, n \in {4, 5}, t \in {Alike(0, 1), Alike(3, 7), Alike(1, 1)}}

MCInputs == <<Bodied, Places, Pairs, Sweeps>>
=============================================================================
