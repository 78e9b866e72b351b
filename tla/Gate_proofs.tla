----------------------------- MODULE Gate_proofs -----------------------------
(***************************************************************************)
(* Proofs about Gate, for any workspace, members, requests and reports and *)
(* any number of runs and edits: the baseline is narrowed to what the run  *)
(* would find, and the exit code is the verdict on it.                     *)
(***************************************************************************)
EXTENDS Gate, FiniteSetTheorems, SequenceTheorems, WellFoundedInduction, TLAPS

Path == Seq(STRING)

-----------------------------------------------------------------------------
(* Paths *)

(* What a directory and the rest of a path are, component by component.    *)
LEMMA Prefixes ==
    ASSUME NEW f \in Path, NEW d \in Path
    PROVE  Starts(f, d) <=> /\ Len(d) <= Len(f)
                            /\ \A k \in 1 .. Len(d) : f[k] = d[k]
<1> USE DEF Path
<1>1. Len(d) \in Nat /\ Len(f) \in Nat /\ DOMAIN d = 1 .. Len(d) /\ DOMAIN f = 1 .. Len(f)
  BY LenProperties
<1>2. ASSUME Len(d) <= Len(f)
      PROVE  /\ SubSeq(f, 1, Len(d)) \in Seq(STRING)
             /\ Len(SubSeq(f, 1, Len(d))) = Len(d)
             /\ \A k \in 1 .. Len(d) : SubSeq(f, 1, Len(d))[k] = f[k]
  <2>1. Len(d) \in 1 - 1 .. Len(f)
    BY <1>1, <1>2
  <2>2. /\ SubSeq(f, 1, Len(d)) \in Seq(STRING)
        /\ Len(SubSeq(f, 1, Len(d))) = IF 1 <= Len(d) THEN Len(d) - 1 + 1 ELSE 0
        /\ \A i \in 1 .. Len(d) - 1 + 1 : SubSeq(f, 1, Len(d))[i] = f[1 + i - 1]
    BY <1>1, <2>1, SubSeqProperties
  <2>3. QED
    BY <1>1, <2>2
<1>3. ASSUME Len(d) <= Len(f), \A k \in 1 .. Len(d) : f[k] = d[k]
      PROVE  SubSeq(f, 1, Len(d)) = d
  BY <1>1, <1>2, <1>3, SeqEqual
<1>4. QED
  BY <1>1, <1>2, <1>3 DEF Starts, Root

LEMMA Rest ==
    ASSUME NEW f \in Path, NEW n \in 0 .. Len(f)
    PROVE  /\ Below(f, n) \in Path /\ Len(Below(f, n)) = Len(f) - n
           /\ \A k \in 1 .. Len(f) - n : Below(f, n)[k] = f[n + k]
<1> USE DEF Path
<1>1. Len(f) \in Nat
  BY LenProperties
<1>2. n + 1 \in 1 .. Len(f) + 1 /\ Len(f) \in n + 1 - 1 .. Len(f)
  BY <1>1
<1>3. /\ SubSeq(f, n + 1, Len(f)) \in Seq(STRING)
      /\ Len(SubSeq(f, n + 1, Len(f))) = IF n + 1 <= Len(f) THEN Len(f) - (n + 1) + 1 ELSE 0
      /\ \A i \in 1 .. Len(f) - (n + 1) + 1 : SubSeq(f, n + 1, Len(f))[i] = f[n + 1 + i - 1]
  BY <1>2, SubSeqProperties
<1>4. QED
  BY <1>1, <1>3 DEF Below

(* Two directories above one file are one below the other, and so are the  *)
(* rests.                                                                  *)
LEMMA Chain ==
    ASSUME NEW f \in Path, NEW d \in Path, NEW e \in Path,
           Starts(f, d), Starts(f, e), Len(d) <= Len(e)
    PROVE  /\ Starts(e, d) /\ (Len(d) = Len(e) => d = e)
           /\ Starts(Below(f, Len(d)), Below(e, Len(d)))
<1>1. /\ Len(f) \in Nat /\ Len(d) \in Nat /\ Len(e) \in Nat
      /\ Len(d) <= Len(f) /\ Len(e) <= Len(f)
      /\ \A k \in 1 .. Len(d) : f[k] = d[k]
      /\ \A k \in 1 .. Len(e) : f[k] = e[k]
  BY Prefixes, LenProperties DEF Path
<1>2. \A k \in 1 .. Len(d) : e[k] = d[k]
  BY <1>1
<1>3. Starts(e, d)
  BY <1>1, <1>2, Prefixes
<1>4. Len(d) = Len(e) => d = e
  BY <1>2, SeqEqual DEF Path
<1>5. Starts(Below(f, Len(d)), Below(e, Len(d)))
  <2>1. /\ Below(f, Len(d)) \in Path /\ Len(Below(f, Len(d))) = Len(f) - Len(d)
        /\ \A k \in 1 .. Len(f) - Len(d) : Below(f, Len(d))[k] = f[Len(d) + k]
    BY <1>1, Rest
  <2>2. /\ Below(e, Len(d)) \in Path /\ Len(Below(e, Len(d))) = Len(e) - Len(d)
        /\ \A k \in 1 .. Len(e) - Len(d) : Below(e, Len(d))[k] = e[Len(d) + k]
    BY <1>1, Rest
  <2>3. \A k \in 1 .. Len(e) - Len(d) : Below(f, Len(d))[k] = Below(e, Len(d))[k]
    BY <1>1, <2>1, <2>2
  <2>4. QED
    BY <1>1, <2>1, <2>2, <2>3, Prefixes
<1>6. QED
  BY <1>3, <1>4, <1>5

(* A path below a directory is the directory and the rest. *)
LEMMA Joined ==
    ASSUME NEW d \in Path, NEW r \in Path
    PROVE  d \o r \in Path /\ Starts(d \o r, d) /\ Below(d \o r, Len(d)) = r
<1> DEFINE f == d \o r
<1>1. /\ f \in Path /\ Len(f) = Len(d) + Len(r)
      /\ Len(d) \in Nat /\ Len(r) \in Nat
      /\ \A k \in 1 .. Len(d) + Len(r) :
           f[k] = IF k <= Len(d) THEN d[k] ELSE r[k - Len(d)]
  BY ConcatProperties, LenProperties DEF Path
<1> HIDE DEF f
<1>2. Starts(f, d)
  <2>1. Len(d) <= Len(f) /\ \A k \in 1 .. Len(d) : f[k] = d[k]
    BY <1>1
  <2>2. QED
    BY <1>1, <2>1, Prefixes
<1>3. /\ Below(f, Len(d)) \in Path /\ Len(Below(f, Len(d))) = Len(r)
      /\ \A k \in 1 .. Len(r) : Below(f, Len(d))[k] = f[Len(d) + k]
  <2>1. Len(d) \in 0 .. Len(f) /\ Len(f) - Len(d) = Len(r)
    BY <1>1
  <2>2. QED
    BY <1>1, <2>1, Rest
<1>4. Below(f, Len(d)) = r
  <2>1. \A k \in 1 .. Len(r) : f[Len(d) + k] = r[k]
    BY <1>1
  <2>2. \A k \in 1 .. Len(r) : Below(f, Len(d))[k] = r[k]
    BY <1>3, <2>1
  <2>3. QED
    BY <1>1, <1>3, <2>2, SeqEqual DEF Path
<1>5. QED
  BY <1>1, <1>2, <1>4 DEF f

LEMMA Split ==
    ASSUME NEW f \in Path, NEW d \in Path, Starts(f, d)
    PROVE  d \o Below(f, Len(d)) = f
<1> DEFINE r == Below(f, Len(d))
<1>1. /\ Len(f) \in Nat /\ Len(d) \in Nat /\ Len(d) <= Len(f)
      /\ \A k \in 1 .. Len(d) : f[k] = d[k]
  BY Prefixes, LenProperties DEF Path
<1>2. /\ r \in Path /\ Len(r) = Len(f) - Len(d)
      /\ \A k \in 1 .. Len(f) - Len(d) : r[k] = f[Len(d) + k]
  BY <1>1, Rest
<1> HIDE DEF r
<1>3. /\ d \o r \in Path /\ Len(d \o r) = Len(f)
      /\ \A k \in 1 .. Len(f) : (d \o r)[k] = IF k <= Len(d) THEN d[k] ELSE r[k - Len(d)]
  <2>1. /\ d \o r \in Path /\ Len(d \o r) = Len(d) + Len(r)
        /\ \A k \in 1 .. Len(d) + Len(r) :
             (d \o r)[k] = IF k <= Len(d) THEN d[k] ELSE r[k - Len(d)]
    BY <1>2, ConcatProperties DEF Path
  <2>2. Len(d) + Len(r) = Len(f)
    BY <1>1, <1>2
  <2>3. QED
    BY <2>1, <2>2
<1>4. \A k \in 1 .. Len(f) : (d \o r)[k] = f[k]
  <2>1. TAKE k \in 1 .. Len(f)
  <2>2. CASE k <= Len(d)
    BY <1>1, <1>3, <2>2
  <2>3. CASE ~(k <= Len(d))
    <3>1. k - Len(d) \in 1 .. Len(f) - Len(d)
      BY <1>1, <2>3
    <3>2. r[k - Len(d)] = f[k]
      BY <1>1, <1>2, <3>1
    <3>3. QED
      BY <1>3, <2>3, <3>2
  <2>4. QED
    BY <2>2, <2>3
<1>5. QED
  BY <1>3, <1>4, SeqEqual DEF Path, r

-----------------------------------------------------------------------------
(* The scope *)

(* Members' directories are absolute: the walk spells a file as it is.     *)
LEMMA Spelling ==
    ASSUME NEW d \in Dirs, NEW f \in Path
    PROVE  /\ d \in Path /\ Len(d) \in Nat \ {0} /\ d[1] = "/" /\ Absolute(d) = d
           /\ Starts(f, d) => /\ Len(f) \in Nat \ {0} /\ f[1] = "/"
                              /\ Absolute(f) = f /\ Spelled(d, f) = f
           /\ Reaches(d, f) <=> Starts(f, d) /\ ~Excluded(d, d, f)
<1>1. d \in Path /\ d # <<>> /\ d[1] = "/"
  BY PlacesAssumption DEF Path
<1>2. Len(d) \in Nat \ {0} /\ Len(f) \in Nat
  BY <1>1, LenProperties, EmptySeq DEF Path
<1>3. Absolute(d) = d
  BY <1>1 DEF Absolute
<1>4. ASSUME Starts(f, d)
      PROVE  /\ Len(f) \in Nat \ {0} /\ f[1] = "/"
             /\ Absolute(f) = f /\ Spelled(d, f) = f
  <2>1. Len(d) <= Len(f) /\ f[1] = d[1]
    BY <1>1, <1>2, <1>4, Prefixes
  <2>2. f # <<>>
    BY <1>2, <2>1
  <2>3. QED
    BY <1>1, <1>2, <1>3, <1>4, <2>1, <2>2, Split DEF Absolute, Spelled
<1>5. QED
  BY <1>1, <1>2, <1>3, <1>4 DEF Reaches

(* The members analysed are members. *)
LEMMA Members ==
    ASSUME InWorkspace, Selectable
    PROVE  Roots \subseteq Dirs
  BY DEF Roots, InWorkspace, Selectable

(* A member's walk leaves out what another member below it holds. *)
LEMMA NestedLeftOut ==
    ASSUME InWorkspace, NEW d \in Dirs, NEW e \in Dirs, NEW f \in Path,
           Starts(f, d), Starts(f, e), ~Excluded(d, d, f), Len(d) <= Len(e)
    PROVE  e = d
<1>1. SUFFICES ASSUME e # d
               PROVE  FALSE
  OBVIOUS
<1>2. d \in Path /\ e \in Path
  BY Spelling
<1>3. Starts(e, d) /\ Starts(Below(f, Len(d)), Below(e, Len(d)))
  BY <1>2, Chain
<1>4. Below(e, Len(d)) \in MemberOnly(d)
  BY <1>1, <1>3 DEF MemberOnly, Nested
<1>5. QED
  BY <1>3, <1>4 DEF Excluded

(* A bounded set of numbers has a greatest: what stands in for induction. *)
LEMMA GreatestNumber ==
    ASSUME NEW T \in SUBSET Nat, T # {}, NEW n \in Nat, \A k \in T : k <= n
    PROVE  \E m \in T : \A k \in T : k <= m
<1> DEFINE Less == OpToRel(<, Nat)
           Bounds == {u \in Nat : \A k \in T : k <= u}
<1>1. IsWellFoundedOn(Less, Nat)
  BY NatLessThanWellFounded
<1>2. \A x, y \in Nat : x < y => <<x, y>> \in Less
  BY DEF OpToRel
<1> HIDE DEF Less
<1>3. PICK u \in Bounds : \A v \in Bounds : <<v, u>> \notin Less
  <2>1. Bounds \subseteq Nat /\ n \in Bounds
    OBVIOUS
  <2>2. QED
    BY <1>1, <2>1, WFMin
<1>4. \A k \in T : k \in Nat /\ k <= u
  BY <1>3
<1>5. ASSUME u \notin T
      PROVE  FALSE
  <2>1. \A k \in T : k < u
    BY <1>3, <1>4, <1>5
  <2>2. u \in Nat /\ u - 1 \in Nat /\ u - 1 < u
    <3>1. PICK k \in T : TRUE
      OBVIOUS
    <3>2. u \in Nat /\ k \in Nat /\ k < u
      BY <1>3, <1>4, <2>1
    <3>3. QED
      BY <3>2
  <2>3. u - 1 \in Bounds
    BY <1>4, <2>1, <2>2
  <2>4. QED
    BY <1>2, <1>3, <2>2, <2>3
<1>6. QED
  BY <1>4, <1>5


(* Of the directories above a file one is the deepest, and only one. *)
LEMMA Deepest ==
    ASSUME NEW S \in SUBSET Dirs, NEW f \in Path, NEW e \in S, Starts(f, e)
    PROVE  \E d \in S : Starts(f, d) /\ \A x \in S : Starts(f, x) => Len(x) <= Len(d)
<1> DEFINE above == {x \in S : Starts(f, x)}
           depths == {Len(x) : x \in above}
<1>1. \A x \in above : Len(x) \in Nat /\ Len(x) <= Len(f)
  BY Spelling, Prefixes
<1>2. depths \in SUBSET Nat /\ depths # {} /\ Len(f) \in Nat /\ \A k \in depths : k <= Len(f)
  BY <1>1, LenProperties DEF Path
<1> HIDE DEF depths
<1>3. PICK m \in depths : \A k \in depths : k <= m
  BY <1>2, GreatestNumber
<1>4. QED
  BY <1>3 DEF depths

LEMMA OneDeepest ==
    ASSUME NEW d \in Dirs, NEW e \in Dirs, NEW f \in Path, Starts(f, d), Starts(f, e),
           Len(d) <= Len(e), Len(e) <= Len(d)
    PROVE  d = e
<1>1. Len(d) = Len(e) /\ d \in Path /\ e \in Path
  BY Spelling
<1>2. QED
  BY <1>1, Chain

(* In workspace mode: a file in some member's directory is kept by both    *)
(* filters of the baseline exactly if a walk of this run finds it.         *)
LEMMA MembersScope ==
    ASSUME InWorkspace, Selectable, NEW f \in Path, NEW c \in Dirs, Starts(f, c)
    PROVE  /\ ~Filtered(f) /\ ~OutOfScope(f) <=> \E d \in Roots : Reaches(d, f)
           /\ Filtered(f) => ~\E d \in Roots : Reaches(d, f)
<1>1. Roots \subseteq Dirs
  BY Members
<1>2. ASSUME NEW d \in Roots, Reaches(d, f)
      PROVE  ~Filtered(f) /\ ~OutOfScope(f)
  <2>1. d \in Dirs /\ Starts(f, d) /\ ~Excluded(d, d, f) /\ Len(d) \in Nat
    BY <1>1, <1>2, Spelling
  <2>2. \A e \in Dirs : Starts(f, e) => e = d \/ Len(e) < Len(d)
    <3>1. TAKE e \in Dirs
    <3>2. Len(e) \in Nat /\ (Len(d) <= Len(e) \/ Len(e) < Len(d))
      BY <2>1, Spelling
    <3>3. QED
      BY <2>1, <3>2, NestedLeftOut
  <2>3. \A e \in Dirs : Starts(f, e) /\ Len(d) <= Len(e) => e = d
    BY <2>1, NestedLeftOut
  <2>4. ~Filtered(f)
    BY <1>1, <2>1, <2>3 DEF Filtered
  <2>5. ~OutOfScope(f)
    <3>1. Owners(f) = {d} \/ d \in Owners(f)
      <4>1. \A e \in Dirs : Starts(f, e) => Len(e) <= Len(d)
        BY <2>1, <2>2, Spelling
      <4>2. QED
        BY <2>1, <4>1 DEF Owners
    <3>2. QED
      BY <1>2, <3>1 DEF OutOfScope, Roots, InWorkspace
  <2>6. QED
    BY <2>4, <2>5
<1>3. ASSUME ~Filtered(f), ~OutOfScope(f)
      PROVE  \E d \in Roots : Reaches(d, f)
  <2>1. PICK e \in Roots : Starts(f, e)
    <3>1. PICK d \in Dirs : Starts(f, d) /\ \A x \in Dirs : Starts(f, x) => Len(x) <= Len(d)
      BY Deepest
    <3>2. CASE q.packages = {}
      BY <3>1, <3>2 DEF Roots, InWorkspace
    <3>3. CASE q.packages # {}
      <4>1. d \in Owners(f)
        BY <3>1 DEF Owners
      <4>2. PICK o \in Owners(f) : o \in q.packages
        BY <1>3, <3>3, <4>1 DEF OutOfScope
      <4>3. QED
        BY <3>1, <3>3, <4>2 DEF Owners, Roots, InWorkspace
    <3>4. QED
      BY <3>2, <3>3
  <2>2. PICK d \in Roots : Starts(f, d) /\ \A x \in Roots : Starts(f, x) => Len(x) <= Len(d)
    BY <1>1, <2>1, Deepest
  <2>3. ~Excluded(d, d, f)
    BY <1>3, <2>2 DEF Filtered
  <2>4. QED
    BY <1>1, <2>2, <2>3, Spelling
<1>4. QED
  BY <1>2, <1>3

(* Making a path absolute leaves alone how it goes on. *)
LEMMA TailOfJoined ==
    ASSUME NEW p \in Path, p # <<>>, NEW r \in Path
    PROVE  /\ Tail(p) \in Path /\ Tail(p \o r) = Tail(p) \o r
           /\ p \o r # <<>> /\ (p \o r)[1] = p[1]
<1> DEFINE f == p \o r
           t == Tail(p)
<1>1. /\ Len(p) \in Nat \ {0} /\ Len(r) \in Nat
      /\ f \in Path /\ Len(f) = Len(p) + Len(r)
      /\ \A k \in 1 .. Len(p) + Len(r) : f[k] = IF k <= Len(p) THEN p[k] ELSE r[k - Len(p)]
  BY LenProperties, EmptySeq, ConcatProperties DEF Path
<1>2. t \in Path /\ Len(t) = Len(p) - 1 /\ \A k \in 1 .. Len(t) : t[k] = p[k + 1]
  BY HeadTailProperties DEF Path
<1> HIDE DEF f, t
<1>3. f # <<>> /\ f[1] = p[1]
  <2>1. Len(f) # 0 /\ 1 \in 1 .. Len(p) + Len(r) /\ 1 <= Len(p)
    BY <1>1
  <2>2. QED
    BY <1>1, <2>1, EmptySeq
<1>4. /\ Tail(f) \in Path /\ Len(Tail(f)) = Len(f) - 1
      /\ \A k \in 1 .. Len(Tail(f)) : Tail(f)[k] = f[k + 1]
  BY <1>1, <1>3, HeadTailProperties DEF Path
<1>5. /\ t \o r \in Path /\ Len(t \o r) = Len(t) + Len(r)
      /\ \A k \in 1 .. Len(t) + Len(r) :
            (t \o r)[k] = IF k <= Len(t) THEN t[k] ELSE r[k - Len(t)]
  BY <1>1, <1>2, ConcatProperties DEF Path
<1>6. Len(Tail(f)) = Len(t) + Len(r) /\ Len(t) \in Nat
  BY <1>1, <1>2, <1>4
<1>7. \A k \in 1 .. Len(t) + Len(r) : Tail(f)[k] = (t \o r)[k]
  <2>1. TAKE k \in 1 .. Len(t) + Len(r)
  <2>2. Tail(f)[k] = f[k + 1] /\ k + 1 \in 1 .. Len(p) + Len(r)
    BY <1>1, <1>2, <1>4, <1>6
  <2>3. CASE k <= Len(t)
    <3>1. k + 1 <= Len(p) /\ t[k] = p[k + 1]
      BY <1>1, <1>2, <2>3
    <3>2. QED
      BY <1>1, <1>5, <2>2, <2>3, <3>1
  <2>4. CASE ~(k <= Len(t))
    <3>1. ~(k + 1 <= Len(p)) /\ k + 1 - Len(p) = k - Len(t)
      BY <1>1, <1>2, <2>4
    <3>2. QED
      BY <1>1, <1>5, <2>2, <2>4, <3>1
  <2>5. QED
    BY <2>3, <2>4
<1>8. Tail(f) = t \o r
  BY <1>4, <1>5, <1>6, <1>7, SeqEqual DEF Path
<1>9. QED
  BY <1>1, <1>2, <1>3, <1>8 DEF f, t

LEMMA AbsoluteOfJoined ==
    ASSUME NEW p \in Path, p # <<>>, NEW r \in Path
    PROVE  Absolute(p) \in Path /\ Absolute(p \o r) = Absolute(p) \o r
<1>1. /\ Workspace \in Path /\ Tail(p) \in Path /\ Tail(p \o r) = Tail(p) \o r
      /\ p \o r # <<>> /\ (p \o r)[1] = p[1]
  BY PlacesAssumption, TailOfJoined DEF Path
<1>2. CASE p[1] = "/"
  BY <1>1, <1>2 DEF Absolute
<1>3. CASE p[1] = "."
  <2>1. Absolute(p) = Workspace \o Tail(p) /\ Absolute(p \o r) = Workspace \o (Tail(p) \o r)
    BY <1>1, <1>3 DEF Absolute
  <2>2. Workspace \o Tail(p) \in Path
    BY <1>1, ConcatProperties DEF Path
  <2>3. (Workspace \o Tail(p)) \o r = Workspace \o (Tail(p) \o r)
    BY <1>1, ConcatAssociative DEF Path
  <2>4. QED
    BY <2>1, <2>2, <2>3, Zenon
<1>4. CASE p[1] # "/" /\ p[1] # "."
  <2>1. Absolute(p) = Workspace \o p /\ Absolute(p \o r) = Workspace \o (p \o r)
    BY <1>1, <1>4 DEF Absolute
  <2>2. Workspace \o p \in Path
    BY <1>1, ConcatProperties DEF Path
  <2>3. (Workspace \o p) \o r = Workspace \o (p \o r)
    BY <1>1, ConcatAssociative DEF Path
  <2>4. QED
    BY <2>1, <2>2, <2>3, Zenon
<1>5. QED
  BY <1>2, <1>3, <1>4

(* Under --path: the same, for a file spelled below the path.              *)
LEMMA PathScope ==
    ASSUME q \in Requests, ~InWorkspace, NEW f \in Path, Starts(f, q.path)
    PROVE  /\ Roots = {q.path} /\ ~OutOfScope(f)
           /\ ~Filtered(f) <=> Reaches(q.path, Absolute(f))
<1> DEFINE p == q.path
           r == Below(f, Len(p))
<1>1. /\ p \in Path /\ p # <<>> /\ Roots = {p} /\ ~OutOfScope(f)
  BY RequestsAssumption DEF InWorkspace, Roots, OutOfScope, Path
<1> HIDE DEF p
<1>2. Starts(f, p)
  BY DEF p
<1>3. r \in Path /\ p \o r = f
  <2>1. Len(p) \in 0 .. Len(f)
    BY <1>1, <1>2, Prefixes, LenProperties DEF Path
  <2>2. QED
    BY <1>1, <1>2, <2>1, Rest, Split
<1> HIDE DEF r
<1>4. Absolute(p) \in Path /\ Absolute(f) = Absolute(p) \o r
  BY <1>1, <1>3, AbsoluteOfJoined
<1>5. Starts(Absolute(f), Absolute(p)) /\ Spelled(p, Absolute(f)) = f
  <2>1. Starts(Absolute(f), Absolute(p)) /\ Below(Absolute(f), Len(Absolute(p))) = r
    BY <1>3, <1>4, Joined
  <2>2. QED
    BY <1>3, <2>1 DEF Spelled
<1>6. Filtered(f) <=> Excluded(p, p, f)
  BY <1>1 DEF Filtered, p
<1>7. QED
  BY <1>1, <1>5, <1>6 DEF Reaches, p

-----------------------------------------------------------------------------
(* The invariant *)

LEMMA InitIInv == Init => IInv
<1>1. SUFFICES ASSUME Init
               PROVE  IInv
  OBVIOUS
<1>2. TypeOK
  BY <1>1, FS_EmptySet, PlacesAssumption DEF Init, TypeOK
<1>3. Found /\ Scoped
  BY <1>1 DEF Init, Found, Scoped
<1>4. Counted /\ Concluded
  BY <1>1 DEF Init, Counted, Concluded, Ended
<1>5. QED
  BY <1>2, <1>3, <1>4 DEF IInv

(* What a run has concluded it concludes as long as nothing it rests on    *)
(* changes.                                                                *)
LEMMA SameJudgement ==
    ASSUME q' = q, rows' = rows, shown' = shown, old' = old
    PROVE  Judgement' = Judgement
<1>1. Fresh' = Fresh /\ Loose' = Loose
  BY DEF Fresh, Loose
<1>2. \A c, b : Close(c, b)' <=> Close(c, b)
  BY <1>1 DEF Close
<1>3. \A c, b : Alone(c, b)' <=> Alone(c, b)
  BY <1>1, <1>2 DEF Alone
<1>4. \A c : Partner(c)' = Partner(c)
  BY <1>1, <1>2, <1>3 DEF Partner
<1>5. \A c : Regressed(c)' <=> Regressed(c)
  BY <1>4 DEF Regressed
<1>6. \A c, s : Rose(c, s)' <=> Rose(c, s)
  BY <1>4 DEF Rose
<1>7. \A c, s : TooMuch(c, s)' <=> TooMuch(c, s)
  BY <1>4 DEF TooMuch
<1>8. \A c : Reasons(c)' = Reasons(c)
  BY <1>6, <1>7 DEF Reasons
<1>9. QED
  BY <1>5, <1>8 DEF Judgement

(* Nor does what the walk, the filters and the scope do. *)
LEMMA SameScope ==
    ASSUME q' = q
    PROVE  /\ Roots' = Roots /\ (InWorkspace' <=> InWorkspace)
           /\ (Selectable' <=> Selectable)
           /\ \A e : Allowed(e)' <=> Allowed(e)
           /\ \A d, f : Reaches(d, f)' <=> Reaches(d, f)
           /\ \A b : Keeps(b)' <=> Keeps(b)
           /\ \A f : OutOfScope(f)' <=> OutOfScope(f)
<1>1. /\ Roots' = Roots /\ (InWorkspace' <=> InWorkspace)
      /\ (Selectable' <=> Selectable)
      /\ \A e : Allowed(e)' <=> Allowed(e)
  BY DEF Roots, InWorkspace, Selectable, Allowed
<1>2. \A d : MemberOnly(d)' = MemberOnly(d)
  BY DEF MemberOnly, Nested, InWorkspace
<1>3. \A d, e, f : Excluded(d, e, f)' <=> Excluded(d, e, f)
  BY <1>1, <1>2 DEF Excluded
<1>4. \A d, f : Reaches(d, f)' <=> Reaches(d, f)
  BY <1>3 DEF Reaches
<1>5. \A f : Filtered(f)' <=> Filtered(f)
  BY <1>1, <1>3 DEF Filtered
<1>6. \A b : Keeps(b)' <=> Keeps(b)
  BY <1>1, <1>5 DEF Keeps
<1>7. \A f : OutOfScope(f)' <=> OutOfScope(f)
  BY DEF OutOfScope
<1>8. QED
  BY <1>1, <1>4, <1>6, <1>7

(* A row as the walk of one root lists it. *)
LEMMA RowOfWalk ==
    ASSUME q \in Requests, Selectable, NEW d \in Roots, NEW p \in Places, Reaches(d, p.file)
    PROVE  /\ Spelled(d, p.file) \in Path /\ Starts(Spelled(d, p.file), d)
           /\ Absolute(Spelled(d, p.file)) = p.file
           /\ InWorkspace => Spelled(d, p.file) = p.file
<1>1. p.file \in Path
  BY PlacesAssumption DEF Path
<1>2. CASE InWorkspace
  <2>1. d \in Dirs
    BY <1>2, Members
  <2>2. QED
    BY <1>1, <2>1, Spelling
<1>3. CASE ~InWorkspace
  <2>1. d \in Path /\ d # <<>>
    BY <1>3, RequestsAssumption DEF InWorkspace, Roots, Path
  <2> DEFINE a == Absolute(d)
             r == Below(p.file, Len(a))
  <2>2. a \in Path
    BY <2>1, AbsoluteOfJoined, EmptySeq DEF Path
  <2>3. Starts(p.file, a)
    BY DEF Reaches
  <2>4. r \in Path /\ a \o r = p.file
    <3>1. Len(a) \in 0 .. Len(p.file)
      BY <1>1, <2>2, <2>3, Prefixes, LenProperties DEF Path
    <3>2. QED
      BY <1>1, <2>2, <2>3, <3>1, Rest, Split
  <2>5. Spelled(d, p.file) = d \o r
    BY DEF Spelled
  <2> HIDE DEF r
  <2>6. d \o r \in Path /\ Starts(d \o r, d)
    BY <2>1, <2>4, Joined
  <2>7. Absolute(d \o r) = a \o r
    BY <2>1, <2>4, AbsoluteOfJoined
  <2>8. QED
    BY <1>3, <2>4, <2>5, <2>6, <2>7, Zenon
<1>4. QED
  BY <1>2, <1>3

LEMMA EverythingFound ==
    ASSUME TypeOK, pc # "idle", Selectable
    PROVE  /\ Everything \subseteq Row /\ IsFiniteSet(Everything)
           /\ \A c \in Everything :
                /\ \E d \in Roots : Starts(c.file, d) /\ Reaches(d, Absolute(c.file))
                /\ InWorkspace => \A k \in DOMAIN c.file : c.file[k] = "/" <=> k = 1
<1>0. q \in Requests
  BY DEF TypeOK
<1> DEFINE row(d, p) == [file |-> Spelled(d, p.file), function |-> p.function,
                         crap |-> tree[p].crap, signals |-> Kept(tree[p].signals)]
           held == {p \in Places : tree[p] # Absent}
<1>1. Everything = UNION {{row(d, p) : p \in {x \in held : Reaches(d, x.file)}} : d \in Roots}
  BY DEF Everything
<1>2. \A p \in held : /\ tree[p].crap \in Nat
                      /\ Kept(tree[p].signals) \in [Signals -> Nat] \cup {None}
                      /\ p.function \in STRING
  BY PlacesAssumption, MeasuresAssumption DEF TypeOK, Kept
<1>3. \A d \in Roots, p \in held : Reaches(d, p.file) =>
         /\ row(d, p) \in Row
         /\ Starts(row(d, p).file, d) /\ Absolute(row(d, p).file) = p.file
         /\ InWorkspace => row(d, p).file = p.file
  BY <1>0, <1>2, RowOfWalk DEF Row, Path
<1>4. ASSUME NEW c \in Everything
      PROVE  /\ c \in Row
             /\ \E d \in Roots : Starts(c.file, d) /\ Reaches(d, Absolute(c.file))
             /\ InWorkspace => \A k \in DOMAIN c.file : c.file[k] = "/" <=> k = 1
  <2>1. PICK d \in Roots, p \in held : Reaches(d, p.file) /\ c = row(d, p)
    BY <1>1
  <2> HIDE DEF row
  <2>2. /\ c \in Row /\ Starts(c.file, d) /\ Absolute(c.file) = p.file
        /\ InWorkspace => c.file = p.file
    BY <1>3, <2>1
  <2>3. \A k \in DOMAIN p.file : p.file[k] = "/" <=> k = 1
    BY PlacesAssumption
  <2>4. QED
    BY <2>1, <2>2, <2>3
<1>5. IsFiniteSet(Everything)
  <2> DEFINE spelled(p) == IF InWorkspace THEN p.file ELSE Spelled(q.path, p.file)
             shape(p) == [file |-> spelled(p), function |-> p.function,
                          crap |-> tree[p].crap, signals |-> Kept(tree[p].signals)]
             f == [p \in Places |-> shape(p)]
             image == {shape(p) : p \in Places}
  <2>1. f \in Surjection(Places, image)
    BY DEF Surjection
  <2>2. IsFiniteSet(image)
    <3> HIDE DEF f, image
    <3>1. QED
      BY <2>1, FS_Surjection, PlacesAssumption
  <2>3. \A d \in Roots, p \in held : Reaches(d, p.file) => Spelled(d, p.file) = spelled(p)
    BY <1>0, RowOfWalk DEF Roots, InWorkspace
  <2>4. \A d \in Roots, p \in held : Reaches(d, p.file) => row(d, p) = shape(p)
    <3> HIDE DEF spelled
    <3>1. QED
      BY <2>3
  <2>5. Everything \subseteq image
    <3>1. ASSUME NEW c \in Everything
          PROVE  c \in image
      <4>1. PICK d \in Roots, p \in held : Reaches(d, p.file) /\ c = row(d, p)
        BY <1>1
      <4> HIDE DEF row, shape
      <4>2. c = shape(p)
        BY <2>4, <4>1
      <4>3. QED
        BY <4>2
    <3>2. QED
      BY <3>1
  <2>6. QED
    BY <2>2, <2>5, FS_Subset
<1>6. QED
  BY <1>4, <1>5

LEMMA WrittenRow ==
    ASSUME NEW r \in Row
    PROVE  /\ Written(r) \in Row
           /\ Written(r).crap = r.crap /\ Written(r).function = r.function
           /\ Written(r).signals = r.signals
           /\ Written(r).file = IF InWorkspace /\ Starts(r.file, Workspace)
                                THEN Below(r.file, Len(Workspace)) ELSE r.file
<1>1. r.file \in Path /\ Workspace \in Path
  BY PlacesAssumption DEF Row, Path
<1>2. Starts(r.file, Workspace) => Below(r.file, Len(Workspace)) \in Path
  <2>1. Starts(r.file, Workspace) => Len(Workspace) \in 0 .. Len(r.file)
    BY <1>1, Prefixes, LenProperties DEF Path
  <2>2. QED
    BY <1>1, <2>1, Rest
<1>3. QED
  BY <1>1, <1>2 DEF Written, Row, Path

LEMMA CompleteType ==
    ASSUME TypeOK
    PROVE  /\ DOMAIN Complete = Slots
           /\ \A s \in Slots : Complete[s] \in {NoFile, Cut} \/ Complete[s].rows \subseteq Row
<1>1. Report.rows \subseteq Row
  BY WrittenRow DEF TypeOK, Report
<1>2. QED
  BY <1>1 DEF TypeOK, Complete

(* A run, or an edit, begins with nothing in hand. *)
LEMMA NothingIInv ==
    ASSUME TypeOK, Nothing, pc' \in {"idle", "analyze"}, code' = None, reports' = reports,
           tree' \in [Places -> Measures \cup {Absent}], pc' # "idle" => q' \in Requests
    PROVE  IInv'
<1>1. TypeOK'
  <2>1. pc' \in {"idle", "done"} \cup {Stages[k] : k \in DOMAIN Stages}
    BY DEF Stages
  <2>2. QED
    BY <2>1, FS_EmptySet DEF TypeOK, Nothing
<1>2. Found' /\ Scoped'
  BY DEF Nothing, Found, Scoped
<1>3. Counted' /\ Concluded'
  BY DEF Counted, Concluded, Ended
<1>4. QED
  BY <1>1, <1>2, <1>3 DEF IInv

LEMMA AnalyseIInv == ASSUME IInv, Analyse PROVE IInv'
<1>1. /\ TypeOK /\ Found /\ Scoped /\ pc = "analyze" /\ pc' = "baseline" /\ Selectable
      /\ rows' = {r \in Everything : ~Allowed(r)} /\ shown' \subseteq rows'
      /\ UNCHANGED <<tree, reports, q, recorded, old, verdict, code>>
  BY DEF IInv, Analyse
<1>2. /\ Everything \subseteq Row /\ IsFiniteSet(Everything)
      /\ \A c \in Everything :
           /\ \E d \in Roots : Starts(c.file, d) /\ Reaches(d, Absolute(c.file))
           /\ InWorkspace => \A k \in DOMAIN c.file : c.file[k] = "/" <=> k = 1
  BY <1>1, EverythingFound
<1>3. TypeOK'
  <2>1. rows' \subseteq Row /\ IsFiniteSet(rows')
    BY <1>1, <1>2, FS_Subset
  <2>2. pc' \in {"idle", "done"} \cup {Stages[k] : k \in DOMAIN Stages}
    BY <1>1 DEF Stages
  <2>3. QED
    BY <1>1, <2>1, <2>2 DEF TypeOK
<1>4. Found'
  BY <1>1, <1>2, SameScope DEF Found
<1>5. Scoped'
  BY <1>1, SameScope DEF Scoped
<1>6. Counted' /\ Concluded'
  BY <1>1 DEF Counted, Concluded, Ended
<1>7. QED
  BY <1>3, <1>4, <1>5, <1>6 DEF IInv

LEMMA LoadIInv == ASSUME IInv, Load PROVE IInv'
<1>1. /\ TypeOK /\ Found /\ Scoped /\ pc = "baseline" /\ pc' = "output"
      /\ UNCHANGED <<tree, reports, q, rows, shown, verdict, code>>
      /\ q.baseline # None => reports[q.baseline] \notin {NoFile, Cut}
      /\ recorded' = IF q.baseline = None THEN {}
                     ELSE {Resolved(b) : b \in reports[q.baseline].rows}
      /\ old' = {b \in recorded' : Keeps(b) /\ ~OutOfScope(b.file)}
  BY DEF IInv, Load
<1>2. ASSUME NEW b \in Row
      PROVE  /\ Resolved(b) \in Row
             /\ InWorkspace => Absolute(Resolved(b).file) = Resolved(b).file
  <2>1. b.file \in Path /\ Workspace \in Path /\ Workspace # <<>> /\ Workspace[1] = "/"
    BY PlacesAssumption DEF Row, Path
  <2>2. Absolute(b.file) \in Path /\ Absolute(Absolute(b.file)) = Absolute(b.file)
    <3>1. CASE b.file # <<>> /\ b.file[1] = "/"
      BY <2>1, <3>1 DEF Absolute
    <3>2. CASE ~(b.file # <<>> /\ b.file[1] = "/")
      <4> DEFINE t == IF b.file # <<>> /\ b.file[1] = "." THEN Tail(b.file) ELSE b.file
      <4>1. t \in Path /\ Absolute(b.file) = Workspace \o t
        BY <2>1, <3>2, HeadTailProperties DEF Absolute, Path
      <4> HIDE DEF t
      <4>2. Workspace \o t \in Path /\ Workspace \o t # <<>> /\ (Workspace \o t)[1] = "/"
        BY <2>1, <4>1, TailOfJoined, ConcatProperties DEF Path
      <4>3. Absolute(Workspace \o t) = Workspace \o t
        BY <4>2 DEF Absolute
      <4>4. QED
        BY <4>1, <4>2, <4>3, Zenon
    <3>3. QED
      BY <3>1, <3>2
  <2>3. QED
    BY <2>1, <2>2 DEF Resolved, Row, Kept, Path
<1>3. \A b \in recorded' : /\ b \in Row /\ q.baseline # None
                           /\ InWorkspace => Absolute(b.file) = b.file
  <2>1. CASE q.baseline = None
    BY <1>1, <2>1
  <2>2. CASE q.baseline # None
    <3>1. q.baseline \in Slots
      BY <1>1, <2>2, RequestsAssumption DEF TypeOK
    <3>2. reports[q.baseline].rows \subseteq Row
      BY <1>1, <2>2, <3>1 DEF TypeOK
    <3>3. QED
      BY <1>1, <1>2, <2>2, <3>2
  <2>3. QED
    BY <2>1, <2>2
<1>4. TypeOK'
  <2>1. pc' \in {"idle", "done"} \cup {Stages[k] : k \in DOMAIN Stages}
    BY <1>1 DEF Stages
  <2>2. QED
    BY <1>1, <1>3, <2>1 DEF TypeOK
<1>5. Found'
  BY <1>1, SameScope DEF Found
<1>6. Scoped'
  BY <1>1, <1>3, SameScope DEF Scoped
<1>7. Counted' /\ Concluded'
  BY <1>1 DEF Counted, Concluded, Ended
<1>8. QED
  BY <1>4, <1>5, <1>6, <1>7 DEF IInv

(* The other steps of a run leave alone what it found and loaded.          *)
LEMMA ScopeStays ==
    ASSUME IInv, pc \notin {"idle", "done"}, pc' # "idle", pc = "analyze" => pc' = "done",
           UNCHANGED <<tree, q, rows, shown, recorded, old>>,
           DOMAIN reports' = Slots,
           \A s \in Slots : reports'[s] \in {NoFile, Cut} \/ reports'[s].rows \subseteq Row,
           pc' \in {"idle", "done"} \cup {Stages[k] : k \in DOMAIN Stages},
           code' \in {None, 0, 1, 2}
    PROVE  TypeOK' /\ Found' /\ Scoped'
<1>1. TypeOK /\ Found /\ Scoped
  BY DEF IInv
<1>2. TypeOK'
  BY <1>1 DEF TypeOK
<1>3. Found'
  BY <1>1, SameScope DEF Found
<1>4. Scoped'
  BY <1>1, SameScope DEF Scoped
<1>5. QED
  BY <1>2, <1>3, <1>4

LEMMA CreateIInv == ASSUME IInv, Create PROVE IInv'
<1>1. /\ TypeOK /\ pc = "output" /\ pc' = "render"
      /\ reports' = [s \in Slots |-> IF s = q.output THEN Cut ELSE reports[s]]
      /\ UNCHANGED <<tree, q, rows, shown, recorded, old, code>>
  BY DEF IInv, Create, found
<1>2. pc' \in {"idle", "done"} \cup {Stages[k] : k \in DOMAIN Stages}
  BY <1>1 DEF Stages
<1>3. TypeOK' /\ Found' /\ Scoped'
  BY <1>1, <1>2, ScopeStays DEF TypeOK
<1>4. Counted' /\ Concluded'
  BY <1>1 DEF Counted, Concluded, Ended
<1>5. QED
  BY <1>3, <1>4 DEF IInv

LEMMA RenderIInv == ASSUME IInv, Render PROVE IInv'
<1>1. /\ TypeOK /\ pc = "render" /\ pc' = "flush" /\ verdict' = Judgement
      /\ UNCHANGED <<tree, reports, q, rows, shown, recorded, old, code>>
  BY DEF IInv, Render, Judgement
<1>2. pc' \in {"idle", "done"} \cup {Stages[k] : k \in DOMAIN Stages}
  BY <1>1 DEF Stages
<1>3. TypeOK' /\ Found' /\ Scoped'
  BY <1>1, <1>2, ScopeStays DEF TypeOK
<1>4. Counted' /\ Concluded'
  BY <1>1, SameJudgement DEF Counted, Concluded, Ended
<1>5. QED
  BY <1>3, <1>4 DEF IInv

LEMMA SameReport ==
    ASSUME UNCHANGED <<q, shown>>
    PROVE  Report' = Report
<1>1. \A r : Written(r)' = Written(r)
  BY DEF Written, InWorkspace
<1>2. QED
  BY <1>1 DEF Report

LEMMA FlushIInv == ASSUME IInv, Flush PROVE IInv'
<1>1. /\ TypeOK /\ Counted /\ pc = "flush" /\ pc' = "gate" /\ reports' = Complete
      /\ UNCHANGED <<tree, q, rows, shown, recorded, old, verdict, code>>
  BY DEF IInv, Flush, found
<1>2. pc' \in {"idle", "done"} \cup {Stages[k] : k \in DOMAIN Stages}
  BY <1>1 DEF Stages
<1>3. TypeOK' /\ Found' /\ Scoped'
  BY <1>1, <1>2, ScopeStays, CompleteType DEF TypeOK
<1>4. Counted'
  BY <1>1, SameJudgement DEF Counted
<1>5. Concluded'
  <2>1. q.output # None => reports'[q.output] = Report
    BY <1>1, RequestsAssumption DEF TypeOK, Complete
  <2>2. QED
    BY <1>1, <2>1, SameReport DEF Concluded, Ended
<1>6. QED
  BY <1>3, <1>4, <1>5 DEF IInv

LEMMA DecideIInv == ASSUME IInv, Decide PROVE IInv'
<1>1. /\ TypeOK /\ Counted /\ Concluded /\ pc = "gate" /\ pc' = "done"
      /\ code' = IF Tripped THEN 1 ELSE 0
      /\ UNCHANGED <<tree, reports, q, rows, shown, recorded, old, verdict>>
  BY DEF IInv, Decide, found
<1>2. TypeOK' /\ Found' /\ Scoped'
  BY <1>1, ScopeStays DEF TypeOK
<1>3. Counted'
  BY <1>1, SameJudgement DEF Counted
<1>4. Tripped' <=> Tripped
  BY <1>1 DEF Tripped
<1>5. Concluded'
  BY <1>1, <1>4, SameReport DEF Concluded
<1>6. QED
  BY <1>2, <1>3, <1>5 DEF IInv

LEMMA StopIInv == ASSUME IInv, Stop PROVE IInv'
<1>1. /\ TypeOK /\ pc \notin {"idle", "done"} /\ pc' = "done" /\ code' \in {2, None}
      /\ reports' \in {reports, Complete}
      /\ UNCHANGED <<tree, q, rows, shown, recorded, old>>
  BY DEF IInv, Stop, Stages, found
<1>2. TypeOK' /\ Found' /\ Scoped'
  BY <1>1, ScopeStays, CompleteType DEF TypeOK
<1>3. ~Ended'
  BY <1>1, DistinctAssumption DEF Ended
<1>4. Counted' /\ Concluded'
  BY <1>1, <1>3 DEF Counted, Concluded
<1>5. QED
  BY <1>2, <1>4 DEF IInv

LEMMA StutterIInv == ASSUME IInv, UNCHANGED vars PROVE IInv'
<1>1. /\ TypeOK /\ Found /\ Scoped /\ Counted /\ Concluded
      /\ UNCHANGED <<tree, reports, pc, q, rows, shown, recorded, old, verdict, code>>
  BY DEF IInv, vars, found
<1>2. TypeOK'
  BY <1>1 DEF TypeOK
<1>3. Found' /\ Scoped'
  BY <1>1, SameScope DEF Found, Scoped
<1>4. Counted' /\ Concluded'
  BY <1>1, SameJudgement, SameReport DEF Counted, Concluded, Ended, Tripped
<1>5. QED
  BY <1>2, <1>3, <1>4 DEF IInv

(* Whatever the runs, the stops and the edits, a run holds the functions   *)
(* its walks found, the recorded ones in its scope, and, once rendered,    *)
(* the verdict on them and the report of them.                             *)
THEOREM Invariance == Spec => []IInv
<1>1. ASSUME IInv, [Next]_vars
      PROVE  IInv'
  <2>1. ASSUME NEW r \in Requests, Begin(r)
        PROVE  IInv'
    BY <1>1, <2>1, NothingIInv DEF Begin, IInv, TypeOK
  <2>2. ASSUME NEW p \in Places, Edit(p)
        PROVE  IInv'
    <3>1. tree' \in [Places -> Measures \cup {Absent}]
      BY <1>1, <2>2 DEF Edit, IInv, TypeOK
    <3>2. QED
      BY <1>1, <2>2, <3>1, NothingIInv DEF Edit, IInv
  <2>3. QED
    BY <1>1, <2>1, <2>2, AnalyseIInv, LoadIInv, CreateIInv, RenderIInv, FlushIInv,
       DecideIInv, StopIInv, StutterIInv DEF Next
<1>2. QED
  BY <1>1, InitIInv, PTL DEF Spec

(* What each variable holds, at every stage of every run. *)
THEOREM TypeCorrect == Spec => []TypeOK
<1>1. IInv => TypeOK
  BY DEF IInv
<1>2. QED
  BY <1>1, Invariance, PTL

-----------------------------------------------------------------------------
(* The scopes agree *)

(* A recorded function where this run might look is kept by both filters   *)
(* exactly if a walk reads its file.                                       *)
LEMMA RecordedScope ==
    ASSUME IInv, NEW b \in recorded, Covered(b)
    PROVE  ~Filtered(b.file) /\ ~OutOfScope(b.file) <=> Read(b)
<1>1. /\ q \in Requests /\ Selectable /\ b.file \in Path
      /\ InWorkspace => Absolute(b.file) = b.file
  BY DEF IInv, TypeOK, Found, Scoped, Row, Path
<1>2. CASE InWorkspace
  <2>1. PICK c \in Dirs : Starts(b.file, c)
    BY <1>2 DEF Covered
  <2>2. QED
    BY <1>1, <1>2, <2>1, MembersScope DEF Read
<1>3. CASE ~InWorkspace
  <2>1. Starts(b.file, q.path)
    BY <1>3 DEF Covered
  <2>2. QED
    BY <1>1, <1>3, <2>1, PathScope DEF Read
<1>4. QED
  BY <1>2, <1>3

(* The crate of a row is the member whose walk listed it. *)
LEMMA CrateWalked ==
    ASSUME InWorkspace, Selectable, NEW f \in Path, NEW d \in Roots, Reaches(d, f)
    PROVE  Crate(f) = d
<1>1. Roots \subseteq Dirs
  BY Members
<1>2. Starts(f, d) /\ ~Excluded(d, d, f) /\ Len(d) \in Nat
  BY <1>1, Spelling
<1>3. \A e \in Roots : Starts(f, e) => Len(e) \in Nat /\ (Len(d) <= Len(e) => e = d)
  BY <1>1, <1>2, NestedLeftOut, Spelling
<1>4. \A e \in Roots : Starts(f, e) => Len(e) <= Len(d)
  BY <1>2, <1>3
<1>5. \A e \in Roots : Starts(f, e) /\ (\A x \in Roots : Starts(f, x) => Len(x) <= Len(e)) => e = d
  BY <1>2, <1>3
<1>6. QED
  BY <1>2, <1>4, <1>5 DEF Crate

(* BaselineFilter and MemberScope undo exactly what the walk would, for    *)
(* any members, however nested, and any selection of them; and each row is *)
(* counted for the crate whose walk found it.                              *)
THEOREM FiltersUndoTheWalk == Spec => []ScopesAgree
<1>1. ASSUME IInv
      PROVE  ScopesAgree
  <2>1. ASSUME NEW b \in recorded, Covered(b)
        PROVE  /\ b \in old <=> Read(b) /\ ~Allowed(b)
               /\ b \in RetainMembers(recorded) <=> Read(b)
    <3>1. ~Filtered(b.file) /\ ~OutOfScope(b.file) <=> Read(b)
      BY <1>1, <2>1, RecordedScope
    <3>2. b \in old <=> ~Filtered(b.file) /\ ~Allowed(b) /\ ~OutOfScope(b.file)
      BY <1>1 DEF IInv, Scoped, Keeps
    <3>3. QED
      BY <3>1, <3>2 DEF RetainMembers
  <2>2. ASSUME InWorkspace, NEW r \in rows
        PROVE  Reaches(Crate(r.file), r.file)
    <3>1. r.file \in Path /\ Selectable
      BY <1>1 DEF IInv, TypeOK, Found, Row, Path
    <3>2. PICK d \in Roots : Starts(r.file, d) /\ Reaches(d, Absolute(r.file))
      BY <1>1 DEF IInv, Found
    <3>3. Absolute(r.file) = r.file
      BY <2>2, <3>1, <3>2, Members, Spelling
    <3>4. QED
      BY <2>2, <3>1, <3>2, <3>3, CrateWalked
  <2>3. QED
    BY <2>1, <2>2 DEF ScopesAgree
<1>2. QED
  BY <1>1, Invariance, PTL

-----------------------------------------------------------------------------
(* The gate *)

(* A function found under its recorded file and name is compared: nothing  *)
(* in the scope of the run drops the record.                               *)
LEMMA FoundIsCompared ==
    ASSUME IInv, NEW c \in rows, NEW b \in recorded, Same(c, b)
    PROVE  b \in old
<1>1. /\ q \in Requests /\ Selectable /\ c.file \in Path /\ c.file = b.file
      /\ c.function = b.function /\ ~Allowed(c)
  BY DEF IInv, TypeOK, Found, Row, Path, Same
<1>2. PICK d \in Roots : Starts(c.file, d) /\ Reaches(d, Absolute(c.file))
  BY DEF IInv, Found
<1>3. Covered(b)
  BY <1>1, <1>2, Members DEF Covered, Roots, InWorkspace
<1>4. ~Filtered(b.file) /\ ~OutOfScope(b.file)
  BY <1>1, <1>2, <1>3, RecordedScope DEF Read
<1>5. ~Allowed(b)
  BY <1>1 DEF Allowed
<1>6. QED
  BY <1>4, <1>5 DEF IInv, Scoped, Keeps

(* The regression gate: exit code 0 means that no function found under its *)
(* recorded file and name is worse by more than epsilon, or has more of a  *)
(* gated signal.                                                           *)
THEOREM PassMeansNoRegression == Spec => []PassIsNoRegression
<1>1. ASSUME IInv
      PROVE  PassIsNoRegression
  <2>1. SUFFICES ASSUME pc = "done", code = 0, q.failRegression # "off",
                        NEW c \in rows, NEW b \in recorded, Same(c, b)
                 PROVE  /\ c.crap <= b.crap + q.epsilon
                        /\ c.signals # None /\ b.signals # None =>
                             \A s \in q.gate : c.signals[s] <= b.signals[s]
    BY DEF PassIsNoRegression
  <2>2. /\ q \in Requests /\ c \in Row /\ b \in Row /\ Counted /\ Concluded /\ TypeOK
    BY <1>1, <2>1 DEF IInv, TypeOK
  <2>3. ~verdict.regressed /\ verdict = Judgement
    BY <2>1, <2>2 DEF Counted, Concluded, Ended, Tripped
  <2>4. ~Regressed(c) /\ Reasons(c) = {}
    BY <2>3 DEF Judgement
  <2>5. b \in old /\ b \in Partner(c)
    BY <1>1, <2>1, FoundIsCompared DEF Partner
  <2>6. c.crap <= b.crap + q.epsilon
    <3>1. ~(c.crap > b.crap + q.epsilon) /\ c.crap \in Nat /\ b.crap \in Nat /\ q.epsilon \in Int
      BY <2>2, <2>4, <2>5, RequestsAssumption DEF Regressed, Row
    <3>2. QED
      BY <3>1
  <2>7. ASSUME c.signals # None, b.signals # None, NEW s \in q.gate
        PROVE  c.signals[s] <= b.signals[s]
    <3>1. s \in Signals /\ c.signals[s] \in Nat /\ b.signals[s] \in Nat
      BY <2>2, <2>7, RequestsAssumption DEF Row
    <3>2. ~Rose(c, s)
      BY <2>4, <2>5, <2>7, <3>1 DEF Reasons
    <3>3. ~(c.signals[s] > b.signals[s])
      BY <2>5, <2>7, <3>2 DEF Rose
    <3>4. QED
      BY <3>1, <3>3
  <2>8. QED
    BY <2>6, <2>7
<1>2. QED
  BY <1>1, Invariance, PTL

-----------------------------------------------------------------------------
(* The verdict and the report *)

(* No two rows of a run become one when they are written.                  *)
LEMMA WrittenApart ==
    ASSUME IInv, NEW r \in rows, NEW s \in rows, Written(r) = Written(s)
    PROVE  r = s
<1>1. /\ r \in Row /\ s \in Row /\ r.file \in Path /\ s.file \in Path
      /\ Workspace \in Path /\ Workspace # <<>>
  BY PlacesAssumption DEF IInv, TypeOK, Row, Path
<1>2. r.crap = s.crap /\ r.function = s.function /\ r.signals = s.signals
  BY <1>1, WrittenRow
<1>3. r.file = s.file
  <2>1. CASE ~InWorkspace
    BY <1>1, <2>1, WrittenRow
  <2>2. CASE InWorkspace
    <3>1. \A x \in rows : /\ x.file \in Path /\ Len(x.file) \in Nat \ {0}
                          /\ DOMAIN x.file = 1 .. Len(x.file)
                          /\ \A k \in DOMAIN x.file : x.file[k] = "/" <=> k = 1
      <4>1. TAKE x \in rows
      <4>2. x.file \in Path /\ Selectable
        BY <1>1 DEF IInv, TypeOK, Found, Row, Path
      <4>3. PICK d \in Roots : Starts(x.file, d)
        BY DEF IInv, Found
      <4>4. Len(x.file) \in Nat \ {0}
        BY <2>2, <4>2, <4>3, Members, Spelling
      <4>5. QED
        BY <2>2, <4>2, <4>4, LenProperties DEF IInv, Found, Path
    <3> DEFINE below(x) == Below(x.file, Len(Workspace))
    <3>2. ASSUME NEW x \in rows, NEW y \in rows, Starts(x.file, Workspace), below(x) = y.file
          PROVE  FALSE
      <4>1. Len(Workspace) \in Nat \ {0} /\ Len(Workspace) <= Len(x.file)
        BY <1>1, <3>1, <3>2, Prefixes, LenProperties, EmptySeq DEF Path
      <4>2. /\ Len(y.file) = Len(x.file) - Len(Workspace)
            /\ \A k \in 1 .. Len(x.file) - Len(Workspace) : y.file[k] = x.file[Len(Workspace) + k]
        <5>1. Len(Workspace) \in 0 .. Len(x.file) /\ x.file \in Path
          BY <3>1, <4>1
        <5>2. QED
          BY <3>2, <5>1, Rest
      <4>3. y.file[1] = "/" /\ y.file[1] = x.file[Len(Workspace) + 1]
        BY <3>1, <4>1, <4>2
      <4>4. Len(Workspace) + 1 \in 1 .. Len(x.file) /\ Len(Workspace) + 1 # 1
        BY <3>1, <4>1, <4>2
      <4>5. QED
        BY <3>1, <4>3, <4>4
    <3>3. ASSUME Starts(r.file, Workspace), Starts(s.file, Workspace), below(r) = below(s)
          PROVE  r.file = s.file
      <4>1. Workspace \o below(r) = r.file /\ Workspace \o below(s) = s.file
        BY <1>1, <3>3, Split
      <4>2. QED
        BY <3>3, <4>1
    <3>4. QED
      BY <1>1, <2>2, <3>2, <3>3, WrittenRow
  <2>3. QED
    BY <2>1, <2>2
<1>4. QED
  BY <1>1, <1>2, <1>3 DEF Row

(* The exit codes of spec 23: 0 and 1 mean that the report is whole, has   *)
(* every row shown, and shows why the run failed.                          *)
THEOREM ReportShowsTheVerdict == Spec => []VerdictMatchesReport
<1>1. ASSUME IInv
      PROVE  VerdictMatchesReport
  <2>1. SUFFICES ASSUME pc = "done", code \in {0, 1}, q.output # None
                 PROVE  LET report == reports[q.output]
                            crappy == \E r \in report.rows : r.crap > q.threshold
                        IN /\ report \notin {NoFile, Cut} /\ report.format = q.format
                           /\ Cardinality(report.rows) = Cardinality(shown)
                           /\ q.failAbove /\ crappy => code = 1
                           /\ code = 1 => \/ q.failAbove /\ crappy
                                          \/ q.failRegression # "off" /\ q.baseline # None
    BY DEF VerdictMatchesReport
  <2>2. /\ TypeOK /\ reports[q.output] = Report /\ verdict = Judgement
        /\ code = IF Tripped THEN 1 ELSE 0
    BY <1>1, <2>1 DEF IInv, Counted, Concluded, Ended
  <2>3. Cardinality(Report.rows) = Cardinality(shown)
    <3> DEFINE f == [r \in shown |-> Written(r)]
    <3>1. Report.rows = {Written(r) : r \in shown}
      BY DEF Report
    <3>2. f \in Bijection(shown, Report.rows)
      <4>1. f \in [shown -> Report.rows] /\ \A w \in Report.rows : \E r \in shown : f[r] = w
        BY <3>1
      <4>2. \A r, s \in shown : f[r] = f[s] => r = s
        BY <1>1, <2>2, WrittenApart DEF TypeOK
      <4> HIDE DEF f
      <4>3. f \in Injection(shown, Report.rows)
        BY <4>1, <4>2 DEF Injection, IsInjective
      <4>4. QED
        BY <4>1, <4>3 DEF Bijection, Surjection
    <3>3. IsFiniteSet(shown)
      BY <2>2, FS_Subset DEF TypeOK
    <3> HIDE DEF f
    <3>4. QED
      BY <3>2, <3>3, FS_Bijection DEF ExistsBijection
  <2>4. verdict.crappy <=> \E r \in Report.rows : r.crap > q.threshold
    <3>1. \A r \in shown : Written(r).crap = r.crap
      BY <2>2, WrittenRow DEF TypeOK
    <3>2. (\E r \in shown : r.crap > q.threshold) <=> \E r \in Report.rows : r.crap > q.threshold
      BY <3>1 DEF Report
    <3>3. QED
      BY <2>2, <3>2 DEF Judgement
  <2>5. verdict.regressed => q.baseline # None
    <3>1. verdict.regressed => old # {}
      BY <2>2 DEF Judgement, Regressed, Reasons, Partner
    <3>2. QED
      BY <1>1, <3>1 DEF IInv, TypeOK, Scoped
  <2>6. QED
    <3>1. Report \notin {NoFile, Cut} /\ Report.format = q.format
      <4>1. Report.rows \subseteq Row /\ q.format \in STRING
        BY <2>1, <2>2, WrittenRow, RequestsAssumption DEF TypeOK, Report
      <4>2. Report \in [format : STRING, rows : SUBSET Row]
        BY <4>1 DEF Report
      <4>3. QED
        BY <4>2, DistinctAssumption DEF Report
    <3> HIDE DEF Report
    <3>2. QED
      BY <2>1, <2>2, <2>3, <2>4, <2>5, <3>1 DEF Tripped
<1>2. QED
  BY <1>1, Invariance, PTL
=============================================================================
