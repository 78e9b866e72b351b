----------------------------- MODULE TriageRun ------------------------------
(***************************************************************************)
(* src/duplicates/triage: what a run does to have its duplicate groups     *)
(* judged by a model behind an HTTP API.  `Run::answer' looks every pair   *)
(* up in the verdict cache, plans the requests its budget affords, sends   *)
(* them from a pool of threads with retries, and caches each verdict as it *)
(* arrives; main.rs puts the verdicts back beside their groups, or reports *)
(* the groups untriaged when anything failed.                              *)
(*                                                                         *)
(* A text stands for the two bodies of a group's representative pair as    *)
(* they are read back from disk; with one provider, model and question     *)
(* set it is the whole cache key.  A verdict is known by the text that was *)
(* judged.  Several runs may share the cache, be interrupted and be        *)
(* started again, while the source is edited under them.                   *)
(***************************************************************************)
EXTENDS Integers, FiniteSets

CONSTANTS Runs,        \* the processes that triage
          Groups,      \* the duplicate groups, by index
          Texts,       \* what a representative pair may read back as
          NoText,      \* a pair whose source cannot be read back
          None,        \* no verdict
          Untriaged,   \* the report of a run whose triage failed
          NoLimit,     \* no max-requests configured
          FirstTexts,  \* the texts the groups may have at first
          Options,     \* what a run may be configured with and asked
          Attempts,    \* settings.attempts, at least 1
          Threads,     \* REQUEST_THREADS
          MaxStarts,   \* bound on the runs started
          MaxEdits,    \* bound on the edits made
          CacheFails   \* whether the cache may be unwritable or cleaned

(* What a run is given: the groups it asks about, the API key, the budget, *)
(* whether there is a target directory to cache in, and whether the system *)
(* lets it have its threads.                                               *)
Option == [asked : SUBSET Groups, key : BOOLEAN,
           budget : Nat \cup {NoLimit}, caching : BOOLEAN, threads : BOOLEAN]

ASSUME OptionsAssumption ==
    /\ Options \subseteq Option
    /\ FirstTexts \subseteq [Groups -> Texts \cup {NoText}]
    /\ Groups \subseteq Nat /\ IsFiniteSet(Groups)
ASSUME NumbersAssumption ==
    /\ Attempts \in Nat \ {0} /\ Threads \in Nat \ {0}
    /\ MaxStarts \in Nat /\ MaxEdits \in Nat /\ CacheFails \in BOOLEAN
ASSUME DistinctAssumption ==
    /\ NoText \notin Texts /\ None \notin Texts /\ NoLimit \notin Nat
    /\ Untriaged \notin [Groups -> Texts \cup {None}]

VARIABLES text,      \* the source of each group's pair, now
          cache,     \* the verdict stored under each key
          pc,        \* each run: "idle", "looking", "asking" or "done"
          opt,       \* what it was given
          slot,      \* its pairs, by position among those it asks about
          warnings,  \* how many cache warnings it printed
          report,    \* the verdict it shows beside each group, or Untriaged
          skipped,   \* how many pairs the budget left unasked
          starts,    \* runs started so far
          edits,     \* edits made so far
          paid,      \* verdicts received for each text, by runs that cache
          lost       \* those that never reached it, left it or were not read

env == <<text, edits>>
ledger == <<paid, lost>>
shown == <<warnings, report, skipped>>
vars == <<text, cache, pc, opt, slot, warnings, report, skipped, starts,
          edits, paid, lost>>

Positions == 1 .. Cardinality(Groups)
Stages == {"queued", "read", "looked", "planned", "sending", "waiting", "arrived",
           "answered", "failed"}
InFlight == {"sending", "waiting", "arrived"}

EmptySlot == [stage |-> "queued", src |-> NoText, verdict |-> None, tries |-> 0]

-----------------------------------------------------------------------------
(* The pairs handed to `run': the representatives of the asked groups, in  *)
(* the groups' order, and where each of them is.                           *)
Given(r) == 1 .. Cardinality(opt[r].asked)
Place(r, g) == Cardinality({h \in opt[r].asked : h <= g})

At(r, stages) == {n \in Given(r) : slot[r][n].stage \in stages}

(* The pairs without a verdict. *)
Misses(r) == {n \in Given(r) : slot[r][n].verdict = None}

(* Slips: one pair more than the budget, and pairs the cache answered. *)
Ask_OneMore(r) == {n \in Misses(r) :
                     opt[r].budget = NoLimit
                       \/ Cardinality({m \in Misses(r) : m < n}) <= opt[r].budget}
Ask_CachedToo(r) == {n \in Given(r) :
                       opt[r].budget = NoLimit
                         \/ Cardinality({m \in Given(r) : m < n}) < opt[r].budget}

(* budget::plan: the first `budget' pairs without a cached verdict. *)
Ask(r) == {n \in Misses(r) :
             opt[r].budget = NoLimit
               \/ Cardinality({m \in Misses(r) : m < n}) < opt[r].budget}

(* The text a request carries: the bodies the look-up read. *)
Judged(r, n) == slot[r][n].src

(* A slip: the n-th verdict is shown beside the n-th group. *)
Spread_ByPosition(r) == [g \in Groups |->
                           IF g \in Given(r) THEN slot[r][g].verdict ELSE None]

(* main.rs `spread': the verdicts put back at their groups' indices. *)
Spread(r) == [g \in Groups |->
                IF g \in opt[r].asked THEN slot[r][Place(r, g)].verdict ELSE None]

-----------------------------------------------------------------------------
Init ==
    /\ text \in FirstTexts
    /\ cache = [t \in Texts |-> None]
    /\ pc = [r \in Runs |-> "idle"]
    /\ opt = [r \in Runs |-> [asked |-> {}, key |-> FALSE, budget |-> NoLimit,
                               caching |-> FALSE, threads |-> FALSE]]
    /\ slot = [r \in Runs |-> [n \in Positions |-> EmptySlot]]
    /\ warnings = [r \in Runs |-> 0]
    /\ report = [r \in Runs |-> Untriaged]
    /\ skipped = [r \in Runs |-> 0]
    /\ starts = 0 /\ edits = 0
    /\ paid = [t \in Texts |-> 0]
    /\ lost = [t \in Texts |-> 0]

(* `run' is entered.  Without pairs it returns at once, asking nothing;    *)
(* with some, its pool of threads is built before any of them is read, and *)
(* a pool that cannot be built leaves the groups untriaged.                *)
Begin(r) ==
    /\ pc[r] \in {"idle", "done"} /\ starts < MaxStarts
    /\ starts' = starts + 1
    /\ \E o \in Options :
         /\ opt' = [opt EXCEPT ![r] = o]
         /\ pc' = [pc EXCEPT ![r] = IF o.asked # {} /\ o.threads THEN "looking" ELSE "done"]
         /\ report' = [report EXCEPT ![r] =
                         IF o.asked = {} THEN [g \in Groups |-> None] ELSE Untriaged]
    /\ slot' = [slot EXCEPT ![r] = [n \in Positions |-> EmptySlot]]
    /\ warnings' = [warnings EXCEPT ![r] = 0]
    /\ skipped' = [skipped EXCEPT ![r] = 0]
    /\ UNCHANGED <<env, cache, ledger>>

(* look_up, first half: the two bodies are read back (an edit between the  *)
(* two reads gives a text of its own).                                     *)
ReadBack(r, g) ==
    LET t == text[g]
        n == Place(r, g)
    IN
    /\ pc[r] = "looking" /\ slot[r][n].stage = "queued"
    /\ slot' = [slot EXCEPT ![r][n].stage = IF t = NoText THEN "failed" ELSE "read",
                            ![r][n].src = t]
    /\ UNCHANGED <<env, cache, pc, opt, shown, starts, ledger>>

(* look_up, second half: the verdict stored under their key, if there is   *)
(* one and it can be read.                                                 *)
LookUp(r, n) ==
    /\ pc[r] = "looking" /\ slot[r][n].stage = "read"
    /\ \E v \in (IF opt[r].caching THEN {cache[slot[r][n].src]} ELSE {None})
                 \cup (IF CacheFails THEN {None} ELSE {}) :
         /\ slot' = [slot EXCEPT ![r][n].stage = "looked", ![r][n].verdict = v]
         /\ lost' = [lost EXCEPT ![slot[r][n].src] =
                       IF opt[r].caching /\ v # cache[slot[r][n].src] THEN @ + 1 ELSE @]
    /\ UNCHANGED <<env, cache, pc, opt, shown, starts, paid>>

(* Every pair was looked up: the requests are planned. *)
Plan(r) ==
    /\ pc[r] = "looking" /\ At(r, {"looked"}) = Given(r)
    /\ slot' = [slot EXCEPT ![r] =
                  [n \in Positions |->
                     IF n \in Ask(r) THEN [@[n] EXCEPT !.stage = "planned"] ELSE @[n]]]
    /\ skipped' = [skipped EXCEPT ![r] = Cardinality(Misses(r) \ Ask(r))]
    /\ pc' = [pc EXCEPT ![r] = "asking"]
    /\ UNCHANGED <<env, cache, opt, warnings, report, starts, ledger>>

(* A slip: a retry does not count as an attempt. *)
Send_Uncounted(r, n) ==
    /\ pc[r] = "asking"
    /\ \/ slot[r][n].stage = "planned" /\ Cardinality(At(r, InFlight)) < Threads
       \/ slot[r][n].stage = "waiting"
    /\ slot' = [slot EXCEPT ![r][n] =
                  IF opt[r].key THEN [@ EXCEPT !.stage = "sending"]
                                ELSE [@ EXCEPT !.stage = "failed"]]
    /\ UNCHANGED <<env, cache, pc, opt, shown, starts, ledger>>

(* ask, up to a request: a thread of the pool takes the pair up, or goes   *)
(* on after a back-off.  Without a key there is no client to ask with.     *)
Send(r, n) ==
    /\ pc[r] = "asking"
    /\ \/ slot[r][n].stage = "planned" /\ Cardinality(At(r, InFlight)) < Threads
       \/ slot[r][n].stage = "waiting"
    /\ \/ /\ opt[r].key
          /\ slot' = [slot EXCEPT ![r][n].stage = "sending", ![r][n].tries = @ + 1]
       \/ /\ ~opt[r].key
          /\ slot' = [slot EXCEPT ![r][n].stage = "failed"]
    /\ UNCHANGED <<env, cache, pc, opt, shown, starts, ledger>>

(* An answer that decodes, about the text that was sent. *)
Answer(r, n) ==
    /\ slot[r][n].stage = "sending" /\ pc[r] = "asking"
    /\ slot' = [slot EXCEPT ![r][n].stage = "arrived",
                            ![r][n].verdict = Judged(r, n)]
    /\ paid' = [paid EXCEPT ![slot[r][n].src] = IF opt[r].caching THEN @ + 1 ELSE @]
    /\ UNCHANGED <<env, cache, pc, opt, shown, starts, lost>>

(* A status no retry helps with, or an answer that does not decode. *)
Refuse(r, n) ==
    /\ slot[r][n].stage = "sending" /\ pc[r] = "asking"
    /\ slot' = [slot EXCEPT ![r][n].stage = "failed"]
    /\ UNCHANGED <<env, cache, pc, opt, shown, starts, ledger>>

(* Client::evaluate over a transient failure (transport, timeout, a lost   *)
(* body, 429, 5xx): back off and try again while attempts are left.        *)
GivesUp(r, n) == slot[r][n].tries >= Attempts

Fail(r, n) ==
    /\ slot[r][n].stage = "sending" /\ pc[r] = "asking"
    /\ slot' = [slot EXCEPT ![r][n].stage =
                  IF GivesUp(r, n) THEN "failed" ELSE "waiting"]
    /\ UNCHANGED <<env, cache, pc, opt, shown, starts, ledger>>

(* remember: the verdict is stored under the key of the look-up.  The      *)
(* first write that fails is reported (`warned.swap'), later ones are not. *)
Remember(r, n) ==
    LET t == slot[r][n].src IN
    /\ slot[r][n].stage = "arrived" /\ pc[r] = "asking"
    /\ slot' = [slot EXCEPT ![r][n].stage = "answered"]
    /\ \/ /\ opt[r].caching
          /\ cache' = [cache EXCEPT ![t] = slot[r][n].verdict]
          /\ UNCHANGED <<warnings, lost>>
       \/ /\ opt[r].caching /\ CacheFails
          /\ warnings' = [warnings EXCEPT ![r] = IF @ = 0 THEN 1 ELSE @]
          /\ lost' = [lost EXCEPT ![t] = @ + 1]
          /\ UNCHANGED cache
       \/ /\ ~opt[r].caching
          /\ UNCHANGED <<cache, warnings, lost>>
    /\ UNCHANGED <<env, pc, opt, report, skipped, starts, paid>>

(* Every planned pair is answered: the verdicts go beside their groups. *)
Succeed(r) ==
    /\ pc[r] = "asking" /\ At(r, {"looked", "answered"}) = Given(r)
    /\ pc' = [pc EXCEPT ![r] = "done"]
    /\ report' = [report EXCEPT ![r] = Spread(r)]
    /\ UNCHANGED <<env, cache, opt, slot, warnings, skipped, starts, ledger>>

(* A slip: a failed pair is left out and the others are shown. *)
GiveUp_ShowsTheRest(r) ==
    /\ pc[r] = "asking"
    /\ At(r, {"failed"}) # {} /\ At(r, InFlight) = {}
    /\ pc' = [pc EXCEPT ![r] = "done"]
    /\ report' = [report EXCEPT ![r] = Spread(r)]
    /\ UNCHANGED <<env, cache, opt, slot, warnings, skipped, starts, ledger>>

(* A pair failed: the run returns its error once the pairs under way are   *)
(* over (rayon starts no new one after it has seen the error, but may have *)
(* started some before), and main.rs reports the groups untriaged.         *)
GiveUp(r) ==
    /\ pc[r] \in {"looking", "asking"}
    /\ At(r, {"failed"}) # {} /\ At(r, InFlight) = {}
    /\ pc' = [pc EXCEPT ![r] = "done"]
    /\ report' = [report EXCEPT ![r] = Untriaged]
    /\ skipped' = [skipped EXCEPT ![r] = 0]
    /\ UNCHANGED <<env, cache, opt, slot, warnings, starts, ledger>>

-----------------------------------------------------------------------------
(* The world around the runs. *)

(* A run is interrupted; verdicts received and not yet stored are lost. *)
Interrupt(r) ==
    /\ pc[r] \in {"looking", "asking"}
    /\ pc' = [pc EXCEPT ![r] = "idle"]
    /\ lost' = [t \in Texts |->
                  lost[t] + Cardinality({n \in At(r, {"arrived"}) : opt[r].caching /\ slot[r][n].src = t})]
    /\ UNCHANGED <<env, cache, opt, slot, shown, starts, paid>>

(* Someone edits a pair, or deletes or shortens its file. *)
Edit(g) ==
    /\ edits < MaxEdits
    /\ edits' = edits + 1
    /\ \E t \in (Texts \cup {NoText}) \ {text[g]} : text' = [text EXCEPT ![g] = t]
    /\ UNCHANGED <<cache, pc, opt, slot, shown, starts, ledger>>

(* An entry leaves the cache (cargo clean). *)
Clean(t) ==
    /\ CacheFails /\ cache[t] # None
    /\ cache' = [cache EXCEPT ![t] = None]
    /\ lost' = [lost EXCEPT ![t] = @ + 1]
    /\ UNCHANGED <<env, pc, opt, slot, shown, starts, paid>>

-----------------------------------------------------------------------------
Step(r) ==
    \/ Plan(r) \/ Succeed(r) \/ GiveUp(r)
    \/ \E g \in opt[r].asked : ReadBack(r, g)
    \/ \E n \in Given(r) :
         \/ LookUp(r, n) \/ Send(r, n) \/ Answer(r, n)
         \/ Refuse(r, n) \/ Fail(r, n) \/ Remember(r, n)

Next ==
    \/ \E r \in Runs : Begin(r) \/ Interrupt(r) \/ Step(r)
    \/ \E g \in Groups : Edit(g)
    \/ \E t \in Texts : Clean(t)

(* The threads of a run keep going: every request ends, by an answer or by *)
(* the client's global timeout, and every back-off is finite.  Nothing     *)
(* obliges anyone to start a run.                                          *)
Spec == Init /\ [][Next]_vars /\ \A r \in Runs : WF_vars(Step(r))
-----------------------------------------------------------------------------
Verdict == Texts \cup {None}
Slot == [stage : Stages, src : Texts \cup {NoText}, verdict : Verdict,
         tries : 0 .. Attempts]

(* Every variable holds a value of its kind; no pair is tried more often   *)
(* than the settings allow.                                                *)
TypeOK ==
    /\ text \in [Groups -> Texts \cup {NoText}]
    /\ cache \in [Texts -> Verdict]
    /\ pc \in [Runs -> {"idle", "looking", "asking", "done"}]
    /\ opt \in [Runs -> Option]
    /\ slot \in [Runs -> [Positions -> Slot]]
    /\ warnings \in [Runs -> Nat]
    /\ report \in [Runs -> [Groups -> Verdict] \cup {Untriaged}]
    /\ skipped \in [Runs -> Nat]
    /\ starts \in 0 .. MaxStarts /\ edits \in 0 .. MaxEdits
    /\ paid \in [Texts -> Nat] /\ lost \in [Texts -> Nat]

(* `run': failure is all or nothing.  A run that has its threads reports   *)
(* its groups untriaged only because one of its pairs failed, which it     *)
(* cannot have for want of a key when there was nothing to ask; one that   *)
(* was refused them has read none of its pairs, and needs some to fail.    *)
(* No verdict stands beside a failure; and the groups asked about that     *)
(* show no verdict are exactly the ones it says the budget left out.       *)
AllOrNothing ==
    \A r \in Runs : pc[r] = "done" =>
        IF report[r] = Untriaged
          THEN IF opt[r].threads
                 THEN \E n \in At(r, {"failed"}) :
                         slot[r][n].src = NoText \/ opt[r].budget # 0
                 ELSE opt[r].asked # {} /\ At(r, {"queued"}) = Given(r)
          ELSE /\ At(r, {"failed"}) = {}
               /\ skipped[r] =
                    Cardinality({g \in opt[r].asked : report[r][g] = None})

(* Requests finish in any order and only some groups are asked about; a    *)
(* verdict shown beside a group was still given on what that group's own   *)
(* pair read as, and a group nobody asked about shows none.                *)
OwnVerdict ==
    \A r \in Runs : pc[r] = "done" /\ report[r] # Untriaged =>
        /\ \A g \in Groups \ opt[r].asked : report[r][g] = None
        /\ \A g \in opt[r].asked :
             report[r][g] \in {None, slot[r][Place(r, g)].src}

(* Whoever wrote it and whatever was edited since, a cached verdict was    *)
(* given on the text its key stands for.                                   *)
CacheJudgesItsKey == \A t \in Texts : cache[t] \in {t, None}

(* `max_requests': a run asks about at most its budget of pairs, each as   *)
(* often as the settings allow, and never passes over a pair to ask about  *)
(* a later one.                                                            *)
WithinBudget ==
    \A r \in Runs : pc[r] = "asking" =>
        /\ opt[r].budget # NoLimit =>
             Cardinality({n \in Given(r) : slot[r][n].tries > 0}) <= opt[r].budget
        /\ \A n \in Given(r) : slot[r][n].tries <= Attempts
        /\ \A m \in At(r, {"looked"}), n \in At(r, Stages \ {"looked"}) :
             slot[r][m].verdict = None => n < m

(* A verdict is cached as soon as it arrives, in a run that later fails    *)
(* too: unless the cache lost it, an answered pair's verdict is there.     *)
FreshVerdictsKept ==
    \A r \in Runs : opt[r].caching =>
        \A n \in At(r, {"answered"}) :
            lost[slot[r][n].src] = 0 => cache[slot[r][n].src] # None

(* A run that failed or was interrupted and is started again pays only for *)
(* what was not answered: no text is judged twice unless its verdict never *)
(* reached the cache.  (Of one run at a time, over distinct texts and      *)
(* before any is edited into another; a run without a cache asks for       *)
(* itself.)                                                                *)
PaidOnce == edits = 0 => \A t \in Texts : paid[t] <= 1 + lost[t]

(* However many of a run's writes fail, on however many threads, it warns  *)
(* once, and never without a failed write.                                 *)
OneWarning ==
    \A r \in Runs : /\ warnings[r] <= 1
                    /\ warnings[r] = 1 => \E t \in Texts : lost[t] > 0

(* The inductive invariant: a pair is tried only when it may be; what it   *)
(* read as is a text from then on; its verdict, if any, was given on that. *)
Sound(s) ==
    /\ s.stage \in {"queued", "read", "looked", "planned"} => s.tries = 0
    /\ s.stage = "waiting" => s.tries < Attempts
    /\ s.stage \notin {"queued", "failed"} => s.src \in Texts
    /\ s.verdict \in {s.src, None}
    /\ s.stage \in {"queued", "read"} => s.verdict = None
    /\ s.stage \in {"arrived", "answered"} => s.verdict = s.src
SlotsSound == \A r \in Runs, n \in Positions : Sound(slot[r][n])
IInv == /\ TypeOK /\ SlotsSound /\ CacheJudgesItsKey /\ OwnVerdict
        /\ FreshVerdictsKept /\ OneWarning

(* What the plan of a run commits it to: without a budget no pair goes     *)
(* beyond its look-up; of the others as many are asked as it affords, the  *)
(* first ones, and `skipped' counts the rest.  And only a run with threads *)
(* looks and asks.                                                         *)
Beyond(s) == \/ s.stage \in {"planned", "answered"} \cup InFlight
             \/ s.stage = "failed" /\ s.src # NoText
Unasked(r) == {n \in At(r, {"looked"}) : slot[r][n].verdict = None}
Planned ==
    \A r \in Runs :
        /\ \A n \in Positions : Beyond(slot[r][n]) => opt[r].budget # 0
        /\ pc[r] \in {"looking", "asking"} => opt[r].threads
        /\ pc[r] = "asking" =>
             /\ skipped[r] = Cardinality(Unasked(r))
             /\ opt[r].budget # NoLimit =>
                  Cardinality(Given(r) \ At(r, {"looked"})) <= opt[r].budget
             /\ \A m \in Unasked(r), n \in Given(r) \ At(r, {"looked"}) : n < m
PlanInv == Planned /\ AllOrNothing

(* Of one run at a time, over texts that are distinct and not edited: a    *)
(* text judged once more than it was lost is in the cache or in hand, and  *)
(* one that is still to be judged was not.                                 *)
OneRun == \A r, s \in Runs : r = s
OwnTexts == \A f \in FirstTexts : \A g, h \in Groups : f[g] = f[h] /\ f[g] # NoText => g = h
Live(r) == opt[r].caching /\ pc[r] \in {"looking", "asking"}
InHand(t) == \E r \in Runs : Live(r) /\ \E n \in At(r, {"arrived"}) : slot[r][n].src = t
Wanted(t) ==
    \E r \in Runs : /\ Live(r)
                     /\ \E n \in Unasked(r) \cup At(r, {"planned", "sending", "waiting"}) :
                           slot[r][n].src = t
AsRead == /\ text \in FirstTexts
          /\ \A r \in Runs : \A g \in opt[r].asked : slot[r][Place(r, g)].src \in {NoText, text[g]}
Owed == \A t \in Texts : /\ paid[t] <= lost[t] + 1
                         /\ cache[t] = None /\ ~InHand(t) => paid[t] <= lost[t]
                         /\ Wanted(t) => paid[t] <= lost[t]
Ledger == edits = 0 => AsRead /\ Owed

(* Whatever the API answers, and with fewer threads than pairs, a run      *)
(* comes to an end.                                                        *)
RunsEnd == \A r \in Runs : pc[r] \in {"looking", "asking"} ~> pc[r] \in {"idle", "done"}
=============================================================================
