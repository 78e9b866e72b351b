------------------------------ MODULE Exchange ------------------------------
(***************************************************************************)
(* One duplicate pair and the APIs that may judge it: run after run of one *)
(* project, each from its settings (Settings) through the verdict cache,   *)
(* src/duplicates/triage/client.rs and the wire (Wire) to what the report  *)
(* says of the pair.  Between runs anything may have changed: the sources, *)
(* the provider, the model, the build with its questions, an entry of the  *)
(* cache.  (TriageRun has many pairs at once, and cache writes that fail.) *)
(*                                                                         *)
(* Times are in halves of a second.                                        *)
(***************************************************************************)
EXTENDS Wire

CONSTANTS Attempts,  \* DEFAULT_ATTEMPTS
          Garbage    \* what an entry may hold that no run has written

ASSUME AttemptsAssumption == Attempts \in Nat \ {0}

(* The bodies of the pair, the verdicts there are, what an API may mean,   *)
(* and what goes wrong with one of its answers.                            *)
Sources == [1 .. 2 -> Texts]
Verdicts == [kind : Range(Kinds), confidence : 0 .. One, worth : 0 .. Top, divergence : 0 .. One]
Faults == {"refused", "unoffered", "missing", "twice"}
Meanings == [kind : Range(Kinds), confidence : Int, level : Range(Labels), off : -4 .. 4,
             first : Int, echoed : BOOLEAN, divergence : Int, fault : Faults \cup {None},
             at : Questions]

ASSUME PairAssumption ==
    \A f \in DOMAIN Families : \A in \in Families[f] :
        /\ in.world.lines \in Seq(Texts) /\ in.world.version \in Int
        /\ DOMAIN in.world.spans = 1 .. 2
        /\ \A s \in 1 .. 2 : in.world.spans[s].from \in Nat /\ in.world.spans[s].to \in Nat
        /\ in.world.replies \subseteq [status : Nat, whole : BOOLEAN, after : Nat \cup {None}]
        /\ in.world.meanings \subseteq Meanings

ASSUME NothingAssumption ==
    /\ None \notin Texts /\ None \notin Sources /\ None \notin Verdicts
    /\ None \notin Meanings /\ None \notin Faults
    /\ None \notin [id : Questions, type : {"choice", "score", "predicate", "noul", "refusal"},
                    value : Int \cup Range(Kinds) \cup {"unknown"}, confidence : Int,
                    first : Int \cup {None}]
    /\ None \notin [kind : Range(Kinds), kindConfidence : Int, worth : Int,
                    worthConfidence : Int, divergence : Int]

(* No run reads a verdict from what none has written, nor writes what      *)
(* cannot be read.                                                         *)
ASSUME GarbageAssumption ==
    /\ \A entry \in Garbage : entry = Bad \/ VerdictOf(entry) = None
    /\ Bad \notin {Entry(verdict) : verdict \in Verdicts}

VARIABLES cache,   \* the entry under each key
          ask,     \* the pair, in the run
          given,   \* every verdict given, and what it is about
          spoilt   \* the keys whose entry was damaged

exchangeVars == <<family, input, stage, settled, runs, cache, ask, given, spoilt>>

MaxRetryAfter == 20

(* The pair before it is looked up. *)
Unasked == [sources |-> None, cached |-> None, heard |-> <<>>, waits |-> <<>>,
            body |-> None, meant |-> None, verdict |-> None]

-----------------------------------------------------------------------------
id == settled.value["provider"]
model == settled.value["model"]
KeyOf(sources) == CacheKey(id, sources, model, world.version)

(* Cache::get: no entry, one that is no entry, and one out of range are    *)
(* all no verdict.                                                         *)
Lookup(key) ==
    IF key \notin DOMAIN cache \/ cache[key] = Bad THEN None ELSE VerdictOf(cache[key])

(* A slip: only the server's own failures. *)
Retryable_ServerOnly(status) == status \in 500 .. 599

(* is_retryable_status. *)
Retryable(status) == status = 429 \/ status \in 500 .. 599

(* Client::attempt: what a reply is worth.  Status 0 is none at all. *)
Class(reply) ==
    CASE reply.status = 0 -> "transient"
      [] reply.status \in 200 .. 299 -> IF reply.whole THEN "answer" ELSE "transient"
      [] OTHER -> IF Retryable(reply.status) THEN "transient" ELSE "final"

(* backoff: DEFAULT_BACKOFF, half a second, doubled after every attempt. *)
Backoff(attempt) == 2 ^ (IF attempt - 1 < 16 THEN attempt - 1 ELSE 16)

(* retry_delay: as long as a failure status asked for, within reason. *)
RetryDelay(reply, attempt) ==
    IF reply.status \notin 200 .. 299 /\ reply.after # None
      THEN IF reply.after > MaxRetryAfter THEN MaxRetryAfter ELSE reply.after
      ELSE Backoff(attempt)

(* What the API answers to a request, for what it means: the option that   *)
(* bears the rubric it found true, the place of the level among those it   *)
(* was sent, by its own numbering if it is one that has its own and says   *)
(* so.  What goes wrong goes wrong with one.                               *)
Answered(provider, request, meant) ==
    LET Place(seq, rubric) == CHOOSE n \in DOMAIN seq : seq[n].rubric = rubric
        first == IF provider = "openai" /\ meant.echoed THEN meant.first ELSE 0
        right == [q \in Questions |->
            [id |-> q, confidence |-> meant.confidence,
             type |-> CASE q = "kind" -> "choice" [] q = "worth" -> "score"
                        [] OTHER -> IF provider = "openai" THEN "predicate" ELSE "noul",
             first |-> IF meant.echoed THEN first ELSE None,
             value |-> CASE q = "kind" -> request.questions.options[Place(request.questions.options, meant.kind)].key
                         [] q = "worth" -> One * (Place(request.questions.levels, meant.level) - 1)
                                             + meant.off + first
                         [] OTHER -> meant.divergence]]
        wrong == CASE meant.fault = "refused" -> [right EXCEPT ![meant.at].type = "refusal"]
                   [] meant.fault = "unoffered" -> [right EXCEPT !["kind"].value = "unknown"]
                   [] OTHER -> right
        order == IF meant.fault # "missing" THEN <<"kind", "worth", "divergence">>
                 ELSE CASE meant.at = "kind" -> <<"worth", "divergence">>
                        [] meant.at = "worth" -> <<"kind", "divergence">>
                        [] OTHER -> <<"kind", "worth">>
    IN [n \in DOMAIN order |-> wrong[order[n]]]
         \o (IF meant.fault = "twice" THEN <<right[meant.at]>> ELSE <<>>)

-----------------------------------------------------------------------------
ExchangeInit ==
    /\ family \in DOMAIN Families /\ input \in Families[family]
    /\ stage = "args" /\ settled = None /\ runs = 1
    /\ cache = <<>> /\ ask = Unasked /\ given = {} /\ spoilt = {}

Keep == UNCHANGED <<family, input, settled, runs>>

(* parse_and_validate and resolve_settings leave the pair alone. *)
Settling == Begin /\ UNCHANGED <<cache, ask, given, spoilt>>

(* find_duplicates, triage_assessments: nothing to ask. *)
Untriaged ==
    /\ stage = "settled" /\ ~(settled.on["duplicates"] /\ settled.on["triage"])
    /\ stage' = "done"
    /\ Keep /\ UNCHANGED <<cache, ask, given, spoilt>>

(* Run::look_up: the bodies as they are now, and the verdict stored under  *)
(* their key.  A body that is not there any more ends the triage.          *)
LookUp ==
    /\ stage = "settled" /\ settled.on["duplicates"] /\ settled.on["triage"]
    /\ LET sources == [s \in DOMAIN world.spans |->
                         ReadSpan(world.lines, world.spans[s].from, world.spans[s].to)]
       IN IF None \in Range(sources)
            THEN stage' = "done" /\ UNCHANGED ask
            ELSE /\ stage' = "looked"
                 /\ ask' = [ask EXCEPT !.sources = sources,
                                       !.cached = IF settled.target = None THEN None
                                                  ELSE Lookup(KeyOf(sources))]
    /\ Keep /\ UNCHANGED <<cache, given, spoilt>>

(* Run::answer, Client::new: a miss is asked about, within the budget and  *)
(* with the key of the provider; Settings::from_lookup finds it in the     *)
(* provider's own variable.                                                *)
Plan ==
    /\ stage = "looked"
    /\ ask' = [ask EXCEPT !.verdict = ask.cached]
    /\ stage' = IF \/ ask.cached # None \/ settled.value["max_requests"] = 0
                   \/ Set(world, Providers[id].key) = None
                  THEN "done" ELSE "asking"
    /\ Keep /\ UNCHANGED <<cache, given, spoilt>>

(* Client::evaluate, one attempt and what follows it. *)
Hear(reply) ==
    LET attempt == Len(ask.heard) + 1 IN
    /\ stage = "asking"
    /\ \/ /\ Class(reply) = "answer"
          /\ stage' = "answered"
          /\ \E meant \in world.meanings :
               ask' = [ask EXCEPT !.heard = Append(@, reply), !.meant = meant,
                                  !.body = Answered(id, Encode(id, ask.sources, model), meant)]
       \/ /\ Class(reply) = "transient" /\ attempt < Attempts
          /\ ask' = [ask EXCEPT !.heard = Append(@, reply),
                                !.waits = Append(@, RetryDelay(reply, attempt))]
          /\ UNCHANGED stage
       \/ /\ Class(reply) = "final" \/ (Class(reply) = "transient" /\ attempt >= Attempts)
          /\ ask' = [ask EXCEPT !.heard = Append(@, reply)]
          /\ stage' = "done"
    /\ Keep /\ UNCHANGED <<cache, given, spoilt>>

(* Run::ask and remember: the answer is decoded, checked and stored. *)
Receive ==
    LET verdict == FromAnswers(Decode(id, ask.body))
        key == KeyOf(ask.sources)
    IN
    /\ stage = "answered" /\ stage' = "done"
    /\ ask' = [ask EXCEPT !.verdict = verdict]
    /\ IF verdict = None \/ settled.target = None
         THEN UNCHANGED <<cache, given, spoilt>>
         ELSE /\ cache' = [k \in DOMAIN cache \cup {key} |->
                              IF k = key THEN Entry(verdict) ELSE cache[k]]
              /\ given' = given \cup {[about |-> <<id, ask.sources, model, world.version>>,
                                       verdict |-> verdict]}
              /\ spoilt' = spoilt \ {key}
    /\ Keep

(* An entry is damaged. *)
Spoil ==
    /\ stage = "done"
    /\ \E key \in DOMAIN cache, entry \in Garbage :
         /\ cache' = [cache EXCEPT ![key] = entry]
         /\ spoilt' = spoilt \cup {key}
    /\ Keep /\ UNCHANGED <<stage, ask, given>>

(* The next run of the project. *)
Again ==
    /\ stage \in {"done", "failed"} /\ runs < MaxRuns
    /\ input' \in Families[family]
    /\ stage' = "args" /\ settled' = None /\ ask' = Unasked /\ runs' = runs + 1
    /\ UNCHANGED <<family, cache, given, spoilt>>

ExchangeNext ==
    \/ Settling \/ Untriaged \/ LookUp \/ Plan \/ Receive \/ Spoil \/ Again
    \/ \E reply \in world.replies : Hear(reply)

ExchangeSpec == ExchangeInit /\ [][ExchangeNext]_exchangeVars

-----------------------------------------------------------------------------
(* The inductive invariant. *)
InputOK == family \in DOMAIN Families /\ input \in Families[family]

(* The pair is looked up, asked about and judged in turn. *)
Asked ==
    /\ stage \notin {"looked", "asking", "answered", "done"} => ask = Unasked
    /\ stage = "looked" => ask.heard = <<>> /\ ask.waits = <<>>
    /\ DOMAIN ask = DOMAIN Unasked
    /\ stage \in {"looked", "asking", "answered"} => ask.sources \in Sources
    /\ stage = "asking" => ask.cached = None
    /\ ask.sources \in Sources \cup {None}

(* Every failure that was waited after was one that may pass. *)
Waited ==
    /\ ask.heard \in Seq(world.replies)
    /\ ask.waits \in Seq({RetryDelay(reply, n) : reply \in world.replies, n \in 1 .. Attempts})
    /\ Len(ask.heard) <= Attempts /\ Len(ask.waits) <= Len(ask.heard)
    /\ Len(ask.heard) <= Len(ask.waits) + 1
    /\ \A n \in 1 .. Len(ask.waits) :
         /\ Class(ask.heard[n]) = "transient"
         /\ ask.waits[n] = RetryDelay(ask.heard[n], n)
    /\ stage = "asking" => Len(ask.heard) = Len(ask.waits) /\ Len(ask.heard) < Attempts
    /\ stage = "done" /\ Len(ask.heard) > 0 /\ ask.meant = None =>
         Len(ask.heard) = Attempts \/ Class(ask.heard[Len(ask.heard)]) = "final"

(* What the API meant, and what was made of it. *)
Understood ==
    /\ stage \in {"looked", "asking"} => ask.meant = None
    /\ stage = "answered" => ask.meant # None
    /\ ask.meant # None =>
         /\ ask.meant \in world.meanings /\ ask.sources \in Sources
         /\ ask.body = Answered(id, Encode(id, ask.sources, model), ask.meant)
         /\ stage = "done" => ask.verdict = FromAnswers(Decode(id, ask.body))

(* What a verdict is about, and the key that is stored under. *)
About == <<id, ask.sources, model, world.version>>
KeyFor(about) == CacheKey(about[1], about[2], about[3], about[4])

(* The cache holds what was given, but where it was damaged. *)
Kept ==
    /\ \A g \in given : /\ g.about \in (DOMAIN Providers) \X Sources \X Texts \X Int
                       /\ g.verdict \in Verdicts
                       /\ KeyFor(g.about) \in DOMAIN cache
    /\ \A key \in DOMAIN cache :
         IF key \in spoilt THEN cache[key] \in Garbage
         ELSE \E g \in given : key = KeyFor(g.about) /\ cache[key] = Entry(g.verdict)
    /\ ask.cached # None => \E g \in given : g.about = About /\ g.verdict = ask.cached
    /\ stage \in {"looked", "asking"} /\ ask.cached = None /\ settled.target # None =>
         \A g \in given : g.about = About => KeyFor(About) \in spoilt

ExchangeInv == InputOK /\ Checked /\ Resolved /\ Asked /\ Waited /\ Understood /\ Kept

-----------------------------------------------------------------------------
(* What the report says of the pair. *)
Shown == Assessment(ask.verdict, settled.value["floor"])

Near(v, w) == v - w \in -Hair .. Hair
Sane(v, top) == v \in -Hair .. top + Hair

(* An answer that is all there is read as it was meant, whichever API gave *)
(* it and however it numbers the levels, and none is paid for in vain; of  *)
(* anything else, a refusal, an answer missing, given twice, of another    *)
(* type or out of range, no verdict is made.  The kind is named if the API *)
(* was as sure of it as the floor asks.  (provider/openai.rs, typesafe.rs  *)
(* decode, verdict.rs from_answers, assessment)                            *)
SaidAsMeant ==
    stage = "done" /\ ask.meant # None =>
        LET m == ask.meant
            place == One * ((CHOOSE n \in DOMAIN Labels : Labels[n] = m.level) - 1) + m.off
            sane == /\ m.fault = None \/ (m.fault = "twice" /\ id = "typesafe")
                    /\ Sane(m.confidence, One) /\ Sane(m.divergence, One) /\ Sane(place, Top)
        IN /\ ask.verdict # None <=> sane
           /\ sane => /\ ask.verdict.kind = m.kind
                      /\ Label(ask.verdict.worth) = m.level
                      /\ Shown.named <=> (100 \div One) * Clamp(m.confidence, One) >= settled.value["floor"]
                      /\ Near(ask.verdict.divergence, m.divergence)

(* A verdict from the cache was given on these two bodies, in this order,  *)
(* by this provider's model under these questions; and what was given is   *)
(* not asked for again unless its entry was damaged, however close to its  *)
(* bounds its values were.  (cache.rs CacheKey::new, Entry, Cache::get,    *)
(* Cache::put)                                                             *)
CacheAnswersAsAsked ==
    ask.sources # None =>
        LET about == <<id, ask.sources, model, world.version>>
            on == {g \in given : g.about = about}
        IN /\ ask.cached # None => \E g \in on : g.verdict = ask.cached
           /\ stage = "asking" /\ settled.target # None =>
                on = {} \/ KeyOf(ask.sources) \in spoilt

(* What an attempt that may be repeated is: no answer at all, half of one, *)
(* too many requests, or the server's own failure.                         *)
Passing(reply) ==
    reply.status \in {0, 429} \cup 500 .. 599 \/ (reply.status \in 200 .. 299 /\ ~reply.whole)

(* A request is repeated only after a failure that may pass, after the     *)
(* wait that was asked for (never over ten seconds) or one twice the last; *)
(* and it is given up only when the API has said no, or has failed each of *)
(* the attempts.  (client.rs evaluate, attempt, retry_delay)               *)
TriesJustified ==
    LET tries == Len(ask.heard) IN
    /\ tries <= Attempts
    /\ \A n \in 1 .. tries - 1 :
         /\ Passing(ask.heard[n])
         /\ ask.waits[n] = (LET asked == ask.heard[n].after IN
                            IF asked = None \/ ask.heard[n].status \in 200 .. 299
                              THEN 2 ^ (IF n <= 17 THEN n - 1 ELSE 16)
                            ELSE IF asked > 20 THEN 20 ELSE asked)
    /\ stage = "done" /\ tries > 0 /\ ask.meant = None =>
         tries = Attempts \/ ~Passing(ask.heard[tries])
=============================================================================
