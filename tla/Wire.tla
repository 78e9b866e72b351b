-------------------------------- MODULE Wire --------------------------------
(***************************************************************************)
(* src/duplicates/triage/{request,verdict,cache}.rs and provider/: the     *)
(* three questions as each API is sent them, its answers as they are read, *)
(* the verdict they make, and the verdict as the cache stores it.          *)
(*                                                                         *)
(* Numbers are scaled: One is 1.0, and Hair the most that is taken for     *)
(* noise.  A text is a sequence of bytes.  A rubric is known by what it    *)
(* describes.                                                              *)
(***************************************************************************)
EXTENDS Settings

One == 10
Hair == 1
NewLine == 10

Questions == {"kind", "worth", "divergence"}

(* Kind::ALL by wire names, WorthExtracting::LABELS, WORTH_LEVELS. *)
Kinds == <<"same_logic", "shared_shape_only", "structural_obligation", "parameterisable">>
Labels == <<"leave-it", "optional", "worthwhile", "should-be-one">>
Levels == [n \in DOMAIN Labels |-> [label |-> Labels[n], rubric |-> Labels[n]]]
Top == One * (Len(Labels) - 1)

-----------------------------------------------------------------------------
(* The request.                                                            *)

(* read_span: lines of a file, joined; an error if they are not in it. *)
ReadSpan(lines, from, to) ==
    IF from = 0 \/ from > to \/ to > Len(lines) THEN None
    ELSE LET text[n \in from .. to] ==
               IF n = from THEN lines[n] ELSE text[n - 1] \o <<NewLine>> \o lines[n]
         IN text[to]

(* KIND_RUBRICS: every kind's option, in their order. *)
Options == [n \in DOMAIN Kinds |-> [key |-> Kinds[n], rubric |-> Kinds[n]]]

(* The questions of each API: TypeSafe keys its criteria by option and     *)
(* lists the rubrics of the levels, OpenAI names both.                     *)
TypeSafeQuestions ==
    [options |-> Options, levels |-> [n \in DOMAIN Levels |-> [rubric |-> Levels[n].rubric]]]
OpenAiQuestions == [options |-> Options, levels |-> Levels]

(* request.rs body. *)
Encode(id, sources, model) ==
    [model |-> model, sources |-> sources,
     questions |-> IF id = "openai" THEN OpenAiQuestions ELSE TypeSafeQuestions]

-----------------------------------------------------------------------------
(* The answers: a sequence of [id, type, value, confidence, first], `first' *)
(* being the number it gives the lowest level, None where it does not say. *)
Named(body, question) == {n \in DOMAIN body : body[n].id = question}

(* Response::answer and what reads it: an object keeps the last of a name. *)
TypeSafeAnswer(body, question) ==
    LET types == [kind |-> "choice", worth |-> "score", divergence |-> "noul"]
        named == Named(body, question)
        answer == body[CHOOSE n \in named : \A m \in named : m <= n]
    IN IF named = {} \/ answer.type # types[question] THEN None ELSE answer

(* The same of OpenAI, whose array must hold one. *)
OpenAiAnswer(body, question) ==
    LET types == [kind |-> "choice", worth |-> "score", divergence |-> "predicate"]
        only == {n \in DOMAIN body : Named(body, question) = {n}}
        answer == body[CHOOSE n \in only : TRUE]
    IN IF only = {} \/ answer.type # types[question] THEN None ELSE answer

(* A slip: the levels are numbered from 0. *)
LowestLevel_Zero(id, answer) == 0

(* lowest_level. *)
LowestLevel(id, answer) ==
    IF id = "openai" /\ answer.first # None THEN answer.first ELSE 0

(* offered_kind: the options are by their wire names. *)
Offered(answer) == Contains(Kinds, answer.value)

(* Answers: what was decoded, before any range check; the lowest level is 0. *)
Answers(id, answer) ==
    [kind |-> answer["kind"].value, kindConfidence |-> answer["kind"].confidence,
     worth |-> answer["worth"].value - LowestLevel(id, answer["worth"]),
     worthConfidence |-> answer["worth"].confidence,
     divergence |-> answer["divergence"].value]

(* decode: None for an error. *)
Decode(id, body) ==
    LET answer == [q \in Questions |-> IF id = "openai" THEN OpenAiAnswer(body, q)
                                       ELSE TypeSafeAnswer(body, q)] IN
    IF (\E q \in Questions : answer[q] = None) \/ ~Offered(answer["kind"]) THEN None
    ELSE Answers(id, answer)

-----------------------------------------------------------------------------
(* The verdict.                                                            *)
Clamp(v, top) == IF v < 0 THEN 0 ELSE IF v > top THEN top ELSE v

(* A slip: noise is let through. *)
Within_AsIs(v, top) == IF -Hair <= v /\ v <= top + Hair THEN v ELSE None

(* verdict.rs within. *)
Within(v, top) == IF -Hair <= v /\ v <= top + Hair THEN Clamp(v, top) ELSE None

(* Verdict::from_answers. *)
FromAnswers(answers) ==
    IF \/ answers = None
       \/ None \in {Within(answers.kindConfidence, One), Within(answers.worthConfidence, One),
                    Within(answers.worth, Top), Within(answers.divergence, One)}
      THEN None
      ELSE [kind |-> answers.kind, confidence |-> Within(answers.kindConfidence, One),
            worth |-> Within(answers.worth, Top),
            divergence |-> Within(answers.divergence, One)]

(* WorthExtracting::level and label: the nearest, halves upwards. *)
Label(worth) == Labels[((worth + One \div 2) \div One) + 1]

(* Verdict::assessment; the floor is in hundredths. *)
Assessment(verdict, floor) ==
    [named |-> (100 \div One) * verdict.confidence >= floor, verdict |-> verdict]

-----------------------------------------------------------------------------
(* The cache.                                                              *)

(* A field under the hasher, its length first. *)
Field(text) == <<Len(text)>> \o text

(* CacheKey::new, before it is hashed. *)
CacheKey(id, sources, model, version) ==
    LET namespace == Providers[id].namespace IN
    Field(sources[1]) \o Field(sources[2]) \o Field(model)
      \o (IF namespace = None THEN <<>> ELSE Field(namespace)) \o <<version>>

(* Entry::from, and Entry::verdict on the way back: its own ranges, and no *)
(* noise.                                                                  *)
Entry(verdict) ==
    [kind |-> verdict.kind, confidence |-> verdict.confidence,
     worth_extracting |-> verdict.worth, divergence_risk |-> verdict.divergence]
VerdictOf(entry) ==
    IF /\ Contains(Kinds, entry.kind)
       /\ entry.confidence \in 0 .. One
       /\ entry.worth_extracting \in 0 .. Top
       /\ entry.divergence_risk \in 0 .. One
      THEN [kind |-> entry.kind, confidence |-> entry.confidence,
            worth |-> entry.worth_extracting, divergence |-> entry.divergence_risk]
      ELSE None
=============================================================================
