--------------------------- MODULE ClaimDecision ---------------------------
(***************************************************************************)
(* How one claim is decided: evidence is selected, arguments are generated *)
(* and verified by an LLM that may fail, scored, put into an argumentation *)
(* graph whose propagation gives the claim its score, weakened if strong   *)
(* arguments clash, and mapped to a decision that may be escalated.        *)
(* Source: _process_claim in src/main.py and what it calls.                *)
(*                                                                         *)
(* Reals are integers: evidence attributes are percentages, scores are in  *)
(* units of 1/10000 and every division rounds down.                        *)
(***************************************************************************)
EXTENDS Naturals, Integers, Sequences, FiniteSets, FiniteSetsExt, Functions

CONSTANTS
    Evidence,      \* ids of the normalized evidence
    Item,          \* [Evidence -> what is known of an item]
    Invented,      \* an id that is no evidence of the case
    Texts,         \* what arguments may say; an id is the hash of it
    MaxArguments,  \* bound: arguments of a claim
    TopK,          \* evidence_top_k
    ArgumentVerifier, UseQbaf, ClashResolution,   \* features: sets of their values in use
    LlmFails       \* bound: the LLM may be unavailable

ASSUME DecisionAssumption ==
    /\ IsFiniteSet(Evidence) /\ Invented \notin Evidence
    /\ \A e \in Evidence :
          /\ Item[e].stance \in {"support", "attack", "neutral", "none"}
          /\ {Item[e].reliability, Item[e].relevance, Item[e].bonus} \subseteq 0 .. 100
          /\ {Item[e].flagged, Item[e].absent, Item[e].provenance, Item[e].excluded} \subseteq BOOLEAN
          /\ Item[e].says \subseteq {"new", "old", "denial", "contradiction", "suspicion"}
    /\ {ArgumentVerifier, UseQbaf, ClashResolution} \subseteq SUBSET BOOLEAN
    /\ MaxArguments \in Nat /\ TopK \in Nat /\ LlmFails \in BOOLEAN

VARIABLES
    pc, usable,   \* the stage reached; the claim's evidence
    arguments,    \* sequence of the claim's arguments
    generated,    \* as they were generated
    score,        \* the claim's score
    decision,     \* [status, confidence]
    reasons,      \* why the claim is escalated
    features,     \* [verifier, qbaf, clash]
    judged        \* history: texts that the LLM found valid

vars == <<pc, usable, arguments, generated, score, decision, reasons, features, judged>>

One == 10000
Stances == {"support", "attack", "neutral"}

-----------------------------------------------------------------------------
\* Evidence: what a human excluded is not used, the rest is ranked.

RankScore(e) ==
    Item[e].relevance + Item[e].reliability + Item[e].bonus - (IF Item[e].flagged THEN 15 ELSE 0)

Synthetic(e) == Item[e].type = "synthetic_uncertainty"

Usable == {e \in Evidence : ~Item[e].excluded}

\* sorted(...)[:top_k]; what ties may come in either order.
Selected(S) ==
    /\ S \subseteq Usable
    /\ Cardinality(S) = Min({TopK, Cardinality(Usable)})
    /\ \A e \in S, f \in Usable \ S : RankScore(e) >= RankScore(f)

Rank ==
    /\ pc = "rank"
    /\ usable' \in {S \in SUBSET Usable : Selected(S)}
    /\ pc' = "generate"
    /\ UNCHANGED <<arguments, generated, score, decision, reasons, features, judged>>

-----------------------------------------------------------------------------
\* Generation.

\* _build_argument.  An argument is valid until a verifier says otherwise.
Built(text, stance, ev, flags, memories) ==
    [text |-> text, stance |-> stance, ev |-> ev, valid |-> TRUE, score |-> 0,
     flags |-> flags \cup (IF ev = {} THEN {"missing_argument_evidence"} ELSE {})
                     \cup (IF memories # {} /\ ev = {} THEN {"memory_only_grounding"} ELSE {})]

\* repair_evidence_ids: invalid ids are dropped; if none is left the nearest
\* item is taken, if one is near enough.
RepairedEvidence(ev) ==
    IF ev \cap usable # {} THEN {ev \cap usable} ELSE {{}} \cup {{e} : e \in usable}

RepairFlags(ev, repaired) ==
    (IF Invented \in ev THEN {"invalid_evidence_id_repaired"} ELSE {})
        \cup (IF ev \cap usable = {} /\ repaired # {} THEN {"missing_evidence_id_repaired"} ELSE {})

\* What the LLM may argue: cited ids are repaired, but memory without any
\* citation is no evidence.
Uncited == {Built(text, stance, {}, {}, {"lesson"}) : text \in Texts, stance \in Stances}

Citing(ev) ==
    {Built(text, stance, repaired, RepairFlags(ev, repaired), {}) :
        repaired \in RepairedEvidence(ev), text \in Texts, stance \in Stances}

Drafts == Uncited \cup UNION {Citing(ev) : ev \in SUBSET (Evidence \cup {Invented})}

\* _fallback_arguments: one argument per item, its stance taken from
\* the item; absent: all its flags say that a tool did not run.
InferredStance(e) ==
    CASE Item[e].stance # "none" -> Item[e].stance
      [] Item[e].stance = "none" /\ Synthetic(e) -> "neutral"
      [] Item[e].stance = "none" /\ ~Synthetic(e) ->
            IF Item[e].says \cap {"denial", "old"} # {} THEN "attack"
            ELSE IF Item[e].flagged /\ Item[e].absent THEN "neutral"
            ELSE IF Item[e].flagged THEN "attack" ELSE "support"

FallbackArguments ==
    {Built(e, InferredStance(e), {e}, IF Item[e].flagged THEN {"evidence_flag"} ELSE {}, {}) :
        e \in usable}

Orders(S) == {s \in [1 .. Cardinality(S) -> S] : \A i, j \in DOMAIN s : s[i] = s[j] => i = j}

\* An answer without arguments falls back like a failing LLM.
Generate ==
    /\ pc = "generate"
    /\ \/ \E n \in 1 .. MaxArguments : arguments' \in [1 .. n -> Drafts]
       \/ arguments' \in Orders(FallbackArguments)
    /\ generated' = arguments'
    /\ pc' = IF features.verifier THEN "verify" ELSE "score"
    /\ UNCHANGED <<usable, score, decision, reasons, features, judged>>

-----------------------------------------------------------------------------
\* Verification.

\* verify on an argument without evidence.
Unlinked(a) == [a EXCEPT !.valid = FALSE, !.flags = @ \cup {"argument_without_evidence"}]

\* Mutant: what the LLM could not judge is left as it was generated.
VerifiedAloneOpen(a, verdict) ==
    IF a.ev = {} THEN Unlinked(a)
    ELSE IF verdict = "failed" THEN a ELSE [a EXCEPT !.valid = verdict = "valid"]

\* verify: one call of the LLM, which fails closed.
VerifiedAlone(a, verdict) ==
    IF a.ev = {} THEN Unlinked(a)
    ELSE IF verdict = "failed"
    THEN [a EXCEPT !.valid = FALSE, !.flags = @ \cup {"argument_verifier_failed_closed"}]
    ELSE [a EXCEPT !.valid = verdict = "valid"]

WithText(t) == {i \in DOMAIN arguments : arguments[i].text = t}
UnlinkedWith(t) == {i \in WithText(t) : arguments[i].ev = {}}

\* verify_all_batched keeps one result for an id: that of the last argument
\* without evidence, otherwise that of the first argument.
KeptFor(t) ==
    arguments[IF UnlinkedWith(t) # {} THEN Max(UnlinkedWith(t)) ELSE Min(WithText(t))]

\* Mutant: only arguments that the answer mentions are kept.
VerifiedMentioned(valid) ==
    LET Verdict(a) == IF a.ev = {} THEN Unlinked(a) ELSE [a EXCEPT !.valid = a.text \in valid]
    IN  SelectSeq([i \in DOMAIN arguments |-> Verdict(arguments[i])],
                  LAMBDA a : a.ev = {} \/ a.valid)

\* What the answer does not mention is invalid.
VerifiedTogether(valid) ==
    [i \in DOMAIN arguments |->
        LET a == KeptFor(arguments[i].text)
        IN  IF a.ev = {} THEN Unlinked(a) ELSE [a EXCEPT !.valid = a.text \in valid]]

LinkedTexts == {arguments[i].text : i \in {j \in DOMAIN arguments : UnlinkedWith(arguments[j].text) = {}}}

VerifyBatch ==
    /\ pc = "verify"
    /\ \E valid \in SUBSET LinkedTexts :
        /\ arguments' = VerifiedTogether(valid)
        /\ judged' = valid
    /\ pc' = "score"
    /\ UNCHANGED <<usable, generated, score, decision, reasons, features>>

\* Batches are off or the batch fails: every argument has a call of its own.
VerifyEach ==
    /\ pc = "verify" /\ LlmFails
    /\ \E verdict \in [DOMAIN arguments -> {"valid", "invalid", "failed"}] :
        /\ arguments' = [i \in DOMAIN arguments |-> VerifiedAlone(arguments[i], verdict[i])]
        /\ judged' = {arguments[i].text : i \in {j \in DOMAIN arguments : verdict[j] = "valid"}}
    /\ pc' = "score"
    /\ UNCHANGED <<usable, generated, score, decision, reasons, features>>

\* Calls in parallel: one result is kept for an id, that of the last to end.
VerifyParallel ==
    /\ pc = "verify" /\ LlmFails
    /\ \E verdict \in [DOMAIN arguments -> {"valid", "invalid", "failed"}],
          last \in {f \in [DOMAIN arguments -> DOMAIN arguments] :
                     \A i, j \in DOMAIN f :
                        /\ arguments[f[i]].text = arguments[i].text
                        /\ arguments[i].text = arguments[j].text => f[i] = f[j]} :
        /\ arguments' = [i \in DOMAIN arguments |-> VerifiedAlone(arguments[last[i]], verdict[last[i]])]
        /\ judged' = {arguments[i].text : i \in {j \in DOMAIN arguments : verdict[j] = "valid"}}
    /\ pc' = "score"
    /\ UNCHANGED <<usable, generated, score, decision, reasons, features>>

-----------------------------------------------------------------------------
\* Scores.

Average(f) == SumFunction(f) \div Cardinality(DOMAIN f)

\* ArgumentScorer.score.  Without evidence the attributes fall back to the
\* schema's one half, but for cross-modal consistency; specificity is taken at its least.
Attributes(a) ==
    LET linked == a.ev \cap usable
        sources == {Item[e].source : e \in linked}
        modalities == {Item[e].type : e \in linked}
        traced == {e \in linked : Item[e].provenance}
    IN  IF linked = {} THEN 50 * (20 + 25 + 15 + 20)
        ELSE 20 * Average([e \in linked |-> Item[e].reliability])
             + 25 * Average([e \in linked |-> Item[e].relevance])
             + 15 * Min({(100 * Cardinality(sources)) \div 3, 100})
             + 15 * Min({(100 * Cardinality(modalities)) \div 2, 100})
             + 20 * ((100 * Cardinality(traced)) \div Cardinality(linked))

ScoreOf(a) ==
    LET raw == Attributes(a) + 5 * 25
        doubted == IF a.valid THEN raw ELSE raw \div 4
    IN  IF a.flags = {} THEN doubted ELSE (85 * doubted) \div 100

Scored(args) == [i \in DOMAIN args |-> [args[i] EXCEPT !.score = ScoreOf(args[i])]]

WeightOf(args, stance) ==
    SumFunctionOnSet([i \in DOMAIN args |-> args[i].score], {i \in DOMAIN args : args[i].stance = stance})

\* QBAFPropagator: h(x) = x^2 / (1 + x^2) of what outweighs the other side.
\* Beyond four units h is flat: a bound that keeps squares in 32 bits.
H(x) == LET y == Min({x, 4 * One})
            square == (y * y) \div One
        IN  (One * square) \div (One + square)

\* Mutant: the base score is not symmetric.
PropagatedLow(args) ==
    LET support == WeightOf(args, "support")
        attack == WeightOf(args, "attack")
    IN  IF support >= attack THEN One \div 2 + H(support - attack) \div 2
        ELSE One \div 2 - H(attack) \div 2

\* Mutant: what is against a claim adds to the energy.
PropagatedTotal(args) ==
    LET support == WeightOf(args, "support")
        attack == WeightOf(args, "attack")
    IN  IF support >= attack THEN One \div 2 + H(support + attack) \div 2
        ELSE One \div 2 - H(support + attack) \div 2

\* The base score of a claim is one half.
Propagated(args) ==
    LET support == WeightOf(args, "support")
        attack == WeightOf(args, "attack")
    IN  IF support >= attack THEN One \div 2 + H(support - attack) \div 2
        ELSE One \div 2 - H(attack - support) \div 2

\* _non_qbaf_graph.
LaplaceMean(args) ==
    LET support == WeightOf(args, "support")
        attack == WeightOf(args, "attack")
    IN  (One * (One + support)) \div (2 * One + support + attack)

ClaimScore(args) == IF features.qbaf THEN Propagated(args) ELSE LaplaceMean(args)

ScoreArguments ==
    /\ pc = "score"
    /\ arguments' = Scored(arguments)
    /\ score' = ClaimScore(arguments')
    /\ pc' = "clash"
    /\ UNCHANGED <<usable, generated, decision, reasons, features, judged>>

-----------------------------------------------------------------------------
\* Clashes.

Strongest(stance) ==
    LET S == {arguments[i].score : i \in {j \in DOMAIN arguments : arguments[j].stance = stance}}
    IN  IF S = {} THEN 0 ELSE Max(S)

Difference(x, y) == IF x >= y THEN x - y ELSE y - x

ShouldResolve ==
    /\ Strongest("support") >= 5500 /\ Strongest("attack") >= 5500
    /\ Difference(Strongest("support"), Strongest("attack")) <= 2500

\* The lowered score is computed again; what stays of the resolution is the flag.
Clashing(a) == [a EXCEPT !.flags = @ \cup {"major_factual_clash"}]

ResolveClash ==
    /\ pc = "clash" /\ features.qbaf /\ features.clash
    /\ ShouldResolve
    /\ arguments' = Scored([i \in DOMAIN arguments |-> Clashing(arguments[i])])
    /\ score' = Propagated(arguments')
    /\ pc' = "decide"
    /\ UNCHANGED <<usable, generated, decision, reasons, features, judged>>

NoClash ==
    /\ pc = "clash"
    /\ ~(features.qbaf /\ features.clash /\ ShouldResolve)
    /\ pc' = "decide"
    /\ UNCHANGED <<usable, arguments, generated, score, decision, reasons, features, judged>>

-----------------------------------------------------------------------------
\* Decision and escalation.

\* DecisionMapper.map.
StatusOf(s) ==
    IF s < 3000 THEN "refuted" ELSE IF s < 4500 THEN "weakly_refuted"
    ELSE IF s <= 5500 THEN "uncertain"
    ELSE IF s <= 7000 THEN "weakly_supported" ELSE "supported"

ConfidenceOf(s) ==
    IF StatusOf(s) = "uncertain" THEN One - Min({20 * Difference(s, 5000), One})
    ELSE 2 * Difference(s, 5000)

LinkedEvidence == UNION {arguments[i].ev : i \in DOMAIN arguments}

\* Mutant: sides are compared by the number of their arguments.
TieOfNumbers(args) ==
    LET number(stance) == Cardinality({i \in DOMAIN args : args[i].stance = stance})
    IN  number("support") > 0 /\ number("support") = number("attack")

\* _support_attack_tie.
Tie(args) ==
    LET support == WeightOf(args, "support")
        attack == WeightOf(args, "attack")
    IN  support + attack > 0 /\ Difference(support, attack) <= 1000

\* What one item of a type says against what another says.
SaidBy(types, word) ==
    \E e \in LinkedEvidence : Item[e].type \in types /\ word \in Item[e].says
OcrAsrConflict == SaidBy({"ocr"}, "new") /\ SaidBy({"asr"}, "old")
ReverseContextConflict == SaidBy({"reverse_image_local", "reverse_image_web_candidate"}, "old")
MetadataClaimConflict == \E e \in LinkedEvidence : "contradiction" \in Item[e].says
ForensicSourceConflict ==
    /\ \/ SaidBy({"forensic_analysis"}, "suspicion")
       \/ \E e \in LinkedEvidence : Item[e].type = "forensic_analysis" /\ Item[e].flagged
    /\ \E e \in LinkedEvidence :
          /\ Item[e].type \in {"web_article", "news_article", "factcheck_article", "case_provided"}
          /\ Item[e].stance = "support"

\* UncertaintyEscalator.evaluate.
Escalations ==
    {r \in {"neutral_score_band", "all_synthetic_uncertainty", "missing_relevant_evidence",
            "low_reliability_evidence", "cross_modal_conflict", "metadata_claim_conflict",
            "reverse_search_context_conflict", "forensic_source_conflict", "support_attack_tie"} :
        CASE r = "neutral_score_band" -> score \in 4500 .. 5500
          [] r = "all_synthetic_uncertainty" ->
                LinkedEvidence # {} /\ \A e \in LinkedEvidence : Synthetic(e)
          [] r = "missing_relevant_evidence" -> LinkedEvidence = {}
          [] r = "low_reliability_evidence" ->
                LinkedEvidence # {} /\ \A e \in LinkedEvidence : Item[e].reliability < 35
          [] r = "cross_modal_conflict" -> OcrAsrConflict
          [] r = "metadata_claim_conflict" -> MetadataClaimConflict
          [] r = "reverse_search_context_conflict" -> ReverseContextConflict
          [] r = "forensic_source_conflict" -> ForensicSourceConflict
          [] r = "support_attack_tie" -> Tie(arguments)}

Decide ==
    /\ pc = "decide"
    /\ decision' = [status |-> StatusOf(score), confidence |-> ConfidenceOf(score)]
    /\ reasons' = Escalations
    /\ pc' = "done"
    /\ UNCHANGED <<usable, arguments, generated, score, features, judged>>

Init ==
    /\ pc = "rank"
    /\ usable = {} /\ arguments = <<>> /\ generated = <<>>
    /\ score = One \div 2
    /\ decision = [status |-> "none", confidence |-> 0]
    /\ reasons = {}
    /\ features \in [verifier: ArgumentVerifier, qbaf: UseQbaf, clash: ClashResolution]
    /\ judged = {}

Next ==
    \/ Rank \/ Generate \/ VerifyBatch \/ VerifyEach \/ VerifyParallel \/ ScoreArguments
    \/ ResolveClash \/ NoClash \/ Decide

Spec == Init /\ [][Next]_vars

-----------------------------------------------------------------------------
\* What must hold.

\* However the two ways of verification fail, an argument counts as valid only
\* if the LLM found what it says valid and it rests on evidence of the case
\* (argument_verifier.py:53-61, 119-131).
ValidWasJudged ==
    pc = "done" /\ features.verifier =>
        \A i \in DOMAIN arguments :
            arguments[i].valid => arguments[i].text \in judged /\ arguments[i].ev \cap usable # {}

\* Verification, scoring and clashes keep every argument, what it is for and
\* what it rests on, as long as no two say the same (main.py:892-934).
ArgumentsKept ==
    pc = "done" /\ (\A i, j \in DOMAIN generated : generated[i].text = generated[j].text => i = j) =>
        /\ Len(arguments) = Len(generated)
        /\ \A i \in DOMAIN arguments :
              /\ arguments[i].text = generated[i].text /\ arguments[i].stance = generated[i].stance
              /\ arguments[i].ev = generated[i].ev /\ generated[i].flags \subseteq arguments[i].flags

\* With every stance turned round a claim gets the opposite decision: no side
\* is favoured, at the thresholds neither (propagator.py:15-17, decision_mapper.py:6-20).
Turned(args) ==
    [i \in DOMAIN args |->
        [args[i] EXCEPT !.stance = CASE @ = "support" -> "attack" [] @ = "attack" -> "support"
                                     [] OTHER -> @]]
OppositeOf(status) ==
    CASE status = "refuted" -> "supported" [] status = "supported" -> "refuted"
      [] status = "weakly_refuted" -> "weakly_supported"
      [] status = "weakly_supported" -> "weakly_refuted" [] OTHER -> status
SidesAreEqual ==
    pc = "done" /\ features.qbaf => StatusOf(Propagated(Turned(arguments))) = OppositeOf(decision.status)

\* Sides that are as strong as each other leave a claim uncertain and send it
\* to a human, with QBAF and without (uncertainty_escalator.py:148-155).
TieIsUncertain ==
    pc = "done" /\ Tie(arguments) => decision.status = "uncertain" /\ "neutral_score_band" \in reasons

\* An argument for a claim never makes it less believed, one against it never
\* more, once flags and scores are settled (propagator.py:7-17).
Without(args, i) == [j \in DOMAIN args |-> IF j = i THEN [args[j] EXCEPT !.score = 0] ELSE args[j]]
ArgumentsPull ==
    pc = "done" =>
        \A i \in DOMAIN arguments :
            /\ arguments[i].stance = "support" => ClaimScore(Without(arguments, i)) <= score
            /\ arguments[i].stance = "attack" => ClaimScore(Without(arguments, i)) >= score

\* Whatever fails, an argument that counts as valid was judged valid; and each
\* argument of a claim is still there, with a verdict of its own, as long as no
\* two of them have one text: the id is a hash of claim and text, and arguments
\* with one id share a verdict (argument_verifier.py:53-61, main.py:892-934).
VerdictsAreOwn == ValidWasJudged /\ ArgumentsKept

\* The decision on a claim treats its sides alike: to exchange them exchanges the
\* decision, a tie is uncertain, and an argument pulls its claim its own way
\* (propagator.py:7-28, decision_mapper.py:5-20).
SidesAreAlike == SidesAreEqual /\ TieIsUncertain /\ ArgumentsPull
=============================================================================
