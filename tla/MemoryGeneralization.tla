------------------------ MODULE MemoryGeneralization ------------------------
(***************************************************************************)
(* Generalization: repeated episodic or failure observations of one source *)
(* signature, none of which can be promoted by itself, are synthesized     *)
(* into a semantic rule.  A rule that the LLM cannot synthesize, verify or *)
(* trust enough is kept as a proposal under review; new support or an      *)
(* explicit retry may recover it.  Source: MemoryConsolidator in           *)
(* src/memory/memory_consolidator.py, with generalize_repeated_episodes.   *)
(*                                                                         *)
(* A run of the consolidator works on copies and writes the long-term file *)
(* before the short-term file; a crash in between leaves only the first.   *)
(* The order of rows and records in the files is left open: where the code *)
(* takes the first one that fits, any one that fits is taken.              *)
(***************************************************************************)
EXTENDS Naturals, FiniteSets, FiniteSetsExt

CONSTANTS
    Obs,               \* stm_ids
    CaseOf, SourceOf,  \* [Obs -> source_case_id], [Obs -> fingerprint]
    TextOf,            \* [Obs -> normalized text]
    ConfidenceOf,      \* [Obs -> 0 .. 10], in tenths
    GroundedOf,        \* [Obs -> BOOLEAN]
    Near,              \* pairs of texts that are equivalent or entail each other
    Wordings,          \* what rules may say; the texts are among them
    Alike,             \* pairs of wordings that are equivalent or entail each other
    MinCases, MinSources, MinRuleConfidence,   \* consolidation.semantic_rule
    Batches            \* what a store may be given, by a name: a function to records
                       \* of rows \subseteq Obs; wordings and confidences (tenths) the
                       \* LLM may give a rule; archive (short_term.archive_expired);
                       \* and the bounds crashes, reviews and expired rows

GeneralizationAssumption ==
    /\ IsFiniteSet(Obs)
    /\ TextOf \in [Obs -> Wordings] /\ GroundedOf \in [Obs -> BOOLEAN]
    /\ ConfidenceOf \in [Obs -> 0 .. 10]
    /\ \A w \in Wordings : <<w, w>> \in Near
    /\ MinCases \in Nat /\ MinSources \in Nat /\ MinRuleConfidence \in Nat
    /\ \A name \in DOMAIN Batches :
          /\ Batches[name].rows \subseteq Obs
          /\ Batches[name].wordings \subseteq Wordings
          /\ Batches[name].confidences \subseteq 0 .. 10
          /\ Batches[name].archive \in BOOLEAN
          /\ {Batches[name].crashes, Batches[name].reviews, Batches[name].expired} \subseteq Nat

VARIABLES
    batch,      \* the name of what the store is given
    stm,        \* [Obs -> row of short_term_memory.jsonl]
    rules,      \* [Wordings -> record of semantic_rules.jsonl], by the wording its id hashes
    archived,   \* rows in archive/short_term_expired
    at, wstm, wrules,    \* the run in progress and its copies
    expiring,   \* rows the run expires
    todo,       \* rows the run has not clustered
    retry,      \* proposals the run has been asked to retry
    crashes, reviews

ruleVars == <<batch, stm, rules, archived, at, wstm, wrules, expiring, todo, retry, crashes, reviews>>

NoRow == [status |-> "absent", rule |-> "none"]
NoRule == [status |-> "none", lesson |-> "none", confidence |-> 0, proposal |-> FALSE,
           reason |-> "none", fallback |-> FALSE, cases |-> {}, sources |-> {}, support |-> 0,
           seen |-> {}, linked |-> {}, texts |-> {}]

Known(r) == r.status \in {"active", "under_review"}
Batch == Batches[batch]

Retryable == {"synthesis_failed", "verification_unavailable", "confidence_below_threshold"}

Independent(S) ==
    \A o, p \in S : o # p => CaseOf[o] # CaseOf[p] /\ SourceOf[o] # SourceOf[p]

\* _select_independent_observations takes rows greedily in some order.
Selections(S) ==
    {T \in SUBSET S : Independent(T) /\ \A o \in S \ T : ~Independent(T \cup {o})}

\* Mutant: a new case is enough, its source may have been counted.
UnseenCases(S, r) == {o \in S : CaseOf[o] \notin r.cases}

Unseen(S, r) == {o \in S : CaseOf[o] \notin r.cases /\ SourceOf[o] \notin r.sources}

-----------------------------------------------------------------------------
\* The two calls of the LLM.

\* _synthesize_generalization: a rule, or the text of the most confident row.
Fallback(S) ==
    LET best == CHOOSE o \in S : \A p \in S : ConfidenceOf[p] <= ConfidenceOf[o]
    IN  [lesson |-> TextOf[best], confidence |-> Min({6, ConfidenceOf[best]}), synthesized |-> FALSE]

Syntheses(S) ==
    {Fallback(S)} \cup {[lesson |-> w, confidence |-> c, synthesized |-> TRUE] :
                          w \in Batch.wordings, c \in Batch.confidences}

Verifications == {"verified", "verification_failed", "verification_unavailable"}

\* Mutant: a rule that is verified is not held for its confidence.
ReviewReasonUnlessVerified(rule, verification, S) ==
    IF ~rule.synthesized THEN "synthesis_failed"
    ELSE IF verification # "verified" THEN verification
    ELSE "none"

\* _generalization_review_reason: why a rule is held, "none" if it is not.
ReviewReason(rule, verification, S) ==
    IF ~rule.synthesized THEN "synthesis_failed"
    ELSE IF verification # "verified" THEN verification
    ELSE IF Cardinality(S) < MinCases THEN "distinct_cases_below_threshold"
    ELSE IF Cardinality(S) < MinSources THEN "distinct_sources_below_threshold"
    ELSE IF rule.confidence < MinRuleConfidence THEN "confidence_below_threshold"
    ELSE IF \E o \in S : ~GroundedOf[o] THEN "grounding_unavailable"
    ELSE "none"

\* The rule and the reason after an attempt; nothing is verified without a rule.
Attempts(syntheses, S) ==
    UNION {{[rule |-> rule, reason |-> ReviewReason(rule, v, S)] :
              v \in IF rule.synthesized THEN Verifications ELSE {"verification_unavailable"}} :
           rule \in syntheses}

-----------------------------------------------------------------------------
\* Operations on a record.

Proposed(attempt, cluster, S) ==
    [status |-> IF attempt.reason = "none" THEN "active" ELSE "under_review",
     lesson |-> attempt.rule.lesson, confidence |-> attempt.rule.confidence,
     proposal |-> attempt.reason # "none", reason |-> attempt.reason,
     fallback |-> ~attempt.rule.synthesized,
     cases |-> {CaseOf[o] : o \in S}, sources |-> {SourceOf[o] : o \in S},
     support |-> Cardinality(S), seen |-> S, linked |-> cluster,
     texts |-> {TextOf[o] : o \in S}]

\* _merge_generalized_support; S is independent, so that what is unseen is too.
MergeSupport(r, S) ==
    LET new == Unseen(S, r)
    IN  [r EXCEPT !.cases = @ \cup {CaseOf[o] : o \in new},
                  !.sources = @ \cup {SourceOf[o] : o \in new},
                  !.support = @ + Cardinality(new), !.seen = @ \cup new,
                  !.linked = @ \cup new, !.texts = @ \cup {TextOf[o] : o \in new}]

\* Mutant: activation leaves the proposal flag in place.
ActivateStatus(r, rule) ==
    [r EXCEPT !.status = "active", !.reason = "none", !.confidence = rule.confidence]

\* _activate_generalization leaves the wording of the record alone.
Activate(r, rule) ==
    [r EXCEPT !.status = "active", !.proposal = FALSE, !.reason = "none", !.confidence = rule.confidence]

\* The wording a failed synthesis falls back on is not taken over.
Reworded(r, rule) ==
    IF rule.synthesized THEN [r EXCEPT !.lesson = rule.lesson, !.confidence = rule.confidence] ELSE r

\* _reconsider_generalization: what the proposal may become.
Reconsidered(r, force) ==
    LET syntheses == IF force \/ r.fallback \/ r.reason = "synthesis_failed"
                     THEN Syntheses(r.seen)
                     ELSE {[lesson |-> r.lesson, confidence |-> r.confidence, synthesized |-> TRUE]}
    IN  {LET again == [Reworded(r, a.rule) EXCEPT !.fallback = ~a.rule.synthesized,
                                                  !.reason = a.reason]
         IN  IF a.reason = "none" THEN Activate(again, a.rule) ELSE again :
         a \in Attempts(syntheses, r.seen)}

\* Mutant: recovery settles only the rows of the cluster at hand.
SettledOfCluster(rows, m, r) == rows

\* Recovery settles the rows that the file says are held for the proposal.
Settled(rows, m, r) ==
    [o \in Obs |-> IF o \in r.linked /\ stm[o].status = "under_review"
                   THEN [status |-> "merged", rule |-> m] ELSE rows[o]]

Linked(cluster, m, status) ==
    [o \in Obs |-> IF o \in cluster THEN [status |-> status, rule |-> m] ELSE wstm[o]]

\* Rows and record after the cluster was given to record m, now r.
Given(cluster, m, r, verified, existed, recovered) ==
    LET rows == Linked(cluster, m, IF ~verified THEN "under_review"
                                   ELSE IF existed THEN "merged" ELSE "promoted")
    IN  /\ wrules' = [wrules EXCEPT ![m] = r]
        /\ wstm' = IF recovered THEN Settled(rows, m, r) ELSE rows

-----------------------------------------------------------------------------
\* A run of the consolidator.

\* A candidate verified again replaces its row unless that is terminal.
StageRow(o) ==
    /\ at = "idle" /\ o \in Batch.rows
    /\ stm[o].status \in {"absent", "expired"}
    /\ stm' = [stm EXCEPT ![o] = [status |-> "staged", rule |-> "none"]]
    /\ UNCHANGED <<rules, archived, at, wstm, wrules, expiring, todo, retry, crashes, reviews>>

Proposals ==
    {m \in Wordings : /\ rules[m].status = "under_review" /\ rules[m].proposal
                      /\ rules[m].linked # {} /\ rules[m].reason \in Retryable}

BeginRun ==
    /\ at = "idle"
    /\ expiring' \in {E \in SUBSET {o \in Obs : stm[o].status \in {"staged", "under_review"}} :
                        Cardinality(E \cup archived) <= Batch.expired}
    /\ wstm' = [o \in Obs |-> IF o \in expiring' THEN [stm[o] EXCEPT !.status = "expired"] ELSE stm[o]]
    /\ wrules' = rules
    /\ todo' = {o \in Obs \ expiring' : stm[o].status = "staged"}
    /\ retry' \in {{}, Proposals}
    /\ at' = "clusters"
    /\ UNCHANGED <<stm, rules, archived, crashes, reviews>>

ClusterOf(seed) == {o \in todo : <<TextOf[seed], TextOf[o]>> \in Near}

\* _find_source_generalization.
SourceRules(S) ==
    {m \in Wordings : /\ Known(wrules[m])
                      /\ \E o \in S, t \in wrules[m].texts : <<TextOf[o], t>> \in Near}

\* Mutant: a proposal is not looked up before a rule is created.
EquivalentRulesActive(lesson) ==
    {m \in Wordings : wrules[m].status = "active" /\ <<lesson, wrules[m].lesson>> \in Alike}

\* _find_equivalent_semantic_rule: the id of a record hashes its first wording.
EquivalentRules(lesson) ==
    IF Known(wrules[lesson]) THEN {lesson}
    ELSE {m \in Wordings : Known(wrules[m]) /\ <<lesson, wrules[m].lesson>> \in Alike}

\* The rows support a record that grew from rows like them.
SupportSourceRule(cluster, S, m) ==
    LET r == wrules[m]
        merged == MergeSupport(r, S)
        active == r.status = "active" /\ ~r.proposal
    IN  IF ~active /\ r.proposal /\ merged # r
        THEN /\ \E again \in Reconsidered(merged, FALSE) :
                   Given(cluster, m, again, again.status = "active", TRUE, again.status = "active")
             /\ retry' = retry \ {m}
        ELSE Given(cluster, m, merged, active, TRUE, FALSE) /\ UNCHANGED retry

\* They become a record of their own, or support one that says the same.
SupportNewRule(cluster, S) ==
    \E attempt \in Attempts(Syntheses(S), S) :
        LET lesson == attempt.rule.lesson
            verified == attempt.reason = "none"
        IN  IF EquivalentRules(lesson) = {}
            THEN /\ Given(cluster, lesson, Proposed(attempt, cluster, S), verified, FALSE, FALSE)
                 /\ retry' = IF verified THEN retry ELSE retry \ {lesson}
            ELSE \E m \in EquivalentRules(lesson) :
                   LET r == wrules[m]
                       recovered == verified /\ r.proposal
                       merged == MergeSupport(r, S)
                   IN  /\ Given(cluster, m, IF recovered THEN Activate(merged, attempt.rule) ELSE merged,
                                (r.status = "active" /\ ~r.proposal) \/ recovered, TRUE, recovered)
                       /\ retry' = IF recovered THEN retry \ {m} ELSE retry

Generalize ==
    /\ at = "clusters" /\ todo # {}
    /\ \E seed \in todo : \E S \in Selections(ClusterOf(seed)) :
        /\ todo' = todo \ ClusterOf(seed)
        /\ \/ \E m \in SourceRules(S) : SupportSourceRule(ClusterOf(seed), S, m)
           \/ /\ SourceRules(S) = {}
              /\ Cardinality(S) >= MinCases /\ Cardinality(S) >= MinSources
              /\ SupportNewRule(ClusterOf(seed), S)
           \/ /\ SourceRules(S) = {}
              /\ Cardinality(S) < MinCases \/ Cardinality(S) < MinSources
              /\ UNCHANGED <<wstm, wrules, retry>>
    /\ UNCHANGED <<stm, rules, archived, at, expiring, crashes, reviews>>

\* A proposal that was not attempted in this run is tried again on request.
Retry(m) ==
    /\ at = "clusters" /\ todo = {} /\ m \in retry
    /\ \E again \in Reconsidered(wrules[m], wrules[m].reason = "confidence_below_threshold") :
        /\ wrules' = [wrules EXCEPT ![m] = again]
        /\ wstm' = IF again.status = "active" THEN Settled(wstm, m, again) ELSE wstm
    /\ retry' = retry \ {m}
    /\ UNCHANGED <<stm, rules, archived, at, expiring, todo, crashes, reviews>>

WriteRules ==
    /\ at = "clusters" /\ todo = {} /\ retry = {}
    /\ rules' = wrules
    /\ at' = "write_rows"
    /\ UNCHANGED <<stm, archived, wstm, wrules, expiring, todo, retry, crashes, reviews>>

Idle ==
    /\ at' = "idle"
    /\ wstm' = [o \in Obs |-> NoRow] /\ wrules' = [m \in Wordings |-> NoRule]
    /\ expiring' = {} /\ todo' = {} /\ retry' = {}

WriteRows ==
    /\ at = "write_rows"
    /\ archived' = IF Batch.archive THEN archived \cup expiring ELSE archived
    /\ stm' = [o \in Obs |-> IF Batch.archive /\ wstm[o].status = "expired" THEN NoRow ELSE wstm[o]]
    /\ Idle
    /\ UNCHANGED <<rules, crashes, reviews>>

Killed ==
    /\ at # "idle" /\ crashes < Batch.crashes
    /\ crashes' = crashes + 1
    /\ Idle
    /\ UNCHANGED <<stm, rules, archived, reviews>>

\* Conflict evidence about a rule, and support that outweighs it, move it as
\* any other record (MemoryConsolidation); a proposal can only be deprecated.
Review(m) ==
    /\ at = "idle" /\ reviews < Batch.reviews
    /\ Known(rules[m])
    /\ \E status \in {"active", "under_review", "deprecated"}, c \in Batch.confidences :
        /\ status # rules[m].status
        /\ rules[m].proposal => status = "deprecated"
        /\ rules' = [rules EXCEPT ![m].status = status, ![m].confidence = c]
    /\ reviews' = reviews + 1
    /\ UNCHANGED <<stm, archived, at, wstm, wrules, expiring, todo, retry, crashes>>

RuleInit ==
    /\ batch \in DOMAIN Batches
    /\ stm = [o \in Obs |-> NoRow]
    /\ rules = [m \in Wordings |-> NoRule]
    /\ archived = {}
    /\ at = "idle"
    /\ wstm = [o \in Obs |-> NoRow] /\ wrules = [m \in Wordings |-> NoRule]
    /\ expiring = {} /\ todo = {} /\ retry = {}
    /\ crashes = 0 /\ reviews = 0

RuleNext ==
    /\ \/ \E o \in Obs : StageRow(o)
       \/ BeginRun
       \/ Generalize
       \/ \E m \in Wordings : Retry(m)
       \/ WriteRules
       \/ WriteRows
       \/ Killed
       \/ \E m \in Wordings : Review(m)
    /\ UNCHANGED batch

RuleSpec == RuleInit /\ [][RuleNext]_ruleVars

-----------------------------------------------------------------------------
\* What must hold.

\* However often rows are staged again, runs crash and proposals are retried,
\* a rule counts each case and each source once, and only rows it lists
\* (memory_consolidator.py:960-1034, test_memory_consolidation.py:527-571).
SupportIsIndependent ==
    \A m \in Wordings : LET r == rules[m] IN
        /\ r.support = Cardinality(r.cases) /\ r.support = Cardinality(r.sources)
        /\ Independent(r.seen)
        /\ r.cases = {CaseOf[o] : o \in r.seen} /\ r.sources = {SourceOf[o] : o \in r.seen}

\* A rule under review that was never confirmed is a proposal with a reason;
\* one that was is not: the lifecycle check reactivates the second only.
ProposalKeepsReason ==
    \A m \in Wordings :
        /\ rules[m].proposal <=> rules[m].reason # "none"
        /\ rules[m].status = "active" => ~rules[m].proposal

\* What a rule says of itself is true: it counts each case and each source once
\* (memory_consolidator.py:960-1034), and if not confirmed keeps the reason.
Justified == SupportIsIndependent /\ ProposalKeepsReason

\* A rule below a semantic threshold never becomes active, whichever path
\* activates it (README.md:61-70).
ActivatesAbove ==
    \A m \in Wordings :
        (rules'[m].status = "active" /\ (rules[m].status \in {"none", "deprecated"} \/ rules[m].proposal))
        => /\ rules'[m].confidence >= MinRuleConfidence
           /\ Cardinality(rules'[m].seen) >= MinCases
           /\ Cardinality(rules'[m].seen) >= MinSources
           /\ ~rules'[m].proposal

\* What a rule rests on is not lost while the rule is known.
KeepsSupport ==
    \A m \in Wordings : Known(rules[m]) =>
        /\ rules[m].seen \subseteq rules'[m].seen
        /\ rules[m].linked \subseteq rules'[m].linked

\* A recovery settles every row that an earlier run held for the proposal,
\* also those that are not in the cluster at hand: each is merged into it, or
\* into another active rule that lists it (memory_consolidator.py:266-281, 322-337).
SettlesHeld ==
    \A m \in Wordings :
        rules[m].proposal /\ rules'[m].status = "active" =>
            \A o \in rules'[m].linked :
                stm[o].status = "under_review" =>
                    \E n \in Wordings :
                        /\ wstm[o] = [status |-> "merged", rule |-> n]
                        /\ rules'[n].status = "active" /\ o \in rules'[n].linked

\* What a step may do to the rules: activate them above the thresholds only
\* (README.md:61-70), lose nothing they rest on, and, when a proposal is
\* recovered, settle every row that an earlier run held for it
\* (memory_consolidator.py:266-281).
RulesEvolve == [][ActivatesAbove /\ KeepsSupport /\ SettlesHeld]_rules
=============================================================================
