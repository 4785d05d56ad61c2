---------------------------- MODULE FinalDecision ----------------------------
(***************************************************************************)
(* The verdict on a case from the decisions on its claims, and how it      *)
(* changes while contestations and new evidence move single claims.        *)
(* Source: src/aggregation/final_decision_aggregator.py.                   *)
(*                                                                         *)
(* Scores are in hundredths; confidence is not rounded.                    *)
(***************************************************************************)
EXTENDS Naturals, Integers, FiniteSets, FiniteSetsExt, Functions

CONSTANTS
    Claims,    \* ids of the case's claims
    TypeOf,    \* [Claims -> claim type]
    Scores,    \* the scores that occur, a subset of 0 .. 100
    Cosmos     \* whether the case is one of the COSMOS dataset

ASSUME FinalDecisionAssumption ==
    /\ IsFiniteSet(Claims) /\ Scores \subseteq 0 .. 100 /\ Cosmos \in BOOLEAN
    /\ DOMAIN TypeOf = Claims

VARIABLES
    belief,     \* [Claims -> Scores]
    verdict     \* [status, confidence]

verdictVars == <<belief, verdict>>

CoreTypes == {"what", "where", "when", "who", "authenticity"}
ContextTypes == {"where", "when", "who", "caption_context"}

\* DecisionMapper.map, as far as the verdict asks.
DecisionOf(s) ==
    IF s < 30 THEN "refuted" ELSE IF s < 45 THEN "weakly_refuted"
    ELSE IF s <= 55 THEN "uncertain" ELSE IF s <= 70 THEN "weakly_supported" ELSE "supported"

OfType(type) == {c \in Claims : TypeOf[c] = type}
IsRefuted(f, type) == \E c \in OfType(type) : DecisionOf(f[c]) \in {"refuted", "weakly_refuted"}
IsSupported(f, type) == \E c \in OfType(type) : DecisionOf(f[c]) \in {"supported", "weakly_supported"}

\* Of all types whose claims are there, the mean score is 0.70 or more.
WellSupported(f, types) ==
    \A type \in types : SumFunctionOnSet(f, OfType(type)) >= 70 * Cardinality(OfType(type))

PresentCore == {type \in CoreTypes : OfType(type) # {}}

\* |mean - 0.5| * 2, in hundredths.
Certainty(f) ==
    LET n == Cardinality(Claims)
        sum == SumFunctionOnSet(f, Claims)
    IN  (2 * (IF sum >= 50 * n THEN sum - 50 * n ELSE 50 * n - sum)) \div n

ContextRefuted(f) == \E type \in ContextTypes : IsRefuted(f, type)
WhatSupported(f) == IsSupported(f, "what") \/ IsSupported(f, "main")
UncertainClaims(f) == {c \in Claims : DecisionOf(f[c]) = "uncertain"}

\* Mutant: core types are looked at before the context is.
VerdictCoreFirst(f) ==
    IF PresentCore # {} /\ \A type \in PresentCore : IsSupported(f, type)
    THEN IF WellSupported(f, PresentCore) THEN "verified" ELSE "mostly_verified"
    ELSE IF IsRefuted(f, "authenticity") THEN "manipulated_or_synthetic"
    ELSE IF WhatSupported(f) /\ ContextRefuted(f) THEN "false_context" ELSE "uncertain"

\* Mutant: a core type need not be supported, only not refuted.
VerdictUnrefuted(f) ==
    IF IsRefuted(f, "authenticity") THEN "manipulated_or_synthetic"
    ELSE IF WhatSupported(f) /\ ContextRefuted(f) THEN "false_context"
    ELSE IF \A type \in PresentCore : ~IsRefuted(f, type) THEN "mostly_verified" ELSE "uncertain"

\* Mutant: the context of what is shown counts if the case as a whole is believed.
VerdictByMean(f) ==
    IF ContextRefuted(f) /\ SumFunctionOnSet(f, Claims) >= 50 * Cardinality(Claims) THEN "false_context"
    ELSE "uncertain"

VerdictOf(f) ==
    IF Claims = {} THEN "uncertain"
    ELSE IF IsRefuted(f, "authenticity") THEN "manipulated_or_synthetic"
    ELSE IF WhatSupported(f) /\ ContextRefuted(f)
         THEN IF Cosmos THEN "out_of_context_cheapfake" ELSE "false_context"
    ELSE IF PresentCore # {} /\ \A type \in PresentCore : IsSupported(f, type)
         THEN IF WellSupported(f, PresentCore) THEN "verified" ELSE "mostly_verified"
    ELSE IF \E c \in Claims : DecisionOf(f[c]) = "weakly_supported" THEN "partially_verified"
    ELSE IF Cardinality(UncertainClaims(f)) >= Max({1, Cardinality(Claims) \div 2}) THEN "uncertain"
    ELSE IF SumFunctionOnSet(f, Claims) < 45 * Cardinality(Claims) THEN "insufficient_evidence"
    ELSE "uncertain"

\* Every status but "uncertain" has a confidence of its own to start from.
LeastConfidence(status) ==
    CASE status \in {"manipulated_or_synthetic", "out_of_context_cheapfake", "false_context",
                     "mostly_verified"} -> 55
      [] status = "verified" -> 65
      [] status = "partially_verified" -> 45
      [] status = "insufficient_evidence" -> 35
      [] status = "uncertain" -> 0

\* FinalDecisionAggregator.aggregate.
Aggregated(f) ==
    [status |-> VerdictOf(f),
     confidence |-> IF Claims = {} THEN 0 ELSE Max({Certainty(f), LeastConfidence(VerdictOf(f))})]

VerdictInit ==
    /\ belief \in [Claims -> Scores]
    /\ verdict = Aggregated(belief)

\* A claim is decided again, and with it the case.
Redecide(c) ==
    \E s \in Scores \ {belief[c]} :
        /\ belief' = [belief EXCEPT ![c] = s]
        /\ verdict' = Aggregated(belief')

VerdictNext == \E c \in Claims : Redecide(c)

VerdictSpec == VerdictInit /\ [][VerdictNext]_verdictVars

-----------------------------------------------------------------------------
Accused == verdict.status \in {"manipulated_or_synthetic", "out_of_context_cheapfake", "false_context"}
Trusted == verdict.status \in {"verified", "mostly_verified"}

\* A case is not trusted while a claim about its authenticity or the only claim of
\* a core type is refuted, whatever the other claims say; nor while one about its
\* context is, if a "what" or main claim is supported: a refuted context counts
\* against a case only then (final_decision_aggregator.py:40-61).
TrustedIsUnrefuted ==
    Trusted =>
        \A c \in Claims :
            DecisionOf(belief[c]) \in {"refuted", "weakly_refuted"} =>
                /\ TypeOf[c] \notin ContextTypes \/ ~WhatSupported(belief)
                /\ TypeOf[c] # "authenticity"
                /\ TypeOf[c] \in CoreTypes => OfType(TypeOf[c]) # {c}

\* Belief in a claim about context or authenticity that rises accuses nobody:
\* only what the media show can turn a doubtful context into a false one.
RisingContextAccusesNobody ==
    [][\A c \in Claims :
          /\ TypeOf[c] \in ContextTypes \cup {"authenticity"}
          /\ belief'[c] > belief[c] /\ Accused'
          => Accused]_verdictVars

\* Belief in a claim that falls never makes a case trusted, if it has a claim of
\* type "what": without one, less belief in the main claim can.
FallingBeliefTrustsNothing ==
    [][\A c \in Claims :
          OfType("what") # {} /\ belief'[c] < belief[c] /\ Trusted' => Trusted]_verdictVars

\* The verdict answers to the claims: rising belief in context or authenticity
\* accuses nobody, falling belief makes no case with a "what" claim trusted, and a
\* case is not trusted while authenticity, the only claim of a core type or, beside
\* a supported "what" or main claim, its context is refuted
\* (final_decision_aggregator.py:40-61).
VerdictFollowsClaims ==
    /\ RisingContextAccusesNobody
    /\ FallingBeliefTrustsNothing
    /\ []TrustedIsUnrefuted
=============================================================================
