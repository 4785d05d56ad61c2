--------------------------- MODULE MemoryRecords ---------------------------
(***************************************************************************)
(* The data of the SEMV memory subsystem and the pure functions on it:     *)
(* observations (verified reflection candidates), long-term records, the   *)
(* independence test, Beta-style confidence, and the lifecycle rule.       *)
(*                                                                         *)
(* A text is a member of Statement: its canonical key.  What the           *)
(* similarity backend says of two texts is the constant RelationOf.  A     *)
(* confidence is an integer percentage, and the Beta parameters alpha and  *)
(* beta are integers in hundredths, so that alpha + beta is one hundred    *)
(* times the weight of evidence and every comparison with a threshold is   *)
(* exact (the code compares floats).                                       *)
(***************************************************************************)
EXTENDS Integers, FiniteSets, FiniteSetsExt

CONSTANTS
    Obs,             \* reflection candidates; one is staged as row stm_<id>
    Case,            \* case ids
    Source,          \* source fingerprints
    Statement,       \* canonical keys of texts
    MemId,           \* ids of long-term records
    NoMem,           \* no record: an unset promoted_to / related memory id
    Observation,     \* [Obs -> what the candidate says and where it is from]
    RelationOf,      \* [Statement \X Statement -> Relations]
    Block,           \* [Statement -> its semantic signature]
    FileOf,          \* [Statement -> memory type, hence the file it is kept in]
    Text,            \* [MemId -> Statement]: the statement a record makes
    IdOf,            \* [Statement -> MemId]: mem_<hash of the canonical key>
    Seed,            \* the records inserted by seed_memory
    SeedSupport,     \* [MemId -> support_count a seed starts with]
    SeedConfidence   \* [MemId -> confidence a seed starts with]

CONSTANTS            \* configs/memory.yaml
    MinConfidence,           \* [MemoryType -> percent]
    MinDistinctCases,        \* [MemoryType -> Nat]
    MinDistinctSources,      \* [MemoryType -> Nat]
    MaxConflictRatio,        \* percent
    UnderReviewConflictRatio,\* percent
    DeprecateConfidenceBelow,\* percent
    VerifyMinConfidence,     \* percent: verification.min_confidence
    RequireGrounding         \* verification.require_grounding

MemoryType == {"episodic", "failure", "semantic_rule"}

Relations == {"equivalent", "a_entails_b", "b_entails_a", "contradicts", "unrelated"}

\* The relations under which an observation supports a statement.
Supporting == {"equivalent", "a_entails_b", "b_entails_a"}

Percent == 0..100

ObservationType ==
    [statement: Statement, case: Case, source: Source, confidence: Percent,
     grounding: {"none", "invented", "report"},
     heldout: BOOLEAN,      \* dataset_split is validation or test
     flagged: BOOLEAN,      \* lesson generation already held it for review
     universal: BOOLEAN,    \* the text says always, never, all, ...
     human: BOOLEAN]        \* supervision_source is human_feedback

ASSUME MemoryAssumption ==
    /\ IsFiniteSet(Obs) /\ IsFiniteSet(MemId)
    /\ NoMem \notin MemId
    /\ Observation \in [Obs -> ObservationType]
    /\ RelationOf \in [Statement \X Statement -> Relations]
    /\ FileOf \in [Statement -> MemoryType]
    /\ Text \in [MemId -> Statement]
    /\ IdOf \in [Statement -> MemId]
    /\ \A s \in Statement : Text[IdOf[s]] = s /\ IdOf[s] \notin Seed
    /\ Seed \subseteq MemId
    /\ SeedSupport \in [MemId -> Nat] /\ SeedConfidence \in [MemId -> Percent]

ASSUME ConfigAssumption ==
    /\ MinConfidence \in [MemoryType -> Percent]
    /\ MinDistinctCases \in [MemoryType -> Nat \ {0}]
    /\ MinDistinctSources \in [MemoryType -> Nat \ {0}]
    /\ {MaxConflictRatio, UnderReviewConflictRatio, DeprecateConfidenceBelow,
        VerifyMinConfidence} \subseteq Percent
    /\ RequireGrounding \in BOOLEAN
    /\ MaxConflictRatio <= UnderReviewConflictRatio

-----------------------------------------------------------------------------
\* Observations.

StatementOf(o) == Observation[o].statement
CaseOf(o) == Observation[o].case
SourceOf(o) == Observation[o].source

TypeOf(m) == FileOf[Text[m]]    \* of a record

Relate(o, m) == RelationOf[StatementOf(o), Text[m]]

\* Two observations are independent when neither the case nor the source is
\* shared: both identity dimensions must be new.
Independent(o, p) == CaseOf(o) # CaseOf(p) /\ SourceOf(o) # SourceOf(p)

PairwiseIndependent(S) == \A o, p \in S : o # p => Independent(o, p)

\* picked is what _select_independent_observations takes from S when it goes
\* through S in the order of the relation before and nothing was seen yet.
IsIndependentSelection(picked, S, before) ==
    /\ picked \subseteq S
    /\ \A o \in S :
         o \in picked <=> \A p \in picked : <<p, o>> \in before => Independent(p, o)

-----------------------------------------------------------------------------
\* Long-term records.  backers and opponents are the observations behind the
\* parallel lists source_case_ids/source_fingerprints and the metadata's
\* conflict_case_ids/conflict_fingerprints.

RecordStatus == {"absent", "active", "under_review", "deprecated"}

Record == [status: RecordStatus, backers: SUBSET Obs, opponents: SUBSET Obs,
           support: Nat, conflict: Nat]

NoRecord == [status |-> "absent", backers |-> {}, opponents |-> {},
             support |-> 0, conflict |-> 0]

Live(r) == r.status \in {"active", "under_review"}

\* support_count that does not come from observations
BaseSupport(m) == IF m \in Seed THEN SeedSupport[m] ELSE 0

SeedRecord(m) == [status |-> "active", backers |-> {}, opponents |-> {},
                  support |-> SeedSupport[m], conflict |-> 0]

InitialRecord(m) == IF m \in Seed THEN SeedRecord(m) ELSE NoRecord

Confidences(S) == MapThenSumSet(LAMBDA o : Observation[o].confidence, S)
Doubts(S) == MapThenSumSet(LAMBDA o : 100 - Observation[o].confidence, S)

\* The Beta prior of a seed is its confidence times max(1, support_count).
PriorStrength(m) ==
    IF m \notin Seed THEN 0 ELSE IF SeedSupport[m] = 0 THEN 1 ELSE SeedSupport[m]
Alpha(m, r) == (IF m \in Seed THEN SeedConfidence[m] ELSE 0) * PriorStrength(m)
               + Confidences(r.backers) + Doubts(r.opponents)
Beta(m, r) == (IF m \in Seed THEN 100 - SeedConfidence[m] ELSE 0) * PriorStrength(m)
              + Doubts(r.backers) + Confidences(r.opponents)

\* alpha / (alpha + beta) < DeprecateConfidenceBelow
LowConfidence(m, r) ==
    100 * Alpha(m, r) < DeprecateConfidenceBelow * (Alpha(m, r) + Beta(m, r))

\* conflict_count / max(1, support_count + conflict_count) > limit
ConflictRatioAbove(limit, r) == 100 * r.conflict > limit * (r.support + r.conflict)

-----------------------------------------------------------------------------
\* The three ways a record changes.

\* Support is counted when the case and the source are both new to the record.
CorroboratesByCase(o, r) == \A p \in r.backers : CaseOf(o) # CaseOf(p)    \* mutant
Corroborates(o, r) == \A p \in r.backers : Independent(o, p)

MergeSupport(r, o) ==
    IF Corroborates(o, r)
    THEN [r EXCEPT !.backers = @ \union {o}, !.support = @ + 1]
    ELSE r

\* A conflict is counted when the case and the source are both new among the
\* conflicts of the record; it can only take an active record out of service.
Opposes(o, r) == \A p \in r.opponents : Independent(o, p)

ApplyAnyConflict(r, o) ==    \* mutant: the same conflict counts again
    [r EXCEPT !.opponents = @ \union {o}, !.conflict = @ + 1]

ApplyConflict(r, o) ==
    IF Opposes(o, r)
    THEN LET s == [r EXCEPT !.opponents = @ \union {o}, !.conflict = @ + 1]
         IN  IF s.status = "active" /\ ConflictRatioAbove(UnderReviewConflictRatio, s)
             THEN [s EXCEPT !.status = "under_review"]
             ELSE s
    ELSE r

\* The status the lifecycle re-check gives a record.
LifecycleStatus(m, r) ==
    IF Live(r) /\ LowConfidence(m, r) /\ r.conflict > 0 THEN "deprecated"
    ELSE IF r.status = "active" /\ ConflictRatioAbove(UnderReviewConflictRatio, r)
    THEN "under_review"
    ELSE IF /\ r.status = "under_review"
            /\ ~LowConfidence(m, r)
            /\ ~ConflictRatioAbove(MaxConflictRatio, r)
    THEN "active"
    ELSE r.status

LifecycleCheckActive(m, r) ==    \* mutant: nothing is ever reinstated
    IF r.status = "active" THEN [r EXCEPT !.status = LifecycleStatus(m, r)] ELSE r

LifecycleCheck(m, r) == [r EXCEPT !.status = LifecycleStatus(m, r)]

\* What _try_promote asks of a cluster: picked are its independent members
\* and rep its most confident one.
PromotionThresholdsMet(picked, rep) ==
    LET type == FileOf[StatementOf(rep)]
        reviewed == \E o \in picked : Observation[o].human
        minCases == IF reviewed /\ type = "episodic" THEN 1 ELSE MinDistinctCases[type]
    IN  /\ Cardinality(picked) >= minCases
        /\ Cardinality(picked) >= MinDistinctSources[type]
        /\ Confidences(picked) >= MinConfidence[type] * Cardinality(picked)
        /\ Observation[rep].grounding # "none"

Promoted(picked) == [status |-> "active", backers |-> picked, opponents |-> {},
                     support |-> Cardinality(picked), conflict |-> 0]

=============================================================================
