--------------------------- MODULE Lessons_proofs ---------------------------
(***************************************************************************)
(* Proofs about Reflection and MemoryGeneralization: whatever reports,     *)
(* labels, reviews and answers of the LLM there are, what is staged is     *)
(* grounded in its case; and whatever rows and wordings there are, and     *)
(* wherever a run is killed, a rule is justified and only strengthens.     *)
(***************************************************************************)
EXTENDS Reflection, MemoryGeneralization, FiniteSetTheorems, WellFoundedInduction, TLAPS

-----------------------------------------------------------------------------
(* Candidates.                                                              *)

\* A row has these fields.
IsRow(c) ==
    c = [id |-> c.id, type |-> c.type, kind |-> c.kind, text |-> c.text, case |-> c.case,
         split |-> c.split, evidence |-> c.evidence, arguments |-> c.arguments,
         confidence |-> c.confidence, supervision |-> c.supervision, invented |-> c.invented,
         status |-> c.status]

\* It is about the report, its failure about a mode of the report.
AboutReport(c) ==
    /\ IsRow(c)
    /\ c.case = report.case /\ c.split = report.split
    /\ c.evidence \subseteq ValidEvidence(report) /\ c.arguments \subseteq ValidArguments(report)
    /\ c.type = "failure" => c.kind \in modes

Proposable(c) == AboutReport(c) /\ (c.invented => c.status = "under_review")

Decided(c) ==
    /\ AboutReport(c)
    /\ c.invented => c.status \in {"under_review", "rejected"}
    /\ c.split \in NonTraining => c.status = "rejected"

LEMMA TopArgumentsValid == \A r : TopArguments(r) \subseteq ValidArguments(r)
  BY DEF TopArguments

LEMMA GroundingValid ==
    ASSUME NEW r, NEW lesson
    PROVE  /\ Grounding(r, lesson).evidence \subseteq ValidEvidence(r)
           /\ Grounding(r, lesson).arguments \subseteq ValidArguments(r)
  BY TopArgumentsValid DEF Grounding

LEMMA CandidateProposable ==
    ASSUME NEW id, NEW type, NEW kind, NEW text, NEW lesson, NEW confidence,
           type = "failure" => kind \in modes
    PROVE  Proposable(Candidate(id, type, kind, text, lesson, confidence))
  BY GroundingValid DEF Candidate, Proposable, AboutReport, IsRow

LEMMA AnswerProposable ==
    ASSUME NEW answer, NEW c \in FromAnswer(answer)
    PROVE  Proposable(c)
<1>1. \A lesson : Proposable(EpisodicCandidate(lesson))
  BY CandidateProposable DEF EpisodicCandidate
<1>2. \A lesson : Proposable(SemanticCandidate(lesson))
  BY CandidateProposable DEF SemanticCandidate
<1>3. ASSUME NEW lesson, NEW index, lesson.kind \in modes
      PROVE  Proposable(FailureCandidate(lesson, index))
  BY <1>3, CandidateProposable DEF FailureCandidate
<1>4. \A f \in Failures(answer) : Proposable(f)
  BY <1>3 DEF Failures
<1> QED  BY <1>1, <1>2, <1>4 DEF FromAnswer

LEMMA FallbackProposable == Proposable(FallbackEpisodic)
<1> DEFINE c == Candidate(<<report.case, "episodic_fallback">>, "episodic", None, "default",
                          NoLesson, Min({60, report.confidence}))
<1>1. Proposable(c)
  BY CandidateProposable
<1>2. FallbackEpisodic = [c EXCEPT !.status = "under_review"]
  BY DEF FallbackEpisodic
<1> HIDE DEF c
<1> QED  BY <1>1, <1>2 DEF Proposable, AboutReport, IsRow

\* A verdict decides a candidate.
LEMMA VerdictDecides ==
    ASSUME NEW c, Proposable(c), NEW verdict \in Verdicts(c)
    PROVE  Decided([c EXCEPT !.status = verdict])
<1>1. /\ c.split \in NonTraining => verdict = "rejected"
      /\ c.status = "under_review" => verdict \in {"under_review", "rejected"}
  BY DEF Verdicts
<1> QED  BY <1>1 DEF Proposable, Decided, AboutReport, IsRow

-----------------------------------------------------------------------------
(* Memory.                                                                  *)

\* What a row of memory promises, whatever the case that is reflected on.
Sound(row) ==
    /\ IsRow(row)
    /\ row.evidence \subseteq UNION {ValidEvidence(r) : r \in ReportsOf(row.case)}
    /\ row.arguments \subseteq UNION {ValidArguments(r) : r \in ReportsOf(row.case)}
    /\ row.invented => row.status = "under_review"
    /\ row.type = "failure" => row.kind \in KindsFound[row.case]
    /\ row.split \notin NonTraining

Reflecting ==
    /\ report \in Reports /\ gold \in Golds /\ feedback \in Feedback
    /\ modes = Classify(report, gold, feedback)

ReflectionInv ==
    /\ pc \in {"idle", "generate", "verify"}
    /\ pc # "idle" => Reflecting
    /\ pc # "verify" => candidates = {} /\ verified = {}
    /\ \A c \in candidates : Proposable(c)
    /\ \A c \in verified : Decided(c)
    /\ \A id \in DOMAIN memory : Sound(memory[id])

\* What was decided and not rejected is sound.
LEMMA DecidedIsSound ==
    ASSUME Reflecting, NEW c, Decided(c), c.status # "rejected"
    PROVE  Sound(c)
<1>1. report \in ReportsOf(c.case)
  BY DEF Reflecting, Decided, AboutReport, ReportsOf
<1>2. modes \subseteq KindsFound[c.case]
  <2>1. c.case \in {r.case : r \in Reports}
    BY <1>1 DEF ReportsOf
  <2>2. KindsFound[c.case] = UNION {Classify(r, truth, human) :
                                 r \in ReportsOf(c.case), truth \in Golds, human \in Feedback}
    BY <2>1 DEF KindsFound
  <2> QED  BY <1>1, <2>2 DEF Reflecting
<1> QED  BY <1>1, <1>2 DEF Decided, AboutReport, Sound

LEMMA ReflectionInit == Init => ReflectionInv
  BY DEF Init, ReflectionInv

LEMMA ReflectionNext == ReflectionInv /\ [Next]_vars => ReflectionInv'
<1> SUFFICES ASSUME ReflectionInv, [Next]_vars PROVE ReflectionInv'
  OBVIOUS
<1>1. CASE Begin
  BY <1>1 DEF Begin, ReflectionInv, Reflecting, Sound, IsRow
<1>2. CASE Generate
  <2>1. \A c \in candidates' : Proposable(c)
    BY <1>2, AnswerProposable, FallbackProposable DEF Generate
  <2>2. UNCHANGED <<report, modes>>
    BY <1>2 DEF Generate
  <2>3. \A c \in candidates' : Proposable(c)'
    BY <2>1, <2>2 DEF Proposable, AboutReport
  <2> QED  BY <1>2, <2>3 DEF Generate, ReflectionInv, Reflecting, Sound
<1>3. CASE Verify
  <2>1. UNCHANGED <<report, modes>>
    BY <1>3 DEF Verify
  <2>2. \A c \in verified' : Decided(c)
    BY <1>3, VerdictDecides DEF Verify, ReflectionInv
  <2>3. \A c \in verified' : Decided(c)'
    BY <2>1, <2>2 DEF Decided, AboutReport
  <2>4. \A c \in candidates' : Proposable(c)'
    BY <1>3, <2>1 DEF Verify, ReflectionInv, Proposable, AboutReport
  <2> QED  BY <1>3, <2>3, <2>4 DEF Verify, ReflectionInv, Reflecting, Sound
<1>4. CASE Stage
  <2> DEFINE kept == {c \in verified : c.status # "rejected"}
             ids == {c.id : c \in kept}
  <2>1. \A c \in kept : Sound(c)
    BY <1>4, DecidedIsSound DEF Stage, ReflectionInv
  <2>2. memory' = [id \in DOMAIN memory \cup ids |->
                      IF id \in ids /\ ~Terminal(id) THEN CHOOSE c \in kept : c.id = id
                      ELSE memory[id]]
    BY <1>4 DEF Stage
  <2>3. ASSUME NEW id \in DOMAIN memory'  PROVE Sound(memory'[id])
    <3>1. CASE id \in ids /\ ~Terminal(id)
      <4>1. (CHOOSE c \in kept : c.id = id) \in kept
        BY <3>1
      <4> QED  BY <2>1, <2>2, <3>1, <4>1
    <3>2. CASE ~(id \in ids /\ ~Terminal(id))
      <4>1. id \in DOMAIN memory
        BY <2>2, <2>3, <3>2 DEF Terminal
      <4> QED  BY <2>2, <3>2, <4>1 DEF ReflectionInv
    <3> QED  BY <3>1, <3>2
  <2> QED  BY <1>4, <2>3 DEF Stage, Forgotten, ReflectionInv, Sound
<1>5. CASE Promote
  <2>1. PICK id \in DOMAIN memory :
            /\ memory[id].status = "verified"
            /\ memory' = [memory EXCEPT ![id].status = "promoted"]
    BY <1>5 DEF Promote
  <2>2. Sound([memory[id] EXCEPT !.status = "promoted"])
    BY <2>1 DEF ReflectionInv, Sound, IsRow
  <2>3. \A i \in DOMAIN memory' : Sound(memory'[i])
    BY <2>1, <2>2 DEF ReflectionInv
  <2> QED  BY <1>5, <2>3 DEF Promote, ReflectionInv, Reflecting, Sound
<1>6. CASE Crash
  BY <1>6 DEF Crash, Forgotten, ReflectionInv, Sound
<1>7. CASE UNCHANGED vars
  BY <1>7 DEF vars, ReflectionInv, Reflecting, Proposable, Decided, AboutReport, Sound
<1> QED  BY <1>1, <1>2, <1>3, <1>4, <1>5, <1>6, <1>7 DEF Next

LEMMA ReflectionInvariant == Spec => []ReflectionInv
  BY ReflectionInit, ReflectionNext, PTL DEF Spec

(***************************************************************************)
(* Whatever the reports, the labels, the reviews and the answers of the    *)
(* LLM, and however often the process ends, what is in memory is grounded. *)
(***************************************************************************)
THEOREM LessonsAreGrounded == Spec => []LessonsGrounded
<1>1. ReflectionInv => LessonsGrounded
  BY DEF ReflectionInv, Sound, LessonsGrounded, GroundedInCase, InventedNeverTrusted,
         FailuresHappened, OnlyTraining, Trusted, Rows
<1> QED  BY <1>1, ReflectionInvariant, PTL

(***************************************************************************)
(* No reflection, and no consolidation, changes a row that was promoted.   *)
(***************************************************************************)
THEOREM PromotedIsKept == Spec => PromotedStays
<1>1. ASSUME [Next]_vars, NEW id \in DOMAIN memory, memory[id].status = "promoted"
      PROVE  memory'[id] = memory[id]
  <2>1. CASE Stage
    BY <1>1, <2>1 DEF Stage, Terminal
  <2>2. CASE Promote
    BY <1>1, <2>2 DEF Promote
  <2>3. CASE Begin \/ Generate \/ Verify \/ Crash
    BY <2>3 DEF Begin, Generate, Verify, Crash
  <2> QED  BY <1>1, <2>1, <2>2, <2>3 DEF Next, vars
<1>2. [Next]_vars => [\A id \in DOMAIN memory :
                          memory[id].status = "promoted" => memory'[id] = memory[id]]_memory
  BY <1>1
<1> QED  BY <1>2, PTL DEF Spec, PromotedStays

-----------------------------------------------------------------------------
(* Independent observations.                                                *)

LEMMA ObsFinite ==
    ASSUME GeneralizationAssumption, NEW S \in SUBSET Obs
    PROVE  IsFiniteSet(S) /\ Cardinality(S) \in Nat
  BY FS_Subset, FS_CardinalityType DEF GeneralizationAssumption

\* A function that tells the elements of a finite set apart keeps its size.
LEMMA ImageSize ==
    ASSUME NEW S, IsFiniteSet(S), NEW F,
           \A o, p \in S : o # p => F[o] # F[p]
    PROVE  Cardinality({F[o] : o \in S}) = Cardinality(S)
<1> DEFINE T == {F[o] : o \in S}
           f == [o \in S |-> F[o]]
<1>1. f \in Surjection(S, T) /\ f \in Injection(S, T)
  BY DEF Surjection, Injection, IsInjective
<1> QED  BY <1>1, FS_Surjection

LEMMA IndependentSize ==
    ASSUME GeneralizationAssumption, NEW S \in SUBSET Obs, Independent(S)
    PROVE  /\ Cardinality({CaseOf[o] : o \in S}) = Cardinality(S)
           /\ Cardinality({SourceOf[o] : o \in S}) = Cardinality(S)
<1>1. IsFiniteSet(S)
  BY ObsFinite
<1>2. /\ \A o, p \in S : o # p => CaseOf[o] # CaseOf[p]
      /\ \A o, p \in S : o # p => SourceOf[o] # SourceOf[p]
  BY DEF Independent
<1> QED  BY <1>1, <1>2, ImageSize

\* Some rows of a cluster are always selected.
LEMMA SelectionSome ==
    ASSUME NEW cluster, cluster # {}, NEW S \in Selections(cluster)
    PROVE  S \subseteq cluster /\ S # {} /\ Independent(S)
<1>1. PICK o \in cluster : TRUE
  OBVIOUS
<1>2. Independent({} \cup {o})
  BY DEF Independent
<1> QED  BY <1>1, <1>2 DEF Selections

LEMMA ClusterOfTodo ==
    ASSUME GeneralizationAssumption, todo \subseteq Obs, NEW seed \in todo
    PROVE  ClusterOf(seed) \subseteq todo /\ ClusterOf(seed) # {}
<1>1. <<TextOf[seed], TextOf[seed]>> \in Near
  BY DEF GeneralizationAssumption
<1> QED  BY <1>1 DEF ClusterOf

-----------------------------------------------------------------------------
(* What the LLM is asked for.                                               *)

Reasons ==
    {"none", "synthesis_failed", "verification_failed", "verification_unavailable",
     "distinct_cases_below_threshold", "distinct_sources_below_threshold",
     "confidence_below_threshold", "grounding_unavailable"}

Synthesis == [lesson : Wordings \cup {"none"}, confidence : 0 .. 10, synthesized : BOOLEAN]

\* Of some rows one is the most confident.
LEMMA MostConfident ==
    ASSUME GeneralizationAssumption, NEW S \in SUBSET Obs, S # {}
    PROVE  \E o \in S : \A p \in S : ConfidenceOf[p] <= ConfidenceOf[o]
<1> DEFINE T == {10 - ConfidenceOf[o] : o \in S}
<1>1. \A o \in S : ConfidenceOf[o] \in 0 .. 10
  BY DEF GeneralizationAssumption
<1>2. T \subseteq Nat /\ T # {}
  BY <1>1
<1>3. PICK x \in T : \A y \in T : ~(<<y, x>> \in OpToRel(<, Nat))
  <2> HIDE DEF T
  <2> QED  BY <1>2, WFMin, NatLessThanWellFounded
<1>4. \A y \in T : ~(y < x)
  <2> HIDE DEF T
  <2>1. \A y \in Nat, z \in Nat : y < z => <<y, z>> \in OpToRel(<, Nat)
    BY DEF OpToRel
  <2> QED  BY <1>2, <1>3, <2>1
<1>5. PICK o \in S : x = 10 - ConfidenceOf[o]
  BY <1>3
<1> QED  BY <1>1, <1>4, <1>5

LEMMA LowerOfTwo == \A a, b \in Nat : Min({a, b}) \in {a, b}
<1> TAKE a, b \in Nat
<1>1. \E x \in {a, b} : \A y \in {a, b} : x =< y
  OBVIOUS
<1> QED  BY <1>1 DEF Min

LEMMA SynthesesType ==
    ASSUME GeneralizationAssumption, batch \in DOMAIN Batches,
           NEW S \in SUBSET Obs, S # {}
    PROVE  \A rule \in Syntheses(S) : rule \in Synthesis /\ rule.lesson \in Wordings
<1> DEFINE best == CHOOSE o \in S : \A p \in S : ConfidenceOf[p] <= ConfidenceOf[o]
<1>1. best \in S
  BY MostConfident
<1>2. TextOf[best] \in Wordings /\ ConfidenceOf[best] \in 0 .. 10
  BY <1>1 DEF GeneralizationAssumption
<1>3. Min({6, ConfidenceOf[best]}) \in 0 .. 10
  <2> HIDE DEF best
  <2>1. Min({6, ConfidenceOf[best]}) \in {6, ConfidenceOf[best]}
    BY <1>2, LowerOfTwo
  <2> QED  BY <1>2, <2>1
<1>4. Fallback(S) \in Synthesis /\ Fallback(S).lesson \in Wordings
  BY <1>2, <1>3 DEF Fallback, Synthesis
<1>5. Batch.wordings \subseteq Wordings /\ Batch.confidences \subseteq 0 .. 10
  BY DEF GeneralizationAssumption, Batch
<1>6. \A w \in Batch.wordings, c \in Batch.confidences :
          /\ [lesson |-> w, confidence |-> c, synthesized |-> TRUE] \in Synthesis /\ w \in Wordings
  BY <1>5 DEF Synthesis
<1> QED  BY <1>4, <1>6 DEF Syntheses

\* An attempt without a reason to hold its rule is above the thresholds.
LEMMA AttemptGated ==
    ASSUME NEW syntheses \in SUBSET Synthesis, NEW S, NEW attempt \in Attempts(syntheses, S)
    PROVE  /\ attempt.rule \in Synthesis /\ attempt.rule \in syntheses
           /\ attempt.reason \in Reasons
           /\ attempt.reason = "none" =>
                  /\ attempt.rule.synthesized
                  /\ ~(attempt.rule.confidence < MinRuleConfidence)
                  /\ ~(Cardinality(S) < MinCases) /\ ~(Cardinality(S) < MinSources)
<1>1. PICK rule \in syntheses :
          attempt \in {[rule |-> rule, reason |-> ReviewReason(rule, v, S)] :
                         v \in IF rule.synthesized THEN Verifications ELSE {"verification_unavailable"}}
  BY DEF Attempts
<1>2. PICK v \in Verifications : attempt = [rule |-> rule, reason |-> ReviewReason(rule, v, S)]
  BY <1>1 DEF Verifications
<1>3. /\ ReviewReason(rule, v, S) \in Reasons
      /\ ReviewReason(rule, v, S) = "none" =>
             /\ rule.synthesized /\ ~(rule.confidence < MinRuleConfidence)
             /\ ~(Cardinality(S) < MinCases) /\ ~(Cardinality(S) < MinSources)
  BY DEF ReviewReason, Verifications, Reasons
<1>4. attempt.rule = rule /\ attempt.reason = ReviewReason(rule, v, S)
  BY <1>2
<1> QED  BY <1>1, <1>3, <1>4

-----------------------------------------------------------------------------
(* Records.                                                                 *)

RuleRecord ==
    [status : {"none", "active", "under_review", "deprecated"}, lesson : Wordings \cup {"none"},
     confidence : 0 .. 10, proposal : BOOLEAN, reason : Reasons, fallback : BOOLEAN,
     cases : SUBSET {CaseOf[o] : o \in Obs}, sources : SUBSET {SourceOf[o] : o \in Obs},
     support : Nat, seen : SUBSET Obs, linked : SUBSET Obs, texts : SUBSET Wordings]

\* What a record promises of itself.
Counted(r) ==
    /\ r \in RuleRecord
    /\ r.cases = {CaseOf[o] : o \in r.seen} /\ r.sources = {SourceOf[o] : o \in r.seen}
    /\ r.support = Cardinality(r.seen) /\ Independent(r.seen)
    /\ Known(r) => /\ r.seen # {} /\ Cardinality(r.seen) >= MinCases
                   /\ Cardinality(r.seen) >= MinSources

Earned(r) ==
    /\ Counted(r)
    /\ r.proposal <=> r.reason # "none"
    /\ r.status = "active" => ~r.proposal

Gate(r) ==
    /\ r.confidence >= MinRuleConfidence
    /\ Cardinality(r.seen) >= MinCases /\ Cardinality(r.seen) >= MinSources
    /\ ~r.proposal

\* A proposal that waits for support or a retry.
Waiting(r) == r.status = "under_review" /\ r.proposal

LEMMA NoRuleEarned == GeneralizationAssumption => Earned(NoRule)
<1>1. Cardinality({}) = 0
  BY FS_EmptySet
<1> QED  BY <1>1 DEF Earned, Counted, NoRule, RuleRecord, Reasons, Independent, Known

\* A record that was just proposed.
LEMMA ProposedEarned ==
    ASSUME GeneralizationAssumption, batch \in DOMAIN Batches,
           NEW S \in SUBSET Obs, S # {}, Independent(S),
           Cardinality(S) >= MinCases, Cardinality(S) >= MinSources,
           NEW cluster \in SUBSET Obs, NEW attempt \in Attempts(Syntheses(S), S)
    PROVE  LET r == Proposed(attempt, cluster, S)
           IN  /\ Earned(r) /\ r.linked = cluster
               /\ r.status = "active" => Gate(r)
               /\ r.status \in {"active", "under_review"}
<1> DEFINE r == Proposed(attempt, cluster, S)
<1>1. /\ attempt.rule \in Synthesis /\ attempt.reason \in Reasons
      /\ attempt.reason = "none" => ~(attempt.rule.confidence < MinRuleConfidence)
  BY SynthesesType, AttemptGated
<1>2. /\ attempt.rule.lesson \in Wordings \cup {"none"} /\ attempt.rule.confidence \in 0 .. 10
      /\ attempt.rule.synthesized \in BOOLEAN
  BY <1>1 DEF Synthesis
<1>3. Cardinality(S) \in Nat
  BY ObsFinite
<1>4. {TextOf[o] : o \in S} \subseteq Wordings
  BY DEF GeneralizationAssumption
<1>5. r \in RuleRecord
  BY <1>1, <1>2, <1>3, <1>4 DEF Proposed, RuleRecord
<1>6. Earned(r)
  BY <1>5 DEF Proposed, Earned, Counted, Known
<1>7. attempt.reason = "none" => attempt.rule.confidence >= MinRuleConfidence
  BY <1>1, <1>2 DEF GeneralizationAssumption
<1> QED  BY <1>6, <1>7 DEF Proposed, Gate

\* New support keeps what a record promises.
LEMMA MergeEarned ==
    ASSUME GeneralizationAssumption, NEW r, Earned(r),
           NEW S \in SUBSET Obs, Independent(S)
    PROVE  LET merged == MergeSupport(r, S)
           IN  /\ Earned(merged)
               /\ r.seen \subseteq merged.seen /\ r.linked \subseteq merged.linked
               /\ merged.linked \subseteq r.linked \cup S
               /\ merged.status = r.status /\ merged.proposal = r.proposal
               /\ merged.reason = r.reason /\ merged.confidence = r.confidence
<1> DEFINE new == Unseen(S, r)
           merged == MergeSupport(r, S)
           all == r.seen \cup new
<1>1. r \in RuleRecord /\ r.seen \in SUBSET Obs /\ new \in SUBSET Obs
  BY DEF Earned, Counted, RuleRecord, Unseen
<1>2. /\ merged.seen = all /\ merged.linked = r.linked \cup new
      /\ merged.cases = r.cases \cup {CaseOf[o] : o \in new}
      /\ merged.sources = r.sources \cup {SourceOf[o] : o \in new}
      /\ merged.support = r.support + Cardinality(new)
      /\ merged.texts = r.texts \cup {TextOf[o] : o \in new}
      /\ merged.status = r.status /\ merged.lesson = r.lesson /\ merged.confidence = r.confidence
      /\ merged.proposal = r.proposal /\ merged.reason = r.reason /\ merged.fallback = r.fallback
  BY <1>1 DEF MergeSupport, RuleRecord
<1>3. \A o \in r.seen, p \in new : CaseOf[o] # CaseOf[p] /\ SourceOf[o] # SourceOf[p]
  BY DEF Unseen, Earned, Counted
<1>4. Independent(all)
  BY <1>3 DEF Independent, Earned, Counted, Unseen
<1>5. /\ IsFiniteSet(r.seen) /\ IsFiniteSet(new) /\ IsFiniteSet(all)
      /\ Cardinality(r.seen) \in Nat /\ Cardinality(new) \in Nat /\ Cardinality(all) \in Nat
  BY <1>1, ObsFinite
<1>6. Cardinality(all) = Cardinality(r.seen) + Cardinality(new)
  <2>1. r.seen \cap new = {}
    BY <1>3
  <2>2. Cardinality(all) = Cardinality(r.seen) + Cardinality(new) - Cardinality(r.seen \cap new)
    BY <1>5, FS_Union
  <2>3. Cardinality(r.seen \cap new) = 0
    BY <2>1, FS_EmptySet
  <2> HIDE DEF all, new
  <2> QED  BY <1>5, <2>2, <2>3
<1>7. merged \in RuleRecord
  <2>1. {TextOf[o] : o \in new} \subseteq Wordings
    BY <1>1 DEF GeneralizationAssumption
  <2> DEFINE moreCases == r.cases \cup {CaseOf[o] : o \in new}
             moreSources == r.sources \cup {SourceOf[o] : o \in new}
             moreSupport == r.support + Cardinality(new)
             moreLinked == r.linked \cup new
             moreTexts == r.texts \cup {TextOf[o] : o \in new}
  <2>2. /\ moreCases \subseteq {CaseOf[o] : o \in Obs} /\ moreSources \subseteq {SourceOf[o] : o \in Obs}
        /\ moreSupport \in Nat /\ all \subseteq Obs /\ moreLinked \subseteq Obs
        /\ moreTexts \subseteq Wordings
    BY <1>1, <1>5, <2>1 DEF RuleRecord
  <2>3. ASSUME NEW cases \in SUBSET {CaseOf[o] : o \in Obs},
               NEW sources \in SUBSET {SourceOf[o] : o \in Obs}, NEW support \in Nat,
               NEW seen \in SUBSET Obs, NEW linked \in SUBSET Obs, NEW texts \in SUBSET Wordings
        PROVE  [r EXCEPT !.cases = cases, !.sources = sources, !.support = support,
                         !.seen = seen, !.linked = linked, !.texts = texts] \in RuleRecord
    BY <1>1 DEF RuleRecord
  <2>4. merged = [r EXCEPT !.cases = moreCases, !.sources = moreSources, !.support = moreSupport,
                           !.seen = all, !.linked = moreLinked, !.texts = moreTexts]
    BY DEF MergeSupport
  <2> HIDE DEF merged, moreCases, moreSources, moreSupport, all, moreLinked, moreTexts
  <2> QED  BY <2>2, <2>3, <2>4
<1>8. /\ merged.cases = {CaseOf[o] : o \in merged.seen}
      /\ merged.sources = {SourceOf[o] : o \in merged.seen}
  <2> HIDE DEF merged, new
  <2> QED  BY <1>2 DEF Earned, Counted
<1>9. Earned(merged)
  <2> HIDE DEF merged, new
  <2> QED  BY <1>2, <1>4, <1>5, <1>6, <1>7, <1>8 DEF Earned, Counted, Known, GeneralizationAssumption
<1>10. new \subseteq S
  BY DEF Unseen
<1> QED  BY <1>2, <1>9, <1>10

\* A confidence that lets a proposal become active leaves its promises.
LEMMA ActivateEarned ==
    ASSUME NEW r, Counted(r), Known(r), NEW rule \in Synthesis,
           rule.confidence >= MinRuleConfidence
    PROVE  LET active == Activate(r, rule)
           IN  /\ Earned(active) /\ Gate(active) /\ active.status = "active"
               /\ active.seen = r.seen /\ active.linked = r.linked
<1> DEFINE active == Activate(r, rule)
<1>1. r \in RuleRecord /\ rule.confidence \in 0 .. 10
  BY DEF Earned, Counted, Synthesis
<1>2. active \in RuleRecord
  BY <1>1 DEF Activate, RuleRecord, Reasons
<1>3. /\ active.status = "active" /\ active.proposal = FALSE /\ active.reason = "none"
      /\ active.confidence = rule.confidence
      /\ active.cases = r.cases /\ active.sources = r.sources /\ active.support = r.support
      /\ active.seen = r.seen /\ active.linked = r.linked
  BY <1>1 DEF Activate, RuleRecord
<1>4. Earned(active) /\ Gate(active)
  <2> HIDE DEF active
  <2> QED  BY <1>2, <1>3 DEF Earned, Counted, Gate, Known
<1> QED  BY <1>3, <1>4

\* A proposal that is considered again is active above the thresholds, or waits.
LEMMA ReconsideredEarned ==
    ASSUME GeneralizationAssumption, batch \in DOMAIN Batches,
           NEW r, Earned(r), Waiting(r), NEW force, NEW again \in Reconsidered(r, force)
    PROVE  /\ Earned(again) /\ again.seen = r.seen /\ again.linked = r.linked
           /\ (again.status = "active" /\ Gate(again)) \/ Waiting(again)
<1> DEFINE kept == [lesson |-> r.lesson, confidence |-> r.confidence, synthesized |-> TRUE]
           syntheses == IF force \/ r.fallback \/ r.reason = "synthesis_failed"
                        THEN Syntheses(r.seen) ELSE {kept}
           Tried(a) == [Reworded(r, a.rule) EXCEPT !.fallback = ~a.rule.synthesized, !.reason = a.reason]
<1>1. r \in RuleRecord /\ r.seen \in SUBSET Obs /\ r.seen # {} /\ Known(r)
  BY DEF Earned, Counted, RuleRecord, Known, Waiting
<1>2. kept \in Synthesis
  BY <1>1 DEF Synthesis, RuleRecord
<1>3. syntheses \in SUBSET Synthesis
  BY <1>1, <1>2, SynthesesType
<1>4. PICK a \in Attempts(syntheses, r.seen) :
          again = IF a.reason = "none" THEN Activate(Tried(a), a.rule) ELSE Tried(a)
  BY DEF Reconsidered
<1>5. /\ a.rule \in Synthesis /\ a.reason \in Reasons
      /\ a.reason = "none" => a.rule.synthesized /\ ~(a.rule.confidence < MinRuleConfidence)
  <2> HIDE DEF syntheses
  <2> QED  BY <1>3, <1>4, AttemptGated
<1>6. Tried(a) \in RuleRecord /\ a.rule.synthesized \in BOOLEAN
  BY <1>1, <1>5 DEF Reworded, RuleRecord, Synthesis
<1>7. /\ Tried(a).status = r.status /\ Tried(a).proposal = r.proposal /\ Tried(a).reason = a.reason
      /\ Tried(a).cases = r.cases /\ Tried(a).sources = r.sources /\ Tried(a).support = r.support
      /\ Tried(a).seen = r.seen /\ Tried(a).linked = r.linked
  BY <1>1, <1>5 DEF Reworded, RuleRecord, Synthesis
<1> HIDE DEF Tried, kept, syntheses
<1>8. CASE a.reason # "none"
  BY <1>4, <1>6, <1>7, <1>8 DEF Earned, Counted, Known, Waiting
<1>9. CASE a.reason = "none"
  <2>1. a.rule.confidence \in 0 .. 10 /\ a.rule.confidence >= MinRuleConfidence
    BY <1>5, <1>9 DEF Synthesis, GeneralizationAssumption
  <2>2. Counted(Tried(a)) /\ Known(Tried(a))
    BY <1>1, <1>6, <1>7, <1>9 DEF Earned, Counted, Known
  <2> QED  BY <1>4, <1>5, <1>7, <1>9, <2>1, <2>2, ActivateEarned
<1> QED  BY <1>8, <1>9

-----------------------------------------------------------------------------
(* A run of the consolidator against the file it read.                      *)

\* What the run made active is above the thresholds.
RunGated ==
    \A m \in Wordings :
        /\ wrules[m].status = "active"
        /\ rules[m].status \in {"none", "deprecated"} \/ rules[m].proposal
        => Gate(wrules[m])

RunKeeps ==
    \A m \in Wordings : Known(rules[m]) =>
        /\ Known(wrules[m])
        /\ rules[m].seen \subseteq wrules[m].seen /\ rules[m].linked \subseteq wrules[m].linked

MergedIntoActive(o) ==
    \E n \in Wordings : /\ wstm[o] = [status |-> "merged", rule |-> n]
                        /\ wrules[n].status = "active" /\ o \in wrules[n].linked

RunSettles ==
    \A m \in Wordings : rules[m].proposal /\ wrules[m].status = "active" =>
        \A o \in wrules[m].linked : stm[o].status = "under_review" => MergedIntoActive(o)

RunInv ==
    /\ RunGated /\ RunKeeps /\ RunSettles
    /\ todo \subseteq Obs /\ \A o \in todo : stm[o].status = "staged"
    /\ retry \subseteq {m \in Wordings : Waiting(wrules[m])}

RuleInv ==
    /\ batch \in DOMAIN Batches
    /\ rules \in [Wordings -> RuleRecord] /\ \A m \in Wordings : Earned(rules[m])
    /\ wrules \in [Wordings -> RuleRecord] /\ \A m \in Wordings : Earned(wrules[m])
    /\ at \in {"idle", "clusters", "write_rows"}
    /\ at = "clusters" => RunInv

\* What a run may make of a record, given some rows of a cluster.
Strengthens(old, r, cluster) ==
    /\ Earned(r)
    /\ Known(old) => /\ Known(r)
                     /\ old.seen \subseteq r.seen /\ old.linked \subseteq r.linked
                     /\ r.linked \subseteq old.linked \cup cluster
    /\ ~Known(old) => r.linked \subseteq cluster
    /\ old.status = "active" => r.status = "active" /\ r.confidence = old.confidence
    /\ old.status # "active" /\ r.status = "active" => Gate(r)

\* A record that is active stays above the thresholds.
LEMMA StrengthensGate ==
    ASSUME GeneralizationAssumption, NEW old, Earned(old), NEW r, NEW cluster,
           Strengthens(old, r, cluster), r.status = "active", old.status = "active" => Gate(old)
    PROVE  Gate(r)
<1>1. CASE old.status # "active"
  BY <1>1 DEF Strengthens
<1>2. CASE old.status = "active"
  <2>1. old.seen \subseteq r.seen /\ r.confidence = old.confidence /\ Earned(r) /\ Known(r)
    BY <1>2 DEF Strengthens, Known
  <2>2. ~r.proposal /\ Cardinality(r.seen) >= MinCases /\ Cardinality(r.seen) >= MinSources
    BY <2>1 DEF Earned, Counted
  <2> QED  BY <1>2, <2>1, <2>2 DEF Gate
<1> QED  BY <1>1, <1>2

\* A step of a run that strengthens one record, gives it rows of a cluster and,
\* when a proposal became active, settles the rows that were held for it.
LEMMA RunStep ==
    ASSUME GeneralizationAssumption, RuleInv, RunInv,
           NEW cluster \in SUBSET todo, NEW m \in Wordings, NEW r,
           Strengthens(wrules[m], r, cluster), NEW recovered \in BOOLEAN,
           recovered => r.status = "active",
           Known(wrules[m]) /\ wrules[m].status # "active" /\ r.status = "active" => recovered,
           wrules' = [wrules EXCEPT ![m] = r],
           \A o \in Obs : stm[o].status = "under_review" =>
               wstm'[o] = IF recovered /\ o \in r.linked THEN [status |-> "merged", rule |-> m]
                          ELSE wstm[o],
           UNCHANGED <<rules, stm>>
    PROVE  /\ RunGated' /\ RunKeeps' /\ RunSettles'
           /\ wrules' \in [Wordings -> RuleRecord] /\ \A n \in Wordings : Earned(wrules'[n])
<1>1. /\ r \in RuleRecord /\ Earned(r) /\ Earned(wrules[m])
      /\ wrules'[m] = r /\ \A n \in Wordings : n # m => wrules'[n] = wrules[n]
  BY DEF RuleInv, Strengthens, Earned, Counted
<1>2. /\ wrules' \in [Wordings -> RuleRecord] /\ \A n \in Wordings : Earned(wrules'[n])
  BY <1>1 DEF RuleInv
<1>3. RunGated'
  <2> SUFFICES ASSUME NEW n \in Wordings, wrules'[n].status = "active",
                      rules[n].status \in {"none", "deprecated"} \/ rules[n].proposal
               PROVE  Gate(wrules'[n])
    BY DEF RunGated, Gate
  <2>1. CASE n # m
    BY <1>1, <2>1 DEF RunInv, RunGated
  <2>2. CASE n = m
    <3>1. wrules[m].status = "active" => Gate(wrules[m])
      BY <2>2 DEF RunInv, RunGated
    <3> QED  BY <1>1, <2>2, <3>1, StrengthensGate
  <2> QED  BY <2>1, <2>2
<1>4. RunKeeps'
  <2>1. ASSUME NEW n \in Wordings, Known(rules[n])
        PROVE  /\ Known(wrules'[n])
               /\ rules[n].seen \subseteq wrules'[n].seen /\ rules[n].linked \subseteq wrules'[n].linked
    BY <1>1, <2>1 DEF RunInv, RunKeeps, Strengthens
  <2> QED  BY <2>1 DEF RunKeeps, Known
<1>5. \A n \in Wordings : wrules[n].status = "active" =>
          wrules'[n].status = "active" /\ wrules[n].linked \subseteq wrules'[n].linked
  BY <1>1 DEF Strengthens, Known
<1>6. \A o \in Obs : stm[o].status = "under_review" /\ MergedIntoActive(o) => MergedIntoActive(o)'
  <2> SUFFICES ASSUME NEW o \in Obs, stm[o].status = "under_review", MergedIntoActive(o)
               PROVE  MergedIntoActive(o)'
    OBVIOUS
  <2>1. CASE recovered /\ o \in r.linked
    BY <1>1, <2>1 DEF MergedIntoActive
  <2>2. CASE ~(recovered /\ o \in r.linked)
    <3>1. wstm'[o] = wstm[o]
      BY <2>2
    <3> QED  BY <1>5, <3>1 DEF MergedIntoActive
  <2> QED  BY <2>1, <2>2
<1>7. RunSettles'
  <2> SUFFICES ASSUME NEW n \in Wordings, rules[n].proposal, wrules'[n].status = "active",
                      NEW o \in wrules'[n].linked, stm[o].status = "under_review"
               PROVE  MergedIntoActive(o)'
    BY DEF RunSettles
  <2>0. o \in Obs /\ o \notin cluster
    BY <1>2 DEF RuleRecord, RunInv
  <2>1. CASE n # m
    BY <1>1, <1>6, <2>0, <2>1 DEF RunInv, RunSettles
  <2>2. CASE n = m /\ wrules[m].status = "active"
    <3>1. o \in wrules[m].linked
      BY <1>1, <2>0, <2>2 DEF Strengthens, Known
    <3> QED  BY <1>6, <2>0, <2>2, <3>1 DEF RunInv, RunSettles
  <2>3. CASE n = m /\ wrules[m].status # "active" /\ Known(wrules[m])
    <3>1. wstm'[o] = [status |-> "merged", rule |-> m]
      BY <1>1, <2>0, <2>3
    <3> QED  BY <1>1, <2>3, <3>1 DEF MergedIntoActive
  <2>4. CASE n = m /\ ~Known(wrules[m])
    BY <1>1, <2>0, <2>4 DEF Strengthens
  <2> QED  BY <2>1, <2>2, <2>3, <2>4
<1> QED  BY <1>2, <1>3, <1>4, <1>7

-----------------------------------------------------------------------------
(* The steps of a run.                                                      *)

\* What a step of a run brings about.
RunGoesOn ==
    /\ RunGated' /\ RunKeeps' /\ RunSettles'
    /\ wrules' \in [Wordings -> RuleRecord] /\ \A n \in Wordings : Earned(wrules'[n])

\* A record is given a cluster of rows that were staged when the run began.
LEMMA GivenGoesOn ==
    ASSUME GeneralizationAssumption, RuleInv, RunInv,
           NEW cluster \in SUBSET todo, NEW m \in Wordings, NEW r,
           Strengthens(wrules[m], r, cluster), NEW verified_, NEW existed,
           NEW recovered \in BOOLEAN, recovered => r.status = "active",
           Known(wrules[m]) /\ wrules[m].status # "active" /\ r.status = "active" => recovered,
           Given(cluster, m, r, verified_, existed, recovered),
           UNCHANGED <<rules, stm>>
    PROVE  RunGoesOn
<1>1. wrules' = [wrules EXCEPT ![m] = r]
  BY DEF Given
<1>2. \A o \in Obs : stm[o].status = "under_review" =>
          wstm'[o] = IF recovered /\ o \in r.linked THEN [status |-> "merged", rule |-> m]
                     ELSE wstm[o]
  BY DEF Given, Linked, Settled, RunInv
<1> QED  BY <1>1, <1>2, RunStep DEF RunGoesOn

\* Support, by itself or with a confidence that makes a proposal active.
LEMMA MergeStrengthens ==
    ASSUME GeneralizationAssumption, NEW r, Earned(r), Known(r),
           NEW cluster \in SUBSET Obs, NEW S \in SUBSET cluster, Independent(S)
    PROVE  Strengthens(r, MergeSupport(r, S), cluster)
<1> DEFINE merged == MergeSupport(r, S)
<1>1. /\ Earned(merged) /\ r.seen \subseteq merged.seen /\ r.linked \subseteq merged.linked
      /\ merged.linked \subseteq r.linked \cup S
      /\ merged.status = r.status /\ merged.confidence = r.confidence
  BY MergeEarned
<1>2. Strengthens(r, merged, cluster)
  <2> HIDE DEF merged
  <2> QED  BY <1>1 DEF Strengthens, Known
<1> QED  BY <1>2

LEMMA ActivateStrengthens ==
    ASSUME GeneralizationAssumption, NEW r, Earned(r), Known(r), r.status # "active",
           NEW cluster \in SUBSET Obs, NEW S \in SUBSET cluster, Independent(S),
           NEW rule \in Synthesis, rule.confidence >= MinRuleConfidence
    PROVE  LET active == Activate(MergeSupport(r, S), rule)
           IN  Strengthens(r, active, cluster) /\ active.status = "active"
<1> DEFINE merged == MergeSupport(r, S)
           active == Activate(merged, rule)
<1>1. /\ Earned(merged) /\ r.seen \subseteq merged.seen /\ r.linked \subseteq merged.linked
      /\ merged.linked \subseteq r.linked \cup S /\ Known(merged)
  BY MergeEarned DEF Known
<1> HIDE DEF merged
<1>2. /\ Earned(active) /\ Gate(active) /\ active.status = "active"
      /\ active.seen = merged.seen /\ active.linked = merged.linked
  BY <1>1, ActivateEarned DEF Earned
<1> HIDE DEF active
<1>3. Strengthens(r, active, cluster)
  BY <1>1, <1>2 DEF Strengthens, Known
<1> QED  BY <1>2, <1>3 DEF active, merged

LEMMA ReconsideredStrengthens ==
    ASSUME GeneralizationAssumption, batch \in DOMAIN Batches,
           NEW r, Earned(r), Waiting(r), NEW merged, Earned(merged), Waiting(merged),
           r.seen \subseteq merged.seen, r.linked \subseteq merged.linked, NEW cluster,
           merged.linked \subseteq r.linked \cup cluster,
           NEW force, NEW again \in Reconsidered(merged, force)
    PROVE  Strengthens(r, again, cluster) /\ (again.status # "active" => Waiting(again))
<1>1. /\ Earned(again) /\ again.seen = merged.seen /\ again.linked = merged.linked
      /\ (again.status = "active" /\ Gate(again)) \/ Waiting(again)
  BY ReconsideredEarned
<1> QED  BY <1>1 DEF Strengthens, Waiting, Known

LEMMA SourceRuleGoesOn ==
    ASSUME GeneralizationAssumption, RuleInv, RunInv, UNCHANGED <<rules, stm>>,
           NEW cluster \in SUBSET todo, NEW S \in SUBSET cluster, Independent(S),
           NEW m \in SourceRules(S), SupportSourceRule(cluster, S, m)
    PROVE  RunGoesOn /\ retry' \subseteq {n \in Wordings : Waiting(wrules'[n])}
<1> DEFINE r == wrules[m]
           merged == MergeSupport(r, S)
           active == r.status = "active" /\ ~r.proposal
<1>1. m \in Wordings /\ Known(r) /\ Earned(r) /\ cluster \in SUBSET Obs /\ wrules \in [Wordings -> RuleRecord]
  BY DEF SourceRules, RuleInv, RunInv
<1>2. active = (r.status = "active") /\ (~active /\ r.proposal <=> Waiting(r))
  BY <1>1 DEF Earned, Known, Waiting
<1>3. retry \subseteq {n \in Wordings : Waiting(wrules[n])}
  BY DEF RunInv
<1>4. CASE ~active /\ r.proposal /\ merged # r
  <2>1. PICK again \in Reconsidered(merged, FALSE) :
           /\ Given(cluster, m, again, again.status = "active", TRUE, again.status = "active")
           /\ retry' = retry \ {m}
    BY <1>4 DEF SupportSourceRule
  <2>2. /\ Earned(merged) /\ Waiting(merged) /\ r.seen \subseteq merged.seen
        /\ r.linked \subseteq merged.linked /\ merged.linked \subseteq r.linked \cup cluster
    BY <1>1, <1>2, <1>4, MergeEarned DEF Waiting
  <2>3. Strengthens(r, again, cluster)
    <3> HIDE DEF merged, r
    <3> QED  BY <1>1, <1>2, <1>4, <2>1, <2>2, ReconsideredStrengthens DEF RuleInv
  <2>4. RunGoesOn
    BY <1>1, <2>1, <2>3, GivenGoesOn
  <2>5. wrules' = [wrules EXCEPT ![m] = again]
    BY <2>1 DEF Given
  <2> QED  BY <1>1, <1>3, <2>1, <2>4, <2>5
<1>5. CASE ~(~active /\ r.proposal /\ merged # r)
  <2>1. Given(cluster, m, merged, active, TRUE, FALSE) /\ UNCHANGED retry
    BY <1>5 DEF SupportSourceRule
  <2>2. Strengthens(r, merged, cluster) /\ merged.status = r.status /\ merged.proposal = r.proposal
    BY <1>1, MergeStrengthens, MergeEarned
  <2>3. RunGoesOn
    <3> HIDE DEF merged, active
    <3> QED  BY <1>1, <2>1, <2>2, GivenGoesOn
  <2>4. wrules' = [wrules EXCEPT ![m] = merged]
    BY <2>1 DEF Given
  <2>5. \A n \in Wordings : Waiting(wrules[n]) => Waiting(wrules'[n])
    BY <1>1, <2>2, <2>4 DEF Waiting
  <2> QED  BY <1>3, <2>1, <2>3, <2>5
<1> QED  BY <1>4, <1>5

LEMMA NewRuleGoesOn ==
    ASSUME GeneralizationAssumption, RuleInv, RunInv, UNCHANGED <<rules, stm>>,
           NEW cluster \in SUBSET todo, NEW S \in SUBSET cluster, S # {}, Independent(S),
           Cardinality(S) >= MinCases, Cardinality(S) >= MinSources,
           SupportNewRule(cluster, S)
    PROVE  RunGoesOn /\ retry' \subseteq {n \in Wordings : Waiting(wrules'[n])}
<1>1. /\ batch \in DOMAIN Batches /\ cluster \in SUBSET Obs /\ S \in SUBSET Obs
      /\ retry \subseteq {n \in Wordings : Waiting(wrules[n])} /\ wrules \in [Wordings -> RuleRecord]
  BY DEF RuleInv, RunInv
<1>2. PICK attempt \in Attempts(Syntheses(S), S) :
        LET lesson == attempt.rule.lesson
            verified_ == attempt.reason = "none"
        IN  IF EquivalentRules(lesson) = {}
            THEN /\ Given(cluster, lesson, Proposed(attempt, cluster, S), verified_, FALSE, FALSE)
                 /\ retry' = IF verified_ THEN retry ELSE retry \ {lesson}
            ELSE \E m \in EquivalentRules(lesson) :
                   LET r == wrules[m]
                       recovered == verified_ /\ r.proposal
                       merged == MergeSupport(r, S)
                   IN  /\ Given(cluster, m, IF recovered THEN Activate(merged, attempt.rule) ELSE merged,
                                (r.status = "active" /\ ~r.proposal) \/ recovered, TRUE, recovered)
                       /\ retry' = IF recovered THEN retry \ {m} ELSE retry
  BY DEF SupportNewRule
<1> DEFINE lesson == attempt.rule.lesson
           good == attempt.reason = "none"
<1>3. /\ attempt.rule \in Synthesis /\ lesson \in Wordings
      /\ good => attempt.rule.confidence >= MinRuleConfidence
  <2>1. /\ attempt.rule \in Synthesis /\ lesson \in Wordings
        /\ good => ~(attempt.rule.confidence < MinRuleConfidence)
    BY <1>1, SynthesesType, AttemptGated
  <2> QED  BY <2>1 DEF Synthesis, GeneralizationAssumption
<1>4. CASE EquivalentRules(lesson) = {}
  <2> DEFINE r == Proposed(attempt, cluster, S)
  <2>1. Given(cluster, lesson, r, good, FALSE, FALSE)
        /\ retry' = IF good THEN retry ELSE retry \ {lesson}
    BY <1>2, <1>4
  <2>2. ~Known(wrules[lesson])
    BY <1>4 DEF EquivalentRules
  <2>3. Earned(r) /\ r.linked = cluster /\ (r.status = "active" => Gate(r))
    BY <1>1, ProposedEarned
  <2>4. Strengthens(wrules[lesson], r, cluster)
    <3> HIDE DEF r
    <3> QED  BY <2>2, <2>3 DEF Strengthens, Known
  <2>5. RunGoesOn
    <3> HIDE DEF r, lesson, good
    <3> QED  BY <1>3, <2>1, <2>2, <2>4, GivenGoesOn
  <2>6. wrules' = [wrules EXCEPT ![lesson] = r]
    BY <2>1 DEF Given
  <2>7. lesson \notin retry
    BY <1>1, <2>2 DEF Waiting, Known
  <2> HIDE DEF r
  <2> QED  BY <1>1, <1>3, <2>1, <2>5, <2>6, <2>7
<1>5. CASE EquivalentRules(lesson) # {}
  <2>1. PICK m \in EquivalentRules(lesson) :
          LET r == wrules[m]
              recovered == good /\ r.proposal
              merged == MergeSupport(r, S)
          IN  /\ Given(cluster, m, IF recovered THEN Activate(merged, attempt.rule) ELSE merged,
                       (r.status = "active" /\ ~r.proposal) \/ recovered, TRUE, recovered)
              /\ retry' = IF recovered THEN retry \ {m} ELSE retry
    BY <1>2, <1>5
  <2> DEFINE r == wrules[m]
             recovered == good /\ r.proposal
             merged == MergeSupport(r, S)
             next == IF recovered THEN Activate(merged, attempt.rule) ELSE merged
  <2>2. m \in Wordings /\ Known(r) /\ Earned(r)
    BY <1>3 DEF EquivalentRules, RuleInv
  <2>3. recovered \in BOOLEAN /\ (recovered => Waiting(r))
    BY <2>2 DEF Earned, Waiting, Known
  <2>4. Strengthens(r, next, cluster) /\ (IF recovered THEN next.status = "active"
                                          ELSE next.status = r.status /\ next.proposal = r.proposal)
    <3>1. CASE recovered
      <4>1. r.status # "active"
        BY <2>3, <3>1 DEF Waiting
      <4> HIDE DEF r
      <4> QED  BY <1>1, <1>3, <2>2, <3>1, <4>1, ActivateStrengthens
    <3>2. CASE ~recovered
      <4> HIDE DEF r
      <4> QED  BY <1>1, <2>2, <3>2, MergeStrengthens, MergeEarned
    <3> QED  BY <3>1, <3>2
  <2>5. /\ Given(cluster, m, next, (r.status = "active" /\ ~r.proposal) \/ recovered, TRUE, recovered)
        /\ retry' = IF recovered THEN retry \ {m} ELSE retry
    BY <2>1
  <2>6. RunGoesOn
    <3> HIDE DEF next, recovered
    <3> QED  BY <2>2, <2>3, <2>4, <2>5, GivenGoesOn
  <2>7. wrules' = [wrules EXCEPT ![m] = next]
    BY <2>5 DEF Given
  <2> HIDE DEF next, recovered
  <2>8. \A n \in retry' : Waiting(wrules'[n])
    BY <1>1, <2>2, <2>4, <2>5, <2>7 DEF Waiting
  <2> QED  BY <1>1, <2>5, <2>6, <2>8
<1> QED  BY <1>4, <1>5

\* One cluster of rows is generalized, or is too small.
LEMMA GeneralizeKeeps ==
    ASSUME GeneralizationAssumption, RuleInv, Generalize, UNCHANGED batch
    PROVE  RuleInv'
<1>1. at = "clusters" /\ RunInv /\ UNCHANGED <<rules, stm, at>>
  BY DEF Generalize, RuleInv
<1>2. PICK seed \in todo : \E T \in Selections(ClusterOf(seed)) :
        /\ todo' = todo \ ClusterOf(seed)
        /\ \/ \E m \in SourceRules(T) : SupportSourceRule(ClusterOf(seed), T, m)
           \/ /\ SourceRules(T) = {}
              /\ Cardinality(T) >= MinCases /\ Cardinality(T) >= MinSources
              /\ SupportNewRule(ClusterOf(seed), T)
           \/ /\ SourceRules(T) = {}
              /\ Cardinality(T) < MinCases \/ Cardinality(T) < MinSources
              /\ UNCHANGED <<wstm, wrules, retry>>
  BY DEF Generalize
<1>0. PICK S \in Selections(ClusterOf(seed)) :
        /\ todo' = todo \ ClusterOf(seed)
        /\ \/ \E m \in SourceRules(S) : SupportSourceRule(ClusterOf(seed), S, m)
           \/ /\ SourceRules(S) = {}
              /\ Cardinality(S) >= MinCases /\ Cardinality(S) >= MinSources
              /\ SupportNewRule(ClusterOf(seed), S)
           \/ /\ SourceRules(S) = {}
              /\ Cardinality(S) < MinCases \/ Cardinality(S) < MinSources
              /\ UNCHANGED <<wstm, wrules, retry>>
  BY <1>2
<1> DEFINE cluster == ClusterOf(seed)
<1>3. cluster \in SUBSET todo /\ cluster # {} /\ todo \subseteq Obs
  BY <1>1, ClusterOfTodo DEF RunInv
<1>4. S \in SUBSET cluster /\ S # {} /\ Independent(S)
  BY <1>3, SelectionSome
<1> HIDE DEF cluster
<1>5. RunGoesOn /\ retry' \subseteq {n \in Wordings : Waiting(wrules'[n])}
  <2>1. CASE \E m \in SourceRules(S) : SupportSourceRule(cluster, S, m)
    BY <1>1, <1>3, <1>4, <2>1, SourceRuleGoesOn
  <2>2. CASE /\ Cardinality(S) >= MinCases /\ Cardinality(S) >= MinSources
             /\ SupportNewRule(cluster, S)
    BY <1>1, <1>3, <1>4, <2>2, NewRuleGoesOn
  <2>3. CASE UNCHANGED <<wstm, wrules, retry>>
    <3>1. RunGated' /\ RunKeeps' /\ RunSettles'
      BY <1>1, <2>3 DEF RunInv, RunGated, RunKeeps, RunSettles, MergedIntoActive, Gate, Known
    <3> QED  BY <1>1, <2>3, <3>1 DEF RunGoesOn, RuleInv, RunInv, Waiting
  <2> QED  BY <1>0, <2>1, <2>2, <2>3 DEF cluster
<1>6. RunInv'
  BY <1>0, <1>1, <1>3, <1>5 DEF RunInv, RunGoesOn, Waiting
<1> QED  BY <1>1, <1>5, <1>6 DEF RuleInv, RunGoesOn

\* A proposal is tried again.
LEMMA RetryKeeps ==
    ASSUME GeneralizationAssumption, RuleInv, NEW m \in Wordings, Retry(m), UNCHANGED batch
    PROVE  RuleInv'
<1> DEFINE r == wrules[m]
<1>1. /\ at = "clusters" /\ RunInv /\ UNCHANGED <<rules, stm, at, todo>> /\ todo = {}
      /\ m \in retry /\ retry' = retry \ {m} /\ wrules \in [Wordings -> RuleRecord]
  BY DEF Retry, RuleInv
<1>2. PICK again \in Reconsidered(r, r.reason = "confidence_below_threshold") :
        /\ wrules' = [wrules EXCEPT ![m] = again]
        /\ wstm' = IF again.status = "active" THEN Settled(wstm, m, again) ELSE wstm
  BY DEF Retry
<1>3. Earned(r) /\ Waiting(r) /\ batch \in DOMAIN Batches
  BY <1>1 DEF RuleInv, RunInv
<1>4. Strengthens(r, again, {})
  <2> HIDE DEF r
  <2> QED  BY <1>2, <1>3, ReconsideredStrengthens
<1>5. \A o \in Obs : stm[o].status = "under_review" =>
          wstm'[o] = IF again.status = "active" /\ o \in again.linked
                     THEN [status |-> "merged", rule |-> m] ELSE wstm[o]
  BY <1>2 DEF Settled
<1>6. RunGoesOn
  <2>0. PICK recovered \in BOOLEAN : recovered <=> again.status = "active"
    OBVIOUS
  <2>1. /\ recovered => again.status = "active"
        /\ \A o \in Obs : stm[o].status = "under_review" =>
              wstm'[o] = IF recovered /\ o \in again.linked
                         THEN [status |-> "merged", rule |-> m] ELSE wstm[o]
        /\ Known(wrules[m]) /\ wrules[m].status # "active" /\ again.status = "active" => recovered
    BY <1>5, <2>0
  <2>2. {} \in SUBSET todo
    OBVIOUS
  <2>3. /\ RunInv /\ UNCHANGED <<rules, stm>> /\ wrules' = [wrules EXCEPT ![m] = again]
        /\ Strengthens(wrules[m], again, {})
    BY <1>1, <1>2, <1>4
  <2>4. /\ RunGated' /\ RunKeeps' /\ RunSettles'
        /\ wrules' \in [Wordings -> RuleRecord] /\ \A n \in Wordings : Earned(wrules'[n])
    BY <2>1, <2>2, <2>3, RunStep
  <2> QED  BY <2>4 DEF RunGoesOn
<1>7. retry' \subseteq {n \in Wordings : Waiting(wrules'[n])}
  BY <1>1, <1>2 DEF RunInv
<1>8. RunInv'
  BY <1>1, <1>6, <1>7 DEF RunInv, RunGoesOn, Waiting
<1> QED  BY <1>1, <1>6, <1>8 DEF RuleInv, RunGoesOn

LEMMA BeginKeeps ==
    ASSUME GeneralizationAssumption, RuleInv, BeginRun, UNCHANGED batch
    PROVE  RuleInv'
<1>1. /\ UNCHANGED <<rules, stm>> /\ wrules' = rules /\ at' = "clusters"
      /\ todo' \subseteq Obs /\ \A o \in todo' : stm[o].status = "staged"
      /\ retry' \in {{}, Proposals}
  BY DEF BeginRun
<1>2. RunGated' /\ RunKeeps' /\ RunSettles'
  BY <1>1 DEF RuleInv, RunGated, RunKeeps, RunSettles, Gate, Known, Earned, RuleRecord
<1>3. retry' \subseteq {n \in Wordings : Waiting(wrules'[n])}
  BY <1>1 DEF Proposals, Waiting
<1> QED  BY <1>1, <1>2, <1>3 DEF RuleInv, RunInv, Waiting

LEMMA RestKeeps ==
    ASSUME GeneralizationAssumption, RuleInv,
           WriteRules \/ WriteRows \/ Killed, UNCHANGED batch
    PROVE  RuleInv'
<1>1. CASE WriteRules
  BY <1>1 DEF WriteRules, RuleInv
<1>2. CASE WriteRows \/ Killed
  <2>1. /\ UNCHANGED rules /\ at' = "idle" /\ wrules' = [m \in Wordings |-> NoRule]
    BY <1>2 DEF WriteRows, Killed, Idle
  <2>2. Earned(NoRule) /\ NoRule \in RuleRecord
    BY NoRuleEarned DEF Earned, Counted
  <2> QED  BY <2>1, <2>2 DEF RuleInv
<1> QED  BY <1>1, <1>2

LEMMA ReviewKeeps ==
    ASSUME GeneralizationAssumption, RuleInv, NEW m \in Wordings, Review(m), UNCHANGED batch
    PROVE  RuleInv'
<1>1. PICK status \in {"active", "under_review", "deprecated"}, c \in Batch.confidences :
        /\ rules[m].proposal => status = "deprecated"
        /\ rules' = [rules EXCEPT ![m].status = status, ![m].confidence = c]
  BY DEF Review
<1>2. /\ at = "idle" /\ UNCHANGED <<at, wrules>> /\ Known(rules[m])
      /\ rules \in [Wordings -> RuleRecord] /\ Earned(rules[m])
  BY DEF Review, RuleInv
<1>3. c \in 0 .. 10
  BY DEF RuleInv, GeneralizationAssumption, Batch
<1> DEFINE r == [rules[m] EXCEPT !.status = status, !.confidence = c]
<1>4. r \in RuleRecord
  <2>1. rules[m] \in RuleRecord /\ status \in {"none", "active", "under_review", "deprecated"}
    BY <1>2
  <2> QED  BY <1>3, <2>1 DEF RuleRecord
<1>5. /\ r.status = status /\ r.proposal = rules[m].proposal /\ r.reason = rules[m].reason
      /\ r.cases = rules[m].cases /\ r.sources = rules[m].sources /\ r.support = rules[m].support
      /\ r.seen = rules[m].seen
  BY <1>2 DEF RuleRecord
<1>6. rules' = [rules EXCEPT ![m] = r]
  BY <1>1, <1>2
<1> HIDE DEF r
<1>7. Earned(r)
  BY <1>1, <1>2, <1>4, <1>5 DEF Earned, Counted, Known
<1> QED  BY <1>2, <1>4, <1>6, <1>7 DEF RuleInv

LEMMA RuleInitial == GeneralizationAssumption /\ RuleInit => RuleInv
<1> SUFFICES ASSUME GeneralizationAssumption, RuleInit PROVE RuleInv
  OBVIOUS
<1>1. Earned(NoRule) /\ NoRule \in RuleRecord
  BY NoRuleEarned DEF Earned, Counted
<1> QED  BY <1>1 DEF RuleInit, RuleInv

LEMMA RuleStep == GeneralizationAssumption /\ RuleInv /\ [RuleNext]_ruleVars => RuleInv'
<1> SUFFICES ASSUME GeneralizationAssumption, RuleInv, [RuleNext]_ruleVars PROVE RuleInv'
  OBVIOUS
<1>1. CASE UNCHANGED ruleVars
  BY <1>1 DEF ruleVars, RuleInv, RunInv, RunGated, RunKeeps, RunSettles, MergedIntoActive, Gate, Known, Waiting
<1>2. CASE RuleNext
  <2>1. ASSUME NEW o \in Obs, StageRow(o)  PROVE RuleInv'
    BY <1>2, <2>1 DEF StageRow, RuleInv, RuleNext
  <2> QED
    BY <1>2, <2>1, BeginKeeps, GeneralizeKeeps, RetryKeeps, RestKeeps, ReviewKeeps DEF RuleNext
<1> QED  BY <1>1, <1>2

LEMMA RuleInvariant ==
    ASSUME GeneralizationAssumption
    PROVE  RuleSpec => []RuleInv
<1>1. RuleInit => RuleInv
  BY RuleInitial
<1>2. RuleInv /\ [RuleNext]_ruleVars => RuleInv'
  BY RuleStep
<1> QED  BY <1>1, <1>2, PTL DEF RuleSpec

(***************************************************************************)
(* Whatever rows, wordings and confidences there are, however often rows   *)
(* are staged again and wherever runs are killed, a rule counts each case  *)
(* and each source once, and a proposal keeps the reason it is held for.   *)
(***************************************************************************)
THEOREM RulesAreJustified ==
    ASSUME GeneralizationAssumption
    PROVE  RuleSpec => []Justified
<1>1. ASSUME RuleInv, NEW m \in Wordings
      PROVE  /\ rules[m].support = Cardinality(rules[m].cases)
             /\ rules[m].support = Cardinality(rules[m].sources)
             /\ Independent(rules[m].seen)
             /\ rules[m].cases = {CaseOf[o] : o \in rules[m].seen}
             /\ rules[m].sources = {SourceOf[o] : o \in rules[m].seen}
             /\ rules[m].proposal <=> rules[m].reason # "none"
             /\ rules[m].status = "active" => ~rules[m].proposal
  <2>1. Earned(rules[m]) /\ rules[m].seen \in SUBSET Obs
    BY <1>1 DEF RuleInv, RuleRecord
  <2> QED  BY <2>1, IndependentSize DEF Earned, Counted
<1>2. RuleInv => Justified
  BY <1>1 DEF Justified, SupportIsIndependent, ProposalKeepsReason
<1>3. RuleSpec => []RuleInv
  BY RuleInvariant
<1> QED  BY <1>2, <1>3, PTL

(***************************************************************************)
(* No step makes a rule active below the thresholds, loses what a known    *)
(* rule rests on, or recovers a proposal and leaves a row that was held    *)
(* for it.                                                                 *)
(***************************************************************************)
THEOREM RulesOnlyStrengthen ==
    ASSUME GeneralizationAssumption
    PROVE  RuleSpec => RulesEvolve
<1> DEFINE Evolves == ActivatesAbove /\ KeepsSupport /\ SettlesHeld
<1>1. ASSUME RuleInv, WriteRules  PROVE Evolves
  <2>1. /\ RunGated /\ RunKeeps /\ RunSettles /\ rules' = wrules
    BY <1>1 DEF WriteRules, RuleInv, RunInv
  <2>2. ActivatesAbove
    BY <2>1 DEF ActivatesAbove, RunGated, Gate
  <2>3. KeepsSupport
    BY <2>1 DEF KeepsSupport, RunKeeps
  <2>4. SettlesHeld
    BY <2>1 DEF SettlesHeld, RunSettles, MergedIntoActive
  <2> QED  BY <2>2, <2>3, <2>4
<1>2. ASSUME RuleInv, NEW m \in Wordings, Review(m)  PROVE Evolves
  <2>1. PICK status \in {"active", "under_review", "deprecated"}, c \in Batch.confidences :
          /\ rules[m].proposal => status = "deprecated"
          /\ rules' = [rules EXCEPT ![m].status = status, ![m].confidence = c]
    BY <1>2 DEF Review
  <2>2. Known(rules[m]) /\ rules \in [Wordings -> RuleRecord]
    BY <1>2 DEF Review, RuleInv
  <2>3. /\ \A n \in Wordings : n # m => rules'[n] = rules[n]
        /\ rules'[m].status = status /\ rules'[m].proposal = rules[m].proposal
        /\ rules'[m].seen = rules[m].seen /\ rules'[m].linked = rules[m].linked
    BY <2>1, <2>2 DEF RuleRecord
  <2>4. \A n \in Wordings : rules[n].status = "active" => ~rules[n].proposal
    BY <1>2 DEF RuleInv, Earned
  <2>5. \A n \in Wordings :
           rules'[n].status = "active" =>
               rules[n].status \notin {"none", "deprecated"} /\ ~rules[n].proposal
    BY <2>1, <2>2, <2>3, <2>4 DEF Known
  <2>6. ActivatesAbove /\ SettlesHeld
    BY <2>5 DEF ActivatesAbove, SettlesHeld
  <2>7. KeepsSupport
    BY <2>3 DEF KeepsSupport
  <2> QED  BY <2>6, <2>7
<1>3. RuleInv /\ [RuleNext]_ruleVars => [Evolves]_rules
  <2> SUFFICES ASSUME RuleInv, [RuleNext]_ruleVars, rules' # rules PROVE Evolves
    OBVIOUS
  <2>1. WriteRules \/ \E m \in Wordings : Review(m)
    BY DEF RuleNext, ruleVars, StageRow, BeginRun, Generalize, Retry, WriteRows, Killed
  <2> QED  BY <1>1, <1>2, <2>1
<1>4. RuleSpec => []RuleInv
  BY RuleInvariant
<1> QED  BY <1>3, <1>4, PTL DEF RuleSpec, RulesEvolve
=============================================================================
