----------------------------- MODULE Reflection ------------------------------
(***************************************************************************)
(* What a finished case teaches: its failure modes are detected, an LLM is *)
(* asked once for lessons, each lesson becomes a candidate grounded in the *)
(* report, is verified and staged into short-term memory. A case may be    *)
(* reflected on again: reviewed by a human, or run again after a crash.    *)
(* Source: src/reflection/*.py, and the first stages of                    *)
(* src/memory/memory_verifier.py.                                          *)
(*                                                                         *)
(* Scores are percentages. The words that the classifier looks for in a    *)
(* reason or a flag are values. What comes after the first stages of the   *)
(* verifier (MemoryConsolidation) is any verdict.                          *)
(***************************************************************************)
EXTENDS Integers, Sequences, FiniteSets, SequencesExt, FiniteSetsExt

CONSTANTS
    Reports,       \* [case, split, status, confidence, evidence, subclaims]
    Golds,         \* the labels a case may be given, None among them
    Feedback,      \* what a human did, None among it: [edited: BOOLEAN]
    Answers,       \* what the LLM may say: [episodic, failures, semantic]
    None,
    MinConfidence, \* of the verifier, percent
    Top,           \* arguments that stand in for missing grounding: 3
    MaxReflections

ReflectionAssumption ==
    /\ None \in Golds /\ None \in Feedback /\ Top \in Nat /\ MaxReflections \in Nat
    /\ MinConfidence \in 0 .. 100

VARIABLES
    pc,
    report, gold, feedback, \* of the case that is reflected on
    modes,                  \* reflection.failure_modes
    candidates,             \* still to be verified: their order decides nothing
    verified,               \* the candidates that were
    memory,                 \* short_term_memory.jsonl: a function from ids to rows
    reflections

vars == <<pc, report, gold, feedback, modes, candidates, verified, memory, reflections>>

Init ==
    /\ pc = "idle" /\ report = None /\ gold = None /\ feedback = None /\ modes = {}
    /\ candidates = {} /\ verified = {} /\ memory = <<>> /\ reflections = 0

If(condition, mode) == IF condition THEN {mode} ELSE {}

-----------------------------------------------------------------------------
\* FailureClassifier.

Context == {"false_context", "out_of_context_cheapfake", "miscaptioned", "out_of_context"}
Manipulation == {"manipulated_or_synthetic", "manipulated", "synthetic", "fake_media"}

Confused(predicted, truth) ==
    \/ predicted \in Context /\ truth \in Manipulation
    \/ predicted \in Manipulation /\ truth \in Context

LabelModes(r, truth) ==
    IF truth = None THEN {}
    ELSE IF truth = r.status THEN If(r.confidence >= 70, "successful_strategy")
    ELSE {"final_label_mismatch"}
         \cup If(r.confidence >= 80, "overconfident_wrong_prediction")
         \cup If(Confused(r.status, truth), "context_authenticity_confusion")

EvidenceModes(r) ==
    LET items == ToSet(r.evidence)
        flags == UNION {item.flags : item \in items}
    IN  If(flags # {}, "tool_or_adapter_uncertainty")
        \cup If("tool_failed" \in flags, "retrieval_or_tool_failure")
        \cup If(/\ items # {}
                /\ \/ \A item \in items : ~item.provenance
                   \/ \A item \in items : item.reliability < 35, "weak_or_missing_provenance")

ClaimModes(r) ==
    UNION {If("clash" \in sub.reason, "unresolved_argument_clash")
           \cup If(sub.type = "when" /\ "publication" \in sub.reason, "temporal_publication_event_confusion")
           \cup If(sub.type = "where" /\ "camera" \in sub.reason, "camera_target_location_conflation")
           \cup If(\E a \in ToSet(sub.support) : a.evidence = {}, "ungrounded_supporting_argument") :
           sub \in ToSet(r.subclaims)}

HumanModes(human) ==
    IF human = None THEN {}
    ELSE {"human_feedback_available"} \cup If(human.edited, "human_rejection_or_edit")

Classify(r, truth, human) ==
    LabelModes(r, truth) \cup EvidenceModes(r) \cup ClaimModes(r) \cup HumanModes(human)

-----------------------------------------------------------------------------
\* LessonGenerator.

ValidEvidence(r) == {item.id : item \in ToSet(r.evidence)}

\* Every argument of the report with its claim's confidence, in order.
Arguments(r) ==
    FlattenSeq([i \in DOMAIN r.subclaims |->
        LET sub == r.subclaims[i]
            all == sub.support \o sub.attack
        IN  [j \in DOMAIN all |-> [id |-> all[j].id, evidence |-> all[j].evidence,
                                   weight |-> all[j].score * sub.confidence]]])

ValidArguments(r) == {a.id : a \in ToSet(Arguments(r))}

Places(r, id) == {i \in DOMAIN Arguments(r) : Arguments(r)[i].id = id}

\* An argument in two claims counts with the last of them, at the first place.
Argument(r, id) == Arguments(r)[Max(Places(r, id))]

\* The arguments that contributed most, whatever side they are on.
TopArguments(r) ==
    LET ahead(a, b) == \/ Argument(r, a).weight > Argument(r, b).weight
                       \/ /\ Argument(r, a).weight = Argument(r, b).weight
                          /\ Min(Places(r, a)) < Min(Places(r, b))
    IN  {id \in ValidArguments(r) : Cardinality({a \in ValidArguments(r) : ahead(a, id)}) < Top}

\* Mutant: what the answer names is taken as it is.
GroundingTrusted(r, lesson) ==
    [evidence |-> lesson.evidence, arguments |-> lesson.arguments, invented |-> FALSE]

\* Ids that are not in the report are dropped; if none is left, the arguments
\* that contributed most stand in, with their evidence.
Grounding(r, lesson) ==
    LET evidence == lesson.evidence \cap ValidEvidence(r)
        arguments == lesson.arguments \cap ValidArguments(r)
        invented == evidence # lesson.evidence \/ arguments # lesson.arguments
        linked == UNION {Argument(r, id).evidence : id \in TopArguments(r)}
    IN  IF evidence \cup arguments # {}
        THEN [evidence |-> evidence, arguments |-> arguments, invented |-> invented]
        ELSE [evidence |-> linked \cap ValidEvidence(r), arguments |-> TopArguments(r), invented |-> invented]

Supervision == IF feedback # None THEN "human_feedback"
               ELSE IF gold # None THEN "gold_label" ELSE "self_reflection"

\* What every candidate says of its case.
Candidate(id, type, kind, text, lesson, confidence) ==
    LET g == Grounding(report, lesson)
    IN  [id |-> id, type |-> type, kind |-> kind, text |-> text, case |-> report.case,
         split |-> report.split, evidence |-> g.evidence, arguments |-> g.arguments,
         confidence |-> confidence, supervision |-> Supervision, invented |-> g.invented,
         status |-> IF g.invented THEN "under_review" ELSE "pending"]

NoLesson == [text |-> "default", confidence |-> 60, evidence |-> {}, arguments |-> {}]

Correct == gold # None /\ gold = report.status

\* The name of an observation is its text.
EpisodicCandidate(lesson) ==
    Candidate(<<report.case, "episodic", lesson.text>>, "episodic", None, lesson.text, lesson,
              IF Correct THEN Max({lesson.confidence, report.confidence}) ELSE lesson.confidence)

\* The name of a failure lesson is its type and its place in the answer.
FailureCandidate(lesson, index) ==
    Candidate(<<report.case, "failure", lesson.kind, index>>, "failure", lesson.kind, lesson.text,
              lesson, lesson.confidence)

SemanticCandidate(lesson) ==
    Candidate(<<report.case, "semantic", lesson.text>>, "semantic_rule", None, lesson.text, lesson,
              lesson.confidence)

\* The answer could not be read: one observation, held for review.
FallbackEpisodic ==
    [Candidate(<<report.case, "episodic_fallback">>, "episodic", None, "default", NoLesson,
               Min({60, report.confidence})) EXCEPT !.status = "under_review"]

\* Mutant: a lesson about a failure that did not happen is kept.
FailuresAll(answer) ==
    {FailureCandidate(answer.failures[i], i) : i \in DOMAIN answer.failures}

\* Only failures that the classifier found; each keeps its place in the answer.
Failures(answer) ==
    {FailureCandidate(answer.failures[i], i) :
        i \in {j \in DOMAIN answer.failures : answer.failures[j].kind \in modes}}

IsGeneralizable(lesson) == lesson.pattern /\ lesson.trigger /\ lesson.action

FromAnswer(answer) ==
    {EpisodicCandidate(IF answer.episodic = None THEN NoLesson ELSE answer.episodic)}
    \cup Failures(answer)
    \cup (IF answer.semantic # None /\ IsGeneralizable(answer.semantic)
          THEN {SemanticCandidate(answer.semantic)} ELSE {})

-----------------------------------------------------------------------------
\* ReflectionAgent.reflect.

\* What a call of reflect kept is gone with it.
Forgotten ==
    /\ pc' = "idle" /\ report' = None /\ gold' = None /\ feedback' = None /\ modes' = {}
    /\ candidates' = {} /\ verified' = {}

Begin ==
    /\ pc = "idle" /\ reflections < MaxReflections
    /\ report' \in Reports /\ gold' \in Golds /\ feedback' \in Feedback
    /\ modes' = Classify(report', gold', feedback')
    /\ reflections' = reflections + 1
    /\ pc' = "generate"
    /\ UNCHANGED <<candidates, verified, memory>>

\* One call of the LLM: an answer, or none that can be read.
Generate ==
    /\ pc = "generate"
    /\ \/ \E answer \in Answers : candidates' = FromAnswer(answer)
       \/ candidates' = {FallbackEpisodic}
    /\ verified' = {}
    /\ pc' = "verify"
    /\ UNCHANGED <<report, gold, feedback, modes, memory, reflections>>

NonTraining == {"validation", "val", "dev", "test", "test_hidden"}

\* Mutant: a candidate that came flagged is verified like any other.
VerdictsUnflagged(c) ==
    IF c.split \in NonTraining THEN {"rejected"} ELSE {"verified", "rejected", "under_review"}

\* Mutant: what the generator flagged is held, whatever its split.
VerdictsAnySplit(c) ==
    IF c.status = "under_review" THEN {"under_review"} ELSE {"verified", "rejected", "under_review"}

\* MemoryVerifier: the split, the flag of the generator, the grounding and the
\* confidence; what then decides is MemoryConsolidation's.
Verdicts(c) ==
    IF c.split \in NonTraining THEN {"rejected"}
    ELSE IF c.status = "under_review" THEN {"under_review"}
    ELSE IF c.evidence = {} /\ c.arguments = {} THEN {"rejected", "under_review"}
    ELSE IF c.evidence \ ValidEvidence(report) # {} \/ c.arguments \ ValidArguments(report) # {}
    THEN {"under_review"}
    ELSE IF c.confidence < MinConfidence THEN {"rejected"}
    ELSE {"verified", "rejected", "under_review"}

Verify ==
    /\ pc = "verify"
    /\ \E c \in candidates : \E verdict \in Verdicts(c) :
          /\ verified' = verified \cup {[c EXCEPT !.status = verdict]}
          /\ candidates' = candidates \ {c}
    /\ UNCHANGED <<pc, report, gold, feedback, modes, memory, reflections>>

\* Mutant: a row that consolidation has used is written over.
TerminalNever(id) == FALSE

Terminal(id) == id \in DOMAIN memory /\ memory[id].status = "promoted"

\* MemoryConsolidator.apply: the rejected are left out; a row that consolidation
\* has used stays as it is.
Stage ==
    /\ pc = "verify" /\ candidates = {}
    /\ LET kept == {c \in verified : c.status # "rejected"}
           ids == {c.id : c \in kept}
       IN  memory' = [id \in DOMAIN memory \cup ids |->
                         IF id \in ids /\ ~Terminal(id) THEN CHOOSE c \in kept : c.id = id
                         ELSE memory[id]]
    /\ Forgotten
    /\ UNCHANGED reflections

\* Consolidation between two reflections uses a verified row.
Promote ==
    /\ pc = "idle"
    /\ \E id \in DOMAIN memory :
          /\ memory[id].status = "verified"
          /\ memory' = [memory EXCEPT ![id].status = "promoted"]
    /\ UNCHANGED <<pc, report, gold, feedback, modes, candidates, verified, reflections>>

\* The process ends; the case is run and reflected on again.
Crash ==
    /\ pc # "idle"
    /\ Forgotten
    /\ UNCHANGED <<memory, reflections>>

Next == Begin \/ Generate \/ Verify \/ Stage \/ Promote \/ Crash

Spec == Init /\ [][Next]_vars

-----------------------------------------------------------------------------
Rows == {memory[id] : id \in DOMAIN memory}
Trusted == {row \in Rows : row.status \in {"verified", "promoted"}}
ReportsOf(case) == {r \in Reports : r.case = case}

(***************************************************************************)
(* Whatever the LLM answers, and whoever reviewed the case in between, a   *)
(* row of memory points to evidence and arguments of its own case only.    *)
(***************************************************************************)
GroundedInCase ==
    \A row \in Rows :
        /\ row.evidence \subseteq UNION {ValidEvidence(r) : r \in ReportsOf(row.case)}
        /\ row.arguments \subseteq UNION {ValidArguments(r) : r \in ReportsOf(row.case)}

(***************************************************************************)
(* A lesson that named what is not in the report is never trusted, also    *)
(* when other grounding was found for it: a person looks at it first.      *)
(***************************************************************************)
InventedNeverTrusted == \A row \in Trusted : ~row.invented

(***************************************************************************)
(* A failure lesson in memory is about a failure that the classifier finds *)
(* in a report of the case, not about one that only the LLM claims.        *)
(***************************************************************************)
KindsFound ==
    [case \in {r.case : r \in Reports} |->
        UNION {Classify(r, truth, human) : r \in ReportsOf(case), truth \in Golds, human \in Feedback}]

FailuresHappened == \A row \in Rows : row.type = "failure" => row.kind \in KindsFound[row.case]

(***************************************************************************)
(* A case of validation or test teaches nothing, held rows included.       *)
(***************************************************************************)
OnlyTraining == \A row \in Rows : row.split \notin NonTraining

(***************************************************************************)
(* What is staged is grounded: it points to evidence and arguments of its  *)
(* case only, is not trusted when it named others, tells of failures that  *)
(* the classifier found, and comes from a case of training                 *)
(* (reflex_agent.py:28-82).                                                *)
(***************************************************************************)
LessonsGrounded ==
    GroundedInCase /\ InventedNeverTrusted /\ FailuresHappened /\ OnlyTraining

(***************************************************************************)
(* Reflecting on a case again does not take back what consolidation        *)
(* already used: its row stays as it was promoted.                         *)
(***************************************************************************)
PromotedStays ==
    [][\A id \in DOMAIN memory : memory[id].status = "promoted" => memory'[id] = memory[id]]_memory
=============================================================================
