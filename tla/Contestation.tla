---------------------------- MODULE Contestation ----------------------------
(***************************************************************************)
(* Human review of the arguments of a case: a batch of contestations is    *)
(* applied, routed to a stage of the pipeline, and the stage is run again  *)
(* for the claims it affects.  Sources: src/contestation/ and the part of  *)
(* src/main.py that calls it.                                              *)
(***************************************************************************)
EXTENDS Naturals, Sequences, FiniteSets, FiniteSetsExt

CONSTANTS
    Settings,           \* name -> what a case may be and may be asked, see setting
    Drafts,             \* what a generator may argue: records [text, ev]
    Evidence,           \* evidence ids
    Found,              \* those that only deep research finds
    MaxDrafts           \* bound: arguments generated for a claim

StepOrder == <<"claim_decomposition", "evidence_retrieval", "evidence_validation",
               "argument_construction", "qbaf_reasoning", "final_aggregation",
               "report_generation">>
Stages == {StepOrder[i] : i \in DOMAIN StepOrder}

ReviewAssumption ==
    /\ Found \subseteq Evidence
    /\ Drafts \subseteq [text : STRING, ev : SUBSET Evidence]
    /\ \A s \in DOMAIN Settings :
         /\ Settings[s].targets \subseteq Stages /\ Settings[s].adaptive \subseteq BOOLEAN
         /\ Settings[s].rounds \in Nat \ {0}

VARIABLES
    claims,      \* claim id -> wording (a number that grows when it changes)
    evidence,    \* ids of the normalized evidence
    excluded,    \* evidence marked excluded_by_human
    args,        \* arguments, reviewed as far as the batch has been applied
    original,    \* arguments when the batch arrived
    plan,        \* what the router has gathered
    phase,       \* "review" while a batch is applied, "reported" after a rerun
    round,       \* batches so far
    graph,       \* arguments in the QBAF graphs of the last report
    setting      \* name of the case and its configuration

vars == <<claims, evidence, excluded, args, original, plan, phase, round, graph, setting>>

\* Ids of the claims the case came with, and those the decomposer gives, one per
\* claim type.
BundleClaims == Settings[setting].bundle
DecomposedClaims == Settings[setting].decomposed

\* Values of metadata.revision_target in use, and of the feature flag.
ExplicitTargets == Settings[setting].targets
AdaptiveRevision == Settings[setting].adaptive

\* Bounds: contestations of a batch, reviews of the case.
MaxContestations == Settings[setting].contestations
MaxRounds == Settings[setting].rounds

NoId == [claim |-> "none", text |-> "none", tags |-> <<>>]
NoTarget == "none"

\* The id of a generated argument is a hash of its claim and text; a human
\* edit and a rerun append a suffix to an id.
GeneratedId(c, text) == [claim |-> c, text |-> text, tags |-> <<>>]
Suffixed(id, kind, n) == [id EXCEPT !.tags = Append(@, <<kind, n>>)]
FreshId(id, kind, taken) ==
    Suffixed(id, kind,
             CHOOSE n \in 1 .. Cardinality(taken) + 1 :
                /\ Suffixed(id, kind, n) \notin taken
                /\ \A m \in 1 .. n - 1 : Suffixed(id, kind, m) \in taken)

Ids(arguments) == {a.id : a \in arguments}
ClaimIds == DOMAIN claims
Named(arguments, id) == {a \in arguments : a.id = id}

Generated(c, draft) ==
    [id |-> GeneratedId(c, draft.text), claim |-> c, text |-> draft.text, ev |-> draft.ev,
     status |-> "unreviewed", original |-> NoId, verified |-> TRUE]

\* repair_evidence_ids: ids that are not on the claim's list are dropped; when
\* none is left, the nearest item of the list may be assigned.
Repaired(ev, usable) ==
    IF ev \cap usable # {} THEN {ev \cap usable} ELSE {{}} \cup {{e} : e \in usable}

\* Sets of arguments a generator may return for a claim.
Generations(c, usable) ==
    {{Generated(c, d) : d \in ds} :
        ds \in {s \in SUBSET UNION {{[d EXCEPT !.ev = ev] : ev \in Repaired(d.ev, usable)} : d \in Drafts} :
                 /\ Cardinality(s) <= MaxDrafts
                 /\ \A d, e \in s : d.text = e.text => d = e}}

NoPlan == [targets |-> {}, args |-> {}, claims |-> {}, ev |-> {}, rejectedEv |-> {}, size |-> 0]

-----------------------------------------------------------------------------
\* Routing.

Earliest(targets) ==
    IF targets = {} THEN "report_generation"
    ELSE StepOrder[Min({i \in DOMAIN StepOrder : StepOrder[i] \in targets})]

ReasonTarget(reason) ==
    CASE reason = "retrieval error"  -> "evidence_retrieval"
      [] reason = "wrong evidence"   -> "evidence_validation"
      [] reason = "other"            -> "argument_construction"

\* target_for_contestation: an explicit target wins over what is inferred.
Target(explicit, inferred) == IF explicit = NoTarget THEN inferred ELSE explicit

TargetOfEdit(id, edited) ==
    LET known == UNION {a.ev : a \in Named(original, id)}
    IN  IF edited \subseteq known THEN "argument_construction" ELSE "evidence_retrieval"

TargetOfAddition(added) ==
    IF added \subseteq evidence \cup UNION {a.ev : a \in original}
    THEN "argument_construction" ELSE "evidence_retrieval"

\* What route_revision gathers from one contestation of an argument; it looks
\* arguments up as they were when the batch arrived.
Routed(id, target, moreEv) ==
    [plan EXCEPT !.targets = @ \cup {target},
                 !.args = @ \cup {id},
                 !.claims = @ \cup {a.claim : a \in Named(original, id)},
                 !.ev = @ \cup moreEv \cup UNION {a.ev : a \in Named(original, id)},
                 !.size = @ + 1]

-----------------------------------------------------------------------------
\* The batch: one action per contestation, in the order of the batch.

Contesting == phase = "review" /\ plan.size < MaxContestations

Marked(id, status) ==
    {IF a.id = id THEN [a EXCEPT !.status = status] ELSE a : a \in args}

Accept(id) ==
    /\ Contesting
    /\ \E explicit \in ExplicitTargets \cup {NoTarget} :
         plan' = Routed(id, Target(explicit, "qbaf_reasoning"), {})
    /\ args' = Marked(id, "accepted")
    /\ UNCHANGED <<claims, evidence, excluded, original, phase, round, graph>>

Reject(id, reason) ==
    /\ Contesting
    /\ \E explicit \in ExplicitTargets \cup {NoTarget} :
         LET target == Target(explicit, ReasonTarget(reason))
         IN  plan' = [Routed(id, target, {}) EXCEPT
                        !.rejectedEv = @ \cup IF target = "evidence_validation"
                                              THEN UNION {a.ev : a \in Named(original, id)}
                                              ELSE {}]
    /\ args' = Marked(id, "rejected")
    /\ UNCHANGED <<claims, evidence, excluded, original, phase, round, graph>>

\* The edited argument stays, marked, and a replacement with a new id follows it.
Replacement(a, draft) ==
    [a EXCEPT !.id = FreshId(a.id, "human", Ids(args)), !.text = draft.text, !.ev = draft.ev,
              !.status = "edited", !.original = a.id, !.verified = FALSE]

Edit(id, draft) ==
    /\ Contesting
    /\ \E explicit \in ExplicitTargets \cup {NoTarget} :
         plan' = Routed(id, Target(explicit, TargetOfEdit(id, draft.ev)), draft.ev)
    /\ args' = Marked(id, "edited") \cup {Replacement(a, draft) : a \in Named(args, id)}
    /\ UNCHANGED <<claims, evidence, excluded, original, phase, round, graph>>

Added(c, draft) ==
    [id |-> FreshId(GeneratedId(c, "contestation"), "added", Ids(args)), claim |-> c,
     text |-> draft.text, ev |-> draft.ev, status |-> "added", original |-> NoId,
     verified |-> FALSE]

Add(c, draft) ==
    /\ Contesting
    /\ \E explicit \in ExplicitTargets \cup {NoTarget} :
         plan' = [plan EXCEPT !.targets = @ \cup {Target(explicit, TargetOfAddition(draft.ev))},
                              !.claims = @ \cup {c}, !.ev = @ \cup draft.ev, !.size = @ + 1]
    /\ args' = args \cup {Added(c, draft)}
    /\ UNCHANGED <<claims, evidence, excluded, original, phase, round, graph>>

Contest ==
    \/ \E id \in Ids(args) : Accept(id)
    \/ \E id \in Ids(args), reason \in {"retrieval error", "wrong evidence", "other"} :
         Reject(id, reason)
    \/ \E id \in Ids(args), draft \in Drafts : Edit(id, draft)
    \/ \E c \in ClaimIds, draft \in Drafts : Add(c, draft)

-----------------------------------------------------------------------------
\* The rerun.

\* Mutant: whatever a later version points at is left out, accepted or not.
IncludedByLineage(arguments) ==
    {a \in arguments :
        a.status # "rejected" /\ ~ \E b \in arguments : b.original = a.id}

\* filter_arguments_for_qbaf: what is rejected or was replaced is left out.
Included(arguments) ==
    {a \in arguments :
        /\ a.status # "rejected"
        /\ ~ /\ a.status = "edited"
             /\ a.original = NoId
             /\ \E b \in arguments : b.original = a.id}

\* The QBAF graphs hold the arguments of the claims of the case.
GraphOf(arguments, claimIds) == {a \in Included(arguments) : a.claim \in claimIds}

\* Mutant: the evidence of the plan does not reach the claims that cite it.
AffectedByIds ==
    plan.claims \cup {a.claim : a \in {b \in args : b.id \in plan.args}}

\* affected_claim_ids_from_plan; the claims that are still claims of the case.
AffectedClaims ==
    LET affected == plan.claims
                    \cup {a.claim : a \in {b \in args : b.id \in plan.args}}
                    \cup {a.claim : a \in {b \in args : b.ev \cap plan.ev # {}}}
    IN  IF affected = {} THEN ClaimIds ELSE affected

\* Mutant: additions are not verified again.
VerifiedAccepted(arguments, affected) ==
    {IF a.claim \in affected /\ a.status \in {"accepted", "edited"}
     THEN [a EXCEPT !.verified = TRUE] ELSE a : a \in arguments}

\* verify_and_score_human_reviewed_arguments.
VerifiedReviewed(arguments, affected) ==
    {IF a.claim \in affected /\ a.status \in {"accepted", "edited", "added"}
     THEN [a EXCEPT !.verified = TRUE] ELSE a : a \in arguments}

\* Mutant: every generated argument makes room for the regenerated ones.
MergedEverywhere(reviewed, regenerated, affected) ==
    {a \in reviewed : a.status # "unreviewed"} \cup regenerated

\* Mutant: a regenerated argument takes the place of one with its id.
MergedById(reviewed, regenerated, affected) ==
    {a \in reviewed : (a.claim \notin affected \/ a.status # "unreviewed")
                        /\ a.id \notin Ids(regenerated)} \cup regenerated

\* merge_arguments_after_rerun: a regenerated argument whose id is taken gets
\* another one.
Merged(reviewed, regenerated, affected) ==
    LET kept == {a \in reviewed : a.claim \notin affected \/ a.status # "unreviewed"}
    IN  kept \cup {IF a.id \in Ids(kept) THEN [a EXCEPT !.id = FreshId(a.id, "rerun", Ids(kept))]
                   ELSE a : a \in regenerated}

Report(arguments, claimIds) ==
    /\ args' = arguments
    /\ graph' = GraphOf(arguments, claimIds)
    /\ phase' = "reported"
    /\ UNCHANGED <<original, plan, round>>

\* Only the graphs and the report are computed again: an acceptance, a later
\* stage, or adaptive revision is off.
RerunReasoning(adaptive) ==
    /\ ~adaptive \/ Earliest(plan.targets) \in
                        {"qbaf_reasoning", "final_aggregation", "report_generation"}
    /\ excluded' = IF adaptive THEN excluded \cup plan.rejectedEv ELSE excluded
    /\ Report(args, ClaimIds)
    /\ UNCHANGED <<claims, evidence>>

\* Arguments of the affected claims are generated again from the evidence that
\* is not excluded, and merged with those the human reviewed.
Regenerate(affected, known) ==
    \E choice \in [affected \cap ClaimIds -> UNION {Generations(c, known \ excluded') : c \in affected \cap ClaimIds}] :
        /\ \A c \in affected \cap ClaimIds : choice[c] \in Generations(c, known \ excluded')
        /\ Report(Merged(VerifiedReviewed(args, affected \cap ClaimIds),
                         UNION {choice[c] : c \in affected \cap ClaimIds}, affected), ClaimIds)

RerunArguments ==
    /\ Earliest(plan.targets) \in {"argument_construction", "evidence_validation"}
    /\ excluded' = excluded \cup plan.rejectedEv
    /\ Regenerate(AffectedClaims, evidence)
    /\ UNCHANGED <<claims, evidence>>

RerunRetrieval ==
    /\ Earliest(plan.targets) = "evidence_retrieval"
    /\ excluded' = excluded \cup plan.rejectedEv
    /\ \E found \in SUBSET Found :
        /\ evidence' = evidence \cup found
        /\ Regenerate(AffectedClaims, evidence')
    /\ UNCHANGED claims

\* The decomposer words the claims anew; arguments of claims that are worded
\* as before are kept, those of the others are generated.
RerunDecomposition ==
    /\ Earliest(plan.targets) = "claim_decomposition"
    /\ excluded' = excluded \cup plan.rejectedEv
    /\ \E reworded \in SUBSET (DecomposedClaims \cap ClaimIds), found \in SUBSET Found :
         LET changed == reworded \cup (DecomposedClaims \ ClaimIds) IN
         /\ claims' = [c \in DecomposedClaims |->
                         IF c \notin ClaimIds THEN 0
                         ELSE IF c \in reworded THEN claims[c] + 1 ELSE claims[c]]
         /\ evidence' = evidence \cup found
         /\ \E choice \in [changed -> UNION {Generations(c, evidence' \ excluded') : c \in changed}] :
              /\ \A c \in changed : choice[c] \in Generations(c, evidence' \ excluded')
              /\ Report({a \in args : a.claim \in DecomposedClaims \ changed}
                          \cup UNION {choice[c] : c \in changed}, DecomposedClaims)

Rerun ==
    /\ phase = "review" /\ plan.size > 0
    /\ \E adaptive \in AdaptiveRevision :
        \/ RerunReasoning(adaptive)
        \/ adaptive /\ RerunArguments
        \/ adaptive /\ RerunRetrieval
        \/ adaptive /\ RerunDecomposition

\* run_from_step: a later review starts from the trace of the reported case,
\* which still lists the claims of the first decomposition.
ReviewAgain ==
    /\ phase = "reported" /\ round < MaxRounds
    /\ phase' = "review" /\ round' = round + 1
    /\ claims' = [c \in BundleClaims |-> 0]
    /\ original' = args
    /\ plan' = NoPlan
    /\ UNCHANGED <<evidence, excluded, args, graph>>

Init ==
    /\ setting \in DOMAIN Settings
    /\ claims = [c \in BundleClaims |-> 0]
    /\ evidence = Evidence \ Found
    /\ excluded = {}
    /\ \E choice \in [BundleClaims -> {s \in SUBSET Drafts : Cardinality(s) <= MaxDrafts}] :
         args = UNION {{Generated(c, d) : d \in choice[c]} : c \in BundleClaims}
    /\ \A a, b \in args : a.id = b.id => a = b
    /\ \A a \in args : a.ev \cap Found = {}
    /\ original = args
    /\ plan = NoPlan
    /\ phase = "review" /\ round = 1
    /\ graph = GraphOf(args, BundleClaims)

Next == (Contest \/ Rerun \/ ReviewAgain) /\ UNCHANGED setting

Spec == Init /\ [][Next]_vars

-----------------------------------------------------------------------------
\* What must hold.

Reruns == phase = "review" /\ phase' = "reported"
Reworded(c) == c \notin DOMAIN claims' \/ c \notin ClaimIds \/ claims'[c] # claims[c]

\* A rerun leaves the arguments of a claim alone when nothing of the batch
\* concerns it: no contested argument, no added argument, no evidence of
\* theirs, and the claim is worded as before (README.md:194-197).
KeepsUnaffected ==
    Reruns => \A c \in ClaimIds :
          \/ Reworded(c)
          \/ c \in plan.claims
          \/ \E a \in args : a.claim = c /\ (a.id \in plan.args \/ a.ev \cap plan.ev # {})
          \/ {a \in args' : a.claim = c} = {a \in args : a.claim = c}

\* Whatever stage is run again, each argument a human reviewed is still there
\* afterwards, with its status, under its id, unless its claim was reworded
\* (adaptive_revision_executor.py:77-79).
KeepsReviewed ==
    Reruns => \A a \in args :
          a.status = "unreviewed" \/ Reworded(a.claim)
          \/ \E b \in args' : [b EXCEPT !.verified = a.verified] = a

\* What a rerun keeps, whatever was contested.
RerunKeeps == [][KeepsUnaffected /\ KeepsReviewed]_vars

\* An argument the human confirmed takes part in the reasoning of its claim
\* (README.md:145).
AcceptedTakesPart ==
    phase = "reported" =>
        \A a \in args : a.status = "accepted" /\ a.claim \in ClaimIds => a \in graph

\* No generated argument rests on evidence the human rejected
\* (test_adaptive_rerun.py:91-114).
RejectedEvidenceUnused ==
    phase = "reported" =>
        \A a \in graph : a.status = "unreviewed" => a.ev \cap excluded = {}

\* A contestation may name any stage, that which decomposes the case included;
\* claims that are worded as before then keep their arguments as they are.
MayDecompose == "claim_decomposition" \in ExplicitTargets

\* The report reflects what the human decided.
ReportReflectsReview == AcceptedTakesPart /\ (~MayDecompose => RejectedEvidenceUnused)

\* The first report after a review rests on no human edit or addition that was
\* not verified, when the batch was routed to the arguments or to the evidence
\* (adaptive_revision_executor.py:148-192, test_adaptive_rerun.py:314-371).
ReportsVerified ==
    Reruns /\ round = 1 /\ AdaptiveRevision = {TRUE}
           /\ Earliest(plan.targets) \in {"argument_construction", "evidence_validation",
                                          "evidence_retrieval"}
       => \A a \in graph' : a.verified
ReviewedIsVerified == [][ReportsVerified]_vars

-----------------------------------------------------------------------------
\* Why it holds.

IsArgument(a) ==
    /\ a = [id |-> a.id, claim |-> a.claim, text |-> a.text, ev |-> a.ev,
            status |-> a.status, original |-> a.original, verified |-> a.verified]
    /\ a.status \in {"unreviewed", "accepted", "rejected", "edited", "added"}
    /\ a.verified \in BOOLEAN

TypeOK ==
    /\ setting \in DOMAIN Settings
    /\ claims \in [ClaimIds -> Nat]
    /\ \A a \in args : IsArgument(a)
    /\ plan = [targets |-> plan.targets, args |-> plan.args, claims |-> plan.claims,
               ev |-> plan.ev, rejectedEv |-> plan.rejectedEv, size |-> plan.size]
    /\ plan.size \in Nat
    /\ phase \in {"review", "reported"} /\ round \in 1 .. MaxRounds

\* Claims that the batch itself concerns.
Concerned == plan.claims \cup {a.claim : a \in {b \in args : b.id \in plan.args}}

\* What the router gathers while a batch is applied.
PlanInvariant ==
    phase = "review" =>
        /\ ClaimIds = BundleClaims
        /\ plan.targets \subseteq Stages
        /\ plan.rejectedEv \subseteq plan.ev
        /\ plan.rejectedEv # {} => "evidence_validation" \in plan.targets
        /\ ~MayDecompose => "claim_decomposition" \notin plan.targets
        /\ plan.size > 0 => Concerned # {}

\* Human text that nobody verified is in a claim that the batch concerns.
UnverifiedInvariant ==
    phase = "review" /\ round = 1 =>
        \A a \in args : a.claim \in BundleClaims /\ (a.verified \/ a.claim \in Concerned)

\* What is generated rests on nothing that was rejected; the graphs are those of
\* the arguments that are reported.
ReportInvariant ==
    /\ ~MayDecompose => \A a \in args : a.status = "unreviewed" => a.ev \cap excluded = {}
    /\ phase = "reported" => graph = GraphOf(args, ClaimIds)

ReviewInvariant == TypeOK /\ PlanInvariant /\ UnverifiedInvariant /\ ReportInvariant
=============================================================================
