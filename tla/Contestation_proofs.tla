------------------------ MODULE Contestation_proofs ------------------------
(***************************************************************************)
(* Proofs about Contestation: for any claims, drafts, evidence, batches    *)
(* and number of reviews, a rerun keeps what nobody contested and what a   *)
(* human reviewed, and the report rests on what the human accepted, on     *)
(* nothing that was rejected and on no human text that was not verified.   *)
(***************************************************************************)
EXTENDS Contestation, TLAPS

-----------------------------------------------------------------------------
(* The stage that is run again.                                             *)

\* The least of some places of the stages.
LEMMA LeastStage ==
    ASSUME NEW S \in SUBSET (1 .. 7), S # {}
    PROVE  Min(S) \in S /\ \A k \in S : Min(S) <= k
<1>1. \E i \in S : \A k \in S : i <= k
  <2>1. CASE 1 \in S
    BY <2>1
  <2>2. CASE 1 \notin S /\ 2 \in S
    BY <2>2
  <2>3. CASE 1 \notin S /\ 2 \notin S /\ 3 \in S
    BY <2>3
  <2>4. CASE S \subseteq 4 .. 7 /\ 4 \in S
    BY <2>4
  <2>5. CASE S \subseteq 5 .. 7 /\ 5 \in S
    BY <2>5
  <2>6. CASE S \subseteq 6 .. 7
    <3>1. CASE 6 \in S
      BY <2>6, <3>1
    <3>2. CASE 6 \notin S
      <4>1. \A k \in 6 .. 7 : k = 6 \/ k = 7
        OBVIOUS
      <4>2. PICK i : i \in S
        OBVIOUS
      <4>3. \A k \in S : k = 7
        BY <2>6, <3>2, <4>1
      <4>4. i = 7 /\ \A k \in S : i <= k
        BY <4>2, <4>3
      <4> QED  BY <4>2, <4>4
    <3> QED  BY <3>1, <3>2
  <2>7. S \subseteq 4 .. 7 \/ 1 \in S \/ 2 \in S \/ 3 \in S
    OBVIOUS
  <2>8. S \subseteq 4 .. 7 /\ 4 \notin S => S \subseteq 5 .. 7
    OBVIOUS
  <2>9. S \subseteq 5 .. 7 /\ 5 \notin S => S \subseteq 6 .. 7
    OBVIOUS
  <2> QED  BY <2>1, <2>2, <2>3, <2>4, <2>5, <2>6, <2>7, <2>8, <2>9
<1> QED  BY <1>1 DEF Min

\* The order of the stages.
LEMMA StagesInOrder ==
    /\ DOMAIN StepOrder = 1 .. 7
    /\ \A i \in 1 .. 7 : StepOrder[i] = "evidence_validation" <=> i = 3
    /\ \A i \in 1 .. 7 : StepOrder[i] = "claim_decomposition" <=> i = 1
    /\ \A i \in 1 .. 3 : StepOrder[i] \in {"claim_decomposition", "evidence_retrieval", "evidence_validation"}
    /\ {"evidence_retrieval", "evidence_validation", "argument_construction", "qbaf_reasoning"} \subseteq Stages
<1>1. /\ StepOrder[1] = "claim_decomposition" /\ StepOrder[2] = "evidence_retrieval"
      /\ StepOrder[3] = "evidence_validation" /\ StepOrder[4] = "argument_construction"
      /\ StepOrder[5] = "qbaf_reasoning" /\ StepOrder[6] = "final_aggregation"
      /\ StepOrder[7] = "report_generation"
  BY DEF StepOrder
<1>2. DOMAIN StepOrder = 1 .. 7
  BY DEF StepOrder
<1>3. \A i \in 1 .. 7 : i = 1 \/ i = 2 \/ i = 3 \/ i = 4 \/ i = 5 \/ i = 6 \/ i = 7
  OBVIOUS
<1>4. \A i \in 1 .. 7 : StepOrder[i] = "evidence_validation" <=> i = 3
  BY <1>1, <1>3
<1>5. \A i \in 1 .. 7 : StepOrder[i] = "claim_decomposition" <=> i = 1
  BY <1>1, <1>3
<1>6. \A i \in 1 .. 3 : StepOrder[i] \in {"claim_decomposition", "evidence_retrieval", "evidence_validation"}
  BY <1>1
<1>7. {"evidence_retrieval", "evidence_validation", "argument_construction", "qbaf_reasoning"} \subseteq Stages
  <2>1. 2 \in DOMAIN StepOrder /\ 3 \in DOMAIN StepOrder /\ 4 \in DOMAIN StepOrder /\ 5 \in DOMAIN StepOrder
    BY <1>2
  <2> QED  BY <1>1, <2>1 DEF Stages
<1> QED  BY <1>2, <1>4, <1>5, <1>6, <1>7

\* Rejected evidence is validated again, unless an earlier stage is run; no stage
\* is run that was not asked for.
LEMMA EarliestStage ==
    ASSUME NEW targets \in SUBSET Stages
    PROVE  /\ "claim_decomposition" \notin targets => Earliest(targets) # "claim_decomposition"
           /\ "evidence_validation" \in targets =>
                Earliest(targets) \in {"claim_decomposition", "evidence_retrieval", "evidence_validation"}
<1> DEFINE places == {i \in DOMAIN StepOrder : StepOrder[i] \in targets}
<1>1. CASE targets = {}
  BY <1>1 DEF Earliest
<1>2. CASE targets # {}
  <2>1. Earliest(targets) = StepOrder[Min(places)]
    BY <1>2 DEF Earliest
  <2>2. places \in SUBSET (1 .. 7) /\ places # {}
    BY <1>2, StagesInOrder DEF Stages
  <2>3. \A i \in places : i \in 1 .. 7 /\ StepOrder[i] \in targets
    BY StagesInOrder
  <2>4. "evidence_validation" \in targets => 3 \in places
    BY StagesInOrder
  <2> HIDE DEF places
  <2>5. Min(places) \in places /\ \A k \in places : Min(places) <= k
    BY <2>2, LeastStage
  <2>6. "evidence_validation" \in targets => Min(places) \in 1 .. 3
    BY <2>3, <2>4, <2>5
  <2> QED  BY <2>1, <2>3, <2>5, <2>6, StagesInOrder
<1> QED  BY <1>1, <1>2

-----------------------------------------------------------------------------
(* A batch.                                                                 *)

\* What a human, or nobody, has said of an argument.
Statuses == {"unreviewed", "accepted", "rejected", "edited", "added"}

\* An argument whose status changes stays what it is.
LEMMA StatusChanged ==
    ASSUME NEW a, IsArgument(a), NEW status \in Statuses
    PROVE  LET b == [a EXCEPT !.status = status]
           IN  /\ IsArgument(b) /\ b.status = status
               /\ b.id = a.id /\ b.claim = a.claim /\ b.ev = a.ev /\ b.verified = a.verified
               /\ b.original = a.original
  BY DEF IsArgument, Statuses

\* An argument with another mark of verification stays what it is.
LEMMA MarkChanged ==
    ASSUME NEW a, IsArgument(a), NEW v
    PROVE  [a EXCEPT !.verified = v] = [id |-> a.id, claim |-> a.claim, text |-> a.text, ev |-> a.ev,
                                        status |-> a.status, original |-> a.original, verified |-> v]
  BY DEF IsArgument

\* The fields of an argument.
Fields == {"id", "claim", "text", "ev", "status", "original", "verified"}

\* A function on the fields of an argument is the record of its values.
LEMMA RecordOfFields ==
    ASSUME NEW a, a = [x \in Fields |-> a[x]]
    PROVE  a = [id |-> a.id, claim |-> a.claim, text |-> a.text, ev |-> a.ev,
                status |-> a.status, original |-> a.original, verified |-> a.verified]
<1> DEFINE r == [id |-> a.id, claim |-> a.claim, text |-> a.text, ev |-> a.ev,
                 status |-> a.status, original |-> a.original, verified |-> a.verified]
<1>1. r = [x \in Fields |-> r[x]]
  BY DEF Fields
<1>2. \A x \in Fields : a[x] = r[x]
  BY DEF Fields
<1> HIDE DEF r
<1>3. [x \in Fields |-> r[x]] = [x \in Fields |-> a[x]]
  BY <1>2
<1> QED  BY <1>1, <1>3 DEF r

\* What a human edit makes of an argument is an argument of the same claim.
LEMMA ReplacementMade ==
    ASSUME NEW a, IsArgument(a), NEW draft
    PROVE  /\ IsArgument(Replacement(a, draft))
           /\ Replacement(a, draft).claim = a.claim /\ Replacement(a, draft).status = "edited"
<1> DEFINE new == FreshId(a.id, "human", Ids(args))
           r == [a EXCEPT !.id = new, !.text = draft.text, !.ev = draft.ev,
                          !.status = "edited", !.original = a.id, !.verified = FALSE]
<1>1. r = Replacement(a, draft)
  BY DEF Replacement
<1>2. a = [id |-> a.id, claim |-> a.claim, text |-> a.text, ev |-> a.ev,
           status |-> a.status, original |-> a.original, verified |-> a.verified]
  BY DEF IsArgument
<1> HIDE DEF new
<1>3. r = [x \in Fields |-> r[x]]
  BY <1>2 DEF Fields
<1>4. r.claim = a.claim /\ r.status = "edited" /\ r.verified = FALSE
  BY <1>2
<1> HIDE DEF r
<1>5. r = [id |-> r.id, claim |-> r.claim, text |-> r.text, ev |-> r.ev,
           status |-> r.status, original |-> r.original, verified |-> r.verified]
  BY <1>3, RecordOfFields
<1>6. r.status \in {"unreviewed", "accepted", "rejected", "edited", "added"} /\ r.verified \in BOOLEAN
  BY <1>4
<1>7. IsArgument(r)
  BY <1>5, <1>6 DEF IsArgument
<1> QED  BY <1>1, <1>4, <1>7

\* An argument that is verified is the argument it was, but for the mark.
LEMMA VerifiedChanged ==
    ASSUME NEW a, IsArgument(a), NEW b, NEW yes, yes \in BOOLEAN, b = [a EXCEPT !.verified = yes]
    PROVE  /\ IsArgument(b) /\ b.verified = yes
           /\ b.id = a.id /\ b.claim = a.claim /\ b.ev = a.ev /\ b.status = a.status
           /\ b.original = a.original
           /\ [b EXCEPT !.verified = a.verified] = a
<1>1. b = [id |-> a.id, claim |-> a.claim, text |-> a.text, ev |-> a.ev,
           status |-> a.status, original |-> a.original, verified |-> yes]
  BY MarkChanged
<1>2. b.id = a.id /\ b.claim = a.claim /\ b.text = a.text /\ b.ev = a.ev /\ b.status = a.status
      /\ b.original = a.original /\ b.verified = yes
  BY <1>1
<1>3. IsArgument(b)
  BY <1>1, <1>2 DEF IsArgument
<1>4. ASSUME NEW v
      PROVE  [b EXCEPT !.verified = v]
               = [id |-> a.id, claim |-> a.claim, text |-> a.text, ev |-> a.ev,
                  status |-> a.status, original |-> a.original, verified |-> v]
  <2>1. [b EXCEPT !.verified = v]
               = [id |-> b.id, claim |-> b.claim, text |-> b.text, ev |-> b.ev,
                  status |-> b.status, original |-> b.original, verified |-> v]
    BY <1>3, MarkChanged
  <2> QED  BY <1>2, <2>1
<1>5. [b EXCEPT !.verified = a.verified] = a
  BY <1>4 DEF IsArgument
<1> QED  BY <1>2, <1>3, <1>5

\* The setting of a behaviour never changes.
LEMMA SameSetting ==
    ASSUME UNCHANGED setting
    PROVE  /\ setting' = setting /\ BundleClaims' = BundleClaims /\ MaxRounds' = MaxRounds
           /\ MayDecompose' = MayDecompose
BY DEF BundleClaims, MaxRounds, MayDecompose, ExplicitTargets

\* The arguments of a batch after one of its contestations: each is one that was
\* there, or one that the human made.
Carried(a) ==
    \E b \in args : /\ a.claim = b.claim /\ a.ev = b.ev /\ a.verified = b.verified
                    /\ a.status = "unreviewed" => b.status = "unreviewed"
\* An argument that the human made or reviewed, of a claim the batch concerns.
Made(a) == a.status # "unreviewed" /\ a.claim \in Concerned' /\ (round = 1 => a.claim \in BundleClaims)

\* Marking the arguments with an id leaves all else of each argument as it was.
LEMMA MarkedArguments ==
    ASSUME TypeOK, NEW id, NEW status \in Statuses \ {"unreviewed"}
    PROVE  /\ \A a \in Marked(id, status) : IsArgument(a) /\ Carried(a)
           /\ \A a \in args : \E b \in Marked(id, status) : b.id = a.id /\ b.claim = a.claim
<1> DEFINE mark(a) == IF a.id = id THEN [a EXCEPT !.status = status] ELSE a
<1>1. ASSUME NEW a \in args
      PROVE  /\ IsArgument(mark(a)) /\ mark(a).id = a.id /\ mark(a).claim = a.claim
             /\ mark(a).ev = a.ev /\ mark(a).verified = a.verified
             /\ mark(a).status = "unreviewed" => a.status = "unreviewed"
  <2>1. IsArgument(a)
    BY DEF TypeOK
  <2>2. CASE a.id = id
    BY <2>1, <2>2, StatusChanged
  <2>3. CASE a.id # id
    BY <2>1, <2>3
  <2> QED  BY <2>2, <2>3
<1>2. Marked(id, status) = {mark(a) : a \in args}
  BY DEF Marked
<1> HIDE DEF mark
<1>3. \A a \in Marked(id, status) : \E b \in args : a = mark(b)
  BY <1>2
<1>4. \A a \in args : mark(a) \in Marked(id, status)
  BY <1>2
<1>5. \A a \in Marked(id, status) : IsArgument(a) /\ Carried(a)
  BY <1>1, <1>3 DEF Carried
<1> QED  BY <1>1, <1>4, <1>5

\* What every contestation has in common: the stage it asks for is noted, and
\* what it concerns.
LEMMA ContestationKeeps ==
    ASSUME ReviewInvariant, Contesting, UNCHANGED <<claims, excluded, phase, round, setting>>,
           NEW target \in Stages, target = "claim_decomposition" => MayDecompose,
           plan' = [targets |-> plan'.targets, args |-> plan'.args, claims |-> plan'.claims,
                    ev |-> plan'.ev, rejectedEv |-> plan'.rejectedEv, size |-> plan'.size],
           plan'.targets = plan.targets \cup {target}, plan'.size = plan.size + 1,
           plan.ev \subseteq plan'.ev,
           \/ plan'.rejectedEv = plan.rejectedEv
           \/ target = "evidence_validation" /\ plan'.rejectedEv \subseteq plan.rejectedEv \cup plan'.ev,
           Concerned \subseteq Concerned', Concerned' # {},
           \A a \in args' : IsArgument(a) /\ (Carried(a) \/ Made(a))
    PROVE  ReviewInvariant'
<1>s. /\ setting' = setting /\ BundleClaims' = BundleClaims /\ MaxRounds' = MaxRounds
      /\ MayDecompose' = MayDecompose
  BY SameSetting
<1> USE <1>s
<1>1. phase = "review" /\ plan.size \in Nat /\ TypeOK /\ PlanInvariant /\ UnverifiedInvariant /\ ReportInvariant
  BY DEF Contesting, ReviewInvariant, TypeOK
<1>2. TypeOK'
  <2>1. claims' \in [ClaimIds' -> Nat]
    BY <1>1 DEF TypeOK, ClaimIds
  <2> QED  BY <1>1, <2>1 DEF TypeOK
<1>3. PlanInvariant'
  <2>1. ClaimIds' = BundleClaims
    BY <1>1 DEF PlanInvariant, ClaimIds
  <2>2. plan'.targets \subseteq Stages
    BY <1>1 DEF PlanInvariant
  <2>3. plan'.rejectedEv \subseteq plan'.ev
    BY <1>1 DEF PlanInvariant
  <2>4. plan'.rejectedEv # {} => "evidence_validation" \in plan'.targets
    BY <1>1 DEF PlanInvariant
  <2>5. ~MayDecompose => "claim_decomposition" \notin plan'.targets
    BY <1>1 DEF PlanInvariant
  <2> QED  BY <2>1, <2>2, <2>3, <2>4, <2>5 DEF PlanInvariant, MayDecompose
<1>4. UnverifiedInvariant'
  <2> SUFFICES ASSUME round = 1, NEW a \in args'
               PROVE  a.claim \in BundleClaims /\ (a.verified \/ a.claim \in Concerned')
    BY DEF UnverifiedInvariant
  <2>1. CASE Carried(a)
    <3>1. PICK b \in args : a.claim = b.claim /\ a.verified = b.verified
      BY <2>1 DEF Carried
    <3>2. b.claim \in BundleClaims /\ (b.verified \/ b.claim \in Concerned)
      BY <1>1 DEF UnverifiedInvariant
    <3> QED  BY <3>1, <3>2
  <2>2. CASE Made(a)
    BY <2>2 DEF Made
  <2> QED  BY <2>1, <2>2
<1>5. ReportInvariant'
  <2>1. ASSUME ~MayDecompose, NEW a \in args', a.status = "unreviewed"
        PROVE  a.ev \cap excluded' = {}
    <3>1. PICK b \in args : a.ev = b.ev /\ b.status = "unreviewed"
      BY <2>1 DEF Carried, Made
    <3> QED  BY <1>1, <2>1, <3>1 DEF ReportInvariant
  <2>2. phase' # "reported"
    BY <1>1
  <2> QED  BY <2>1, <2>2 DEF ReportInvariant, MayDecompose
<1> QED  BY <1>2, <1>3, <1>4, <1>5 DEF ReviewInvariant

\* A contestation asks for the stage it names, or for the one its kind implies.
LEMMA TargetStage ==
    ASSUME ReviewAssumption, setting \in DOMAIN Settings, NEW explicit \in ExplicitTargets \cup {NoTarget},
           NEW inferred \in {"evidence_retrieval", "evidence_validation", "argument_construction", "qbaf_reasoning"}
    PROVE  /\ Target(explicit, inferred) \in Stages
           /\ Target(explicit, inferred) = "claim_decomposition" => MayDecompose
<1>1. inferred \in Stages
  BY StagesInOrder
<1>2. CASE explicit = NoTarget
  BY <1>1, <1>2 DEF Target
<1>3. CASE explicit # NoTarget
  <2>1. Target(explicit, inferred) = explicit /\ explicit \in ExplicitTargets
    BY <1>3 DEF Target
  <2> QED  BY <2>1 DEF ReviewAssumption, MayDecompose, ExplicitTargets
<1> QED  BY <1>2, <1>3

\* The claims and the evidence of the arguments that a contestation names.
ClaimsNamed(id) == {a.claim : a \in Named(original, id)}
EvidenceNamed(id) == UNION {a.ev : a \in Named(original, id)}

\* What the router gathers from a contested argument.
LEMMA RoutedPlan ==
    ASSUME TypeOK, NEW id, NEW target, NEW moreEv
    PROVE  Routed(id, target, moreEv) =
             [targets |-> plan.targets \cup {target}, args |-> plan.args \cup {id},
              claims |-> plan.claims \cup ClaimsNamed(id),
              ev |-> plan.ev \cup moreEv \cup EvidenceNamed(id),
              rejectedEv |-> plan.rejectedEv, size |-> plan.size + 1]
<1>1. Routed(id, target, moreEv) = [plan EXCEPT !.targets = @ \cup {target}, !.args = @ \cup {id},
                 !.claims = @ \cup ClaimsNamed(id), !.ev = @ \cup moreEv \cup EvidenceNamed(id), !.size = @ + 1]
  BY DEF Routed, ClaimsNamed, EvidenceNamed
<1> QED  BY <1>1 DEF TypeOK

\* While a batch is applied, what it concerns grows.
LEMMA ConcernedGrows ==
    ASSUME plan.claims \subseteq plan'.claims, plan.args \subseteq plan'.args,
           \A a \in args : \E b \in args' : b.id = a.id /\ b.claim = a.claim
    PROVE  /\ Concerned \subseteq Concerned'
           /\ \A a \in args : a.id \in plan'.args => a.claim \in Concerned'
<1>1. ASSUME NEW a \in args, a.id \in plan'.args
      PROVE  a.claim \in Concerned'
  <2>1. PICK b \in args' : b.id = a.id /\ b.claim = a.claim
    OBVIOUS
  <2> QED  BY <1>1, <2>1 DEF Concerned
<1>2. Concerned \subseteq Concerned'
  BY <1>1 DEF Concerned
<1> QED  BY <1>1, <1>2

\* Each contestation keeps the invariant.
LEMMA ContestKeepsInvariant ==
    ASSUME ReviewAssumption, ReviewInvariant, Contest, UNCHANGED setting
    PROVE  ReviewInvariant'
<1>0. TypeOK /\ PlanInvariant /\ UnverifiedInvariant
  BY DEF ReviewInvariant
<1>1. ASSUME NEW id \in Ids(args), Accept(id)
      PROVE  ReviewInvariant'
  <2>1. PICK target \in Stages : /\ plan' = Routed(id, target, {})
                                 /\ target = "claim_decomposition" => MayDecompose
    <3>1. PICK explicit \in ExplicitTargets \cup {NoTarget} :
             plan' = Routed(id, Target(explicit, "qbaf_reasoning"), {})
      BY <1>1 DEF Accept
    <3> QED  BY <1>0, <3>1, TargetStage DEF TypeOK
  <2>2. Contesting /\ args' = Marked(id, "accepted") /\ UNCHANGED <<claims, excluded, phase, round>>
    BY <1>1 DEF Accept
  <2>3. \A a \in args' : IsArgument(a) /\ Carried(a)
    BY <1>0, <2>2, MarkedArguments DEF Statuses
  <2>4. \A a \in args : \E b \in args' : b.id = a.id /\ b.claim = a.claim
    BY <1>0, <2>2, MarkedArguments DEF Statuses
  <2>5. Concerned \subseteq Concerned' /\ \A a \in args : a.id \in plan'.args => a.claim \in Concerned'
    BY <1>0, <2>1, <2>4, RoutedPlan, ConcernedGrows
  <2>6. Concerned' # {}
    BY <1>0, <1>1, <2>1, <2>5, RoutedPlan DEF Ids
  <2> QED  BY <1>0, <2>1, <2>2, <2>3, <2>5, <2>6, RoutedPlan, ContestationKeeps
<1>2. ASSUME NEW id \in Ids(args), NEW reason \in {"retrieval error", "wrong evidence", "other"}, Reject(id, reason)
      PROVE  ReviewInvariant'
  <2> DEFINE its == UNION {a.ev : a \in Named(original, id)}
  <2>1. PICK target \in Stages :
           /\ plan' = [Routed(id, target, {}) EXCEPT
                         !.rejectedEv = @ \cup IF target = "evidence_validation" THEN its ELSE {}]
           /\ target = "claim_decomposition" => MayDecompose
    <3>1. PICK explicit \in ExplicitTargets \cup {NoTarget} :
             plan' = [Routed(id, Target(explicit, ReasonTarget(reason)), {}) EXCEPT
                        !.rejectedEv = @ \cup IF Target(explicit, ReasonTarget(reason)) = "evidence_validation"
                                              THEN its ELSE {}]
      BY <1>2 DEF Reject
    <3>2. ReasonTarget(reason) \in {"evidence_retrieval", "evidence_validation", "argument_construction"}
      BY DEF ReasonTarget
    <3> QED  BY <1>0, <3>1, <3>2, TargetStage DEF TypeOK
  <2>2. Contesting /\ args' = Marked(id, "rejected") /\ UNCHANGED <<claims, excluded, phase, round>>
    BY <1>2 DEF Reject
  <2>3. \A a \in args' : IsArgument(a) /\ Carried(a)
    BY <1>0, <2>2, MarkedArguments DEF Statuses
  <2>4. \A a \in args : \E b \in args' : b.id = a.id /\ b.claim = a.claim
    BY <1>0, <2>2, MarkedArguments DEF Statuses
  <2>5. /\ plan' = [targets |-> plan'.targets, args |-> plan'.args, claims |-> plan'.claims,
                    ev |-> plan'.ev, rejectedEv |-> plan'.rejectedEv, size |-> plan'.size]
        /\ plan'.targets = plan.targets \cup {target} /\ plan'.args = plan.args \cup {id}
        /\ plan'.claims = plan.claims \cup ClaimsNamed(id)
        /\ plan'.ev = plan.ev \cup its /\ plan'.size = plan.size + 1
        /\ plan'.rejectedEv = plan.rejectedEv \cup IF target = "evidence_validation" THEN its ELSE {}
    <3>1. plan' = [Routed(id, target, {}) EXCEPT
                     !.rejectedEv = @ \cup IF target = "evidence_validation" THEN its ELSE {}]
      BY <2>1
    <3>2. Routed(id, target, {}) =
             [targets |-> plan.targets \cup {target}, args |-> plan.args \cup {id},
              claims |-> plan.claims \cup ClaimsNamed(id), ev |-> plan.ev \cup {} \cup its,
              rejectedEv |-> plan.rejectedEv, size |-> plan.size + 1]
      BY <1>0, RoutedPlan DEF EvidenceNamed
    <3> DEFINE rejected == plan.rejectedEv \cup IF target = "evidence_validation" THEN its ELSE {}
               full == [targets |-> plan.targets \cup {target}, args |-> plan.args \cup {id},
                        claims |-> plan.claims \cup ClaimsNamed(id), ev |-> plan.ev \cup {} \cup its,
                        rejectedEv |-> plan.rejectedEv, size |-> plan.size + 1]
    <3>3. plan' = [full EXCEPT !.rejectedEv = rejected]
      <4> DEFINE p == Routed(id, target, {})
      <4>1. p = full
        BY <3>2
      <4>2. plan' = [p EXCEPT !.rejectedEv = p.rejectedEv \cup IF target = "evidence_validation" THEN its ELSE {}]
        BY <3>1
      <4> HIDE DEF p, its
      <4>3. p.rejectedEv = plan.rejectedEv
        BY <4>1
      <4> HIDE DEF full
      <4> QED  BY <4>1, <4>2, <4>3
    <3> HIDE DEF its, rejected
    <3>4. plan' = [targets |-> plan.targets \cup {target}, args |-> plan.args \cup {id},
                   claims |-> plan.claims \cup ClaimsNamed(id), ev |-> plan.ev \cup {} \cup its,
                   rejectedEv |-> rejected, size |-> plan.size + 1]
      BY <3>3
    <3> QED  BY <3>4 DEF rejected
  <2> HIDE DEF its
  <2>6. Concerned \subseteq Concerned' /\ \A a \in args : a.id \in plan'.args => a.claim \in Concerned'
    BY <2>4, <2>5, ConcernedGrows
  <2>7. Concerned' # {}
    BY <1>2, <2>5, <2>6 DEF Ids
  <2>8. \/ plan'.rejectedEv = plan.rejectedEv
        \/ target = "evidence_validation" /\ plan'.rejectedEv \subseteq plan.rejectedEv \cup plan'.ev
    BY <2>5
  <2>9. plan.ev \subseteq plan'.ev
    BY <2>5
  <2> QED  BY <2>1, <2>2, <2>3, <2>5, <2>6, <2>7, <2>8, <2>9, ContestationKeeps

<1>3. ASSUME NEW id \in Ids(args), NEW draft \in Drafts, Edit(id, draft)
      PROVE  ReviewInvariant'
  <2>1. PICK target \in Stages : /\ plan' = Routed(id, target, draft.ev)
                                 /\ target = "claim_decomposition" => MayDecompose
    <3>1. PICK explicit \in ExplicitTargets \cup {NoTarget} :
             plan' = Routed(id, Target(explicit, TargetOfEdit(id, draft.ev)), draft.ev)
      BY <1>3 DEF Edit
    <3>2. TargetOfEdit(id, draft.ev) \in {"argument_construction", "evidence_retrieval"}
      BY DEF TargetOfEdit
    <3> QED  BY <1>0, <3>1, <3>2, TargetStage DEF TypeOK
  <2>2. /\ Contesting /\ UNCHANGED <<claims, excluded, phase, round>>
        /\ args' = Marked(id, "edited") \cup {Replacement(a, draft) : a \in Named(args, id)}
    BY <1>3 DEF Edit
  <2>3. \A a \in Marked(id, "edited") : IsArgument(a) /\ Carried(a)
    BY <1>0, MarkedArguments DEF Statuses
  <2>4. \A a \in args : \E b \in args' : b.id = a.id /\ b.claim = a.claim
    BY <1>0, <2>2, MarkedArguments DEF Statuses
  <2>5. Concerned \subseteq Concerned' /\ \A a \in args : a.id \in plan'.args => a.claim \in Concerned'
    BY <1>0, <2>1, <2>4, RoutedPlan, ConcernedGrows
  <2>6. id \in plan'.args /\ Concerned' # {}
    BY <1>0, <1>3, <2>1, <2>5, RoutedPlan DEF Ids
  <2>7. ASSUME NEW a \in Named(args, id)
        PROVE  IsArgument(Replacement(a, draft)) /\ Made(Replacement(a, draft))
    <3>1. a \in args /\ a.id = id /\ IsArgument(a)
      BY <1>0 DEF Named, TypeOK
    <3>2. Replacement(a, draft).claim = a.claim /\ Replacement(a, draft).status = "edited"
      BY <3>1, ReplacementMade
    <3>3. IsArgument(Replacement(a, draft))
      BY <3>1, ReplacementMade
    <3>4. round = 1 => a.claim \in BundleClaims
      BY <1>0, <2>2, <3>1 DEF UnverifiedInvariant, Contesting
    <3>5. Made(Replacement(a, draft))
      BY <2>5, <2>6, <3>1, <3>2, <3>4 DEF Made
    <3> QED  BY <3>3, <3>5
  <2>8. \A a \in args' : IsArgument(a) /\ (Carried(a) \/ Made(a))
    BY <2>2, <2>3, <2>7
  <2> QED  BY <1>0, <2>1, <2>2, <2>5, <2>6, <2>8, RoutedPlan, ContestationKeeps
<1>4. ASSUME NEW c \in ClaimIds, NEW draft \in Drafts, Add(c, draft)
      PROVE  ReviewInvariant'
  <2>1. PICK target \in Stages :
           /\ plan' = [plan EXCEPT !.targets = @ \cup {target}, !.claims = @ \cup {c},
                                   !.ev = @ \cup draft.ev, !.size = @ + 1]
           /\ target = "claim_decomposition" => MayDecompose
    <3>1. PICK explicit \in ExplicitTargets \cup {NoTarget} :
             plan' = [plan EXCEPT !.targets = @ \cup {Target(explicit, TargetOfAddition(draft.ev))},
                                  !.claims = @ \cup {c}, !.ev = @ \cup draft.ev, !.size = @ + 1]
      BY <1>4 DEF Add
    <3>2. TargetOfAddition(draft.ev) \in {"argument_construction", "evidence_retrieval"}
      BY DEF TargetOfAddition
    <3> QED  BY <1>0, <3>1, <3>2, TargetStage DEF TypeOK
  <2>2. Contesting /\ UNCHANGED <<claims, excluded, phase, round>> /\ args' = args \cup {Added(c, draft)}
    BY <1>4 DEF Add
  <2>3. /\ plan' = [targets |-> plan'.targets, args |-> plan'.args, claims |-> plan'.claims,
                    ev |-> plan'.ev, rejectedEv |-> plan'.rejectedEv, size |-> plan'.size]
        /\ plan'.targets = plan.targets \cup {target} /\ plan'.args = plan.args
        /\ plan'.claims = plan.claims \cup {c} /\ plan'.ev = plan.ev \cup draft.ev
        /\ plan'.rejectedEv = plan.rejectedEv /\ plan'.size = plan.size + 1
    BY <1>0, <2>1 DEF TypeOK
  <2>4. Concerned \subseteq Concerned'
    BY <2>2, <2>3, ConcernedGrows
  <2>5. c \in Concerned'
    BY <2>3 DEF Concerned
  <2>6. PICK new : Added(c, draft)
            = [id |-> new, claim |-> c, text |-> draft.text, ev |-> draft.ev,
               status |-> "added", original |-> NoId, verified |-> FALSE]
    BY DEF Added
  <2>7. IsArgument(Added(c, draft))
    BY <2>6 DEF IsArgument
  <2>8. c \in BundleClaims
    BY <1>0, <2>2 DEF PlanInvariant, Contesting
  <2>9. Made(Added(c, draft))
    BY <2>5, <2>6, <2>8 DEF Made
  <2>10. \A a \in args : IsArgument(a) /\ Carried(a)
    BY <1>0 DEF TypeOK, Carried
  <2>11. \A a \in args' : IsArgument(a) /\ (Carried(a) \/ Made(a))
    BY <2>2, <2>7, <2>9, <2>10
  <2>12. plan.ev \subseteq plan'.ev /\ Concerned' # {}
    BY <2>3, <2>5
  <2> QED  BY <2>1, <2>2, <2>3, <2>4, <2>11, <2>12, ContestationKeeps
<1> QED  BY <1>1, <1>2, <1>3, <1>4 DEF Contest

-----------------------------------------------------------------------------
(* A rerun.                                                                 *)

\* What is generated for a claim is about that claim, is verified, and rests on
\* the evidence that may be used.
LEMMA GenerationsUsable ==
    ASSUME ReviewAssumption, NEW c, NEW usable, NEW G \in Generations(c, usable), NEW a \in G
    PROVE  /\ IsArgument(a) /\ a.claim = c /\ a.status = "unreviewed" /\ a.verified
           /\ a.ev \subseteq usable
<1> DEFINE choices == UNION {{[d EXCEPT !.ev = ev] : ev \in Repaired(d.ev, usable)} : d \in Drafts}
<1>1. PICK ds \in SUBSET choices : G = {Generated(c, d) : d \in ds}
  BY DEF Generations
<1>2. PICK e \in ds : a = Generated(c, e)
  BY <1>1
<1>3. PICK d \in Drafts : \E ev \in Repaired(d.ev, usable) : e = [d EXCEPT !.ev = ev]
  BY <1>1, <1>2
<1>4. PICK ev \in Repaired(d.ev, usable) : e = [d EXCEPT !.ev = ev]
  BY <1>3
<1>5. d = [text |-> d.text, ev |-> d.ev]
  BY DEF ReviewAssumption
<1>6. e.ev = ev
  BY <1>4, <1>5
<1>7. ev \subseteq usable
  BY <1>4 DEF Repaired
<1>8. a = [id |-> GeneratedId(c, e.text), claim |-> c, text |-> e.text, ev |-> e.ev,
           status |-> "unreviewed", original |-> NoId, verified |-> TRUE]
  BY <1>2 DEF Generated
<1>9. IsArgument(a)
  <2> DEFINE new == GeneratedId(c, e.text)
  <2>1. a = [id |-> new, claim |-> c, text |-> e.text, ev |-> e.ev,
             status |-> "unreviewed", original |-> NoId, verified |-> TRUE]
    BY <1>8
  <2> HIDE DEF new
  <2> QED  BY <2>1 DEF IsArgument
<1> QED  BY <1>6, <1>7, <1>8, <1>9

\* A regenerated argument that gets another id stays what it is.
LEMMA IdChanged ==
    ASSUME NEW a, IsArgument(a), NEW id
    PROVE  LET b == [a EXCEPT !.id = id]
           IN  /\ IsArgument(b) /\ b.claim = a.claim /\ b.ev = a.ev
               /\ b.status = a.status /\ b.verified = a.verified
<1> DEFINE b == [a EXCEPT !.id = id]
<1>1. b = [id |-> id, claim |-> a.claim, text |-> a.text, ev |-> a.ev,
           status |-> a.status, original |-> a.original, verified |-> a.verified]
  BY DEF IsArgument
<1> HIDE DEF b
<1>2. b = [id |-> b.id, claim |-> b.claim, text |-> b.text, ev |-> b.ev,
           status |-> b.status, original |-> b.original, verified |-> b.verified]
  BY <1>1
<1>3. b.claim = a.claim /\ b.ev = a.ev /\ b.status = a.status /\ b.verified = a.verified
  BY <1>1
<1>4. IsArgument(b)
  BY <1>2, <1>3 DEF IsArgument
<1> QED  BY <1>3, <1>4 DEF b

\* The claims that are affected: those that the batch concerns, and those whose
\* arguments rest on the evidence of the plan.
LEMMA AffectedByPlan ==
    ASSUME PlanInvariant, phase = "review", plan.size > 0
    PROVE  /\ Concerned \subseteq AffectedClaims
           /\ \A a \in args : a.claim \notin AffectedClaims => a.ev \cap plan.ev = {}
           /\ \A c \in AffectedClaims :
                \/ c \in plan.claims
                \/ \E a \in args : a.claim = c /\ (a.id \in plan.args \/ a.ev \cap plan.ev # {})
<1> DEFINE byId == {a.claim : a \in {b \in args : b.id \in plan.args}}
           byEv == {a.claim : a \in {b \in args : b.ev \cap plan.ev # {}}}
<1>1. Concerned = plan.claims \cup byId /\ Concerned # {}
  BY DEF Concerned, PlanInvariant
<1>2. AffectedClaims = IF plan.claims \cup byId \cup byEv = {} THEN ClaimIds ELSE plan.claims \cup byId \cup byEv
  BY DEF AffectedClaims
<1>3. AffectedClaims = plan.claims \cup byId \cup byEv
  BY <1>1, <1>2
<1> QED  BY <1>1, <1>3

\* What the rerun makes of an argument that it keeps; what it generates.
VerifiedOf(a) ==
    IF a.claim \in AffectedClaims \cap ClaimIds /\ a.status \in {"accepted", "edited", "added"}
    THEN [a EXCEPT !.verified = TRUE] ELSE a
\* A rerun keeps what no contestation concerns and what a human has reviewed.
Keeps(a) == a.claim \notin AffectedClaims \/ a.status # "unreviewed"
\* What a rerun generates is verified, unreviewed and without rejected evidence.
Fresh(a) ==
    /\ IsArgument(a) /\ a.claim \in AffectedClaims
    /\ a.status = "unreviewed" /\ a.verified /\ a.ev \cap excluded' = {}

\* Verification of the human texts changes nothing but the mark.
LEMMA VerifiedKeeps ==
    ASSUME NEW a, IsArgument(a)
    PROVE  /\ IsArgument(VerifiedOf(a))
           /\ VerifiedOf(a).id = a.id /\ VerifiedOf(a).claim = a.claim /\ VerifiedOf(a).ev = a.ev
           /\ VerifiedOf(a).status = a.status /\ (a.verified => VerifiedOf(a).verified)
           /\ a.claim \notin AffectedClaims => VerifiedOf(a) = a
           /\ a.claim \in AffectedClaims \cap ClaimIds /\ a.status \in {"accepted", "edited", "added"}
                => VerifiedOf(a).verified
           /\ [VerifiedOf(a) EXCEPT !.verified = a.verified] = a
<1>1. CASE a.claim \in AffectedClaims \cap ClaimIds /\ a.status \in {"accepted", "edited", "added"}
  <2>1. VerifiedOf(a) = [a EXCEPT !.verified = TRUE]
    BY <1>1 DEF VerifiedOf
  <2>2. TRUE \in BOOLEAN
    OBVIOUS
  <2>3. /\ IsArgument(VerifiedOf(a)) /\ VerifiedOf(a).verified = TRUE
        /\ VerifiedOf(a).id = a.id /\ VerifiedOf(a).claim = a.claim /\ VerifiedOf(a).ev = a.ev
        /\ VerifiedOf(a).status = a.status
        /\ [VerifiedOf(a) EXCEPT !.verified = a.verified] = a
    BY <2>1, <2>2, VerifiedChanged, Zenon
  <2> QED  BY <1>1, <2>3
<1>2. CASE ~(a.claim \in AffectedClaims \cap ClaimIds /\ a.status \in {"accepted", "edited", "added"})
  <2>1. VerifiedOf(a) = a
    BY <1>2 DEF VerifiedOf
  <2>2. [a EXCEPT !.verified = a.verified] = a
    BY MarkChanged DEF IsArgument
  <2> QED  BY <1>2, <2>1, <2>2
<1> QED  BY <1>1, <1>2

\* A rerun from the arguments or from the evidence keeps the arguments of claims
\* that are not affected and those a human reviewed; the others are generated.
LEMMA RegeneratedArguments ==
    ASSUME ReviewAssumption, TypeOK, UNCHANGED claims, NEW known, Regenerate(AffectedClaims, known)
    PROVE  /\ \A b \in args' : Fresh(b) \/ \E a \in args : Keeps(a) /\ b = VerifiedOf(a)
           /\ \A a \in args : Keeps(a) => VerifiedOf(a) \in args'
           /\ graph' = GraphOf(args', ClaimIds') /\ phase' = "reported" /\ UNCHANGED <<original, plan, round>>
<1> DEFINE inCase == AffectedClaims \cap ClaimIds
           reviewed == VerifiedReviewed(args, inCase)
<1>1. PICK choice : /\ \A c \in inCase : choice[c] \in Generations(c, known \ excluded')
                    /\ Report(Merged(reviewed, UNION {choice[c] : c \in inCase}, AffectedClaims), ClaimIds)
  BY DEF Regenerate
<1> DEFINE generated == UNION {choice[c] : c \in inCase}
           kept == {a \in reviewed : a.claim \notin AffectedClaims \/ a.status # "unreviewed"}
           named(a) == IF a.id \in Ids(kept) THEN [a EXCEPT !.id = FreshId(a.id, "rerun", Ids(kept))] ELSE a
<1>2. ASSUME NEW a \in generated
      PROVE  Fresh(named(a))
  <2>1. PICK c \in inCase : a \in choice[c]
    OBVIOUS
  <2>2. choice[c] \in Generations(c, known \ excluded')
    BY <1>1
  <2>3. /\ IsArgument(a) /\ a.claim = c /\ a.status = "unreviewed" /\ a.verified
        /\ a.ev \subseteq known \ excluded'
    BY <2>1, <2>2, GenerationsUsable
  <2>4. Fresh(a)
    BY <2>1, <2>3 DEF Fresh
  <2> DEFINE new == FreshId(a.id, "rerun", Ids(kept))
  <2>5. Fresh([a EXCEPT !.id = new])
    <3> DEFINE b == [a EXCEPT !.id = new]
    <3> HIDE DEF new
    <3>1. IsArgument(b) /\ b.claim = a.claim /\ b.ev = a.ev /\ b.status = a.status /\ b.verified = a.verified
      BY <2>3, IdChanged
    <3> HIDE DEF b
    <3>2. Fresh(b)
      BY <2>4, <3>1 DEF Fresh
    <3> QED  BY <3>2 DEF b
  <2> HIDE DEF new, kept
  <2>6. CASE a.id \in Ids(kept)
    BY <2>5, <2>6 DEF new
  <2>7. CASE a.id \notin Ids(kept)
    BY <2>4, <2>7
  <2> QED  BY <2>6, <2>7
<1>3. reviewed = {VerifiedOf(a) : a \in args}
  BY DEF VerifiedReviewed, VerifiedOf
<1>4. \A a \in args : VerifiedOf(a).claim = a.claim /\ VerifiedOf(a).status = a.status
  BY VerifiedKeeps DEF TypeOK
<1>5. \A b \in kept : \E a \in args : Keeps(a) /\ b = VerifiedOf(a)
  <2> SUFFICES ASSUME NEW b \in kept
               PROVE  \E a \in args : Keeps(a) /\ b = VerifiedOf(a)
    OBVIOUS
  <2>1. PICK a \in args : b = VerifiedOf(a)
    BY <1>3
  <2> QED  BY <1>4, <2>1 DEF Keeps
<1>6. \A a \in args : Keeps(a) => VerifiedOf(a) \in kept
  BY <1>3, <1>4 DEF Keeps
<1>7. Merged(reviewed, generated, AffectedClaims) = kept \cup {named(a) : a \in generated}
  BY DEF Merged
<1>8. args' = Merged(reviewed, generated, AffectedClaims) /\ graph' = GraphOf(args', ClaimIds')
      /\ phase' = "reported" /\ UNCHANGED <<original, plan, round>>
  BY <1>1 DEF Report, ClaimIds
<1> HIDE DEF kept, generated, reviewed, named
<1>9. args' = kept \cup {named(a) : a \in generated}
  BY <1>7, <1>8
<1> QED  BY <1>2, <1>5, <1>6, <1>8, <1>9

\* What a rerun promises beside the invariant.
Promised == KeepsUnaffected /\ KeepsReviewed /\ ReportsVerified

\* A rerun from the arguments or from the evidence.
LEMMA RegenerationPromises ==
    ASSUME ReviewAssumption, ReviewInvariant, phase = "review", plan.size > 0,
           excluded' = excluded \cup plan.rejectedEv, UNCHANGED <<claims, setting>>,
           NEW known, Regenerate(AffectedClaims, known)
    PROVE  ReviewInvariant' /\ Promised
<1>s. /\ setting' = setting /\ BundleClaims' = BundleClaims /\ MaxRounds' = MaxRounds
      /\ MayDecompose' = MayDecompose
  BY SameSetting
<1> USE <1>s
<1>0. TypeOK /\ PlanInvariant /\ UnverifiedInvariant /\ ReportInvariant
  BY DEF ReviewInvariant
<1>1. /\ \A b \in args' : Fresh(b) \/ \E a \in args : Keeps(a) /\ b = VerifiedOf(a)
      /\ \A a \in args : Keeps(a) => VerifiedOf(a) \in args'
      /\ graph' = GraphOf(args', ClaimIds') /\ phase' = "reported" /\ UNCHANGED <<original, plan, round>>
  BY <1>0, RegeneratedArguments
<1>2. /\ Concerned \subseteq AffectedClaims
      /\ \A a \in args : a.claim \notin AffectedClaims => a.ev \cap plan.ev = {}
      /\ \A c \in AffectedClaims :
           \/ c \in plan.claims
           \/ \E a \in args : a.claim = c /\ (a.id \in plan.args \/ a.ev \cap plan.ev # {})
  BY <1>0, AffectedByPlan
<1>3. ClaimIds' = ClaimIds /\ ClaimIds = BundleClaims
  BY <1>0 DEF ClaimIds, PlanInvariant
<1>4. ASSUME NEW a \in args
      PROVE  /\ IsArgument(a) /\ IsArgument(VerifiedOf(a))
             /\ VerifiedOf(a).claim = a.claim /\ VerifiedOf(a).ev = a.ev
             /\ VerifiedOf(a).status = a.status /\ (a.verified => VerifiedOf(a).verified)
             /\ a.claim \notin AffectedClaims => VerifiedOf(a) = a
             /\ a.claim \in AffectedClaims \cap ClaimIds /\ a.status \in {"accepted", "edited", "added"}
                  => VerifiedOf(a).verified
             /\ [VerifiedOf(a) EXCEPT !.verified = a.verified] = a
  BY <1>0, VerifiedKeeps DEF TypeOK
<1>5. TypeOK'
  <2>1. \A b \in args' : IsArgument(b)
    BY <1>1, <1>4 DEF Fresh
  <2>2. claims' \in [ClaimIds' -> Nat]
    BY <1>0, <1>3 DEF TypeOK
  <2> QED  BY <1>0, <1>1, <2>1, <2>2 DEF TypeOK
<1>6. ReportInvariant'
  <2>1. ASSUME ~MayDecompose, NEW b \in args', b.status = "unreviewed"
        PROVE  b.ev \cap excluded' = {}
    <3>1. CASE Fresh(b)
      BY <3>1 DEF Fresh
    <3>2. CASE \E a \in args : Keeps(a) /\ b = VerifiedOf(a)
      <4>1. PICK a \in args : Keeps(a) /\ b = VerifiedOf(a)
        BY <3>2
      <4>2. a.status = "unreviewed" /\ b.ev = a.ev
        BY <1>4, <2>1, <4>1
      <4>3. a.ev \cap plan.ev = {}
        BY <1>2, <4>1, <4>2 DEF Keeps
      <4>4. a.ev \cap excluded = {}
        BY <1>0, <2>1, <4>2 DEF ReportInvariant
      <4>5. plan.rejectedEv \subseteq plan.ev
        BY <1>0 DEF PlanInvariant
      <4> QED  BY <4>2, <4>3, <4>4, <4>5
    <3> QED  BY <1>1, <3>1, <3>2
  <2> QED  BY <1>1, <2>1 DEF ReportInvariant, MayDecompose
<1>7. ReviewInvariant'
  BY <1>1, <1>5, <1>6 DEF ReviewInvariant, PlanInvariant, UnverifiedInvariant
<1>8. KeepsUnaffected
  <2> SUFFICES ASSUME NEW c \in ClaimIds, c \notin plan.claims,
                      \A a \in args : ~(a.claim = c /\ (a.id \in plan.args \/ a.ev \cap plan.ev # {}))
               PROVE  {a \in args' : a.claim = c} = {a \in args : a.claim = c}
    BY DEF KeepsUnaffected
  <2>1. c \notin AffectedClaims
    BY <1>2
  <2>2. ASSUME NEW b \in args', b.claim = c
        PROVE  b \in args
    <3>1. ~Fresh(b)
      BY <2>1, <2>2 DEF Fresh
    <3>2. PICK a \in args : b = VerifiedOf(a)
      BY <1>1, <3>1
    <3>3. a.claim = c
      BY <1>4, <2>2, <3>2
    <3> QED  BY <1>4, <2>1, <3>2, <3>3
  <2>3. ASSUME NEW a \in args, a.claim = c
        PROVE  a \in args'
    <3>1. VerifiedOf(a) = a /\ Keeps(a)
      BY <1>4, <2>1, <2>3 DEF Keeps
    <3> QED  BY <1>1, <3>1
  <2> QED  BY <2>2, <2>3
<1>9. KeepsReviewed
  <2> SUFFICES ASSUME NEW a \in args, a.status # "unreviewed"
               PROVE  \E b \in args' : [b EXCEPT !.verified = a.verified] = a
    BY DEF KeepsReviewed
  <2>1. VerifiedOf(a) \in args'
    BY <1>1 DEF Keeps
  <2> QED  BY <1>4, <2>1
<1>10. ReportsVerified
  <2> SUFFICES ASSUME round = 1, NEW b \in graph'
               PROVE  b.verified
    BY DEF ReportsVerified
  <2>1. b \in args' /\ b.status # "rejected"
    BY <1>1 DEF GraphOf, Included
  <2>2. CASE Fresh(b)
    BY <2>2 DEF Fresh
  <2>3. CASE \E a \in args : Keeps(a) /\ b = VerifiedOf(a)
    <3>1. PICK a \in args : Keeps(a) /\ b = VerifiedOf(a)
      BY <2>3
    <3>2. a.claim \in BundleClaims /\ (a.verified \/ a.claim \in Concerned)
      BY <1>0 DEF UnverifiedInvariant
    <3>3. CASE a.verified
      BY <1>4, <3>1, <3>3
    <3>4. CASE a.claim \in Concerned
      <4>1. a.claim \in AffectedClaims \cap ClaimIds
        BY <1>2, <1>3, <3>2, <3>4
      <4>2. a.status # "unreviewed" /\ a.status # "rejected"
        BY <1>4, <2>1, <3>1, <4>1 DEF Keeps
      <4>3. a.status \in {"accepted", "edited", "added"}
        BY <1>4, <4>2 DEF IsArgument
      <4> QED  BY <1>4, <3>1, <4>1, <4>3
    <3> QED  BY <3>2, <3>3, <3>4
  <2> QED  BY <1>1, <2>1, <2>2, <2>3
<1> QED  BY <1>7, <1>8, <1>9, <1>10 DEF Promised

\* A rerun of the reasoning: the arguments are those of the batch.
LEMMA ReasoningPromises ==
    ASSUME ReviewAssumption, ReviewInvariant, phase = "review", plan.size > 0,
           NEW adaptive \in AdaptiveRevision, RerunReasoning(adaptive), UNCHANGED setting
    PROVE  ReviewInvariant' /\ Promised
<1>s. /\ setting' = setting /\ BundleClaims' = BundleClaims /\ MaxRounds' = MaxRounds
      /\ MayDecompose' = MayDecompose
  BY SameSetting
<1> USE <1>s
<1>0. TypeOK /\ PlanInvariant /\ UnverifiedInvariant /\ ReportInvariant
  BY DEF ReviewInvariant
<1>1. /\ args' = args /\ graph' = GraphOf(args, ClaimIds) /\ phase' = "reported"
      /\ UNCHANGED <<original, plan, round, claims, evidence>>
      /\ excluded' = IF adaptive THEN excluded \cup plan.rejectedEv ELSE excluded
      /\ ~adaptive \/ Earliest(plan.targets) \in {"qbaf_reasoning", "final_aggregation", "report_generation"}
  BY DEF RerunReasoning, Report
<1>2. excluded' = excluded
  <2>1. plan.targets \in SUBSET Stages /\ (plan.rejectedEv # {} => "evidence_validation" \in plan.targets)
    BY <1>0 DEF PlanInvariant
  <2>2. CASE adaptive
    <3>1. "evidence_validation" \notin plan.targets
      BY <1>1, <2>1, <2>2, EarliestStage
    <3> QED  BY <1>1, <2>1, <2>2, <3>1
  <2>3. CASE ~adaptive
    BY <1>1, <2>3
  <2> QED  BY <2>2, <2>3
<1>3. TypeOK'
  BY <1>0, <1>1 DEF TypeOK, ClaimIds
<1>4. ReportInvariant'
  <2>1. ClaimIds' = ClaimIds
    BY <1>1 DEF ClaimIds
  <2>2. graph' = GraphOf(args', ClaimIds')
    BY <1>1, <2>1
  <2> QED  BY <1>0, <1>1, <1>2, <2>2 DEF ReportInvariant, MayDecompose
<1>5. ReviewInvariant'
  BY <1>1, <1>3, <1>4 DEF ReviewInvariant, PlanInvariant, UnverifiedInvariant
<1>6. KeepsUnaffected
  BY <1>1 DEF KeepsUnaffected
<1>7. KeepsReviewed
  <2> SUFFICES ASSUME NEW a \in args
               PROVE  [a EXCEPT !.verified = a.verified] = a
    BY <1>1 DEF KeepsReviewed
  <2> QED  BY <1>0, MarkChanged DEF TypeOK, IsArgument
<1>8. ReportsVerified
  <2> SUFFICES ASSUME AdaptiveRevision = {TRUE},
                      Earliest(plan.targets) \in {"argument_construction", "evidence_validation", "evidence_retrieval"}
               PROVE  FALSE
    BY DEF ReportsVerified
  <2>1. adaptive
    OBVIOUS
  <2> QED  BY <1>1, <2>1
<1> QED  BY <1>5, <1>6, <1>7, <1>8 DEF Promised

\* A rerun from the decomposition: claims that are worded as before keep their
\* arguments.
LEMMA DecompositionPromises ==
    ASSUME ReviewAssumption, ReviewInvariant, phase = "review", plan.size > 0, RerunDecomposition, UNCHANGED setting
    PROVE  ReviewInvariant' /\ Promised
<1>s. /\ setting' = setting /\ BundleClaims' = BundleClaims /\ MaxRounds' = MaxRounds
      /\ MayDecompose' = MayDecompose
  BY SameSetting
<1> USE <1>s
<1>0. TypeOK /\ PlanInvariant /\ UnverifiedInvariant /\ ReportInvariant
  BY DEF ReviewInvariant
<1>1. PICK reworded \in SUBSET (DecomposedClaims \cap ClaimIds), found \in SUBSET Found :
         LET changed == reworded \cup (DecomposedClaims \ ClaimIds) IN
         /\ claims' = [c \in DecomposedClaims |->
                         IF c \notin ClaimIds THEN 0
                         ELSE IF c \in reworded THEN claims[c] + 1 ELSE claims[c]]
         /\ evidence' = evidence \cup found
         /\ \E choice \in [changed -> UNION {Generations(c, evidence' \ excluded') : c \in changed}] :
              /\ \A c \in changed : choice[c] \in Generations(c, evidence' \ excluded')
              /\ Report({a \in args : a.claim \in DecomposedClaims \ changed}
                          \cup UNION {choice[c] : c \in changed}, DecomposedClaims)
  BY DEF RerunDecomposition
<1> DEFINE changed == reworded \cup (DecomposedClaims \ ClaimIds)
<1>2. PICK choice :
         /\ \A c \in changed : choice[c] \in Generations(c, evidence' \ excluded')
         /\ Report({a \in args : a.claim \in DecomposedClaims \ changed}
                     \cup UNION {choice[c] : c \in changed}, DecomposedClaims)
  BY <1>1
<1>3. /\ args' = {a \in args : a.claim \in DecomposedClaims \ changed} \cup UNION {choice[c] : c \in changed}
      /\ graph' = GraphOf(args', DecomposedClaims) /\ phase' = "reported" /\ UNCHANGED <<original, plan, round>>
  BY <1>2 DEF Report
<1>4. ClaimIds' = DecomposedClaims /\ claims' \in [DecomposedClaims -> Nat]
  <2>1. claims' = [c \in DecomposedClaims |->
                    IF c \notin ClaimIds THEN 0 ELSE IF c \in reworded THEN claims[c] + 1 ELSE claims[c]]
    BY <1>1
  <2>2. claims \in [ClaimIds -> Nat]
    BY <1>0 DEF TypeOK
  <2> QED  BY <2>1, <2>2 DEF ClaimIds
<1>5. \A c \in changed : \A a \in choice[c] : IsArgument(a) /\ a.claim = c
  BY <1>2, GenerationsUsable
<1>6. TypeOK'
  <2>1. \A a \in args' : IsArgument(a)
    BY <1>0, <1>3, <1>5 DEF TypeOK
  <2> QED  BY <1>0, <1>3, <1>4, <2>1 DEF TypeOK
<1>7. Earliest(plan.targets) = "claim_decomposition"
  BY DEF RerunDecomposition
<1>8. MayDecompose
  BY <1>0, <1>7, EarliestStage DEF PlanInvariant
<1>9. ReviewInvariant'
  BY <1>3, <1>4, <1>6, <1>8 DEF ReviewInvariant, PlanInvariant, UnverifiedInvariant, ReportInvariant, MayDecompose
<1>10. ASSUME NEW c, ~Reworded(c)
       PROVE  c \in DecomposedClaims \ changed
  <2>1. c \in DecomposedClaims /\ c \in ClaimIds /\ claims'[c] = claims[c]
    BY <1>4, <1>10 DEF Reworded, ClaimIds
  <2>2. claims[c] \in Nat
    BY <1>0, <2>1 DEF TypeOK
  <2>3. c \in reworded => claims'[c] = claims[c] + 1
    BY <1>1, <2>1
  <2> QED  BY <2>1, <2>2, <2>3
<1>11. KeepsUnaffected
  <2> SUFFICES ASSUME NEW c \in ClaimIds, ~Reworded(c)
               PROVE  {a \in args' : a.claim = c} = {a \in args : a.claim = c}
    BY DEF KeepsUnaffected
  <2>1. c \in DecomposedClaims \ changed
    BY <1>10
  <2> QED  BY <1>3, <1>5, <2>1
<1>12. KeepsReviewed
  <2> SUFFICES ASSUME NEW a \in args, ~Reworded(a.claim)
               PROVE  \E b \in args' : [b EXCEPT !.verified = a.verified] = a
    BY DEF KeepsReviewed
  <2>1. a \in args'
    BY <1>3, <1>10
  <2>2. [a EXCEPT !.verified = a.verified] = a
    BY <1>0, MarkChanged DEF TypeOK, IsArgument
  <2> QED  BY <2>1, <2>2
<1>13. ReportsVerified
  BY <1>7 DEF ReportsVerified
<1> QED  BY <1>9, <1>11, <1>12, <1>13 DEF Promised

\* Whatever stage is run again.
LEMMA RerunPromises ==
    ASSUME ReviewAssumption, ReviewInvariant, Rerun, UNCHANGED setting
    PROVE  ReviewInvariant' /\ Promised
<1>1. phase = "review" /\ plan.size > 0
  BY DEF Rerun
<1>2. ASSUME NEW adaptive \in AdaptiveRevision, RerunReasoning(adaptive)
      PROVE  ReviewInvariant' /\ Promised
  BY <1>1, <1>2, ReasoningPromises
<1>3. CASE RerunArguments
  BY <1>1, <1>3, RegenerationPromises DEF RerunArguments
<1>4. CASE RerunRetrieval
  <2>1. PICK found \in SUBSET Found : Regenerate(AffectedClaims, evidence')
    BY <1>4 DEF RerunRetrieval
  <2>2. PICK known : known = evidence'
    OBVIOUS
  <2>3. Regenerate(AffectedClaims, known)
    BY <2>1, <2>2
  <2>4. excluded' = excluded \cup plan.rejectedEv /\ UNCHANGED claims
    BY <1>4 DEF RerunRetrieval
  <2> QED  BY <1>1, <2>3, <2>4, RegenerationPromises
<1>5. CASE RerunDecomposition
  BY <1>1, <1>5, DecompositionPromises
<1> QED  BY <1>2, <1>3, <1>4, <1>5 DEF Rerun

-----------------------------------------------------------------------------
(* The invariant, and what follows from it.                                 *)

\* Where a review starts.
LEMMA ReviewInit ==
    ASSUME ReviewAssumption, Init
    PROVE  ReviewInvariant
<1>1. \A a \in args : /\ IsArgument(a) /\ a.claim \in BundleClaims /\ a.verified /\ a.ev \cap excluded = {}
  <2> SUFFICES ASSUME NEW a \in args
               PROVE  IsArgument(a) /\ a.claim \in BundleClaims /\ a.verified /\ a.ev \cap excluded = {}
    OBVIOUS
  <2>1. PICK choice \in [BundleClaims -> {s \in SUBSET Drafts : Cardinality(s) <= MaxDrafts}] :
           args = UNION {{Generated(c, d) : d \in choice[c]} : c \in BundleClaims}
    BY DEF Init
  <2>2. PICK c \in BundleClaims : \E d \in choice[c] : a = Generated(c, d)
    BY <2>1
  <2>3. PICK d : a = Generated(c, d)
    BY <2>2
  <2> DEFINE new == GeneratedId(c, d.text)
  <2>4. a = [id |-> new, claim |-> c, text |-> d.text, ev |-> d.ev,
             status |-> "unreviewed", original |-> NoId, verified |-> TRUE]
    BY <2>3 DEF Generated
  <2> HIDE DEF new
  <2>5. IsArgument(a)
    BY <2>4 DEF IsArgument
  <2> QED  BY <2>4, <2>5 DEF Init
<1>2. plan = [targets |-> {}, args |-> {}, claims |-> {}, ev |-> {}, rejectedEv |-> {}, size |-> 0]
  BY DEF Init, NoPlan
<1>3. TypeOK
  <2>1. claims \in [ClaimIds -> Nat] /\ ClaimIds = BundleClaims
    BY DEF Init, ClaimIds
  <2>2. phase = "review" /\ round \in 1 .. MaxRounds
    BY DEF Init, ReviewAssumption, MaxRounds
  <2> QED  BY <1>1, <1>2, <2>1, <2>2 DEF TypeOK, Init
<1>4. PlanInvariant
  BY <1>2 DEF PlanInvariant, Init, ClaimIds
<1>5. UnverifiedInvariant
  BY <1>1 DEF UnverifiedInvariant
<1>6. ReportInvariant
  BY <1>1 DEF ReportInvariant, Init
<1> QED  BY <1>3, <1>4, <1>5, <1>6 DEF ReviewInvariant

\* A later review starts from the reported arguments, with no plan.
LEMMA AgainKeepsInvariant ==
    ASSUME ReviewAssumption, ReviewInvariant, ReviewAgain, UNCHANGED setting
    PROVE  ReviewInvariant'
<1>s. /\ setting' = setting /\ BundleClaims' = BundleClaims /\ MaxRounds' = MaxRounds
      /\ MayDecompose' = MayDecompose
  BY SameSetting
<1> USE <1>s
<1>0. TypeOK /\ ReportInvariant
  BY DEF ReviewInvariant
<1>1. /\ phase' = "review" /\ round' = round + 1 /\ round < MaxRounds /\ UNCHANGED <<args, excluded>>
      /\ plan' = [targets |-> {}, args |-> {}, claims |-> {}, ev |-> {}, rejectedEv |-> {}, size |-> 0]
      /\ claims' \in [BundleClaims -> Nat] /\ ClaimIds' = BundleClaims
  BY DEF ReviewAgain, NoPlan, ClaimIds
<1>2. round' \in 1 .. MaxRounds /\ round' # 1
  BY <1>0, <1>1 DEF TypeOK, ReviewAssumption, MaxRounds
<1>3. TypeOK'
  BY <1>0, <1>1, <1>2 DEF TypeOK
<1>4. PlanInvariant'
  BY <1>1 DEF PlanInvariant
<1>5. UnverifiedInvariant'
  BY <1>2 DEF UnverifiedInvariant
<1>6. ReportInvariant'
  BY <1>0, <1>1 DEF ReportInvariant, MayDecompose
<1> QED  BY <1>3, <1>4, <1>5, <1>6 DEF ReviewInvariant

\* Each step keeps the invariant, and a rerun what it promises.
LEMMA StepKeepsInvariant ==
    ASSUME ReviewAssumption, ReviewInvariant, [Next]_vars
    PROVE  ReviewInvariant' /\ [Promised]_vars
<1>1. CASE Contest /\ UNCHANGED setting
  <2>1. phase' = phase
    BY <1>1 DEF Contest, Accept, Reject, Edit, Add
  <2>2. ~Reruns
    BY <2>1 DEF Reruns
  <2> QED  BY <1>1, <2>2, ContestKeepsInvariant DEF Promised, KeepsUnaffected, KeepsReviewed, ReportsVerified
<1>2. CASE Rerun /\ UNCHANGED setting
  BY <1>2, RerunPromises
<1>3. CASE ReviewAgain /\ UNCHANGED setting
  <2>1. ~Reruns
    BY <1>3 DEF ReviewAgain, Reruns
  <2> QED  BY <1>3, <2>1, AgainKeepsInvariant DEF Promised, KeepsUnaffected, KeepsReviewed, ReportsVerified
<1>4. CASE UNCHANGED vars
  <2>1. ReviewInvariant'
    BY <1>4 DEF vars, ReviewInvariant, TypeOK, PlanInvariant, UnverifiedInvariant, ReportInvariant,
                ClaimIds, Concerned, GraphOf, Included, MayDecompose, ExplicitTargets, BundleClaims, MaxRounds
  <2> QED  BY <1>4, <2>1
<1> QED  BY <1>1, <1>2, <1>3, <1>4 DEF Next

(***************************************************************************)
(* The invariant holds of every review, whatever is contested and in       *)
(* however many rounds.                                                    *)
(***************************************************************************)
THEOREM ReviewInvariantHolds ==
    ASSUME ReviewAssumption
    PROVE  Spec => []ReviewInvariant
<1>1. Init => ReviewInvariant
  BY ReviewInit
<1>2. ReviewInvariant /\ [Next]_vars => ReviewInvariant'
  BY StepKeepsInvariant
<1> QED  BY <1>1, <1>2, PTL DEF Spec

(***************************************************************************)
(* Whatever was accepted takes part in the reasoning of its claim, and     *)
(* where no contestation asks for a new decomposition nothing generated    *)
(* rests on evidence that was ever rejected.                               *)
(***************************************************************************)
THEOREM ReportReflects ==
    ASSUME ReviewAssumption
    PROVE  Spec => []ReportReflectsReview
<1>1. ReviewInvariant => ReportReflectsReview
  <2> SUFFICES ASSUME ReviewInvariant
               PROVE  ReportReflectsReview
    OBVIOUS
  <2>1. phase = "reported" => graph = GraphOf(args, ClaimIds)
    BY DEF ReviewInvariant, ReportInvariant
  <2>2. AcceptedTakesPart
    BY <2>1 DEF AcceptedTakesPart, GraphOf, Included
  <2>3. ~MayDecompose => RejectedEvidenceUnused
    BY <2>1 DEF ReviewInvariant, ReportInvariant, RejectedEvidenceUnused, GraphOf, Included
  <2> QED  BY <2>2, <2>3 DEF ReportReflectsReview
<1> QED  BY <1>1, ReviewInvariantHolds, PTL

(***************************************************************************)
(* Whatever stage is run again, in any round, the rerun keeps the          *)
(* arguments of claims that the batch does not concern and every argument  *)
(* a human reviewed.                                                       *)
(***************************************************************************)
THEOREM RerunsKeep ==
    ASSUME ReviewAssumption
    PROVE  Spec => RerunKeeps
<1>1. ReviewInvariant /\ [Next]_vars => [KeepsUnaffected /\ KeepsReviewed]_vars
  BY StepKeepsInvariant DEF Promised
<1> QED  BY <1>1, ReviewInvariantHolds, PTL DEF Spec, RerunKeeps

(***************************************************************************)
(* No report of a first review rests on human text that was not verified,  *)
(* when the batch was routed to the arguments or to the evidence.          *)
(***************************************************************************)
THEOREM ReportsAreVerified ==
    ASSUME ReviewAssumption
    PROVE  Spec => ReviewedIsVerified
<1>1. ReviewInvariant /\ [Next]_vars => [ReportsVerified]_vars
  BY StepKeepsInvariant DEF Promised
<1> QED  BY <1>1, ReviewInvariantHolds, PTL DEF Spec, ReviewedIsVerified

=============================================================================
