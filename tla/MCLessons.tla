----------------------------- MODULE MCLessons ------------------------------
(***************************************************************************)
(* An instance of Reflection, what is learned from a case, and one of      *)
(* MemoryGeneralization, what rules are made of lessons, with two batches  *)
(* of rows.  They share no state: one is at rest while the other is        *)
(* explored.                                                               *)
(***************************************************************************)
EXTENDS Reflection, MemoryGeneralization, TLC

VARIABLE explored

-----------------------------------------------------------------------------
Item(id, flags, provenance, reliability) ==
    [id |-> id, flags |-> flags, provenance |-> provenance, reliability |-> reliability]
Arg(id, evidence, score) == [id |-> id, evidence |-> evidence, score |-> score]
Sub(type, reason, confidence, support, attack) ==
    [type |-> type, reason |-> reason, confidence |-> confidence, support |-> support, attack |-> attack]

\* A case of training, the same case after a review that removed an argument,
\* a case of validation, and one without evidence.
MCReports ==
    LET e1 == Item("e1", {}, TRUE, 80)
        e2 == Item("e2", {"tool_failed"}, FALSE, 30)
        a1 == Arg("a1", {"e1"}, 90)
        a2 == Arg("a2", {"e2"}, 40)
        a3 == Arg("a3", {}, 60)
        finished(case, split, status, confidence, evidence, subclaims) ==
            [case |-> case, split |-> split, status |-> status, confidence |-> confidence,
             evidence |-> evidence, subclaims |-> subclaims]
    IN  {finished("c1", "train", "verified", 85, <<e1, e2>>,
                <<Sub("when", {"publication"}, 80, <<a1, a3>>, <<a2>>), Sub("where", {"camera"}, 50, <<a2>>, <<>>)>>),
         finished("c1", "train", "false_context", 75, <<e1, e2>>, <<Sub("when", {"clash"}, 60, <<a1>>, <<>>)>>),
         finished("c2", "validation", "verified", 85, <<e1>>, <<Sub("what", {}, 80, <<a1>>, <<>>)>>),
         finished("c3", "train", "uncertain", 20, <<>>, <<>>)}

MCGolds == {None, "verified", "manipulated_or_synthetic"}
MCFeedback == {None, [edited |-> TRUE]}

Lesson(text, confidence, evidence, arguments) ==
    [text |-> text, confidence |-> confidence, evidence |-> evidence, arguments |-> arguments]
Failure(kind, text, confidence, evidence) ==
    [kind |-> kind, text |-> text, confidence |-> confidence, evidence |-> evidence, arguments |-> {}]
Rule(text, evidence, pattern) ==
    [text |-> text, confidence |-> 90, evidence |-> evidence, arguments |-> {"a1"},
     pattern |-> pattern, trigger |-> TRUE, action |-> TRUE]

MCAnswers ==
    {[episodic |-> Lesson("seen", 70, {"e1"}, {"a2"}),
      failures |-> <<Failure("temporal_publication_event_confusion", "bound it", 80, {"e1"}),
                     Failure("successful_strategy", "search again", 80, {"e1"})>>,
      semantic |-> Rule("rule", {"e1"}, TRUE)],
     [episodic |-> Lesson("seen again", 40, {"e9"}, {}),
      failures |-> <<Failure("hallucinated_source", "check it", 80, {"e1", "e9"})>>,
      semantic |-> Rule("rule", {"e9"}, FALSE)],
     [episodic |-> None, failures |-> <<>>, semantic |-> None]}

-----------------------------------------------------------------------------
\* Rows that say "reused", of two independent cases and of a third with the source
\* of one, which is not grounded; and two that say "recycled", of two more cases.
MCObs == {"a1", "a2", "a3", "b1", "b2"}
MCCaseOf == "a1" :> "c1" @@ "a2" :> "c2" @@ "a3" :> "c3" @@ "b1" :> "c3" @@ "b2" :> "c4"
MCSourceOf == "a1" :> "s1" @@ "a2" :> "s2" @@ "a3" :> "s2" @@ "b1" :> "s3" @@ "b2" :> "s4"
MCTextOf == [o \in MCObs |-> IF o \in {"b1", "b2"} THEN "recycled" ELSE "reused"]
MCConfidenceOf == "a1" :> 8 @@ "a2" :> 5 @@ "a3" :> 7 @@ "b1" :> 6 @@ "b2" :> 4
MCGroundedOf == [o \in MCObs |-> o # "a3"]
MCWordings == {"reused", "recycled", "general"}
MCNear == {<<w, w>> : w \in MCWordings}
MCAlike == MCNear \cup {"reused", "general"} \X {"reused", "general"}

\* One wording with a crash, a review and a confidence below the threshold; and
\* two wordings whose rows expire while a proposal is recovered.
MCBatches ==
    [proposals |-> [rows |-> {"a1", "a2", "a3"}, wordings |-> {"reused", "general"},
                    confidences |-> {4, 8}, archive |-> TRUE,
                    crashes |-> 1, reviews |-> 1, expired |-> 0],
     recovery |-> [rows |-> {"a1", "a2", "b1", "b2"}, wordings |-> {"reused", "recycled"},
                   confidences |-> {8}, archive |-> FALSE,
                   crashes |-> 0, reviews |-> 0, expired |-> 1]]

ASSUME ReflectionAssumption /\ GeneralizationAssumption

-----------------------------------------------------------------------------
LessonInit ==
    /\ Init /\ RuleInit
    /\ \/ explored = "cases" /\ batch = "proposals"
       \/ explored = "rules"

Reflect == explored = "cases" /\ Next /\ UNCHANGED <<explored, ruleVars>>
Generalizing == explored = "rules" /\ RuleNext /\ UNCHANGED <<explored, vars>>

LessonSpec == LessonInit /\ [][Reflect \/ Generalizing]_<<vars, ruleVars, explored>>
=============================================================================
