------------------------------- MODULE MCRuns -------------------------------
(***************************************************************************)
(* An instance of FrozenProtocol, three training cases and three to        *)
(* evaluate on, and one of CasePipeline with three setups, a case from its *)
(* input to its files.  They share no state: one is at rest while the      *)
(* other is explored.                                                      *)
(***************************************************************************)
EXTENDS FrozenProtocol, CasePipeline

MCTrain == <<"t1", "t2", "t3">>
MCPhases == <<[dataset |-> "mv2026", cases |-> {"v1", "v2"}], [dataset |-> "cosmos", cases |-> {"x1"}]>>
MCVariants == <<FALSE, TRUE>>
MCForeign == "foreign"
MCProtocols == {"static", "prequential", "freeze", "transfer", "ablations"}
MCSources == {"none", "no manifest", "stale manifest", "empty", "good"}
MCBoth == BOOLEAN

-----------------------------------------------------------------------------
MCTypes == <<"what", "where">>

Asked == [mode |-> "inference_only", claims |-> <<"c1", "c2">>, marked |-> FALSE, goldItems |-> FALSE,
          label |-> TRUE, review |-> "none", mayReview |-> TRUE, memory |-> TRUE, update |-> TRUE,
          frozen |-> TRUE, trace |-> TRUE, search |-> TRUE]

\* Two threads, with an exception or a fallback in one of them: three claims,
\* with the guards and the ways to learn.
Pool ==
    [cases |->
        {[Asked EXCEPT !.claims = <<"c1", "c2", "c3">>, !.mode = m, !.goldItems = g, !.frozen = f,
                       !.marked = k, !.review = r, !.mayReview = y, !.update = u] :
            m \in {"inference_only", "test", "self_evolving", "bootstrap_memory"},
            g, f, k, y, u \in BOOLEAN, r \in {"none", "malformed", "batch", "unreadable"}},
     answers |-> {<<>>}, workers |-> 2, runs |-> 1, faults |-> 1]

\* What is saved, by runs of one case that are killed and repeated.
Repeated ==
    [cases |->
        {[Asked EXCEPT !.review = r, !.trace = t, !.mode = "self_evolving",
                       !.frozen = FALSE, !.label = l, !.memory = m, !.search = m] :
            r \in {"none", "batch", "unreadable"}, t, l, m \in BOOLEAN},
     answers |-> {<<>>}, workers |-> 2, runs |-> 2, faults |-> 0]

\* One thread, with up to three fallbacks: claims that a language model has to
\* find; it may name a type twice.
Alone ==
    [cases |-> {[Asked EXCEPT !.claims = <<>>]},
     answers |-> {<<>>, <<"where">>, <<"where", "what">>, <<"what", "what">>},
     workers |-> 1, runs |-> 1, faults |-> 3]

MCSetups == [pool |-> Pool, repeated |-> Repeated, alone |-> Alone]

VARIABLE explored

ASSUME PipelineAssumption

-----------------------------------------------------------------------------
AtRest == config = [protocol |-> "static", resume |-> FALSE, paired |-> FALSE, update |-> FALSE, source |-> "none"]

RunsInit ==
    /\ Init /\ CaseInit
    /\ \/ explored = "protocol" /\ setup = "alone"
       \/ explored = "case" /\ AtRest

Evaluation == explored = "protocol" /\ Next /\ UNCHANGED <<explored, caseVars>>
CaseGoes == explored = "case" /\ CaseNext /\ UNCHANGED <<explored, vars>>

\* The steps that a process takes when nothing stops it; of a case, on threads
\* with one run.
Progress ==
    \/ explored = "protocol" /\ Step /\ UNCHANGED <<explored, caseVars>>
    \/ explored = "case" /\ setup = "pool" /\ CaseStep /\ UNCHANGED <<explored, vars>>

runsVars == <<vars, caseVars, explored>>

RunsSpec == RunsInit /\ [][Evaluation \/ CaseGoes]_runsVars /\ WF_runsVars(Progress)

-----------------------------------------------------------------------------
\* A run of a protocol and a case come to an end, whatever is asked and whatever a
\* thread raises (protocol_runner.py:60-110, main.py:80-406).
RunsEnd ==
    /\ explored = "protocol" => RunEnds
    /\ explored = "case" /\ setup = "pool" => CaseEnds
=============================================================================
