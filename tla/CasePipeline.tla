---------------------------- MODULE CasePipeline ----------------------------
(***************************************************************************)
(* One case from its input to the files of its report: guards, claims,     *)
(* memory, planning, research and reasoning in pools of worker threads,    *)
(* review, reflection, and what is saved.  Runs of the same case follow    *)
(* one another and may be killed.                                          *)
(* Source: src/main.py and the stages it calls.                            *)
(*                                                                         *)
(* What a stage computes is abstracted to the claim it was computed for;   *)
(* argumentation, review and memory have modules of their own.             *)
(***************************************************************************)
EXTENDS Naturals, Sequences, FiniteSets, SequencesExt, FiniteSetsExt

CONSTANTS
    Types,       \* sequence of the claim types a case is decomposed into
    Setups       \* name -> what a case may be run with, see setup

Modes == {"inference_only", "test", "self_evolving", "bootstrap_memory"}
Learning == {"self_evolving", "bootstrap_memory"}

\* claims: ids of the claims of the bundle, <<>> if it has none; marked: whether
\* the bundle says gold was read; goldItems: whether it holds gold-only items;
\* review: what is given as human review; trace: save_case_trace.
CaseType ==
    [mode: Modes, claims: {<<>>}, marked: BOOLEAN, goldItems: BOOLEAN, label: BOOLEAN,
     review: {"none", "malformed", "batch", "unreadable"}, mayReview: BOOLEAN,
     memory: BOOLEAN, update: BOOLEAN, frozen: BOOLEAN, trace: BOOLEAN,
     search: BOOLEAN]

PipelineAssumption ==
    /\ Types \in Seq(STRING)
    /\ \A s \in DOMAIN Setups :
         /\ \A c \in Setups[s].cases :
              [c EXCEPT !.claims = <<>>] \in CaseType /\ c.claims \in Seq(STRING)
         /\ \A a \in Setups[s].answers : a \in Seq(STRING) /\ Range(a) \subseteq Range(Types)
         /\ Setups[s].workers \in Nat \ {0}
         /\ Setups[s].runs \in Nat \ {0} /\ Setups[s].faults \in Nat

VARIABLES
    stage, run,   \* stage of the run; number of the run
    case,         \* what it was asked
    claims,       \* sequence of claim ids
    task,         \* of the parallel section: task[i] for claim i
    results,      \* results_by_claim: [claim id -> the claim whose result is kept]
    evidence,     \* where the evidence comes from
    report,       \* of each claim of the report, the claim it is about
    happened, events,     \* fallbacks taken; fallbacks the diagnostics know of
    staged,       \* the run has staged short-term memory
    usage,        \* stages of the usage events of the run
    goldRead,     \* the run has read the gold label
    files,        \* [file -> the run that wrote it, 0 if there is none]
    setup         \* name of what the runs of the case have in common

pool == <<claims, task, results>>
diagnostics == <<happened, events>>
effects == <<staged, usage, goldRead>>
caseVars == <<stage, run, case, pool, evidence, report, diagnostics, effects, files, setup>>

\* What a run may be asked, see CaseType; what the language model may return,
\* sequences of types; SEMV_MAX_WORKERS.
Cases == Setups[setup].cases
Answers == Setups[setup].answers
Workers == Setups[setup].workers

\* Bounds: runs of the case, exceptions in threads.
MaxRuns == Setups[setup].runs
MaxFaults == Setups[setup].faults

\* No report: no claim has that number.
None == <<0>>

\* _save_case_outputs writes them in this order.
FileOrder == <<"evidence", "arguments", "diagnostics", "trace", "report", "review", "updates", "log">>
Written(c) ==
    {f \in Range(FileOrder) : (f = "trace" => c.trace) /\ (f = "review" => c.review = "batch")}

CaseInit ==
    /\ setup \in DOMAIN Setups
    /\ stage = "start" /\ run = 1 /\ case \in Cases
    /\ claims = <<>> /\ task = <<>> /\ results = <<>> /\ evidence = {} /\ report = None
    /\ happened = {} /\ events = {}
    /\ staged = FALSE /\ usage = {} /\ goldRead = FALSE
    /\ files = [f \in Range(FileOrder) |-> 0]

-----------------------------------------------------------------------------
\* Before the first model is called.

\* A mapping that is no batch is refused by run_case; a review that the case
\* does not allow and gold in the input of a prediction are refused next.
Refused(c) ==
    \/ c.review = "malformed"
    \/ c.review # "none" /\ ~c.mayReview
    \/ c.mode \in {"inference_only", "test"} /\ (c.marked \/ c.goldItems)

\* Mutant: the case is converted with everything it holds.
MediaUnfiltered ==
    /\ stage = "start"
    /\ stage' = IF Refused(case) THEN "refused" ELSE "claims"
    /\ evidence' = IF Refused(case) THEN {} ELSE {<<"media">>} \cup (IF case.goldItems THEN {<<"gold">>} ELSE {})
    /\ UNCHANGED <<run, case, pool, report, diagnostics, effects, files>>

\* The case that is predicted on has no gold-only item, in no mode.
Media ==
    /\ stage = "start"
    /\ stage' = IF Refused(case) THEN "refused" ELSE "claims"
    /\ evidence' = IF Refused(case) THEN {} ELSE {<<"media">>}
    /\ UNCHANGED <<run, case, pool, report, diagnostics, effects, files>>

\* _ensure_all_types: the types that are missing follow, in their order.
Completed(answer) ==
    LET missing == {k \in DOMAIN Types : Types[k] \notin Range(answer)}
        nth(n) == CHOOSE k \in missing : Cardinality({j \in missing : j <= k}) = n
    IN  answer \o [n \in 1 .. Cardinality(missing) |-> Types[nth(n)]]

\* _claims_from_bundle keeps the ids and the order.
ClaimsOfBundle == case.claims

\* The claims of the bundle, or what the language model makes of the case: an
\* answer without a known type, and an error, fall back to one claim per type.
\* A claim is named after its type.
Decompose ==
    /\ stage = "claims"
    /\ \/ ClaimsOfBundle # <<>> /\ claims' = ClaimsOfBundle /\ UNCHANGED diagnostics
       \/ ClaimsOfBundle = <<>> /\ \E a \in Answers : claims' = Completed(a) /\ UNCHANGED diagnostics
       \/ /\ ClaimsOfBundle = <<>> /\ claims' = Types
          /\ happened' = happened \cup {<<"claims", 0>>} /\ events' = events \cup {<<"claims", 0>>}
    /\ stage' = "memory"
    /\ UNCHANGED <<run, case, task, results, evidence, report, effects, files>>

-----------------------------------------------------------------------------
\* A parallel section.  The pool takes the claims in their order; the results
\* are collected as they complete and kept by claim id.  Claims are of the types
\* that are planned in the pool: others are planned by the main thread.

Sections == {"plan", "research", "argue"}
InSection == stage \in Sections \cup {"failing"}
MaxWorkers == Min({Len(claims), Workers})
Sequential == MaxWorkers <= 1
NumTasks(status) == Cardinality({i \in DOMAIN task : task[i] = status})

Enter(section) ==
    /\ stage' = section
    /\ task' = [i \in DOMAIN claims |-> "queued"]
    /\ results' = [id \in Range(claims) |-> 0]

\* Mutant: once a claim has failed no other is started.
TakeUnlessFailing ==
    /\ stage \in Sections /\ NumTasks("running") < MaxWorkers
    /\ \E i \in DOMAIN task :
          /\ task[i] = "queued" /\ \A j \in 1 .. i - 1 : task[j] # "queued"
          /\ task' = [task EXCEPT ![i] = "running"]
    /\ UNCHANGED <<stage, run, case, claims, results, evidence, report, diagnostics, effects, files>>

Take ==
    /\ InSection /\ NumTasks("running") < MaxWorkers
    /\ \E i \in DOMAIN task :
          /\ task[i] = "queued" /\ \A j \in 1 .. i - 1 : task[j] # "queued"
          /\ task' = [task EXCEPT ![i] = "running"]
    /\ UNCHANGED <<stage, run, case, claims, results, evidence, report, diagnostics, effects, files>>

\* A task ends, perhaps with a fallback.  A fallback of a worker thread is
\* recorded in the context of that thread, where nobody looks for it.
Return ==
    /\ InSection
    /\ \E i \in DOMAIN task :
          /\ task[i] = "running"
          /\ task' = [task EXCEPT ![i] = "returned"]
          /\ \/ UNCHANGED diagnostics
             \/ /\ Cardinality(happened) < MaxFaults
                /\ happened' = happened \cup {<<stage, i>>}
                /\ events' = IF Sequential THEN events \cup {<<stage, i>>} ELSE events
    /\ UNCHANGED <<stage, run, case, claims, results, evidence, report, effects, files>>

\* Mutant: the result is kept under the claim that was submitted last.
CollectLateBound ==
    /\ stage \in Sections
    /\ \E i \in DOMAIN task :
          /\ task[i] = "returned"
          /\ task' = [task EXCEPT ![i] = "collected"]
          /\ results' = [results EXCEPT ![claims[Len(claims)]] = i]
    /\ UNCHANGED <<stage, run, case, claims, evidence, report, diagnostics, effects, files>>

\* The main thread takes the result of a task that has ended.
Collect ==
    /\ stage \in Sections
    /\ \E i \in DOMAIN task :
          /\ task[i] = "returned"
          /\ task' = [task EXCEPT ![i] = "collected"]
          /\ results' = [results EXCEPT ![claims[i]] = i]
    /\ UNCHANGED <<stage, run, case, claims, evidence, report, diagnostics, effects, files>>

\* Mutant: the fallback of a plan is not recorded.
RaiseSilently ==
    /\ InSection /\ Cardinality(happened) < MaxFaults
    /\ \E i \in DOMAIN task :
          /\ stage = "plan" /\ task[i] = "running"
          /\ happened' = happened \cup {<<stage, i>>}
          /\ task' = [task EXCEPT ![i] = "collected"]
          /\ results' = [results EXCEPT ![claims[i]] = i]
    /\ UNCHANGED <<stage, run, case, claims, events, evidence, report, effects, files>>

\* A task raises: planning falls back and says so in the main thread; research
\* and reasoning wait for what was submitted and let the case fail.
Raise ==
    /\ InSection /\ Cardinality(happened) < MaxFaults
    /\ \E i \in DOMAIN task :
          /\ task[i] = "running"
          /\ happened' = happened \cup {<<stage, i>>}
          /\ IF stage = "plan"
             THEN /\ task' = [task EXCEPT ![i] = "collected"]
                  /\ results' = [results EXCEPT ![claims[i]] = i]
                  /\ events' = events \cup {<<stage, i>>} /\ stage' = stage
             ELSE /\ task' = [j \in DOMAIN task |-> IF j = i THEN "collected"
                                                   ELSE IF Sequential /\ task[j] = "queued" THEN "collected"
                                                   ELSE task[j]]
                  /\ stage' = "failing" /\ UNCHANGED <<results, events>>
    /\ UNCHANGED <<run, case, claims, evidence, report, effects, files>>

\* The pool is shut down when all that was submitted has ended.
Fail ==
    /\ stage = "failing" /\ NumTasks("queued") + NumTasks("running") = 0
    /\ stage' = "failed"
    /\ UNCHANGED <<run, case, pool, evidence, report, diagnostics, effects, files>>

Finished == NumTasks("collected") = Len(task)

\* One claim after the other, or what was kept under the id of each claim.
Joined ==
    IF Sequential THEN [i \in DOMAIN claims |-> i] ELSE [i \in DOMAIN claims |-> results[claims[i]]]

-----------------------------------------------------------------------------
\* The stages between.

\* Retrieval itself is MemoryRetrieval; here memory is retrieved or is not.
Memory ==
    /\ stage = "memory" /\ Enter("plan")
    /\ UNCHANGED <<run, case, claims, evidence, report, diagnostics, effects, files>>

PlanDone ==
    /\ stage = "plan" /\ Finished /\ Enter(IF case.search THEN "research" ELSE "argue")
    /\ UNCHANGED <<run, case, claims, evidence, report, diagnostics, effects, files>>

ResearchDone ==
    /\ stage = "research" /\ Finished /\ Enter("argue")
    /\ evidence' = evidence \cup {<<"found for", i>> : i \in Range(Joined)}
    /\ UNCHANGED <<run, case, claims, report, diagnostics, effects, files>>

\* The verdict and the report; the usage of memory is logged, and what goes
\* wrong with that is only a warning.
Report ==
    /\ stage = "argue" /\ Finished
    /\ report' = Joined
    /\ \/ usage' = IF case.memory THEN {"retrieved", "cited"} ELSE {}
       \/ usage' = {}
    /\ stage' = "review"
    /\ UNCHANGED <<run, case, pool, evidence, diagnostics, staged, goldRead, files>>

\* A review file is read now, when the case has been predicted.
Review ==
    /\ stage = "review"
    /\ stage' = IF case.review = "unreadable" THEN "failed" ELSE "learn"
    /\ usage' = usage \cup (IF case.review = "batch" THEN {"contested"} ELSE {})
    /\ UNCHANGED <<run, case, pool, evidence, report, diagnostics, staged, goldRead, files>>

Supervised == case.label \/ case.review = "batch"

\* Mutant: a frozen memory is not looked for.
LearnFrozen ==
    /\ stage = "learn"
    /\ IF case.mode \in Learning /\ Supervised
       THEN goldRead' = case.label /\ staged' \in {FALSE, case.update}
       ELSE UNCHANGED <<goldRead, staged>>
    /\ stage' = "save"
    /\ UNCHANGED <<run, case, pool, evidence, report, diagnostics, usage, files>>

\* Gold is revealed and reflected on; every candidate may be rejected.
Learn ==
    /\ stage = "learn"
    /\ IF case.mode \in Learning /\ Supervised
       THEN /\ goldRead' = case.label
            /\ staged' \in {FALSE, case.update /\ ~case.frozen}
       ELSE UNCHANGED <<goldRead, staged>>
    /\ stage' = "save"
    /\ UNCHANGED <<run, case, pool, evidence, report, diagnostics, usage, files>>

\* Files that the run has still to write.
Unwritten == {k \in DOMAIN FileOrder : FileOrder[k] \in Written(case) /\ files[FileOrder[k]] # run}

\* Mutant: the report is written first.
SaveReportFirst ==
    /\ stage = "save" /\ Unwritten # {}
    /\ LET f == IF files["report"] # run THEN "report" ELSE FileOrder[Min(Unwritten)]
       IN  files' = [files EXCEPT ![f] = run]
    /\ UNCHANGED <<stage, run, case, pool, evidence, report, diagnostics, effects>>

\* Each file is replaced as a whole; no file of an earlier run is removed.
Save ==
    /\ stage = "save" /\ Unwritten # {}
    /\ files' = [files EXCEPT ![FileOrder[Min(Unwritten)]] = run]
    /\ UNCHANGED <<stage, run, case, pool, evidence, report, diagnostics, effects>>

Saved ==
    /\ stage = "save" /\ Unwritten = {}
    /\ stage' = "done"
    /\ UNCHANGED <<run, case, pool, evidence, report, diagnostics, effects, files>>

-----------------------------------------------------------------------------
Ended == stage \in {"done", "failed", "refused"}

\* The case is run again, after the run before has ended or was killed.
RunAgain ==
    /\ stage # "start" /\ run < MaxRuns
    /\ run' = run + 1 /\ case' \in Cases
    /\ stage' = "start" /\ claims' = <<>> /\ task' = <<>> /\ results' = <<>>
    /\ evidence' = {} /\ report' = None /\ happened' = {} /\ events' = {}
    /\ staged' = FALSE /\ usage' = {} /\ goldRead' = FALSE
    /\ UNCHANGED <<files, setup>>

CaseStep ==
    /\ \/ Media \/ Decompose \/ Memory \/ Take \/ Return \/ Collect \/ Raise \/ Fail
       \/ PlanDone \/ ResearchDone \/ Report \/ Review \/ Learn \/ Save \/ Saved
    /\ UNCHANGED setup

CaseNext == CaseStep \/ RunAgain

CaseSpec == CaseInit /\ [][CaseNext]_caseVars

\* Threads that run get to the end of what they do.
CaseFairSpec == CaseSpec /\ WF_caseVars(CaseStep)

-----------------------------------------------------------------------------
CaseTypeOK ==
    /\ setup \in DOMAIN Setups
    /\ run \in 1 .. MaxRuns /\ case \in Cases
    /\ DOMAIN claims = 1 .. Len(claims) /\ Len(claims) \in Nat
    /\ DOMAIN task = 1 .. Len(task) /\ Len(task) \in Nat
    /\ Range(task) \subseteq {"queued", "running", "returned", "collected"}
    /\ report # None => report \in [DOMAIN claims -> DOMAIN claims]
    /\ files \in [Range(FileOrder) -> 0 .. MaxRuns]
    /\ events \subseteq happened

\* In no mode, learning included, does a prediction see an item that is gold,
\* and the label is read when the report is made (README.md:49-50, 928-930; case_bundle_schema.py:250-284).
GoldUnseen == <<"gold">> \notin evidence /\ (goldRead => report # None)

\* What is staged was learned in a learning mode, from an unfrozen memory that
\* the case may update, when the report was made (main.py:338-382).
LearnsOnlyWhereAllowed ==
    staged => /\ case.mode \in Learning /\ case.update /\ ~case.frozen
              /\ report # None /\ Supervised

\* Gold is kept from the prediction, and learned from only where that is allowed.
GoldGuarded == GoldUnseen /\ LearnsOnlyWhereAllowed

Distinct == \A i, j \in DOMAIN claims : claims[i] = claims[j] => i = j

AllFound == case.search => \A i \in DOMAIN claims : <<"found for", i>> \in evidence

\* However the threads are scheduled, the claim at each place of the report is
\* the one of that place, and all that was found for the claims is there
\* (README.md:961-962; main.py:860-862, 1016-1019); several threads need claims
\* of different names.
ParallelIsSequential ==
    report # None /\ (Sequential \/ Distinct) =>
        report = [i \in DOMAIN claims |-> i] /\ AllFound

\* A report never lies beside parts older than itself, wherever the run that
\* wrote it or the one after it was killed (main.py:1100-1110).
ReportAfterItsParts ==
    \A part \in {"evidence", "arguments", "diagnostics"} : files[part] >= files["report"]

\* The fallbacks of a report are those that were taken, where the claims are
\* processed one after the other (main.py:384-388, diagnostics.py:33-35).
FallbacksReported == stage = "done" /\ Sequential => events = happened

\* A report is about claims that there are, has its parts, and names the
\* fallbacks.
ReportComplete == CaseTypeOK /\ ReportAfterItsParts /\ FallbacksReported

\* Whatever the report is asked, and whatever a thread raises, the run ends.
CaseEnds == <>[]Ended

-----------------------------------------------------------------------------
Before == {"start", "refused", "claims", "memory"} \cup Sections \cup {"failing"}
After == {"review", "learn", "save", "done"}

\* What is kept under the id of a collected claim is of a claim with that id.
Kept ==
    stage \in Sections =>
      /\ DOMAIN task = DOMAIN claims /\ DOMAIN results = Range(claims)
      /\ \A i \in DOMAIN task : task[i] = "collected" =>
           LET k == results[claims[i]] IN k \in DOMAIN claims /\ claims[k] = claims[i]

ReportInvariant ==
    /\ stage \in Before \cup After \cup {"failed"}
    /\ stage \in Before => report = None /\ ~goldRead /\ ~staged
    /\ stage \in After => report # None
    /\ stage = "argue" /\ (Sequential \/ Distinct) => AllFound
    /\ stage \in {"start", "claims"} => events = happened
    /\ Sequential /\ stage \notin {"failing", "failed"} => events = happened

\* Until a run saves, the files are those of the runs before it.
FilesInvariant ==
    /\ \A f \in DOMAIN files : files[f] <= run
    /\ stage \notin {"save", "done"} => \A f \in DOMAIN files : files[f] < run
    /\ files["report"] = run =>
         \A part \in {"evidence", "arguments", "diagnostics"} : files[part] = run

CaseInvariant ==
    /\ Kept /\ ReportInvariant /\ FilesInvariant
    /\ GoldGuarded /\ ParallelIsSequential /\ ReportComplete
=============================================================================
