---------------------------- MODULE MemoryUsage -----------------------------
(***************************************************************************)
(* What becomes of the citations of memory records: a case logs them, with *)
(* what came of them, and a consolidation counts each use once, in another *)
(* process if need be, and may be killed between its writes.               *)
(* Source: src/main.py, src/memory/memory_service.py, memory_store.py,     *)
(* memory_consolidator.py (_rollup_usage and the writes after it).         *)
(*                                                                         *)
(* The rest of a consolidation is in MemoryConsolidation.                  *)
(***************************************************************************)
EXTENDS Naturals, Sequences, FiniteSets, SequencesExt

CONSTANTS
    Cases, Args, Memories,
    LongTerm,      \* the long-term records; what is left is short-term
    Split,         \* [Cases -> STRING]
    Frozen,        \* the cases whose service is frozen
    Override,      \* [Cases -> "none", "outside" or "inside": usage_log_path]
    Plans          \* name -> how the cases are run, see plan

UsageAssumption ==
    /\ \A S \in {Cases, Args, Memories} : IsFiniteSet(S)
    /\ LongTerm \subseteq Memories /\ Frozen \subseteq Cases
    /\ Override \in [Cases -> {"none", "outside", "inside"}]
    /\ \A p \in DOMAIN Plans :
         /\ Plans[p].apart \in BOOLEAN /\ Plans[p].runs \in [Cases -> Nat]
         /\ Plans[p].crashes \in Nat /\ Plans[p].failures \in Nat

VARIABLES
    pc, runs,       \* [case -> where it is], [case -> how often it was begun]
    cites,          \* [case -> [planner, arguments]]
    toLog,          \* [case -> events of its stage still to be logged, in order]
    log, external,  \* memory_usage_events.jsonl, and the one of usage_log_path
    records,        \* [long-term record -> its usage fields]
    journal,        \* usage_rollup rows of consolidation_events.jsonl
    toWrite, toNote,\* of the consolidation that holds the lock
    locked, crashes, failures,
    plan            \* name of how the cases are run

cases == <<pc, runs, cites, toLog>>
consolidation == <<toWrite, toNote, locked>>
vars == <<cases, log, external, records, journal, consolidation, crashes, failures, plan>>

\* No consolidation during a case, and no case run twice.
Apart == Plans[plan].apart

\* Bounds: [case -> its runs], kills, events that cannot be written.
MaxRuns == Plans[plan].runs
MaxCrashes == Plans[plan].crashes
MaxFailures == Plans[plan].failures

Unused == [uses |-> {}, version |-> 1, count |-> 0, successful |-> 0, contested |-> 0, unsuccessful |-> 0]
NoCitation == [planner |-> {}, arguments |-> [a \in Args |-> {}]]

Init ==
    /\ plan \in DOMAIN Plans
    /\ pc = [c \in Cases |-> "new"] /\ runs = [c \in Cases |-> 0]
    /\ cites = [c \in Cases |-> NoCitation] /\ toLog = [c \in Cases |-> <<>>]
    /\ log = {} /\ external = {} /\ journal = {}
    /\ records = [m \in LongTerm |-> Unused]
    /\ toWrite = <<>> /\ toNote = {} /\ locked = FALSE
    /\ crashes = 0 /\ failures = 0

Event(c, m, stage, arg, outcome) ==
    [case |-> c, memory |-> m, stage |-> stage, arg |-> arg, outcome |-> outcome]

-----------------------------------------------------------------------------
\* The stages of a case.

\* One outcome for the memories that these arguments cite.
Outcomes(c, use, args, outcome) ==
    SetToSeq(UNION {{Event(c, m, "argument_cited", a, outcome) : m \in use.arguments[a]} : a \in args})

\* _log_memory_usage. An argument the verifier accepted is logged as grounded,
\* which counts as unknown does.
Citations(c, use) ==
    SetToSeq({Event(c, m, "retrieved", "none", "unknown") : m \in Memories})
    \o SetToSeq({Event(c, m, "planner_cited", "none", "unknown") : m \in use.planner})
    \o Outcomes(c, use, Args, "unknown")

Stage(c, from, to, events) ==
    /\ pc[c] = from /\ toLog[c] = <<>>
    /\ pc' = [pc EXCEPT ![c] = to]
    /\ toLog' = [toLog EXCEPT ![c] = events]
    /\ UNCHANGED <<log, external, records, journal, consolidation, crashes, failures>>

\* All memories are retrieved; the planner and the arguments cite some.
Predict(c) ==
    /\ runs[c] < MaxRuns[c] /\ (Apart => runs[c] = 0)
    /\ runs' = [runs EXCEPT ![c] = @ + 1]
    /\ \E planner \in SUBSET Memories, args \in [Args -> SUBSET Memories] :
          LET use == [planner |-> planner, arguments |-> args]
          IN  /\ cites' = [cites EXCEPT ![c] = use]
              /\ Stage(c, "new", "predicted", Citations(c, use))

\* A reviewer rejects or edits some of the arguments, or there is no review.
\* An adaptive revision may make the arguments anew, after the citations of
\* the first ones are logged.
Review(c) ==
    \E contested \in SUBSET Args, revised \in [Args -> SUBSET Memories] :
        /\ contested = {} => revised = cites[c].arguments
        /\ cites' = [cites EXCEPT ![c].arguments = revised]
        /\ Stage(c, "predicted", "reviewed", Outcomes(c, cites[c], contested, "contested"))
        /\ UNCHANGED runs

\* Gold is revealed in training: every argument shares the outcome of the
\* prediction. Otherwise, or without gold, nothing is logged.
Supervise(c) ==
    /\ \/ /\ c \notin Frozen /\ Split[c] \in {"train", "training"}
          /\ \E outcome \in {"successful", "unsuccessful"} :
                Stage(c, "reviewed", "supervised", Outcomes(c, cites[c], Args, outcome))
       \/ Stage(c, "reviewed", "supervised", <<>>)
    /\ UNCHANGED <<runs, cites>>

Finish(c) ==
    /\ Stage(c, "supervised", "done", <<>>)
    /\ cites' = [cites EXCEPT ![c] = NoCitation]
    /\ UNCHANGED runs

\* The same case is run again later, with a review for instance.
RunAgain(c) ==
    /\ ~Apart /\ runs[c] < MaxRuns[c]
    /\ Stage(c, "done", "new", <<>>)
    /\ UNCHANGED <<runs, cites>>

-----------------------------------------------------------------------------
\* MemoryService.log_usage: under the lock of the store, one event at a time;
\* the same event is logged once.

\* Mutant: a frozen service without another file logs to the snapshot.
LogHere(c, e) ==
    /\ Override[c] # "inside" \/ c \notin Frozen
    /\ IF Override[c] = "none"
       THEN log' = log \cup {e} /\ UNCHANGED external
       ELSE external' = external \cup {e} /\ UNCHANGED log

\* Frozen, and no other file: dropped. Another file of a frozen service may
\* not be inside the snapshot.
LogUsage(c, e) ==
    /\ Override[c] # "inside" \/ c \notin Frozen
    /\ IF Override[c] = "none"
       THEN log' = (IF c \in Frozen THEN log ELSE log \cup {e}) /\ UNCHANGED external
       ELSE external' = external \cup {e} /\ UNCHANGED log

LogOne(c) ==
    /\ toLog[c] # <<>> /\ ~locked
    /\ toLog' = [toLog EXCEPT ![c] = Tail(@)]
    /\ LogUsage(c, Head(toLog[c]))
    /\ UNCHANGED <<pc, runs, cites, records, journal, consolidation, crashes, failures>>

\* A failure is only reported for the citations of the prediction, whose other
\* events are skipped; later it ends the case.
LogFails(c) ==
    /\ toLog[c] # <<>>
    /\ IF Override[c] = "inside" /\ c \in Frozen
       THEN UNCHANGED failures
       ELSE failures < MaxFailures /\ failures' = failures + 1
    /\ toLog' = [toLog EXCEPT ![c] = <<>>]
    /\ pc' = [pc EXCEPT ![c] = IF @ = "predicted" THEN @ ELSE "done"]
    /\ UNCHANGED <<runs, cites, log, external, records, journal, consolidation, crashes>>

-----------------------------------------------------------------------------
\* Consolidation.

EvaluationSplits == {"validation", "val", "dev", "test", "test_hidden"}

\* Mutant: events of every split count.
EligibleSplits == {e \in log : e.case \notin Frozen /\ e.stage \in {"planner_cited", "argument_cited"}}

\* Mutant: what only the planner cited does not count.
EligibleArguments == {e \in log : e.stage = "argument_cited" /\ e.case \notin Frozen}

\* What counts: cited, not in a frozen run, not of an evaluation split.
Eligible ==
    {e \in log : /\ e.case \notin Frozen
                 /\ Split[e.case] \notin EvaluationSplits
                 /\ e.stage \in {"planner_cited", "argument_cited"}}

\* A use is a case; what was counted is not counted again.
NewUses(m) == {e.case : e \in {x \in Eligible : x.memory = m}} \ records[m].uses

\* Mutant: a success wins.
OutcomeBest(m, c) ==
    LET outcomes == {e.outcome : e \in {x \in Eligible : x.memory = m /\ x.case = c}}
    IN  IF "successful" \in outcomes THEN "successful"
        ELSE IF "contested" \in outcomes THEN "contested"
        ELSE IF "unsuccessful" \in outcomes THEN "unsuccessful" ELSE "unknown"

\* The worst outcome of a use counts.
Outcome(m, c) ==
    LET outcomes == {e.outcome : e \in {x \in Eligible : x.memory = m /\ x.case = c}}
    IN  IF "contested" \in outcomes THEN "contested"
        ELSE IF "unsuccessful" \in outcomes THEN "unsuccessful"
        ELSE IF "successful" \in outcomes THEN "successful" ELSE "unknown"

\* Mutant: the identities of the uses counted before are lost.
RollUpForgets(m) ==
    LET of(outcome) == Cardinality({c \in NewUses(m) : Outcome(m, c) = outcome})
    IN  [uses |-> NewUses(m), version |-> records[m].version + 1,
         count |-> records[m].count + Cardinality(NewUses(m)),
         successful |-> records[m].successful + of("successful"),
         contested |-> records[m].contested + of("contested"),
         unsuccessful |-> records[m].unsuccessful + of("unsuccessful")]

\* Mutant: the version moves twice.
RollUpTwice(m) ==
    LET of(outcome) == Cardinality({c \in NewUses(m) : Outcome(m, c) = outcome})
    IN  [uses |-> records[m].uses \cup NewUses(m), version |-> records[m].version + 2,
         count |-> records[m].count + Cardinality(NewUses(m)),
         successful |-> records[m].successful + of("successful"),
         contested |-> records[m].contested + of("contested"),
         unsuccessful |-> records[m].unsuccessful + of("unsuccessful")]

RollUp(m) ==
    LET of(outcome) == Cardinality({c \in NewUses(m) : Outcome(m, c) = outcome})
    IN  [uses |-> records[m].uses \cup NewUses(m), version |-> records[m].version + 1,
         count |-> records[m].count + Cardinality(NewUses(m)),
         successful |-> records[m].successful + of("successful"),
         contested |-> records[m].contested + of("contested"),
         unsuccessful |-> records[m].unsuccessful + of("unsuccessful")]

\* The transaction: the log and the records are read once, under the lock.
Consolidate ==
    /\ ~locked /\ (Apart => \A c \in Cases : pc[c] \in {"new", "done"})
    /\ LET counted == {m \in LongTerm : NewUses(m) # {}}
       IN  /\ counted # {}
           /\ toWrite' = [m \in counted |-> RollUp(m)]
           /\ toNote' = {[memory |-> m, uses |-> NewUses(m)] : m \in counted}
    /\ locked' = TRUE
    /\ UNCHANGED <<cases, log, external, records, journal, crashes, failures>>

\* upsert_long_term: the file of each type of memory is replaced in turn.
WriteFile(m) ==
    /\ locked /\ m \in DOMAIN toWrite
    /\ records' = [records EXCEPT ![m] = toWrite[m]]
    /\ toWrite' = Restrict(toWrite, DOMAIN toWrite \ {m})
    /\ UNCHANGED <<cases, log, external, journal, toNote, locked, crashes, failures>>

\* Mutant: the events are written first.
NoteFirst(n) ==
    /\ locked /\ n \in toNote
    /\ journal' = journal \cup {n} /\ toNote' = toNote \ {n}
    /\ UNCHANGED <<cases, log, external, records, toWrite, locked, crashes, failures>>

\* The events come after all records.
Note(n) ==
    /\ locked /\ DOMAIN toWrite = {} /\ n \in toNote
    /\ journal' = journal \cup {n} /\ toNote' = toNote \ {n}
    /\ UNCHANGED <<cases, log, external, records, toWrite, locked, crashes, failures>>

Release ==
    /\ locked /\ DOMAIN toWrite = {} /\ toNote = {}
    /\ locked' = FALSE
    /\ UNCHANGED <<cases, log, external, records, journal, toWrite, toNote, crashes, failures>>

\* The process is killed: the system frees its lock.
Crash ==
    /\ locked /\ crashes < MaxCrashes
    /\ crashes' = crashes + 1
    /\ locked' = FALSE /\ toWrite' = <<>> /\ toNote' = {}
    /\ UNCHANGED <<cases, log, external, records, journal, failures>>

-----------------------------------------------------------------------------
Case(c) ==
    \/ Predict(c) \/ Review(c) \/ Supervise(c) \/ Finish(c) \/ LogOne(c)

Consolidator == Consolidate \/ Release \/ (\E m \in LongTerm : WriteFile(m)) \/ (\E n \in toNote : Note(n))

Next ==
    /\ \/ \E c \in Cases : Case(c) \/ LogFails(c) \/ RunAgain(c)
       \/ Consolidator \/ Crash
    /\ UNCHANGED plan

Spec == Init /\ [][Next]_vars

\* A case that is running goes on, and consolidation is run again and again.
FairSpec ==
    /\ Spec /\ WF_vars(Consolidator /\ UNCHANGED plan)
    /\ \A c \in Cases : WF_vars(pc[c] # "done" /\ Case(c) /\ UNCHANGED plan)

-----------------------------------------------------------------------------
Stages == {"retrieved", "planner_cited", "argument_cited"}
OutcomeNames == {"unknown", "contested", "successful", "unsuccessful"}

\* What a case logs: only arguments are contested.
EventsOf(c) ==
    {e \in [case : {c}, memory : Memories, stage : Stages, arg : Args \cup {"none"}, outcome : OutcomeNames] :
        e.outcome = "contested" => e.stage = "argument_cited"}

Usage == [uses : SUBSET Cases, version : Nat, count : Nat,
          successful : Nat, contested : Nat, unsuccessful : Nat]

Notes == [memory : LongTerm, uses : SUBSET Cases]

TypeOK ==
    /\ plan \in DOMAIN Plans
    /\ pc \in [Cases -> {"new", "predicted", "reviewed", "supervised", "done"}]
    /\ runs \in [Cases -> Nat] /\ \A c \in Cases : runs[c] <= MaxRuns[c]
    /\ cites \in [Cases -> [planner : SUBSET Memories, arguments : [Args -> SUBSET Memories]]]
    /\ DOMAIN toLog = Cases /\ \A c \in Cases : toLog[c] \in Seq(EventsOf(c))
    /\ \A e \in log \cup external : e.case \in Cases /\ e \in EventsOf(e.case)
    /\ records \in [LongTerm -> Usage]
    /\ DOMAIN toWrite \subseteq LongTerm /\ \A m \in DOMAIN toWrite : toWrite[m] \in Usage
    /\ journal \subseteq Notes /\ toNote \subseteq Notes
    /\ locked \in BOOLEAN /\ crashes \in 0 .. MaxCrashes /\ failures \in 0 .. MaxFailures

\* Each use is counted once, through crashes, repeated runs and repeated
\* consolidations, and only as one outcome
\* (tests/test_memory_usage_attribution.py:118); a record has no more versions
\* than uses that made one.
Counted(r) ==
    /\ r.count = Cardinality(r.uses)
    /\ r.successful + r.contested + r.unsuccessful <= r.count
    /\ r.version \in 1 .. r.count + 1

\* A case of an evaluation split or of a frozen run never changes the counts of
\* a record (README.md:923-926), whatever file its events went to.
FromTraining(r) == \A c \in r.uses : c \notin Frozen /\ Split[c] \notin EvaluationSplits

\* A frozen run writes nothing to the log of the memory (README.md:926-927).
FrozenElsewhere == \A e \in log : e.case \notin Frozen

\* The events of the log tell of uses that are in the records, also when the
\* consolidation was killed between its writes.
JournalTrue == \A n \in journal : n.uses \subseteq records[n.memory].uses

\* The contested uses of a record are those an outcome of the log says were
\* contested, as long as no consolidation falls into a case and no case is run
\* again.
Contested(m, uses) ==
    {c \in uses : \E e \in log : e.memory = m /\ e.case = c /\ e.outcome = "contested"}

ContestedCounted ==
    \A m \in LongTerm : records[m].contested = Cardinality(Contested(m, records[m].uses))

UsesCounted == \A m \in LongTerm : Counted(records[m]) /\ FromTraining(records[m])

\* The counts of a record are those of the uses that training cases logged.
UsesAccounted ==
    /\ TypeOK /\ UsesCounted /\ FrozenElsewhere /\ JournalTrue
    /\ Apart => ContestedCounted

\* A use that was counted stays counted.
NothingLost == [][\A m \in LongTerm : records[m].uses \subseteq records'[m].uses]_vars

\* What was logged of a training case is counted in the end, although any
\* consolidation may be killed.
LoggedCounted ==
    \A m \in LongTerm, c \in {x \in Cases : Split[x] = "train" /\ x \notin Frozen} :
        (\E e \in log : e.memory = m /\ e.case = c /\ e.stage # "retrieved")
            ~> c \in records[m].uses

-----------------------------------------------------------------------------
\* What the holder of the lock has yet to write and to note accounts for the
\* uses as the records do.
UsesInvariant ==
    /\ TypeOK /\ UsesCounted /\ FrozenElsewhere /\ JournalTrue
    /\ \A m \in DOMAIN toWrite :
         /\ Counted(toWrite[m]) /\ FromTraining(toWrite[m])
         /\ records[m].uses \subseteq toWrite[m].uses
    /\ \A n \in toNote :
         n.uses \subseteq (IF n.memory \in DOMAIN toWrite THEN toWrite[n.memory].uses ELSE records[n.memory].uses)

\* Nothing more is logged of a case whose use may be counted.
ContestedInvariant ==
    Apart =>
      /\ ContestedCounted
      /\ \A c \in Cases : pc[c] \in {"new", "done"} => toLog[c] = <<>>
      /\ \A e \in log : pc[e.case] # "new"
      /\ \A m \in LongTerm : \A c \in records[m].uses : pc[c] = "done"
      /\ \A m \in DOMAIN toWrite :
           /\ \A c \in toWrite[m].uses : pc[c] = "done"
           /\ toWrite[m].contested = Cardinality(Contested(m, toWrite[m].uses))
=============================================================================
