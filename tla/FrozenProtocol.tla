--------------------------- MODULE FrozenProtocol ---------------------------
(***************************************************************************)
(* The evaluation protocols: memory learned case by case, frozen in a      *)
(* snapshot, and evaluated against it, with and without memory; crashes,   *)
(* resumed runs and a snapshot that somebody else changes.                 *)
(* Source: src/evaluation/protocol_runner.py and the evaluators, service   *)
(* and store it drives.                                                    *)
(*                                                                         *)
(* What memory knows is abstracted to the cases it was learned from.       *)
(***************************************************************************)
EXTENDS Naturals, Sequences, FiniteSets, SequencesExt

CONSTANTS
    Train,        \* sequence of the training cases
    Phases,       \* sequence of evaluation phases: [dataset, cases]
    Foreign,      \* a case whose lessons somebody else puts into a snapshot
    Protocols,    \* the protocols in use
    Variants,     \* sequence of ablation variants: whether memory is used
    EveryN,       \* consolidate_every_n_cases
    Resumes, Pairs, Updates,   \* configurations: sets of BOOLEAN
    Sources,      \* what frozen_memory_snapshot may find
    MaxCrashes, MaxTampers     \* bounds

ASSUME ProtocolAssumption ==
    /\ Protocols \subseteq {"static", "prequential", "freeze", "transfer", "ablations"}
    /\ Sources \subseteq {"none", "no manifest", "stale manifest", "empty", "good"}
    /\ {Resumes, Pairs, Updates} \subseteq SUBSET BOOLEAN
    /\ EveryN \in Nat \ {0} /\ {MaxCrashes, MaxTampers} \subseteq Nat
    /\ Train \in Seq(Range(Train)) /\ \A i, j \in DOMAIN Train : Train[i] = Train[j] => i = j
    /\ {Foreign, "unpredicted"} \cap Range(Train) = {}

VARIABLES
    pc, config,   \* where the run is; [protocol, resume, paired, update, source]
    memory,       \* memory directory: [seeded, staged, learned]
    snapshot,     \* [exists, cases, manifest]: what it holds and what it says it holds
    position,     \* [case, entry]: next case, next entry of the plan
    since,        \* cases since the last consolidation
    opened,       \* the state hash taken when the snapshot was opened
    seen,         \* [case -> what memory held when it was predicted in training]
    answers,      \* evaluation: set of [entry, case, seen]
    undone,       \* history: answers given before somebody put the files back
    fresh,        \* history: staged and never looked at by a consolidation
    crashes, tampers

vars == <<pc, config, memory, snapshot, position, since, opened, seen, answers, undone, fresh, crashes, tampers>>

Unpredicted == {"unpredicted"}
NoManifest == {"no manifest"}
TrainCases == Range(Train)
Builds == config.protocol \in {"prequential", "freeze", "transfer"}

PhasesOf(protocol) ==
    IF protocol = "transfer" THEN SelectSeq(Phases, LAMBDA p : p.dataset = "cosmos") ELSE Phases

\* What is evaluated, in order.  A pair is a phase without memory and the same
\* phase with it; every variant of the ablations opens the snapshot anew.
PlanOf(c) ==
    LET Entry(p, use) == [cases |-> p.cases, memory |-> use, opens |-> FALSE]
        Paired(p) == IF c.paired THEN <<Entry(p, FALSE), Entry(p, TRUE)>> ELSE <<Entry(p, TRUE)>>
        Each(use) == [i \in DOMAIN Phases |-> [Entry(Phases[i], use) EXCEPT !.opens = i = 1]]
    IN  CASE c.protocol = "ablations" -> FlattenSeq([i \in DOMAIN Variants |-> Each(Variants[i])])
          [] c.protocol = "static" -> [i \in DOMAIN Phases |-> Entry(Phases[i], TRUE)]
          [] c.protocol \in {"freeze", "transfer"} ->
                FlattenSeq([i \in DOMAIN PhasesOf(c.protocol) |-> Paired(PhasesOf(c.protocol)[i])])
          [] OTHER -> <<>>

Plan == PlanOf(config)

Empty == [seeded |-> FALSE, staged |-> {}, learned |-> {}]

\* A snapshot that was configured, for the protocols that do not build one.
Given(source) ==
    CASE source = "none" -> [exists |-> FALSE, cases |-> {}, manifest |-> NoManifest]
      [] source = "no manifest" -> [exists |-> TRUE, cases |-> {"past"}, manifest |-> NoManifest]
      [] source = "stale manifest" -> [exists |-> TRUE, cases |-> {"past"}, manifest |-> {}]
      [] source = "empty" -> [exists |-> TRUE, cases |-> {}, manifest |-> {}]
      [] source = "good" -> [exists |-> TRUE, cases |-> {"past"}, manifest |-> {"past"}]

Init ==
    /\ pc = "start"
    /\ config \in [protocol: Protocols, resume: Resumes, paired: Pairs, update: Updates, source: Sources]
    /\ Builds => config.source = "none"
    /\ memory = Empty
    /\ snapshot = Given(config.source)
    /\ position = [case |-> 1, entry |-> 1]
    /\ since = 0 /\ opened = NoManifest
    /\ seen = [c \in TrainCases |-> Unpredicted]
    /\ answers = {} /\ undone = {} /\ fresh = {} /\ crashes = 0 /\ tampers = 0

-----------------------------------------------------------------------------
\* run_protocol: a directory that holds memory is refused unless resuming.

Contaminated == memory.seeded \/ memory.staged \cup memory.learned # {} \/ (Builds /\ snapshot.exists)

Start ==
    /\ pc = "start"
    /\ pc' = IF Contaminated /\ ~config.resume THEN "failed: contaminated"
             ELSE IF Builds THEN "seed" ELSE "open"
    /\ UNCHANGED <<config, memory, snapshot, position, since, opened, seen, answers, undone, fresh, crashes, tampers>>

Seed ==
    /\ pc = "seed"
    /\ memory' = [memory EXCEPT !.seeded = TRUE]
    /\ pc' = "predict"
    /\ UNCHANGED <<config, snapshot, position, since, opened, seen, answers, undone, fresh, crashes, tampers>>

-----------------------------------------------------------------------------
\* Training, one case after the other.

\* Mutant: gold is revealed and staged before the prediction.
PredictLate ==
    /\ pc = "predict" /\ position.case <= Len(Train)
    /\ memory' = [memory EXCEPT !.staged = @ \cup {Train[position.case]}]
    /\ seen' = [seen EXCEPT ![Train[position.case]] = memory'.staged]
    /\ pc' = "register"
    /\ UNCHANGED <<config, snapshot, position, since, opened, answers, undone, fresh, crashes, tampers>>

\* With updates the case runs as bootstrap_memory, which also retrieves what is
\* staged; without, it only predicts.
Predict ==
    /\ pc = "predict" /\ position.case <= Len(Train)
    /\ seen' = [seen EXCEPT ![Train[position.case]] =
                    memory.learned \cup (IF config.update THEN memory.staged ELSE {})]
    /\ IF config.update
       THEN pc' = "stage" /\ UNCHANGED position
       ELSE pc' = "predict" /\ position' = [position EXCEPT !.case = @ + 1]
    /\ UNCHANGED <<config, memory, snapshot, since, opened, answers, undone, fresh, crashes, tampers>>

\* ReflectionAgent.reflect: the verifier may reject every candidate; a row that
\* was promoted is not staged again.
Stage ==
    /\ pc = "stage"
    /\ LET case == Train[position.case]
       IN  \/ /\ memory' = [memory EXCEPT !.staged = @ \cup ({case} \ memory.learned)]
              /\ fresh' = fresh \cup ({case} \ memory.learned)
           \/ UNCHANGED <<memory, fresh>>
    /\ pc' = "register"
    /\ UNCHANGED <<config, snapshot, position, since, opened, seen, answers, undone, crashes, tampers>>

\* What a consolidation makes of memory: any of what is staged may be promoted.
Consolidated ==
    {[memory EXCEPT !.staged = @ \ S, !.learned = @ \cup S] : S \in SUBSET memory.staged}

\* register_case_processed.
Register ==
    /\ pc = "register"
    /\ IF since + 1 >= EveryN
       THEN memory' \in Consolidated /\ since' = 0 /\ fresh' = {}
       ELSE since' = since + 1 /\ UNCHANGED <<memory, fresh>>
    /\ position' = [position EXCEPT !.case = @ + 1]
    /\ pc' = "predict"
    /\ UNCHANGED <<config, snapshot, opened, seen, answers, undone, crashes, tampers>>

\* Mutant: no forced consolidation at the end.
FinishWithout ==
    /\ pc = "predict" /\ position.case > Len(Train)
    /\ pc' = IF config.protocol = "prequential" THEN "done" ELSE "snapshot"
    /\ UNCHANGED <<config, memory, snapshot, position, since, opened, seen, answers, undone, fresh, crashes, tampers>>

\* The forced last consolidation.
Finish ==
    /\ pc = "predict" /\ position.case > Len(Train)
    /\ memory' \in Consolidated /\ fresh' = {}
    /\ pc' = IF config.protocol = "prequential" THEN "done" ELSE "snapshot"
    /\ UNCHANGED <<config, snapshot, position, since, opened, seen, answers, undone, crashes, tampers>>

-----------------------------------------------------------------------------
\* The snapshot.

Entry == Plan[position.entry]

CopySnapshot ==
    /\ pc = "snapshot"
    /\ IF snapshot.exists
       THEN pc' = "failed: snapshot exists" /\ UNCHANGED snapshot
       ELSE /\ snapshot' = [exists |-> TRUE, cases |-> memory.learned, manifest |-> NoManifest]
            /\ pc' = "manifest"
    /\ UNCHANGED <<config, memory, position, since, opened, seen, answers, undone, fresh, crashes, tampers>>

WriteManifest ==
    /\ pc = "manifest"
    /\ snapshot' = [snapshot EXCEPT !.manifest = memory.learned]
    /\ opened' = memory.learned
    /\ pc' = "evaluate"
    /\ UNCHANGED <<config, memory, position, since, seen, answers, undone, fresh, crashes, tampers>>

\* _open_frozen_source: a snapshot may be missing or empty only where memory
\* is not retrieved; empty memory is not allowed otherwise.
Open ==
    /\ pc = "open"
    /\ opened' = snapshot.cases
    /\ pc' = IF ~snapshot.exists
             THEN IF Entry.memory THEN "failed: no snapshot" ELSE "evaluate"
             ELSE IF snapshot.manifest = NoManifest THEN "failed: no manifest"
             ELSE IF snapshot.manifest # snapshot.cases THEN "failed: hash mismatch"
             ELSE IF snapshot.cases = {} /\ Entry.memory THEN "failed: empty memory" ELSE "evaluate"
    /\ UNCHANGED <<config, memory, snapshot, position, since, seen, answers, undone, fresh, crashes, tampers>>

-----------------------------------------------------------------------------
\* Evaluation.  The service is frozen: it reads the snapshot and writes nothing.

Answered == {a.case : a \in {b \in answers : b.entry = position.entry}}

Evaluate ==
    /\ pc = "evaluate" /\ position.entry <= Len(Plan)
    /\ \E c \in Entry.cases \ Answered :
          answers' = answers \cup {[entry |-> position.entry, case |-> c,
                                    seen |-> IF Entry.memory THEN snapshot.cases ELSE {}]}
    /\ UNCHANGED <<pc, config, memory, snapshot, position, since, opened, seen, undone, fresh, crashes, tampers>>

\* Mutant: the phases are not gone through.
NextEntryStays ==
    /\ pc = "evaluate" /\ position.entry < Len(Plan)
    /\ Entry.cases = Answered
    /\ UNCHANGED vars

\* The next entry; where it opens the snapshot anew, the last one is checked.
NextEntry ==
    /\ pc = "evaluate" /\ position.entry < Len(Plan)
    /\ Entry.cases = Answered
    /\ position' = [position EXCEPT !.entry = @ + 1]
    /\ pc' = IF ~Plan[position.entry + 1].opens THEN "evaluate"
             ELSE IF snapshot.exists /\ snapshot.cases # opened
             THEN "failed: snapshot changed" ELSE "open"
    /\ UNCHANGED <<config, memory, snapshot, since, opened, seen, answers, undone, fresh, crashes, tampers>>

\* Mutant: the results are written without a look at the hash.
ConcludeUnchecked ==
    /\ pc = "evaluate" /\ position.entry >= Len(Plan)
    /\ Len(Plan) > 0 => Entry.cases = Answered
    /\ pc' = "done"
    /\ UNCHANGED <<config, memory, snapshot, position, since, opened, seen, answers, undone, fresh, crashes, tampers>>

Conclude ==
    /\ pc = "evaluate" /\ position.entry >= Len(Plan)
    /\ Len(Plan) > 0 => Entry.cases = Answered
    /\ pc' = IF snapshot.exists /\ snapshot.cases # opened
             THEN "failed: snapshot changed" ELSE "done"
    /\ UNCHANGED <<config, memory, snapshot, position, since, opened, seen, answers, undone, fresh, crashes, tampers>>

-----------------------------------------------------------------------------
\* The environment.

Running == pc \in {"start", "seed", "predict", "stage", "register", "snapshot", "manifest", "open", "evaluate"}

\* The process dies and is started again with the same configuration.
Crash ==
    /\ Running /\ pc # "start" /\ crashes < MaxCrashes
    /\ crashes' = crashes + 1
    /\ pc' = "start"
    /\ position' = [case |-> 1, entry |-> 1]
    /\ since' = 0 /\ opened' = NoManifest /\ answers' = {} /\ undone' = {}
    /\ UNCHANGED <<config, memory, snapshot, seen, fresh, tampers>>

\* What somebody else may leave in the files of the snapshot: a lesson more,
\* nothing, or again what was there when it was opened.
Foreseen == {snapshot.cases \cup {Foreign}, {}, opened} \ {NoManifest, snapshot.cases}

\* The answers given since the snapshot was opened.
SameOpening(a) == \A e \in a.entry + 1 .. position.entry : ~Plan[e].opens

\* Somebody else writes to the snapshot, also to take back what was written.
Tamper ==
    /\ Running /\ snapshot.exists /\ tampers < MaxTampers
    /\ tampers' = tampers + 1
    /\ \E cases \in Foreseen :
          /\ snapshot' = [snapshot EXCEPT !.cases = cases]
          /\ undone' = IF cases = opened THEN undone \cup {a \in answers : SameOpening(a)} ELSE undone
    /\ UNCHANGED <<pc, config, memory, position, since, opened, seen, answers, fresh, crashes>>

Step ==
    \/ Start \/ Seed \/ Predict \/ Stage \/ Register \/ Finish
    \/ CopySnapshot \/ WriteManifest \/ Open \/ Evaluate \/ NextEntry \/ Conclude

Next == Step \/ Crash \/ Tamper

Spec == Init /\ [][Next]_vars

\* A running process takes its next step; nothing else is assumed.
FairSpec == Spec /\ WF_vars(Step)

-----------------------------------------------------------------------------
TypeOK ==
    /\ config \in [protocol: Protocols, resume: Resumes, paired: Pairs, update: Updates, source: Sources]
    /\ memory \in [seeded: BOOLEAN, staged: SUBSET TrainCases, learned: SUBSET TrainCases]
    /\ position.case \in 1 .. Len(Train) + 1 /\ since \in 0 .. EveryN - 1
    /\ fresh \subseteq memory.staged /\ crashes \in 0 .. MaxCrashes /\ tampers \in 0 .. MaxTampers

PredictedBlind == \A c \in TrainCases : c \notin seen[c]

\* A case is never predicted with memory that learned from its own gold
\* (README.md:910-912; protocol_runner.py:234-238), unless the run was told to
\* resume: then it begins with the first case again, on what it has learned.
NeverFromOwnGold == ~config.resume => PredictedBlind

\* Results are only written if every prediction was made with the memory that
\* the manifest describes, and without memory where it was to be left out,
\* whoever else writes to the snapshot (README.md:916-919, 940-943); but for a
\* write that was undone before the hashes are compared at the end, which the
\* code cannot see (protocol_runner.py:112-122, 217-227, 395-403).
ResultsFromSnapshot ==
    pc = "done" =>
        \A a \in answers :
            IF Plan[a.entry].memory THEN a.seen = snapshot.manifest \/ a \in undone ELSE a.seen = {}

\* Whatever was staged, before a crash or after it, a consolidation has looked
\* at before memory is frozen, though the count since the last one is volatile
\* (memory_service.py:173, protocol_runner.py:296).
FrozenIsConsolidated ==
    Builds /\ pc \in {"snapshot", "manifest", "evaluate", "done"} => fresh = {}

\* A run comes to an end.
RunEnds == <>[](~Running)
=============================================================================
